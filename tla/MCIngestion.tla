---------------------------- MODULE MCIngestion -----------------------------
(* Instances of Ingestion for TLC. *)
EXTENDS Ingestion, TLC

CONSTANTS a1, a2, b1, b2, k1, n1, n2, NoKey

I(a, b) == [alert |-> a, body |-> b]
C(item, header) == [item |-> item, header |-> header]

\* An alert with a key and, with another body, without; and another alert.
SomeCalls == {C(I(a1, b1), k1), C(I(a1, b2), NoKey), C(I(a2, b1), NoKey)}

OwnKeys == a1 :> n1 @@ a2 :> n2

\* source_system:external_alert_id is the same string for both alerts.
SameKeys == a1 :> n1 @@ a2 :> n1

OneCall == {C(I(a1, b1), NoKey)}

\* Batches in opposite orders, one with a tail after a full chunk, one with the
\* same alert twice in a chunk, and an empty one.
SomeBatches == {<<I(a1, b1), I(a2, b1)>>, <<I(a2, b2), I(a1, b2), I(a2, b2)>>,
                <<I(a2, b1), I(a2, b2)>>, <<>>}

FullBatches == SomeBatches \ {<<>>}

\* Two requests, as two batches, are alike.
Alike == Permutations(Requests) \cup Permutations(Batches)
=============================================================================
