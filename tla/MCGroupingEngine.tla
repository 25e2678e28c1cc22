--------------------------- MODULE MCGroupingEngine ---------------------------
(* Small instances of GroupingEngine for TLC: three rules of grouping.yaml     *)
(* (one that tests the amount), similarity over all six features, and alerts   *)
(* that match by a rule, by similarity, in a chain, or not at all.             *)
EXTENDS GroupingEngine, Sequences, TLC

NoRefs == [k \in BlockingFields |-> Null]

Alert(time, amount, refs, typologies) ==
    [time |-> time, amount |-> amount, ref |-> refs @@ NoRefs, typologies |-> typologies]

\* A chain P1 - P2 - P3 - P4: by customer, by device and amount, by similarity.
\* All share the device: P2 and P4 outside that rule's window, P1 and P3, P1 and P4
\* inside it, with amounts too different to be joined.
P1 == Alert(4, 5, "customer_ref" :> "c1" @@ "device_id" :> "d1", {})
P2 == Alert(1, 50, "customer_ref" :> "c1" @@ "device_id" :> "d1", {})
P3 == Alert(2, 54, "device_id" :> "d1" @@ "merchant_name_normalised" :> "m1", {"t"})
P4 == Alert(4, 900, "device_id" :> "d1" @@ "merchant_name_normalised" :> "m2", {"t"})

\* Nothing to block on.
P5 == Alert(2, 54, <<>>, {"t"})

MCPayload == <<P1, P2, P3, P4, P5>>

\* The chain lies along the ids, against them, and across them (so that paths of two
\* and more form), or two chains share the device; a fifth alert belongs or does not.
MCStored ==
    {Append(chain, last) : last \in {1, 5}, chain \in
        {<<1, 2, 3, 4>>, <<4, 3, 2, 1>>, <<1, 4, 3, 2>>, <<2, 4, 1, 3>>, <<4, 1, 4, 2>>}}


MCRules == {
    [id |-> "same-customer-72h", enabled |-> TRUE, blocking |-> {"customer_ref"}, window |-> 3,
     tolerance |-> 100, match |-> {"customer_ref"}],
    [id |-> "card-testing-burst", enabled |-> TRUE, blocking |-> {"device_id"}, window |-> 2,
     tolerance |-> 10, match |-> {"device_id", "amount_bucket", "amount"}],
    [id |-> "shared-ip-session", enabled |-> FALSE, blocking |-> {"ip_address"}, window |-> 9,
     tolerance |-> 100, match |-> {"ip_address", "session_id"}]}

MCWeights == [time |-> 20, amount |-> 20, name |-> 20, device |-> 15, ip |-> 10, typology |-> 15]
MCDecay == [g \in 0..9 |-> 100 \div (g + 1)]
MCNameRatio == [n \in {"m1", "m2"} \X {"m1", "m2"} |-> IF n[1] = n[2] THEN 100 ELSE 80]
=============================================================================
