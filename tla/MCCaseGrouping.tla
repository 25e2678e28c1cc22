--------------------------- MODULE MCCaseGrouping ---------------------------
(* Instances of CaseGrouping for TLC. *)
EXTENDS CaseGrouping, TLC

CONSTANTS a1, a2, a3, a4, a5

Pairs(A) == {{a, b} : a, b \in A} \ {{a} : a \in A}

\* Every two alerts share a blocking key and match.
AllPairs == Pairs({a1, a2, a3, a4, a5})

\* a3 shares a key with everything and joins a1 to a2, which do not match each
\* other; a4 shares a key with all and matches only a2.
BridgePairs == {{a1, a3}, {a2, a3}, {a2, a4}, {a5, a2}}

Scores5 == a1 :> 10 @@ a2 :> 40 @@ a3 :> 90 @@ a4 :> 70 @@ a5 :> 90
Scores4 == a1 :> 10 @@ a2 :> 40 @@ a3 :> 90 @@ a4 :> 70
Scores3 == a1 :> 10 @@ a2 :> 40 @@ a3 :> 90

OneSeed == <<a1>>
TwoSeeds == <<a1, a2>>
=============================================================================
