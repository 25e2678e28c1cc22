---------------------------- MODULE CasePartition ----------------------------
(***************************************************************************)
(* What grouping promises of the canonical cases, whatever the engine and  *)
(* the order alerts are grouped in: the grouped alerts are partitioned     *)
(* into cases, one alert is added at a time, and it is put together with   *)
(* cases it is connected to by evidence (pairs of alerts that match).      *)
(* Cases are only ever joined: two alerts once in one case stay together.  *)
(***************************************************************************)
CONSTANT Alerts

VARIABLES
    evidence, \* the pairs <<a, b>> of alerts that match
    classes   \* the cases, each the set of its alerts

partition == <<evidence, classes>>

Grouped == UNION classes

\* The sets of alerts, among ids, that no pair of evidence among ids leaves.
Uncut(ids) ==
    {S \in SUBSET ids : \A e \in evidence \cap (ids \X ids) : e[1] \in S <=> e[2] \in S}

\* Evidence among the grouped alerts and a leads from a to b.
Connected(a, b) == \A S \in Uncut(Grouped \cup {a}) : a \in S => b \in S

Init ==
    /\ evidence \in SUBSET (Alerts \X Alerts)
    /\ classes = {}

\* Alert a is grouped with some of the cases that hold an alert it is connected
\* to (with none of them when they are closed or out of the engine's reach).
Group(a) ==
    /\ a \notin Grouped /\ a \in Grouped'
    /\ \E joined \in SUBSET classes :
        /\ classes' = (classes \ joined) \cup {(UNION joined) \cup {a}}
        /\ \A K \in joined : \E b \in K : Connected(a, b)
    /\ UNCHANGED evidence

Next == \E a \in Alerts : Group(a)

Spec == Init /\ [][Next]_partition
=============================================================================
