------------------------------ MODULE MCCaseDesk ------------------------------
(* Small instance of CaseDesk for TLC: two cases, the second perhaps still to be created; requests *)
(* that change the first, add a note to the second and retract it twice, and    *)
(* grouping transactions that attach to the cases or merge them.                *)
EXTENDS CaseDesk, TLC

CONSTANTS u1, u2, d1

Op0 == [case |-> 1, note |-> 1, target |-> "In Progress", disposition |-> NoDisposition,
        reason |-> FALSE, assignee |-> NoUser, match |-> FALSE, actor |-> u1]

MCOps == {
    [kind |-> "transition", match |-> TRUE] @@ Op0,
    [kind |-> "transition", target |-> "Closed", disposition |-> d1, match |-> TRUE] @@ Op0,
    [kind |-> "transition", reason |-> TRUE] @@ Op0,
    [kind |-> "assign", assignee |-> u1] @@ Op0,
    [kind |-> "note", case |-> 2] @@ Op0,
    [kind |-> "retract", case |-> 2] @@ Op0,
    [kind |-> "retract", case |-> 1, actor |-> u2] @@ Op0}

Case1 == [status |-> "In Progress", disposition |-> NoDisposition, assignee |-> NoUser,
          version |-> 2, risk |-> 20, oldest |-> 1]

Absent == [Case1 EXCEPT !.status = "None", !.version = 0, !.risk = 0, !.oldest = -1]

MCSeeds == {[c \in Cases |-> IF c = 1 THEN Case1 ELSE r] :
               r \in {[Case1 EXCEPT !.status = "Open"], Absent}}
=============================================================================
