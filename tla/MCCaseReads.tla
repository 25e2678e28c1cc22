------------------------------ MODULE MCCaseReads ------------------------------
(* Small instance of CaseReads for TLC: three cases with equal risks, equal and *)
(* missing oldest alerts, and ids in another order than their creation; the     *)
(* third may still be to be created.                                            *)
EXTENDS CaseReads

CONSTANTS u1, d1

MCId == [c \in Cases |-> IF c = 1 THEN 2 ELSE IF c = 2 THEN 1 ELSE c]

NoFilter == [status |-> {}, disposition |-> {}, assignee |-> Anyone, created |-> Cases,
             risk_min |-> 0, q |-> {}]

MCFilters == {NoFilter,
    [NoFilter EXCEPT !.status = {"In Progress", "Closed"}, !.disposition = {NoDisposition}],
    [NoFilter EXCEPT !.assignee = Unassigned, !.created = {1, 2}],
    [NoFilter EXCEPT !.assignee = u1, !.risk_min = 20],
    [NoFilter EXCEPT !.q = Notes]}

Case1 == [status |-> "In Progress", disposition |-> NoDisposition, assignee |-> u1,
          version |-> 2, risk |-> 20, oldest |-> 1]

MCSeeds == {
    [c \in Cases |-> IF c = 3 THEN [Case1 EXCEPT !.status = "Merged", !.oldest = -1]
                     ELSE Case1],
    [c \in Cases |-> IF c = 3 THEN [Case1 EXCEPT !.status = "Open", !.assignee = NoUser,
                                                 !.risk = 10, !.oldest = 2]
                     ELSE Case1],
    [c \in Cases |-> IF c = 3 THEN [Case1 EXCEPT !.status = "None", !.assignee = NoUser,
                                       !.version = 0, !.risk = 0, !.oldest = -1]
                     ELSE Case1]}
=============================================================================
