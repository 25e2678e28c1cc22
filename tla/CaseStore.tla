------------------------------ MODULE CaseStore ------------------------------
(***************************************************************************)
(* The case tables as a store whose every operation is one step: the       *)
(* abstract specification of the analysts' and the grouping's transactions *)
(* (backend/app/cases/service.py, backend/app/grouping/persistence.py).    *)
(* CaseDesk, with its locks and its readings, implements it; CaseReads     *)
(* runs its readers over it.                                               *)
(*                                                                         *)
(* A case is the rank of its created_at.  A case row carries, besides its  *)
(* own columns, oldest: the earliest event_time of its linked alerts.      *)
(***************************************************************************)
EXTENDS Integers, FiniteSets, Sequences

CONSTANTS
    Cases,         \* a set of numbers
    Seeds,         \* the tables a behaviour may start from
    Notes,
    NoNote,        \* an event that is about no note
    Users,
    NoUser,        \* assignee_id is null
    Dispositions,  \* config.dispositions
    NoDisposition,
    Scores,        \* the risk_scores alerts have
    Times          \* the event_times alerts have

NoCase == 0
NoTime == -1       \* a case without linked alerts

VARIABLES
    row,   \* row[c]: table cases, and c's oldest alert
    note,  \* note[n]: table notes
    trail  \* trail[c]: the audit stream of c, from the start of the behaviour

store == <<row, note, trail>>

Status == {"Open", "In Progress", "Pending Info", "Closed", "Merged"}

Row == [status: Status \cup {"None"}, disposition: Dispositions \cup {NoDisposition},
        assignee: Users \cup {NoUser}, version: Nat, risk: 0..100,
        oldest: Times \cup {NoTime}]

NoRow == [status |-> "None", disposition |-> NoDisposition, assignee |-> NoUser,
          version |-> 0, risk |-> 0, oldest |-> NoTime]

Exists(c) == row[c].status # "None"
IsOpen(r) == r.status \notin {"None", "Merged", "Closed"}

Unwritten == [on |-> NoCase, author |-> NoUser, retracted |-> FALSE]

ALLOWED == [s \in Status |-> CASE s = "Open"         -> {"In Progress"}
                               [] s = "In Progress"  -> {"Pending Info", "Closed"}
                               [] s = "Pending Info" -> {"In Progress"}
                               [] s = "Closed"       -> {"In Progress"}
                               [] s = "Merged"       -> {}]

Event(action, about, before, after) ==
    [action |-> action, about |-> about, before |-> before, after |-> after]

Log(c, event) == trail' = [trail EXCEPT ![c] = Append(@, event)]

-----------------------------------------------------------------------------
(* What each operation makes of a row. *)

Transitioned(r, target, disposition) ==
    [r EXCEPT !.status = target,
              !.version = @ + 1,
              !.disposition = IF target = "Closed" THEN disposition
                              ELSE IF r.status = "Closed" THEN NoDisposition ELSE @]

TransitionEvent(r, target, disposition) ==
    LET after == Transitioned(r, target, disposition)
    IN  Event("case.transitioned", NoNote,
              <<r.status, r.disposition>>, <<after.status, after.disposition>>)

Assigned(r, assignee) == [r EXCEPT !.assignee = assignee, !.version = @ + 1]

AssignEvent(r, assignee) ==
    Event("case.assigned", NoNote, <<r.assignee>>, <<assignee>>)

NoteEvent(n) == Event("case.note_added", n, <<>>, <<>>)
RetractEvent(n) == Event("case.note_retracted", n, <<FALSE>>, <<TRUE>>)

Created(score, time) ==
    [NoRow EXCEPT !.status = "Open", !.version = 1, !.risk = score, !.oldest = time]

Older(t, u) == IF t = NoTime THEN u ELSE IF u = NoTime \/ t <= u THEN t ELSE u

\* risk_aggregation is max: one more alert, of this score and time.
Attached(r, version, score, time) ==
    [r EXCEPT !.version = version,
              !.risk = IF score > @ THEN score ELSE @,
              !.oldest = Older(@, time)]

\* The loser keeps its other columns and has no alerts left.
MergedAway(r) == [r EXCEPT !.status = "Merged", !.oldest = NoTime]

LinkEvent == Event("case.alert_linked", NoNote, <<>>, <<>>)
MergeEvent(status) == Event("case.merged", NoNote, <<status>>, <<"Merged">>)

-----------------------------------------------------------------------------
Init ==
    /\ row \in Seeds
    /\ note = [n \in Notes |-> Unwritten]
    /\ trail = [c \in Cases |-> <<>>]

\* The event quotes the very row the operation changes.
Transition(c, target, disposition) ==
    /\ Exists(c) /\ target \in ALLOWED[row[c].status]
    /\ target = "Closed" <=> disposition # NoDisposition
    /\ row' = [row EXCEPT ![c] = Transitioned(@, target, disposition)]
    /\ Log(c, TransitionEvent(row[c], target, disposition))
    /\ UNCHANGED note

Assign(c, assignee) ==
    /\ Exists(c) /\ row[c].status # "Merged"
    /\ row' = [row EXCEPT ![c] = Assigned(@, assignee)]
    /\ Log(c, AssignEvent(row[c], assignee))
    /\ UNCHANGED note

AddNote(c, n, author) ==
    /\ Exists(c) /\ row[c].status # "Merged"
    /\ note[n] = Unwritten
    /\ note' = [note EXCEPT ![n] = [on |-> c, author |-> author, retracted |-> FALSE]]
    /\ Log(c, NoteEvent(n))
    /\ UNCHANGED row

\* The event is in the stream of the case the retraction found the note on: its own,
\* or, when a merge overtook it, the case the note was merged from.
Retract(n, c) ==
    /\ note[n] # Unwritten
    /\ c # note[n].on => row[c].status = "Merged"
    /\ note' = [note EXCEPT ![n].retracted = TRUE]
    /\ Log(c, RetractEvent(n))
    /\ UNCHANGED row

\* A grouping transaction creates a case for its alert,
Create(c, score, time) ==
    /\ ~Exists(c) /\ \A d \in Cases : d < c => Exists(d)
    /\ row' = [row EXCEPT ![c] = Created(score, time)]
    /\ Log(c, LinkEvent)
    /\ UNCHANGED note

\* attaches it to one, with the version an earlier reading gives,
Attach(c, version, score, time) ==
    /\ Exists(c)
    /\ version \in 1..row[c].version + 1
    /\ row' = [row EXCEPT ![c] = Attached(@, version, score, time)]
    /\ Log(c, LinkEvent)
    /\ UNCHANGED note

\* or merges two: the notes it has seen on the loser move to the survivor, where
\* its own alert is attached.
Merge(loser, survivor, status, moved, version, score, time) ==
    /\ Exists(loser) /\ Exists(survivor) /\ survivor < loser
    /\ moved \subseteq {n \in Notes : note[n].on = loser}
    /\ version \in 1..row[survivor].version + 1
    /\ row' = [row EXCEPT
                ![loser] = MergedAway(@),
                ![survivor] = Attached(@, version,
                    IF score > row[loser].risk THEN score ELSE row[loser].risk,
                    Older(row[loser].oldest, time))]
    /\ note' = [n \in Notes |-> IF n \in moved THEN [note[n] EXCEPT !.on = survivor] ELSE note[n]]
    /\ trail' = [trail EXCEPT ![loser] = Append(@, MergeEvent(status)),
                              ![survivor] = Append(@, LinkEvent)]

Analysts ==
    \E c \in Cases :
        \/ \E s \in Status, d \in Dispositions \cup {NoDisposition} : Transition(c, s, d)
        \/ \E u \in Users \cup {NoUser} : Assign(c, u)
        \/ \E n \in Notes, u \in Users : AddNote(c, n, u)
        \/ \E n \in Notes : Retract(n, c)

Grouping ==
    \E c \in Cases, score \in Scores, time \in Times :
        \/ Create(c, score, time)
        \/ \E v \in 1..row[c].version + 1 : Attach(c, v, score, time)
        \/ \E s \in Cases : \E v \in 1..row[s].version + 1, status \in Status :
              \E moved \in SUBSET {n \in Notes : note[n].on = c} :
                  Merge(c, s, status, moved, v, score, time)

Next == Analysts \/ Grouping

Spec == Init /\ [][Next]_store
=============================================================================
