------------------------------- MODULE CaseDesk -------------------------------
(***************************************************************************)
(* The analysts' requests (backend/app/cases/routes.py and service.py) as  *)
(* the transactions they are: the SELECT ... FOR UPDATE that may wait, the *)
(* checks on what it returned, the write, the COMMIT or the rollback; and  *)
(* beside them a grouping transaction that decides on rows it read without *)
(* a lock.  They implement CaseStore, where each is one step.              *)
(*                                                                         *)
(* Request r, when it adds a note, adds note r.  A request is sent from a  *)
(* page the client has loaded: view is the row it showed.                  *)
(***************************************************************************)
EXTENDS Integers, FiniteSets, Sequences

CONSTANTS
    Cases, Seeds, Users, NoUser, NoNote, Dispositions, NoDisposition, Scores, Times,
    Requests,      \* a set of numbers: bound on the requests of a behaviour
    Ops,           \* the requests considered: [kind, case, note, target, disposition,
                   \* reason, assignee, match, actor]
    ActiveUsers,   \* is_active
    Admins,        \* holders of the admin role
    MaxGrouping    \* bound: grouping transactions

Notes == Requests

VARIABLES
    row, note, trail, \* the committed tables, as in CaseStore
    req,      \* req[r]: the state of a request
    plan,     \* the grouping transaction
    grouped,  \* how many there have been
    rewound,  \* history: cases whose version was written from an outdated reading
    overlap   \* history: notes two retractions of which were in flight together

Store == INSTANCE CaseStore

ASSUME DeskAssumption ==
    /\ Cases \subseteq Nat \ {Store!NoCase} /\ Seeds \subseteq [Cases -> Store!Row]
    /\ NoDisposition \notin Dispositions /\ ActiveUsers \subseteq Users
    /\ Scores \subseteq 0..100
    /\ \A op \in Ops : /\ op.kind \in {"transition", "assign", "note", "retract"}
                       /\ op.case \in Cases /\ op.note \in Notes /\ op.actor \in Users

vars == <<row, note, trail, req, plan, grouped, rewound, overlap>>

Idle == [pc |-> "new", op |-> [kind |-> "none", case |-> Store!NoCase],
         view |-> Store!NoRow, read |-> Store!NoRow, loaded |-> Store!Unwritten]

NoPlan == [pc |-> "idle", case |-> Store!NoCase, into |-> Store!NoCase,
           read |-> [c \in Cases |-> Store!NoRow], moved |-> {}, score |-> 0,
           time |-> Store!NoTime]

Init ==
    /\ Store!Init
    /\ req = [r \in Requests |-> Idle]
    /\ plan = NoPlan
    /\ grouped = 0
    /\ rewound = {}
    /\ overlap = {}

tables == <<row, note, trail>>
grouping == <<plan, grouped, rewound>>

-----------------------------------------------------------------------------
(* Requests on a case: transition_case, assign_case, add_note. *)

Op(r) == req[r].op
OnCase(r) == Op(r).kind \in {"transition", "assign", "note"}
Goto(r, pc) == req' = [req EXCEPT ![r].pc = pc]

\* The client has the case on its page and sends the request.
Send(r, op) ==
    /\ req[r].pc = "new"
    /\ \A s \in Requests : s < r => req[s].pc # "new"
    /\ Store!Exists(op.case)
    /\ req' = [req EXCEPT ![r] = [Idle EXCEPT !.pc = "sent", !.op = op, !.view = row[op.case]]]
    /\ UNCHANGED <<tables, grouping, overlap>>

\* Mutant: SELECT without FOR UPDATE.
RowAlwaysFree(c) == TRUE

\* Mutant: the session of a refused request is not closed.
RowKeptByRefused(c) ==
    \A r \in Requests : ~(req[r].pc \in {"locked", "refused"} /\ OnCase(r) /\ Op(r).case = c)

\* No other request holds the row of c.
RowFree(c) == \A r \in Requests : ~(req[r].pc = "locked" /\ OnCase(r) /\ Op(r).case = c)

\* Mutant: If-Match is accepted and ignored.
RefusedAnyVersion(op, view, found) ==
    CASE op.kind = "transition" -> op.target \notin Store!ALLOWED[found.status]
      [] OTHER                  -> found.status = "Merged"

\* The 409 and 422 answers.  A disposition is looked at only when the case is closed.
Refused(op, view, found) ==
    CASE op.kind = "transition" ->
            \/ op.match /\ view.version # found.version
            \/ op.target \notin Store!ALLOWED[found.status]
            \/ op.target = "Closed" /\ op.disposition \notin Dispositions
            \/ found.status = "Closed" /\ ~op.reason
      [] op.kind = "assign" ->
            \/ found.status = "Merged"
            \/ op.assignee \notin ActiveUsers \cup {NoUser}
      [] op.kind = "note" -> found.status = "Merged"

Settled == {"done", "refused", "failed"}

\* SELECT ... FOR UPDATE: waits for the row, then everything is checked on what it
\* returned.  A refusal closes the session, which rolls back.
LockCase(r) ==
    /\ req[r].pc = "sent" /\ OnCase(r)
    /\ RowFree(Op(r).case)
    /\ LET found == row[Op(r).case]
       IN  req' = [req EXCEPT ![r].read = found,
                              ![r].pc = IF Refused(Op(r), req[r].view, found)
                                        THEN "refused" ELSE "locked"]
    /\ UNCHANGED <<tables, grouping, overlap>>

\* The row and the event computed from the row that was read, and the COMMIT.
CommitCase(r) ==
    LET op == Op(r)
        read == req[r].read
        disposition == IF op.target = "Closed" THEN op.disposition ELSE NoDisposition
    IN  /\ req[r].pc = "locked" /\ OnCase(r)
        /\ \/ /\ op.kind = "transition"
              /\ row' = [row EXCEPT ![op.case] = Store!Transitioned(read, op.target, disposition)]
              /\ Store!Log(op.case, Store!TransitionEvent(read, op.target, disposition))
              /\ UNCHANGED note
           \/ /\ op.kind = "assign"
              /\ row' = [row EXCEPT ![op.case] = Store!Assigned(read, op.assignee)]
              /\ Store!Log(op.case, Store!AssignEvent(read, op.assignee))
              /\ UNCHANGED note
           \/ /\ op.kind = "note"
              /\ note' = [note EXCEPT ![r] = [on |-> op.case, author |-> op.actor,
                                              retracted |-> FALSE]]
              /\ Store!Log(op.case, Store!NoteEvent(r))
              /\ UNCHANGED row
        /\ Goto(r, "done")
        /\ UNCHANGED <<grouping, overlap>>

-----------------------------------------------------------------------------
(* Requests on a note: retract_note. *)

Retracting(r, n) == req[r].pc \in {"loaded", "locked"} /\ Op(r).kind = "retract" /\ Op(r).note = n

\* session.get(Note): no lock; the note must be on the case of the URL.
LoadNote(r) ==
    LET n == Op(r).note
        found == note[n]
    IN  /\ req[r].pc = "sent" /\ Op(r).kind = "retract"
        /\ req' = [req EXCEPT ![r].loaded = found,
                    ![r].pc = IF found = Store!Unwritten \/ found.on # Op(r).case
                              THEN "refused" ELSE "loaded"]
        /\ overlap' = IF \E s \in Requests \ {r} : Retracting(s, n)
                      THEN overlap \cup {n} ELSE overlap
        /\ UNCHANGED <<tables, grouping>>

NoteFree(n) ==
    /\ \A s \in Requests : ~(req[s].pc = "locked" /\ Op(s).kind = "retract" /\ Op(s).note = n)
    /\ n \notin plan.moved

\* Mutant: retraction is not idempotent.
NeverRetracted(loaded) == FALSE

AlreadyRetracted(loaded) == loaded.retracted

\* SELECT ... FOR UPDATE finds the note in the session's identity map and returns it
\* as it was loaded: the checks are on that reading.
LockNote(r) ==
    LET loaded == req[r].loaded
    IN  /\ req[r].pc = "loaded"
        /\ NoteFree(Op(r).note)
        /\ Goto(r, IF Op(r).actor # loaded.author /\ Op(r).actor \notin Admins THEN "refused"
                   ELSE IF AlreadyRetracted(loaded) THEN "done" ELSE "locked")
        /\ UNCHANGED <<tables, grouping, overlap>>

\* The flag and the event, in the stream of the case the note was loaded on.
CommitRetraction(r) ==
    /\ req[r].pc = "locked" /\ Op(r).kind = "retract"
    /\ note' = [note EXCEPT ![Op(r).note].retracted = TRUE]
    /\ Store!Log(req[r].loaded.on, Store!RetractEvent(Op(r).note))
    /\ Goto(r, "done")
    /\ UNCHANGED <<row, grouping, overlap>>

\* An exception, a lost connection or a crash.
Rollback(r) ==
    /\ req[r].pc \in {"loaded", "locked"}
    /\ Goto(r, "failed")
    /\ UNCHANGED <<tables, grouping, overlap>>

-----------------------------------------------------------------------------
(* A grouping transaction (its statements one by one are CaseGrouping's). *)

\* The matched cases are read without a lock: none open, one, or two to merge.
ReadCases(c, into, score, time) ==
    /\ plan.pc = "idle" /\ grouped < MaxGrouping
    /\ into # c => Store!IsOpen(row[c])
    /\ \/ Store!IsOpen(row[into]) /\ into <= c
       \/ into = c /\ ~Store!Exists(c) /\ \A d \in Cases : d < c => Store!Exists(d)
    /\ plan' = [NoPlan EXCEPT !.pc = IF into = c THEN "write" ELSE "read", !.case = c,
                              !.into = into, !.read = row, !.score = score, !.time = time]
    /\ grouped' = grouped + 1
    /\ UNCHANGED <<tables, req, rewound, overlap>>

\* UPDATE notes SET case_id: the notes it sees, once none is locked.
MoveNotes ==
    LET seen == {n \in Notes : note[n].on = plan.case}
    IN  /\ plan.pc = "read"
        /\ \A n \in seen : NoteFree(n)
        /\ plan' = [plan EXCEPT !.pc = "write", !.moved = seen]
        /\ UNCHANGED <<tables, req, grouped, rewound, overlap>>

\* The version that was read plus one.
NewVersion(into) == plan.read[into].version + 1

\* The rows of the loser and the target, once they are free, and the COMMIT.
CommitGrouping ==
    LET c == plan.case
        into == plan.into
        score == plan.score
        created == ~Store!Exists(into)
    IN  /\ plan.pc = "write"
        /\ RowFree(c) /\ RowFree(into)
        /\ IF c = into
           THEN /\ row' = [row EXCEPT ![c] =
                      IF created THEN Store!Created(score, plan.time)
                      ELSE Store!Attached(@, NewVersion(c), score, plan.time)]
                /\ Store!Log(c, Store!LinkEvent)
                /\ UNCHANGED note
           ELSE /\ row' = [row EXCEPT
                      ![c] = Store!MergedAway(@),
                      ![into] = Store!Attached(@, NewVersion(into),
                          IF score > row[c].risk THEN score ELSE row[c].risk,
                          Store!Older(row[c].oldest, plan.time))]
                /\ note' = [n \in Notes |->
                      IF n \in plan.moved THEN [note[n] EXCEPT !.on = into] ELSE note[n]]
                /\ trail' = [trail EXCEPT
                      ![c] = Append(@, Store!MergeEvent(plan.read[c].status)),
                      ![into] = Append(@, Store!LinkEvent)]
        /\ rewound' = IF ~created /\ plan.read[into].version # row[into].version
                      THEN rewound \cup {into} ELSE rewound
        /\ plan' = NoPlan
        /\ UNCHANGED <<req, grouped, overlap>>

RollbackGrouping ==
    /\ plan.pc # "idle"
    /\ plan' = NoPlan
    /\ UNCHANGED <<tables, req, grouped, rewound, overlap>>

-----------------------------------------------------------------------------
Answer(r) ==
    \/ LockCase(r) \/ CommitCase(r)
    \/ LoadNote(r) \/ LockNote(r) \/ CommitRetraction(r)

Group ==
    \/ \E c, into \in Cases, score \in Scores, time \in Times : ReadCases(c, into, score, time)
    \/ MoveNotes \/ CommitGrouping \/ RollbackGrouping

Next ==
    \/ \E r \in Requests : Answer(r) \/ Rollback(r) \/ \E op \in Ops : Send(r, op)
    \/ Group

\* A request the server has received and a grouping transaction run on.
Spec ==
    /\ Init /\ [][Next]_vars
    /\ \A r \in Requests : WF_vars(Answer(r))
    /\ WF_vars(MoveNotes \/ CommitGrouping)

-----------------------------------------------------------------------------
\* Locks and readings included, what the requests do to the tables is what the store's
\* one-step operations do: no update is lost, no event quotes a row that has changed.
ImplementsStore == Store!Spec

\* If-Match does what it is for: a transition sent from a page that showed a version is
\* accepted only when nothing of that row has changed since, unless a grouping
\* transaction has written a version it computed from an outdated reading.
AcceptedIsFresh ==
    \A r \in Requests :
        /\ req[r].pc = "locked" /\ Op(r).kind = "transition" /\ Op(r).match
        /\ Op(r).case \notin rewound
        => req[r].read = req[r].view

\* retract_note: "Retraction is idempotent -- an already-retracted note is returned
\* unchanged with no second audit event".  It is when no two retractions of the note
\* are in flight together; retries and repeated clicks after an answer change nothing.
OneRetraction ==
    \A n \in Notes \ overlap :
        Cardinality(UNION {{<<c, i>> : i \in {j \in DOMAIN trail[c] :
            trail[c][j] = Store!RetractEvent(n)}} : c \in Cases}) <= 1

\* A request that is received is answered: no lock is kept by one that was refused,
\* and requests and grouping transactions never wait for each other in a circle.
EveryRequestSettles ==
    \A r \in Requests : req[r].pc = "sent" ~> req[r].pc \in Settled

=============================================================================
