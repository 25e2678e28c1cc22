---------------------------- MODULE CaseDeskProofs ----------------------------
(***************************************************************************)
(* The analysts' requests and the grouping transactions, with their locks  *)
(* and their readings, implement the one-step operations of CaseStore;     *)
(* If-Match accepts a fresh page only; and a note gets one retraction      *)
(* event, however often its retraction is asked for, unless two of them    *)
(* are in flight together.  All for any number of cases, requests and      *)
(* grouping transactions.                                                  *)
(***************************************************************************)
EXTENDS CaseDesk, DataTheorems, FiniteSetTheorems, TLAPS

NoteRow == [on: Cases \cup {Store!NoCase}, author: Users \cup {NoUser}, retracted: BOOLEAN]

TypeOK ==
    /\ row \in [Cases -> Store!Row]
    /\ note \in [Notes -> NoteRow]
    /\ req \in [Requests -> [pc: {"new", "sent", "loaded", "locked"} \cup Settled,
                             op: Ops \cup {Idle.op}, view: Store!Row, read: Store!Row,
                             loaded: NoteRow]]
    /\ plan \in [pc: {"idle", "read", "write"}, case: Cases \cup {Store!NoCase},
                 into: Cases \cup {Store!NoCase}, read: [Cases -> Store!Row],
                 moved: SUBSET Notes, score: Scores \cup {0},
                 time: Times \cup {Store!NoTime}]
    /\ rewound \subseteq Cases

-----------------------------------------------------------------------------
(* What a request has read, between the statements that read and write.    *)

\* A request is about a case of the table.
Asked(r) == req[r].pc # "new" => Op(r) \in Ops /\ Store!Exists(Op(r).case)

\* Its lock keeps the row it has read, and what it has checked, true.
HoldsRow(r) == req[r].pc = "locked" /\ OnCase(r)

ReadIsRow(r) ==
    HoldsRow(r) => /\ req[r].read = row[Op(r).case]
                   /\ ~Refused(Op(r), req[r].view, req[r].read)

LocksExclusive ==
    \A r, s \in Requests : HoldsRow(r) /\ HoldsRow(s) /\ Op(r).case = Op(s).case => r = s

\* A note that was loaded is still there, unless a merge took it off a case that is
\* merged since.
LoadedNote(r) ==
    req[r].pc = "loaded" \/ (req[r].pc = "locked" /\ ~OnCase(r)) =>
        /\ Op(r).kind = "retract"
        /\ req[r].loaded.on \in Cases /\ note[Op(r).note].on \in Cases
        /\ req[r].loaded.on # note[Op(r).note].on => row[req[r].loaded.on].status = "Merged"

\* A page's version is never ahead of the row's, and the same version is the same row,
\* a merged one apart, as long as no outdated version has been written.
PageAgrees(r) ==
    req[r].pc # "new" /\ Op(r).case \notin rewound =>
        LET view == req[r].view
            now == row[Op(r).case]
        IN  /\ view.version <= now.version
            /\ view.version = now.version /\ now.status # "Merged" => view = now

\* Only the request that is done has written its note.
NoteAgrees(r) ==
    note[r] = Store!Unwritten \/ (note[r].on \in Cases /\ req[r].pc = "done")

RequestsAgree ==
    \A r \in Requests :
        Asked(r) /\ ReadIsRow(r) /\ LoadedNote(r) /\ PageAgrees(r) /\ NoteAgrees(r)

\* What a grouping transaction has read is behind the rows but of rows that exist, and
\* the notes it has locked stay on its loser.
PlanAgrees ==
    /\ plan.moved \subseteq {n \in Notes : note[n].on = plan.case}
    /\ plan.pc = "idle" => plan.moved = {}
    /\ plan.pc # "idle" =>
         /\ plan.case \in Cases /\ plan.into \in Cases
         /\ plan.score \in Scores /\ plan.time \in Times
         /\ \A c \in Cases : plan.read[c].version <= row[c].version
         /\ plan.into # plan.case => /\ plan.into < plan.case
                                     /\ plan.read[plan.case].status \in Store!Status
                                     /\ Store!Exists(plan.case) /\ Store!Exists(plan.into)
         /\ plan.into = plan.case => \A d \in Cases : d < plan.case /\ ~Store!Exists(plan.case)
                                                      => Store!Exists(d)

DeskInv == TypeOK /\ RequestsAgree /\ LocksExclusive /\ PlanAgrees

-----------------------------------------------------------------------------
(* Rows. *)

LEMMA NoRowType ==
  /\ Store!NoRow \in Store!Row /\ Store!Unwritten \in NoteRow
  /\ Store!Unwritten.on \notin Cases
<1>1. Store!NoRow \in Store!Row /\ Store!Unwritten \in NoteRow
  BY DEF Store!NoRow, Store!Row, Store!NoTime, Store!Unwritten, NoteRow
<1>2. Store!NoCase \notin Cases
  BY DeskAssumption
<1>. QED
  BY <1>1, <1>2 DEF Store!Unwritten

\* Nothing follows a merge.
LEMMA AllowedStatus ==
  \A s \in Store!Status : \A t \in Store!ALLOWED[s] :
      t \in Store!Status \ {"Merged"} /\ s # "Merged"
BY DEF Store!Status, Store!ALLOWED

\* What each operation makes of a row that exists: one that exists.
LEMMA RowOps ==
  ASSUME NEW r \in Store!Row
  PROVE  /\ \A t \in Store!Status, d \in Dispositions \cup {NoDisposition} :
              /\ Store!Transitioned(r, t, d) \in Store!Row
              /\ Store!Transitioned(r, t, d).version = r.version + 1
              /\ Store!Transitioned(r, t, d).status = t
         /\ \A u \in Users \cup {NoUser} :
              /\ Store!Assigned(r, u) \in Store!Row
              /\ Store!Assigned(r, u).version = r.version + 1
              /\ Store!Assigned(r, u).status = r.status
         /\ Store!MergedAway(r) \in Store!Row
         /\ Store!MergedAway(r).status = "Merged"
         /\ Store!MergedAway(r).version = r.version
<1>1. ASSUME NEW t \in Store!Status, NEW d \in Dispositions \cup {NoDisposition}
      PROVE  /\ Store!Transitioned(r, t, d) \in Store!Row
             /\ Store!Transitioned(r, t, d).version = r.version + 1
             /\ Store!Transitioned(r, t, d).status = t
  <2>. DEFINE e == IF t = "Closed" THEN d
                   ELSE IF r.status = "Closed" THEN NoDisposition ELSE r.disposition
  <2>1. Store!Transitioned(r, t, d)
          = [r EXCEPT !.status = t, !.version = r.version + 1, !.disposition = e]
    BY DEF Store!Transitioned
  <2>2. e \in Dispositions \cup {NoDisposition} /\ r.version + 1 \in Nat
    BY DEF Store!Row
  <2>. QED
    BY <2>1, <2>2 DEF Store!Row
<1>2. ASSUME NEW u \in Users \cup {NoUser}
      PROVE  /\ Store!Assigned(r, u) \in Store!Row
             /\ Store!Assigned(r, u).version = r.version + 1
             /\ Store!Assigned(r, u).status = r.status
  <2>1. Store!Assigned(r, u) = [r EXCEPT !.assignee = u, !.version = r.version + 1]
    BY DEF Store!Assigned
  <2>2. r.version + 1 \in Nat
    BY DEF Store!Row
  <2>. QED
    BY <2>1, <2>2 DEF Store!Row
<1>3. /\ Store!MergedAway(r) \in Store!Row /\ Store!MergedAway(r).status = "Merged"
      /\ Store!MergedAway(r).version = r.version
  BY DEF Store!MergedAway, Store!Row, Store!Status, Store!NoTime
<1>. QED
  BY <1>1, <1>2, <1>3

LEMMA AttachedRow ==
  ASSUME NEW r \in Store!Row, NEW v \in Nat, NEW score \in 0..100,
         NEW time \in Times \cup {Store!NoTime}
  PROVE  /\ Store!Attached(r, v, score, time) \in Store!Row
         /\ Store!Attached(r, v, score, time).version = v
         /\ Store!Attached(r, v, score, time).status = r.status
<1>1. Store!Older(r.oldest, time) \in Times \cup {Store!NoTime}
  BY DEF Store!Older, Store!Row
<1>2. (IF score > r.risk THEN score ELSE r.risk) \in 0..100
  BY DEF Store!Row
<1>. QED
  BY <1>1, <1>2, ZenonT(30) DEF Store!Attached, Store!Row

LEMMA CreatedRow ==
  ASSUME NEW score \in 0..100, NEW time \in Times
  PROVE  /\ Store!Created(score, time) \in Store!Row
         /\ Store!Created(score, time).status = "Open"
BY DEF Store!Created, Store!NoRow, Store!Row, Store!Status

-----------------------------------------------------------------------------
LEMMA DeskInit == Init => DeskInv /\ Store!Init
<1>. SUFFICES ASSUME Init PROVE DeskInv
  BY DEF Init
<1>1. row \in [Cases -> Store!Row] /\ note = [n \in Notes |-> Store!Unwritten]
  BY DeskAssumption DEF Init, Store!Init
<1>2. req = [r \in Requests |-> Idle] /\ plan = NoPlan /\ rewound = {}
  BY DEF Init
<1>3. TypeOK
  BY <1>1, <1>2, NoRowType DEF TypeOK, Idle, NoPlan, Notes
<1>4. RequestsAgree
  BY <1>1, <1>2 DEF RequestsAgree, Asked, ReadIsRow, HoldsRow, LoadedNote, PageAgrees,
                    NoteAgrees, Idle, Notes
<1>5. LocksExclusive
  BY <1>2 DEF LocksExclusive, HoldsRow, Idle
<1>6. PlanAgrees
  BY <1>2 DEF PlanAgrees, NoPlan
<1>. QED
  BY <1>3, <1>4, <1>5, <1>6 DEF DeskInv

-----------------------------------------------------------------------------
(* Steps that read, or end without a write. *)

\* A request r moves on, and the tables and everybody else stay as they are.
LEMMA RequestMoves ==
  ASSUME DeskInv, NEW r \in Requests,
         UNCHANGED <<row, note, plan, rewound>>,
         TypeOK', \A s \in Requests \ {r} : req'[s] = req[s],
         req[r].pc # "done",
         Asked(r)', ReadIsRow(r)', LoadedNote(r)', PageAgrees(r)',
         HoldsRow(r)' => \A s \in Requests \ {r} : ~(HoldsRow(s) /\ Op(s).case = Op(r)'.case)
  PROVE  DeskInv'
<1>. USE DEF DeskInv
<1>1. ASSUME NEW s \in Requests
      PROVE  Asked(s)' /\ ReadIsRow(s)' /\ LoadedNote(s)' /\ PageAgrees(s)'
  <2>1. CASE s = r
    BY <2>1
  <2>2. CASE s # r
    <3>1. req'[s] = req[s] /\ Asked(s) /\ ReadIsRow(s) /\ LoadedNote(s) /\ PageAgrees(s)
      BY <2>2 DEF RequestsAgree
    <3>. QED
      BY <3>1 DEF Asked, ReadIsRow, HoldsRow, LoadedNote, PageAgrees, Op, OnCase, Store!Exists
  <2>. QED
    BY <2>1, <2>2
<1>2. ASSUME NEW s \in Requests PROVE NoteAgrees(s)'
  BY DEF RequestsAgree, NoteAgrees
<1>3. LocksExclusive'
  <2>1. \A s \in Requests \ {r} : (HoldsRow(s) <=> HoldsRow(s)') /\ Op(s)' = Op(s)
    BY DEF HoldsRow, Op, OnCase
  <2>. QED
    BY <2>1 DEF LocksExclusive
<1>4. PlanAgrees'
  BY DEF PlanAgrees, Store!Exists
<1>. QED
  BY <1>1, <1>2, <1>3, <1>4 DEF RequestsAgree

LEMMA SendStep ==
  ASSUME DeskInv, NEW r \in Requests, NEW op \in Ops, Send(r, op)
  PROVE  DeskInv'
<1>. USE DEF DeskInv
<1>1. /\ UNCHANGED <<row, note, plan, rewound>>
      /\ Store!Exists(op.case) /\ req[r].pc = "new"
      /\ req' = [req EXCEPT ![r] = [Idle EXCEPT !.pc = "sent", !.op = op, !.view = row[op.case]]]
  BY DEF Send, tables, grouping
<1>2. op.case \in Cases
  BY DeskAssumption
<1>3. /\ req'[r].pc = "sent" /\ req'[r].op = op /\ req'[r].view = row[op.case]
      /\ \A s \in Requests \ {r} : req'[s] = req[s]
  BY <1>1 DEF TypeOK, Idle
<1>4. TypeOK'
  BY <1>1, <1>2, NoRowType DEF TypeOK, Idle
<1>5. Asked(r)' /\ ReadIsRow(r)' /\ LoadedNote(r)' /\ ~HoldsRow(r)'
  BY <1>1, <1>3 DEF Asked, ReadIsRow, HoldsRow, LoadedNote, Op, Store!Exists
<1>6. PageAgrees(r)'
  <2>1. row[op.case].version \in Nat
    BY <1>2 DEF TypeOK, Store!Row
  <2>. QED
    BY <1>1, <1>3, <2>1 DEF PageAgrees, Op
<1>. QED
  BY <1>1, <1>3, <1>4, <1>5, <1>6, RequestMoves

LEMMA LockCaseStep ==
  ASSUME DeskInv, NEW r \in Requests, LockCase(r)
  PROVE  DeskInv'
<1>. USE DEF DeskInv
<1>. DEFINE found == row[Op(r).case]
            refused == Refused(Op(r), req[r].view, found)
<1>1. /\ UNCHANGED <<row, note, plan, rewound>>
      /\ req[r].pc = "sent" /\ OnCase(r) /\ RowFree(Op(r).case)
      /\ req' = [req EXCEPT ![r].read = found,
                            ![r].pc = IF refused THEN "refused" ELSE "locked"]
  BY DEF LockCase, tables, grouping
<1>2. Op(r) \in Ops /\ Op(r).case \in Cases /\ Store!Exists(Op(r).case)
  BY <1>1, DeskAssumption DEF RequestsAgree, Asked
<1>3. /\ req'[r].op = req[r].op /\ req'[r].view = req[r].view /\ req'[r].read = found
      /\ req'[r].pc = IF refused THEN "refused" ELSE "locked"
      /\ \A s \in Requests \ {r} : req'[s] = req[s]
  BY <1>1 DEF TypeOK
<1>4. TypeOK'
  <2>1. found \in Store!Row
    BY <1>2 DEF TypeOK
  <2>2. req' \in [Requests -> [pc: {"new", "sent", "loaded", "locked"} \cup Settled,
                             op: Ops \cup {Idle.op}, view: Store!Row, read: Store!Row,
                             loaded: NoteRow]]
    BY <1>1, <2>1 DEF TypeOK, Settled
  <2>. QED
    BY <1>1, <2>2 DEF TypeOK
<1>5. Asked(r)' /\ LoadedNote(r)' /\ PageAgrees(r)'
  <2>. HIDE DEF found, refused
  <2>1. Asked(r)'
    BY <1>1, <1>2, <1>3 DEF Asked, Op, Store!Exists
  <2>2. LoadedNote(r)'
    BY <1>1, <1>3 DEF LoadedNote, Op, OnCase
  <2>3. PageAgrees(r)
    BY DEF RequestsAgree
  <2>4. PageAgrees(r)'
    BY <1>1, <1>3, <2>3 DEF PageAgrees, Op
  <2>. QED
    BY <2>1, <2>2, <2>4
<1>6. ReadIsRow(r)'
  BY <1>1, <1>3 DEF ReadIsRow, HoldsRow, Op
<1>7. \A s \in Requests \ {r} : ~(HoldsRow(s) /\ Op(s).case = Op(r)'.case)
  BY <1>1, <1>3 DEF RowFree, HoldsRow, Op
<1>. QED
  BY <1>1, <1>3, <1>4, <1>5, <1>6, <1>7, RequestMoves

LEMMA LoadNoteStep ==
  ASSUME DeskInv, NEW r \in Requests, LoadNote(r)
  PROVE  DeskInv'
<1>. USE DEF DeskInv
<1>. DEFINE n == Op(r).note
            found == note[n]
            gone == found = Store!Unwritten \/ found.on # Op(r).case
<1>1. /\ UNCHANGED <<row, note, plan, rewound>>
      /\ req[r].pc = "sent" /\ Op(r).kind = "retract"
      /\ req' = [req EXCEPT ![r].loaded = found,
                            ![r].pc = IF gone THEN "refused" ELSE "loaded"]
  BY DEF LoadNote, tables, grouping
<1>2. Op(r) \in Ops /\ n \in Notes /\ Store!Exists(Op(r).case)
  BY <1>1, DeskAssumption DEF RequestsAgree, Asked
<1>3. /\ req'[r].op = req[r].op /\ req'[r].view = req[r].view /\ req'[r].loaded = found
      /\ req'[r].pc = IF gone THEN "refused" ELSE "loaded"
      /\ \A s \in Requests \ {r} : req'[s] = req[s]
  BY <1>1 DEF TypeOK
<1>4. TypeOK'
  <2>1. found \in NoteRow
    BY <1>2 DEF TypeOK
  <2>2. req' \in [Requests -> [pc: {"new", "sent", "loaded", "locked"} \cup Settled,
                             op: Ops \cup {Idle.op}, view: Store!Row, read: Store!Row,
                             loaded: NoteRow]]
    BY <1>1, <2>1 DEF TypeOK, Settled
  <2>. QED
    BY <1>1, <2>2 DEF TypeOK
<1>5. Asked(r)' /\ ReadIsRow(r)' /\ PageAgrees(r)' /\ ~HoldsRow(r)'
  <2>. HIDE DEF found, gone
  <2>1. Asked(r)'
    BY <1>1, <1>2, <1>3 DEF Asked, Op, Store!Exists
  <2>2. ReadIsRow(r)' /\ ~HoldsRow(r)'
    BY <1>1, <1>3 DEF ReadIsRow, HoldsRow, Op, OnCase
  <2>3. PageAgrees(r)
    BY DEF RequestsAgree
  <2>4. PageAgrees(r)'
    BY <1>1, <1>3, <2>3 DEF PageAgrees, Op
  <2>. QED
    BY <2>1, <2>2, <2>4
<1>6. LoadedNote(r)'
  <2>1. ~gone => found.on \in Cases
    BY <1>2 DEF RequestsAgree, NoteAgrees, Notes
  <2>. HIDE DEF gone
  <2>2. req'[r].pc = "loaded" => ~gone
    BY <1>3
  <2>3. req'[r].pc \in {"refused", "loaded"}
    BY <1>3
  <2>4. ~gone => found.on \in Cases /\ note'[n].on = found.on /\ Op(r)' = Op(r)
    BY <1>1, <1>3, <2>1 DEF Op
  <2>. QED
    BY <1>1, <1>3, <2>2, <2>3, <2>4 DEF LoadedNote
<1>. QED
  BY <1>1, <1>3, <1>4, <1>5, <1>6, RequestMoves

\* LockNote and a rollback change a pc only.
LEMMA LockNoteStep ==
  ASSUME DeskInv, NEW r \in Requests, LockNote(r) \/ Rollback(r)
  PROVE  DeskInv'
<1>. USE DEF DeskInv
<1>1. PICK pc \in {"refused", "done", "locked", "failed"} :
        /\ req' = [req EXCEPT ![r].pc = pc]
        /\ pc = "locked" => req[r].pc = "loaded"
  BY DEF LockNote, Rollback, Goto
<1>2. /\ UNCHANGED <<row, note, plan, rewound>> /\ req[r].pc \in {"loaded", "locked"}
  BY DEF LockNote, Rollback, tables, grouping
<1>3. /\ req'[r].op = req[r].op /\ req'[r].view = req[r].view
      /\ req'[r].loaded = req[r].loaded /\ req'[r].pc = pc
      /\ \A s \in Requests \ {r} : req'[s] = req[s]
  BY <1>1 DEF TypeOK
<1>4. TypeOK'
  <2>1. req' \in [Requests -> [pc: {"new", "sent", "loaded", "locked"} \cup Settled,
                             op: Ops \cup {Idle.op}, view: Store!Row, read: Store!Row,
                             loaded: NoteRow]]
    BY <1>1 DEF TypeOK, Settled
  <2>. QED
    BY <1>2, <2>1 DEF TypeOK
<1>5. Asked(r) /\ LoadedNote(r) /\ PageAgrees(r)
  BY DEF RequestsAgree
<1>6. Asked(r)' /\ LoadedNote(r)' /\ PageAgrees(r)' /\ ~HoldsRow(r)' /\ ReadIsRow(r)'
  <2>1. Asked(r)' /\ PageAgrees(r)'
    BY <1>2, <1>3, <1>5 DEF Asked, PageAgrees, Op, Store!Exists
  <2>2. LoadedNote(r)' /\ ~HoldsRow(r)' /\ ReadIsRow(r)'
    BY <1>1, <1>2, <1>3, <1>5 DEF LoadedNote, HoldsRow, ReadIsRow, Op, OnCase
  <2>. QED
    BY <2>1, <2>2
<1>. QED
  BY <1>2, <1>3, <1>4, <1>6, RequestMoves

-----------------------------------------------------------------------------
(* Commits of a request. *)

LEMMA Finishing ==
  ASSUME TypeOK, NEW r \in Requests, Goto(r, "done")
  PROVE  /\ req' \in [Requests -> [pc: {"new", "sent", "loaded", "locked"} \cup Settled,
                             op: Ops \cup {Idle.op}, view: Store!Row, read: Store!Row,
                             loaded: NoteRow]]
         /\ req'[r].pc = "done"
         /\ \A s \in Requests : /\ req'[s].op = req[s].op /\ req'[s].view = req[s].view
                                /\ s # r => req'[s] = req[s]
BY DEF TypeOK, Goto, Settled

\* A new version of the row of r is written under its lock.
LEMMA RowWritten ==
  ASSUME DeskInv, NEW r \in Requests, HoldsRow(r), NEW new \in Store!Row,
         row' = [row EXCEPT ![Op(r).case] = new],
         new.version = row[Op(r).case].version + 1, new.status # "None",
         row[Op(r).case].status # "Merged",
         Goto(r, "done"), UNCHANGED <<note, plan, rewound>>
  PROVE  DeskInv'
<1>. USE DEF DeskInv
<1>. DEFINE c == Op(r).case
<1>1. c \in Cases
  BY DeskAssumption DEF RequestsAgree, Asked, HoldsRow
<1>2. /\ row'[c] = new /\ \A d \in Cases \ {c} : row'[d] = row[d]
      /\ row' \in [Cases -> Store!Row]
  BY <1>1 DEF TypeOK
<1>3. TypeOK'
  BY <1>2, Finishing DEF TypeOK
<1>4. \A d \in Cases : row[d].version \in Nat /\ row'[d].version \in Nat
  BY <1>2 DEF TypeOK, Store!Row
<1>5. \A d \in Cases : /\ row[d].version <= row'[d].version
                       /\ Store!Exists(d) => Store!Exists(d)'
                       /\ row[d].status = "Merged" => row'[d].status = "Merged"
  BY <1>1, <1>2, <1>4 DEF Store!Exists
<1>6. ASSUME NEW s \in Requests
      PROVE  Asked(s)' /\ ReadIsRow(s)' /\ LoadedNote(s)' /\ PageAgrees(s)' /\ NoteAgrees(s)'
  <2>1. /\ Asked(s) /\ ReadIsRow(s) /\ LoadedNote(s) /\ PageAgrees(s) /\ NoteAgrees(s)
        /\ req'[s].op = req[s].op /\ req'[s].view = req[s].view
        /\ s # r => req'[s] = req[s]
        /\ req[r].pc # "new" /\ req'[r].pc = "done"
    BY Finishing DEF RequestsAgree, HoldsRow
  <2>2. req[s].pc # "new" => Op(s) \in Ops /\ Op(s).case \in Cases
    BY <2>1, DeskAssumption DEF Asked
  <2>3. Asked(s)' /\ NoteAgrees(s)'
    BY <2>1, <2>2, <1>5 DEF Asked, NoteAgrees, Op
  <2>4. ReadIsRow(s)'
    <3>1. CASE s = r
      BY <3>1, <2>1 DEF ReadIsRow, HoldsRow
    <3>2. CASE s # r
      <4>1. HoldsRow(s)' => HoldsRow(s) /\ Op(s).case # c /\ Op(s).case \in Cases
        BY <2>1, <2>2, <3>2 DEF LocksExclusive, HoldsRow, Op, OnCase
      <4>. QED
        BY <4>1, <2>1, <3>2, <1>2 DEF ReadIsRow, HoldsRow, Op, OnCase
    <3>. QED
      BY <3>1, <3>2
  <2>5. LoadedNote(s)'
    BY <2>1, <1>5 DEF LoadedNote, Op, OnCase
  <2>6. PageAgrees(s)'
    <3>1. req[s].view.version \in Nat
      BY DEF TypeOK, Store!Row
    <3>2. CASE Op(s).case = c
      BY <3>1, <3>2, <2>1, <1>1, <1>2, <1>4 DEF PageAgrees, Op
    <3>3. CASE Op(s).case # c
      BY <3>3, <2>1, <2>2, <1>2 DEF PageAgrees, Op
    <3>. QED
      BY <3>2, <3>3
  <2>. QED
    BY <2>1, <2>3, <2>4, <2>5, <2>6
<1>7. LocksExclusive'
  BY Finishing DEF LocksExclusive, HoldsRow, Op, OnCase
<1>8. PlanAgrees'
  <2>1. \A d \in Cases : plan.read[d].version \in Nat
    BY DEF TypeOK, Store!Row
  <2>. QED
    BY <2>1, <1>4, <1>5 DEF PlanAgrees
<1>. QED
  BY <1>3, <1>6, <1>7, <1>8 DEF RequestsAgree

\* A note is written or changed, and stays where it is if it was there.
LEMMA NoteWritten ==
  ASSUME DeskInv, NEW r \in Requests, req[r].pc = "locked", NEW n \in Notes, NEW new \in NoteRow,
         note' = [note EXCEPT ![n] = new], new.on \in Cases,
         note[n].on \in Cases => note[n].on = new.on,
         note[n].on \in Cases \/ n = r,
         Goto(r, "done"), UNCHANGED <<row, plan, rewound>>
  PROVE  DeskInv'
<1>. USE DEF DeskInv
<1>1. /\ note'[n] = new /\ \A m \in Notes \ {n} : note'[m] = note[m]
      /\ note' \in [Notes -> NoteRow]
  BY DEF TypeOK
<1>2. TypeOK'
  BY <1>1, Finishing DEF TypeOK
<1>3. Store!Unwritten.on \notin Cases
  BY NoRowType
<1>4. \A m \in Notes : note[m].on \in Cases => note'[m].on = note[m].on
  BY <1>1
<1>5. ASSUME NEW s \in Requests
      PROVE  Asked(s)' /\ ReadIsRow(s)' /\ LoadedNote(s)' /\ PageAgrees(s)' /\ NoteAgrees(s)'
  <2>1. /\ Asked(s) /\ ReadIsRow(s) /\ LoadedNote(s) /\ PageAgrees(s) /\ NoteAgrees(s)
        /\ req'[s].op = req[s].op /\ req'[s].view = req[s].view
        /\ s # r => req'[s] = req[s]
        /\ req'[r].pc = "done"
    BY Finishing DEF RequestsAgree
  <2>2. Asked(s)' /\ ReadIsRow(s)' /\ PageAgrees(s)'
    BY <2>1 DEF Asked, ReadIsRow, HoldsRow, PageAgrees, Op, OnCase, Store!Exists
  <2>3. LoadedNote(s)'
    <3>1. req[s].pc # "new" => Op(s).note \in Notes
      BY <2>1, DeskAssumption DEF Asked
    <3>. QED
      BY <2>1, <3>1, <1>4 DEF LoadedNote, Op, OnCase
  <2>4. NoteAgrees(s)'
    BY <2>1, <1>1, <1>3 DEF NoteAgrees, Notes
  <2>. QED
    BY <2>2, <2>3, <2>4
<1>6. LocksExclusive'
  BY Finishing DEF LocksExclusive, HoldsRow, Op, OnCase
<1>7. PlanAgrees'
  <2>1. plan.moved \subseteq {m \in Notes : note[m].on = plan.case} /\ plan.case \in Cases \cup {Store!NoCase}
    BY DEF PlanAgrees, TypeOK
  <2>2. plan.moved # {} => plan.case \in Cases
    BY DEF PlanAgrees
  <2>3. plan.moved \subseteq {m \in Notes : note'[m].on = plan.case}
    BY <2>1, <2>2, <1>4
  <2>. QED
    BY <2>3 DEF PlanAgrees, Store!Exists
<1>. QED
  BY <1>2, <1>5, <1>6, <1>7 DEF RequestsAgree

LEMMA CommitCaseStep ==
  ASSUME DeskInv, NEW r \in Requests, CommitCase(r)
  PROVE  DeskInv' /\ Store!Next
<1>. USE DEF DeskInv
<1>. DEFINE op == Op(r)
            c == op.case
            read == req[r].read
<1>1. /\ HoldsRow(r) /\ op \in Ops /\ c \in Cases /\ Store!Exists(c)
      /\ read = row[c] /\ read \in Store!Row /\ ~Refused(op, req[r].view, read)
      /\ Goto(r, "done") /\ UNCHANGED <<plan, rewound>>
  BY DeskAssumption DEF CommitCase, HoldsRow, RequestsAgree, Asked, ReadIsRow, grouping, TypeOK
<1>2. CASE /\ op.kind = "transition" /\ UNCHANGED note
           /\ LET d == IF op.target = "Closed" THEN op.disposition ELSE NoDisposition
              IN  /\ row' = [row EXCEPT ![c] = Store!Transitioned(read, op.target, d)]
                  /\ Store!Log(c, Store!TransitionEvent(read, op.target, d))
  <2>. DEFINE d == IF op.target = "Closed" THEN op.disposition ELSE NoDisposition
  <2>1. /\ op.target \in Store!ALLOWED[read.status]
        /\ op.target = "Closed" => op.disposition \in Dispositions
    BY <1>1, <1>2 DEF Refused
  <2>2. read.status \in Store!Status
    BY <1>1 DEF Store!Exists, Store!Row
  <2>3. op.target \in Store!Status /\ read.status # "Merged"
    BY <2>1, <2>2, AllowedStatus
  <2>4. d \in Dispositions \cup {NoDisposition} /\ (op.target = "Closed" <=> d # NoDisposition)
    BY <2>1, DeskAssumption
  <2>5. /\ Store!Transitioned(read, op.target, d) \in Store!Row
        /\ Store!Transitioned(read, op.target, d).version = read.version + 1
        /\ Store!Transitioned(read, op.target, d).status # "None"
    <3>1. "None" \notin Store!Status
      BY DEF Store!Status
    <3>2. d \in Dispositions \cup {NoDisposition}
      BY <2>4
    <3>3. \A t \in Store!Status, e \in Dispositions \cup {NoDisposition} :
            /\ Store!Transitioned(read, t, e) \in Store!Row
            /\ Store!Transitioned(read, t, e).version = read.version + 1
            /\ Store!Transitioned(read, t, e).status = t
      BY <1>1, RowOps
    <3>. HIDE DEF d
    <3>. QED
      BY <2>3, <3>1, <3>2, <3>3
  <2>6. DeskInv'
    BY <1>1, <1>2, <2>3, <2>5, RowWritten
  <2>7. Store!Transition(c, op.target, d)
    BY <1>1, <1>2, <2>1, <2>4 DEF Store!Transition
  <2>. QED
    BY <1>1, <2>3, <2>4, <2>6, <2>7 DEF Store!Next, Store!Analysts
<1>3. CASE /\ op.kind = "assign" /\ UNCHANGED note
           /\ row' = [row EXCEPT ![c] = Store!Assigned(read, op.assignee)]
           /\ Store!Log(c, Store!AssignEvent(read, op.assignee))
  <2>1. read.status # "Merged" /\ op.assignee \in Users \cup {NoUser}
    BY <1>1, <1>3, DeskAssumption DEF Refused
  <2>2. /\ Store!Assigned(read, op.assignee) \in Store!Row
        /\ Store!Assigned(read, op.assignee).version = read.version + 1
        /\ Store!Assigned(read, op.assignee).status # "None"
    BY <1>1, <2>1, RowOps DEF Store!Exists
  <2>3. DeskInv'
    BY <1>1, <1>3, <2>1, <2>2, RowWritten
  <2>4. Store!Assign(c, op.assignee)
    BY <1>1, <1>3, <2>1 DEF Store!Assign
  <2>. QED
    BY <1>1, <2>1, <2>3, <2>4 DEF Store!Next, Store!Analysts
<1>4. CASE /\ op.kind = "note" /\ UNCHANGED row
           /\ note' = [note EXCEPT ![r] = [on |-> c, author |-> op.actor, retracted |-> FALSE]]
           /\ Store!Log(c, Store!NoteEvent(r))
  <2>1. read.status # "Merged" /\ op.actor \in Users
    BY <1>1, <1>4, DeskAssumption DEF Refused
  <2>2. note[r] = Store!Unwritten /\ r \in Notes /\ note[r].on \notin Cases
    BY <1>1, NoRowType DEF HoldsRow, RequestsAgree, NoteAgrees, Notes
  <2>3. [on |-> c, author |-> op.actor, retracted |-> FALSE] \in NoteRow
    BY <1>1, <2>1 DEF NoteRow
  <2>4. DeskInv'
    BY <1>1, <1>4, <2>2, <2>3, NoteWritten DEF HoldsRow
  <2>5. Store!AddNote(c, r, op.actor)
    BY <1>1, <1>4, <2>1, <2>2 DEF Store!AddNote
  <2>. QED
    BY <1>1, <2>1, <2>2, <2>4, <2>5 DEF Store!Next, Store!Analysts
<1>. QED
  BY <1>2, <1>3, <1>4 DEF CommitCase

LEMMA CommitRetractionStep ==
  ASSUME DeskInv, NEW r \in Requests, CommitRetraction(r)
  PROVE  DeskInv' /\ Store!Next
<1>. USE DEF DeskInv
<1>. DEFINE n == Op(r).note
            new == [note[n] EXCEPT !.retracted = TRUE]
<1>1. /\ req[r].pc = "locked" /\ Op(r).kind = "retract"
      /\ note' = [note EXCEPT ![n] = new]
      /\ Store!Log(req[r].loaded.on, Store!RetractEvent(n))
      /\ Goto(r, "done") /\ UNCHANGED <<row, plan, rewound>>
  BY DEF CommitRetraction, grouping
<1>2. n \in Notes
  BY <1>1, DeskAssumption DEF RequestsAgree, Asked
<1>3. /\ req[r].loaded.on \in Cases /\ note[n].on \in Cases
      /\ req[r].loaded.on # note[n].on => row[req[r].loaded.on].status = "Merged"
  BY <1>1 DEF RequestsAgree, LoadedNote, OnCase
<1>4. new \in NoteRow /\ new.on = note[n].on
  <2>1. note[n] \in NoteRow
    BY <1>2 DEF TypeOK
  <2>. QED
    BY <2>1 DEF NoteRow
<1>5. DeskInv'
  BY <1>1, <1>2, <1>3, <1>4, NoteWritten
<1>6. note[n] # Store!Unwritten
  BY <1>3, NoRowType
<1>7. Store!Retract(n, req[r].loaded.on)
  BY <1>1, <1>3, <1>6 DEF Store!Retract
<1>. QED
  BY <1>2, <1>3, <1>5, <1>7 DEF Store!Next, Store!Analysts

-----------------------------------------------------------------------------
(* The grouping transaction. *)

LEMMA PlanMoves ==
  ASSUME DeskInv, UNCHANGED <<row, note, req, rewound>>, TypeOK', PlanAgrees'
  PROVE  DeskInv'
<1>1. RequestsAgree'
  BY DEF DeskInv, RequestsAgree, Asked, ReadIsRow, HoldsRow, LoadedNote, PageAgrees, NoteAgrees,
         Op, OnCase, Store!Exists
<1>2. LocksExclusive'
  BY DEF DeskInv, LocksExclusive, HoldsRow, Op, OnCase
<1>. QED
  BY <1>1, <1>2 DEF DeskInv

LEMMA ReadCasesStep ==
  ASSUME DeskInv, NEW c \in Cases, NEW into \in Cases, NEW score \in Scores, NEW time \in Times,
         ReadCases(c, into, score, time)
  PROVE  DeskInv'
<1>. USE DEF DeskInv
<1>1. /\ UNCHANGED <<row, note, req, rewound>>
      /\ into # c => Store!IsOpen(row[c])
      /\ \/ Store!IsOpen(row[into]) /\ into <= c
         \/ into = c /\ ~Store!Exists(c) /\ \A d \in Cases : d < c => Store!Exists(d)
      /\ plan' = [NoPlan EXCEPT !.pc = IF into = c THEN "write" ELSE "read", !.case = c,
                                !.into = into, !.read = row, !.score = score, !.time = time]
  BY DEF ReadCases, tables
<1>2. /\ plan'.pc # "idle" /\ plan'.case = c /\ plan'.into = into /\ plan'.read = row
      /\ plan'.score = score /\ plan'.time = time /\ plan'.moved = {}
  BY <1>1 DEF NoPlan
<1>3. TypeOK'
  BY <1>1 DEF TypeOK, NoPlan
<1>4. row[c] \in Store!Row /\ \A d \in Cases : row[d].version \in Nat
  BY DEF TypeOK, Store!Row
<1>5. into \in Nat /\ c \in Nat
  BY DeskAssumption
<1>6. into # c => /\ into < c /\ row[c].status \in Store!Status
                  /\ Store!Exists(c) /\ Store!Exists(into)
  BY <1>1, <1>4, <1>5 DEF Store!IsOpen, Store!Exists, Store!Row
<1>7. into = c => \A d \in Cases : d < c /\ ~Store!Exists(c) => Store!Exists(d)
  BY <1>1 DEF Store!IsOpen, Store!Exists
<1>8. PlanAgrees'
  BY <1>1, <1>2, <1>4, <1>6, <1>7 DEF PlanAgrees, Store!Exists
<1>. QED
  BY <1>1, <1>3, <1>8, PlanMoves

LEMMA MoveNotesStep ==
  ASSUME DeskInv, MoveNotes
  PROVE  DeskInv'
<1>. USE DEF DeskInv
<1>. DEFINE seen == {n \in Notes : note[n].on = plan.case}
<1>1. /\ UNCHANGED <<row, note, req, rewound>> /\ plan.pc = "read"
      /\ plan' = [plan EXCEPT !.pc = "write", !.moved = seen]
  BY DEF MoveNotes, tables
<1>2. /\ plan'.pc = "write" /\ plan'.case = plan.case /\ plan'.into = plan.into
      /\ plan'.read = plan.read /\ plan'.score = plan.score /\ plan'.time = plan.time
      /\ plan'.moved = seen
  BY <1>1 DEF TypeOK
<1>3. TypeOK'
  BY <1>1 DEF TypeOK
<1>4. PlanAgrees'
  BY <1>1, <1>2 DEF PlanAgrees, Store!Exists
<1>. QED
  BY <1>1, <1>3, <1>4, PlanMoves

LEMMA RollbackGroupingStep ==
  ASSUME DeskInv, RollbackGrouping
  PROVE  DeskInv'
<1>1. UNCHANGED <<row, note, req, rewound>> /\ plan' = NoPlan
  BY DEF RollbackGrouping, tables
<1>2. TypeOK' /\ PlanAgrees'
  BY <1>1, NoRowType DEF DeskInv, TypeOK, PlanAgrees, NoPlan
<1>. QED
  BY <1>1, <1>2, PlanMoves

\* Rows that no request holds have changed, and with them notes off a case that is merged.
LEMMA RowsGrouped ==
  ASSUME DeskInv, NEW changed \in SUBSET Cases,
         \A c \in changed : RowFree(c),
         row' \in [Cases -> Store!Row], \A c \in Cases \ changed : row'[c] = row[c],
         \A c \in Cases : /\ Store!Exists(c) => Store!Exists(c)'
                          /\ row[c].status = "Merged" => row'[c].status = "Merged",
         rewound' \subseteq Cases, rewound \subseteq rewound',
         \A c \in changed \ rewound' : \/ ~Store!Exists(c)
                                       \/ row'[c].version = row[c].version + 1
                                       \/ /\ row'[c].version = row[c].version
                                          /\ row'[c].status = "Merged",
         note' \in [Notes -> NoteRow],
         \A n \in Notes : \/ note'[n] = note[n]
                          \/ /\ note[n].on \in Cases /\ note'[n].on \in Cases
                             /\ row'[note[n].on].status = "Merged",
         plan' = NoPlan, UNCHANGED req
  PROVE  DeskInv'
<1>. USE DEF DeskInv
<1>1. TypeOK' /\ PlanAgrees'
  BY NoRowType DEF TypeOK, PlanAgrees, NoPlan
<1>2. LocksExclusive'
  BY DEF LocksExclusive, HoldsRow, Op, OnCase
<1>3. ASSUME NEW s \in Requests
      PROVE  Asked(s)' /\ ReadIsRow(s)' /\ LoadedNote(s)' /\ PageAgrees(s)' /\ NoteAgrees(s)'
  <2>1. Asked(s) /\ ReadIsRow(s) /\ LoadedNote(s) /\ PageAgrees(s) /\ NoteAgrees(s)
    BY DEF RequestsAgree
  <2>2. req[s].pc # "new" => /\ Op(s) \in Ops /\ Op(s).case \in Cases /\ Op(s).note \in Notes
                             /\ Store!Exists(Op(s).case)
    BY <2>1, DeskAssumption DEF Asked
  <2>3. Asked(s)'
    BY <2>2 DEF Asked, Op
  <2>4. ReadIsRow(s)'
    <3>1. HoldsRow(s) => Op(s).case \notin changed
      BY DEF RowFree, HoldsRow
    <3>. QED
      BY <3>1, <2>1, <2>2 DEF ReadIsRow, HoldsRow, Op, OnCase
  <2>5. LoadedNote(s)'
    <3>. SUFFICES ASSUME req[s].pc = "loaded" \/ (req[s].pc = "locked" /\ ~OnCase(s))
         PROVE  /\ Op(s).kind = "retract"
                /\ req[s].loaded.on \in Cases /\ note'[Op(s).note].on \in Cases
                /\ req[s].loaded.on # note'[Op(s).note].on =>
                     row'[req[s].loaded.on].status = "Merged"
      BY DEF LoadedNote, Op, OnCase
    <3>1. /\ Op(s).kind = "retract"
          /\ req[s].loaded.on \in Cases /\ note[Op(s).note].on \in Cases
          /\ req[s].loaded.on # note[Op(s).note].on => row[req[s].loaded.on].status = "Merged"
          /\ Op(s).note \in Notes
      BY <2>1, <2>2 DEF LoadedNote
    <3>. QED
      BY <3>1
  <2>6. PageAgrees(s)'
    <3>. SUFFICES ASSUME req[s].pc # "new", Op(s).case \notin rewound'
         PROVE  /\ req[s].view.version <= row'[Op(s).case].version
                /\ /\ req[s].view.version = row'[Op(s).case].version
                   /\ row'[Op(s).case].status # "Merged"
                   => req[s].view = row'[Op(s).case]
      BY DEF PageAgrees, Op
    <3>. DEFINE c == Op(s).case
    <3>1. /\ c \in Cases /\ Store!Exists(c)
          /\ req[s].view.version <= row[c].version
          /\ req[s].view.version = row[c].version /\ row[c].status # "Merged"
             => req[s].view = row[c]
      BY <2>1, <2>2 DEF PageAgrees
    <3>2. req[s].view.version \in Nat /\ row[c].version \in Nat
      BY <3>1 DEF TypeOK, Store!Row
    <3>3. CASE c \notin changed
      BY <3>1, <3>3
    <3>4. CASE c \in changed /\ row'[c].version = row[c].version + 1
      BY <3>1, <3>2, <3>4
    <3>5. CASE c \in changed /\ row'[c].version = row[c].version /\ row'[c].status = "Merged"
      BY <3>1, <3>2, <3>5
    <3>. QED
      BY <3>1, <3>3, <3>4, <3>5
  <2>7. NoteAgrees(s)'
    <3>1. s \in Notes /\ Store!Unwritten.on \notin Cases
      BY NoRowType DEF Notes
    <3>. QED
      BY <2>1, <3>1 DEF NoteAgrees
  <2>. QED
    BY <2>3, <2>4, <2>5, <2>6, <2>7
<1>. QED
  BY <1>1, <1>2, <1>3 DEF RequestsAgree

LEMMA CommitGroupingStep ==
  ASSUME DeskInv, CommitGrouping
  PROVE  DeskInv' /\ Store!Next
<1>. USE DEF DeskInv
<1>. DEFINE c == plan.case
            into == plan.into
            score == plan.score
            time == plan.time
            version == NewVersion(into)
<1>1. /\ plan.pc = "write" /\ RowFree(c) /\ RowFree(into)
      /\ plan' = NoPlan /\ UNCHANGED req
      /\ rewound' = IF Store!Exists(into) /\ plan.read[into].version # row[into].version
                    THEN rewound \cup {into} ELSE rewound
  BY DEF CommitGrouping
<1>2. /\ c \in Cases /\ into \in Cases /\ score \in Scores /\ score \in 0..100 /\ time \in Times
      /\ plan.read[into].version <= row[into].version
      /\ row[into] \in Store!Row /\ row[c] \in Store!Row
      /\ plan.read[into].version \in Nat /\ row[into].version \in Nat
  BY <1>1, DeskAssumption DEF PlanAgrees, TypeOK, Store!Row
<1>3. /\ version \in Nat /\ version \in 1..row[into].version + 1
      /\ Store!Exists(into) /\ into \notin rewound' => version = row[into].version + 1
  BY <1>1, <1>2 DEF NewVersion
<1>4. rewound' \subseteq Cases /\ rewound \subseteq rewound'
  BY <1>1, <1>2 DEF TypeOK
<1>5. CASE c = into
  <2>1. /\ row' = [row EXCEPT ![c] = IF ~Store!Exists(c) THEN Store!Created(score, time)
                                     ELSE Store!Attached(row[c], version, score, time)]
        /\ Store!Log(c, Store!LinkEvent) /\ UNCHANGED note
    BY <1>5 DEF CommitGrouping
  <2>2. CASE ~Store!Exists(c)
    <3>1. row' = [row EXCEPT ![c] = Store!Created(score, time)]
      BY <2>1, <2>2
    <3>2. Store!Create(c, score, time)
      BY <1>1, <1>5, <2>1, <2>2, <3>1 DEF PlanAgrees, Store!Create
    <3>3. DeskInv'
      <4>1. /\ row' \in [Cases -> Store!Row] /\ row'[c].status = "Open"
            /\ \A d \in Cases \ {c} : row'[d] = row[d]
        BY <1>2, <3>1, CreatedRow DEF TypeOK
      <4>2. \A d \in Cases : /\ Store!Exists(d) => Store!Exists(d)'
                             /\ row[d].status = "Merged" => row'[d].status = "Merged"
        BY <2>2, <4>1 DEF Store!Exists
      <4>. DEFINE changed == {c}
      <4>3. /\ changed \in SUBSET Cases /\ \A d \in changed : RowFree(d)
            /\ \A d \in Cases \ changed : row'[d] = row[d]
            /\ \A d \in changed : ~Store!Exists(d)
        BY <1>1, <1>2, <2>2, <4>1
      <4>. HIDE DEF changed
      <4>. QED
        BY <1>1, <1>4, <2>1, <4>1, <4>2, <4>3, RowsGrouped DEF TypeOK
    <3>. QED
      BY <1>2, <3>2, <3>3 DEF Store!Next, Store!Grouping
  <2>3. CASE Store!Exists(c)
    <3>1. row' = [row EXCEPT ![c] = Store!Attached(row[c], version, score, time)]
      BY <2>1, <2>3
    <3>2. Store!Attach(c, version, score, time)
      BY <1>3, <1>5, <2>1, <2>3, <3>1 DEF Store!Attach
    <3>3. DeskInv'
      <4>0. /\ Store!Attached(row[c], version, score, time) \in Store!Row
            /\ Store!Attached(row[c], version, score, time).version = version
            /\ Store!Attached(row[c], version, score, time).status = row[c].status
        <5>1. version \in Nat /\ time \in Times \cup {Store!NoTime} /\ row[c] \in Store!Row
          BY <1>2, <1>3
        <5>2. \A v \in Nat, s \in 0..100, t \in Times \cup {Store!NoTime} :
                /\ Store!Attached(row[c], v, s, t) \in Store!Row
                /\ Store!Attached(row[c], v, s, t).version = v
                /\ Store!Attached(row[c], v, s, t).status = row[c].status
          BY <5>1, AttachedRow
        <5>. HIDE DEF version, time, score, c
        <5>. QED
          BY <1>2, <5>1, <5>2
      <4>1. /\ row' \in [Cases -> Store!Row]
            /\ row'[c].version = version /\ row'[c].status = row[c].status
            /\ \A d \in Cases \ {c} : row'[d] = row[d]
        BY <1>2, <3>1, <4>0 DEF TypeOK
      <4>2. \A d \in Cases : /\ Store!Exists(d) => Store!Exists(d)'
                             /\ row[d].status = "Merged" => row'[d].status = "Merged"
        BY <4>1 DEF Store!Exists
      <4>. DEFINE changed == {c}
      <4>3. /\ changed \in SUBSET Cases /\ \A d \in changed : RowFree(d)
            /\ \A d \in Cases \ changed : row'[d] = row[d]
            /\ \A d \in changed \ rewound' : row'[d].version = row[d].version + 1
        BY <1>1, <1>2, <1>3, <1>5, <2>3, <4>1
      <4>. HIDE DEF changed
      <4>. QED
        BY <1>1, <1>4, <2>1, <4>1, <4>2, <4>3, RowsGrouped DEF TypeOK
    <3>. QED
      BY <1>2, <1>3, <1>5, <3>2, <3>3 DEF Store!Next, Store!Grouping
  <2>. QED
    BY <2>2, <2>3
<1>6. CASE c # into
  <2>. DEFINE risk == IF score > row[c].risk THEN score ELSE row[c].risk
              oldest == Store!Older(row[c].oldest, time)
  <2>1. /\ row' = [row EXCEPT ![c] = Store!MergedAway(row[c]),
                              ![into] = Store!Attached(row[into], version, risk, oldest)]
        /\ note' = [n \in Notes |->
                      IF n \in plan.moved THEN [note[n] EXCEPT !.on = into] ELSE note[n]]
        /\ trail' = [trail EXCEPT ![c] = Append(@, Store!MergeEvent(plan.read[c].status)),
                                  ![into] = Append(@, Store!LinkEvent)]
    BY <1>2, <1>6 DEF CommitGrouping, TypeOK
  <2>2. /\ into < c /\ plan.read[c].status \in Store!Status
        /\ Store!Exists(c) /\ Store!Exists(into)
        /\ plan.moved \subseteq {n \in Notes : note[n].on = c}
    BY <1>1, <1>6 DEF PlanAgrees
  <2>3. Store!Merge(c, into, plan.read[c].status, plan.moved, version, score, time)
    BY <1>2, <1>3, <1>6, <2>1, <2>2 DEF Store!Merge, TypeOK
  <2>4. Store!Next
    BY <1>2, <1>3, <2>2, <2>3 DEF Store!Next, Store!Grouping
  <2>5. risk \in 0..100 /\ oldest \in Times \cup {Store!NoTime}
    BY <1>2 DEF Store!Older, Store!Row
  <2>6. /\ Store!Attached(row[into], version, risk, oldest) \in Store!Row
        /\ Store!Attached(row[into], version, risk, oldest).version = version
        /\ Store!Attached(row[into], version, risk, oldest).status = row[into].status
        /\ Store!MergedAway(row[c]) \in Store!Row
        /\ Store!MergedAway(row[c]).status = "Merged"
        /\ Store!MergedAway(row[c]).version = row[c].version
    <3>1. version \in Nat /\ row[c] \in Store!Row /\ row[into] \in Store!Row
      BY <1>2, <1>3
    <3>2. \A v \in Nat, s \in 0..100, t \in Times \cup {Store!NoTime} :
            /\ Store!Attached(row[into], v, s, t) \in Store!Row
            /\ Store!Attached(row[into], v, s, t).version = v
            /\ Store!Attached(row[into], v, s, t).status = row[into].status
      BY <3>1, AttachedRow
    <3>. HIDE DEF risk, oldest, version, c, into
    <3>. QED
      BY <2>5, <3>1, <3>2, RowOps
  <2>7. /\ row' \in [Cases -> Store!Row]
        /\ row'[into].version = version /\ row'[into].status = row[into].status
        /\ row'[c].version = row[c].version /\ row'[c].status = "Merged"
        /\ \A d \in Cases \ {c, into} : row'[d] = row[d]
    <3>. HIDE DEF risk, oldest
    <3>. QED
      BY <1>2, <1>6, <2>1, <2>6 DEF TypeOK
  <2>8. \A d \in Cases : /\ Store!Exists(d) => Store!Exists(d)'
                         /\ row[d].status = "Merged" => row'[d].status = "Merged"
    BY <2>7 DEF Store!Exists
  <2>9. /\ note' \in [Notes -> NoteRow]
        /\ \A n \in Notes : \/ note'[n] = note[n]
                            \/ note[n].on = c /\ note'[n].on = into
    <3>1. ASSUME NEW n \in plan.moved
          PROVE  /\ note[n].on = c /\ [note[n] EXCEPT !.on = into] \in NoteRow
                 /\ [note[n] EXCEPT !.on = into].on = into
      <4>1. n \in Notes /\ note[n] \in NoteRow
        BY <2>2 DEF TypeOK
      <4>. QED
        BY <2>2, <1>2, <4>1 DEF NoteRow
    <3>. QED
      BY <2>1, <3>1 DEF TypeOK
  <2>10. DeskInv'
    <3>. DEFINE changed == {c, into}
    <3>1. /\ changed \in SUBSET Cases /\ \A d \in changed : RowFree(d)
          /\ \A d \in Cases \ changed : row'[d] = row[d]
          /\ \A d \in changed \ rewound' :
               \/ row'[d].version = row[d].version + 1
               \/ row'[d].version = row[d].version /\ row'[d].status = "Merged"
      BY <1>1, <1>2, <1>3, <2>2, <2>7
    <3>2. \A n \in Notes : \/ note'[n] = note[n]
                           \/ /\ note[n].on \in Cases /\ note'[n].on \in Cases
                              /\ row'[note[n].on].status = "Merged"
      BY <1>2, <2>7, <2>9
    <3>. HIDE DEF changed
    <3>. QED
      BY <1>1, <1>4, <2>7, <2>8, <2>9, <3>1, <3>2, RowsGrouped
  <2>. QED
    BY <2>4, <2>10
<1>. QED
  BY <1>5, <1>6

-----------------------------------------------------------------------------
(* All steps. *)

LEMMA DeskStep ==
  ASSUME DeskInv, [Next]_vars
  PROVE  DeskInv' /\ [Store!Next]_(Store!store)
<1>. USE DEF Store!store
<1>1. ASSUME NEW r \in Requests, Answer(r) PROVE DeskInv' /\ [Store!Next]_(Store!store)
  <2>1. CASE LockCase(r)
    BY <2>1, LockCaseStep DEF LockCase, tables
  <2>2. CASE CommitCase(r)
    BY <2>2, CommitCaseStep
  <2>3. CASE LoadNote(r)
    BY <2>3, LoadNoteStep DEF LoadNote, tables
  <2>4. CASE LockNote(r)
    BY <2>4, LockNoteStep DEF LockNote, tables
  <2>5. CASE CommitRetraction(r)
    BY <2>5, CommitRetractionStep
  <2>. QED
    BY <1>1, <2>1, <2>2, <2>3, <2>4, <2>5 DEF Answer
<1>2. ASSUME NEW r \in Requests, Rollback(r) PROVE DeskInv' /\ [Store!Next]_(Store!store)
  BY <1>2, LockNoteStep DEF Rollback, tables
<1>3. ASSUME NEW r \in Requests, NEW op \in Ops, Send(r, op)
      PROVE  DeskInv' /\ [Store!Next]_(Store!store)
  BY <1>3, SendStep DEF Send, tables
<1>4. ASSUME NEW c \in Cases, NEW into \in Cases, NEW score \in Scores, NEW time \in Times,
             ReadCases(c, into, score, time)
      PROVE  DeskInv' /\ [Store!Next]_(Store!store)
  BY <1>4, ReadCasesStep DEF ReadCases, tables
<1>5. CASE MoveNotes
  BY <1>5, MoveNotesStep DEF MoveNotes, tables
<1>6. CASE CommitGrouping
  BY <1>6, CommitGroupingStep
<1>7. CASE RollbackGrouping
  BY <1>7, RollbackGroupingStep DEF RollbackGrouping, tables
<1>8. CASE UNCHANGED vars
  <2>1. UNCHANGED <<row, note, req, rewound, plan, trail>>
    BY <1>8 DEF vars
  <2>2. TypeOK' /\ PlanAgrees'
    BY <2>1 DEF DeskInv, TypeOK, PlanAgrees, Store!Exists
  <2>. QED
    BY <2>1, <2>2, PlanMoves
<1>. QED
  BY <1>1, <1>2, <1>3, <1>4, <1>5, <1>6, <1>7, <1>8 DEF Next, Group

LEMMA DeskInvariant == Spec => []DeskInv
BY DeskInit, DeskStep, PTL DEF Spec

\* service.py: locks and readings included, what transition_case, assign_case, add_note,
\* retract_note and the grouping transactions do to the tables and to the audit trail is
\* what CaseStore does in one step each.
THEOREM DeskImplementsStore == Spec => ImplementsStore
<1>1. Init => Store!Init
  BY DEF Init
<1>2. DeskInv /\ [Next]_vars => [Store!Next]_(Store!store)
  BY DeskStep
<1>. QED
  BY <1>1, <1>2, DeskInvariant, PTL DEF Spec, ImplementsStore, Store!Spec

\* transition_case with If-Match: an accepted transition was sent from a page that shows
\* the row it changes.
THEOREM AcceptedPagesAreFresh == Spec => []AcceptedIsFresh
<1>1. DeskInv => AcceptedIsFresh
  <2>. SUFFICES ASSUME DeskInv, NEW r \in Requests, req[r].pc = "locked",
                       Op(r).kind = "transition", Op(r).match, Op(r).case \notin rewound
       PROVE  req[r].read = req[r].view
    BY DEF AcceptedIsFresh
  <2>1. /\ req[r].read = row[Op(r).case] /\ ~Refused(Op(r), req[r].view, req[r].read)
        /\ PageAgrees(r) /\ Store!Exists(Op(r).case) /\ Op(r).case \in Cases
    BY DeskAssumption DEF DeskInv, RequestsAgree, ReadIsRow, HoldsRow, OnCase, Asked
  <2>2. /\ req[r].view.version = req[r].read.version
        /\ Op(r).target \in Store!ALLOWED[req[r].read.status]
    BY <2>1 DEF Refused
  <2>3. req[r].read.status \in Store!Status
    BY <2>1 DEF DeskInv, TypeOK, Store!Row, Store!Exists
  <2>4. req[r].read.status # "Merged"
    BY <2>2, <2>3, AllowedStatus
  <2>. QED
    BY <2>1, <2>2, <2>4 DEF PageAgrees
<1>. QED
  BY <1>1, DeskInvariant, PTL

-----------------------------------------------------------------------------
(* Retractions: the flag of a note, the events of it, and who is retracting it. *)

\* Every case has its stream.
Logs == trail = [c \in Cases |-> trail[c]] /\ \A c \in Cases : IsLog(trail[c])

\* The i-th event of c is a retraction of n.
Told(n, c, i) == i \in DOMAIN trail[c] /\ trail[c][i] = Store!RetractEvent(n)

\* A note whose retraction the trail tells is retracted, and it is told once.
ToldOnce(n) ==
    /\ \A c \in Cases : \A i : Told(n, c, i) => note[n].retracted = TRUE
    /\ n \notin overlap =>
           \A c, d \in Cases : \A i, j : Told(n, c, i) /\ Told(n, d, j) => c = d /\ i = j

\* No other request is between loading and retracting the same note,
Alone(n) ==
    n \notin overlap =>
        \A r, s \in Requests : Retracting(r, n) /\ Retracting(s, n) => r = s

\* so what it has loaded still holds.
LoadedIsNow(r) ==
    LET n == Op(r).note
    IN  Retracting(r, n) /\ n \notin overlap =>
            /\ req[r].loaded.retracted = note[n].retracted
            /\ req[r].pc = "locked" => note[n].retracted = FALSE

\* The invariant of retractions.
RetractInv ==
    /\ DeskInv
    /\ Logs
    /\ \A n \in Notes : ToldOnce(n) /\ Alone(n)
    /\ \A r \in Requests : LoadedIsNow(r)

\* The events of other operations are no retractions, and those of two notes differ.
LEMMA EventsDiffer ==
  ASSUME NEW n
  PROVE  /\ \A r, t, d : Store!TransitionEvent(r, t, d) # Store!RetractEvent(n)
         /\ \A r, u : Store!AssignEvent(r, u) # Store!RetractEvent(n)
         /\ \A m : Store!NoteEvent(m) # Store!RetractEvent(n)
         /\ Store!LinkEvent # Store!RetractEvent(n)
         /\ \A s : Store!MergeEvent(s) # Store!RetractEvent(n)
         /\ \A m : m # n => Store!RetractEvent(m) # Store!RetractEvent(n)
<1>1. Store!RetractEvent(n).action = "case.note_retracted" /\ Store!RetractEvent(n).about = n
  BY DEF Store!RetractEvent, Store!Event
<1>2. \A r, t, d : Store!TransitionEvent(r, t, d).action # "case.note_retracted"
  BY DEF Store!TransitionEvent, Store!Event
<1>3. \A r, u : Store!AssignEvent(r, u).action # "case.note_retracted"
  BY DEF Store!AssignEvent, Store!Event
<1>4. \A m : Store!NoteEvent(m).action # "case.note_retracted"
  BY DEF Store!NoteEvent, Store!Event
<1>5. Store!LinkEvent.action # "case.note_retracted"
  BY DEF Store!LinkEvent, Store!Event
<1>6. \A s : Store!MergeEvent(s).action # "case.note_retracted"
  BY DEF Store!MergeEvent, Store!Event
<1>7. \A m : Store!RetractEvent(m).about = m
  BY DEF Store!RetractEvent, Store!Event
<1>. HIDE DEF Store!RetractEvent
<1>. QED
  BY <1>1, <1>2, <1>3, <1>4, <1>5, <1>6, <1>7

\* An event that is appended to c.
LEMMA LogTold ==
  ASSUME Logs, NEW c \in Cases, NEW e, Store!Log(c, e)
  PROVE  /\ Logs'
         /\ \A n : e # Store!RetractEvent(n) =>
                \A d \in Cases : \A i : Told(n, d, i)' => Told(n, d, i)
         /\ \A n : \A d \in Cases : \A i : Told(n, d, i)' =>
                Told(n, d, i) \/ (d = c /\ i = Len(trail[c]) + 1)
<1>1. /\ trail' = [trail EXCEPT ![c] = Append(trail[c], e)]
      /\ trail = [d \in Cases |-> trail[d]] /\ IsLog(trail[c])
  BY DEF Store!Log, Logs
<1>2. trail'[c] = Append(trail[c], e) /\ \A d \in Cases \ {c} : trail'[d] = trail[d]
  BY <1>1
<1>3. Logs'
  <2>1. \A d \in Cases : IsLog(trail'[d])
    <3>1. IsLog(Append(trail[c], e))
      BY <1>1, Appended
    <3>. QED
      BY <1>2, <3>1 DEF Logs
  <2>2. trail' = [d \in Cases |-> trail'[d]]
    BY <1>1
  <2>. QED
    BY <2>1, <2>2 DEF Logs, IsLog
<1>4. ASSUME NEW n, NEW d \in Cases, NEW i, Told(n, d, i)'
      PROVE  \/ Told(n, d, i)
             \/ d = c /\ i = Len(trail[c]) + 1 /\ e = Store!RetractEvent(n)
  <2>1. CASE d # c
    BY <1>2, <1>4, <2>1 DEF Told, Store!RetractEvent, Store!Event
  <2>2. CASE d = c
    <3>1. i \in 1..(Len(trail[c]) + 1) /\ Append(trail[c], e)[i] = Store!RetractEvent(n)
      BY <1>1, <1>2, <1>4, <2>2, Appended DEF Told, Store!RetractEvent, Store!Event
    <3>2. CASE i \in 1..Len(trail[c])
      BY <1>1, <2>2, <3>1, <3>2, Appended DEF Told
    <3>3. CASE i = Len(trail[c]) + 1
      BY <1>1, <2>2, <3>1, <3>3, Appended
    <3>4. Len(trail[c]) \in Nat
      BY <1>1 DEF IsLog
    <3>. QED
      BY <3>1, <3>2, <3>3, <3>4
  <2>. QED
    BY <2>1, <2>2
<1>. QED
  BY <1>3, <1>4

\* At the start nothing is written, and nothing asked.
LEMMA RetractInit == Init => RetractInv
<1>. SUFFICES ASSUME Init PROVE RetractInv
  OBVIOUS
<1>1. DeskInv
  BY DeskInit
<1>2. /\ trail = [c \in Cases |-> <<>>] /\ req = [r \in Requests |-> Idle] /\ Idle.pc = "new"
  BY DEF Init, Store!Init, Idle
<1>3. Logs
  BY <1>2 DEF Logs, IsLog
<1>4. \A n \in Notes : ToldOnce(n) /\ Alone(n)
  BY <1>2 DEF ToldOnce, Told, Alone, Retracting
<1>5. \A r \in Requests : LoadedIsNow(r)
  BY <1>2 DEF LoadedIsNow, Retracting
<1>. QED
  BY <1>1, <1>3, <1>4, <1>5 DEF RetractInv

\* A step that tells of no retraction, takes no note back and loads none.
LEMMA NothingRetracted ==
  ASSUME RetractInv, DeskInv', Logs',
         \A n \in Notes : \A c \in Cases : \A i : Told(n, c, i)' => Told(n, c, i),
         \A n \in Notes : note'[n].retracted = note[n].retracted,
         overlap' = overlap,
         \A r \in Requests : \A n : Retracting(r, n)' =>
             /\ Retracting(r, n) /\ Op(r)' = Op(r) /\ req'[r].loaded = req[r].loaded
             /\ req'[r].pc = "locked" => req[r].pc = "locked" \/ ~req[r].loaded.retracted
  PROVE  RetractInv'
<1>1. ASSUME NEW n \in Notes PROVE ToldOnce(n)' /\ Alone(n)'
  <2>1. ToldOnce(n) /\ Alone(n)
    BY DEF RetractInv
  <2>2. ToldOnce(n)'
    BY <2>1 DEF ToldOnce
  <2>3. Alone(n)'
    BY <2>1 DEF Alone
  <2>. QED
    BY <2>2, <2>3
<1>2. ASSUME NEW r \in Requests PROVE LoadedIsNow(r)'
  <2>. SUFFICES ASSUME Retracting(r, Op(r).note)', Op(r).note' \notin overlap'
       PROVE  LoadedIsNow(r)'
    BY DEF LoadedIsNow
  <2>. DEFINE n == Op(r).note
  <2>1. /\ Op(r)' = Op(r) /\ Retracting(r, n) /\ req'[r].loaded = req[r].loaded
        /\ req'[r].pc = "locked" => req[r].pc = "locked" \/ ~req[r].loaded.retracted
        /\ n \notin overlap
    BY DEF Op
  <2>2. /\ req[r].loaded.retracted = note[n].retracted
        /\ req[r].pc = "locked" => note[n].retracted = FALSE
    BY <2>1 DEF RetractInv, LoadedIsNow
  <2>3. n \in Notes /\ note[n] \in NoteRow
    BY <2>1, DeskAssumption DEF RetractInv, DeskInv, RequestsAgree, Asked, Retracting, TypeOK
  <2>4. note[n].retracted \in BOOLEAN /\ note'[n].retracted = note[n].retracted
    BY <2>3 DEF NoteRow
  <2>. QED
    BY <2>1, <2>2, <2>4 DEF LoadedIsNow
<1>. QED
  BY <1>1, <1>2 DEF RetractInv

\* The streams stay as they are.
LEMMA NothingTold ==
  ASSUME Logs, UNCHANGED trail
  PROVE  /\ Logs'
         /\ \A n : \A c \in Cases : \A i : Told(n, c, i)' => Told(n, c, i)
BY DEF Logs, Told, IsLog, Store!RetractEvent, Store!Event

\* A request that moves on to another position is retracting only if it was.
LEMMA OtherPosition ==
  ASSUME TypeOK, NEW r \in Requests, NEW pc, Goto(r, pc),
         pc \in {"loaded", "locked"} => req[r].pc = "loaded" /\ pc = "locked"
                                       /\ ~req[r].loaded.retracted
  PROVE  \A s \in Requests : \A n : Retracting(s, n)' =>
             /\ Retracting(s, n) /\ Op(s)' = Op(s) /\ req'[s].loaded = req[s].loaded
             /\ req'[s].pc = "locked" => req[s].pc = "locked" \/ ~req[s].loaded.retracted
<1>1. /\ req'[r].pc = pc /\ req'[r].op = req[r].op /\ req'[r].loaded = req[r].loaded
      /\ \A s \in Requests \ {r} : req'[s] = req[s]
  BY DEF TypeOK, Goto
<1>. TAKE s \in Requests
<1>2. CASE s = r
  BY <1>1, <1>2 DEF Retracting, Op
<1>3. CASE s # r
  BY <1>1, <1>3 DEF Retracting, Op
<1>. QED
  BY <1>2, <1>3

\* Sending a request, a lock, a refusal and a rollback tell of nothing.
LEMMA QuietStep ==
  ASSUME RetractInv, DeskInv', NEW r \in Requests,
         LockCase(r) \/ LockNote(r) \/ Rollback(r) \/ \E op \in Ops : Send(r, op)
  PROVE  RetractInv'
<1>1. /\ UNCHANGED <<row, note, trail, overlap>> /\ TypeOK /\ Logs
  BY DEF LockCase, LockNote, Rollback, Send, tables, RetractInv, DeskInv
<1>2. \A s \in Requests : \A n : Retracting(s, n)' =>
         /\ Retracting(s, n) /\ Op(s)' = Op(s) /\ req'[s].loaded = req[s].loaded
         /\ req'[s].pc = "locked" => req[s].pc = "locked" \/ ~req[s].loaded.retracted
  <2>1. CASE LockCase(r)
    <3>1. /\ OnCase(r) /\ req'[r].op = req[r].op
          /\ \A s \in Requests \ {r} : req'[s] = req[s]
      BY <1>1, <2>1 DEF LockCase, TypeOK
    <3>2. \A n : ~Retracting(r, n)'
      BY <3>1 DEF Retracting, OnCase, Op
    <3>. QED
      BY <3>1, <3>2 DEF Retracting, Op
  <2>2. CASE LockNote(r)
    <3>1. PICK pc \in {"refused", "done", "locked"} :
             /\ Goto(r, pc)
             /\ pc = "locked" => ~AlreadyRetracted(req[r].loaded)
      BY <2>2 DEF LockNote
    <3>2. req[r].pc = "loaded"
      BY <2>2 DEF LockNote
    <3>3. pc \in {"loaded", "locked"} => req[r].pc = "loaded" /\ pc = "locked"
                                         /\ ~req[r].loaded.retracted
      BY <3>1, <3>2 DEF AlreadyRetracted
    <3>. QED
      BY <1>1, <3>1, <3>3, OtherPosition
  <2>3. CASE Rollback(r)
    BY <1>1, <2>3, OtherPosition DEF Rollback
  <2>4. ASSUME NEW op \in Ops, Send(r, op)
        PROVE  \A s \in Requests : \A n : Retracting(s, n)' =>
                  /\ Retracting(s, n) /\ Op(s)' = Op(s) /\ req'[s].loaded = req[s].loaded
                  /\ req'[s].pc = "locked" => req[s].pc = "locked" \/ ~req[s].loaded.retracted
    <3>1. /\ req'[r].pc = "sent" /\ \A s \in Requests \ {r} : req'[s] = req[s]
      BY <1>1, <2>4 DEF Send, TypeOK, Idle
    <3>. QED
      BY <3>1 DEF Retracting, Op
  <2>. QED
    BY <2>1, <2>2, <2>3, <2>4
<1>3. Logs' /\ \A n : \A c \in Cases : \A i : Told(n, c, i)' => Told(n, c, i)
  BY <1>1, NothingTold
<1>. QED
  BY <1>1, <1>2, <1>3, NothingRetracted

\* A transition, an assignment and a new note tell of no retraction.
LEMMA CommitCaseQuiet ==
  ASSUME RetractInv, DeskInv', NEW r \in Requests, CommitCase(r)
  PROVE  RetractInv'
<1>1. TypeOK /\ Logs /\ overlap' = overlap /\ Goto(r, "done") /\ Op(r).case \in Cases
      /\ req[r].pc = "locked"
  BY DeskAssumption DEF RetractInv, DeskInv, CommitCase, RequestsAgree, Asked
<1>2. PICK e : Store!Log(Op(r).case, e) /\ \A n : e # Store!RetractEvent(n)
  BY EventsDiffer DEF CommitCase
<1>3. Logs' /\ \A n : \A c \in Cases : \A i : Told(n, c, i)' => Told(n, c, i)
  BY <1>1, <1>2, LogTold
<1>4. \A n \in Notes : note'[n].retracted = note[n].retracted
  <2>1. CASE UNCHANGED note
    BY <2>1
  <2>2. CASE note' = [note EXCEPT ![r] = [on |-> Op(r).case, author |-> Op(r).actor,
                                          retracted |-> FALSE]]
    <3>1. note[r].retracted = FALSE
      BY <1>1 DEF RetractInv, DeskInv, RequestsAgree, NoteAgrees, Store!Unwritten
    <3>2. \A n \in Notes : n # r => note'[n] = note[n]
      BY <1>1, <2>2 DEF TypeOK
    <3>3. r \in Notes => note'[r].retracted = FALSE
      BY <1>1, <2>2 DEF TypeOK
    <3>. QED
      BY <3>1, <3>2, <3>3
  <2>. QED
    BY <2>1, <2>2 DEF CommitCase
<1>5. \A s \in Requests : \A n : Retracting(s, n)' =>
         /\ Retracting(s, n) /\ Op(s)' = Op(s) /\ req'[s].loaded = req[s].loaded
         /\ req'[s].pc = "locked" => req[s].pc = "locked" \/ ~req[s].loaded.retracted
  BY <1>1, OtherPosition
<1>. QED
  BY <1>1, <1>3, <1>4, <1>5, NothingRetracted

\* What a note was when it was loaded: a second retraction in flight is an overlap.
LEMMA LoadNoteLoads ==
  ASSUME RetractInv, DeskInv', NEW r \in Requests, LoadNote(r)
  PROVE  RetractInv'
<1>. DEFINE n == Op(r).note
            found == note[n]
<1>1. TypeOK /\ Logs /\ UNCHANGED <<row, note, trail>> /\ req[r].pc = "sent"
  BY DEF RetractInv, DeskInv, LoadNote, tables
<1>2. /\ req'[r].op = req[r].op /\ req'[r].loaded = found /\ req'[r].pc \in {"refused", "loaded"}
      /\ \A s \in Requests \ {r} : req'[s] = req[s]
  BY <1>1 DEF LoadNote, TypeOK
<1>3. /\ overlap \subseteq overlap'
      /\ (\E s \in Requests \ {r} : Retracting(s, n)) => n \in overlap'
  BY DEF LoadNote
<1>4. \A s \in Requests \ {r} : \A m : Retracting(s, m)' => Retracting(s, m) /\ Op(s)' = Op(s)
  BY <1>2 DEF Retracting, Op
<1>5. Logs' /\ \A m : \A c \in Cases : \A i : Told(m, c, i)' => Told(m, c, i)
  BY <1>1, NothingTold
<1>6. ASSUME NEW m \in Notes PROVE ToldOnce(m)' /\ Alone(m)'
  <2>1. ToldOnce(m) /\ Alone(m)
    BY DEF RetractInv
  <2>2. ToldOnce(m)'
    BY <1>1, <1>3, <1>5, <2>1 DEF ToldOnce
  <2>3. \A s \in Requests : Retracting(s, m)' => Retracting(s, m) \/ (s = r /\ m = n)
    BY <1>2, <1>4 DEF Retracting, Op
  <2>4. Alone(m)'
    BY <1>3, <2>1, <2>3 DEF Alone
  <2>. QED
    BY <2>2, <2>4
<1>7. ASSUME NEW s \in Requests PROVE LoadedIsNow(s)'
  <2>1. CASE s = r
    BY <1>1, <1>2, <2>1 DEF LoadedIsNow, Op
  <2>2. CASE s # r
    <3>1. req'[s] = req[s] /\ LoadedIsNow(s)
      BY <1>2, <2>2 DEF RetractInv
    <3>. QED
      BY <1>1, <1>3, <3>1 DEF LoadedIsNow, Retracting, Op
  <2>. QED
    BY <2>1, <2>2
<1>. QED
  BY <1>5, <1>6, <1>7 DEF RetractInv

\* The one event of a note: whoever writes it has read a note nobody had retracted, and
\* a reading that was still true when no other retraction was in flight.
LEMMA RetractionTold ==
  ASSUME RetractInv, DeskInv', NEW r \in Requests, CommitRetraction(r)
  PROVE  RetractInv'
<1>1. /\ TypeOK /\ Logs /\ overlap' = overlap /\ Goto(r, "done")
      /\ req[r].pc = "locked" /\ Op(r).kind = "retract"
  BY DEF RetractInv, DeskInv, CommitRetraction
<1>2. PICK n \in Notes, c \in Cases : n = Op(r).note /\ c = req[r].loaded.on
  BY <1>1, DeskAssumption DEF RetractInv, DeskInv, RequestsAgree, Asked, LoadedNote, OnCase
<1>2a. /\ note' = [note EXCEPT ![n].retracted = TRUE]
      /\ Store!Log(c, Store!RetractEvent(n))
  BY <1>2 DEF CommitRetraction
<1>3. /\ note'[n].retracted = TRUE
      /\ \A m \in Notes \ {n} : note'[m] = note[m]
  <2>1. note[n] \in NoteRow
    BY <1>1, <1>2 DEF TypeOK
  <2>. QED
    BY <1>2a, <1>1, <2>1 DEF TypeOK, NoteRow
<1>4. /\ Logs'
      /\ \A m \in Notes \ {n} : \A d \in Cases : \A i : Told(m, d, i)' => Told(m, d, i)
      /\ \A d \in Cases : \A i : Told(n, d, i)' =>
             Told(n, d, i) \/ (d = c /\ i = Len(trail[c]) + 1)
  <2>1. \A m : m # n => Store!RetractEvent(n) # Store!RetractEvent(m)
    BY EventsDiffer
  <2>2. PICK e : e = Store!RetractEvent(n)
    OBVIOUS
  <2>3. /\ Logs'
        /\ \A m : e # Store!RetractEvent(m) =>
               \A d \in Cases : \A i : Told(m, d, i)' => Told(m, d, i)
        /\ \A m : \A d \in Cases : \A i : Told(m, d, i)' =>
               Told(m, d, i) \/ (d = c /\ i = Len(trail[c]) + 1)
    BY <1>2a, <1>1, <2>2, LogTold
  <2>. QED
    BY <2>1, <2>2, <2>3
<1>5. \A s \in Requests : \A m : Retracting(s, m)' =>
         /\ Retracting(s, m) /\ Op(s)' = Op(s) /\ req'[s].loaded = req[s].loaded
         /\ req'[s].pc = "locked" => req[s].pc = "locked" \/ ~req[s].loaded.retracted
  BY <1>1, OtherPosition
<1>6. \A m : ~Retracting(r, m)'
  BY <1>1 DEF Retracting, Goto, TypeOK
<1>7. Retracting(r, n)
  BY <1>1, <1>2 DEF Retracting
<1>8. n \notin overlap => \A d \in Cases : \A i : ~Told(n, d, i)
  BY <1>1, <1>2, <1>7 DEF RetractInv, LoadedIsNow, ToldOnce
<1>9. ASSUME NEW m \in Notes PROVE ToldOnce(m)' /\ Alone(m)'
  <2>1. ToldOnce(m) /\ Alone(m)
    BY DEF RetractInv
  <2>2. ToldOnce(m)'
    <3>1. CASE m = n
      <4>1. \A d \in Cases : \A i : Told(n, d, i)' => note'[n].retracted = TRUE
        BY <1>3
      <4>2. n \notin overlap => \A d \in Cases : \A i : Told(n, d, i)' =>
                                   d = c /\ i = Len(trail[c]) + 1
        BY <1>4, <1>8
      <4>. QED
        BY <1>1, <3>1, <4>1, <4>2 DEF ToldOnce
    <3>2. CASE m # n
      BY <1>1, <1>3, <1>4, <2>1, <3>2 DEF ToldOnce
    <3>. QED
      BY <3>1, <3>2
  <2>3. Alone(m)'
    BY <1>1, <1>5, <2>1 DEF Alone
  <2>. QED
    BY <2>2, <2>3
<1>10. ASSUME NEW s \in Requests PROVE LoadedIsNow(s)'
  <2>. SUFFICES ASSUME Retracting(s, Op(s).note)', Op(s).note' \notin overlap'
       PROVE  LoadedIsNow(s)'
    BY DEF LoadedIsNow
  <2>. DEFINE m == Op(s).note
  <2>1. /\ s # r /\ Op(s)' = Op(s) /\ Retracting(s, m) /\ m \notin overlap
    BY <1>1, <1>5, <1>6 DEF Op
  <2>2. req'[s] = req[s]
    BY <1>1, <2>1 DEF Goto, TypeOK
  <2>3. m \in Notes
    BY <2>1, DeskAssumption DEF RetractInv, DeskInv, RequestsAgree, Asked, Retracting
  <2>4. m # n
    BY <1>2, <1>7, <2>1 DEF RetractInv, Alone
  <2>. QED
    BY <1>3, <2>1, <2>2, <2>3, <2>4 DEF RetractInv, LoadedIsNow
<1>. QED
  BY <1>4, <1>9, <1>10 DEF RetractInv

\* Grouping moves notes and retracts none.
LEMMA GroupQuiet ==
  ASSUME RetractInv, DeskInv', Group
  PROVE  RetractInv'
<1>1. TypeOK /\ Logs /\ overlap' = overlap /\ req' = req
  BY DEF RetractInv, DeskInv, Group, ReadCases, MoveNotes, CommitGrouping, RollbackGrouping, tables
<1>2. \A s \in Requests : \A n : Retracting(s, n)' =>
         /\ Retracting(s, n) /\ Op(s)' = Op(s) /\ req'[s].loaded = req[s].loaded
         /\ req'[s].pc = "locked" => req[s].pc = "locked" \/ ~req[s].loaded.retracted
  BY <1>1 DEF Retracting, Op
<1>3. CASE UNCHANGED <<note, trail>>
  BY <1>1, <1>2, <1>3, NothingTold, NothingRetracted
<1>4. CASE CommitGrouping
  <2>. DEFINE c == plan.case
              into == plan.into
  <2>1. c \in Cases /\ into \in Cases
    BY <1>4 DEF CommitGrouping, RetractInv, DeskInv, PlanAgrees
  <2>2. CASE c = into
    <3>1. UNCHANGED note /\ Store!Log(c, Store!LinkEvent)
      BY <1>4, <2>2 DEF CommitGrouping
    <3>2. Logs' /\ \A n : \A d \in Cases : \A i : Told(n, d, i)' => Told(n, d, i)
      BY <1>1, <2>1, <3>1, EventsDiffer, LogTold
    <3>. QED
      BY <1>1, <1>2, <3>1, <3>2, NothingRetracted
  <2>3. CASE c # into
    <3>. DEFINE merge == Store!MergeEvent(plan.read[c].status)
    <3>1. /\ note' = [n \in Notes |->
                        IF n \in plan.moved THEN [note[n] EXCEPT !.on = into] ELSE note[n]]
          /\ trail' = [trail EXCEPT ![c] = Append(trail[c], merge),
                                    ![into] = Append(trail[into], Store!LinkEvent)]
      BY <1>1, <1>4, <2>1, <2>3 DEF CommitGrouping, Logs
    <3>2. \A n \in Notes : note'[n].retracted = note[n].retracted
      <4>1. \A n \in Notes : note[n] \in NoteRow
        BY <1>1 DEF TypeOK
      <4>. QED
        BY <3>1, <4>1 DEF NoteRow
    <3>. HIDE DEF merge
    <3>3. /\ trail'[c] = Append(trail[c], merge)
          /\ trail'[into] = Append(trail[into], Store!LinkEvent)
          /\ \A d \in Cases \ {c, into} : trail'[d] = trail[d]
          /\ trail' = [d \in Cases |-> trail'[d]]
      BY <1>1, <2>1, <2>3, <3>1 DEF Logs
    <3>4. \A d \in {c, into} : \E e : /\ trail'[d] = Append(trail[d], e)
                                      /\ \A n : e # Store!RetractEvent(n)
      <4>1. \A n : merge # Store!RetractEvent(n) /\ Store!LinkEvent # Store!RetractEvent(n)
        BY EventsDiffer DEF merge
      <4>. QED
        BY <3>3, <4>1
    <3>5. ASSUME NEW d \in Cases PROVE IsLog(trail'[d])
      <4>1. IsLog(trail[d])
        BY <1>1 DEF Logs
      <4>2. CASE d \in {c, into}
        <5>1. PICK e : trail'[d] = Append(trail[d], e)
          BY <3>4, <4>2
        <5>2. IsLog(Append(trail[d], e))
          BY <4>1, Appended
        <5>. QED
          BY <5>1, <5>2
      <4>3. CASE d \notin {c, into}
        BY <3>3, <4>1, <4>3
      <4>. QED
        BY <4>2, <4>3
    <3>6. Logs'
      BY <3>3, <3>5 DEF Logs, IsLog
    <3>7. ASSUME NEW n \in Notes, NEW d \in Cases, NEW i, Told(n, d, i)'
          PROVE  Told(n, d, i)
      <4>1. i \in DOMAIN trail'[d] /\ trail'[d][i] = Store!RetractEvent(n)
        BY <3>7 DEF Told, Store!RetractEvent, Store!Event
      <4>2. CASE d \notin {c, into}
        BY <3>3, <4>1, <4>2 DEF Told
      <4>3. CASE d \in {c, into}
        <5>1. PICK e : trail'[d] = Append(trail[d], e) /\ e # Store!RetractEvent(n)
          BY <3>4, <4>3
        <5>2. IsLog(trail[d])
          BY <1>1 DEF Logs
        <5>3. i \in 1..Len(trail[d]) /\ trail'[d][i] = trail[d][i]
          BY <4>1, <5>1, <5>2, Appended
        <5>. QED
          BY <4>1, <5>2, <5>3 DEF Told, IsLog
      <4>. QED
        BY <4>2, <4>3
    <3>. QED
      BY <1>1, <1>2, <3>2, <3>6, <3>7, NothingRetracted
  <2>. QED
    BY <2>2, <2>3
<1>. QED
  BY <1>3, <1>4 DEF Group, ReadCases, MoveNotes, RollbackGrouping, tables

\* Every step keeps the invariant.
LEMMA RetractStep == RetractInv /\ [Next]_vars => RetractInv'
<1>. SUFFICES ASSUME RetractInv, [Next]_vars PROVE RetractInv'
  OBVIOUS
<1>1. DeskInv'
  BY DeskStep DEF RetractInv
<1>2. CASE UNCHANGED vars
  <2>1. UNCHANGED <<note, trail, req, overlap>>
    BY <1>2 DEF vars
  <2>2. \A s \in Requests : \A n : Retracting(s, n)' =>
           /\ Retracting(s, n) /\ Op(s)' = Op(s) /\ req'[s].loaded = req[s].loaded
           /\ req'[s].pc = "locked" => req[s].pc = "locked" \/ ~req[s].loaded.retracted
    BY <2>1 DEF Retracting, Op
  <2>. QED
    BY <1>1, <2>1, <2>2, NothingTold, NothingRetracted DEF RetractInv
<1>. QED
  BY <1>1, <1>2, QuietStep, CommitCaseQuiet, LoadNoteLoads, RetractionTold, GroupQuiet
     DEF Next, Answer

\* retract_note: a note gets one case.note_retracted event at most, in whatever stream,
\* however often and by whoever its retraction is asked for, and wherever merges move it,
\* as long as no two retractions of it are in flight together.
THEOREM RetractedOnce == Spec => []OneRetraction
<1>1. RetractInv => OneRetraction
  <2>. SUFFICES ASSUME RetractInv, NEW n \in Notes \ overlap
       PROVE  Cardinality(UNION {{<<c, i>> : i \in {j \in DOMAIN trail[c] :
                  trail[c][j] = Store!RetractEvent(n)}} : c \in Cases}) <= 1
    BY DEF OneRetraction
  <2>. DEFINE events == UNION {{<<c, i>> : i \in {j \in DOMAIN trail[c] :
                  trail[c][j] = Store!RetractEvent(n)}} : c \in Cases}
  <2>1. \A x \in events : \E c \in Cases : \E i : x = <<c, i>> /\ Told(n, c, i)
    BY DEF Told
  <2>2. ToldOnce(n)
    BY DEF RetractInv
  <2>3. \A x, y \in events : x = y
    BY <2>1, <2>2 DEF ToldOnce
  <2>. HIDE DEF events
  <2>4. events = {} \/ \E x : events = {x}
    BY <2>3
  <2>5. Cardinality(events) <= 1
    <3>1. CASE events = {}
      BY <3>1, FS_EmptySet
    <3>2. ASSUME NEW x, events = {x} PROVE Cardinality(events) <= 1
      BY <3>2, FS_Singleton
    <3>. QED
      BY <2>4, <3>1, <3>2
  <2>. QED
    BY <2>5 DEF events
<1>. QED
  BY <1>1, RetractInit, RetractStep, PTL DEF Spec

=============================================================================
