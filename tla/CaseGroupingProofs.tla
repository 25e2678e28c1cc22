------------------------- MODULE CaseGroupingProofs -------------------------
(***************************************************************************)
(* Proofs about CaseGrouping, for every number of transactions, alerts,    *)
(* notes and users and, but for the last part, with no bound on how many   *)
(* run at one time: types; the pointers of merged cases; dispositions;     *)
(* rows and their locks; audit streams; one grouping transaction at a time.*)
(***************************************************************************)
EXTENDS CaseGrouping, DataTheorems, FiniteSetTheorems

\* A transaction that has read its cases and chosen its target.
Decided(t) == tx[t].pc \in {"loop", "link", "note", "decision", "merge", "finish"}

\* What the local state of a transaction adds to its type.
LocalOK(t) ==
    /\ Active(t) => tx[t].alert \in Alerts
    /\ Decided(t) => tx[t].target \in Case
    /\ tx[t].pc \in {"link", "note", "decision", "merge"} => tx[t].loser \in tx[t].losers

TypeInv == TypeOK /\ \A t \in Tx : LocalOK(t)

-----------------------------------------------------------------------------
(* Lemmas about the operators of the model. *)

\* The aggregate of a case's alerts is a risk score.
LEMMA AggregateRiskType ==
    ASSUME NEW A \in SUBSET Alerts
    PROVE  AggregateRisk(A) \in 0..100
<1> DEFINE S == {Score[a] : a \in A}
<1>1. S \in SUBSET (0..100)
  <2>1. Score \in [Alerts -> 0..100]
    BY CaseGroupingAssumption
  <2>2. \A a \in A : Score[a] \in 0..100
    BY <2>1
  <2> QED BY <2>2
<1>2. CASE A = {}
  BY <1>2 DEF AggregateRisk
<1>3. CASE A # {}
  <2>1. S # {}
    BY <1>3
  <2>2. Max(S) \in 0..100
    BY <1>1, <2>1, MaxOfBounded
  <2> QED BY <1>3, <2>2 DEF AggregateRisk
<1> QED BY <1>2, <1>3

\* Counting links gives a natural number.
LEMMA LinkCountType ==
    ASSUME NEW S \in SUBSET Tx
    PROVE  Cardinality(S) \in Nat
<1>1. MaxTx \in Int /\ 1 \in Int
  BY CaseGroupingAssumption
<1>2. IsFiniteSet(Tx)
  BY <1>1, FS_Interval DEF Tx
<1>3. IsFiniteSet(S)
  BY <1>2, FS_Subset
<1> QED BY <1>3, FS_CardinalityType

\* The survivor is one of the open cases and older than every other.
LEMMA SurvivorIsOldest ==
    ASSUME NEW open \in SUBSET Case, open # {}
    PROVE  Survivor(open) \in open /\ \A c \in open : Survivor(open) <= c
<1>1. open \in SUBSET Nat
  BY CaseGroupingAssumption DEF Case, Tx
<1> QED BY <1>1, MinOfNaturals DEF Survivor

\* A new case is a row.
LEMMA NewCaseType ==
    ASSUME NEW a \in Alerts
    PROVE  /\ NewCase(a) \in CaseRow
           /\ NewCase(a).status = "Open" /\ NewCase(a).canonical = NoCase
           /\ NewCase(a).disposition = NoDisposition
BY CaseGroupingAssumption DEF NewCase, NoRow, CaseRow, Status

\* The absent row has the type of a row.
LEMMA NoRowType == NoRow \in CaseRow /\ NoRow.status = "None" /\ NoRow.canonical = NoCase
BY DEF NoRow, CaseRow, Status

\* A transaction that holds nothing.
LEMMA NoLocksType ==
    /\ NothingDrafted \in [Case -> CaseRow]
    /\ NothingMine \in [Row -> Case \cup {NoCase, Untouched}]
    /\ NoEvents \in [Case -> Seq(Event)]
<1>1. <<>> \in Seq(Event)
  OBVIOUS
<1> QED BY <1>1, NoRowType DEF NothingDrafted, NothingMine, NoEvents

\* A transaction that has not started.
LEMMA IdleType == Idle \in TxRow
BY NoRowType DEF Idle, TxRow

\* What a transaction sees of a row or of a case has the type of the table.
LEMMA SeenType ==
    ASSUME TypeOK, NEW t \in Tx
    PROVE  /\ \A r \in Row : SeenOwner(t, r) \in Case \cup {NoCase, Absent}
           /\ \A c \in Case : SeenCase(t, c) \in CaseRow
<1>1. owner \in [Row -> Case \cup {NoCase, Absent}]
      /\ mine[t] \in [Row -> Case \cup {NoCase, Untouched}]
  BY DEF TypeOK
<1>2. case \in [Case -> CaseRow] /\ draft[t] \in [Case -> CaseRow]
  BY DEF TypeOK
<1> QED BY <1>1, <1>2 DEF SeenOwner, SeenCase

-----------------------------------------------------------------------------
(* The type invariant. *)

\* The initial tables and local states have their types.
LEMMA InitType == Init => TypeInv
<1> SUFFICES ASSUME Init PROVE TypeInv
  OBVIOUS
<1>1. /\ Seeded \subseteq Case
      /\ \A s \in Seeded : SeedAlert[s] \in Alerts
  <2>1. PICK k \in 0..MaxTx : SeedAlert \in [1..k -> Alerts]
    BY CaseGroupingAssumption
  <2> QED BY <2>1, CaseGroupingAssumption DEF Seeded, Case, Tx
<1>2. case \in [Case -> CaseRow]
  <2>1. \A s \in Seeded : [NewCase(SeedAlert[s]) EXCEPT !.count = 1] \in CaseRow
    BY <1>1, NewCaseType DEF CaseRow
  <2> QED BY <2>1, NoRowType DEF Init
<1>3. owner \in [Row -> Case \cup {NoCase, Absent}]
  BY <1>1 DEF Init
<1>4. trail \in [Case -> Seq(Event)]
  <2>1. Linked \in Event
    BY DEF Linked, Event, Action
  <2>2. <<Linked>> \in Seq(Event) /\ <<>> \in Seq(Event)
    BY <2>1
  <2> QED BY <2>2 DEF Init
<1>5. tx \in [Tx -> TxRow] /\ \A t \in Tx : LocalOK(t)
  <2>1. \A s \in Seeded : [Idle EXCEPT !.pc = "done", !.alert = SeedAlert[s]] \in TxRow
    BY <1>1, IdleType DEF TxRow
  <2>2. tx \in [Tx -> TxRow]
    BY <2>1, IdleType DEF Init, Case
  <2>3. \A t \in Tx : tx[t].pc \in {"idle", "done"}
    BY DEF Init, Idle
  <2> QED BY <2>2, <2>3 DEF LocalOK, Active, Decided
<1>6. draft \in [Tx -> [Case -> CaseRow]] /\ share \in [Tx -> SUBSET Case]
  BY NoLocksType DEF Init
<1>7. /\ mine \in [Tx -> [Row -> Case \cup {NoCase, Untouched}]]
      /\ events \in [Tx -> [Case -> Seq(Event)]]
  BY NoLocksType DEF Init
<1> QED BY <1>2, <1>3, <1>4, <1>5, <1>6, <1>7 DEF TypeInv, TypeOK

\* A local step of t that leaves the other variables' types alone.
LEMMA LocalStep ==
    ASSUME TypeInv, NEW t \in Tx, NEW row \in TxRow, tx' = [tx EXCEPT ![t] = row],
           row.pc \notin {"idle", "done", "aborted"} => row.alert \in Alerts,
           row.pc \in {"loop", "link", "note", "decision", "merge", "finish"} =>
               row.target \in Case,
           row.pc \in {"link", "note", "decision", "merge"} => row.loser \in row.losers
    PROVE  tx' \in [Tx -> TxRow] /\ (\A u \in Tx : LocalOK(u))'
<1>1. tx \in [Tx -> TxRow]
  BY DEF TypeInv, TypeOK
<1>2. tx' \in [Tx -> TxRow]
  BY <1>1
<1>3. ASSUME NEW u \in Tx PROVE LocalOK(u)'
  <2>1. CASE u = t
    <3>1. tx'[u] = row
      BY <2>1, <1>1
    <3> QED BY <3>1 DEF LocalOK, Active, Decided
  <2>2. CASE u # t
    <3>1. tx'[u] = tx[u] /\ LocalOK(u)
      BY <2>2, <1>1 DEF TypeInv
    <3> QED BY <3>1 DEF LocalOK, Active, Decided
  <2> QED BY <2>1, <2>2
<1> QED BY <1>2, <1>3

\* Starting: the alert's row is inserted by the transaction, or was stored before.
LEMMA BeginType ==
    ASSUME TypeInv, NEW t \in Tx, NEW a \in Alerts, BeginIngest(t, a) \/ BeginJob(t, a)
    PROVE  TypeInv'
<1> DEFINE row == [tx[t] EXCEPT !.pc = "match", !.alert = a]
<1>1. tx[t] \in TxRow
  BY DEF TypeInv, TypeOK
<1>2. row \in TxRow /\ row.pc = "match" /\ row.alert \in Alerts
  BY <1>1 DEF TxRow
<1>3. tx' = [tx EXCEPT ![t] = row]
  BY DEF BeginIngest, BeginJob
<1> HIDE DEF row
<1>4. tx' \in [Tx -> TxRow] /\ (\A u \in Tx : LocalOK(u))'
  BY <1>2, <1>3, LocalStep
<1>5. mine' \in [Tx -> [Row -> Case \cup {NoCase, Untouched}]]
  <2>1. mine \in [Tx -> [Row -> Case \cup {NoCase, Untouched}]]
    BY DEF TypeInv, TypeOK
  <2>2. CASE BeginIngest(t, a)
    <3>1. mine' = [mine EXCEPT ![t] = [mine[t] EXCEPT ![<<"alert", a>>] = NoCase]]
      BY <2>1, <2>2 DEF BeginIngest
    <3>2. [mine[t] EXCEPT ![<<"alert", a>>] = NoCase] \in [Row -> Case \cup {NoCase, Untouched}]
      BY <2>1
    <3> QED BY <2>1, <3>1, <3>2
  <2>3. CASE BeginJob(t, a)
    BY <2>1, <2>3 DEF BeginJob, locks
  <2> QED BY <2>2, <2>3
<1>6. UNCHANGED <<case, owner, trail, draft, events, share>>
  BY DEF BeginIngest, BeginJob, tables, locks
<1> QED BY <1>4, <1>5, <1>6 DEF TypeInv, TypeOK

\* Storing an alert alone touches only its row.
LEMMA PersistType ==
    ASSUME TypeInv, NEW a \in Alerts, PersistAlertOnly(a)
    PROVE  TypeInv'
<1>1. owner' \in [Row -> Case \cup {NoCase, Absent}]
  BY DEF TypeInv, TypeOK, PersistAlertOnly
<1>2. UNCHANGED <<case, trail, tx, draft, mine, events, share>>
  BY DEF PersistAlertOnly, locks
<1> QED BY <1>1, <1>2 DEF TypeInv, TypeOK, LocalOK, Active, Decided

\* The matched cases are cases.
LEMMA MatchType ==
    ASSUME TypeInv, NEW t \in Tx, MatchCandidates(t)
    PROVE  TypeInv'
<1> DEFINE component == Component(AlertOf(t), Candidates(t, AlertOf(t)))
           matched == {SeenOwner(t, <<"alert", b>>) : b \in component}
           row == [tx[t] EXCEPT !.pc = "read", !.matched = matched]
<1>1. tx[t] \in TxRow /\ LocalOK(t)
  BY DEF TypeInv, TypeOK
<1>2. \A b \in component : SeenOwner(t, <<"alert", b>>) \in Case
  BY DEF Component, Candidates
<1>3. matched \in SUBSET Case
  BY <1>2
<1>4. tx' = [tx EXCEPT ![t] = row]
  BY DEF MatchCandidates
<1> HIDE DEF matched
<1>5. row \in TxRow /\ row.pc = "read" /\ row.alert = tx[t].alert
  BY <1>1, <1>3 DEF TxRow
<1>6. row.alert \in Alerts
  BY <1>1, <1>5 DEF LocalOK, Active, MatchCandidates
<1> HIDE DEF row
<1>7. tx' \in [Tx -> TxRow] /\ (\A u \in Tx : LocalOK(u))'
  BY <1>4, <1>5, <1>6, LocalStep
<1>8. UNCHANGED <<case, owner, trail, draft, mine, events, share>>
  BY DEF MatchCandidates, tables, locks
<1> QED BY <1>7, <1>8 DEF TypeInv, TypeOK

\* The target of a reading is the transaction's own case or one that was read.
LEMMA ReadType ==
    ASSUME TypeInv, NEW t \in Tx, ReadCases(t)
    PROVE  TypeInv'
<1> DEFINE matched == tx[t].matched
           closed == {c \in matched : case[c].status = "Closed"}
           open == {c \in matched : case[c].status \notin {"Merged", "Closed"}}
           target == IF open = {} THEN t ELSE Survivor(open)
           read == [c \in Case |-> IF c \in matched THEN case[c] ELSE NoRow]
           row == [tx[t] EXCEPT !.pc = "loop", !.read = read, !.flags = closed,
                                !.target = target, !.losers = open \ {target}]
<1>1. tx[t] \in TxRow /\ LocalOK(t) /\ case \in [Case -> CaseRow]
  BY DEF TypeInv, TypeOK
<1>2. closed \in SUBSET Case /\ open \in SUBSET Case
  BY <1>1 DEF TxRow
<1>3. target \in Case
  BY <1>2, SurvivorIsOldest DEF Case
<1>4. read \in [Case -> CaseRow]
  BY <1>1, NoRowType
<1>5. tx' = [tx EXCEPT ![t] = row]
  BY DEF ReadCases
<1> HIDE DEF matched, closed, open, target, read
<1>6. row \in TxRow /\ row.pc = "loop" /\ row.alert = tx[t].alert /\ row.target = target
  BY <1>1, <1>2, <1>3, <1>4 DEF TxRow
<1>7. row.alert \in Alerts
  BY <1>1, <1>6 DEF LocalOK, Active, ReadCases
<1> HIDE DEF row
<1>8. tx' \in [Tx -> TxRow] /\ (\A u \in Tx : LocalOK(u))'
  BY <1>3, <1>5, <1>6, <1>7, LocalStep
<1>9. UNCHANGED <<case, owner, trail, draft, mine, events, share>>
  BY DEF ReadCases, tables, locks
<1> QED BY <1>8, <1>9 DEF TypeInv, TypeOK

\* record_audit appends an event to a stream the transaction holds.
LEMMA RecordType ==
    ASSUME TypeInv, NEW t \in Tx, NEW c \in Case, NEW action \in Action,
           NEW before \in Status \cup {"None"}, NEW after \in Status \cup {"None"},
           Record(t, c, action, before, after)
    PROVE  events' \in [Tx -> [Case -> Seq(Event)]]
<1> DEFINE e == [action |-> action, before |-> before, after |-> after]
<1>1. events \in [Tx -> [Case -> Seq(Event)]]
  BY DEF TypeInv, TypeOK
<1>2. e \in Event
  BY DEF Event
<1>3. events' = [events EXCEPT ![t][c] = Append(events[t][c], e)]
  BY DEF Record
<1> HIDE DEF e
<1>4. Append(events[t][c], e) \in Seq(Event)
  BY <1>1, <1>2
<1>5. [events[t] EXCEPT ![c] = Append(events[t][c], e)] \in [Case -> Seq(Event)]
  BY <1>1, <1>4
<1>6. events' = [events EXCEPT ![t] = [events[t] EXCEPT ![c] = Append(events[t][c], e)]]
  BY <1>1, <1>3
<1> QED BY <1>1, <1>5, <1>6

\* Flagging a closed case.
LEMMA FlagType ==
    ASSUME TypeInv, NEW t \in Tx, NEW c \in Case, FlagClosed(t, c)
    PROVE  TypeInv'
<1> DEFINE row == [tx[t] EXCEPT !.flags = tx[t].flags \ {c}]
<1>1. tx[t] \in TxRow /\ LocalOK(t) /\ tx \in [Tx -> TxRow]
  BY DEF TypeInv, TypeOK
<1>2. tx' = [tx EXCEPT ![t] = row]
  BY <1>1 DEF FlagClosed
<1>3. row \in TxRow /\ row.pc = "loop" /\ row.alert = tx[t].alert /\ row.target = tx[t].target
  BY <1>1 DEF TxRow, FlagClosed
<1>4. row.alert \in Alerts /\ row.target \in Case
  BY <1>1, <1>3 DEF LocalOK, Active, Decided, FlagClosed
<1> HIDE DEF row
<1>5. tx' \in [Tx -> TxRow] /\ (\A u \in Tx : LocalOK(u))'
  BY <1>2, <1>3, <1>4, LocalStep
<1>6. events' \in [Tx -> [Case -> Seq(Event)]]
  <2>1. "case.review_flagged" \in Action
    BY DEF Action
  <2>2. Record(t, c, "case.review_flagged", "None", "None")
    BY DEF FlagClosed
  <2> QED BY <2>1, <2>2, RecordType
<1>7. UNCHANGED <<case, owner, trail, draft, mine, share>>
  BY DEF FlagClosed, tables
<1> QED BY <1>5, <1>6, <1>7 DEF TypeInv, TypeOK

\* A merge statement writes the survivor's id into rows of one table.
LEMMA MoveType ==
    ASSUME TypeInv, NEW t \in Tx, NEW table \in Tables, NEW loser \in Case,
           MoveRows(t, table, loser)
    PROVE  TypeInv'
<1> DEFINE rows == {r \in Row : r[1] = table /\ SeenOwner(t, r) = loser}
           survivor == tx[t].target
           row == [tx[t] EXCEPT !.pc = NextTable[table], !.loser = loser]
           moved == [r \in Row |-> IF r \in rows THEN survivor ELSE mine[t][r]]
<1>1. /\ tx[t] \in TxRow /\ LocalOK(t) /\ tx \in [Tx -> TxRow]
      /\ mine \in [Tx -> [Row -> Case \cup {NoCase, Untouched}]]
      /\ share \in [Tx -> SUBSET Case]
  BY DEF TypeInv, TypeOK
<1>2. /\ tx[t].alert \in Alerts /\ survivor \in Case /\ loser \in tx[t].losers
      /\ NextTable[table] \in {"link", "note", "decision", "merge"}
  BY <1>1 DEF MoveRows, LocalOK, Active, Decided, Tables, NextTable
<1>3. tx' = [tx EXCEPT ![t] = row]
  BY <1>1 DEF MoveRows
<1>4. /\ row \in TxRow /\ row.pc = NextTable[table] /\ row.alert = tx[t].alert
      /\ row.target = tx[t].target /\ row.loser = loser /\ row.losers = tx[t].losers
  BY <1>1, <1>2 DEF TxRow
<1>5. mine' = [mine EXCEPT ![t] = moved]
  BY <1>1 DEF MoveRows
<1>6. share' = [share EXCEPT ![t] = IF rows = {} THEN share[t] ELSE share[t] \cup {survivor}]
  BY <1>1 DEF MoveRows
<1> HIDE DEF row, rows, survivor
<1>7. tx' \in [Tx -> TxRow] /\ (\A u \in Tx : LocalOK(u))'
  <2>1. row.target \in Case
    BY <1>2, <1>4 DEF survivor
  <2> QED BY <1>2, <1>3, <1>4, <2>1, LocalStep
<1>8. moved \in [Row -> Case \cup {NoCase, Untouched}]
  BY <1>1, <1>2
<1>9. mine' \in [Tx -> [Row -> Case \cup {NoCase, Untouched}]] /\ share' \in [Tx -> SUBSET Case]
  BY <1>1, <1>2, <1>5, <1>6, <1>8
<1>10. UNCHANGED <<case, owner, trail, draft, events>>
  BY DEF MoveRows, tables
<1> QED BY <1>7, <1>9, <1>10 DEF TypeInv, TypeOK

\* The loser's row is drafted as Merged.
LEMMA MergeType ==
    ASSUME TypeInv, NEW t \in Tx, MergeLoser(t)
    PROVE  TypeInv'
<1> DEFINE l == tx[t].loser
           survivor == tx[t].target
           merged == MergedRow(SeenCase(t, l), survivor)
           row == [tx[t] EXCEPT !.pc = "loop", !.losers = tx[t].losers \ {l}, !.loser = NoCase]
<1>1. /\ tx[t] \in TxRow /\ LocalOK(t) /\ tx \in [Tx -> TxRow]
      /\ draft \in [Tx -> [Case -> CaseRow]] /\ share \in [Tx -> SUBSET Case]
  BY DEF TypeInv, TypeOK
<1>2. tx[t].alert \in Alerts /\ survivor \in Case /\ l \in Case
  BY <1>1 DEF MergeLoser, LocalOK, Active, Decided, TxRow
<1>3. tx' = [tx EXCEPT ![t] = row]
  BY <1>1 DEF MergeLoser
<1>4. /\ row \in TxRow /\ row.pc = "loop" /\ row.alert = tx[t].alert
      /\ row.target = tx[t].target
  BY <1>1 DEF TxRow
<1>5. tx' \in [Tx -> TxRow] /\ (\A u \in Tx : LocalOK(u))'
  <2> HIDE DEF row
  <2> QED BY <1>2, <1>3, <1>4, LocalStep
<1>6. merged \in CaseRow
  <2>1. SeenCase(t, l) \in CaseRow
    BY <1>2, SeenType DEF TypeInv
  <2> QED BY <1>2, <2>1 DEF MergedRow, CaseRow, Status
<1>7. draft' = [draft EXCEPT ![t] = [draft[t] EXCEPT ![l] = merged]]
  BY <1>1 DEF MergeLoser
<1>8. draft' \in [Tx -> [Case -> CaseRow]] /\ share' \in [Tx -> SUBSET Case]
  <2> HIDE DEF merged
  <2>1. [draft[t] EXCEPT ![l] = merged] \in [Case -> CaseRow]
    BY <1>1, <1>6
  <2> QED BY <1>1, <1>2, <1>7, <2>1 DEF MergeLoser
<1>9. events' \in [Tx -> [Case -> Seq(Event)]]
  <2>1. tx[t].read[l].status \in Status \cup {"None"}
    BY <1>1, <1>2 DEF TxRow, CaseRow
  <2>2. "case.merged" \in Action /\ "Merged" \in Status
    BY DEF Action, Status
  <2>3. Record(t, l, "case.merged", tx[t].read[l].status, "Merged")
    BY DEF MergeLoser
  <2> QED BY <1>2, <2>1, <2>2, <2>3, RecordType
<1>10. UNCHANGED <<case, owner, trail, mine>>
  BY DEF MergeLoser, tables
<1> QED BY <1>5, <1>8, <1>9, <1>10 DEF TypeInv, TypeOK

\* The attach: three rows, perhaps a new case, and the recomputed aggregates.
LEMMA AttachType ==
    ASSUME TypeInv, NEW t \in Tx, AttachAlert(t)
    PROVE  TypeInv'
<1> DEFINE a == AlertOf(t)
           c == tx[t].target
           seen(r) == IF r \in {<<"alert", a>>, <<"decision", t>>, <<"link", t>>}
                      THEN c ELSE SeenOwner(t, r)
           count == Cardinality({s \in Tx : seen(<<"link", s>>) = c})
           risk == AggregateRisk({b \in Alerts : seen(<<"alert", b>>) = c})
           row == [tx[t] EXCEPT !.pc = "finish", !.count = count, !.risk = risk]
           written == [mine[t] EXCEPT ![<<"alert", a>>] = c, ![<<"decision", t>>] = c,
                                      ![<<"link", t>>] = c]
<1>1. /\ tx[t] \in TxRow /\ LocalOK(t) /\ tx \in [Tx -> TxRow]
      /\ draft \in [Tx -> [Case -> CaseRow]] /\ share \in [Tx -> SUBSET Case]
      /\ mine \in [Tx -> [Row -> Case \cup {NoCase, Untouched}]]
  BY DEF TypeInv, TypeOK
<1>2. a \in Alerts /\ c \in Case
  BY <1>1 DEF AttachAlert, LocalOK, Active, Decided, AlertOf
<1>3. count \in Nat /\ risk \in 0..100
  BY LinkCountType, AggregateRiskType
<1>4. tx' = [tx EXCEPT ![t] = row]
  BY <1>1 DEF AttachAlert
<1> HIDE DEF count, risk
<1>5. row \in TxRow /\ row.pc = "finish" /\ row.alert = a /\ row.target = c
  BY <1>1, <1>3 DEF TxRow, AlertOf
<1> HIDE DEF row
<1>6. tx' \in [Tx -> TxRow] /\ (\A u \in Tx : LocalOK(u))'
  BY <1>2, <1>4, <1>5, LocalStep
<1>7. mine' = [mine EXCEPT ![t] = written]
  BY <1>1 DEF AttachAlert
<1>8. written \in [Row -> Case \cup {NoCase, Untouched}]
  BY <1>1, <1>2
<1>9. mine' \in [Tx -> [Row -> Case \cup {NoCase, Untouched}]]
  BY <1>1, <1>7, <1>8
<1>10. draft' \in [Tx -> [Case -> CaseRow]]
  <2>1. NewCase(a) \in CaseRow
    BY <1>2, NewCaseType
  <2>2. [draft[t] EXCEPT ![c] = NewCase(a)] \in [Case -> CaseRow]
    BY <1>1, <2>1
  <2>3. draft' = IF c = t THEN [draft EXCEPT ![t] = [draft[t] EXCEPT ![c] = NewCase(a)]] ELSE draft
    BY <1>1 DEF AttachAlert
  <2> QED BY <1>1, <2>2, <2>3
<1>11. share' \in [Tx -> SUBSET Case]
  BY <1>1, <1>2 DEF AttachAlert
<1>12. UNCHANGED <<case, owner, trail, events>>
  BY DEF AttachAlert, tables
<1> QED BY <1>6, <1>9, <1>10, <1>11, <1>12 DEF TypeInv, TypeOK

\* The recomputed row is a row with the status and pointer of the row it changes.
LEMMA RecomputedType ==
    ASSUME TypeInv, NEW t \in Tx, tx[t].pc = "finish", NEW row \in CaseRow
    PROVE  /\ Recomputed(t, row) \in CaseRow
           /\ Recomputed(t, row).status = row.status
           /\ Recomputed(t, row).canonical = row.canonical
           /\ Recomputed(t, row).disposition = row.disposition
<1>1. tx[t] \in TxRow /\ tx[t].alert \in Alerts /\ tx[t].target \in Case
  BY DEF TypeInv, TypeOK, LocalOK, Active, Decided
<1>2. TargetAsRead(t) \in CaseRow
  BY <1>1, NewCaseType DEF TargetAsRead, TxRow, AlertOf
<1>3. TargetAsRead(t).version + 1 \in Nat
  BY <1>2 DEF CaseRow
<1>4. tx[t].count \in Nat /\ tx[t].risk \in 0..100
  BY <1>1 DEF TxRow
<1> DEFINE read == TargetAsRead(t)
           version == IF tx[t].target = t THEN row.version ELSE read.version + 1
           count == IF tx[t].count = read.count THEN row.count ELSE tx[t].count
           risk == IF tx[t].risk = read.risk THEN row.risk ELSE tx[t].risk
<1>5. version \in Nat /\ count \in Nat /\ risk \in 0..100
  BY <1>3, <1>4 DEF CaseRow
<1>6. Recomputed(t, row) =
        [row EXCEPT !.version = version, !.count = count, !.risk = risk]
  BY DEF Recomputed, CaseRow
<1> HIDE DEF version, count, risk
<1> QED BY <1>5, <1>6 DEF CaseRow

\* Letting go of every lock keeps the types of what the others hold.
LEMMA ReleaseType ==
    ASSUME TypeInv, NEW t \in Tx,
           draft' = [draft EXCEPT ![t] = NothingDrafted], mine' = [mine EXCEPT ![t] = NothingMine],
           events' = [events EXCEPT ![t] = NoEvents], share' = [share EXCEPT ![t] = {}]
    PROVE  /\ draft' \in [Tx -> [Case -> CaseRow]]
           /\ mine' \in [Tx -> [Row -> Case \cup {NoCase, Untouched}]]
           /\ events' \in [Tx -> [Case -> Seq(Event)]]
           /\ share' \in [Tx -> SUBSET Case]
BY NoLocksType DEF TypeInv, TypeOK

\* The commit installs typed drafts, rows and events.
LEMMA FinishType ==
    ASSUME TypeInv, NEW t \in Tx, FinishGrouping(t)
    PROVE  TypeInv'
<1> DEFINE c == tx[t].target
           written == [draft[t] EXCEPT ![c] = Recomputed(t, SeenCase(t, c))]
           log == [events[t] EXCEPT ![c] = Append(events[t][c], Linked)]
           row == [Idle EXCEPT !.pc = "done", !.alert = AlertOf(t)]
<1>1. /\ tx[t] \in TxRow /\ LocalOK(t) /\ case \in [Case -> CaseRow]
      /\ draft \in [Tx -> [Case -> CaseRow]] /\ trail \in [Case -> Seq(Event)]
      /\ mine \in [Tx -> [Row -> Case \cup {NoCase, Untouched}]]
      /\ events \in [Tx -> [Case -> Seq(Event)]]
  BY DEF TypeInv, TypeOK
<1>2. tx[t].alert \in Alerts /\ c \in Case /\ tx[t].pc = "finish"
  BY <1>1 DEF FinishGrouping, LocalOK, Active, Decided
<1>3. Recomputed(t, SeenCase(t, c)) \in CaseRow
  <2>1. SeenCase(t, c) \in CaseRow
    BY <1>2, SeenType DEF TypeInv
  <2> QED BY <1>2, <2>1, RecomputedType
<1>4. case' \in [Case -> CaseRow]
  <2>1. written \in [Case -> CaseRow]
    BY <1>1, <1>3
  <2>2. case' = [d \in Case |-> IF written[d].status = "None" THEN case[d] ELSE written[d]]
    BY DEF FinishGrouping
  <2> HIDE DEF written
  <2> QED BY <1>1, <2>1, <2>2
<1>5. owner' \in [Row -> Case \cup {NoCase, Absent}]
  <2>1. owner' = [r \in Row |-> SeenOwner(t, r)]
    BY DEF FinishGrouping
  <2> QED BY <2>1, SeenType DEF TypeInv
<1>6. trail' \in [Case -> Seq(Event)]
  <2>1. Linked \in Event
    BY DEF Linked, Event, Action
  <2>2. Append(events[t][c], Linked) \in Seq(Event)
    BY <1>1, <1>2, <2>1
  <2>3. log \in [Case -> Seq(Event)]
    BY <1>1, <2>2
  <2>4. trail' = [d \in Case |-> trail[d] \o log[d]]
    BY <1>1 DEF FinishGrouping
  <2> HIDE DEF log
  <2>5. \A d \in Case : trail[d] \o log[d] \in Seq(Event)
    BY <1>1, <2>3
  <2> QED BY <2>4, <2>5
<1>7. tx' \in [Tx -> TxRow] /\ (\A u \in Tx : LocalOK(u))'
  <2>1. row \in TxRow /\ row.pc = "done"
    BY <1>2, IdleType DEF TxRow, AlertOf
  <2>2. tx' = [tx EXCEPT ![t] = row]
    BY DEF FinishGrouping
  <2> HIDE DEF row
  <2> QED BY <2>1, <2>2, LocalStep
<1>8. /\ draft' \in [Tx -> [Case -> CaseRow]]
      /\ mine' \in [Tx -> [Row -> Case \cup {NoCase, Untouched}]]
      /\ events' \in [Tx -> [Case -> Seq(Event)]]
      /\ share' \in [Tx -> SUBSET Case]
  BY ReleaseType DEF FinishGrouping
<1> QED BY <1>4, <1>5, <1>6, <1>7, <1>8 DEF TypeInv, TypeOK

\* A rollback leaves the tables alone.
LEMMA RollbackType ==
    ASSUME TypeInv, NEW t \in Tx, Rollback(t)
    PROVE  TypeInv'
<1> DEFINE row == [Idle EXCEPT !.pc = "aborted"]
<1>1. row \in TxRow /\ row.pc = "aborted"
  BY IdleType DEF TxRow
<1>2. tx' = [tx EXCEPT ![t] = row]
  BY DEF Rollback
<1> HIDE DEF row
<1>3. tx' \in [Tx -> TxRow] /\ (\A u \in Tx : LocalOK(u))'
  BY <1>1, <1>2, LocalStep
<1>4. /\ draft' \in [Tx -> [Case -> CaseRow]]
      /\ mine' \in [Tx -> [Row -> Case \cup {NoCase, Untouched}]]
      /\ events' \in [Tx -> [Case -> Seq(Event)]]
      /\ share' \in [Tx -> SUBSET Case]
  BY ReleaseType DEF Rollback
<1>5. UNCHANGED <<case, owner, trail>>
  BY DEF Rollback, tables
<1> QED BY <1>3, <1>4, <1>5 DEF TypeInv, TypeOK

\* An analyst's event.
LEMMA RecordNowType ==
    ASSUME TypeInv, NEW c \in Case, NEW action \in Action,
           NEW before \in Status \cup {"None"}, NEW after \in Status \cup {"None"},
           RecordNow(c, action, before, after)
    PROVE  trail' \in [Case -> Seq(Event)]
<1> DEFINE e == [action |-> action, before |-> before, after |-> after]
<1>1. trail \in [Case -> Seq(Event)]
  BY DEF TypeInv, TypeOK
<1>2. e \in Event
  BY DEF Event
<1>3. trail' = [trail EXCEPT ![c] = Append(trail[c], e)]
  BY DEF RecordNow
<1> HIDE DEF e
<1>4. Append(trail[c], e) \in Seq(Event)
  BY <1>1, <1>2
<1> QED BY <1>1, <1>3, <1>4

\* The lifecycle graph stays inside the five statuses.
LEMMA AllowedType ==
    ASSUME NEW s \in Status
    PROVE  ALLOWED[s] \in SUBSET (Status \ {"Merged"}) /\ (s = "Merged" => ALLOWED[s] = {})
BY DEF ALLOWED, Status

\* The analysts' operations.
LEMMA AnalystType ==
    ASSUME TypeInv, NEW c \in Case, Analyst(c)
    PROVE  TypeInv'
<1>1. case \in [Case -> CaseRow] /\ case[c] \in CaseRow
  BY DEF TypeInv, TypeOK
<1>2. \A x \in {"case.transitioned", "case.assigned", "case.note_added"} : x \in Action
  BY DEF Action
<1>3. ASSUME NEW target \in Status, NEW d \in Dispositions \cup {NoDisposition},
             TransitionCase(c, target, d)
      PROVE  TypeInv'
  <2> DEFINE row == [case[c] EXCEPT !.status = target, !.version = case[c].version + 1,
                                    !.disposition = DispositionAfter(case[c], target, d)]
  <2>1. case' = [case EXCEPT ![c] = row]
    BY <1>1, <1>3 DEF TransitionCase
  <2>2. row \in CaseRow
    <3>1. DispositionAfter(case[c], target, d) \in Dispositions \cup {NoDisposition}
      BY <1>1 DEF CaseRow, DispositionAfter
    <3>2. case[c].version + 1 \in Nat
      BY <1>1 DEF CaseRow
    <3> QED BY <1>1, <3>1, <3>2 DEF CaseRow
  <2>3. case' \in [Case -> CaseRow]
    <3> HIDE DEF row
    <3> QED BY <1>1, <2>1, <2>2
  <2>4. trail' \in [Case -> Seq(Event)]
    <3>1. case[c].status \in Status \cup {"None"}
      BY <1>1 DEF CaseRow
    <3>2. RecordNow(c, "case.transitioned", case[c].status, target)
      BY <1>3 DEF TransitionCase, TransitionEvent
    <3> QED BY <1>2, <3>1, <3>2, RecordNowType
  <2>5. UNCHANGED <<owner, tx, draft, mine, events, share>>
    BY <1>3 DEF TransitionCase, locks
  <2> QED BY <2>3, <2>4, <2>5 DEF TypeInv, TypeOK, LocalOK, Active, Decided
<1>4. ASSUME NEW u \in Users \cup {NoUser}, AssignCase(c, u)
      PROVE  TypeInv'
  <2> DEFINE row == [case[c] EXCEPT !.assignee = u, !.version = case[c].version + 1]
  <2>1. case' = [case EXCEPT ![c] = row]
    BY <1>1, <1>4 DEF AssignCase
  <2>2. row \in CaseRow
    <3>1. case[c].version + 1 \in Nat
      BY <1>1 DEF CaseRow
    <3> QED BY <1>1, <3>1 DEF CaseRow
  <2>3. case' \in [Case -> CaseRow]
    <3> HIDE DEF row
    <3> QED BY <1>1, <2>1, <2>2
  <2>4. trail' \in [Case -> Seq(Event)]
    BY <1>2, <1>4, RecordNowType DEF AssignCase
  <2>5. UNCHANGED <<owner, tx, draft, mine, events, share>>
    BY <1>4 DEF AssignCase, locks
  <2> QED BY <2>3, <2>4, <2>5 DEF TypeInv, TypeOK, LocalOK, Active, Decided
<1>5. ASSUME NEW n \in Notes, AddNote(c, n)
      PROVE  TypeInv'
  <2>1. owner' \in [Row -> Case \cup {NoCase, Absent}]
    BY <1>5 DEF TypeInv, TypeOK, AddNote
  <2>2. trail' \in [Case -> Seq(Event)]
    BY <1>2, <1>5, RecordNowType DEF AddNote
  <2>3. UNCHANGED <<case, tx, draft, mine, events, share>>
    BY <1>5 DEF AddNote, locks
  <2> QED BY <2>1, <2>2, <2>3 DEF TypeInv, TypeOK, LocalOK, Active, Decided
<1> QED BY <1>3, <1>4, <1>5 DEF Analyst

\* Every step keeps the type invariant.
LEMMA StepType == TypeInv /\ [Next]_vars => TypeInv'
<1> SUFFICES ASSUME TypeInv, [Next]_vars PROVE TypeInv'
  OBVIOUS
<1>1. ASSUME NEW t \in Tx, Grouping(t)
      PROVE  TypeInv'
  BY <1>1, BeginType, MatchType, ReadType, FlagType, MoveType, MergeType, AttachType,
     FinishType, RollbackType DEF Grouping
<1>2. CASE UNCHANGED vars
  BY <1>2 DEF vars, TypeInv, TypeOK, LocalOK, Active, Decided
<1> QED BY <1>1, <1>2, PersistType, AnalystType DEF Next

\* Every reachable state has its types: no transaction, however it is interleaved,
\* rolled back or repeated, leaves a row outside the schema.
THEOREM TypeCorrect == Spec => []TypeOK
<1>1. Init => TypeInv
  BY InitType
<1>2. TypeInv /\ [Next]_vars => TypeInv'
  BY StepType
<1>3. TypeInv => TypeOK
  BY DEF TypeInv
<1> QED BY <1>1, <1>2, <1>3, PTL DEF Spec

-----------------------------------------------------------------------------
(***************************************************************************)
(* Overlapping merges of CaseGrouping: the pointers of merged cases never  *)
(* loop and a merged case stays merged.  No transaction reads a case under *)
(* a lock, so the argument cannot use the status of the survivor or of the *)
(* loser at commit time.  It uses what no commit ever takes back instead:  *)
(* a case that exists keeps existing, and the order of the stamps.         *)
(***************************************************************************)
\* The case_id of a row refers to a case (the foreign keys).
OwnerExists == \A r \in Row : owner[r] \in Case => Exists(owner[r])

\* What t matched exists, and its losers are newer than its survivor.
Matched(t) == tx[t].pc = "read" => \A c \in tx[t].matched : Exists(c)

Chosen(t) == Decided(t) =>
    /\ (tx[t].target = t /\ tx[t].losers = {}) \/ Exists(tx[t].target)
    /\ \A l \in tx[t].losers : Exists(l) /\ tx[t].target < l

\* t has moved rows only to its target.
Moved(t) == \A r \in Row : mine[t][r] \in Case => Decided(t) /\ mine[t][r] = tx[t].target

\* A draft is t's own new case, or a case t has merged.
DraftNew(t, c) ==
    /\ c = t /\ tx[t].target = t /\ tx[t].pc = "finish"
    /\ draft[t][c].status = "Open" /\ draft[t][c].canonical = NoCase
    /\ draft[t][c].disposition = NoDisposition

DraftMerged(t, c) ==
    /\ draft[t][c].status = "Merged" /\ draft[t][c].canonical = tx[t].target
    /\ tx[t].target < c /\ Exists(c) /\ Exists(tx[t].target)

Drafted(t) == \A c \in Case : draft[t][c].status # "None" =>
    Decided(t) /\ (DraftNew(t, c) \/ DraftMerged(t, c))

\* The new case is drafted before the last flush, and committed with it.
Created(t) ==
    /\ tx[t].pc = "finish" /\ tx[t].target = t => draft[t][t].status = "Open"
    /\ tx[t].pc # "done" => ~Exists(t)

TxInv(t) == Matched(t) /\ Chosen(t) /\ Moved(t) /\ Drafted(t) /\ Created(t)

MergeInv == TypeInv /\ MergedPointsOlder /\ OwnerExists /\ \A t \in Tx : TxInv(t)

-----------------------------------------------------------------------------
(* Lemmas: what the steps of the other transactions leave true. *)

\* What t knows depends on its own state and on which cases exist, and cases are
\* only ever added: t's own by t itself.
LEMMA OtherTx ==
    ASSUME TypeInv, NEW t \in Tx, TxInv(t),
           tx'[t] = tx[t], draft'[t] = draft[t], mine'[t] = mine[t],
           \A c \in Case : Exists(c) => Exists(c)', Exists(t)' => Exists(t)
    PROVE  TxInv(t)'
<1>1. tx[t] \in TxRow /\ LocalOK(t)
  BY DEF TypeInv, TypeOK
<1>2. Matched(t)'
  BY <1>1 DEF TxInv, Matched, TxRow
<1>3. Chosen(t)'
  <2>1. Decided(t)' <=> Decided(t)
    BY DEF Decided
  <2> QED BY <1>1, <2>1 DEF TxInv, Chosen, LocalOK, TxRow
<1>4. Moved(t)'
  BY DEF TxInv, Moved, Decided
<1>5. Drafted(t)'
  <2> SUFFICES ASSUME NEW c \in Case, draft[t][c].status # "None"
               PROVE  Decided(t)' /\ (DraftNew(t, c)' \/ DraftMerged(t, c)')
    BY DEF Drafted
  <2>1. Decided(t) /\ (DraftNew(t, c) \/ DraftMerged(t, c))
    BY DEF TxInv, Drafted
  <2>2. Decided(t)' /\ tx[t].target \in Case
    BY <1>1, <2>1 DEF Decided, LocalOK
  <2>3. CASE DraftNew(t, c)
    BY <2>2, <2>3 DEF DraftNew
  <2>4. CASE DraftMerged(t, c)
    BY <2>2, <2>4 DEF DraftMerged
  <2> QED BY <2>1, <2>3, <2>4
<1>6. Created(t)'
  BY DEF TxInv, Created
<1> QED BY <1>2, <1>3, <1>4, <1>5, <1>6 DEF TxInv

\* A step of t that changes no table keeps the invariant when it keeps t's part.
LEMMA LocalMerge ==
    ASSUME MergeInv, NEW t \in Tx, NEW row, tx' = [tx EXCEPT ![t] = row],
           UNCHANGED <<case, owner>>,
           \A u \in Tx \ {t} : draft'[u] = draft[u] /\ mine'[u] = mine[u],
           TypeInv', TxInv(t)'
    PROVE  MergeInv'
<1>1. MergedPointsOlder' /\ OwnerExists'
  BY DEF MergeInv, MergedPointsOlder, OwnerExists, Exists
<1>2. ASSUME NEW u \in Tx PROVE TxInv(u)'
  <2>1. CASE u = t
    BY <2>1
  <2>2. CASE u # t
    <3>1. tx'[u] = tx[u] /\ draft'[u] = draft[u] /\ mine'[u] = mine[u]
      BY <2>2 DEF MergeInv, TypeInv, TypeOK
    <3>2. \A c \in Case : Exists(c)' <=> Exists(c)
      BY DEF Exists
    <3> QED BY <3>1, <3>2, OtherTx DEF MergeInv, Case
  <2> QED BY <2>1, <2>2
<1> QED BY <1>1, <1>2 DEF MergeInv

-----------------------------------------------------------------------------
(* The invariant. *)

\* No transaction is open at the start and no case is merged.
LEMMA InitMerge == Init => MergeInv
<1> SUFFICES ASSUME Init PROVE MergeInv
  OBVIOUS
<1>1. TypeInv
  BY InitType
<1>2. Seeded \subseteq Case
  <2>1. PICK k \in 0..MaxTx : SeedAlert \in [1..k -> Alerts]
    BY CaseGroupingAssumption
  <2> QED BY <2>1, CaseGroupingAssumption DEF Seeded, Case, Tx
<1>3. \A c \in Case :
        /\ case[c].canonical = NoCase
        /\ case[c].status = IF c \in Seeded THEN "Open" ELSE "None"
  BY DEF Init, NewCase, NoRow
<1>4. MergedPointsOlder
  BY <1>3 DEF MergedPointsOlder
<1>5. OwnerExists
  <2>1. ASSUME NEW r \in Row, owner[r] \in Case PROVE owner[r] \in Seeded
    <3>1. Absent \notin Case
      BY CaseGroupingAssumption DEF Absent, Case, Tx
    <3>2. owner[r] \in Seeded \cup {Absent}
      BY DEF Init
    <3> QED BY <2>1, <3>1, <3>2
  <2> QED BY <1>3, <2>1 DEF OwnerExists, Exists
<1>6. ASSUME NEW t \in Tx PROVE TxInv(t)
  <2>1. tx[t].pc = IF t \in Seeded THEN "done" ELSE "idle"
    BY DEF Init, Idle
  <2>2. \A r \in Row : mine[t][r] = Untouched
    BY DEF Init, NothingMine
  <2>3. \A c \in Case : draft[t][c].status = "None"
    BY DEF Init, NothingDrafted, NoRow
  <2>4. Untouched \notin Case
    BY CaseGroupingAssumption DEF Untouched, Case, Tx
  <2>5. Moved(t)
    BY <2>2, <2>4 DEF Moved
  <2>6. Matched(t) /\ Chosen(t) /\ Drafted(t)
    BY <2>1, <2>3 DEF Matched, Chosen, Drafted, Decided
  <2>7. Created(t)
    BY <1>3, <2>1 DEF Created, Exists, Case
  <2> QED BY <2>5, <2>6, <2>7 DEF TxInv
<1> QED BY <1>1, <1>4, <1>5, <1>6 DEF MergeInv

\* A transaction starts without drafts and with its alert in no case.
LEMMA BeginMerge ==
    ASSUME MergeInv, NEW t \in Tx, NEW a \in Alerts, BeginIngest(t, a) \/ BeginJob(t, a)
    PROVE  MergeInv'
<1> DEFINE row == [tx[t] EXCEPT !.pc = "match", !.alert = a]
<1>1. TypeInv'
  BY BeginType DEF MergeInv
<1>2. tx \in [Tx -> TxRow] /\ tx[t] \in TxRow /\ tx[t].pc = "idle" /\ TxInv(t)
  BY DEF MergeInv, TypeInv, TypeOK, BeginIngest, BeginJob, Starts
<1>3. tx' = [tx EXCEPT ![t] = row]
  BY <1>2 DEF BeginIngest, BeginJob
<1>4. tx'[t].pc = "match"
  BY <1>2, <1>3 DEF TxRow
<1>5. UNCHANGED <<case, owner, draft>>
  BY DEF BeginIngest, BeginJob, tables, locks
<1>6. \A r \in Row : mine'[t][r] \notin Case
  <2>1. \A r \in Row : mine[t][r] \notin Case
    BY <1>2 DEF TxInv, Moved, Decided
  <2>2. NoCase \notin Case
    BY CaseGroupingAssumption DEF NoCase, Case, Tx
  <2>3. mine[t] \in [Row -> Case \cup {NoCase, Untouched}]
    BY DEF MergeInv, TypeInv, TypeOK
  <2>4. mine'[t] = mine[t] \/ mine'[t] = [mine[t] EXCEPT ![<<"alert", a>>] = NoCase]
    BY DEF MergeInv, TypeInv, TypeOK, BeginIngest, BeginJob, locks
  <2> QED BY <2>1, <2>2, <2>3, <2>4
<1>7. \A u \in Tx \ {t} : draft'[u] = draft[u] /\ mine'[u] = mine[u]
  BY DEF MergeInv, TypeInv, TypeOK, BeginIngest, BeginJob, locks
<1>8. TxInv(t)'
  <2>1. \A c \in Case : draft'[t][c].status = "None"
    BY <1>2, <1>5 DEF TxInv, Drafted, Decided
  <2>2. ~Exists(t)'
    BY <1>2, <1>5 DEF TxInv, Created, Exists
  <2> QED BY <1>4, <1>6, <2>1, <2>2
      DEF TxInv, Matched, Chosen, Moved, Drafted, Created, Decided
<1> HIDE DEF row
<1> QED BY <1>1, <1>3, <1>5, <1>7, <1>8, LocalMerge

\* Storing an alert alone.
LEMMA PersistMerge ==
    ASSUME MergeInv, NEW a \in Alerts, PersistAlertOnly(a)
    PROVE  MergeInv'
<1>1. TypeInv'
  BY PersistType DEF MergeInv
<1>2. UNCHANGED <<case, tx, draft, mine>>
  BY DEF PersistAlertOnly, locks
<1>3. OwnerExists'
  <2>1. NoCase \notin Case
    BY CaseGroupingAssumption DEF NoCase, Case, Tx
  <2>2. owner' = [owner EXCEPT ![<<"alert", a>>] = NoCase] /\ owner \in [Row -> Case \cup {NoCase, Absent}]
    BY DEF PersistAlertOnly, MergeInv, TypeInv, TypeOK
  <2> QED BY <1>2, <2>1, <2>2 DEF MergeInv, OwnerExists, Exists
<1>4. MergedPointsOlder'
  BY <1>2 DEF MergeInv, MergedPointsOlder, Exists
<1>5. ASSUME NEW t \in Tx PROVE TxInv(t)'
  <2>1. \A c \in Case : Exists(c)' <=> Exists(c)
    BY <1>2 DEF Exists
  <2> QED BY <1>2, <2>1, OtherTx DEF MergeInv, Case
<1> QED BY <1>1, <1>3, <1>4, <1>5 DEF MergeInv

\* The cases of the matched alerts exist: t has not moved a row yet, so what it
\* sees in a case is committed.
LEMMA MatchMerge ==
    ASSUME MergeInv, NEW t \in Tx, MatchCandidates(t)
    PROVE  MergeInv'
<1> DEFINE component == Component(AlertOf(t), Candidates(t, AlertOf(t)))
           matched == {SeenOwner(t, <<"alert", b>>) : b \in component}
           row == [tx[t] EXCEPT !.pc = "read", !.matched = matched]
<1>1. TypeInv'
  BY MatchType DEF MergeInv
<1>2. tx \in [Tx -> TxRow] /\ tx[t] \in TxRow /\ tx[t].pc = "match" /\ TxInv(t)
  BY DEF MergeInv, TypeInv, TypeOK, MatchCandidates
<1>3. tx' = [tx EXCEPT ![t] = row]
  BY DEF MatchCandidates
<1>4. UNCHANGED <<case, owner, draft, mine>>
  BY DEF MatchCandidates, tables, locks
<1>5. ASSUME NEW c \in matched PROVE Exists(c)
  <2>1. PICK b \in component : c = SeenOwner(t, <<"alert", b>>)
    OBVIOUS
  <2>2. b \in Alerts /\ c \in Case /\ <<"alert", b>> \in Row
    BY <2>1 DEF Component, Candidates, Row
  <2>3. mine[t][<<"alert", b>>] \notin Case
    BY <1>2, <2>2 DEF TxInv, Moved, Decided
  <2>4. c = owner[<<"alert", b>>]
    BY <2>1, <2>2, <2>3 DEF SeenOwner
  <2> QED BY <2>2, <2>4 DEF MergeInv, OwnerExists
<1> HIDE DEF matched
<1>6. tx'[t].pc = "read" /\ tx'[t].matched = matched
  BY <1>2, <1>3 DEF TxRow
<1>7. TxInv(t)'
  <2>1. \A r \in Row : mine'[t][r] \notin Case
    BY <1>2, <1>4 DEF TxInv, Moved, Decided
  <2>2. \A c \in Case : draft'[t][c].status = "None"
    BY <1>2, <1>4 DEF TxInv, Drafted, Decided
  <2>3. ~Exists(t)' /\ \A c \in matched : Exists(c)'
    BY <1>2, <1>4, <1>5 DEF TxInv, Created, Exists
  <2> QED BY <1>6, <2>1, <2>2, <2>3
      DEF TxInv, Matched, Chosen, Moved, Drafted, Created, Decided
<1> HIDE DEF row
<1> QED BY <1>1, <1>3, <1>4, <1>7, LocalMerge

\* The survivor is older than every loser; all exist, whatever their statuses become.
LEMMA ReadMerge ==
    ASSUME MergeInv, NEW t \in Tx, ReadCases(t)
    PROVE  MergeInv'
<1> DEFINE matched == tx[t].matched
           closed == {c \in matched : case[c].status = "Closed"}
           open == {c \in matched : case[c].status \notin {"Merged", "Closed"}}
           target == IF open = {} THEN t ELSE Survivor(open)
           read == [c \in Case |-> IF c \in matched THEN case[c] ELSE NoRow]
           row == [tx[t] EXCEPT !.pc = "loop", !.read = read, !.flags = closed,
                                !.target = target, !.losers = open \ {target}]
<1>1. TypeInv'
  BY ReadType DEF MergeInv
<1>2. tx \in [Tx -> TxRow] /\ tx[t] \in TxRow /\ tx[t].pc = "read" /\ TxInv(t)
  BY DEF MergeInv, TypeInv, TypeOK, ReadCases
<1>3. tx' = [tx EXCEPT ![t] = row]
  BY DEF ReadCases
<1>4. UNCHANGED <<case, owner, draft, mine>>
  BY DEF ReadCases, tables, locks
<1>5. open \in SUBSET Case /\ \A c \in open : Exists(c)
  BY <1>2 DEF TxRow, TxInv, Matched
<1>6. (target = t /\ open = {}) \/ (target \in open /\ \A l \in open : target <= l)
  BY <1>5, SurvivorIsOldest
<1>7. \A l \in open \ {target} : Exists(l) /\ target < l
  <2>1. open \in SUBSET Nat
    BY <1>5, CaseGroupingAssumption DEF Case, Tx
  <2> HIDE DEF open, target
  <2>2. ASSUME NEW l \in open, l # target PROVE Exists(l) /\ target < l
    <3>1. target \in open /\ target <= l
      BY <1>6
    <3>2. target \in Nat /\ l \in Nat
      BY <2>1, <3>1
    <3> QED BY <1>5, <2>2, <3>1, <3>2
  <2> QED BY <2>2
<1>8. (target = t /\ open \ {target} = {}) \/ Exists(target)
  <2> HIDE DEF open, target
  <2> QED BY <1>5, <1>6
<1> HIDE DEF open, target, closed, read
<1>9. tx'[t].pc = "loop" /\ tx'[t].target = target /\ tx'[t].losers = open \ {target}
  BY <1>2, <1>3 DEF TxRow
<1>10. TxInv(t)'
  <2>1. \A r \in Row : mine'[t][r] \notin Case
    BY <1>2, <1>4 DEF TxInv, Moved, Decided
  <2>2. \A c \in Case : draft'[t][c].status = "None"
    BY <1>2, <1>4 DEF TxInv, Drafted, Decided
  <2>3. Matched(t)' /\ Moved(t)' /\ Drafted(t)'
    BY <1>9, <2>1, <2>2 DEF Matched, Moved, Drafted
  <2>4. Created(t)'
    BY <1>2, <1>4, <1>9 DEF TxInv, Created, Exists
  <2>5. Chosen(t)'
    BY <1>4, <1>7, <1>8, <1>9 DEF Chosen, Exists
  <2> QED BY <2>3, <2>4, <2>5 DEF TxInv
<1> HIDE DEF row
<1> QED BY <1>1, <1>3, <1>4, <1>10, LocalMerge

\* Flagging a closed case writes only its stream.
LEMMA FlagMerge ==
    ASSUME MergeInv, NEW t \in Tx, NEW c \in Case, FlagClosed(t, c)
    PROVE  MergeInv'
<1> DEFINE row == [tx[t] EXCEPT !.flags = tx[t].flags \ {c}]
<1>1. TypeInv'
  BY FlagType DEF MergeInv
<1>2. tx \in [Tx -> TxRow] /\ tx[t] \in TxRow /\ tx[t].pc = "loop" /\ TxInv(t)
  BY DEF MergeInv, TypeInv, TypeOK, FlagClosed
<1>3. tx' = [tx EXCEPT ![t] = row]
  BY <1>2 DEF FlagClosed
<1>4. UNCHANGED <<case, owner, draft, mine>>
  BY DEF FlagClosed, tables
<1>5. /\ tx'[t].pc = tx[t].pc /\ tx'[t].target = tx[t].target
      /\ tx'[t].losers = tx[t].losers /\ tx'[t].matched = tx[t].matched
  BY <1>2, <1>3 DEF TxRow
<1>6. TxInv(t)'
  BY <1>2, <1>4, <1>5
     DEF TxInv, Matched, Chosen, Moved, Drafted, DraftNew, DraftMerged, Created, Decided, Exists
<1> HIDE DEF row
<1> QED BY <1>1, <1>3, <1>4, <1>6, LocalMerge

\* A merge statement moves rows to the target.
LEMMA MoveMerge ==
    ASSUME MergeInv, NEW t \in Tx, NEW table \in Tables, NEW loser \in Case,
           MoveRows(t, table, loser)
    PROVE  MergeInv'
<1> DEFINE rows == {r \in Row : r[1] = table /\ SeenOwner(t, r) = loser}
           row == [tx[t] EXCEPT !.pc = NextTable[table], !.loser = loser]
           moved == [r \in Row |-> IF r \in rows THEN tx[t].target ELSE mine[t][r]]
<1>1. TypeInv'
  BY MoveType DEF MergeInv
<1>2. /\ tx \in [Tx -> TxRow] /\ tx[t] \in TxRow /\ Decided(t) /\ TxInv(t)
      /\ tx[t].pc # "finish" /\ tx[t].pc # "done" /\ tx[t].pc # "read"
  BY DEF MergeInv, TypeInv, TypeOK, MoveRows, Decided, Tables
<1>3. tx' = [tx EXCEPT ![t] = row]
  BY <1>2 DEF MoveRows
<1>4. UNCHANGED <<case, owner, draft>>
  BY DEF MoveRows, tables
<1>5. mine' = [mine EXCEPT ![t] = moved]
  BY DEF MoveRows, MergeInv, TypeInv, TypeOK
<1>6. NextTable[table] \in {"link", "note", "decision", "merge"}
  BY DEF Tables, NextTable
<1>7. /\ tx'[t].pc = NextTable[table] /\ tx'[t].target = tx[t].target
      /\ tx'[t].losers = tx[t].losers /\ tx'[t].matched = tx[t].matched
  BY <1>2, <1>3 DEF TxRow
<1>8. Decided(t)' /\ tx'[t].pc # "finish" /\ tx'[t].pc # "done" /\ tx'[t].pc # "read"
  BY <1>6, <1>7 DEF Decided
<1>9. \A u \in Tx \ {t} : draft'[u] = draft[u] /\ mine'[u] = mine[u]
  BY <1>4, <1>5 DEF MergeInv, TypeInv, TypeOK
<1>10. TxInv(t)'
  <2>1. Moved(t)'
    <3>1. mine'[t] = moved
      BY <1>5 DEF MergeInv, TypeInv, TypeOK
    <3> QED BY <1>2, <1>7, <1>8, <3>1 DEF TxInv, Moved
  <2>2. Matched(t)' /\ Created(t)'
    BY <1>2, <1>4, <1>8 DEF TxInv, Matched, Created, Exists
  <2>3. Chosen(t)'
    BY <1>2, <1>4, <1>7 DEF TxInv, Chosen, Exists
  <2>4. Drafted(t)'
    BY <1>2, <1>4, <1>7, <1>8 DEF TxInv, Drafted, DraftNew, DraftMerged, Exists
  <2> QED BY <2>1, <2>2, <2>3, <2>4 DEF TxInv
<1> HIDE DEF row
<1> QED BY <1>1, <1>3, <1>4, <1>9, <1>10, LocalMerge

\* The loser is drafted as Merged into a case that is older and exists.
LEMMA LoserMerge ==
    ASSUME MergeInv, NEW t \in Tx, MergeLoser(t)
    PROVE  MergeInv'
<1> DEFINE l == tx[t].loser
           survivor == tx[t].target
           merged == MergedRow(SeenCase(t, l), survivor)
           row == [tx[t] EXCEPT !.pc = "loop", !.losers = tx[t].losers \ {l}, !.loser = NoCase]
<1>1. TypeInv'
  BY MergeType DEF MergeInv
<1>2. /\ tx \in [Tx -> TxRow] /\ tx[t] \in TxRow /\ tx[t].pc = "merge" /\ Decided(t)
      /\ TxInv(t) /\ LocalOK(t) /\ draft \in [Tx -> [Case -> CaseRow]]
  BY DEF MergeInv, TypeInv, TypeOK, MergeLoser, Decided
<1>3. tx' = [tx EXCEPT ![t] = row]
  BY <1>2 DEF MergeLoser
<1>4. UNCHANGED <<case, owner, mine>>
  BY DEF MergeLoser, tables
<1>5. /\ l \in Case /\ l \in tx[t].losers /\ Exists(l) /\ survivor < l /\ Exists(survivor)
      /\ survivor \in Case
  BY <1>2 DEF TxInv, LocalOK, Chosen, TxRow, Decided
<1>6. /\ merged.status = "Merged" /\ merged.canonical = survivor
  <2>1. SeenCase(t, l) \in CaseRow
    BY <1>5, SeenType DEF MergeInv, TypeInv
  <2> QED BY <2>1 DEF MergedRow, CaseRow
<1>7. draft' = [draft EXCEPT ![t] = [draft[t] EXCEPT ![l] = merged]]
  BY <1>2 DEF MergeLoser
<1>8. \A c \in Case : draft'[t][c] = IF c = l THEN merged ELSE draft[t][c]
  <2> HIDE DEF merged
  <2> QED BY <1>2, <1>5, <1>7
<1>9. /\ tx'[t].pc = "loop" /\ tx'[t].target = survivor
      /\ tx'[t].losers = tx[t].losers \ {l}
  BY <1>2, <1>3 DEF TxRow
<1>10. \A u \in Tx \ {t} : draft'[u] = draft[u] /\ mine'[u] = mine[u]
  BY <1>4, <1>7 DEF MergeInv, TypeInv, TypeOK
<1> HIDE DEF merged, row, l, survivor
<1>11. TxInv(t)'
  <2>1. Decided(t)' /\ Matched(t)'
    BY <1>9 DEF Decided, Matched
  <2>2. Moved(t)'
    BY <1>2, <1>4, <1>9, <2>1 DEF TxInv, Moved, survivor
  <2>3. Chosen(t)'
    BY <1>2, <1>4, <1>5, <1>9 DEF TxInv, Chosen, survivor, Exists
  <2>4. Drafted(t)'
    <3> SUFFICES ASSUME NEW c \in Case, draft'[t][c].status # "None"
                 PROVE  Decided(t)' /\ DraftMerged(t, c)'
      BY DEF Drafted
    <3>1. CASE c = l
      BY <1>4, <1>5, <1>6, <1>8, <1>9, <2>1, <3>1 DEF DraftMerged, Exists
    <3>2. CASE c # l
      <4>1. draft'[t][c] = draft[t][c]
        BY <1>8, <3>2
      <4>2. DraftMerged(t, c)
        BY <1>2, <4>1 DEF TxInv, Drafted, DraftNew
      <4> QED BY <1>4, <1>9, <2>1, <4>1, <4>2 DEF DraftMerged, survivor, Exists
    <3> QED BY <3>1, <3>2
  <2>5. Created(t)'
    BY <1>2, <1>4, <1>9 DEF TxInv, Created, Exists
  <2> QED BY <2>1, <2>2, <2>3, <2>4, <2>5 DEF TxInv
<1> QED BY <1>1, <1>3, <1>4, <1>10, <1>11, LocalMerge

\* The attach drafts the new case when nothing open matched.
LEMMA AttachMerge ==
    ASSUME MergeInv, NEW t \in Tx, AttachAlert(t)
    PROVE  MergeInv'
<1> DEFINE a == AlertOf(t)
           c == tx[t].target
           written == [mine[t] EXCEPT ![<<"alert", a>>] = c, ![<<"decision", t>>] = c,
                                      ![<<"link", t>>] = c]
<1>1. TypeInv'
  BY AttachType DEF MergeInv
<1>2. /\ tx \in [Tx -> TxRow] /\ tx[t] \in TxRow /\ tx[t].pc = "loop" /\ Decided(t)
      /\ TxInv(t) /\ LocalOK(t) /\ draft \in [Tx -> [Case -> CaseRow]]
      /\ mine \in [Tx -> [Row -> Case \cup {NoCase, Untouched}]]
  BY DEF MergeInv, TypeInv, TypeOK, AttachAlert, Decided
<1>3. /\ tx' = [tx EXCEPT ![t] = tx'[t]]
      /\ tx'[t].pc = "finish" /\ tx'[t].target = c /\ tx'[t].losers = {}
  BY <1>2 DEF AttachAlert, TxRow
<1>4. UNCHANGED <<case, owner>>
  BY DEF AttachAlert, tables
<1>5. a \in Alerts /\ c \in Case
  BY <1>2 DEF LocalOK, Active, Decided, AlertOf
<1>6. mine' = [mine EXCEPT ![t] = written]
  BY <1>2 DEF AttachAlert
<1>7. \A d \in Case : draft'[t][d] = IF d = c /\ c = t THEN NewCase(a) ELSE draft[t][d]
  BY <1>2 DEF AttachAlert
<1>8. \A u \in Tx \ {t} : draft'[u] = draft[u] /\ mine'[u] = mine[u]
  BY <1>2, <1>6 DEF AttachAlert
<1>9. TxInv(t)'
  <2>1. Decided(t)' /\ Matched(t)'
    BY <1>3 DEF Decided, Matched
  <2>2. Moved(t)'
    <3>1. \A r \in Row : mine'[t][r] = c \/ mine'[t][r] = mine[t][r]
      BY <1>2, <1>6
    <3> QED BY <1>2, <1>3, <2>1, <3>1 DEF TxInv, Moved
  <2>3. Chosen(t)'
    BY <1>2, <1>3, <1>4 DEF TxInv, Chosen, Exists
  <2>4. /\ NewCase(a).status = "Open" /\ NewCase(a).canonical = NoCase
        /\ NewCase(a).disposition = NoDisposition
    BY <1>5, NewCaseType
  <2>5. Drafted(t)'
    <3> SUFFICES ASSUME NEW d \in Case, draft'[t][d].status # "None"
                 PROVE  Decided(t)' /\ (DraftNew(t, d)' \/ DraftMerged(t, d)')
      BY DEF Drafted
    <3>1. CASE d = c /\ c = t
      BY <1>3, <1>7, <2>1, <2>4, <3>1 DEF DraftNew
    <3>2. CASE ~(d = c /\ c = t)
      <4>1. draft'[t][d] = draft[t][d]
        BY <1>7, <3>2
      <4>2. DraftMerged(t, d)
        BY <1>2, <4>1 DEF TxInv, Drafted, DraftNew
      <4> QED BY <1>3, <1>4, <2>1, <4>1, <4>2 DEF DraftMerged, Exists
    <3> QED BY <3>1, <3>2
  <2>6. Created(t)'
    <3>1. ~Exists(t)'
      BY <1>2, <1>4 DEF TxInv, Created, Exists
    <3>2. c = t => draft'[t][t].status = "Open"
      BY <1>5, <1>7, <2>4
    <3> QED BY <1>3, <3>1, <3>2 DEF Created
  <2> QED BY <2>1, <2>2, <2>3, <2>5, <2>6 DEF TxInv
<1> QED BY <1>1, <1>3, <1>4, <1>8, <1>9, LocalMerge

\* What a commit makes of the status and the pointer of each case: t's own new case
\* is Open, the losers are Merged into the target, the others keep theirs.
LEMMA CommitRows ==
    ASSUME MergeInv, NEW t \in Tx, FinishGrouping(t), NEW d \in Case
    PROVE  \/ /\ d = tx[t].target /\ d = t
              /\ case'[d].status = "Open" /\ case'[d].canonical = NoCase
              /\ case'[d].disposition = NoDisposition
           \/ /\ case'[d].status = "Merged" /\ case'[d].canonical = tx[t].target
              /\ tx[t].target < d /\ Exists(d) /\ Exists(tx[t].target)
           \/ /\ case'[d].status = case[d].status /\ case'[d].canonical = case[d].canonical
              /\ case'[d].disposition = case[d].disposition
              /\ d = tx[t].target => Exists(d) /\ d # t
<1> DEFINE c == tx[t].target
           written == [draft[t] EXCEPT ![c] = Recomputed(t, SeenCase(t, c))]
<1>1. /\ tx \in [Tx -> TxRow] /\ tx[t] \in TxRow /\ tx[t].pc = "finish" /\ Decided(t)
      /\ TxInv(t) /\ LocalOK(t) /\ draft \in [Tx -> [Case -> CaseRow]] /\ c \in Case
  BY DEF MergeInv, TypeInv, TypeOK, FinishGrouping, Decided, LocalOK
<1>2. case' = [e \in Case |-> IF written[e].status = "None" THEN case[e] ELSE written[e]]
  BY DEF FinishGrouping
<1>3. CASE d # c
  <2>1. written[d] = draft[t][d]
    BY <1>1, <1>3
  <2>2. CASE draft[t][d].status = "None"
    BY <1>2, <1>3, <2>1, <2>2
  <2>3. CASE draft[t][d].status # "None"
    <3>1. DraftMerged(t, d)
      BY <1>1, <1>3, <2>3 DEF TxInv, Drafted, DraftNew
    <3> QED BY <1>2, <2>1, <2>3, <3>1 DEF DraftMerged
  <2> QED BY <2>2, <2>3
<1>4. CASE d = c
  <2> DEFINE seen == SeenCase(t, c)
  <2>1. /\ seen \in CaseRow
        /\ Recomputed(t, seen).status = seen.status
        /\ Recomputed(t, seen).canonical = seen.canonical
        /\ Recomputed(t, seen).disposition = seen.disposition
    BY <1>1, SeenType, RecomputedType DEF MergeInv, TypeInv
  <2>2. written[d] = Recomputed(t, seen)
    BY <1>1, <1>4
  <2>3. CASE c = t
    <3>1. draft[t][c].status = "Open"
      BY <1>1, <2>3 DEF TxInv, Created
    <3>2. DraftNew(t, c)
      BY <1>1, <3>1 DEF TxInv, Drafted, DraftMerged
    <3>3. /\ seen.status = "Open" /\ seen.canonical = NoCase
          /\ seen.disposition = NoDisposition
      BY <3>1, <3>2 DEF SeenCase, DraftNew
    <3> QED BY <1>2, <1>4, <2>1, <2>2, <2>3, <3>3
  <2>4. CASE c # t
    <3>1. Exists(c)
      BY <1>1, <2>4 DEF TxInv, Chosen
    <3>2. draft[t][c].status = "None"
      <4>1. ~DraftMerged(t, c)
        BY <1>1, CaseGroupingAssumption DEF DraftMerged, Case, Tx
      <4> QED BY <1>1, <2>4, <4>1 DEF TxInv, Drafted, DraftNew
    <3>3. seen = case[c]
      BY <3>2 DEF SeenCase
    <3> QED BY <1>2, <1>4, <2>1, <2>2, <2>4, <3>1, <3>3 DEF Exists
  <2> QED BY <2>3, <2>4
<1> QED BY <1>3, <1>4

\* A commit adds t's case and merges losers into an older case; what it does not
\* touch keeps its pointer.
LEMMA FinishMerge ==
    ASSUME MergeInv, NEW t \in Tx, FinishGrouping(t)
    PROVE  MergeInv'
<1> DEFINE c == tx[t].target
<1>1. TypeInv'
  BY FinishType DEF MergeInv
<1>2. /\ tx \in [Tx -> TxRow] /\ tx[t].pc = "finish" /\ Decided(t) /\ TxInv(t)
      /\ LocalOK(t) /\ c \in Case
  BY DEF MergeInv, TypeInv, TypeOK, FinishGrouping, Decided, LocalOK
<1>3. tx' = [tx EXCEPT ![t] = [Idle EXCEPT !.pc = "done", !.alert = AlertOf(t)]]
  BY DEF FinishGrouping
<1>4. tx'[t].pc = "done"
  BY <1>2, <1>3 DEF Idle
<1>5. \A d \in Case : Exists(d) => Exists(d)'
  BY CommitRows DEF Exists
<1>6. case'[c].status # "None"
  BY <1>2, CommitRows DEF Exists
<1>7. MergedPointsOlder'
  <2> SUFFICES ASSUME NEW d \in Case
               PROVE  /\ case'[d].status = "Merged" <=> case'[d].canonical # NoCase
                      /\ case'[d].canonical # NoCase =>
                             case'[d].canonical < d /\ Exists(case[d].canonical)'
    BY DEF MergedPointsOlder
  <2>1. CASE case'[d].status = "Open" /\ case'[d].canonical = NoCase
    BY <2>1
  <2>2. CASE case'[d].status = "Merged" /\ case'[d].canonical = c /\ c < d
    <3>1. c # NoCase
      BY <1>2, CaseGroupingAssumption DEF NoCase, Case, Tx
    <3> QED BY <1>6, <2>2, <3>1 DEF Exists
  <2>3. CASE case'[d].status = case[d].status /\ case'[d].canonical = case[d].canonical
    <3>1. case[d].canonical \in Case \cup {NoCase}
      BY DEF MergeInv, TypeInv, TypeOK, CaseRow
    <3> QED BY <1>5, <2>3, <3>1 DEF MergeInv, MergedPointsOlder, Exists
  <2> QED BY <2>1, <2>2, <2>3, CommitRows
<1>8. OwnerExists'
  <2> SUFFICES ASSUME NEW r \in Row, owner'[r] \in Case PROVE Exists(owner[r])'
    BY DEF OwnerExists
  <2>1. owner'[r] = SeenOwner(t, r)
    BY DEF FinishGrouping
  <2>2. owner'[r] = c \/ Exists(owner'[r])
    BY <1>2, <2>1 DEF SeenOwner, MergeInv, OwnerExists, TxInv, Moved
  <2> QED BY <1>5, <1>6, <2>2 DEF Exists
<1>9. ASSUME NEW u \in Tx PROVE TxInv(u)'
  <2>1. CASE u = t
    <3>1. /\ \A r \in Row : mine'[t][r] = Untouched
          /\ \A d \in Case : draft'[t][d].status = "None"
      BY DEF FinishGrouping, MergeInv, TypeInv, TypeOK, NothingMine, NothingDrafted, NoRow
    <3>2. Untouched \notin Case
      BY CaseGroupingAssumption DEF Untouched, Case, Tx
    <3> QED BY <1>4, <2>1, <3>1, <3>2
        DEF TxInv, Matched, Chosen, Moved, Drafted, Created, Decided
  <2>2. CASE u # t
    <3>1. tx'[u] = tx[u] /\ draft'[u] = draft[u] /\ mine'[u] = mine[u]
      BY <1>3, <2>2 DEF FinishGrouping, MergeInv, TypeInv, TypeOK
    <3>2. Exists(u)' => Exists(u)
      <4>1. u \in Case
        BY DEF Case
      <4>2. c = u => Exists(u)
        BY <1>2, <2>2 DEF TxInv, Chosen
      <4> QED BY <2>2, <4>1, <4>2, CommitRows DEF Exists
    <3> QED BY <1>5, <3>1, <3>2, OtherTx DEF MergeInv
  <2> QED BY <2>1, <2>2
<1> QED BY <1>1, <1>7, <1>8, <1>9 DEF MergeInv

\* A rollback forgets what the transaction knew.
LEMMA RollbackMerge ==
    ASSUME MergeInv, NEW t \in Tx, Rollback(t)
    PROVE  MergeInv'
<1> DEFINE row == [Idle EXCEPT !.pc = "aborted"]
<1>1. TypeInv'
  BY RollbackType DEF MergeInv
<1>2. tx' = [tx EXCEPT ![t] = row] /\ UNCHANGED <<case, owner>>
  BY DEF Rollback, tables
<1>3. tx'[t].pc = "aborted"
  BY <1>2 DEF MergeInv, TypeInv, TypeOK, Idle
<1>4. \A u \in Tx \ {t} : draft'[u] = draft[u] /\ mine'[u] = mine[u]
  BY DEF Rollback, MergeInv, TypeInv, TypeOK
<1>5. TxInv(t)'
  <2>1. /\ \A r \in Row : mine'[t][r] = Untouched
        /\ \A d \in Case : draft'[t][d].status = "None"
    BY DEF Rollback, MergeInv, TypeInv, TypeOK, NothingMine, NothingDrafted, NoRow
  <2>2. Untouched \notin Case
    BY CaseGroupingAssumption DEF Untouched, Case, Tx
  <2>3. ~Exists(t)'
    BY <1>2 DEF MergeInv, TxInv, Created, Rollback, Active, Exists
  <2> QED BY <1>3, <2>1, <2>2, <2>3
      DEF TxInv, Matched, Chosen, Moved, Drafted, Created, Decided
<1> HIDE DEF row
<1> QED BY <1>1, <1>2, <1>4, <1>5, LocalMerge

\* An analyst never writes a merged case, nor the status Merged, nor a pointer.
LEMMA AnalystRows ==
    ASSUME TypeInv, NEW c \in Case, Analyst(c), NEW d \in Case
    PROVE  /\ case'[d].canonical = case[d].canonical
           /\ \/ case'[d].status = case[d].status
              \/ /\ Exists(d) /\ case[d].status # "Merged"
                 /\ case'[d].status \in Status \ {"Merged"}
<1>1. case \in [Case -> CaseRow] /\ case[c] \in CaseRow
  BY DEF TypeInv, TypeOK
<1>2. ASSUME NEW target \in Status, NEW x \in Dispositions \cup {NoDisposition},
             TransitionCase(c, target, x)
      PROVE  /\ case'[d].canonical = case[d].canonical
             /\ \/ case'[d].status = case[d].status
                \/ /\ Exists(d) /\ case[d].status # "Merged"
                   /\ case'[d].status \in Status \ {"Merged"}
  <2>1. /\ case'[d].canonical = case[d].canonical
        /\ case'[d].status = IF d = c THEN target ELSE case[d].status
    BY <1>1, <1>2 DEF TransitionCase, CaseRow
  <2>2. Exists(c) /\ target \in ALLOWED[case[c].status]
    BY <1>2 DEF TransitionCase, LockForUpdate
  <2>3. case[c].status \in Status
    BY <1>1, <2>2 DEF Exists, CaseRow
  <2>4. case[c].status # "Merged" /\ target \in Status \ {"Merged"}
    BY <2>2, <2>3, AllowedType
  <2> QED BY <2>1, <2>2, <2>4
<1>3. ASSUME NEW u \in Users \cup {NoUser}, AssignCase(c, u)
      PROVE  case'[d].canonical = case[d].canonical /\ case'[d].status = case[d].status
  BY <1>1, <1>3 DEF AssignCase, CaseRow
<1>4. ASSUME NEW n \in Notes, AddNote(c, n)
      PROVE  case'[d] = case[d]
  BY <1>4 DEF AddNote
<1> QED BY <1>2, <1>3, <1>4 DEF Analyst

\* The analysts' operations.
LEMMA AnalystMerge ==
    ASSUME MergeInv, NEW c \in Case, Analyst(c)
    PROVE  MergeInv'
<1>1. TypeInv'
  BY AnalystType DEF MergeInv
<1>2. \A d \in Case : Exists(d)' <=> Exists(d)
  BY AnalystRows DEF MergeInv, Exists, Status
<1>3. MergedPointsOlder'
  <2> SUFFICES ASSUME NEW d \in Case
               PROVE  /\ case'[d].status = "Merged" <=> case'[d].canonical # NoCase
                      /\ case'[d].canonical # NoCase =>
                             case'[d].canonical < d /\ Exists(case[d].canonical)'
    BY DEF MergedPointsOlder
  <2>1. /\ case'[d].canonical = case[d].canonical
        /\ case'[d].status = "Merged" <=> case[d].status = "Merged"
    BY AnalystRows DEF MergeInv
  <2>2. case[d].canonical \in Case \cup {NoCase}
    BY DEF MergeInv, TypeInv, TypeOK, CaseRow
  <2> QED BY <1>2, <2>1, <2>2 DEF MergeInv, MergedPointsOlder, Exists
<1>4. OwnerExists'
  <2> SUFFICES ASSUME NEW r \in Row, owner'[r] \in Case PROVE Exists(owner'[r])
    BY <1>2 DEF OwnerExists, Exists
  <2>1. owner'[r] = owner[r] \/ (owner'[r] = c /\ Exists(c))
    BY DEF Analyst, TransitionCase, AssignCase, AddNote, LockForUpdate, MergeInv, TypeInv, TypeOK
  <2> QED BY <2>1 DEF MergeInv, OwnerExists
<1>5. UNCHANGED <<tx, draft, mine>>
  BY DEF Analyst, TransitionCase, AssignCase, AddNote, locks
<1>6. ASSUME NEW t \in Tx PROVE TxInv(t)'
  BY <1>2, <1>5, OtherTx DEF MergeInv, Case
<1> QED BY <1>1, <1>3, <1>4, <1>6 DEF MergeInv

\* Every step keeps the invariant.
LEMMA StepMerge == MergeInv /\ [Next]_vars => MergeInv'
<1> SUFFICES ASSUME MergeInv, [Next]_vars PROVE MergeInv'
  OBVIOUS
<1>1. ASSUME NEW t \in Tx, Grouping(t)
      PROVE  MergeInv'
  BY <1>1, BeginMerge, MatchMerge, ReadMerge, FlagMerge, MoveMerge, LoserMerge, AttachMerge,
     FinishMerge, RollbackMerge DEF Grouping
<1>2. CASE UNCHANGED vars
  <2>1. TypeInv'
    BY <1>2, StepType DEF MergeInv
  <2>2. UNCHANGED <<case, owner, tx, draft, mine>>
    BY <1>2 DEF vars
  <2>3. MergedPointsOlder' /\ OwnerExists'
    BY <2>2 DEF MergeInv, MergedPointsOlder, OwnerExists, Exists
  <2>4. ASSUME NEW t \in Tx PROVE TxInv(t)'
    <3>1. \A d \in Case : Exists(d)' <=> Exists(d)
      BY <2>2 DEF Exists
    <3> QED BY <2>2, <3>1, OtherTx DEF MergeInv, Case
  <2> QED BY <2>1, <2>3, <2>4 DEF MergeInv
<1> QED BY <1>1, <1>2, PersistMerge, AnalystMerge DEF Next

-----------------------------------------------------------------------------
(* The theorems. *)

\* However merges overlap, the pointer of a merged case leads to an existing older
\* case: the chain of pointers is finite and free of cycles, for any number of
\* transactions running at a time.
THEOREM PointersCorrect == Spec => []MergedPointsOlder
<1>1. Init => MergeInv
  BY InitMerge
<1>2. MergeInv /\ [Next]_vars => MergeInv'
  BY StepMerge
<1>3. MergeInv => MergedPointsOlder
  BY DEF MergeInv
<1> QED BY <1>1, <1>2, <1>3, PTL DEF Spec

\* A step that changes no table leaves every status alone.
LEMMA StatusKept ==
    ASSUME NEW t \in Tx, Grouping(t), ~FinishGrouping(t)
    PROVE  UNCHANGED case
BY DEF Grouping, BeginIngest, BeginJob, MatchCandidates, ReadCases, FlagClosed, MoveRows,
       MergeLoser, AttachAlert, Rollback, tables

\* A merged case stays merged: neither an analyst, nor the last write of a grouping
\* transaction that read the case before it was merged, revives it.
THEOREM MergedForever == Spec => MergedIsTerminal
<1>1. MergeInv /\ [Next]_vars =>
        [\A c \in Case : case[c].status = "Merged" => case'[c].status = "Merged"]_vars
  <2> SUFFICES ASSUME MergeInv, [Next]_vars, NEW c \in Case, case[c].status = "Merged"
               PROVE  case'[c].status = "Merged"
    OBVIOUS
  <2>1. ASSUME NEW t \in Tx, FinishGrouping(t) PROVE case'[c].status = "Merged"
    <3>1. CASE c = tx[t].target /\ c = t
      <4>1. ~Exists(t)
        BY <2>1 DEF MergeInv, TxInv, Created, FinishGrouping
      <4> QED BY <3>1, <4>1 DEF Exists
    <3> QED BY <2>1, <3>1, CommitRows
  <2>2. ASSUME NEW t \in Tx, Grouping(t) PROVE case'[c].status = "Merged"
    BY <2>1, <2>2, StatusKept
  <2>3. ASSUME NEW d \in Case, Analyst(d) PROVE case'[c].status = "Merged"
    BY <2>3, AnalystRows DEF MergeInv
  <2>4. CASE (\E a \in Alerts : PersistAlertOnly(a)) \/ UNCHANGED vars
    BY <2>4 DEF PersistAlertOnly, vars
  <2> QED BY <2>2, <2>3, <2>4 DEF Next
<1>2. Init => MergeInv
  BY InitMerge
<1>3. MergeInv /\ [Next]_vars => MergeInv'
  BY StepMerge
<1> QED BY <1>1, <1>2, <1>3, PTL DEF Spec, MergedIsTerminal

-----------------------------------------------------------------------------
(* Dispositions. *)

\* A case has its disposition from the close to the re-open: the grouping write of a
\* target leaves the column as it finds it, whatever was decided in between.
THEOREM DispositionCorrect == Spec => []DispositionMatchesStatus
<1>1. Init => MergeInv /\ DispositionMatchesStatus
  <2> SUFFICES ASSUME Init PROVE DispositionMatchesStatus
    BY InitMerge
  <2> QED BY DEF Init, DispositionMatchesStatus, NewCase, NoRow
<1>2. MergeInv /\ DispositionMatchesStatus /\ [Next]_vars =>
          (MergeInv /\ DispositionMatchesStatus)'
  <2> SUFFICES ASSUME MergeInv, DispositionMatchesStatus, [Next]_vars, NEW d \in Case
               PROVE  /\ case'[d].status = "Closed" => case'[d].disposition # NoDisposition
                      /\ case'[d].disposition # NoDisposition =>
                             case'[d].status \in {"Closed", "Merged"}
    BY StepMerge DEF DispositionMatchesStatus
  <2> DEFINE Good == /\ case'[d].status = "Closed" => case'[d].disposition # NoDisposition
                     /\ case'[d].disposition # NoDisposition =>
                            case'[d].status \in {"Closed", "Merged"}
  <2>1. case'[d] = case[d] => Good
    BY DEF DispositionMatchesStatus
  <2>2. ASSUME NEW t \in Tx, Grouping(t) PROVE Good
    <3>1. CASE FinishGrouping(t)
      BY <3>1, CommitRows DEF DispositionMatchesStatus
    <3>2. CASE ~FinishGrouping(t)
      BY <2>1, <2>2, <3>2, StatusKept
    <3> QED BY <3>1, <3>2
  <2>3. ASSUME NEW c \in Case, Analyst(c) PROVE Good
    <3>1. case \in [Case -> CaseRow] /\ case[c] \in CaseRow
      BY DEF MergeInv, TypeInv, TypeOK
    <3>2. ASSUME NEW target \in Status, NEW x \in Dispositions \cup {NoDisposition},
                 TransitionCase(c, target, x)
          PROVE  Good
      <4>1. CASE d # c
        BY <2>1, <3>1, <3>2, <4>1 DEF TransitionCase
      <4>2. CASE d = c
        <5>1. /\ case'[c].status = target
              /\ case'[c].disposition = DispositionAfter(case[c], target, x)
          BY <3>1, <3>2 DEF TransitionCase, CaseRow
        <5>2. target = "Closed" <=> x # NoDisposition
          BY <3>2 DEF TransitionCase
        <5>3. case[c].status # "Merged"
          <6>1. Exists(c) /\ target \in ALLOWED[case[c].status]
            BY <3>2 DEF TransitionCase, LockForUpdate
          <6>2. case[c].status \in Status
            BY <3>1, <6>1 DEF Exists, CaseRow
          <6> QED BY <6>1, <6>2, AllowedType
        <5> QED BY <4>2, <5>1, <5>2, <5>3 DEF DispositionAfter, DispositionMatchesStatus
      <4> QED BY <4>1, <4>2
    <3>3. ASSUME NEW u \in Users \cup {NoUser}, AssignCase(c, u)
          PROVE  Good
      <4>1. case'[d].status = case[d].status /\ case'[d].disposition = case[d].disposition
        BY <3>1, <3>3 DEF AssignCase, CaseRow
      <4> QED BY <4>1 DEF DispositionMatchesStatus
    <3>4. ASSUME NEW n \in Notes, AddNote(c, n)
          PROVE  Good
      BY <2>1, <3>4 DEF AddNote
    <3> HIDE DEF Good
    <3> QED BY <2>3, <3>2, <3>3, <3>4 DEF Analyst
  <2>4. ASSUME NEW a \in Alerts, PersistAlertOnly(a) PROVE Good
    BY <2>1, <2>4 DEF PersistAlertOnly
  <2>5. UNCHANGED vars => Good
    BY <2>1 DEF vars
  <2> HIDE DEF Good
  <2>6. Good
    BY <2>2, <2>3, <2>4, <2>5 DEF Next
  <2> QED BY <2>6 DEF Good
<1> QED BY <1>1, <1>2, PTL DEF Spec

-----------------------------------------------------------------------------
(***************************************************************************)
(* The rows that carry a case_id: who may have written which of them       *)
(* before its commit, and what follows for the committed ones.             *)
(* Transactions lock rows and not cases, so the argument is about rows: a  *)
(* row written by a transaction is its alert, one of its own two new rows, *)
(* or a row it moves out of a loser it is about to merge; and no two       *)
(* transactions have written the same one.                                 *)
(***************************************************************************)


\* A row lock has one holder.
RowLocks == \A r \in Row, t, u \in Tx :
    mine[t][r] # Untouched /\ mine[u][r] # Untouched => t = u

\* Link and decision appear together, by the commit of the transaction they are of,
\* with the alert's case_id; an alert has one link.
LinkAndDecision == \A s \in Tx : owner[<<"link", s>>] \in Case <=> owner[<<"decision", s>>] \in Case

LinkedByCommit == \A s \in Tx : owner[<<"link", s>>] \in Case =>
    tx[s].pc = "done" /\ AlertOf(s) \in Alerts /\ owner[<<"alert", AlertOf(s)>>] \in Case

OneLink == \A s, u \in Tx :
    owner[<<"link", s>>] \in Case /\ owner[<<"link", u>>] \in Case /\ AlertOf(s) = AlertOf(u) => s = u

\* An alert in a case has a link: what makes the unique index stop a second grouping.
AlertLinked == \A a \in Alerts : owner[<<"alert", a>>] \in Case =>
    \E s \in Tx : AlertOf(s) = a /\ owner[<<"link", s>>] \in Case

NoNullLink == \A s \in Tx : owner[<<"link", s>>] # NoCase

CommittedRows == LinkAndDecision /\ LinkedByCommit /\ OneLink /\ AlertLinked /\ NoNullLink

\* The three reasons for which t has written row r.
OwnAlert(t, r) ==
    /\ r = <<"alert", AlertOf(t)>> /\ owner[r] \notin Case
    /\ mine[t][r] = IF tx[t].pc = "finish" THEN tx[t].target ELSE NoCase

\* Where the merge loop is once it has moved a loser's rows of a table.
Passed == [alert |-> {"link", "note", "decision", "merge"},
           link |-> {"note", "decision", "merge"},
           note |-> {"decision", "merge"}, decision |-> {"merge"}]

MovedRow(t, r) ==
    /\ Decided(t) /\ owner[r] \in Case
    /\ mine[t][r] = tx[t].target /\ tx[t].target < owner[r]
    /\ \/ draft[t][owner[r]].status = "Merged"
       \/ owner[r] = tx[t].loser /\ tx[t].pc \in Passed[r[1]]

OwnRow(t, r) ==
    /\ tx[t].pc = "finish" /\ r \in {<<"link", t>>, <<"decision", t>>}
    /\ mine[t][r] = tx[t].target

Writes(t) == \A r \in Row : mine[t][r] # Untouched =>
    Active(t) /\ (OwnAlert(t, r) \/ MovedRow(t, r) \/ OwnRow(t, r))

\* Before its last flush a transaction has written its alert, link and decision.
Attached(t) == tx[t].pc = "finish" =>
    /\ owner[<<"alert", AlertOf(t)>>] \notin Case
    /\ \A r \in {<<"alert", AlertOf(t)>>, <<"link", t>>, <<"decision", t>>} :
          mine[t][r] = tx[t].target

RowInv == MergeInv /\ RowLocks /\ CommittedRows /\ \A t \in Tx : Writes(t) /\ Attached(t)

-----------------------------------------------------------------------------
(* Lemmas. *)

\* The marks are not cases.
LEMMA NotCases ==
    /\ NoCase \notin Case /\ Absent \notin Case /\ Untouched \notin Case
    /\ Untouched # NoCase /\ Absent # NoCase
BY CaseGroupingAssumption DEF NoCase, Absent, Untouched, Case, Tx

\* The rows of the four tables.
LEMMA RowOf ==
    /\ \A a \in Alerts : <<"alert", a>> \in Row
    /\ \A s \in Tx : <<"link", s>> \in Row /\ <<"decision", s>> \in Row
    /\ \A n \in Notes : <<"note", n>> \in Row
    /\ \A r \in Row : r[1] \in Tables
BY DEF Row, Tables

\* What u has written stays justified while u, and the owner of the rows it has
\* written, do not change.
LEMMA OtherRows ==
    ASSUME TypeInv, NEW u \in Tx, Writes(u), Attached(u),
           tx'[u] = tx[u], mine'[u] = mine[u], draft'[u] = draft[u],
           \A r \in Row : mine[u][r] # Untouched => owner'[r] = owner[r]
    PROVE  Writes(u)' /\ Attached(u)'
<1>1. LocalOK(u)
  BY DEF TypeInv
<1>2. Writes(u)'
  <2> SUFFICES ASSUME NEW r \in Row, mine[u][r] # Untouched
               PROVE  Active(u)' /\ (OwnAlert(u, r)' \/ MovedRow(u, r)' \/ OwnRow(u, r)')
    BY DEF Writes
  <2>1. owner'[r] = owner[r]
    OBVIOUS
  <2>2. Active(u) /\ (OwnAlert(u, r) \/ MovedRow(u, r) \/ OwnRow(u, r))
    BY DEF Writes
  <2>3. Active(u)'
    BY <2>2 DEF Active
  <2>4. CASE OwnAlert(u, r)
    BY <2>1, <2>3, <2>4 DEF OwnAlert, AlertOf
  <2>5. CASE MovedRow(u, r)
    BY <2>1, <2>3, <2>5 DEF MovedRow, Decided
  <2>6. CASE OwnRow(u, r)
    BY <2>3, <2>6 DEF OwnRow
  <2> QED BY <2>2, <2>4, <2>5, <2>6
<1>3. Attached(u)'
  <2> SUFFICES ASSUME tx[u].pc = "finish" PROVE Attached(u)'
    BY DEF Attached
  <2>1. tx[u].alert \in Alerts /\ tx[u].target \in Case
    BY <1>1 DEF LocalOK, Active, Decided
  <2>2. <<"alert", AlertOf(u)>> \in Row /\ mine[u][<<"alert", AlertOf(u)>>] # Untouched
    BY <2>1, RowOf, NotCases DEF Attached, AlertOf
  <2> QED BY <2>2 DEF Attached, AlertOf
<1> QED BY <1>2, <1>3

\* A step of t that changes no table and only locks free rows.
LEMMA LocalRows ==
    ASSUME RowInv, NEW t \in Tx, NEW row, tx' = [tx EXCEPT ![t] = row],
           tx[t].pc # "done", owner' = owner,
           \A u \in Tx \ {t} : draft'[u] = draft[u] /\ mine'[u] = mine[u],
           \A r \in Row : mine'[t][r] # Untouched => mine[t][r] # Untouched \/ RowFree(t, r),
           MergeInv', Writes(t)', Attached(t)'
    PROVE  RowInv'
<1>1. ASSUME NEW s \in Tx, owner[<<"link", s>>] \in Case
      PROVE  tx'[s] = tx[s] /\ AlertOf(s)' = AlertOf(s)
  BY <1>1 DEF RowInv, CommittedRows, LinkedByCommit, MergeInv, TypeInv, TypeOK, AlertOf
<1>2. LinkAndDecision' /\ LinkedByCommit' /\ OneLink' /\ AlertLinked' /\ NoNullLink'
  <2>1. LinkAndDecision' /\ NoNullLink'
    BY DEF RowInv, CommittedRows, LinkAndDecision, NoNullLink
  <2>2. LinkedByCommit'
    BY <1>1 DEF RowInv, CommittedRows, LinkedByCommit
  <2>3. OneLink'
    BY <1>1 DEF RowInv, CommittedRows, OneLink
  <2>4. AlertLinked'
    BY <1>1 DEF RowInv, CommittedRows, AlertLinked
  <2> QED BY <2>1, <2>2, <2>3, <2>4
<1>3. RowLocks'
  <2> SUFFICES ASSUME NEW r \in Row, NEW u \in Tx, NEW v \in Tx,
                      mine'[u][r] # Untouched, mine'[v][r] # Untouched, u # v
               PROVE  FALSE
    BY DEF RowLocks
  <2>1. CASE u # t /\ v # t
    BY <2>1 DEF RowInv, RowLocks
  <2>2. CASE u = t
    BY <2>2 DEF RowInv, RowLocks, RowFree, Others
  <2>3. CASE v = t
    BY <2>3 DEF RowInv, RowLocks, RowFree, Others
  <2> QED BY <2>1, <2>2, <2>3
<1>4. ASSUME NEW u \in Tx PROVE Writes(u)' /\ Attached(u)'
  <2>1. CASE u = t
    BY <2>1
  <2>2. CASE u # t
    <3>1. tx'[u] = tx[u] /\ draft'[u] = draft[u] /\ mine'[u] = mine[u]
      BY <2>2 DEF RowInv, MergeInv, TypeInv, TypeOK
    <3> QED BY <3>1, OtherRows DEF RowInv, MergeInv
  <2> QED BY <2>1, <2>2
<1> QED BY <1>2, <1>3, <1>4 DEF RowInv, CommittedRows

\* Nothing is written before the transaction has started.
LEMMA InactiveRows ==
    ASSUME NEW t \in Tx, Writes(t), ~Active(t)
    PROVE  \A r \in Row : mine[t][r] = Untouched
BY DEF Writes

-----------------------------------------------------------------------------
(* The invariant. *)

\* At the start each seeded case has the link and the decision of its transaction.
LEMMA InitRows == Init => RowInv
<1> SUFFICES ASSUME Init PROVE RowInv
  OBVIOUS
<1>1. MergeInv
  BY InitMerge
<1>2. /\ Seeded \subseteq Case
      /\ \A s \in Seeded : SeedAlert[s] \in Alerts
      /\ \A s, u \in Seeded : SeedAlert[s] = SeedAlert[u] => s = u
  <2>1. PICK k \in 0..MaxTx : SeedAlert \in [1..k -> Alerts]
    BY CaseGroupingAssumption
  <2> QED BY <2>1, CaseGroupingAssumption DEF Seeded, Case, Tx
<1>3. \A t \in Tx : /\ tx[t].pc = IF t \in Seeded THEN "done" ELSE "idle"
                    /\ AlertOf(t) = IF t \in Seeded THEN SeedAlert[t] ELSE NoAlert
  BY DEF Init, Idle, AlertOf
<1>4. \A t \in Tx : \A r \in Row : mine[t][r] = Untouched
  BY DEF Init, NothingMine
<1>5. \A s \in Tx : /\ owner[<<"link", s>>] = IF s \in Seeded THEN s ELSE Absent
                    /\ owner[<<"decision", s>>] = IF s \in Seeded THEN s ELSE Absent
  BY RowOf DEF Init
<1>6. \A a \in Alerts : owner[<<"alert", a>>] =
        IF \E s \in Seeded : SeedAlert[s] = a THEN CHOOSE s \in Seeded : SeedAlert[s] = a ELSE Absent
  BY RowOf DEF Init
<1>7. LinkAndDecision /\ NoNullLink
  BY <1>2, <1>5, NotCases DEF LinkAndDecision, NoNullLink
<1>8. LinkedByCommit
  <2> SUFFICES ASSUME NEW s \in Tx, s \in Seeded
               PROVE  /\ tx[s].pc = "done" /\ AlertOf(s) \in Alerts
                      /\ owner[<<"alert", AlertOf(s)>>] \in Case
    BY <1>5, NotCases DEF LinkedByCommit
  <2> QED BY <1>2, <1>3, <1>6
<1>9. OneLink
  <2>1. \A s \in Tx : owner[<<"link", s>>] \in Case => s \in Seeded /\ AlertOf(s) = SeedAlert[s]
    BY <1>3, <1>5, NotCases
  <2> QED BY <1>2, <2>1 DEF OneLink
<1>10. AlertLinked
  <2> SUFFICES ASSUME NEW a \in Alerts, owner[<<"alert", a>>] \in Case
               PROVE  \E s \in Tx : AlertOf(s) = a /\ owner[<<"link", s>>] \in Case
    BY DEF AlertLinked
  <2>1. PICK s \in Seeded : SeedAlert[s] = a
    BY <1>6, NotCases
  <2> QED BY <1>2, <1>3, <1>5, <2>1 DEF Case
<1>11. RowLocks /\ \A t \in Tx : Writes(t) /\ Attached(t)
  BY <1>3, <1>4 DEF RowLocks, Writes, Attached
<1> QED BY <1>1, <1>7, <1>8, <1>9, <1>10, <1>11 DEF RowInv, CommittedRows

\* An insert locks the new row of the alert; a job locks nothing.
LEMMA BeginRows ==
    ASSUME RowInv, NEW t \in Tx, NEW a \in Alerts, BeginIngest(t, a) \/ BeginJob(t, a)
    PROVE  RowInv'
<1> DEFINE row == [tx[t] EXCEPT !.pc = "match", !.alert = a]
<1>1. MergeInv'
  BY BeginMerge DEF RowInv
<1>2. tx[t] \in TxRow /\ tx[t].pc = "idle" /\ tx \in [Tx -> TxRow]
  BY DEF RowInv, MergeInv, TypeInv, TypeOK, BeginIngest, BeginJob, Starts
<1>3. tx' = [tx EXCEPT ![t] = row] /\ UNCHANGED <<owner, draft>>
  BY <1>2 DEF BeginIngest, BeginJob, tables, locks
<1>4. tx'[t].pc = "match" /\ tx'[t].alert = a
  BY <1>2, <1>3 DEF TxRow
<1>5. \A u \in Tx \ {t} : draft'[u] = draft[u] /\ mine'[u] = mine[u]
  BY <1>3 DEF RowInv, MergeInv, TypeInv, TypeOK, BeginIngest, BeginJob, locks
<1>6. \A r \in Row : mine[t][r] = Untouched
  BY <1>2, InactiveRows DEF RowInv, Active
<1>7. ASSUME NEW r \in Row, mine'[t][r] # Untouched
      PROVE  /\ RowFree(t, r) /\ r = <<"alert", a>> /\ owner[r] = Absent
             /\ mine'[t][r] = NoCase
  <2>1. mine[t] \in [Row -> Case \cup {NoCase, Untouched}] /\ mine \in [Tx -> [Row -> Case \cup {NoCase, Untouched}]]
    BY DEF RowInv, MergeInv, TypeInv, TypeOK
  <2>2. BeginIngest(t, a)
    BY <1>6, <1>7 DEF BeginJob, locks
  <2>3. mine'[t] = [mine[t] EXCEPT ![<<"alert", a>>] = NoCase]
    BY <2>1, <2>2 DEF BeginIngest
  <2>4. r = <<"alert", a>>
    BY <1>6, <1>7, <2>1, <2>3
  <2> QED BY <2>1, <2>2, <2>3, <2>4 DEF BeginIngest
<1>8. Writes(t)' /\ Attached(t)'
  BY <1>3, <1>4, <1>7, NotCases DEF Writes, Attached, OwnAlert, Active, AlertOf
<1> HIDE DEF row
<1> QED BY <1>1, <1>2, <1>3, <1>5, <1>7, <1>8, LocalRows

\* The candidate query, the reading and the flags write no row.
LEMMA ReadingRows ==
    ASSUME RowInv, NEW t \in Tx,
           MatchCandidates(t) \/ ReadCases(t) \/ \E c \in Case : FlagClosed(t, c)
    PROVE  RowInv'
<1>1. MergeInv'
  BY MatchMerge, ReadMerge, FlagMerge DEF RowInv
<1>2. tx[t] \in TxRow /\ tx \in [Tx -> TxRow] /\ tx[t].pc \in {"match", "read", "loop"}
  BY DEF RowInv, MergeInv, TypeInv, TypeOK, MatchCandidates, ReadCases, FlagClosed
<1>3. UNCHANGED <<owner, draft, mine>>
  BY DEF MatchCandidates, ReadCases, FlagClosed, tables, locks
<1>4. tx' = [tx EXCEPT ![t] = tx'[t]] /\ tx'[t].alert = tx[t].alert
      /\ tx'[t].pc \in {"read", "loop"}
  <2>1. CASE MatchCandidates(t)
    BY <1>2, <2>1 DEF MatchCandidates, TxRow
  <2>2. CASE ReadCases(t)
    BY <1>2, <2>2 DEF ReadCases, TxRow
  <2>3. ASSUME NEW c \in Case, FlagClosed(t, c)
        PROVE  /\ tx' = [tx EXCEPT ![t] = tx'[t]] /\ tx'[t].alert = tx[t].alert
               /\ tx'[t].pc \in {"read", "loop"}
    BY <1>2, <2>3 DEF FlagClosed, TxRow
  <2> QED BY <2>1, <2>2, <2>3
<1>5. tx[t].pc = "loop" => tx'[t].pc = "loop" /\ tx'[t].target = tx[t].target
  BY <1>2 DEF MatchCandidates, ReadCases, FlagClosed, TxRow
<1>6. ASSUME NEW r \in Row, mine[t][r] # Untouched
      PROVE  OwnAlert(t, r) \/ (MovedRow(t, r) /\ tx[t].pc = "loop"
                                 /\ draft[t][owner[r]].status = "Merged")
  <2>1. OwnAlert(t, r) \/ MovedRow(t, r)
    BY <1>2, <1>6 DEF RowInv, Writes, OwnRow
  <2>2. CASE MovedRow(t, r)
    <3>1. tx[t].pc = "loop"
      BY <1>2, <2>2 DEF MovedRow, Decided
    <3>2. tx[t].pc \notin Passed[r[1]]
      BY <3>1, RowOf DEF Passed, Tables
    <3> QED BY <2>2, <3>1, <3>2 DEF MovedRow
  <2> QED BY <2>1, <2>2
<1>7. Writes(t)'
  <2> SUFFICES ASSUME NEW r \in Row, mine[t][r] # Untouched
               PROVE  Active(t)' /\ (OwnAlert(t, r)' \/ MovedRow(t, r)')
    BY <1>3 DEF Writes
  <2>1. Active(t)'
    BY <1>4 DEF Active
  <2>2. CASE OwnAlert(t, r)
    BY <1>2, <1>3, <1>4, <2>1, <2>2 DEF OwnAlert, AlertOf
  <2>3. CASE MovedRow(t, r) /\ tx[t].pc = "loop" /\ draft[t][owner[r]].status = "Merged"
    BY <1>3, <1>5, <2>1, <2>3 DEF MovedRow, Decided
  <2> QED BY <1>6, <2>2, <2>3
<1>8. Attached(t)'
  BY <1>4 DEF Attached
<1> QED BY <1>1, <1>2, <1>3, <1>4, <1>7, <1>8, LocalRows

\* A merge statement moves rows of the loser that nobody holds, t included.
LEMMA MoveRowsRows ==
    ASSUME RowInv, NEW t \in Tx, NEW table \in Tables, NEW loser \in Case,
           MoveRows(t, table, loser)
    PROVE  RowInv'
<1> DEFINE rows == {r \in Row : r[1] = table /\ SeenOwner(t, r) = loser}
           row == [tx[t] EXCEPT !.pc = NextTable[table], !.loser = loser]
<1>1. MergeInv'
  BY MoveMerge DEF RowInv
<1>2. /\ tx[t] \in TxRow /\ tx \in [Tx -> TxRow] /\ LocalOK(t) /\ TxInv(t) /\ Writes(t)
      /\ mine \in [Tx -> [Row -> Case \cup {NoCase, Untouched}]]
      /\ owner \in [Row -> Case \cup {NoCase, Absent}]
  BY DEF RowInv, MergeInv, TypeInv, TypeOK
<1>3. /\ Decided(t) /\ loser \in tx[t].losers /\ tx[t].pc # "finish" /\ tx[t].pc # "done"
      /\ table = "alert" => tx[t].pc = "loop"
      /\ table # "alert" => tx[t].pc = table /\ tx[t].loser = loser
  BY <1>2 DEF MoveRows, Decided, Tables, LocalOK
<1>4. tx[t].target \in Case /\ tx[t].target < loser
  BY <1>2, <1>3 DEF LocalOK, TxInv, Chosen
<1>5. tx' = [tx EXCEPT ![t] = row] /\ UNCHANGED <<owner, draft>>
  BY <1>2 DEF MoveRows, tables
<1>6. /\ tx'[t].pc = NextTable[table] /\ tx'[t].loser = loser
      /\ tx'[t].target = tx[t].target /\ tx'[t].alert = tx[t].alert
  BY <1>2, <1>5 DEF TxRow
<1>7. /\ mine'[t] = [r \in Row |-> IF r \in rows THEN tx[t].target ELSE mine[t][r]]
      /\ \A u \in Tx \ {t} : mine'[u] = mine[u]
  BY <1>2 DEF MoveRows
<1>8. ASSUME NEW r \in rows PROVE mine[t][r] = Untouched /\ owner[r] = loser
  <2>1. mine[t][r] # Untouched => mine[t][r] = loser
    BY DEF SeenOwner
  <2>2. mine[t][r] # loser
    <3>1. ~OwnRow(t, r)
      BY <1>3 DEF OwnRow
    <3>2. OwnAlert(t, r) => mine[t][r] # loser
      BY <1>3, NotCases DEF OwnAlert
    <3>3. MovedRow(t, r) => mine[t][r] # loser
      BY <1>4, CaseGroupingAssumption DEF MovedRow, Case, Tx
    <3> QED BY <1>2, <3>1, <3>2, <3>3, NotCases DEF Writes
  <2> QED BY <2>1, <2>2 DEF SeenOwner
<1>9. NextTable[table] \in Passed[table] /\ NextTable[table] \in {"link", "note", "decision", "merge"}
  BY DEF NextTable, Passed, Tables
<1>10. Writes(t)'
  <2> SUFFICES ASSUME NEW r \in Row, mine'[t][r] # Untouched
               PROVE  Active(t)' /\ (OwnAlert(t, r)' \/ MovedRow(t, r)')
    BY DEF Writes
  <2>1. Active(t)' /\ Decided(t)' /\ tx'[t].pc # "finish"
    BY <1>6, <1>9 DEF Active, Decided
  <2>2. CASE r \in rows
    <3>1. mine'[t][r] = tx[t].target /\ owner[r] = loser /\ r[1] = table
      BY <1>7, <1>8, <2>2
    <3> QED BY <1>4, <1>5, <1>6, <1>9, <2>1, <3>1 DEF MovedRow
  <2>3. CASE r \notin rows
    <3>1. mine'[t][r] = mine[t][r]
      BY <1>7, <2>3
    <3>2. OwnAlert(t, r) \/ MovedRow(t, r)
      BY <1>2, <1>3, <3>1 DEF Writes, OwnRow
    <3>3. CASE OwnAlert(t, r)
      BY <1>3, <1>5, <1>6, <2>1, <3>1, <3>3 DEF OwnAlert, AlertOf
    <3>4. CASE MovedRow(t, r)
      <4>1. tx[t].pc \in Passed[r[1]] => tx[t].loser = loser /\ NextTable[table] \in Passed[r[1]]
        BY <1>3, RowOf DEF Passed, NextTable, Tables
      <4> QED BY <1>5, <1>6, <2>1, <3>1, <3>4, <4>1 DEF MovedRow
    <3> QED BY <2>1, <3>2, <3>3, <3>4
  <2> QED BY <2>2, <2>3
<1>11. Attached(t)'
  BY <1>6, <1>9 DEF Attached
<1>12. \A r \in Row : mine'[t][r] # Untouched => mine[t][r] # Untouched \/ RowFree(t, r)
  BY <1>7 DEF MoveRows
<1> HIDE DEF row, rows
<1> QED BY <1>1, <1>3, <1>5, <1>7, <1>10, <1>11, <1>12, LocalRows

\* Drafting the loser as Merged accounts for the rows that were moved out of it.
LEMMA LoserRows ==
    ASSUME RowInv, NEW t \in Tx, MergeLoser(t)
    PROVE  RowInv'
<1> DEFINE l == tx[t].loser
           row == [tx[t] EXCEPT !.pc = "loop", !.losers = tx[t].losers \ {l}, !.loser = NoCase]
<1>1. MergeInv'
  BY LoserMerge DEF RowInv
<1>2. /\ tx[t] \in TxRow /\ tx \in [Tx -> TxRow] /\ LocalOK(t) /\ Writes(t)
      /\ draft \in [Tx -> [Case -> CaseRow]] /\ tx[t].pc = "merge"
  BY DEF RowInv, MergeInv, TypeInv, TypeOK, MergeLoser
<1>3. tx' = [tx EXCEPT ![t] = row] /\ UNCHANGED <<owner, mine>>
  BY <1>2 DEF MergeLoser, tables
<1>4. /\ tx'[t].pc = "loop" /\ tx'[t].target = tx[t].target /\ tx'[t].alert = tx[t].alert
  BY <1>2, <1>3 DEF TxRow
<1>5. /\ \A u \in Tx \ {t} : draft'[u] = draft[u]
      /\ \A d \in Case : draft'[t][d] = IF d = l THEN MergedRow(SeenCase(t, l), tx[t].target)
                                                 ELSE draft[t][d]
  BY <1>2 DEF MergeLoser
<1>6. \A d \in Case : d = l \/ draft[t][d].status = "Merged" => draft'[t][d].status = "Merged"
  <2>1. l \in Case
    BY <1>2 DEF LocalOK, TxRow
  <2>2. SeenCase(t, l) \in CaseRow
    BY <2>1, SeenType DEF RowInv, MergeInv, TypeInv
  <2> QED BY <1>5, <2>2 DEF MergedRow, CaseRow
<1>7. Writes(t)'
  <2> SUFFICES ASSUME NEW r \in Row, mine[t][r] # Untouched
               PROVE  Active(t)' /\ (OwnAlert(t, r)' \/ MovedRow(t, r)')
    BY <1>3 DEF Writes
  <2>1. Active(t)' /\ Decided(t)'
    BY <1>4 DEF Active, Decided
  <2>2. OwnAlert(t, r) \/ MovedRow(t, r)
    BY <1>2 DEF Writes, OwnRow
  <2>3. CASE OwnAlert(t, r)
    BY <1>2, <1>3, <1>4, <2>1, <2>3 DEF OwnAlert, AlertOf
  <2>4. CASE MovedRow(t, r)
    <3>1. owner[r] \in Case /\ (owner[r] = l \/ draft[t][owner[r]].status = "Merged")
      BY <2>4 DEF MovedRow
    <3>2. draft'[t][owner[r]].status = "Merged"
      BY <1>6, <3>1
    <3> QED BY <1>3, <1>4, <2>1, <2>4, <3>2 DEF MovedRow
  <2> QED BY <2>2, <2>3, <2>4
<1>8. Attached(t)'
  BY <1>4 DEF Attached
<1> HIDE DEF row
<1> QED BY <1>1, <1>2, <1>3, <1>5, <1>7, <1>8, LocalRows

\* The attach is possible only for an alert without a link, hence in no case: its row
\* is free and the two new rows have not been seen by anybody.
LEMMA AttachRows ==
    ASSUME RowInv, NEW t \in Tx, AttachAlert(t)
    PROVE  RowInv'
<1> DEFINE a == AlertOf(t)
           c == tx[t].target
           three == {<<"alert", a>>, <<"link", t>>, <<"decision", t>>}
<1>1. MergeInv'
  BY AttachMerge DEF RowInv
<1>2. /\ tx[t] \in TxRow /\ tx \in [Tx -> TxRow] /\ LocalOK(t) /\ TxInv(t) /\ Writes(t)
      /\ mine \in [Tx -> [Row -> Case \cup {NoCase, Untouched}]]
      /\ draft \in [Tx -> [Case -> CaseRow]]
      /\ owner \in [Row -> Case \cup {NoCase, Absent}] /\ tx[t].pc = "loop"
  BY DEF RowInv, MergeInv, TypeInv, TypeOK, AttachAlert
<1>3. a \in Alerts /\ c \in Case /\ three \subseteq Row
  BY <1>2, RowOf DEF LocalOK, Active, Decided, AlertOf
<1>4. owner[<<"alert", a>>] \notin Case
  <2>1. \A s \in Tx : AlertOf(s) = a => owner[<<"link", s>>] \notin Case
    BY NotCases DEF AttachAlert, LinkUnique
  <2> QED BY <1>3, <2>1 DEF RowInv, CommittedRows, AlertLinked
<1>5. owner[<<"link", t>>] \notin Case /\ owner[<<"decision", t>>] \notin Case
  BY <1>2 DEF RowInv, CommittedRows, LinkedByCommit, LinkAndDecision
<1>6. \A r \in three : RowFree(t, r)
  <2>1. RowFree(t, <<"alert", a>>)
    BY DEF AttachAlert
  <2>2. ASSUME NEW u \in Others(t), NEW r \in {<<"link", t>>, <<"decision", t>>}
        PROVE  mine[u][r] = Untouched
    <3>1. u \in Tx /\ u # t /\ r \in Row /\ owner[r] \notin Case
      BY <1>5, RowOf DEF Others
    <3>2. ~OwnAlert(u, r) /\ ~MovedRow(u, r) /\ ~OwnRow(u, r)
      BY <3>1 DEF OwnAlert, MovedRow, OwnRow
    <3> QED BY <3>1, <3>2 DEF RowInv, Writes
  <2> QED BY <2>1, <2>2 DEF RowFree
<1>7. /\ tx' = [tx EXCEPT ![t] = tx'[t]] /\ tx'[t].pc = "finish"
      /\ tx'[t].target = c /\ tx'[t].alert = a /\ owner' = owner
  BY <1>2 DEF AttachAlert, TxRow, tables, AlertOf
<1>8. /\ \A r \in Row : mine'[t][r] = IF r \in three THEN c ELSE mine[t][r]
      /\ \A u \in Tx \ {t} : mine'[u] = mine[u] /\ draft'[u] = draft[u]
      /\ \A d \in Case : d # t => draft'[t][d] = draft[t][d]
  BY <1>2, <1>3 DEF AttachAlert
<1> HIDE DEF three
<1>9. Writes(t)'
  <2> SUFFICES ASSUME NEW r \in Row, mine'[t][r] # Untouched
               PROVE  Active(t)' /\ (OwnAlert(t, r)' \/ MovedRow(t, r)' \/ OwnRow(t, r)')
    BY DEF Writes
  <2>1. Active(t)' /\ Decided(t)'
    BY <1>7 DEF Active, Decided
  <2>2. CASE r = <<"alert", a>>
    <3>1. mine'[t][r] = c
      BY <1>8, <2>2 DEF three
    <3> QED BY <1>4, <1>7, <2>1, <2>2, <3>1 DEF OwnAlert, AlertOf
  <2>3. CASE r \in {<<"link", t>>, <<"decision", t>>}
    <3>1. mine'[t][r] = c
      BY <1>8, <2>3 DEF three
    <3> QED BY <1>7, <2>1, <2>3, <3>1 DEF OwnRow
  <2>4. CASE r \notin three
    <3>1. mine'[t][r] = mine[t][r]
      BY <1>8, <2>4
    <3>2. MovedRow(t, r)
      BY <1>2, <2>4, <3>1 DEF Writes, OwnAlert, OwnRow, three
    <3>3. draft[t][owner[r]].status = "Merged" /\ owner[r] \in Case
      <4>1. tx[t].pc = "loop"
        BY <1>2
      <4>2. tx[t].pc \notin Passed[r[1]]
        BY <4>1, RowOf DEF Passed, Tables
      <4> QED BY <3>2, <4>2 DEF MovedRow
    <3>4. owner[r] # t
      BY <1>2, <3>3 DEF RowInv, MergeInv, OwnerExists, TxInv, Created
    <3>5. draft'[t][owner[r]].status = "Merged"
      BY <1>8, <3>3, <3>4
    <3> QED BY <1>7, <2>1, <3>1, <3>2, <3>5 DEF MovedRow
  <2> QED BY <2>2, <2>3, <2>4 DEF three
<1>10. Attached(t)'
  BY <1>3, <1>4, <1>7, <1>8 DEF Attached, AlertOf, three
<1>11. \A r \in Row : mine'[t][r] # Untouched => mine[t][r] # Untouched \/ RowFree(t, r)
  BY <1>6, <1>8
<1>12. tx[t].pc # "done"
  BY <1>2
<1> QED BY <1>1, <1>7, <1>8, <1>9, <1>10, <1>11, <1>12, LocalRows

\* What a commit makes of each row.
LEMMA CommitOwner ==
    ASSUME RowInv, NEW t \in Tx, FinishGrouping(t), NEW r \in Row
    PROVE  \/ mine[t][r] = Untouched /\ owner'[r] = owner[r]
           \/ /\ r \in {<<"alert", AlertOf(t)>>, <<"link", t>>, <<"decision", t>>}
              /\ owner[r] \notin Case /\ owner'[r] = tx[t].target
           \/ /\ owner[r] \in Case /\ owner'[r] = tx[t].target /\ tx[t].target < owner[r]
              /\ draft[t][owner[r]].status = "Merged"
<1>1. tx[t].pc = "finish" /\ Writes(t) /\ tx[t].target \in Case
  BY DEF RowInv, MergeInv, TypeInv, LocalOK, Decided, FinishGrouping
<1>2. owner'[r] = SeenOwner(t, r)
  BY DEF FinishGrouping
<1>3. CASE mine[t][r] = Untouched
  BY <1>2, <1>3 DEF SeenOwner
<1>4. CASE mine[t][r] # Untouched
  <2>1. owner'[r] = mine[t][r]
    BY <1>2, <1>4 DEF SeenOwner
  <2>2. CASE OwnAlert(t, r)
    BY <1>1, <2>1, <2>2 DEF OwnAlert
  <2>3. CASE OwnRow(t, r)
    <3>1. owner[r] \notin Case
      BY <1>1, <2>3 DEF OwnRow, RowInv, CommittedRows, LinkedByCommit, LinkAndDecision
    <3> QED BY <2>1, <2>3, <3>1 DEF OwnRow
  <2>4. CASE MovedRow(t, r)
    BY <1>1, <2>1, <2>4, RowOf DEF MovedRow, Passed, Tables
  <2> QED BY <1>1, <1>4, <2>2, <2>3, <2>4 DEF Writes
<1> QED BY <1>3, <1>4

\* The commit: the alert, its link and its decision get their case in one step, and the
\* rows of the losers change case; the other transactions have written none of them.
LEMMA FinishRows ==
    ASSUME RowInv, NEW t \in Tx, FinishGrouping(t)
    PROVE  RowInv'
<1> DEFINE a == AlertOf(t)
           c == tx[t].target
<1>1. MergeInv'
  BY FinishMerge DEF RowInv
<1>2. /\ tx \in [Tx -> TxRow] /\ tx[t].pc = "finish" /\ Attached(t)
      /\ a \in Alerts /\ c \in Case
  BY DEF RowInv, MergeInv, TypeInv, TypeOK, LocalOK, Active, Decided, AlertOf, FinishGrouping
<1>3. /\ tx'[t].pc = "done" /\ AlertOf(t)' = a
      /\ \A s \in Tx \ {t} : tx'[s] = tx[s] /\ AlertOf(s)' = AlertOf(s)
  BY <1>2 DEF FinishGrouping, Idle, AlertOf
<1>4. /\ owner'[<<"alert", a>>] = c /\ owner'[<<"link", t>>] = c /\ owner'[<<"decision", t>>] = c
  <2>1. \A r \in {<<"alert", a>>, <<"link", t>>, <<"decision", t>>} : r \in Row /\ mine[t][r] # Untouched
    BY <1>2, RowOf, NotCases DEF Attached
  <2>2. \A r \in {<<"alert", a>>, <<"link", t>>, <<"decision", t>>} : owner'[r] = SeenOwner(t, r)
    BY <2>1 DEF FinishGrouping
  <2> QED BY <1>2, <2>1, <2>2 DEF SeenOwner, Attached
<1>5. ASSUME NEW r \in Row, r \notin {<<"alert", a>>, <<"link", t>>, <<"decision", t>>}
      PROVE  /\ owner'[r] \in Case <=> owner[r] \in Case
             /\ owner'[r] = NoCase => owner[r] = NoCase
  BY <1>2, <1>5, CommitOwner, NotCases
<1>6. \A s \in Tx : s # t => /\ owner'[<<"link", s>>] \in Case <=> owner[<<"link", s>>] \in Case
                             /\ owner'[<<"decision", s>>] \in Case <=> owner[<<"decision", s>>] \in Case
                             /\ owner'[<<"link", s>>] = NoCase => owner[<<"link", s>>] = NoCase
  BY <1>5, RowOf
<1>7. \A b \in Alerts : b # a => (owner'[<<"alert", b>>] \in Case <=> owner[<<"alert", b>>] \in Case)
  BY <1>5, RowOf
<1>8. \A s \in Tx : AlertOf(s) = a => owner[<<"link", s>>] \notin Case
  BY <1>2 DEF Attached, RowInv, CommittedRows, LinkedByCommit
<1> HIDE DEF a, c
<1>9. LinkAndDecision' /\ NoNullLink'
  BY <1>2, <1>4, <1>6, NotCases DEF RowInv, CommittedRows, LinkAndDecision, NoNullLink
<1>10. LinkedByCommit'
  <2> SUFFICES ASSUME NEW s \in Tx, owner'[<<"link", s>>] \in Case
               PROVE  /\ tx'[s].pc = "done" /\ AlertOf(s)' \in Alerts
                      /\ owner'[<<"alert", AlertOf(s)'>>] \in Case
    BY DEF LinkedByCommit
  <2>1. CASE s = t
    BY <1>2, <1>3, <1>4, <2>1
  <2>2. CASE s # t
    <3>1. tx[s].pc = "done" /\ AlertOf(s) \in Alerts /\ owner[<<"alert", AlertOf(s)>>] \in Case
      BY <1>6, <2>2 DEF RowInv, CommittedRows, LinkedByCommit
    <3>2. AlertOf(s) # a
      BY <1>6, <1>8, <2>2
    <3> QED BY <1>3, <1>7, <2>2, <3>1, <3>2
  <2> QED BY <2>1, <2>2
<1>11. OneLink'
  <2> SUFFICES ASSUME NEW s \in Tx, NEW u \in Tx, owner'[<<"link", s>>] \in Case,
                      owner'[<<"link", u>>] \in Case, AlertOf(s)' = AlertOf(u)'
               PROVE  s = u
    BY DEF OneLink
  <2>1. CASE s # t /\ u # t
    BY <1>3, <1>6, <2>1 DEF RowInv, CommittedRows, OneLink
  <2>2. CASE s = t /\ u # t
    BY <1>3, <1>6, <1>8, <2>2
  <2>3. CASE u = t /\ s # t
    BY <1>3, <1>6, <1>8, <2>3
  <2> QED BY <2>1, <2>2, <2>3
<1>12. AlertLinked'
  <2> SUFFICES ASSUME NEW b \in Alerts, owner'[<<"alert", b>>] \in Case
               PROVE  \E s \in Tx : AlertOf(s)' = b /\ owner'[<<"link", s>>] \in Case
    BY DEF AlertLinked
  <2>1. CASE b = a
    BY <1>2, <1>3, <1>4, <2>1
  <2>2. CASE b # a
    <3>1. PICK s \in Tx : AlertOf(s) = b /\ owner[<<"link", s>>] \in Case
      BY <1>7, <2>2 DEF RowInv, CommittedRows, AlertLinked
    <3>2. s # t
      BY <2>2, <3>1 DEF a
    <3> QED BY <1>3, <1>6, <3>1, <3>2
  <2> QED BY <2>1, <2>2
<1>13. /\ mine'[t] = NothingMine
       /\ \A u \in Tx \ {t} : mine'[u] = mine[u] /\ draft'[u] = draft[u]
  BY DEF FinishGrouping, RowInv, MergeInv, TypeInv, TypeOK
<1>14. RowLocks'
  BY <1>13 DEF RowInv, RowLocks, NothingMine
<1>15. ASSUME NEW u \in Tx PROVE Writes(u)' /\ Attached(u)'
  <2>1. CASE u = t
    BY <1>3, <1>13, <2>1 DEF Writes, Attached, NothingMine
  <2>2. CASE u # t
    <3>1. ASSUME NEW r \in Row, mine[u][r] # Untouched PROVE owner'[r] = owner[r]
      <4>1. mine[t][r] = Untouched
        BY <2>2, <3>1 DEF RowInv, RowLocks
      <4> QED BY <4>1 DEF FinishGrouping, SeenOwner
    <3> QED BY <1>3, <1>13, <2>2, <3>1, OtherRows DEF RowInv, MergeInv
  <2> QED BY <2>1, <2>2
<1> QED BY <1>1, <1>9, <1>10, <1>11, <1>12, <1>14, <1>15 DEF RowInv, CommittedRows

\* A rollback forgets what was written.
LEMMA RollbackRows ==
    ASSUME RowInv, NEW t \in Tx, Rollback(t)
    PROVE  RowInv'
<1> DEFINE row == [Idle EXCEPT !.pc = "aborted"]
<1>1. MergeInv'
  BY RollbackMerge DEF RowInv
<1>2. tx' = [tx EXCEPT ![t] = row] /\ owner' = owner /\ tx[t].pc # "done"
  BY DEF Rollback, tables, Active
<1>3. tx'[t].pc = "aborted"
  BY <1>2 DEF RowInv, MergeInv, TypeInv, TypeOK, Idle
<1>4. /\ mine'[t] = NothingMine
      /\ \A u \in Tx \ {t} : mine'[u] = mine[u] /\ draft'[u] = draft[u]
  BY DEF Rollback, RowInv, MergeInv, TypeInv, TypeOK
<1>5. Writes(t)' /\ Attached(t)'
  BY <1>3, <1>4 DEF Writes, Attached, NothingMine
<1>6. \A r \in Row : mine'[t][r] = Untouched
  BY <1>4 DEF NothingMine
<1> HIDE DEF row
<1> QED BY <1>1, <1>2, <1>4, <1>5, <1>6, LocalRows

\* A step outside the grouping transactions keeps the invariant when it leaves alone
\* the cases of alerts, links and decisions and every row that is held.
LEMMA OutsideRows ==
    ASSUME RowInv, MergeInv', UNCHANGED <<tx, mine, draft>>,
           \A r \in Row : r[1] # "note" => /\ owner'[r] \in Case <=> owner[r] \in Case
                                           /\ r[1] = "link" => owner'[r] = owner[r],
           \A u \in Tx, r \in Row : mine[u][r] # Untouched => owner'[r] = owner[r]
    PROVE  RowInv'
<1>1. /\ \A a \in Alerts : owner'[<<"alert", a>>] \in Case <=> owner[<<"alert", a>>] \in Case
      /\ \A s \in Tx : /\ owner'[<<"link", s>>] = owner[<<"link", s>>]
                       /\ owner'[<<"decision", s>>] \in Case <=> owner[<<"decision", s>>] \in Case
  BY RowOf
<1>2. LinkAndDecision' /\ LinkedByCommit' /\ OneLink' /\ AlertLinked' /\ NoNullLink'
  BY <1>1 DEF RowInv, CommittedRows, LinkAndDecision, LinkedByCommit, OneLink, AlertLinked,
              NoNullLink, AlertOf
<1>3. \A u \in Tx : Writes(u)' /\ Attached(u)'
  BY OtherRows DEF RowInv, MergeInv
<1> QED BY <1>2, <1>3 DEF RowInv, CommittedRows, RowLocks

\* Storing an alert alone, and the analysts' notes, insert rows nobody has written.
LEMMA InsertRows ==
    ASSUME RowInv, (\E a \in Alerts : PersistAlertOnly(a)) \/ \E c \in Case : Analyst(c)
    PROVE  RowInv'
<1>1. MergeInv'
  BY PersistMerge, AnalystMerge DEF RowInv
<1>2. owner \in [Row -> Case \cup {NoCase, Absent}]
  BY DEF RowInv, MergeInv, TypeInv, TypeOK
<1>3. UNCHANGED <<tx, mine, draft>>
  BY DEF PersistAlertOnly, Analyst, TransitionCase, AssignCase, AddNote, locks
<1>4. ASSUME NEW a \in Alerts, PersistAlertOnly(a)
      PROVE  RowInv'
  <2>1. owner' = [owner EXCEPT ![<<"alert", a>>] = NoCase] /\ owner[<<"alert", a>>] = Absent
    BY <1>4 DEF PersistAlertOnly
  <2>2. \A u \in Tx, r \in Row : mine[u][r] # Untouched => owner'[r] = owner[r]
    BY <1>2, <1>4, <2>1 DEF PersistAlertOnly
  <2>3. \A r \in Row : /\ owner'[r] \in Case <=> owner[r] \in Case
                       /\ r[1] = "link" => owner'[r] = owner[r]
    BY <1>2, <2>1, NotCases
  <2> QED BY <1>1, <1>3, <2>2, <2>3, OutsideRows
<1>5. ASSUME NEW c \in Case, NEW n \in Notes, AddNote(c, n)
      PROVE  RowInv'
  <2>1. owner' = [owner EXCEPT ![<<"note", n>>] = c] /\ owner[<<"note", n>>] = Absent
    BY <1>5 DEF AddNote
  <2>2. \A r \in Row : r[1] # "note" => owner'[r] = owner[r]
    BY <1>2, <2>1
  <2>3. ASSUME NEW u \in Tx PROVE mine[u][<<"note", n>>] = Untouched
    <3>1. ~OwnAlert(u, <<"note", n>>) /\ ~OwnRow(u, <<"note", n>>)
      BY DEF OwnAlert, OwnRow
    <3>2. ~MovedRow(u, <<"note", n>>)
      BY <2>1, NotCases DEF MovedRow
    <3> QED BY <3>1, <3>2, RowOf DEF RowInv, Writes
  <2>4. \A u \in Tx, r \in Row : mine[u][r] # Untouched => owner'[r] = owner[r]
    BY <1>2, <2>1, <2>3
  <2> QED BY <1>1, <1>3, <2>2, <2>4, OutsideRows
<1>6. CASE owner' = owner
  BY <1>1, <1>3, <1>6, OutsideRows
<1> QED BY <1>4, <1>5, <1>6 DEF Analyst, TransitionCase, AssignCase

\* Every step keeps the invariant.
LEMMA StepRows == RowInv /\ [Next]_vars => RowInv'
<1> SUFFICES ASSUME RowInv, [Next]_vars PROVE RowInv'
  OBVIOUS
<1>1. ASSUME NEW t \in Tx, Grouping(t) PROVE RowInv'
  BY <1>1, BeginRows, ReadingRows, MoveRowsRows, LoserRows, AttachRows, FinishRows, RollbackRows
     DEF Grouping
<1>2. CASE UNCHANGED vars
  <2>1. MergeInv'
    BY <1>2, StepMerge DEF RowInv
  <2> QED BY <1>2, <2>1, OutsideRows DEF vars
<1> QED BY <1>1, <1>2, InsertRows DEF Next

-----------------------------------------------------------------------------
(* The theorems. *)

\* Whatever duplicate jobs, retries and rollbacks do, an alert has one decision and one
\* link exactly when it has a case: the unique link of apply_grouping_for_alert is what
\* makes it so, since every transaction of the same alert may pass the worker's check.
THEOREM DecidedOnce == Spec => []OneDecisionPerAlert
<1>1. Init => RowInv
  BY InitRows
<1>2. RowInv /\ [Next]_vars => RowInv'
  BY StepRows
<1>3. RowInv => OneDecisionPerAlert
  <2> SUFFICES ASSUME RowInv, NEW a \in Alerts
               PROVE  LET of(table) == {s \in Tx : AlertOf(s) = a /\ owner[<<table, s>>] \in Case}
                      IN  /\ of("decision") = of("link")
                          /\ Cardinality(of("link")) = IF owner[<<"alert", a>>] \in Case THEN 1 ELSE 0
    BY DEF OneDecisionPerAlert
  <2> DEFINE linked == {s \in Tx : AlertOf(s) = a /\ owner[<<"link", s>>] \in Case}
             decided == {s \in Tx : AlertOf(s) = a /\ owner[<<"decision", s>>] \in Case}
  <2>1. decided = linked
    BY DEF RowInv, CommittedRows, LinkAndDecision
  <2>2. CASE owner[<<"alert", a>>] \in Case
    <3>1. PICK s \in Tx : AlertOf(s) = a /\ owner[<<"link", s>>] \in Case
      BY <2>2 DEF RowInv, CommittedRows, AlertLinked
    <3>2. linked = {s}
      BY <3>1 DEF RowInv, CommittedRows, OneLink
    <3>3. Cardinality(linked) = 1
      BY <3>2, FS_Singleton
    <3> QED BY <2>1, <2>2, <3>3
  <2>3. CASE owner[<<"alert", a>>] \notin Case
    <3>1. linked = {}
      BY <2>3 DEF RowInv, CommittedRows, LinkedByCommit
    <3>2. Cardinality(linked) = 0
      BY <3>1, FS_EmptySet
    <3> QED BY <2>1, <2>3, <3>2
  <2> QED BY <2>2, <2>3
<1> QED BY <1>1, <1>2, <1>3, PTL DEF Spec

\* A row in a case only ever moves to an older one, so merges that overlap cannot pass
\* rows back and forth: each of the four UPDATEs of the merge loop writes the survivor of
\* a reading, which is older than the loser whatever has been committed since.
THEOREM MovesToOlder == Spec => RowsMoveToOlderCase
<1>1. RowInv /\ [Next]_vars =>
        [\A r \in Row : owner[r] \in Case => owner'[r] \in Case /\ owner'[r] <= owner[r]]_vars
  <2> SUFFICES ASSUME RowInv, [Next]_vars, NEW r \in Row, owner[r] \in Case
               PROVE  owner'[r] \in Case /\ owner'[r] <= owner[r]
    OBVIOUS
  <2>1. owner[r] \in Nat /\ owner \in [Row -> Case \cup {NoCase, Absent}]
    BY CaseGroupingAssumption DEF Case, Tx, RowInv, MergeInv, TypeInv, TypeOK
  <2>2. owner'[r] = owner[r] => owner'[r] \in Case /\ owner'[r] <= owner[r]
    BY <2>1
  <2>3. ASSUME NEW t \in Tx, FinishGrouping(t)
        PROVE  owner'[r] \in Case /\ owner'[r] <= owner[r]
    <3>1. tx[t].target \in Case
      BY <2>3 DEF RowInv, MergeInv, TypeInv, LocalOK, Decided, FinishGrouping
    <3>2. owner'[r] = owner[r] \/ (owner'[r] = tx[t].target /\ tx[t].target < owner[r])
      BY <2>3, CommitOwner
    <3>3. tx[t].target \in Nat
      BY <3>1, CaseGroupingAssumption DEF Case, Tx
    <3> QED BY <2>1, <2>2, <3>1, <3>2, <3>3
  <2>4. ASSUME NEW t \in Tx, Grouping(t), ~FinishGrouping(t)
        PROVE  owner'[r] = owner[r]
    BY <2>4 DEF Grouping, BeginIngest, BeginJob, MatchCandidates, ReadCases, FlagClosed, MoveRows,
                MergeLoser, AttachAlert, Rollback, tables
  <2>5. ASSUME NEW a \in Alerts, PersistAlertOnly(a)
        PROVE  owner'[r] = owner[r]
    BY <2>1, <2>5, NotCases DEF PersistAlertOnly
  <2>6. ASSUME NEW c \in Case, Analyst(c)
        PROVE  owner'[r] = owner[r]
    BY <2>1, <2>6, NotCases DEF Analyst, TransitionCase, AssignCase, AddNote
  <2>7. UNCHANGED vars => owner'[r] = owner[r]
    BY DEF vars
  <2> QED BY <2>2, <2>3, <2>4, <2>5, <2>6, <2>7 DEF Next
<1>2. Init => RowInv
  BY InitRows
<1>3. RowInv /\ [Next]_vars => RowInv'
  BY StepRows
<1> QED BY <1>1, <1>2, <1>3, PTL DEF Spec, RowsMoveToOlderCase

\* A case that is not Merged keeps at least one alert: links leave a case only in the
\* transaction that marks it Merged, and a new case is committed with its link.
THEOREM NeverEmpty == Spec => []LiveCaseHasAlerts
<1>1. Init => RowInv /\ LiveCaseHasAlerts
  <2> SUFFICES ASSUME Init PROVE LiveCaseHasAlerts
    BY InitRows
  <2>1. \A c \in Case : case[c].status \notin {"None", "Merged"} => c \in Seeded
    BY DEF Init, NoRow
  <2>2. \A s \in Tx : s \in Seeded => owner[<<"link", s>>] = s
    BY RowOf DEF Init
  <2> QED BY <2>1, <2>2 DEF LiveCaseHasAlerts, Case
<1>2. RowInv /\ LiveCaseHasAlerts /\ [Next]_vars => (RowInv /\ LiveCaseHasAlerts)'
  <2> SUFFICES ASSUME RowInv, LiveCaseHasAlerts, [Next]_vars,
                      NEW c \in Case, case'[c].status \notin {"None", "Merged"}
               PROVE  \E s \in Tx : owner'[<<"link", s>>] = c
    BY StepRows DEF LiveCaseHasAlerts
  <2>1. ASSUME NEW t \in Tx, FinishGrouping(t)
        PROVE  \E s \in Tx : owner'[<<"link", s>>] = c
    <3>1. tx[t].pc = "finish" /\ tx[t].target \in Case /\ Attached(t)
      BY <2>1 DEF RowInv, MergeInv, TypeInv, LocalOK, Decided, FinishGrouping
    <3>2. CASE c = tx[t].target
      <4>1. mine[t][<<"link", t>>] = c /\ mine[t][<<"link", t>>] # Untouched
        BY <3>1, <3>2, NotCases DEF Attached
      <4>2. owner'[<<"link", t>>] = c
        BY <2>1, <4>1, RowOf DEF FinishGrouping, SeenOwner
      <4> QED BY <4>2
    <3>3. CASE c # tx[t].target
      <4>1. draft[t][c].status # "Merged"
        <5>1. draft[t][c].status = "Merged" => case'[c].status = "Merged"
          BY <2>1, <3>3 DEF FinishGrouping, RowInv, MergeInv, TypeInv, TypeOK
        <5> QED BY <5>1
      <4>2. case[c].status = case'[c].status
        <5>1. draft[t][c].status = "None"
          BY <3>3, <4>1 DEF RowInv, MergeInv, TxInv, Drafted, DraftNew, DraftMerged
        <5> QED BY <2>1, <3>3, <5>1 DEF FinishGrouping, RowInv, MergeInv, TypeInv, TypeOK
      <4>3. PICK s \in Tx : owner[<<"link", s>>] = c
        BY <4>2 DEF LiveCaseHasAlerts
      <4>4. owner'[<<"link", s>>] = c
        BY <2>1, <4>1, <4>3, CommitOwner, RowOf
      <4> QED BY <4>4
    <3> QED BY <3>2, <3>3
  <2>2. ASSUME owner' = owner \/ (\E n \in Notes : owner' = [owner EXCEPT ![<<"note", n>>] = owner'[<<"note", n>>]])
                              \/ (\E a \in Alerts : owner' = [owner EXCEPT ![<<"alert", a>>] = NoCase]),
               case[c].status \notin {"None", "Merged"}
        PROVE  \E s \in Tx : owner'[<<"link", s>>] = c
    <3>1. PICK s \in Tx : owner[<<"link", s>>] = c
      BY <2>2 DEF LiveCaseHasAlerts
    <3>2. owner \in [Row -> Case \cup {NoCase, Absent}]
      BY DEF RowInv, MergeInv, TypeInv, TypeOK
    <3>3. owner'[<<"link", s>>] = c
      BY <2>2, <3>1, <3>2, RowOf
    <3> QED BY <3>3
  <2>3. ASSUME NEW t \in Tx, Grouping(t), ~FinishGrouping(t)
        PROVE  owner' = owner /\ case' = case
    BY <2>3 DEF Grouping, BeginIngest, BeginJob, MatchCandidates, ReadCases, FlagClosed, MoveRows,
                MergeLoser, AttachAlert, Rollback, tables
  <2>4. ASSUME NEW d \in Case, Analyst(d)
        PROVE  /\ case[c].status \notin {"None", "Merged"}
               /\ owner' = owner \/ \E n \in Notes : owner' = [owner EXCEPT ![<<"note", n>>] = owner'[<<"note", n>>]]
    <3>1. case[c].status \notin {"None", "Merged"}
      BY <2>4, AnalystRows DEF RowInv, MergeInv, Exists
    <3>2. ASSUME NEW n \in Notes, AddNote(d, n)
          PROVE  owner' = [owner EXCEPT ![<<"note", n>>] = owner'[<<"note", n>>]]
      <4>1. owner \in [Row -> Case \cup {NoCase, Absent}]
        BY DEF RowInv, MergeInv, TypeInv, TypeOK
      <4> QED BY <3>2, <4>1, RowOf DEF AddNote
    <3> QED BY <2>4, <3>1, <3>2 DEF Analyst, TransitionCase, AssignCase
  <2>5. ASSUME NEW a \in Alerts, PersistAlertOnly(a)
        PROVE  case' = case /\ owner' = [owner EXCEPT ![<<"alert", a>>] = NoCase]
    BY <2>5 DEF PersistAlertOnly
  <2>6. UNCHANGED vars => owner' = owner /\ case' = case
    BY DEF vars
  <2> QED BY <2>1, <2>2, <2>3, <2>4, <2>5, <2>6 DEF Next
<1>3. RowInv /\ LiveCaseHasAlerts => LiveCaseHasAlerts
  OBVIOUS
<1> QED BY <1>1, <1>2, <1>3, PTL DEF Spec

-----------------------------------------------------------------------------
(* The audit streams: what a transaction has appended to the stream of a   *)
(* case carries a status exactly when it has drafted the case as Merged.   *)

\* No event of the log carries a status.
Quiet(log) == \A i \in DOMAIN log : log[i].after = "None"

\* An event without a status changes neither.
LEMMA AppendNone ==
    ASSUME NEW log \in Seq(Event), NEW e \in Event, e.after = "None", NEW status
    PROVE  /\ Quiet(log) => Quiet(Append(log, e))
           /\ EndsWith(log, status) => EndsWith(Append(log, e), status)
<1>1. /\ DOMAIN log = 1..Len(log) /\ Len(log) \in Nat
      /\ DOMAIN Append(log, e) = 1..(Len(log) + 1)
      /\ \A i \in 1..Len(log) : Append(log, e)[i] = log[i]
      /\ Append(log, e)[Len(log) + 1] = e
  OBVIOUS
<1>2. Quiet(log) => Quiet(Append(log, e))
  BY <1>1 DEF Quiet
<1>3. ASSUME EndsWith(log, status) PROVE EndsWith(Append(log, e), status)
  <2>1. PICK i \in DOMAIN log :
          log[i].after = status /\ \A j \in DOMAIN log : j > i => log[j].after = "None"
    BY <1>3 DEF EndsWith
  <2>2. i \in DOMAIN Append(log, e) /\ Append(log, e)[i].after = status
    BY <1>1, <2>1
  <2>3. ASSUME NEW j \in DOMAIN Append(log, e), j > i PROVE Append(log, e)[j].after = "None"
    BY <1>1, <2>1, <2>3
  <2> QED BY <2>2, <2>3 DEF EndsWith
<1> QED BY <1>2, <1>3

\* An event with a status ends the log with it.
LEMMA AppendStatus ==
    ASSUME NEW log \in Seq(Event), NEW e \in Event
    PROVE  EndsWith(Append(log, e), e.after)
<1>1. /\ DOMAIN Append(log, e) = 1..(Len(log) + 1) /\ Len(log) \in Nat
      /\ Append(log, e)[Len(log) + 1] = e
  OBVIOUS
<1>2. Len(log) + 1 \in DOMAIN Append(log, e)
      /\ \A j \in DOMAIN Append(log, e) : ~(j > Len(log) + 1)
  BY <1>1
<1> QED BY <1>1, <1>2 DEF EndsWith

\* A commit appends the events of the transaction to the stream.
LEMMA ConcatStatus ==
    ASSUME NEW log \in Seq(Event), NEW more \in Seq(Event), NEW status
    PROVE  /\ Quiet(more) /\ EndsWith(log, status) => EndsWith(log \o more, status)
           /\ EndsWith(more, status) => EndsWith(log \o more, status)
<1> DEFINE n == Len(log)
           m == Len(more)
           both == log \o more
<1>1. /\ n \in Nat /\ m \in Nat /\ DOMAIN log = 1..n /\ DOMAIN more = 1..m
      /\ DOMAIN both = 1..(n + m)
      /\ \A i \in 1..n : both[i] = log[i]
      /\ \A i \in 1..m : both[n + i] = more[i]
  OBVIOUS
<1>2. \A j \in (n + 1)..(n + m) : j - n \in 1..m /\ both[j] = more[j - n]
  <2> SUFFICES ASSUME NEW j \in (n + 1)..(n + m)
               PROVE  j - n \in 1..m /\ both[j] = more[j - n]
    OBVIOUS
  <2>1. j - n \in 1..m /\ n + (j - n) = j
    BY <1>1
  <2> QED BY <1>1, <2>1
<1> HIDE DEF n, m, both
<1>3. ASSUME Quiet(more), EndsWith(log, status) PROVE EndsWith(both, status)
  <2>1. PICK i \in 1..n : log[i].after = status /\ \A j \in 1..n : j > i => log[j].after = "None"
    BY <1>1, <1>3 DEF EndsWith
  <2>2. i \in DOMAIN both /\ both[i].after = status
    BY <1>1, <2>1
  <2>3. ASSUME NEW j \in DOMAIN both, j > i PROVE both[j].after = "None"
    <3>1. CASE j \in 1..n
      BY <1>1, <2>1, <2>3, <3>1
    <3>2. CASE j \in (n + 1)..(n + m)
      BY <1>1, <1>2, <1>3, <3>2 DEF Quiet
    <3> QED BY <1>1, <3>1, <3>2
  <2> QED BY <2>2, <2>3 DEF EndsWith
<1>4. ASSUME EndsWith(more, status) PROVE EndsWith(both, status)
  <2>1. PICK i \in 1..m : more[i].after = status /\ \A j \in 1..m : j > i => more[j].after = "None"
    BY <1>1, <1>4 DEF EndsWith
  <2>2. n + i \in DOMAIN both /\ both[n + i].after = status
    BY <1>1, <2>1
  <2>3. ASSUME NEW j \in DOMAIN both, j > n + i PROVE both[j].after = "None"
    <3>1. j \in (n + 1)..(n + m) /\ j - n > i
      BY <1>1, <2>1, <2>3
    <3> QED BY <1>2, <2>1, <3>1
  <2> QED BY <2>2, <2>3 DEF EndsWith
<1> QED BY <1>3, <1>4 DEF both

Announced(t) == \A c \in Case :
    IF draft[t][c].status = "Merged" THEN EndsWith(events[t][c], "Merged") ELSE Quiet(events[t][c])

TrailInv == MergeInv /\ TrailEndsWithStatus /\ \A t \in Tx : Announced(t)

\* Nothing is in flight at the start.
LEMMA InitTrail == Init => TrailInv
<1> SUFFICES ASSUME Init PROVE TrailEndsWithStatus /\ \A t \in Tx : Announced(t)
  BY InitMerge DEF TrailInv
<1>1. TrailEndsWithStatus
  BY DEF Init, TrailEndsWithStatus, NewCase, NoRow
<1>2. ASSUME NEW t \in Tx, NEW c \in Case
      PROVE  draft[t][c].status # "Merged" /\ Quiet(events[t][c])
  <2>1. draft[t][c].status = "None" /\ events[t][c] = <<>>
    BY DEF Init, NothingDrafted, NoEvents, NoRow
  <2>2. DOMAIN <<>> = {}
    OBVIOUS
  <2> QED BY <2>1, <2>2 DEF Quiet
<1> QED BY <1>1, <1>2 DEF Announced

\* record_audit by a transaction appends one event to one stream.
LEMMA RecordTrail ==
    ASSUME TypeInv, NEW t \in Tx, NEW c \in Case, NEW action \in Action,
           NEW before \in Status \cup {"None"}, NEW after \in Status \cup {"None"},
           Record(t, c, action, before, after)
    PROVE  /\ \A u \in Tx, d \in Case : u # t \/ d # c => events'[u][d] = events[u][d]
           /\ after = "None" /\ Quiet(events[t][c]) => Quiet(events'[t][c])
           /\ after = "None" => \A status :
                  EndsWith(events[t][c], status) => EndsWith(events'[t][c], status)
           /\ EndsWith(events'[t][c], after)
<1> DEFINE e == [action |-> action, before |-> before, after |-> after]
<1>1. events \in [Tx -> [Case -> Seq(Event)]] /\ events[t][c] \in Seq(Event)
  BY DEF TypeInv, TypeOK
<1>2. e \in Event /\ e.after = after
  BY DEF Event
<1>3. events' = [events EXCEPT ![t][c] = Append(events[t][c], e)]
  BY DEF Record
<1> HIDE DEF e
<1>4. events'[t][c] = Append(events[t][c], e)
  BY <1>1, <1>3
<1>5. \A u \in Tx, d \in Case : u # t \/ d # c => events'[u][d] = events[u][d]
  BY <1>1, <1>3
<1> QED BY <1>1, <1>2, <1>4, <1>5, AppendNone, AppendStatus

\* The steps of a transaction before its commit.
LEMMA PendingTrail ==
    ASSUME TrailInv, NEW t \in Tx, Grouping(t), ~FinishGrouping(t)
    PROVE  TrailInv'
<1>1. MergeInv'
  BY StepMerge DEF TrailInv, Next
<1>2. UNCHANGED <<case, trail>>
  BY DEF Grouping, BeginIngest, BeginJob, MatchCandidates, ReadCases, FlagClosed, MoveRows,
         MergeLoser, AttachAlert, Rollback, tables
<1>3. TrailEndsWithStatus'
  BY <1>2 DEF TrailInv, TrailEndsWithStatus
<1>4. /\ TypeInv /\ LocalOK(t) /\ TxInv(t) /\ tx[t] \in TxRow
      /\ draft \in [Tx -> [Case -> CaseRow]] /\ events \in [Tx -> [Case -> Seq(Event)]]
  BY DEF TrailInv, MergeInv, TypeInv, TypeOK
<1>5. \A u \in Tx \ {t} : draft'[u] = draft[u] /\ events'[u] = events[u]
  BY <1>4 DEF Grouping, BeginIngest, BeginJob, MatchCandidates, ReadCases, FlagClosed, MoveRows,
              MergeLoser, AttachAlert, Rollback, Record, tables, locks
<1>6. \A u \in Tx \ {t} : Announced(u)'
  BY <1>5 DEF TrailInv, Announced
<1>7. Announced(t)'
  <2>1. ASSUME NEW c \in Case, FlagClosed(t, c)
        PROVE  Announced(t)'
    <3>1. Record(t, c, "case.review_flagged", "None", "None") /\ draft' = draft
      BY <2>1 DEF FlagClosed
    <3>2. "case.review_flagged" \in Action
      BY DEF Action
    <3>3. /\ \A d \in Case : d # c => events'[t][d] = events[t][d]
          /\ Quiet(events[t][c]) => Quiet(events'[t][c])
          /\ EndsWith(events[t][c], "Merged") => EndsWith(events'[t][c], "Merged")
      <4>1. TypeInv /\ "None" \in Status \cup {"None"}
        BY <1>4
      <4> QED BY <3>1, <3>2, <4>1, RecordTrail
    <3> QED BY <3>1, <3>3 DEF TrailInv, Announced
  <2>2. CASE MergeLoser(t)
    <3> DEFINE l == tx[t].loser
    <3>1. l \in Case /\ tx[t].read[l].status \in Status \cup {"None"}
      BY <1>4, <2>2 DEF MergeLoser, LocalOK, TxRow, CaseRow
    <3>2. "case.merged" \in Action /\ "Merged" \in Status
      BY DEF Action, Status
    <3>3. Record(t, l, "case.merged", tx[t].read[l].status, "Merged")
      BY <2>2 DEF MergeLoser
    <3>4. draft'[t][l].status = "Merged" /\ \A d \in Case : d # l => draft'[t][d] = draft[t][d]
      <4>1. SeenCase(t, l) \in CaseRow
        BY <1>4, <3>1, SeenType DEF TypeInv
      <4> QED BY <1>4, <2>2, <3>1, <4>1 DEF MergeLoser, MergedRow, CaseRow
    <3> HIDE DEF l
    <3>5. /\ \A d \in Case : d # l => events'[t][d] = events[t][d]
          /\ EndsWith(events'[t][l], "Merged")
      <4>1. TypeInv /\ "Merged" \in Status \cup {"None"}
        BY <1>4, <3>2
      <4> QED BY <3>1, <3>2, <3>3, <4>1, RecordTrail
    <3> QED BY <3>4, <3>5 DEF TrailInv, Announced
  <2>3. CASE AttachAlert(t)
    <3>1. events' = events /\ \A d \in Case : d # t => draft'[t][d] = draft[t][d]
      BY <1>4, <2>3 DEF AttachAlert
    <3>2. draft'[t] = draft[t] \/ (draft[t][t].status # "Merged" /\ draft'[t][t].status # "Merged")
      <4>1. CASE tx[t].target = t
        <5>1. draft[t][t].status # "Merged"
          <6>1. ~DraftMerged(t, t)
            BY <4>1, CaseGroupingAssumption DEF DraftMerged, Tx
          <6> QED BY <1>4, <6>1 DEF TxInv, Drafted, DraftNew, Case
        <5>2. AlertOf(t) \in Alerts /\ t \in Case
          BY <1>4, <2>3 DEF AttachAlert, LocalOK, Active, AlertOf, Case
        <5>3. draft'[t][t] = NewCase(AlertOf(t))
          BY <1>4, <2>3, <4>1, <5>2 DEF AttachAlert
        <5> QED BY <5>1, <5>2, <5>3, NewCaseType
      <4>2. CASE tx[t].target # t
        BY <2>3, <4>2 DEF AttachAlert
      <4> QED BY <4>1, <4>2
    <3> QED BY <3>1, <3>2 DEF TrailInv, Announced
  <2>4. CASE Rollback(t)
    <3>1. \A c \in Case : draft'[t][c].status = "None" /\ events'[t][c] = <<>>
      BY <1>4, <2>4 DEF Rollback, NothingDrafted, NoEvents, NoRow
    <3>2. DOMAIN <<>> = {}
      OBVIOUS
    <3> QED BY <3>1, <3>2 DEF Announced, Quiet
  <2>5. CASE UNCHANGED <<draft, events>>
    BY <2>5 DEF TrailInv, Announced
  <2> QED BY <2>1, <2>2, <2>3, <2>4, <2>5
      DEF Grouping, BeginIngest, BeginJob, MatchCandidates, ReadCases, MoveRows, locks
<1> QED BY <1>1, <1>3, <1>6, <1>7 DEF TrailInv

\* The commit: the stream of a merged loser ends with its case.merged event, the other
\* streams gain events without a status.
LEMMA FinishTrail ==
    ASSUME TrailInv, NEW t \in Tx, FinishGrouping(t)
    PROVE  TrailInv'
<1> DEFINE c == tx[t].target
           written == [draft[t] EXCEPT ![c] = Recomputed(t, SeenCase(t, c))]
           log == [events[t] EXCEPT ![c] = Append(@, Linked)]
<1>1. MergeInv'
  BY FinishMerge DEF TrailInv
<1>2. /\ TypeInv /\ TxInv(t) /\ Announced(t) /\ Decided(t) /\ c \in Case /\ tx[t].pc = "finish"
      /\ draft \in [Tx -> [Case -> CaseRow]] /\ events \in [Tx -> [Case -> Seq(Event)]]
      /\ trail \in [Case -> Seq(Event)]
  BY DEF TrailInv, MergeInv, TypeInv, TypeOK, LocalOK, Decided, FinishGrouping
<1>3. /\ \A d \in Case : d # c => trail'[d] = trail[d] \o events[t][d]
      /\ trail'[c] = trail[c] \o Append(events[t][c], Linked)
  BY <1>2 DEF FinishGrouping
<1>4. /\ \A d \in Case : d # c => case'[d] = IF draft[t][d].status = "None" THEN case[d] ELSE draft[t][d]
      /\ case'[c].status = SeenCase(t, c).status \/ case'[c] = case[c]
  <2>1. Recomputed(t, SeenCase(t, c)).status = SeenCase(t, c).status
    BY <1>2, SeenType, RecomputedType DEF TypeInv
  <2> QED BY <1>2, <2>1 DEF FinishGrouping
<1> HIDE DEF c
<1>5. ASSUME NEW d \in Case, case'[d].status \notin {"None", "Open"}
      PROVE  EndsWith(trail'[d], case'[d].status)
  <2>1. draft[t][d].status # "None" => DraftNew(t, d) \/ DraftMerged(t, d)
    BY <1>2 DEF TxInv, Drafted
  <2>2. CASE draft[t][d].status = "Merged"
    <3>1. d # c
      BY <1>2, <2>1, <2>2, CaseGroupingAssumption DEF DraftNew, DraftMerged, Case, Tx, c
    <3>2. case'[d].status = "Merged" /\ EndsWith(events[t][d], "Merged")
      BY <1>2, <1>4, <2>2, <3>1 DEF Announced
    <3> QED BY <1>2, <1>3, <3>1, <3>2, ConcatStatus
  <2>3. CASE draft[t][d].status = "None"
    <3>1. case'[d].status = case[d].status
      BY <1>4, <2>3 DEF SeenCase
    <3>2. EndsWith(trail[d], case[d].status) /\ Quiet(events[t][d])
      BY <1>2, <1>5, <2>3, <3>1 DEF TrailInv, TrailEndsWithStatus, Announced
    <3>3. Linked \in Event /\ Linked.after = "None"
      BY DEF Linked, Event, Action
    <3>4. Append(events[t][d], Linked) \in Seq(Event) /\ Quiet(Append(events[t][d], Linked))
      BY <1>2, <3>2, <3>3, AppendNone
    <3> QED BY <1>2, <1>3, <3>1, <3>2, <3>4, ConcatStatus
  <2>4. CASE DraftNew(t, d)
    <3>1. d = c /\ draft[t][d].status = "Open"
      BY <2>4 DEF DraftNew, c
    <3>2. case'[c] = case[c] /\ case[c].status = "None"
      BY <1>2, <1>4, <1>5, <2>4, <3>1 DEF SeenCase, TxInv, Created, DraftNew, Exists
    <3> QED BY <1>5, <3>1, <3>2
  <2> QED BY <2>1, <2>2, <2>3, <2>4 DEF DraftMerged
<1>6. ASSUME NEW u \in Tx PROVE Announced(u)'
  <2>1. CASE u = t
    <3>1. \A d \in Case : draft'[t][d].status = "None" /\ events'[t][d] = <<>>
      BY <1>2 DEF FinishGrouping, NothingDrafted, NoEvents, NoRow
    <3>2. DOMAIN <<>> = {}
      OBVIOUS
    <3> QED BY <2>1, <3>1, <3>2 DEF Announced, Quiet
  <2>2. CASE u # t
    BY <1>2, <2>2 DEF FinishGrouping, TrailInv, Announced
  <2> QED BY <2>1, <2>2
<1> QED BY <1>1, <1>5, <1>6 DEF TrailInv, TrailEndsWithStatus

\* An analyst appends the event of the operation: only a transition carries a status,
\* the one it sets.
LEMMA AnalystTrail ==
    ASSUME TrailInv, NEW c \in Case, Analyst(c)
    PROVE  TrailInv'
<1>1. MergeInv'
  BY AnalystMerge DEF TrailInv
<1>2. /\ case \in [Case -> CaseRow] /\ trail \in [Case -> Seq(Event)] /\ trail[c] \in Seq(Event)
      /\ case[c].status \in Status \cup {"None"}
  BY DEF TrailInv, MergeInv, TypeInv, TypeOK, CaseRow
<1>3. UNCHANGED <<draft, events>>
  BY DEF Analyst, TransitionCase, AssignCase, AddNote, locks
<1>4. \A t \in Tx : Announced(t)'
  BY <1>3 DEF TrailInv, Announced
<1>5. ASSUME NEW target \in Status, NEW d \in Dispositions \cup {NoDisposition},
             TransitionCase(c, target, d)
      PROVE  TrailEndsWithStatus'
  <2> DEFINE e == [action |-> "case.transitioned", before |-> case[c].status, after |-> target]
  <2>1. e \in Event /\ e.after = target
    BY <1>2 DEF Event, Action
  <2>2. trail' = [trail EXCEPT ![c] = Append(trail[c], e)]
    BY <1>5 DEF TransitionCase, TransitionEvent, RecordNow
  <2>3. case'[c].status = target /\ \A x \in Case : x # c => case'[x] = case[x]
    BY <1>2, <1>5 DEF TransitionCase, CaseRow
  <2> HIDE DEF e
  <2>4. EndsWith(trail'[c], target)
    BY <1>2, <2>1, <2>2, AppendStatus
  <2>5. \A x \in Case : x # c => trail'[x] = trail[x]
    BY <1>2, <2>2
  <2> QED BY <2>3, <2>4, <2>5 DEF TrailInv, TrailEndsWithStatus
<1>6. ASSUME NEW action \in Action, RecordNow(c, action, "None", "None"),
             \A x \in Case : case'[x].status = case[x].status
      PROVE  TrailEndsWithStatus'
  <2> DEFINE e == [action |-> action, before |-> "None", after |-> "None"]
  <2>1. e \in Event /\ e.after = "None"
    BY DEF Event
  <2>2. trail' = [trail EXCEPT ![c] = Append(trail[c], e)]
    BY <1>6 DEF RecordNow
  <2> HIDE DEF e
  <2>3. ASSUME NEW x \in Case, NEW status, EndsWith(trail[x], status)
        PROVE  EndsWith(trail'[x], status)
    BY <1>2, <2>1, <2>2, <2>3, AppendNone
  <2> QED BY <1>6, <2>3 DEF TrailInv, TrailEndsWithStatus
<1>7. ASSUME NEW u \in Users \cup {NoUser}, AssignCase(c, u)
      PROVE  TrailEndsWithStatus'
  <2>1. \A x \in Case : case'[x].status = case[x].status
    BY <1>2, <1>7 DEF AssignCase, CaseRow
  <2> QED BY <1>6, <1>7, <2>1 DEF AssignCase, Action
<1>8. ASSUME NEW n \in Notes, AddNote(c, n)
      PROVE  TrailEndsWithStatus'
  BY <1>6, <1>8 DEF AddNote, Action
<1> QED BY <1>1, <1>4, <1>5, <1>7, <1>8 DEF TrailInv, Analyst

\* Every step keeps the invariant.
LEMMA StepTrail == TrailInv /\ [Next]_vars => TrailInv'
<1> SUFFICES ASSUME TrailInv, [Next]_vars PROVE TrailInv'
  OBVIOUS
<1>1. CASE (\E a \in Alerts : PersistAlertOnly(a)) \/ UNCHANGED vars
  <2>1. UNCHANGED <<case, trail, draft, events>>
    BY <1>1 DEF PersistAlertOnly, locks, vars
  <2>2. MergeInv'
    BY StepMerge DEF TrailInv
  <2> QED BY <2>1, <2>2 DEF TrailInv, TrailEndsWithStatus, Announced
<1>2. ASSUME NEW t \in Tx, Grouping(t) PROVE TrailInv'
  BY <1>2, PendingTrail, FinishTrail
<1> QED BY <1>1, <1>2, AnalystTrail DEF Next

\* The audit stream of a case tells its status: the events of a grouping transaction that
\* has not committed, decided on a reading that may be stale, cannot make it lie.
THEOREM TrailTells == Spec => []TrailEndsWithStatus
<1>1. Init => TrailInv
  BY InitTrail
<1>2. TrailInv /\ [Next]_vars => TrailInv'
  BY StepTrail
<1>3. TrailInv => TrailEndsWithStatus
  BY DEF TrailInv
<1> QED BY <1>1, <1>2, <1>3, PTL DEF Spec

-----------------------------------------------------------------------------
(***************************************************************************)
(* Grouping transactions one at a time.  The code's comments state that    *)
(* the aggregates are right and that a merge leaves nothing behind without *)
(* a condition; overlapping transactions refute both.  With Concurrency 1  *)
(* they hold, whatever the analysts commit inside a transaction: what it   *)
(* read of its target stays true, and no row of a loser escapes it.        *)
(***************************************************************************)
\* The rows of a table that were in case c when t began are written by t.
Gone(t, table, c) == \A r \in Row : r[1] = table /\ owner[r] = c => mine[t][r] # Untouched

Moves == {"alert", "link", "decision"}

OneActive == \A t, u \in Tx : Active(t) /\ Active(u) => t = u

\* Every alert, link and decision of a merged loser has left it.
Whole(t) == \A table \in Moves :
    /\ \A c \in Case : draft[t][c].status = "Merged" => Gone(t, table, c)
    /\ tx[t].pc \in Passed[table] => Gone(t, table, tx[t].loser)

\* The target is still what t read of it, as far as t relies on it.
TargetAsItWas(t) == Decided(t) /\ tx[t].target # t =>
    /\ case[tx[t].target].status \notin {"None", "Merged"}
    /\ case[tx[t].target].count = tx[t].read[tx[t].target].count
    /\ case[tx[t].target].risk = tx[t].read[tx[t].target].risk

\* What t counted is what its commit will leave in the target.
Counted(t) == tx[t].pc = "finish" =>
    /\ tx[t].count = Cardinality({s \in Tx : SeenOwner(t, <<"link", s>>) = tx[t].target})
    /\ tx[t].risk = AggregateRisk({b \in Alerts : SeenOwner(t, <<"alert", b>>) = tx[t].target})
    /\ tx[t].target = t => draft[t][t] = NewCase(AlertOf(t))

Alone(t) == Whole(t) /\ TargetAsItWas(t) /\ Counted(t)

Consistent == AggregatesAgree /\ AlertIsWhereItsLinkIs /\ AlertsFollowMerge

SerialInv == RowInv /\ Consistent /\ OneActive /\ \A t \in Tx : Alone(t)

\* A transaction that is not open after a step has nothing to keep.
LEMMA InactiveAlone ==
    ASSUME MergeInv', NEW t \in Tx, ~Active(t)'
    PROVE  Alone(t)'
<1>1. ~Decided(t)' /\ tx'[t].pc # "finish"
  BY DEF Active, Decided
<1>2. \A table \in Moves : tx'[t].pc \notin Passed[table]
  BY DEF Active, Passed, Moves
<1>3. \A c \in Case : draft'[t][c].status # "Merged"
  BY <1>1 DEF MergeInv, TxInv, Drafted
<1> QED BY <1>1, <1>2, <1>3 DEF Alone, Whole, TargetAsItWas, Counted

\* While one transaction at a time is allowed, it is the only one.
LEMMA OnlyOne ==
    ASSUME Concurrency = 1, SerialInv, NEW t \in Tx, Grouping(t)
    PROVE  \A u \in Tx \ {t} : tx'[u] = tx[u] /\ ~Active(u)
<1>1. tx \in [Tx -> TxRow]
  BY DEF SerialInv, RowInv, MergeInv, TypeInv, TypeOK
<1>2. \A u \in Tx \ {t} : tx'[u] = tx[u]
  BY <1>1 DEF Grouping, BeginIngest, BeginJob, MatchCandidates, ReadCases, FlagClosed, MoveRows,
              MergeLoser, AttachAlert, FinishGrouping, Rollback
<1>3. CASE Active(t)
  BY <1>2, <1>3 DEF SerialInv, OneActive
<1>4. CASE ~Active(t)
  <2>1. Starts(t)
    BY <1>4 DEF Grouping, BeginIngest, BeginJob, MatchCandidates, ReadCases, FlagClosed, MoveRows,
                MergeLoser, AttachAlert, FinishGrouping, Rollback, Active, Tables
  <2> DEFINE open == {u \in Tx : Active(u)}
  <2>2. IsFiniteSet(open)
    <3>1. IsFiniteSet(Tx)
      BY CaseGroupingAssumption, FS_Interval DEF Tx
    <3> QED BY <3>1, FS_Subset
  <2>3. Cardinality(open) \in Nat /\ Cardinality(open) < 1
    BY <2>1, <2>2, FS_CardinalityType DEF Starts
  <2>4. open = {}
    BY <2>2, <2>3, FS_EmptySet
  <2> QED BY <1>2, <2>4
<1> QED BY <1>3, <1>4

\* The tables after a step that commits nothing.
LEMMA KeptConsistent ==
    ASSUME SerialInv, NEW t \in Tx, NEW row, tx' = [tx EXCEPT ![t] = row], tx[t].pc # "done",
           UNCHANGED <<case, owner>>
    PROVE  Consistent'
<1>1. AggregatesAgree' /\ AlertsFollowMerge'
  BY DEF SerialInv, Consistent, AggregatesAgree, AlertsFollowMerge
<1>2. ASSUME NEW s \in Tx, owner[<<"link", s>>] \in Case
      PROVE  AlertOf(s)' = AlertOf(s)
  BY <1>2 DEF SerialInv, RowInv, CommittedRows, LinkedByCommit, MergeInv, TypeInv, TypeOK, AlertOf
<1>3. AlertIsWhereItsLinkIs'
  BY <1>2 DEF SerialInv, Consistent, AlertIsWhereItsLinkIs
<1> QED BY <1>1, <1>3 DEF Consistent

\* A step of the only transaction.
LEMMA LocalAlone ==
    ASSUME Concurrency = 1, SerialInv, NEW t \in Tx, Grouping(t), RowInv', Consistent', Alone(t)'
    PROVE  SerialInv'
<1>1. \A u \in Tx \ {t} : ~Active(u)'
  BY OnlyOne DEF Active
<1>2. \A u \in Tx : Alone(u)'
  BY <1>1, InactiveAlone DEF RowInv
<1> QED BY <1>1, <1>2 DEF SerialInv, OneActive

\* At the start each seeded case has one alert, counted.
LEMMA InitSerial == Init => SerialInv
<1> SUFFICES ASSUME Init PROVE SerialInv
  OBVIOUS
<1>1. RowInv
  BY InitRows
<1>2. /\ Seeded \subseteq Case
      /\ \A s \in Seeded : SeedAlert[s] \in Alerts /\ Score[SeedAlert[s]] \in 0..100
      /\ \A s, u \in Seeded : SeedAlert[s] = SeedAlert[u] => s = u
  <2>1. PICK k \in 0..MaxTx : SeedAlert \in [1..k -> Alerts]
    BY CaseGroupingAssumption
  <2> QED BY <2>1, CaseGroupingAssumption DEF Seeded, Case, Tx
<1>3. \A t \in Tx : /\ tx[t].pc \in {"idle", "done"}
                    /\ t \in Seeded => AlertOf(t) = SeedAlert[t]
  BY DEF Init, Idle, AlertOf
<1>4. \A s \in Tx : /\ owner[<<"link", s>>] = IF s \in Seeded THEN s ELSE Absent
                    /\ owner[<<"decision", s>>] = IF s \in Seeded THEN s ELSE Absent
  BY RowOf DEF Init
<1>5. \A a \in Alerts, c \in Case : owner[<<"alert", a>>] = c <=> c \in Seeded /\ SeedAlert[c] = a
  <2> SUFFICES ASSUME NEW a \in Alerts, NEW c \in Case
               PROVE  owner[<<"alert", a>>] = c <=> c \in Seeded /\ SeedAlert[c] = a
    OBVIOUS
  <2>1. owner[<<"alert", a>>] =
          IF \E s \in Seeded : SeedAlert[s] = a THEN CHOOSE s \in Seeded : SeedAlert[s] = a ELSE Absent
    BY RowOf DEF Init
  <2>2. CASE \E s \in Seeded : SeedAlert[s] = a
    BY <1>2, <2>1, <2>2
  <2>3. CASE ~\E s \in Seeded : SeedAlert[s] = a
    BY <2>1, <2>3, NotCases
  <2> QED BY <2>2, <2>3
<1>6. \A c \in Case : /\ case[c].status = IF c \in Seeded THEN "Open" ELSE "None"
                      /\ c \in Seeded => case[c].count = 1 /\ case[c].risk = Score[SeedAlert[c]]
  BY DEF Init, NewCase, NoRow
<1>7. AlertIsWhereItsLinkIs
  <2> SUFFICES ASSUME NEW s \in Tx, owner[<<"link", s>>] \in Case
               PROVE  /\ owner[<<"alert", AlertOf(s)>>] = owner[<<"link", s>>]
                      /\ owner[<<"decision", s>>] = owner[<<"link", s>>]
    BY DEF AlertIsWhereItsLinkIs
  <2>1. s \in Seeded /\ owner[<<"link", s>>] = s /\ owner[<<"decision", s>>] = s
    BY <1>4, NotCases
  <2> QED BY <1>2, <1>3, <1>5, <2>1
<1>8. AlertsFollowMerge
  <2>1. \A c \in Case : case[c].status # "Merged"
    BY <1>6
  <2> QED BY <2>1 DEF AlertsFollowMerge
<1>9. AggregatesAgree
  <2> SUFFICES ASSUME NEW c \in Case, c \in Seeded
               PROVE  /\ case[c].count = Cardinality({s \in Tx : owner[<<"link", s>>] = c})
                      /\ case[c].risk = AggregateRisk({a \in Alerts : owner[<<"alert", a>>] = c})
    BY <1>6 DEF AggregatesAgree
  <2>1. {s \in Tx : owner[<<"link", s>>] = c} = {c}
    BY <1>4, NotCases DEF Case
  <2>2. {a \in Alerts : owner[<<"alert", a>>] = c} = {SeedAlert[c]}
    BY <1>2, <1>5
  <2>3. AggregateRisk({SeedAlert[c]}) = Score[SeedAlert[c]]
    <3>1. {Score[a] : a \in {SeedAlert[c]}} = {Score[SeedAlert[c]]}
      OBVIOUS
    <3>2. Max({Score[SeedAlert[c]]}) \in {Score[SeedAlert[c]]}
      BY <1>2, MaxOfBounded
    <3> QED BY <3>1, <3>2 DEF AggregateRisk
  <2> QED BY <1>6, <2>1, <2>2, <2>3, FS_Singleton
<1>10. OneActive /\ \A t \in Tx : Alone(t)
  <2>1. \A t \in Tx, c \in Case : draft[t][c].status = "None"
    BY DEF Init, NothingDrafted, NoRow
  <2>2. \A t \in Tx, table \in Moves : tx[t].pc \notin Passed[table]
    BY <1>3 DEF Passed, Moves
  <2> QED BY <1>3, <2>1, <2>2
      DEF OneActive, Active, Alone, Whole, TargetAsItWas, Decided, Counted
<1> QED BY <1>1, <1>7, <1>8, <1>9, <1>10 DEF SerialInv, Consistent

\* Starting, querying, reading and flagging: the reading is of the present.
LEMMA ReadingSerial ==
    ASSUME Concurrency = 1, SerialInv, NEW t \in Tx, Grouping(t),
           \/ \E a \in Alerts : BeginIngest(t, a) \/ BeginJob(t, a)
           \/ MatchCandidates(t) \/ ReadCases(t) \/ \E c \in Case : FlagClosed(t, c)
    PROVE  SerialInv'
<1>1. RowInv'
  BY StepRows DEF SerialInv, Next
<1>2. /\ tx \in [Tx -> TxRow] /\ tx[t] \in TxRow /\ case \in [Case -> CaseRow] /\ MergeInv /\ TxInv(t)
      /\ tx[t].pc \in {"idle", "match", "read", "loop"}
  BY DEF SerialInv, RowInv, MergeInv, TypeInv, TypeOK, BeginIngest, BeginJob, Starts,
         MatchCandidates, ReadCases, FlagClosed
<1>3. UNCHANGED <<case, owner, draft>>
  BY DEF BeginIngest, BeginJob, MatchCandidates, ReadCases, FlagClosed, tables, locks
<1>4. tx' = [tx EXCEPT ![t] = tx'[t]] /\ tx'[t].pc \in {"match", "read", "loop"}
  <2>1. ASSUME NEW a \in Alerts, BeginIngest(t, a) \/ BeginJob(t, a)
        PROVE  tx' = [tx EXCEPT ![t] = tx'[t]] /\ tx'[t].pc = "match"
    BY <1>2, <2>1 DEF BeginIngest, BeginJob, TxRow
  <2>2. CASE MatchCandidates(t)
    BY <1>2, <2>2 DEF MatchCandidates, TxRow
  <2>3. CASE ReadCases(t)
    BY <1>2, <2>3 DEF ReadCases, TxRow
  <2>4. ASSUME NEW c \in Case, FlagClosed(t, c)
        PROVE  tx' = [tx EXCEPT ![t] = tx'[t]] /\ tx'[t].pc = "loop"
    BY <1>2, <2>4 DEF FlagClosed, TxRow
  <2> QED BY <2>1, <2>2, <2>3, <2>4
<1>5. tx[t].pc # "done"
  BY <1>2
<1>6. Consistent'
  BY <1>3, <1>4, <1>5, KeptConsistent
<1>7. Whole(t)'
  <2>1. \A table \in Moves : tx'[t].pc \notin Passed[table]
    BY <1>4 DEF Passed, Moves
  <2>2. CASE tx[t].pc = "loop"
    <3>1. mine' = mine
      BY <2>2 DEF BeginIngest, BeginJob, Starts, MatchCandidates, ReadCases, FlagClosed
    <3> QED BY <1>3, <2>1, <3>1 DEF SerialInv, Alone, Whole, Gone
  <2>3. CASE tx[t].pc # "loop"
    <3>1. \A c \in Case : draft[t][c].status # "Merged"
      BY <1>2, <2>3 DEF TxInv, Drafted, Decided
    <3> QED BY <1>3, <2>1, <3>1 DEF Whole
  <2> QED BY <2>2, <2>3
<1>8. TargetAsItWas(t)'
  <2>1. CASE ReadCases(t)
    <3> DEFINE matched == tx[t].matched
               open == {c \in matched : case[c].status \notin {"Merged", "Closed"}}
    <3>1. /\ tx'[t].target = IF open = {} THEN t ELSE Survivor(open)
          /\ tx'[t].read = [c \in Case |-> IF c \in matched THEN case[c] ELSE NoRow]
      BY <1>2, <2>1 DEF ReadCases, TxRow
    <3>2. open \in SUBSET Case /\ \A c \in open : Exists(c)
      BY <1>2, <2>1 DEF TxRow, TxInv, Matched, ReadCases
    <3>3. tx'[t].target = t \/ tx'[t].target \in open
      BY <3>1, <3>2, SurvivorIsOldest
    <3> QED BY <1>3, <3>1, <3>2, <3>3 DEF TargetAsItWas, Exists
  <2>2. ASSUME NEW c \in Case, FlagClosed(t, c)
        PROVE  TargetAsItWas(t)'
    <3>1. /\ tx'[t].target = tx[t].target /\ tx'[t].read = tx[t].read /\ tx[t].pc = "loop"
      BY <1>2, <2>2 DEF FlagClosed, TxRow
    <3> QED BY <1>3, <3>1 DEF SerialInv, Alone, TargetAsItWas, Decided
  <2>3. CASE tx'[t].pc # "loop"
    BY <1>4, <2>3 DEF TargetAsItWas, Decided
  <2>4. ASSUME NEW a \in Alerts, BeginIngest(t, a) \/ BeginJob(t, a)
        PROVE  tx'[t].pc = "match"
    BY <1>2, <2>4 DEF BeginIngest, BeginJob, TxRow
  <2>5. MatchCandidates(t) => tx'[t].pc = "read"
    BY <1>2 DEF MatchCandidates, TxRow
  <2> QED BY <2>1, <2>2, <2>3, <2>4, <2>5
<1>9. Counted(t)'
  BY <1>4 DEF Counted
<1> QED BY <1>1, <1>6, <1>7, <1>8, <1>9, LocalAlone DEF Alone

\* A merge statement takes every row of its table out of the loser: nobody else can
\* have moved one in.
LEMMA MoveSerial ==
    ASSUME Concurrency = 1, SerialInv, NEW t \in Tx, Grouping(t),
           NEW table \in Tables, NEW loser \in Case, MoveRows(t, table, loser)
    PROVE  SerialInv'
<1> DEFINE rows == {r \in Row : r[1] = table /\ SeenOwner(t, r) = loser}
<1>1. RowInv'
  BY StepRows DEF SerialInv, Next
<1>2. /\ tx \in [Tx -> TxRow] /\ tx[t] \in TxRow /\ LocalOK(t) /\ Alone(t) /\ TxInv(t)
      /\ mine \in [Tx -> [Row -> Case \cup {NoCase, Untouched}]]
  BY DEF SerialInv, RowInv, MergeInv, TypeInv, TypeOK
<1>3. /\ Decided(t) /\ tx[t].pc # "done" /\ tx[t].target \in Case
      /\ table = "alert" => tx[t].pc = "loop"
      /\ table # "alert" => tx[t].pc = table /\ tx[t].loser = loser
  BY <1>2 DEF MoveRows, Decided, Tables, LocalOK
<1>4. /\ tx' = [tx EXCEPT ![t] = tx'[t]] /\ tx'[t].pc = NextTable[table] /\ tx'[t].loser = loser
      /\ tx'[t].target = tx[t].target /\ tx'[t].read = tx[t].read
      /\ UNCHANGED <<case, owner, draft>>
  BY <1>2 DEF MoveRows, TxRow, tables
<1>5. mine'[t] = [r \in Row |-> IF r \in rows THEN tx[t].target ELSE mine[t][r]]
  BY <1>2 DEF MoveRows
<1>6. \A r \in Row : mine[t][r] # Untouched => mine'[t][r] # Untouched
  BY <1>3, <1>5, NotCases
<1>7. \A r \in Row : r[1] = table /\ owner[r] = loser => mine'[t][r] # Untouched
  <2> SUFFICES ASSUME NEW r \in Row, r[1] = table, owner[r] = loser, mine[t][r] = Untouched
               PROVE  mine'[t][r] # Untouched
    BY <1>6
  <2>1. r \in rows
    BY DEF SeenOwner
  <2> QED BY <1>3, <1>5, <2>1, NotCases
<1> HIDE DEF rows
<1>8. Consistent'
  BY <1>3, <1>4, KeptConsistent
<1>9. Whole(t)'
  <2> SUFFICES ASSUME NEW other \in Moves
               PROVE  /\ \A c \in Case : draft'[t][c].status = "Merged" => Gone(t, other, c)'
                      /\ tx'[t].pc \in Passed[other] => Gone(t, other, tx[t].loser)'
    BY DEF Whole
  <2>1. \A c \in Case : draft'[t][c].status = "Merged" => Gone(t, other, c)'
    BY <1>2, <1>4, <1>6 DEF Alone, Whole, Gone
  <2>2. ASSUME NextTable[table] \in Passed[other] PROVE Gone(t, other, loser)'
    <3>1. CASE other = table
      BY <1>4, <1>7, <3>1 DEF Gone
    <3>2. CASE other # table
      <4>1. tx[t].pc \in Passed[other] /\ tx[t].loser = loser
        BY <1>3, <2>2, <3>2 DEF NextTable, Passed, Tables, Moves
      <4> QED BY <1>2, <1>4, <1>6, <4>1 DEF Alone, Whole, Gone
    <3> QED BY <3>1, <3>2
  <2> QED BY <1>4, <2>1, <2>2 DEF Gone
<1>10. NextTable[table] \in {"link", "note", "decision", "merge"}
  BY DEF NextTable, Tables
<1>11. TargetAsItWas(t)' /\ Counted(t)'
  BY <1>2, <1>3, <1>4, <1>10 DEF Alone, TargetAsItWas, Counted
<1> QED BY <1>1, <1>8, <1>9, <1>11, LocalAlone DEF Alone

\* The loser is drafted as Merged once its four tables are empty.
LEMMA LoserSerial ==
    ASSUME Concurrency = 1, SerialInv, NEW t \in Tx, Grouping(t), MergeLoser(t)
    PROVE  SerialInv'
<1> DEFINE l == tx[t].loser
<1>1. RowInv'
  BY StepRows DEF SerialInv, Next
<1>2. /\ tx \in [Tx -> TxRow] /\ tx[t] \in TxRow /\ LocalOK(t) /\ Alone(t) /\ tx[t].pc = "merge"
      /\ draft \in [Tx -> [Case -> CaseRow]]
  BY DEF SerialInv, RowInv, MergeInv, TypeInv, TypeOK, MergeLoser
<1>3. /\ tx' = [tx EXCEPT ![t] = tx'[t]] /\ tx'[t].pc = "loop"
      /\ tx'[t].target = tx[t].target /\ tx'[t].read = tx[t].read
      /\ UNCHANGED <<case, owner, mine>>
  BY <1>2 DEF MergeLoser, TxRow, tables
<1>4. \A d \in Case : d # l => draft'[t][d] = draft[t][d]
  BY <1>2 DEF MergeLoser
<1>5. tx[t].pc # "done"
  BY <1>2
<1>6. Consistent'
  BY <1>3, <1>5, KeptConsistent
<1>7. Whole(t)'
  <2> SUFFICES ASSUME NEW table \in Moves
               PROVE  /\ \A c \in Case : draft'[t][c].status = "Merged" => Gone(t, table, c)
                      /\ tx'[t].pc \notin Passed[table]
    BY <1>3 DEF Whole, Gone
  <2>1. tx[t].pc \in Passed[table] /\ tx'[t].pc \notin Passed[table]
    BY <1>2, <1>3 DEF Passed, Moves
  <2>2. Gone(t, table, l)
    BY <1>2, <2>1 DEF Alone, Whole
  <2> QED BY <1>2, <1>4, <2>1, <2>2 DEF Alone, Whole
<1>8. TargetAsItWas(t)' /\ Counted(t)'
  BY <1>2, <1>3 DEF Alone, TargetAsItWas, Counted, Decided
<1> QED BY <1>1, <1>6, <1>7, <1>8, LocalAlone DEF Alone

\* The counts are taken over what the commit will leave.
LEMMA AttachSerial ==
    ASSUME Concurrency = 1, SerialInv, NEW t \in Tx, Grouping(t), AttachAlert(t)
    PROVE  SerialInv'
<1> DEFINE a == AlertOf(t)
           c == tx[t].target
           three == {<<"alert", a>>, <<"decision", t>>, <<"link", t>>}
           seen(r) == IF r \in three THEN c ELSE SeenOwner(t, r)
<1>1. RowInv'
  BY StepRows DEF SerialInv, Next
<1>2. /\ tx \in [Tx -> TxRow] /\ tx[t] \in TxRow /\ LocalOK(t) /\ Alone(t) /\ tx[t].pc = "loop"
      /\ TxInv(t) /\ draft \in [Tx -> [Case -> CaseRow]]
      /\ mine \in [Tx -> [Row -> Case \cup {NoCase, Untouched}]]
  BY DEF SerialInv, RowInv, MergeInv, TypeInv, TypeOK, AttachAlert
<1>3. a \in Alerts /\ c \in Case /\ three \subseteq Row /\ t \in Case
  BY <1>2, RowOf DEF LocalOK, Active, Decided, AlertOf, Case
<1>4. /\ tx' = [tx EXCEPT ![t] = tx'[t]] /\ tx'[t].pc = "finish" /\ AlertOf(t)' = a
      /\ tx'[t].target = c /\ tx'[t].read = tx[t].read
      /\ tx'[t].count = Cardinality({s \in Tx : seen(<<"link", s>>) = c})
      /\ tx'[t].risk = AggregateRisk({b \in Alerts : seen(<<"alert", b>>) = c})
      /\ UNCHANGED <<case, owner>>
  BY <1>2 DEF AttachAlert, TxRow, AlertOf, tables
<1>5. \A r \in Row : mine'[t][r] = IF r \in three THEN c ELSE mine[t][r]
  BY <1>2, <1>3 DEF AttachAlert
<1>6. \A r \in Row : SeenOwner(t, r)' = seen(r)
  BY <1>3, <1>4, <1>5, NotCases DEF SeenOwner
<1>7. /\ \A d \in Case : d # t => draft'[t][d] = draft[t][d]
      /\ c = t => draft'[t][t] = NewCase(a)
      /\ c # t => draft'[t][t] = draft[t][t]
  BY <1>2, <1>3 DEF AttachAlert
<1>8. tx[t].pc # "done"
  BY <1>2
<1>9. Consistent'
  BY <1>4, <1>8, KeptConsistent
<1>10. Counted(t)'
  <2>1. {s \in Tx : SeenOwner(t, <<"link", s>>)' = c} = {s \in Tx : seen(<<"link", s>>) = c}
    BY <1>6, RowOf
  <2>2. {b \in Alerts : SeenOwner(t, <<"alert", b>>)' = c} = {b \in Alerts : seen(<<"alert", b>>) = c}
    BY <1>6, RowOf
  <2> HIDE DEF seen, a
  <2> QED BY <1>4, <1>7, <2>1, <2>2 DEF Counted
<1>11. Whole(t)'
  <2> SUFFICES ASSUME NEW table \in Moves
               PROVE  /\ \A d \in Case : draft'[t][d].status = "Merged" => Gone(t, table, d)'
                      /\ tx'[t].pc \notin Passed[table]
    BY DEF Whole
  <2>1. tx'[t].pc \notin Passed[table]
    BY <1>4 DEF Passed, Moves
  <2>2. \A r \in Row : mine[t][r] # Untouched => mine'[t][r] # Untouched
    BY <1>3, <1>5, NotCases
  <2>3. c = t => draft'[t][t].status # "Merged"
    BY <1>3, <1>7, NewCaseType
  <2>4. \A d \in Case : draft'[t][d].status = "Merged" => draft[t][d].status = "Merged"
    BY <1>7, <2>3
  <2> QED BY <1>2, <1>4, <2>1, <2>2, <2>4 DEF Alone, Whole, Gone
<1>12. TargetAsItWas(t)'
  BY <1>2, <1>4 DEF Alone, TargetAsItWas, Decided
<1> QED BY <1>1, <1>9, <1>10, <1>11, <1>12, LocalAlone DEF Alone

\* What the only transaction's commit makes of an alert's, a link's or a decision's row:
\* its own three rows and every row of a merged loser end in the target.
LEMMA CommitMoves ==
    ASSUME SerialInv, NEW t \in Tx, FinishGrouping(t), NEW r \in Row, r[1] \in Moves
    PROVE  LET three == {<<"alert", AlertOf(t)>>, <<"link", t>>, <<"decision", t>>}
           IN  /\ r \in three => owner[r] \notin Case /\ owner'[r] = tx[t].target
               /\ r \notin three /\ owner[r] \notin Case => owner'[r] = owner[r]
               /\ r \notin three /\ owner[r] \in Case =>
                      owner'[r] = IF draft[t][owner[r]].status = "Merged" THEN tx[t].target
                                                                          ELSE owner[r]
<1> DEFINE three == {<<"alert", AlertOf(t)>>, <<"link", t>>, <<"decision", t>>}
<1>1. /\ tx[t].pc = "finish" /\ tx[t].target \in Case /\ Attached(t) /\ Whole(t) /\ RowInv
  BY DEF SerialInv, Alone, RowInv, MergeInv, TypeInv, LocalOK, Decided, FinishGrouping
<1>2. r \in three => owner[r] \notin Case
  BY <1>1 DEF Attached, RowInv, CommittedRows, LinkedByCommit, LinkAndDecision
<1>3. r \in three => mine[t][r] # Untouched
  BY <1>1, NotCases DEF Attached
<1>4. owner[r] \in Case /\ draft[t][owner[r]].status = "Merged" => mine[t][r] # Untouched
  BY <1>1 DEF Whole, Gone
<1>5. \/ mine[t][r] = Untouched /\ owner'[r] = owner[r]
      \/ r \in three /\ owner[r] \notin Case /\ owner'[r] = tx[t].target
      \/ /\ owner[r] \in Case /\ owner'[r] = tx[t].target
         /\ draft[t][owner[r]].status = "Merged"
  BY <1>1, CommitOwner
<1> HIDE DEF three
<1>6. /\ r \in three => owner[r] \notin Case /\ owner'[r] = tx[t].target
      /\ r \notin three /\ owner[r] \notin Case => owner'[r] = owner[r]
      /\ r \notin three /\ owner[r] \in Case =>
             owner'[r] = IF draft[t][owner[r]].status = "Merged" THEN tx[t].target ELSE owner[r]
  BY <1>2, <1>3, <1>4, <1>5
<1> QED BY <1>6 DEF three

\* What it makes of a case that is not its target.
LEMMA CommitCase ==
    ASSUME MergeInv, NEW t \in Tx, FinishGrouping(t), NEW d \in Case, d # tx[t].target
    PROVE  case'[d] = IF draft[t][d].status = "Merged" THEN draft[t][d] ELSE case[d]
<1>1. draft[t][d].status \notin {"None", "Merged"} => d = tx[t].target
  BY DEF MergeInv, TxInv, Drafted, DraftNew, DraftMerged
<1>2. case'[d] = IF draft[t][d].status = "None" THEN case[d] ELSE draft[t][d]
  BY DEF FinishGrouping, MergeInv, TypeInv, TypeOK
<1> QED BY <1>1, <1>2

\* And of its target.
LEMMA CommitTarget ==
    ASSUME SerialInv, NEW t \in Tx, FinishGrouping(t)
    PROVE  LET c == tx[t].target
           IN  /\ case'[c].count = tx[t].count /\ case'[c].risk = tx[t].risk
               /\ case'[c].status \notin {"None", "Merged"}
<1> DEFINE c == tx[t].target
           read == TargetAsRead(t)
           seen == SeenCase(t, c)
<1>1. /\ tx[t].pc = "finish" /\ Decided(t) /\ c \in Case /\ Alone(t) /\ TxInv(t) /\ TypeInv
      /\ draft \in [Tx -> [Case -> CaseRow]]
  BY DEF SerialInv, RowInv, MergeInv, TypeInv, TypeOK, LocalOK, Decided, FinishGrouping
<1>2. seen \in CaseRow
  BY <1>1, SeenType DEF TypeInv
<1>3. seen.status \notin {"None", "Merged"} /\ seen.count = read.count /\ seen.risk = read.risk
  <2>1. CASE c = t
    <3>1. draft[t][t] = NewCase(AlertOf(t)) /\ draft[t][t].status = "Open"
      BY <1>1, <2>1 DEF Alone, Counted, TxInv, Created
    <3> QED BY <2>1, <3>1 DEF SeenCase, TargetAsRead
  <2>2. CASE c # t
    <3>1. draft[t][c].status = "None"
      <4>1. ~DraftMerged(t, c)
        BY <1>1, CaseGroupingAssumption DEF DraftMerged, Case, Tx
      <4> QED BY <1>1, <2>2, <4>1 DEF TxInv, Drafted, DraftNew
    <3>2. seen = case[c] /\ read = tx[t].read[c]
      BY <2>2, <3>1 DEF SeenCase, TargetAsRead
    <3> QED BY <1>1, <2>2, <3>2 DEF Alone, TargetAsItWas
  <2> QED BY <2>1, <2>2
<1>4. Recomputed(t, seen).status = seen.status
  BY <1>1, <1>2, RecomputedType
<1>5. Recomputed(t, seen).count = tx[t].count /\ Recomputed(t, seen).risk = tx[t].risk
  BY <1>2, <1>3 DEF Recomputed, CaseRow
<1>6. case'[c] = Recomputed(t, seen)
  BY <1>1, <1>3, <1>4 DEF FinishGrouping
<1> HIDE DEF seen
<1> QED BY <1>3, <1>4, <1>5, <1>6

\* The commit leaves the tables consistent.
LEMMA FinishConsistent ==
    ASSUME SerialInv, NEW t \in Tx, FinishGrouping(t)
    PROVE  Consistent'
<1> DEFINE a == AlertOf(t)
           c == tx[t].target
           three == {<<"alert", a>>, <<"link", t>>, <<"decision", t>>}
           moved(o) == IF draft[t][o].status = "Merged" THEN c ELSE o
<1>1. /\ tx \in [Tx -> TxRow] /\ tx[t].pc = "finish" /\ a \in Alerts /\ c \in Case
      /\ Attached(t) /\ Alone(t) /\ MergeInv /\ RowInv /\ Consistent
  BY DEF SerialInv, RowInv, MergeInv, TypeInv, TypeOK, LocalOK, Active, Decided, AlertOf,
         FinishGrouping
<1>2. draft[t][c].status # "Merged"
  <2>1. ~DraftMerged(t, c)
    BY <1>1, CaseGroupingAssumption DEF DraftMerged, Case, Tx
  <2> QED BY <1>1, <2>1 DEF MergeInv, TxInv, Drafted, DraftNew
<1>3. \A r \in Row : r[1] \in Moves =>
        /\ r \in three => owner[r] \notin Case /\ owner'[r] = c
        /\ r \notin three /\ owner[r] \notin Case => owner'[r] = owner[r]
        /\ r \notin three /\ owner[r] \in Case => owner'[r] = moved(owner[r])
  BY CommitMoves
<1>4. \A d \in Case \ {c} : case'[d] = IF draft[t][d].status = "Merged" THEN draft[t][d] ELSE case[d]
  BY <1>1, CommitCase
<1>5. /\ case'[c].count = tx[t].count /\ case'[c].risk = tx[t].risk
      /\ case'[c].status \notin {"None", "Merged"}
  BY CommitTarget
<1>6. \A s \in Tx \ {t} : AlertOf(s)' = AlertOf(s)
  BY <1>1 DEF FinishGrouping, AlertOf
<1>7. AlertOf(t)' = a
  BY <1>1 DEF FinishGrouping, Idle, AlertOf
<1>8. AlertIsWhereItsLinkIs'
  <2> SUFFICES ASSUME NEW s \in Tx, owner'[<<"link", s>>] \in Case
               PROVE  /\ owner'[<<"alert", AlertOf(s)'>>] = owner'[<<"link", s>>]
                      /\ owner'[<<"decision", s>>] = owner'[<<"link", s>>]
    BY DEF AlertIsWhereItsLinkIs
  <2>1. CASE s = t
    <3>1. \A r \in three : r \in Row /\ r[1] \in Moves
      <4>1. \A r \in three : r[1] \in Moves
        BY DEF Moves
      <4> HIDE DEF a
      <4>2. \A r \in three : r \in Row
        BY <1>1, RowOf
      <4> QED BY <4>1, <4>2
    <3> QED BY <1>3, <1>7, <2>1, <3>1
  <2>2. CASE s # t
    <3>1. <<"link", s>> \in Row \ three /\ <<"decision", s>> \in Row \ three
      BY <2>2, RowOf
    <3>2. owner[<<"link", s>>] \in Case
      BY <1>3, <3>1 DEF Moves
    <3>3. /\ AlertOf(s) \in Alerts
          /\ owner[<<"alert", AlertOf(s)>>] = owner[<<"link", s>>]
          /\ owner[<<"decision", s>>] = owner[<<"link", s>>]
      BY <1>1, <3>2 DEF RowInv, CommittedRows, LinkedByCommit, Consistent, AlertIsWhereItsLinkIs
    <3>4. AlertOf(s) # a
      BY <1>1, <3>2, <3>3 DEF Attached
    <3>5. <<"alert", AlertOf(s)>> \in Row \ three
      BY <3>3, <3>4, RowOf
    <3> HIDE DEF three, moved
    <3>6. \A r \in {<<"alert", AlertOf(s)>>, <<"link", s>>, <<"decision", s>>} :
            owner'[r] = moved(owner[r])
      BY <1>3, <3>1, <3>2, <3>3, <3>5 DEF Moves
    <3> QED BY <1>6, <2>2, <3>3, <3>6
  <2> QED BY <2>1, <2>2
<1>9. AlertsFollowMerge'
  <2> SUFFICES ASSUME NEW r \in Row, r[1] # "note", owner'[r] \in Case
               PROVE  case'[owner'[r]].status # "Merged"
    BY DEF AlertsFollowMerge
  <2>1. r[1] \in Moves
    BY RowOf DEF Moves, Tables
  <2>2. CASE owner'[r] = c
    BY <1>5, <2>2
  <2>3. CASE owner'[r] # c
    <3>1. owner[r] \in Case /\ owner'[r] = owner[r] /\ draft[t][owner[r]].status # "Merged"
      BY <1>3, <2>1, <2>3
    <3>2. case'[owner[r]] = case[owner[r]]
      BY <1>4, <2>3, <3>1
    <3> QED BY <1>1, <3>1, <3>2 DEF Consistent, AlertsFollowMerge
  <2> QED BY <2>2, <2>3
<1>10. AggregatesAgree'
  <2> SUFFICES ASSUME NEW d \in Case, case'[d].status \notin {"None", "Merged"}
               PROVE  /\ case'[d].count = Cardinality({s \in Tx : owner'[<<"link", s>>] = d})
                      /\ case'[d].risk = AggregateRisk({b \in Alerts : owner'[<<"alert", b>>] = d})
    BY DEF AggregatesAgree
  <2>1. CASE d = c
    <3>1. \A r \in Row : owner'[r] = SeenOwner(t, r)
      BY DEF FinishGrouping
    <3>2. {s \in Tx : owner'[<<"link", s>>] = c} = {s \in Tx : SeenOwner(t, <<"link", s>>) = c}
      BY <3>1, RowOf
    <3>3. {b \in Alerts : owner'[<<"alert", b>>] = c} = {b \in Alerts : SeenOwner(t, <<"alert", b>>) = c}
      BY <3>1, RowOf
    <3> QED BY <1>1, <1>5, <2>1, <3>2, <3>3 DEF Alone, Counted
  <2>2. CASE d # c
    <3>1. draft[t][d].status # "Merged" /\ case'[d] = case[d]
      <4>1. draft[t][d].status = "Merged" => case'[d].status = "Merged"
        BY <1>4, <2>2
      <4> QED BY <1>4, <2>2, <4>1
    <3>2. \A r \in Row : r[1] \in Moves => (owner'[r] = d <=> owner[r] = d)
      BY <1>3, <2>2, <3>1
    <3>3. {s \in Tx : owner'[<<"link", s>>] = d} = {s \in Tx : owner[<<"link", s>>] = d}
      BY <3>2, RowOf DEF Moves
    <3>4. {b \in Alerts : owner'[<<"alert", b>>] = d} = {b \in Alerts : owner[<<"alert", b>>] = d}
      BY <3>2, RowOf DEF Moves
    <3> QED BY <1>1, <3>1, <3>3, <3>4 DEF Consistent, AggregatesAgree
  <2> QED BY <2>1, <2>2
<1> QED BY <1>8, <1>9, <1>10 DEF Consistent

\* The end of a transaction.
LEMMA EndSerial ==
    ASSUME Concurrency = 1, SerialInv, NEW t \in Tx, Grouping(t), FinishGrouping(t) \/ Rollback(t)
    PROVE  SerialInv'
<1>1. RowInv'
  BY StepRows DEF SerialInv, Next
<1>2. ~Active(t)'
  <2>1. tx \in [Tx -> TxRow]
    BY DEF SerialInv, RowInv, MergeInv, TypeInv, TypeOK
  <2>2. tx'[t].pc \in {"done", "aborted"}
    BY <2>1 DEF FinishGrouping, Rollback, Idle
  <2> QED BY <2>2 DEF Active
<1>3. Alone(t)'
  BY <1>1, <1>2, InactiveAlone DEF RowInv
<1>4. CASE FinishGrouping(t)
  BY <1>1, <1>3, <1>4, FinishConsistent, LocalAlone
<1>5. CASE Rollback(t)
  <2> DEFINE row == [Idle EXCEPT !.pc = "aborted"]
  <2>1. tx' = [tx EXCEPT ![t] = row] /\ tx[t].pc # "done" /\ UNCHANGED <<case, owner>>
    BY <1>5 DEF Rollback, Active, tables
  <2> HIDE DEF row
  <2>2. Consistent'
    BY <2>1, KeptConsistent
  <2> QED BY <1>1, <1>3, <2>2, LocalAlone
<1> QED BY <1>4, <1>5

\* An analyst, or an alert stored alone, changes no count, no score, no merged status and
\* no row in a case but notes: in the tables and in what an open transaction relies on.
LEMMA OutsideSerial ==
    ASSUME SerialInv, RowInv', UNCHANGED <<tx, draft, mine>>,
           \A c \in Case :
               /\ case'[c].count = case[c].count /\ case'[c].risk = case[c].risk
               /\ case'[c].status \in {"None", "Merged"} <=> case[c].status \in {"None", "Merged"}
               /\ case'[c].status = "Merged" <=> case[c].status = "Merged",
           \A r \in Row : r[1] \in Moves => /\ owner'[r] \in Case <=> owner[r] \in Case
                                            /\ owner[r] \in Case => owner'[r] = owner[r]
    PROVE  SerialInv'
<1>1. \A r \in Row, c \in Case : r[1] \in Moves => (owner'[r] = c <=> owner[r] = c)
  OBVIOUS
<1>2. /\ \A s \in Tx : /\ <<"link", s>> \in Row /\ <<"link", s>>[1] \in Moves
                       /\ <<"decision", s>> \in Row /\ <<"decision", s>>[1] \in Moves
      /\ \A a \in Alerts : <<"alert", a>> \in Row /\ <<"alert", a>>[1] \in Moves
  BY RowOf DEF Moves
<1>3. AggregatesAgree'
  <2> SUFFICES ASSUME NEW c \in Case, case[c].status \notin {"None", "Merged"}
               PROVE  /\ case'[c].count = Cardinality({s \in Tx : owner'[<<"link", s>>] = c})
                      /\ case'[c].risk = AggregateRisk({a \in Alerts : owner'[<<"alert", a>>] = c})
    BY DEF AggregatesAgree
  <2>1. {s \in Tx : owner'[<<"link", s>>] = c} = {s \in Tx : owner[<<"link", s>>] = c}
    BY <1>1, <1>2
  <2>2. {a \in Alerts : owner'[<<"alert", a>>] = c} = {a \in Alerts : owner[<<"alert", a>>] = c}
    BY <1>1, <1>2
  <2> QED BY <2>1, <2>2 DEF SerialInv, Consistent, AggregatesAgree
<1>4. AlertIsWhereItsLinkIs'
  <2> SUFFICES ASSUME NEW s \in Tx, owner'[<<"link", s>>] \in Case
               PROVE  /\ owner'[<<"alert", AlertOf(s)>>] = owner'[<<"link", s>>]
                      /\ owner'[<<"decision", s>>] = owner'[<<"link", s>>]
    BY DEF AlertIsWhereItsLinkIs, AlertOf
  <2>1. owner[<<"link", s>>] \in Case /\ owner'[<<"link", s>>] = owner[<<"link", s>>]
    BY <1>2
  <2>2. /\ AlertOf(s) \in Alerts /\ owner[<<"alert", AlertOf(s)>>] = owner[<<"link", s>>]
        /\ owner[<<"decision", s>>] = owner[<<"link", s>>]
    BY <2>1 DEF SerialInv, RowInv, CommittedRows, LinkedByCommit, Consistent, AlertIsWhereItsLinkIs
  <2> QED BY <1>2, <2>1, <2>2
<1>5. AlertsFollowMerge'
  <2>1. \A r \in Row : r[1] # "note" => r[1] \in Moves
    BY RowOf DEF Moves, Tables
  <2> QED BY <2>1 DEF SerialInv, Consistent, AlertsFollowMerge
<1>6. ASSUME NEW t \in Tx PROVE Alone(t)'
  <2>1. /\ Alone(t) /\ LocalOK(t) /\ tx[t] \in TxRow
    BY DEF SerialInv, RowInv, MergeInv, TypeInv, TypeOK
  <2>2. Whole(t)'
    <3>1. \A table \in Moves, c \in Case : Gone(t, table, c) => Gone(t, table, c)'
      BY <1>1 DEF Gone
    <3>2. \A table \in Moves : tx[t].pc \in Passed[table] => tx[t].loser \in Case
      BY <2>1 DEF Passed, Moves, LocalOK, TxRow
    <3>3. \A table \in Moves :
            tx[t].pc \in Passed[table] => (Gone(t, table, tx[t].loser) => Gone(t, table, tx[t].loser)')
      BY <1>1, <3>2 DEF Gone
    <3> QED BY <2>1, <3>1, <3>3 DEF Alone, Whole
  <2>3. TargetAsItWas(t)'
    BY <2>1 DEF Alone, TargetAsItWas, Decided, LocalOK
  <2>4. Counted(t)'
    <3> SUFFICES ASSUME tx[t].pc = "finish" PROVE Counted(t)'
      BY DEF Counted
    <3> DEFINE c == tx[t].target
    <3>1. c \in Case
      BY <2>1 DEF LocalOK, Decided
    <3>2. \A r \in Row : r[1] \in Moves => (SeenOwner(t, r)' = c <=> SeenOwner(t, r) = c)
      BY <1>1, <3>1 DEF SeenOwner
    <3>3. {s \in Tx : SeenOwner(t, <<"link", s>>)' = c} = {s \in Tx : SeenOwner(t, <<"link", s>>) = c}
      BY <1>2, <3>2
    <3>4. {b \in Alerts : SeenOwner(t, <<"alert", b>>)' = c}
            = {b \in Alerts : SeenOwner(t, <<"alert", b>>) = c}
      BY <1>2, <3>2
    <3>5. AlertOf(t)' = AlertOf(t)
      BY DEF AlertOf
    <3> QED BY <2>1, <3>3, <3>4, <3>5 DEF Alone, Counted
  <2> QED BY <2>2, <2>3, <2>4 DEF Alone
<1>7. OneActive'
  BY DEF SerialInv, OneActive, Active
<1> QED BY <1>3, <1>4, <1>5, <1>6, <1>7 DEF SerialInv, Consistent

\* Every step keeps the invariant while transactions run one at a time.
LEMMA StepSerial ==
    ASSUME Concurrency = 1
    PROVE  SerialInv /\ [Next]_vars => SerialInv'
<1> SUFFICES ASSUME SerialInv, [Next]_vars PROVE SerialInv'
  OBVIOUS
<1>1. RowInv'
  BY StepRows DEF SerialInv
<1>2. ASSUME NEW t \in Tx, Grouping(t) PROVE SerialInv'
  BY <1>2, ReadingSerial, MoveSerial, LoserSerial, AttachSerial, EndSerial DEF Grouping
<1>3. /\ case \in [Case -> CaseRow] /\ owner \in [Row -> Case \cup {NoCase, Absent}]
      /\ TypeInv /\ MergeInv
  BY DEF SerialInv, RowInv, MergeInv, TypeInv, TypeOK
<1>4. ASSUME NEW a \in Alerts, PersistAlertOnly(a) PROVE SerialInv'
  <2>1. owner' = [owner EXCEPT ![<<"alert", a>>] = NoCase] /\ owner[<<"alert", a>>] = Absent
    BY <1>4 DEF PersistAlertOnly
  <2>2. UNCHANGED <<case, tx, draft, mine>>
    BY <1>4 DEF PersistAlertOnly, locks
  <2>3. \A r \in Row : /\ owner'[r] \in Case <=> owner[r] \in Case
                       /\ owner[r] \in Case => owner'[r] = owner[r]
    BY <1>3, <2>1, NotCases
  <2> QED BY <1>1, <2>2, <2>3, OutsideSerial
<1>5. ASSUME NEW d \in Case, Analyst(d) PROVE SerialInv'
  <2>1. UNCHANGED <<tx, draft, mine>>
    BY <1>5 DEF Analyst, TransitionCase, AssignCase, AddNote, locks
  <2>2. ASSUME NEW c \in Case
        PROVE  case'[c].count = case[c].count /\ case'[c].risk = case[c].risk
    <3>1. case[c] \in CaseRow /\ case[d] \in CaseRow
      BY <1>3
    <3>2. ASSUME NEW s \in Status, NEW x \in Dispositions \cup {NoDisposition}, TransitionCase(d, s, x)
          PROVE  case'[c].count = case[c].count /\ case'[c].risk = case[c].risk
      BY <1>3, <3>1, <3>2 DEF TransitionCase, CaseRow
    <3>3. ASSUME NEW u \in Users \cup {NoUser}, AssignCase(d, u)
          PROVE  case'[c].count = case[c].count /\ case'[c].risk = case[c].risk
      BY <1>3, <3>1, <3>3 DEF AssignCase, CaseRow
    <3> QED BY <1>5, <3>2, <3>3 DEF Analyst, AddNote
  <2>3. ASSUME NEW c \in Case
        PROVE  /\ case'[c].status \in {"None", "Merged"} <=> case[c].status \in {"None", "Merged"}
               /\ case'[c].status = "Merged" <=> case[c].status = "Merged"
    BY <1>3, <1>5, AnalystRows DEF Exists, Status
  <2>4. ASSUME NEW r \in Row, r[1] \in Moves
        PROVE  owner'[r] = owner[r]
    <3>1. ASSUME NEW n \in Notes, owner' = [owner EXCEPT ![<<"note", n>>] = d]
          PROVE  owner'[r] = owner[r]
      <4>1. r # <<"note", n>>
        BY <2>4 DEF Moves
      <4> QED BY <1>3, <3>1, <4>1
    <3> QED BY <1>5, <3>1 DEF Analyst, TransitionCase, AssignCase, AddNote
  <2> QED BY <1>1, <2>1, <2>2, <2>3, <2>4, OutsideSerial
<1>6. CASE UNCHANGED vars
  BY <1>1, <1>6, OutsideSerial DEF vars
<1> QED BY <1>2, <1>4, <1>5, <1>6 DEF Next

\* One transaction at a time, alert_count and risk_score are those of the links and
\* alerts of the case: the last flush writes them from counts taken after the moves.
THEOREM SerialAggregates ==
    ASSUME Concurrency = 1
    PROVE  Spec => []AggregatesAgree
<1>1. Init => SerialInv
  BY InitSerial
<1>2. SerialInv /\ [Next]_vars => SerialInv'
  BY StepSerial
<1>3. SerialInv => AggregatesAgree
  BY DEF SerialInv, Consistent
<1> QED BY <1>1, <1>2, <1>3, PTL DEF Spec

\* One transaction at a time, an alert is in one case: its own row, its link and its
\* decision name the same, though three UPDATEs move them.
THEOREM SerialAlertInOneCase ==
    ASSUME Concurrency = 1
    PROVE  Spec => []AlertIsWhereItsLinkIs
<1>1. Init => SerialInv
  BY InitSerial
<1>2. SerialInv /\ [Next]_vars => SerialInv'
  BY StepSerial
<1>3. SerialInv => AlertIsWhereItsLinkIs
  BY DEF SerialInv, Consistent
<1> QED BY <1>1, <1>2, <1>3, PTL DEF Spec

\* One transaction at a time, a merge leaves no alert, link or decision on the loser.
THEOREM SerialMergesWhole ==
    ASSUME Concurrency = 1
    PROVE  Spec => []AlertsFollowMerge
<1>1. Init => SerialInv
  BY InitSerial
<1>2. SerialInv /\ [Next]_vars => SerialInv'
  BY StepSerial
<1>3. SerialInv => AlertsFollowMerge
  BY DEF SerialInv, Consistent
<1> QED BY <1>1, <1>2, <1>3, PTL DEF Spec
=============================================================================
