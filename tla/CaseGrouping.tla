---------------------------- MODULE CaseGrouping ----------------------------
(***************************************************************************)
(* Canonical cases: the grouping transactions that create, attach to and   *)
(* merge them (backend/app/grouping/persistence.py, run by the ingest      *)
(* route and by the worker), interleaved with the analysts' lifecycle,     *)
(* assignment and note operations (backend/app/cases/service.py).          *)
(*                                                                         *)
(* PostgreSQL runs every transaction at READ COMMITTED, so a grouping      *)
(* transaction is modelled one SQL statement (or flush) at a time:         *)
(*   - case, owner and trail are the committed tables;                     *)
(*   - draft[t], mine[t] and events[t] are what transaction t has written  *)
(*     and not committed; a row in one of them is a row t has locked;      *)
(*   - a statement sees the committed rows overlaid with t's own, and a    *)
(*     statement that writes a row waits while another transaction holds   *)
(*     it (its guard is false), then acts on the row's latest version.     *)
(* An analyst's transaction locks its case row (SELECT ... FOR UPDATE)     *)
(* before it reads anything and holds it to the commit, so it is one step. *)
(*                                                                         *)
(* Transactions are numbered by the order they start in.  A transaction    *)
(* creates at most one case, stamped with its start (created_at defaults   *)
(* to now()), writes one decision and one link: all are identified by t,   *)
(* and the survivor order (created_at, id) is the order of the numbers.    *)
(***************************************************************************)
EXTENDS Integers, FiniteSets, FiniteSetsExt, Sequences

CONSTANTS
    Alerts,        \* alerts the source systems send
    NoAlert,       \* not an alert
    Notes,         \* notes the analysts write
    Users,         \* active users a case can be assigned to
    NoUser,        \* an unassigned case
    Dispositions,  \* config.dispositions
    NoDisposition, \* a case with neither disposition nor closed_at
    SharesKey,     \* pairs {a, b} with a blocking key in common, inside the window
    Similar,       \* pairs {a, b} the engine joins with an edge
    Score,         \* the risk_score of each alert
    MaxTx,         \* bound: grouping transactions in a behaviour
    Concurrency,   \* bound: grouping transactions open at one time
    MaxVersion,    \* bound: an analyst's operation stops at this version of a case
    SeedAlert      \* the alerts of the cases that exist at the start, by stamp

Tx == 1..MaxTx
Case == Tx
NoCase == 0        \* the NULL case_id of an alert that is not grouped yet
Absent == -1       \* no such row
Untouched == -2    \* a row a transaction has not written
Seeded == DOMAIN SeedAlert

ASSUME CaseGroupingAssumption ==
    /\ NoAlert \notin Alerts
    /\ NoUser \notin Users
    /\ NoDisposition \notin Dispositions
    /\ MaxTx \in Nat /\ Concurrency \in Nat /\ MaxVersion \in Nat
    /\ \E k \in 0..MaxTx : SeedAlert \in [1..k -> Alerts]
    /\ \A s, u \in Seeded : SeedAlert[s] = SeedAlert[u] => s = u
    /\ Score \in [Alerts -> 0..100]

Status == {"Open", "In Progress", "Pending Info", "Closed", "Merged"}

CaseRow == [status: Status \cup {"None"}, version: Nat, canonical: Case \cup {NoCase},
            count: Nat, risk: 0..100, disposition: Dispositions \cup {NoDisposition},
            assignee: Users \cup {NoUser}]

NoRow == [status |-> "None", version |-> 0, canonical |-> NoCase, count |-> 0,
          risk |-> 0, disposition |-> NoDisposition, assignee |-> NoUser]

Tables == {"alert", "link", "note", "decision"}

\* The rows that carry a case_id.
Row == ({"alert"} \X Alerts) \cup ({"link", "decision"} \X Tx) \cup ({"note"} \X Notes)

Action == {"case.alert_linked", "case.merged", "case.review_flagged",
           "case.transitioned", "case.assigned", "case.note_added"}

Event == [action: Action, before: Status \cup {"None"}, after: Status \cup {"None"}]

TxRow == [pc: {"idle", "match", "read", "loop", "link", "note", "decision", "merge",
               "finish", "done", "aborted"},
          alert: Alerts \cup {NoAlert}, matched: SUBSET Case, read: [Case -> CaseRow],
          flags: SUBSET Case, losers: SUBSET Case, loser: Case \cup {NoCase},
          target: Case \cup {NoCase}, count: Nat, risk: 0..100]

VARIABLES
    case,    \* [Case -> CaseRow]: table cases
    owner,   \* [Row -> case_id]: the case_id column of the other tables
    trail,   \* [Case -> Seq(Event)]: the audit stream of each case
    tx,      \* the local state of each grouping transaction
    draft,   \* draft[t][c]: t's uncommitted version of case c, NoRow if none
    mine,    \* mine[t][r]: t's uncommitted case_id of row r, Untouched if none
    events,  \* events[t][c]: what t has appended to c's stream, not committed
    share    \* share[t]: the cases t holds FOR KEY SHARE (foreign keys)

tables == <<case, owner, trail>>
locks == <<draft, mine, events, share>>
vars == <<case, owner, trail, tx, draft, mine, events, share>>

-----------------------------------------------------------------------------
(* What a transaction sees and may lock. *)

SeenOwner(t, r) == IF mine[t][r] = Untouched THEN owner[r] ELSE mine[t][r]
SeenCase(t, c) == IF draft[t][c].status = "None" THEN case[c] ELSE draft[t][c]

Exists(c) == case[c].status # "None"

Others(t) == Tx \ {t}
RowFree(t, r) == \A u \in Others(t) : mine[u][r] = Untouched
CaseFree(t, c) == \A u \in Others(t) : draft[u][c].status = "None"
StreamFree(t, c) == \A u \in Others(t) : events[u][c] = <<>>

AlertOf(s) == tx[s].alert

\* Mutant: the sum without its cap.
UncappedSum(A) == MapThenSumSet(LAMBDA a : Score[a], A)

\* _aggregate_risk with the configured risk_aggregation, max.
AggregateRisk(A) == IF A = {} THEN 0 ELSE Max({Score[a] : a \in A})

-----------------------------------------------------------------------------
(* The engine, as persistence uses it: the connected component of a. *)

Candidates(t, a) ==
    {b \in Alerts \ {a} : {a, b} \in SharesKey /\ SeenOwner(t, <<"alert", b>>) \in Case}

Component(a, candidates) ==
    {b \in candidates : \A S \in SUBSET (candidates \cup {a}) :
        (a \in S /\ \A x \in S, y \in candidates : {x, y} \in Similar => y \in S) => b \in S}

-----------------------------------------------------------------------------
(* Initial state: Seeded cases, each created for one alert by a committed  *)
(* transaction, as ingestion of unrelated alerts (or of related ones at    *)
(* the same time) leaves them.                                             *)

Idle == [pc |-> "idle", alert |-> NoAlert, matched |-> {}, read |-> [c \in Case |-> NoRow],
         flags |-> {}, losers |-> {}, loser |-> NoCase, target |-> NoCase,
         count |-> 0, risk |-> 0]

NewCase(a) == [NoRow EXCEPT !.status = "Open", !.version = 1, !.risk = Score[a]]

Linked == [action |-> "case.alert_linked", before |-> "None", after |-> "None"]

NothingDrafted == [c \in Case |-> NoRow]
NothingMine == [r \in Row |-> Untouched]
NoEvents == [c \in Case |-> <<>>]

Init ==
    /\ case = [c \in Case |-> IF c \in Seeded THEN [NewCase(SeedAlert[c]) EXCEPT !.count = 1]
                                              ELSE NoRow]
    /\ owner = [r \in Row |->
         CASE r[1] = "alert" -> IF \E s \in Seeded : SeedAlert[s] = r[2]
                                THEN CHOOSE s \in Seeded : SeedAlert[s] = r[2] ELSE Absent
           [] r[1] = "note"  -> Absent
           [] OTHER          -> IF r[2] \in Seeded THEN r[2] ELSE Absent]
    /\ trail = [c \in Case |-> IF c \in Seeded THEN <<Linked>> ELSE <<>>]
    /\ tx = [t \in Tx |-> IF t \in Seeded
                          THEN [Idle EXCEPT !.pc = "done", !.alert = SeedAlert[t]] ELSE Idle]
    /\ draft = [t \in Tx |-> NothingDrafted]
    /\ mine = [t \in Tx |-> NothingMine]
    /\ events = [t \in Tx |-> NoEvents]
    /\ share = [t \in Tx |-> {}]

-----------------------------------------------------------------------------
(* Ingestion up to the grouping call. *)

Active(t) == tx[t].pc \notin {"idle", "done", "aborted"}

\* t is the next transaction to start.
Starts(t) ==
    /\ tx[t].pc = "idle"
    /\ \A u \in Tx : u < t => tx[u].pc # "idle"
    /\ Cardinality({u \in Tx : Active(u)}) < Concurrency

\* ingest_one: INSERT the alert in the transaction that groups it.  A second
\* insert of the same natural key waits here; once the first commits it finds
\* the row and returns it, which changes nothing.
BeginIngest(t, a) ==
    /\ Starts(t)
    /\ owner[<<"alert", a>>] = Absent
    /\ RowFree(t, <<"alert", a>>)
    /\ tx' = [tx EXCEPT ![t].pc = "match", ![t].alert = a]
    /\ mine' = [mine EXCEPT ![t][<<"alert", a>>] = NoCase]
    /\ UNCHANGED <<tables, draft, events, share>>

\* persist_alert_only and the batch commit: the alert is stored, not grouped.
PersistAlertOnly(a) ==
    /\ owner[<<"alert", a>>] = Absent
    /\ \A u \in Tx : mine[u][<<"alert", a>>] = Untouched
    /\ owner' = [owner EXCEPT ![<<"alert", a>>] = NoCase]
    /\ UNCHANGED <<case, trail, tx, locks>>

\* group_alerts_job reads the alert, unlocked, and skips it when it has a case.
\* A job may run twice, or two jobs may hold the same alert.
BeginJob(t, a) ==
    /\ Starts(t)
    /\ owner[<<"alert", a>>] = NoCase
    /\ tx' = [tx EXCEPT ![t].pc = "match", ![t].alert = a]
    /\ UNCHANGED <<tables, locks>>

-----------------------------------------------------------------------------
(* apply_grouping_for_alert. *)

\* The candidate query and the engine: which cases the alert's component is in.
MatchCandidates(t) ==
    /\ tx[t].pc = "match"
    /\ LET a == AlertOf(t)
           component == Component(a, Candidates(t, a))
       IN  tx' = [tx EXCEPT ![t].pc = "read",
                            ![t].matched = {SeenOwner(t, <<"alert", b>>) : b \in component}]
    /\ UNCHANGED <<tables, locks>>

\* Mutant: the newest case survives.
NewestSurvives(open) == Max(open)

\* The earliest created_at, then the lowest id.
Survivor(open) == Min(open)

\* The matched cases are read by a statement of their own, without locking
\* them; everything below decides on this reading.
ReadCases(t) ==
    /\ tx[t].pc = "read"
    /\ LET matched == tx[t].matched
           closed == {c \in matched : case[c].status = "Closed"}
           open == {c \in matched : case[c].status \notin {"Merged", "Closed"}}
           target == IF open = {} THEN t ELSE Survivor(open)
       IN  tx' = [tx EXCEPT ![t].pc = "loop",
                            ![t].read = [c \in Case |-> IF c \in matched THEN case[c] ELSE NoRow],
                            ![t].flags = closed,
                            ![t].target = target,
                            ![t].losers = open \ {target}]
    /\ UNCHANGED <<tables, locks>>

\* record_audit: appends to the stream of c, whose tip stays locked to the end.
Record(t, c, action, before, after) ==
    /\ StreamFree(t, c)
    /\ events' = [events EXCEPT ![t][c] =
                    Append(@, [action |-> action, before |-> before, after |-> after])]

FlagClosed(t, c) ==
    /\ tx[t].pc = "loop" /\ c \in tx[t].flags
    /\ Record(t, c, "case.review_flagged", "None", "None")
    /\ tx' = [tx EXCEPT ![t].flags = @ \ {c}]
    /\ UNCHANGED <<tables, draft, mine, share>>

\* Mutant: the links are forgotten.
NextTableNoLinks == [alert |-> "note", link |-> "note", note |-> "decision", decision |-> "merge"]

\* Mutant: the decisions are forgotten.
NextTableNoDecisions == [alert |-> "link", link |-> "note", note |-> "merge", decision |-> "merge"]

\* The order of the four statements of the merge loop.
NextTable == [alert |-> "link", link |-> "note", note |-> "decision", decision |-> "merge"]

\* One of the four statements UPDATE <table> SET case_id = survivor WHERE
\* case_id = loser: it moves the rows it can see, once none is locked by another.
\* The foreign key of a moved row locks the survivor FOR KEY SHARE.
MoveRows(t, table, loser) ==
    LET rows == {r \in Row : r[1] = table /\ SeenOwner(t, r) = loser}
        survivor == tx[t].target
    IN  /\ IF table = "alert"
           THEN tx[t].pc = "loop" /\ tx[t].flags = {} /\ loser \in tx[t].losers
           ELSE tx[t].pc = table /\ loser = tx[t].loser
        /\ \A r \in rows : RowFree(t, r)
        /\ mine' = [mine EXCEPT ![t] = [r \in Row |-> IF r \in rows THEN survivor ELSE @[r]]]
        /\ share' = [share EXCEPT ![t] = IF rows = {} THEN @ ELSE @ \cup {survivor}]
        /\ tx' = [tx EXCEPT ![t].pc = NextTable[table], ![t].loser = loser]
        /\ UNCHANGED <<tables, draft, events>>

\* Mutant: the status is never set on the loser.
MergedRowUnset(row, survivor) == row

MergedRow(row, survivor) == [row EXCEPT !.status = "Merged", !.canonical = survivor]

\* The loser's status and pointer, and its case.merged event, which quotes the
\* status that was read.  The UPDATE is flushed by the audit write's first query.
MergeLoser(t) ==
    LET l == tx[t].loser
        survivor == tx[t].target
    IN  /\ tx[t].pc = "merge"
        /\ CaseFree(t, l)
        /\ draft' = [draft EXCEPT ![t][l] = MergedRow(SeenCase(t, l), survivor)]
        /\ Record(t, l, "case.merged", tx[t].read[l].status, "Merged")
        /\ share' = [share EXCEPT ![t] = @ \cup {survivor}]
        /\ tx' = [tx EXCEPT ![t].pc = "loop", ![t].losers = @ \ {l}, ![t].loser = NoCase]
        /\ UNCHANGED <<tables, mine>>

\* Mutant: alert_id is not unique.
LinkNotUnique(a) == TRUE

\* UNIQUE (alert_id) of case_alert_links.
LinkUnique(a) == \A s \in Tx : AlertOf(s) = a => owner[<<"link", s>>] = Absent

\* The alert's case_id, the decision and the link (UNIQUE (alert_id): a second
\* link of the alert is refused and the transaction can only roll back), the new
\* case first when nothing open matched, then the two SELECTs that recompute the
\* aggregates: they count what is committed now and t's own rows.
AttachAlert(t) ==
    LET a == AlertOf(t)
        c == tx[t].target
        seen(r) == IF r \in {<<"alert", a>>, <<"decision", t>>, <<"link", t>>}
                   THEN c ELSE SeenOwner(t, r)
    IN  /\ tx[t].pc = "loop" /\ tx[t].flags = {} /\ tx[t].losers = {}
        /\ RowFree(t, <<"alert", a>>)
        /\ LinkUnique(a)
        /\ mine' = [mine EXCEPT ![t][<<"alert", a>>] = c, ![t][<<"decision", t>>] = c,
                                ![t][<<"link", t>>] = c]
        /\ draft' = IF c = t THEN [draft EXCEPT ![t][c] = NewCase(a)] ELSE draft
        /\ share' = [share EXCEPT ![t] = @ \cup {c}]
        /\ tx' = [tx EXCEPT ![t].pc = "finish",
                    ![t].count = Cardinality({s \in Tx : seen(<<"link", s>>) = c}),
                    ![t].risk = AggregateRisk({b \in Alerts : seen(<<"alert", b>>) = c})]
        /\ UNCHANGED <<tables, events>>

\* What the target held when it was read (or as it was created).
TargetAsRead(t) ==
    IF tx[t].target = t THEN NewCase(AlertOf(t)) ELSE tx[t].read[tx[t].target]

\* Mutant: the whole row is written, as it was read.
RecomputedWholeRow(t, row) ==
    [TargetAsRead(t) EXCEPT !.version = IF tx[t].target = t THEN @ ELSE @ + 1,
                            !.count = tx[t].count, !.risk = tx[t].risk]

\* Mutant: the count is incremented, not recomputed.
RecomputedByOne(t, row) ==
    [row EXCEPT !.version = IF tx[t].target = t THEN @ ELSE @ + 1,
                !.count = @ + 1, !.risk = tx[t].risk]

\* The columns the ORM writes to the target: version is the value that was read
\* plus one; an aggregate equal to the value read is not written at all.
Recomputed(t, row) ==
    LET read == TargetAsRead(t)
    IN  [row EXCEPT !.version = IF tx[t].target = t THEN @ ELSE read.version + 1,
                    !.count = IF tx[t].count = read.count THEN @ ELSE tx[t].count,
                    !.risk = IF tx[t].risk = read.risk THEN @ ELSE tx[t].risk]

\* The last flush (the target's row), its case.alert_linked event and the COMMIT
\* of the route or the worker: everything t wrote becomes visible at once.
FinishGrouping(t) ==
    LET c == tx[t].target
        written == [draft[t] EXCEPT ![c] = Recomputed(t, SeenCase(t, c))]
        log == [events[t] EXCEPT ![c] = Append(@, Linked)]
    IN  /\ tx[t].pc = "finish"
        /\ CaseFree(t, c)
        /\ StreamFree(t, c)
        /\ case' = [d \in Case |-> IF written[d].status = "None" THEN case[d] ELSE written[d]]
        /\ owner' = [r \in Row |-> SeenOwner(t, r)]
        /\ trail' = [d \in Case |-> trail[d] \o log[d]]
        /\ tx' = [tx EXCEPT ![t] = [Idle EXCEPT !.pc = "done", !.alert = AlertOf(t)]]
        /\ draft' = [draft EXCEPT ![t] = NothingDrafted]
        /\ mine' = [mine EXCEPT ![t] = NothingMine]
        /\ events' = [events EXCEPT ![t] = NoEvents]
        /\ share' = [share EXCEPT ![t] = {}]

\* An exception, a deadlock victim, a lost connection or a crash: PostgreSQL
\* discards everything.  The alert of a job stays stored without a case.
Rollback(t) ==
    /\ Active(t)
    /\ tx' = [tx EXCEPT ![t] = [Idle EXCEPT !.pc = "aborted"]]
    /\ draft' = [draft EXCEPT ![t] = NothingDrafted]
    /\ mine' = [mine EXCEPT ![t] = NothingMine]
    /\ events' = [events EXCEPT ![t] = NoEvents]
    /\ share' = [share EXCEPT ![t] = {}]
    /\ UNCHANGED tables

-----------------------------------------------------------------------------
(* The analysts.  Each is a transaction that has locked the row FOR UPDATE. *)

LockForUpdate(c) ==
    /\ Exists(c)
    /\ \A t \in Tx : draft[t][c].status = "None" /\ c \notin share[t] /\ events[t][c] = <<>>

RecordNow(c, action, before, after) ==
    trail' = [trail EXCEPT ![c] =
                Append(@, [action |-> action, before |-> before, after |-> after])]

ALLOWED == [s \in Status |-> CASE s = "Open"         -> {"In Progress"}
                               [] s = "In Progress"  -> {"Pending Info", "Closed"}
                               [] s = "Pending Info" -> {"In Progress"}
                               [] s = "Closed"       -> {"In Progress"}
                               [] s = "Merged"       -> {}]

\* Mutant: a re-open keeps the disposition of the close.
DispositionKept(row, target, disposition) ==
    IF target = "Closed" THEN disposition ELSE row.disposition

\* Set by a close, cleared by a re-open.
DispositionAfter(row, target, disposition) ==
    IF target = "Closed" THEN disposition
    ELSE IF row.status = "Closed" THEN NoDisposition ELSE row.disposition

\* Mutant: the event is built before the row changes.
TransitionEventEarly(c, target) ==
    RecordNow(c, "case.transitioned", case[c].status, case[c].status)

TransitionEvent(c, target) == RecordNow(c, "case.transitioned", case[c].status, target)

\* transition_case.  If-Match, when it is sent, is the version of the row: any
\* other value is a 409.  The reason a re-open must have is not kept in the row.
TransitionCase(c, target, disposition) ==
    /\ LockForUpdate(c)
    /\ case[c].version < MaxVersion
    /\ target \in ALLOWED[case[c].status]
    /\ target = "Closed" <=> disposition # NoDisposition
    /\ case' = [case EXCEPT ![c].status = target, ![c].version = @ + 1,
                            ![c].disposition =
                                DispositionAfter(case[c], target, disposition)]
    /\ TransitionEvent(c, target)
    /\ UNCHANGED <<owner, tx, locks>>

\* assign_case: assignee is an active user, or null to unassign.
AssignCase(c, assignee) ==
    /\ LockForUpdate(c)
    /\ case[c].version < MaxVersion
    /\ case[c].status # "Merged"
    /\ case' = [case EXCEPT ![c].assignee = assignee, ![c].version = @ + 1]
    /\ RecordNow(c, "case.assigned", "None", "None")
    /\ UNCHANGED <<owner, tx, locks>>

\* add_note: the row is locked and read, not written.
AddNote(c, n) ==
    /\ LockForUpdate(c)
    /\ case[c].status # "Merged"
    /\ owner[<<"note", n>>] = Absent
    /\ owner' = [owner EXCEPT ![<<"note", n>>] = c]
    /\ RecordNow(c, "case.note_added", "None", "None")
    /\ UNCHANGED <<case, tx, locks>>

-----------------------------------------------------------------------------
Grouping(t) ==
    \/ \E a \in Alerts : BeginIngest(t, a) \/ BeginJob(t, a)
    \/ MatchCandidates(t)
    \/ ReadCases(t)
    \/ \E c \in Case : FlagClosed(t, c)
    \/ \E table \in Tables, c \in Case : MoveRows(t, table, c)
    \/ MergeLoser(t)
    \/ AttachAlert(t)
    \/ FinishGrouping(t)
    \/ Rollback(t)

Analyst(c) ==
    \/ \E s \in Status, d \in Dispositions \cup {NoDisposition} : TransitionCase(c, s, d)
    \/ \E u \in Users \cup {NoUser} : AssignCase(c, u)
    \/ \E n \in Notes : AddNote(c, n)

Next ==
    \/ \E t \in Tx : Grouping(t)
    \/ \E a \in Alerts : PersistAlertOnly(a)
    \/ \E c \in Case : Analyst(c)

Spec == Init /\ [][Next]_vars

-----------------------------------------------------------------------------
(* Properties.  The first group holds of every interleaving. *)

\* Every variable keeps its type: rows, streams, local states and locks.
TypeOK ==
    /\ case \in [Case -> CaseRow]
    /\ owner \in [Row -> Case \cup {NoCase, Absent}]
    /\ trail \in [Case -> Seq(Event)]
    /\ tx \in [Tx -> TxRow]
    /\ draft \in [Tx -> [Case -> CaseRow]]
    /\ mine \in [Tx -> [Row -> Case \cup {NoCase, Untouched}]]
    /\ events \in [Tx -> [Case -> Seq(Event)]]
    /\ share \in [Tx -> SUBSET Case]

\* A case is Merged exactly when canonical_from_case_id is set, and the pointer
\* leads to an existing case that is older in the survivor order: however merges
\* overlap, following the pointers never loops and ends at a case that is not
\* Merged (persistence.py picks the minimum of a reading that may be stale).
MergedPointsOlder ==
    \A c \in Case :
        /\ case[c].status = "Merged" <=> case[c].canonical # NoCase
        /\ case[c].canonical # NoCase =>
               case[c].canonical < c /\ Exists(case[c].canonical)

\* Whatever retries, duplicate jobs and rollbacks do, an alert has one decision and
\* one link once it has a case, and neither before: the worker's unlocked check of
\* case_id does not ensure it, the unique link inside the same transaction does.
OneDecisionPerAlert ==
    \A a \in Alerts :
        LET of(table) == {s \in Tx : AlertOf(s) = a /\ owner[<<table, s>>] \in Case}
        IN  /\ of("decision") = of("link")
            /\ Cardinality(of("link")) = IF owner[<<"alert", a>>] \in Case THEN 1 ELSE 0

\* A case that is not Merged is never left empty: rows leave a case only in the
\* transaction that marks it Merged.
LiveCaseHasAlerts ==
    \A c \in Case : case[c].status \notin {"None", "Merged"} =>
        \E s \in Tx : owner[<<"link", s>>] = c

\* disposition and closed_at are set while a case is Closed and cleared by the
\* re-open, in spite of grouping transactions writing the same row.
DispositionMatchesStatus ==
    \A c \in Case :
        /\ case[c].status = "Closed" => case[c].disposition # NoDisposition
        /\ case[c].disposition # NoDisposition => case[c].status \in {"Closed", "Merged"}

\* The last event of the log that carries a status carries this one.
EndsWith(log, status) ==
    \E i \in DOMAIN log :
        log[i].after = status /\ \A j \in DOMAIN log : j > i => log[j].after = "None"

\* Replaying the audit stream of a case gives its status: the last event that
\* carries a status carries the present one.
TrailEndsWithStatus ==
    \A c \in Case :
        case[c].status \notin {"None", "Open"} => EndsWith(trail[c], case[c].status)

\* Merged is terminal: no later step, a stale grouping write included, changes it.
MergedIsTerminal ==
    [][\A c \in Case : case[c].status = "Merged" => case'[c].status = "Merged"]_vars

\* Alerts, links, decisions and notes only ever move to an older case, so overlapping
\* merges cannot pass rows back and forth.
RowsMoveToOlderCase ==
    [][\A r \in Row : owner[r] \in Case => owner'[r] \in Case /\ owner'[r] <= owner[r]]_vars

-----------------------------------------------------------------------------
(* The second group holds while grouping transactions run one at a time (and, *)
(* for the last two, while no analyst's commit falls inside one): the code's   *)
(* comments state it without that condition.                                   *)

\* alert_count and risk_score are what the links and alerts of the case say
\* (models/case.py: "denormalised aggregates recomputed by ...").
AggregatesAgree ==
    \A c \in Case : case[c].status \notin {"None", "Merged"} =>
        /\ case[c].count = Cardinality({s \in Tx : owner[<<"link", s>>] = c})
        /\ case[c].risk = AggregateRisk({a \in Alerts : owner[<<"alert", a>>] = c})

\* An alert, its link and its decision are in the same case ("an alert belongs to
\* exactly one case").
AlertIsWhereItsLinkIs ==
    \A s \in Tx : owner[<<"link", s>>] \in Case =>
        /\ owner[<<"alert", AlertOf(s)>>] = owner[<<"link", s>>]
        /\ owner[<<"decision", s>>] = owner[<<"link", s>>]

\* A merge leaves no alert, link or decision on the loser (persistence.py: "a merge
\* preserves *all* of the non-survivor's history").
AlertsFollowMerge ==
    \A r \in Row : r[1] # "note" /\ owner[r] \in Case => case[owner[r]].status # "Merged"

\* A merge leaves no note on the loser (the same comment).
NotesFollowMerge ==
    \A r \in Row : r[1] = "note" /\ owner[r] \in Case => case[owner[r]].status # "Merged"

\* A closed case is never merged (persistence.py: "closed case(s) matched -- never
\* merged").
ClosedIsNeverMerged ==
    [][\A c \in Case : case[c].status = "Closed" => case'[c].status # "Merged"]_vars

=============================================================================
