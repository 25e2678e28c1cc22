# A formal model of the alert case management system

The backend receives fraud and AML alerts, groups them into canonical cases, lets
analysts work those cases, and keeps a hash-chained audit trail of everything. This
directory holds TLA+ modules translated from its source (paths below are relative to
`src/`), TLC configurations that check them on small instances, and theorems that
TLAPS proves for every value of the constants.

    tlc -config CaseGrouping_merges.cfg MCCaseGrouping     one run
    tlapm CaseGroupingProofs.tla                           the proofs of a module

## 1. The system

| Component | State | Operations | Talks to |
|---|---|---|---|
| Ingestion (`backend/app/ingestion`) | table `alerts`; idempotency entries in Redis | `POST /alerts` inserts one alert, groups it and commits; `POST /alerts:batch` inserts many, commits in chunks, enqueues one grouping job | grouping (same transaction), worker (queue), audit, rate limiter |
| Worker (`backend/app/worker.py`) | the ARQ queue in Redis | `group_alerts_job`: one transaction per alert, skipping those that have a case | grouping |
| Grouping engine (`backend/app/grouping/{blocking,scoring,engine}.py`) | none (pure) | candidate pairs by blocking key, edges by rule or similarity, connected components, one decision per alert | called by grouping persistence |
| Grouping persistence (`backend/app/grouping/persistence.py`) | tables `cases`, `case_alert_links`, `grouping_decisions`, and `case_id` of `alerts` and `notes` | create a case, attach to one, or merge several into the oldest; recompute the aggregates | engine, audit; runs in the caller's transaction |
| Case lifecycle (`backend/app/cases`) | `cases`, `notes` | transition, assign, add note, retract note, search, detail | audit |
| Audit log (`backend/app/audit`) | `audit_streams` (the tip of each chain), `audit_events` | append inside the caller's transaction; verify all streams; export one case | everything writes to it |
| Rate limiter (`backend/app/ratelimit.py`) | counters in Redis | count a hit, refuse above the limit | login, refresh, ingestion |
| Authentication (`backend/app/auth`) | `users`, `user_roles`, `api_keys` | login, refresh, per-request principal and roles | every route |
| Browser (`frontend/src`) | the access token in memory, the refresh token in storage, cached cases | login, refresh, logout, case actions | the API |
| Operations, metrics, scripts, migrations | counters | probes, seed, benchmark | - |

Components interact through one PostgreSQL database at READ COMMITTED (one session and
one transaction per request or job; `db.py` sets no other isolation level), through
Redis, and through the queue. There is no other shared state between processes.

What is hard in it is what READ COMMITTED does to a transaction of twenty statements:

* grouping reads candidates and cases without locking them and acts on what it read,
  while other grouping transactions and analysts change the same cases;
* a merge moves rows by four statements, each of which sees a different moment;
* the worker may hold the same alert twice, and any transaction may fail anywhere;
* audit tips are locked to the end of the transaction, verification reads while they move;
* Redis may be gone, and a job or an idempotency entry with it.

What makes each component correct:

* *grouping*: every grouped alert has one decision, one link and one case; merge pointers
  end at a live case; nothing is left on a merged case; the aggregates are what the rows
  say; closed cases stay out of it;
* *lifecycle*: only allowed transitions; disposition and closing date agree with the
  status; Merged is terminal; no change without an audit event; no lost update;
* *audit*: a chain verifies unless it was damaged, and damage is reported;
* *ingestion and worker*: one row per natural identity, retries are harmless, every
  stored alert is grouped in the end;
* *engine*: the decision does not depend on the order of its input and the groups are the
  components of the kept edges;
* *rate limiter, session, search*: a window ends; a logged-out session stays logged out;
  a listing neither skips nor repeats.

`PROJECT.json` lists every component with its status, and under `hazards` each place
where one of these could go wrong, with the property that would show it.

## 2. The modules

| Module | Models | Checked by | Proved in |
|---|---|---|---|
| `CaseGrouping` | `grouping/persistence.py`, with `cases/service.py`, `ingestion/service.py` and `worker.py` as far as they touch the same rows | `MCCaseGrouping` | `CaseGroupingProofs` |
| `Ingestion` | `ingestion/{routes,service,idempotency}.py`, `worker.py` and its queue | `MCIngestion` | `IngestionProofs` |
| `AuditChain` | `audit/service.py`, `audit/routes.py`, `audit/export.py` | `MCAuditChain` | `AuditChainProofs` |
| `GroupingEngine` | `grouping/{blocking,scoring,engine}.py`, and the run of the engine for one alert after another in `worker.py` and `grouping/persistence.py` | `MCGroupingEngine` | `GroupingEngineProofs` |
| `CasePartition` | abstract: what grouping promises of the cases, implemented by `GroupingEngine` | `MCGroupingEngine` | `GroupingEngineProofs` |
| `CaseDesk` | `cases/service.py`, `cases/routes.py`: the analysts' requests with their locks | `MCCaseDesk` | `CaseDeskProofs` |
| `CaseStore` | abstract: the case tables as a store with one-step operations, implemented by `CaseDesk` | `MCCaseDesk`, `MCCaseReads` | `CaseDeskProofs` |
| `CaseReads` | `cases/search.py`, `get_case_detail`: the readers, over `CaseStore` | `MCCaseReads` | `CaseReadsProofs` |
| `RateLimit` | `ratelimit.py`: one bucket | `MCSession` | - |
| `Session` | `frontend/src/auth/AuthContext.tsx`, `frontend/src/api/client.ts`, `auth/{routes,deps}.py`, behind `RateLimit` | `MCSession` | `SessionProofs` |
| `DataTheorems` | nothing: facts about numbers, finite sets and sequences that several proofs need | - | itself |

The same code may be in two modules at two grains. `CaseGrouping` has every statement of a
grouping transaction and one step for an analyst's request; `CaseDesk` has the request's
statements and three steps for a grouping transaction; `CaseStore` has one step for each;
`GroupingEngine` runs grouping transactions one at a time and opens up the engine.

### CaseGrouping

`case`, `owner` and `trail` are the committed tables: the rows of `cases`, the `case_id`
of every alert, link, decision and note, and the audit stream of each case. For each
grouping transaction `t`, `tx[t]` is the Python frame (where it is, which cases it
matched, the rows it read), `draft[t]`, `mine[t]` and `events[t]` are what it has written
and not committed, which are also the rows it has locked, and `share[t]` are the case
rows its foreign keys hold FOR KEY SHARE.

| Code | Action |
|---|---|
| `ingest_one`: INSERT the alert | `BeginIngest` |
| `persist_alert_only` and the batch commit | `PersistAlertOnly` |
| `group_alerts_job`: read the alert, skip if it has a case | `BeginJob` |
| candidate query and engine | `MatchCandidates` |
| `SELECT Case WHERE id IN ...`, split into closed and open, choose the survivor | `ReadCases` |
| `case.review_flagged` on each closed case | `FlagClosed` |
| the four UPDATEs of the merge loop, in order | `MoveRows(alert, link, note, decision)` |
| loser's status and pointer, `case.merged` | `MergeLoser` |
| new case, alert's `case_id`, decision, link, the two SELECTs of the aggregates | `AttachAlert` |
| last flush, `case.alert_linked`, COMMIT | `FinishGrouping` |
| any exception, deadlock victim, crash | `Rollback` |
| `transition_case`, `assign_case`, `add_note` and their commit | `TransitionCase`, `AssignCase`, `AddNote` |

A transaction that must wait for a lock has a false guard until the holder ends. The
ORM's part is modelled where it matters: only changed columns are written, `version` is
written as the value read plus one, an aggregate equal to the value read is not written,
and an object stays in the session as it was first loaded.

Abstractions, each of which keeps or widens what the code can do unless it says otherwise:

* Which alerts share a blocking key (inside the window) and which pairs the engine joins
  are constants; the engine's result is the closure of that relation. The limit of the
  candidate query (500) is not reached.
* Only the configured `risk_aggregation: max` is modelled.
* Cases, links and decisions are named by the transaction that creates them, and
  transactions are numbered by their start, which is what `created_at` records.
* An analyst's transaction holds its case FOR UPDATE from its first statement to its
  commit and touches no other case, so it is one step. If-Match is a guard that any
  client may satisfy, as the version it would send is not constrained.
* The last flush and the commit are one step, as are the insert of the link and the two
  SELECTs after it: between them the transaction only waits.
* An UPDATE that has waited for a lock acts on the rows as they are then. PostgreSQL
  re-evaluates the rows it had found and misses rows that arrived meanwhile. The
  transaction it waited for, a merge, only moves rows away from the case; a row that
  arrived is of a third transaction, whose commit may as well come after the statement.
* The stream `alert:<id>` of an ingestion belongs to that alert alone and is left out.
* `retract_note` changes no column the properties speak of; it is in `CaseDesk`, with
  If-Match and the views it compares.

### Ingestion

`row` and `cased` are table `alerts` (the stored body of each natural identity, and which
have a `case_id`), `cache` the idempotency entries in Redis. `req[r]` is a call of
`POST /alerts` with its answer; `batch[b]` a call of `POST /alerts:batch`, with the rows its
open transaction holds (`pending`) and the ids it has created (`fresh`); `job[b]` the job of
that batch, in the queue or in a worker at its next id. `dropped` is a history variable:
the alerts that a failure took out of the queue's care.

| Code | Action |
|---|---|
| a call arrives; `compute_key`, `request_fingerprint` | `Arrive` |
| `idempotency.check`: entry found (replay, or 409 for another body), none | `Replay`, `Miss` |
| SAVEPOINT and INSERT; unique violation and SELECT | `InsertAlert`, `FindExisting` |
| `apply_grouping_for_alert`, audit, COMMIT | `GroupAndCommit` |
| `idempotency.store`, 201 | `StoreEntry` |
| `except RedisError` in `check` and `store` | `RedisUnavailable` |
| any other exception or crash of the request | `FailRequest` |
| TTL of an entry | `ExpireEntry` |
| `persist_alert_only` for the next item, created or not | `PersistItem`, `SkipDuplicate` |
| commit at a full chunk, and the last one | `CommitChunk` |
| `enqueue_job`; `except (RedisError, OSError)` | `EnqueueJob`, `EnqueueFails` |
| an exception in the batch; a deadlock victim | `FailBatch`, `BreakDeadlock` |
| the worker takes a job; gives one up after `max_tries` | `TakeJob`, `GiveUpJob` |
| one turn of the loop in `group_alerts_job`; its `except Exception`; its end | `GroupAlert`, `GroupAlertFails`, `FinishJob` |
| a worker stops in a job; ARQ's `job_timeout` | `StopWorker`, `TimeOutJob` |
| Redis restarts without its data | `RestartRedis` |

An INSERT of an identity that another open transaction has inserted waits (`UniqueFree`
is false), then inserts or finds the row, as the other ended.

Abstractions:

* Grouping one alert is one step, which `CaseGrouping` opens up.
* An idempotency entry is the item that was created: it stands for the response and the
  fingerprint, both functions of it. What `compute_key` does is kept: the natural key is a
  function of the alert that need not be injective, as it joins two free strings by a
  colon.
* The items of a batch are the valid ones; the size limit, the rate limit and validation
  change no state here. `_BATCH_COMMIT_CHUNK` is `ChunkSize`. After a full last chunk the
  code commits a second time, with nothing to commit; that is the same step.
* ARQ is not in the repository. Modelled is what `worker.py` relies on: a job stays in
  Redis until it has finished; when its worker is cancelled or dies it is run again, from
  its first id, up to `max_tries`; a timeout fails it for good.

What the code leaves to an operator stays visible: an alert in `dropped` without a case has
no job, and sending its batch again finds a duplicate and enqueues nothing for it (the
docstring at `ingestion/routes.py:177` says how to enqueue it by hand).

### AuditChain

`tip` and `log` are the tables `audit_streams` and `audit_events`; `newTip[w]` and
`newLog[w]` what the transaction of writer `w` has locked and inserted. `record_audit` is
three steps, as it is three round trips: `EnsureStream` (INSERT ON CONFLICT DO NOTHING),
`LockTip` (SELECT FOR UPDATE) and `AppendEvent` (the flush). A transaction may append
several events, in one stream or in several, before `Commit` or `Rollback`.
`ExportEvents` and `ExportAnchor` are the two reads of `build_case_audit_bundle`, after
which the export appends its own event. `VerifyTips`, `VerifyEvents` (once per stream)
and `VerifyOrphans` are the statements of `verify_audit`.

Verification is of use only when rows change behind the application's back, so the module
has an environment that is not the code's: `EditEvent`, `LoseEvents` and `ChangeTip`
change the rows of a stream in `Fragile`, each stream at most once. `damaged` remembers
which. The application itself never updates or deletes an event.

The hash of an event is the sequence of all (seq, content) pairs it chains, an injective
stand-in for SHA-256; the hashed fields other than `seq` and `prev_hash` are one value,
`body`. The stream is not part of the modelled hash: nothing moves rows between streams.

### GroupingEngine and CasePartition

`data` is what the alerts hold; `case`, `status`, `born` and `decision` are the columns of
`alerts`, `cases` and `grouping_decisions` the engine's result ends up in. The other
variables are the frame of one run: its `batch` (the alert and its candidates), the `kept`
pairs, the union-find forest `parent`, the edges `todo`, and the `find` in hand (`who` it
is for, how far it has climbed, `root`, and which node it compresses, `node`).

| Code | Definition |
|---|---|
| `_BLOCKING_FIELDS`, widest window, `ORDER BY event_time DESC LIMIT` of the candidate query | `ReachTable`, `Near`, `NewestNear` |
| `blocking_key_values`, `candidate_pairs` and its cap at both ends | `ShareBlock`, `Counterparts`, `Allowed`, `CandidatePairs` |
| `deterministic_match`, the six features, `weighted_score` | `DeterministicMatch`, `Contributions`, `WeightedScore` |
| `_edge_sort_key`, the decision of an alert | `Stronger`, `Decision` |
| candidate query, edges, `Keep` | `StartRun` |
| the two loops of `_UnionFind.find`; `union` | `Climb`, `Compress`; `FoundLow`, `FoundHigh` with `Unite` |
| `group_key` of every alert | `FoundKey` |
| create, attach or merge, and the persisted decision | `ApplyGrouping` |
| an analyst closes or re-opens a case | `Lifecycle` |

A verdict on a pair depends on the two payloads only, so it is tabulated once
(`VerdictTable`). `WeightedScore` is the explicit sum over the six `Features`, in proportion
to the sum of the weights. `ScoringAssumption` names what makes a verdict a number and what
the configuration's validation and the column types give: finitely many rules with natural
windows, natural weights that are not all zero, integer times, amounts and table entries.
Alerts are numbers, ordered as the code orders ids; a case has the name
of the alert it was created for. Scores, weights and the threshold are whole percents, the
decay in time and the similarity of names are tables: no property is about their decimals.

`CasePartition` has two variables, the matching pairs (`evidence`) and the cases as sets of
alerts (`classes`), and one action: an alert joins some cases to which evidence among the
grouped alerts connects it, and they become one. The refinement mapping is `Evidence` and
`Classes`; a step of the union-find is a stutter.

### CaseStore and CaseDesk

In both, `row`, `note` and `trail` are table `cases` (with the oldest event time of each
case's alerts), table `notes` and the audit streams since the start. `CaseStore` has an
operation per step: `Transition`, `Assign`, `AddNote`, `Retract`, and for grouping `Create`,
`Attach` and `Merge`. Each event quotes the very row its operation changes.

`CaseDesk` has the requests as they are. `req[r]` is one request: what it asks, the row its
page showed (`view`), the row its locking SELECT returned (`read`) and the note it loaded.
`plan` is a grouping transaction, with the rows it read without a lock. `rewound` and
`overlap` are history variables that the properties need to say when they hold.

| Code | Action |
|---|---|
| a client sends a request from a page it has loaded | `Send` |
| `SELECT ... FOR UPDATE`, then If-Match, the allowed transitions, the disposition, the reason, the assignee | `LockCase` (`Refused` has the checks) |
| the row, the note and the event, COMMIT | `CommitCase` |
| `session.get(Note)` of `retract_note`, without a lock; 404 | `LoadNote` |
| its locking SELECT, which returns the loaded object; 403; already retracted | `LockNote` |
| the flag and the event | `CommitRetraction` |
| an exception or a crash | `Rollback`, `RollbackGrouping` |
| the grouping transaction: reads, UPDATE of the notes, rows and commit | `ReadCases`, `MoveNotes`, `CommitGrouping` |

`LockNote` is modelled by what the ORM does: the object is in the session's identity map,
so the locking SELECT hands it back as it was first loaded and what another transaction
committed meanwhile is not seen.

The version a grouping transaction writes is the one it read plus one, which may repeat a
version an analyst has had: `CaseStore!Attach` and `Merge` admit that, and
`AcceptedIsFresh` excludes the cases it has happened to. Likewise `Retract` admits the
stream of a case the note was merged from.

### CaseReads

`CaseReads` extends `CaseStore` with one reader: a walk through the pages of the list, the
two statements of `case_stats`, or the four of `get_case_detail`. Any operation of the
store may happen between two statements (`Change`); grouping transactions are serial here.

| Code | Definition |
|---|---|
| `_conditions`; `_order_by` (NULLs last), `_keyset` | `Found`; `Before`, `Keyset` |
| `_encode_cursor`, `_decode_cursor` and its 400 | `CursorAt`, `Decodes`, `InvalidCursor` |
| one page: `limit + 1` rows, the cursor of the last shown | `FetchPage`, with `Page`, `LastOf` |
| the client keeps a cursor and changes the order | `Resort` |
| `case_stats` | `CountAll`, `CountByStatus` |
| `get_case_detail`; the events of its timeline | `ReadDetail`; `EventsOf` |

A page is the set of the `limit` rows that come before the others; its order is the one of
`Before` and need not be stored. `Id` is the order of the UUIDs, which is not that of
creation; `ReadersAssumption` says that no two cases share one; `limit` may be any integer
and is clamped to 1..`MaxLimit` as in the code. `steady` (cases that have
stayed in the result and in their place) and `touched` (cases that have entered or left it)
are history variables of the properties.

### RateLimit and Session

`RateLimit` has the Redis key of one bucket and where each request is in `rate_limit`:
`Incr`, `Expire` and `Ttl` are its three calls, `Fault` a call that fails before or after it
has taken effect (the code lets the request through) or a process that dies there,
`WindowEnds` the key's expiry. `leaked` remembers that an EXPIRE was lost.

`Session` extends it with a browser: `stored` is the refresh token in localStorage, which
all tabs share; `tab[t]` what a tab's `AuthContext` has in memory; `promise[t]` its
`inFlightRefresh`; `ask[h]` a refresh or login on its way to the server, `call[c]` a request of
a page. `issued`, `expired` and `active` are the server's: whom each access token was minted
for, which are past their `exp`, and which users are active.

| Code | Action |
|---|---|
| `login` and its answers | `Login`, `LoginSucceeds`, `LoginFails` |
| `doRefresh`: answer, any error (its `catch` ends the session), 401 of an inactive user | `RefreshSucceeds`, `RefreshFails`, `RefreshRefused` |
| `logout`; a reload, whose effect tries the stored token | `Logout`; `Reload` (and `Init`) |
| `apiFetch`: request, answer, 401 | `Send`, `Serve`, `Fail` |
| `runRefresh`: join the promise, start one, nothing to refresh with | `JoinRefresh`, `StartRefresh`, `NothingToRefresh` |
| `get_current_principal`: 401, 403 | `Unauthorized`, `Serve` |
| an access token expires; a user is deactivated | `TokenExpires`, `Deactivate` |

A JavaScript function runs to its next `await` without interruption, so an action is what
happens between two. A refresh token is its user: it outlives every behaviour of interest.
The history variables are `quiet` (how many tokens there were when the last logout found
nothing under way) and `crossed` (a login has crossed this request).

## 3. What the runs show

| Run | Result | Shows |
|---|---|---|
| `merges` | holds | three grouping transactions at a time, five in all, over four alerts whose matches make overlapping merges: `MergedPointsOlder`, `OneDecisionPerAlert`, `LiveCaseHasAlerts`, `RowsMoveToOlderCase` |
| `analysts` | holds | two grouping transactions with two cases at the start, analysts moving them through the lifecycle: `TypeOK`, `DispositionMatchesStatus`, `TrailEndsWithStatus`, `MergedIsTerminal` |
| `serial` | holds | one grouping transaction at a time: `AggregatesAgree`, `AlertIsWhereItsLinkIs`, `AlertsFollowMerge` |
| `engine` | holds | five alerts grouped one after another in every order, each with the engine's own steps: `GroupKeyIsLeast`, `CapNeverDrops`, `SequentialIsBatch`, `DecisionIsExplained`, and that `GroupingEngine` implements `CasePartition` |
| `desk` | holds | three requests of analysts beside a grouping transaction: `AcceptedIsFresh`, `OneRetraction`, `EveryRequestSettles`, and that `CaseDesk` implements `CaseStore` |
| `reads` | holds | a page walk, a count or a detail page with changes between its statements: `SteadyListedOnce`, `TwiceOnlyWhenMerged`, `CountsAgree`, `DetailIsExplained` |
| `audit` | holds | two writers, two streams, one of them fragile, verification and exports: `ChainsVerify`, `SeqsDoNotCollide`, `DamageReported`, `FalseAlarmsAreAppends`, `ExportsAreAudited` |
| `ingestion` | holds | two single requests, two batches and their jobs, two failures: `AnsweredIsStored`, `CreatedOnce`, `EntryNamesStoredAlert`, `JobsFindTheirAlerts`, `StoredIsTracked` |
| `progress` | holds | a request, two batches in opposite orders, the worker and a failure, under fairness: `GroupedInTheEnd`, `EveryRequestAnswered` |
| `access` | holds | a tab with two requests, a reload or a login, expiring tokens, a deactivated user and a failing rate limiter: `LogoutEndsSession`, `ServedAsSender`, `EveryCallSettles`, `BucketReopens` |
| `closed_merged` | violated | `ClosedIsNeverMerged`: a case closed after it was read as open is merged |
| `note_stranded` | violated | `NotesFollowMerge`: a note added behind the merge's UPDATE stays on the loser |

The violated properties are what a comment or a docstring says of the code; each is quoted
in `PROJECT.json` under `findings`. They share a cause: a decision taken on an unlocked read.

What the passing properties leave out is as telling, and each says so in its premise:

* `AlertsFollowMerge` and `AggregatesAgree` are checked with one grouping transaction at a
  time. With two, a case chosen by one can be merged by the other before the alert is
  attached, which then stays on a Merged case; and two attaches to one case each count the
  links without the other's, so that `alert_count` stays one short. The run `serial` shows
  that this concurrency is all that is missing: the same statements, interleaved with
  analysts and with ingestion but not with each other, keep all three properties.
* `AcceptedIsFresh` excludes cases in `rewound`: an attach that read version 2, and wrote 3
  after an analyst had written 3, gives a page with version 3 that the row has left.
* `OneRetraction` excludes notes with two retractions in flight together (`overlap`): both
  see the note as not retracted, and both append an event.
* `DamageReported` speaks of exports that have an event. One of a stream that has lost all
  its events compares nothing with the tip (`if events:` in `audit/export.py`) and says that
  the chain verifies; verification reports it.
* Verification and export read the events and the tip by separate statements, so an append
  in between makes an intact chain look broken in the report and "CHAIN BROKEN" in the
  export. `FalseAlarmsAreAppends` says that nothing else does.
* `CreatedOnce` is about one natural identity. Two overlapping requests with one
  Idempotency-Key and different alerts create both: between the check and the store lies an
  insert that `alerts.idempotency_key`, which is not unique, does not constrain.
* `SequentialIsBatch` needs `Uncrowded`: once the LIMIT of the candidate query cuts, which
  case an alert finds depends on which of its neighbours are newest.
* `TwiceOnlyWhenMerged` is half of what a reader may want: an item that moves back over the
  cursor between two pages is skipped, and nothing excludes that.
* `LogoutEndsSession` is about a logout that finds nothing under way. A refresh or login in
  flight when the user logs out sets a session again when it is answered.
* `BucketReopens` excludes a key whose EXPIRE was lost; that bucket refuses for good.

### Bounds

* `MaxTx` (grouping transactions in a behaviour), `Concurrency` (open at once) and
  `MaxVersion` (an analyst leaves a case alone from this version on). A merge needs two
  cases and an alert that bridges them, so two case-creating transactions and one more;
  overlapping merges need a second bridge, hence four alerts, and `merges` allows a fifth
  transaction for a retry or a duplicate job and a third at the same time. With
  `MaxVersion = 3` a case can be opened, closed and re-opened around a merge.
* `SeedAlert` starts some runs with cases that already exist, each with one alert: a state
  that ingestion of unrelated or simultaneous alerts leaves, reached without spending the
  bound on it.
* `MaxSeq = 2` (3 where three appends are needed) and two writers: the first event of a
  stream, where the tip row itself is created, and a successor; two writers are enough for
  every wait, since a third waits as the second does.
* `Ingestion`: two alerts, two bodies, two single calls and two batches, the most that
  `UniqueFree`, a deadlock or an idempotency race involves. `ChunkSize = 2` with batches of
  two and three items gives a full chunk, a tail after one, the same alert twice in a batch
  and opposite orders. `MaxTries = 2` of the code's 3: one retry, and giving up.
  `MaxFaults` bounds the failures in a behaviour: two, so that a failure can meet the
  recovery from another (one in `progress`, whose liveness check is dearer). In `ingestion`
  the two alerts share a natural key, in the other runs they do not. The calls and batches
  are interchangeable, which `SYMMETRY` uses in the safety run only.
* `GroupingEngine`: five alerts, so that a chain of four leaves one more to join it or
  not; the chains lie along, against and across the ids, as the paths of the union-find are
  long only across. `Cap = 3` is below the number of neighbours in some of the data and
  above it in others, which is where `CapNeverDrops` and `Uncrowded` could fail.
  `MaxLifecycle = 1`: one closed case is what the choice of the
  target and the two `lifecycle = 0` premises tell apart.
* `CaseDesk`: two cases, as a merge needs, three requests (a lock holder, one that waits, one
  that comes after) and one grouping transaction, whose reading any of them may overtake.
* `CaseReads`: three cases over pages of one or two items give a walk of up to three pages
  with a tie, a NULL and an insertion; two changes let one case move and another follow it.
* `Session`: one tab, two requests that share a refresh, one login or reload, one failure of
  Redis, `Limit = 1`, so that a second credential request in a window is refused. Several tabs
  are covered by the theorems, which put no bound on any of these.
* Deadlock is not checked where a behaviour runs out of transactions, requests, alerts or
  changes (everywhere but in `AuditChain`, where verification can always start).

### Fairness

`CaseGrouping`, `AuditChain`, `GroupingEngine` and `CaseReads` assume none: their runs check
safety, and what a refinement without liveness says. `Ingestion` assumes weak fairness of

* `Serve(r)` and `ServeBatch(b)`: a coroutine of the API that can go on does. An insert that
  waits for a lock cannot, so nothing is assumed of it until the holder ends;
* `BreakDeadlock(b)`: PostgreSQL looks for deadlocks after `deadlock_timeout`;
* `Work(b)`: the worker polls the queue and goes on with the job it has
  (`docker-compose.yml` restarts it).

`CaseDesk` assumes it of `Answer(r)`, a request the server has received, and of
`MoveNotes \/ CommitGrouping`, a grouping transaction that has begun: both are coroutines
that run on unless they wait for a lock, and then they are not enabled. `Session` assumes it
of `Answer(h)` and `Fetch(c)`, requests the browser has sent (an answer, an error or a dropped
connection ends each), and of `Window`: Redis drops a key once its TTL has passed.

Nothing is assumed of clients, of the expiry of entries or tokens or of failures, and the
failures themselves may hit any step.

## 4. What is proved

Every invariant, action property and refinement that a passing run checks is also a
theorem; only the five liveness properties are not. The theorems hold for any number of
alerts, transactions, notes, users, writers, streams and events, without symmetry and
without the bounds of the runs. They assume what the modules' named `ASSUME`s say of the
constants, which TLC evaluates on every run, and where a theorem has a hypothesis of its
own it is named below.

Each theorem follows one argument: a strengthening `Inv` of the property with
`Init => Inv`, `Inv /\ [Next]_vars => Inv'` and `Inv => Property`, the second fact with a
lemma per action. The strengthenings are what is worth reading: they say what a
transaction, a request or a reader may rely on between two of its statements.

`CaseGroupingProofs`

* `TypeCorrect`: `Spec => []TypeOK`. It is inductive with one addition (the target of a
  transaction that has chosen is a case, and its reading has the shape of rows).
* `PointersCorrect` (`[]MergedPointsOlder`), `MergedForever` (`MergedIsTerminal`) and
  `DispositionCorrect` (`[]DispositionMatchesStatus`) follow from `MergeInv`.
  `MergedPointsOlder` alone is not inductive: the pointer a merge writes was chosen several
  statements earlier, on rows that may have changed. The invariant says what a transaction
  may still rely on at each point, although it holds no lock on what it read: the cases it
  matched still exist (`Matched`), its target is older than every loser it has left
  (`Chosen`, `Moved`), and a draft of a case differs from the committed row only in the
  columns the transaction writes (`Drafted`, `Created`), so that committing it can neither
  revive a Merged case nor restore an old disposition.
* `DecidedOnce` (`[]OneDecisionPerAlert`), `MovesToOlder` (`RowsMoveToOlderCase`) and
  `NeverEmpty` (`[]LiveCaseHasAlerts`) follow from `RowInv`. Transactions lock rows and not
  cases, so the argument is about rows: two transactions have never written the same one
  (`RowLocks`), and a row a transaction has written is its own alert, one of its two new
  rows, or a row it moves out of a loser it is merging into an older case (`Writes`). What
  the unique index of the links stops is in `CommittedRows`: a link and its decision appear
  in one commit, and an alert in a case has a link.
* `TrailTells` (`[]TrailEndsWithStatus`) follows from `TrailInv`: the uncommitted events of a
  grouping transaction name a status only for a case it merges (`Announced`), so that they
  cannot make the stream lie about a status an analyst has set meanwhile.
* `SerialAggregates` (`[]AggregatesAgree`), `SerialAlertInOneCase`
  (`[]AlertIsWhereItsLinkIs`) and `SerialMergesWhole` (`[]AlertsFollowMerge`) have the
  hypothesis `Concurrency = 1`, the one the run `serial` has, and follow from `SerialInv`:
  no alert, link or decision of a loser escapes the merge loop (`Whole`), what was read of
  the target stays true of the columns the loop relies on (`TargetAsItWas`), and what was
  counted is what the commit will leave (`Counted`). Analysts and ingestion interleave with
  the transaction as they like; with `Concurrency = 2` TLC refutes all three, and section 3
  says how.

`AuditChainProofs`

* `ChainsAlwaysVerify` (`[]ChainsVerify`) and `SeqsNeverCollide` (`[]SeqsDoNotCollide`) follow
  from `ChainInv`: per undamaged stream, the committed rows with those of the holder of the
  tip form one chain that ends at the tip (`Committed`, `Pending`), and at most one writer
  holds it (`OneHolder`).
* `DamageIsReported` (`[]DamageReported`), `AlarmsAreAppends` (`[]FalseAlarmsAreAppends`),
  `EveryExportIsAudited` (`[]ExportsAreAudited`) and `LogTyped` (`[]TypeOK`) follow from
  `AuditInv`, which follows damage through whatever is appended after it. A damaged stream
  shows it to every later reader (`Seen`) in one of four ways: a row that does not chain
  (`Broken`), a hole below the tip (`Holed`), a last event with another hash than the tip
  (`Unanchored`), or a tip behind the rows, which no writer can append to any more, as the
  next seq is taken (`Stuck`). Appends keep each of them, since hashes only get longer and rows
  are never replaced. `Suspect` and `Checked` carry this to what an export and a verification
  have already read, `Read` says that an export of an undamaged stream holds the first events
  of its chain and is recorded after them, and `Phase` where an export is in its transaction.

`IngestionProofs`

* `NothingIsLostSilently`, `CreatedOnlyOnce`, `AnswersAreDurable`, `EntriesAreTrue` and
  `JobsFindAlerts` follow from `IngestInv`. It adds to the properties what each call knows at
  each point: whose uncommitted rows an identity may be among (`ClaimsExclusive`: at most one
  caller holds or has created an identity, and one that is held is not stored), that a
  batch's ids are stored or still pending (`BatchesAgree`), that a request past its commit
  has a stored and grouped alert (`RequestsAgree`), and that only an answered batch has a job
  (`JobsAgree`). It holds for any chunk size, number of tries, sharing of keys and number
  of failures.

`CaseDeskProofs`

* `DeskImplementsStore` (`Spec => ImplementsStore`, that is `Store!Spec`) and
  `AcceptedPagesAreFresh` (`[]AcceptedIsFresh`) follow from `DeskInv`. The abstract state is
  the concrete tables, so the refinement is a matter of guards: that what a request wrote
  from `read` is what the one-step operation writes from the row. `DeskInv` says that a lock
  keeps the reading equal to the row and the checks true of it (`ReadIsRow`), that a row has
  one holder (`LocksExclusive`), that a note a request has loaded is still where it was or
  its case is Merged (`LoadedNote`), that what a grouping transaction read exists still and
  the notes it has locked stay on its loser (`PlanAgrees`), and that a page's version is
  never ahead of its row's, equal versions being equal rows (`PageAgrees`).
* `RetractedOnce` (`[]OneRetraction`) follows from `RetractInv`: a note that is not marked has
  no event of its retraction, and a note outside `overlap` has at most one (`ToldOnce`) and at
  most one request between loading and retracting it (`Alone`), and then the object loaded without
  a lock is the row (`LoadedIsNow`). The lock that `retract_note` takes is not what keeps a
  retraction single; the absence of a second request is.

`GroupingEngineProofs`

* `KeysAreLeast` (`[]GroupKeyIsLeast`) follows from `RunInv`: links go to lower alerts, the kept
  edges not yet united and the links together connect what the kept edges connect
  (`LinksAreEdges`), and the climbing and compressing `find` stays in the tree of the alert
  it is for (`FindIsInTree`). A proof about paths would be an induction; instead a tree is
  described by the sets of alerts that no link leaves. Compression and union change those
  sets in a way that needs no path (`Compressing`, `Uniting`), and `OneRoot` and `RootOf`
  give each tree its root, the least of it.
* `CapIsEnough` (`[]CapNeverDrops`) and `DecisionsExplained` (`[]DecisionIsExplained`) follow
  from `CasesInv` (a grouped alert is in an existing case, open as long as nothing was
  closed) and `BatchInv` (a run's batch is its alert and at most `Cap` grouped candidates).
  The first is a matter of counting; the second needs that among finitely many edges of an
  alert one is the strongest.
* `ImplementsTheCases` (`Spec => ImplementsPartition`): a run's last step joins classes that
  evidence connects, every other step is a stutter.
* `SequentialPasses` (`[]SequentialIsBatch`) follows from two halves: what evidence does not
  connect is not put together (`OnEvidence`), and matching alerts are (`MatchesTogether`,
  while no query is cut and no case was closed). It has the hypothesis `QueryCoversRules`:
  each enabled rule blocks on nothing or on at least one column that the candidate query
  tests. The file `backend/config/grouping.yaml` satisfies it; the validation of the file
  does not require it. A rule that blocked on the `mcc` alone would match only
  candidates that another column had brought into the batch.

`CaseReadsProofs`

* `WalkListsOnce` (`[]SteadyListedOnce`) and `WalkListsTwice` (`[]TwiceOnlyWhenMerged`) follow
  from `WalkInv`, for any risks, times, NULLs, ties, filters, limits and changes: `Before` is
  a total and transitive order (`BeforeIsTotal`, `BeforeIsTransitive`), a page is what comes
  up to its last case (`PageEnds`), and what a cursor has passed is not met again unless
  a merge has sent the case to the end of the order by age (`OnTheWay`, `PassedStays`,
  `DisplacedStays`). What makes it true is which way a change can move a case in each
  order (`Becomes`, of every operation of the store).
* `StripAgreesWithCards` (`[]CountsAgree`) follows from `CountInv`: the set the first statement
  counted and the result now differ in cases that have been touched only, and every case
  has one of the statuses that the second statement counts (`StatusesPartition`).
* `DetailExplained` (`[]DetailIsExplained`) follows from `DetailInv`: the streams explain the
  tables at every moment (`TablesExplained`) and only grow, so that a timeline read last
  explains what was read before it.

`SessionProofs`

* `LogoutIsFinal` (`[]LogoutEndsSession`) and `ServedAsItsSender` (`[]ServedAsSender`) follow
  from `SessionInv`: after a quiet logout there is no refresh token and no credential request
  (`NothingLeft`), what a tab shows it has a token for (`TabsAgree`), a pending promise has
  its refresh under way and only then requests wait (`PromisesAgree`), and an uncrossed
  request and the refresh it may wait for are of one user (`RequestsAgree`). It holds for any
  number of tabs, users, requests and logins; the limiter may do what it likes.

`DataTheorems` has what several of these need: a finite set under a total and transitive
relation has a first element, `Min` and `Max` of naturals, the cardinality of disjoint unions
and of sets that differ in few elements, and what appending does to a sequence.

Left to TLC, as out of the prover's reach: liveness under fairness (`GroupedInTheEnd`,
`EveryRequestAnswered`, `EveryRequestSettles`, `EveryCallSettles`, `BucketReopens`),
`ENABLED`, and what a recursive definition computes for every input (induction over data).
The two violated properties are refuted by TLC and have no theorem.

## 5. Not modelled

* Rendering (the HTML export, the React pages), request parsing and validation, metrics and
  logging.
* The case pages: the query cache, optimistic updates and the bulk action bar of the
  console. What they send is modelled (`CaseDesk!Send` from any page the client has had),
  what they show is not.
* Passwords, roles and API keys: checks without state that changes while the system runs.
* In `CaseReads`: filters on columns of alerts and on `closed_at`, upper bounds of ranges, the
  average of the risks, and grouping transactions that overlap. Two attaches that overlap
  can each write a risk without the other's alert, so that a risk falls
  (`grouping/persistence.py:289`); `TwiceOnlyWhenMerged` is about serial ones.
* The pins of `group()`, which no caller passes.
* The audit listing, which only reads rows that never change.
* Migrations, seeding, the synthetic data and benchmark scripts, probes and counters: they
  run once, outside the running system, or keep nothing it depends on.

## 6. Plan

All modules are written and checked, and all their safety properties proved. What would add most:

1. `CaseGrouping`: the liveness of a grouping transaction (deadlock victims are retried by
   nobody but the worker), and the aggregates under two overlapping transactions: the weaker
   statement that does hold of them.
2. `CaseReads`: the filters on columns of alerts, and grouping transactions that overlap.
3. `Session`: the case pages with their cache, on top of `Session` and `CaseDesk`.
4. A refinement of `Ingestion`'s one-step grouping by the grouping transactions of
   `CaseGrouping`.
