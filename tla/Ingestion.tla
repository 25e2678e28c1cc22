----------------------------- MODULE Ingestion ------------------------------
(***************************************************************************)
(* The two ways an alert comes in (backend/app/ingestion) and the worker   *)
(* that groups what the second one leaves (backend/app/worker.py).         *)
(*                                                                         *)
(* POST /alerts looks its idempotency key up in Redis, inserts the alert,  *)
(* groups it and commits, then stores its answer under the key.  POST      *)
(* /alerts:batch inserts alerts without grouping them, commits every       *)
(* ChunkSize items and enqueues one job with the ids it created.  Inserts  *)
(* of one natural identity (source_system, external_alert_id) meet at the  *)
(* unique constraint: the second waits for the first to commit or go away. *)
(*                                                                         *)
(* Redis, the queue and the processes fail: a call to Redis raises, Redis  *)
(* restarts empty, a request dies, a worker stops, a job runs out of time. *)
(* What a failure takes from the queue is recorded in dropped, a history   *)
(* variable.  Grouping itself is one step here; CaseGrouping opens it up.  *)
(***************************************************************************)
EXTENDS Integers, FiniteSets, Sequences, Functions

CONSTANTS
    Alerts,       \* natural identities (source_system, external_alert_id)
    Bodies,       \* what a payload says beyond its identity
    HeaderKeys,   \* values of the Idempotency-Key header, one ingest client's
    NaturalKeys,  \* the strings source_system:external_alert_id
    NaturalKey,   \* [Alerts -> NaturalKeys]: two alerts may share one ("a:b", "c" and "a", "b:c")
    NoHeader,     \* a request without the header
    NoBody,       \* an alert that is not stored
    NoEntry,      \* a key that is not in Redis
    Requests,     \* calls of POST /alerts
    Batches,      \* calls of POST /alerts:batch, and the job of each
    Calls,        \* the items and headers clients send to POST /alerts
    BatchItems,   \* the sequences of valid items clients send to POST /alerts:batch
    ChunkSize,    \* _BATCH_COMMIT_CHUNK
    MaxTries,     \* WorkerSettings.max_tries
    MaxFaults     \* bound: failures in a behaviour

Item == [alert: Alerts, body: Bodies]
Key == HeaderKeys \cup NaturalKeys

ASSUME IngestionAssumption ==
    /\ NoBody \notin Bodies
    /\ NoEntry \notin Item
    /\ NoHeader \notin HeaderKeys
    /\ HeaderKeys \cap NaturalKeys = {}
    /\ NaturalKey \in [Alerts -> NaturalKeys]
    /\ Requests \cap Batches = {}
    /\ Calls \subseteq [item: Item, header: HeaderKeys \cup {NoHeader}]
    /\ BatchItems \subseteq Seq(Item)
    /\ ChunkSize \in Nat \ {0} /\ MaxTries \in Nat /\ MaxFaults \in Nat

RequestRow == [pc: {"idle", "check", "insert", "group", "store", "done"},
               item: Item \cup {NoEntry}, header: HeaderKeys \cup {NoHeader},
               answer: {"none", "created", "replayed", "existing", "conflict", "error"},
               said: Item \cup {NoEntry}]

BatchRow == [pc: {"idle", "items", "commit", "enqueue", "done"},
             items: Seq(Item), processed: Nat, pending: SUBSET Item, fresh: Seq(Alerts),
             answer: {"none", "enqueued", "not_enqueued", "error"}]

JobRow == [pc: {"none", "queued", "running", "orphan", "done", "failed", "lost"},
           next: Nat, tries: Nat]

VARIABLES
    row,      \* [Alerts -> body]: committed rows of table alerts
    cased,    \* the stored alerts with a case_id
    cache,    \* [Key -> entry]: the idempotency entries in Redis
    req,      \* the local state and the answer of each POST /alerts
    batch,    \* the same of each POST /alerts:batch
    job,      \* group_alerts_job of each batch, in the queue or in a worker
    dropped,  \* history: alerts a failure has taken from the queue's care
    faults    \* failures so far

vars == <<row, cased, cache, req, batch, job, dropped, faults>>

Init ==
    /\ row = [a \in Alerts |-> NoBody]
    /\ cased = {}
    /\ cache = [k \in Key |-> NoEntry]
    /\ req = [r \in Requests |-> [pc |-> "idle", item |-> NoEntry, header |-> NoHeader,
                                  answer |-> "none", said |-> NoEntry]]
    /\ batch = [b \in Batches |-> [pc |-> "idle", items |-> <<>>, processed |-> 0,
                                   pending |-> {}, fresh |-> <<>>, answer |-> "none"]]
    /\ job = [b \in Batches |-> [pc |-> "none", next |-> 1, tries |-> 0]]
    /\ dropped = {}
    /\ faults = 0

Stored == {a \in Alerts : row[a] # NoBody}

\* Rows a transaction has inserted and not committed.
HeldByRequest(r) == IF req[r].pc = "group" THEN {req[r].item.alert} ELSE {}
HeldByBatch(b) == {i.alert : i \in batch[b].pending}

\* Mutant: no unique constraint.
NeverWaits(x, a) == TRUE

\* No other transaction holds an uncommitted row of this identity; an INSERT
\* of it would otherwise wait on uq_alerts_source_external.
UniqueFree(x, a) ==
    /\ \A r \in Requests \ {x} : a \notin HeldByRequest(r)
    /\ \A b \in Batches \ {x} : a \notin HeldByBatch(b)

Fault == faults < MaxFaults /\ faults' = faults + 1

-----------------------------------------------------------------------------
(* POST /alerts. *)

ComputeKey(header, item) == IF header = NoHeader THEN NaturalKey[item.alert] ELSE header

KeyOf(r) == ComputeKey(req[r].header, req[r].item)

Answer(r, answer, said) ==
    req' = [req EXCEPT ![r].pc = "done", ![r].answer = answer, ![r].said = said]

Arrive(r) ==
    /\ req[r].pc = "idle"
    /\ \E call \in Calls :
         req' = [req EXCEPT ![r].pc = "check", ![r].item = call.item,
                            ![r].header = call.header]
    /\ UNCHANGED <<row, cased, cache, batch, job, dropped, faults>>

\* The key has an entry: replay the answer, or refuse a different body (409).
Replay(r) ==
    /\ req[r].pc = "check"
    /\ cache[KeyOf(r)] # NoEntry
    /\ IF cache[KeyOf(r)] = req[r].item
         THEN Answer(r, "replayed", cache[KeyOf(r)])
         ELSE Answer(r, "conflict", NoEntry)
    /\ UNCHANGED <<row, cased, cache, batch, job, dropped, faults>>

Miss(r) ==
    /\ req[r].pc = "check"
    /\ cache[KeyOf(r)] = NoEntry
    /\ req' = [req EXCEPT ![r].pc = "insert"]
    /\ UNCHANGED <<row, cased, cache, batch, job, dropped, faults>>

InsertAlert(r) ==
    /\ req[r].pc = "insert"
    /\ req[r].item.alert \notin Stored
    /\ UniqueFree(r, req[r].item.alert)
    /\ req' = [req EXCEPT ![r].pc = "group"]
    /\ UNCHANGED <<row, cased, cache, batch, job, dropped, faults>>

\* The row that owns the identity.
ExistingRow(r) == [alert |-> req[r].item.alert, body |-> row[req[r].item.alert]]

\* Mutant: the answer is stored whether the alert was created or not.
FindAndStore(r) ==
    /\ req[r].pc = "insert"
    /\ req[r].item.alert \in Stored
    /\ Answer(r, "existing", ExistingRow(r))
    /\ cache' = [cache EXCEPT ![KeyOf(r)] = req[r].item]
    /\ UNCHANGED <<row, cased, batch, job, dropped, faults>>

\* The constraint is violated: the row that is there is the answer.
FindExisting(r) ==
    /\ req[r].pc = "insert"
    /\ req[r].item.alert \in Stored
    /\ Answer(r, "existing", ExistingRow(r))
    /\ UNCHANGED <<row, cased, cache, batch, job, dropped, faults>>

GroupAndCommit(r) ==
    LET item == req[r].item IN
    /\ req[r].pc = "group"
    /\ row' = [row EXCEPT ![item.alert] = item.body]
    /\ cased' = cased \cup {item.alert}
    /\ req' = [req EXCEPT ![r].pc = "store"]
    /\ UNCHANGED <<cache, batch, job, dropped, faults>>

StoreEntry(r) ==
    /\ req[r].pc = "store"
    /\ cache' = [cache EXCEPT ![KeyOf(r)] = req[r].item]
    /\ Answer(r, "created", req[r].item)
    /\ UNCHANGED <<row, cased, batch, job, dropped, faults>>

\* A RedisError: check falls through to a normal ingest, store loses the entry.
RedisUnavailable(r) ==
    /\ Fault
    /\ \/ /\ req[r].pc = "check"
          /\ req' = [req EXCEPT ![r].pc = "insert"]
       \/ /\ req[r].pc = "store"
          /\ Answer(r, "created", req[r].item)
    /\ UNCHANGED <<row, cased, cache, batch, job, dropped>>

\* An exception or a crash: the transaction is rolled back, if it was open.
FailRequest(r) ==
    /\ Fault
    /\ req[r].pc \in {"check", "insert", "group", "store"}
    /\ Answer(r, "error", NoEntry)
    /\ UNCHANGED <<row, cased, cache, batch, job, dropped>>

\* An entry lives for idempotency_ttl_seconds.
ExpireEntry(k) ==
    /\ cache[k] # NoEntry
    /\ cache' = [cache EXCEPT ![k] = NoEntry]
    /\ UNCHANGED <<row, cased, req, batch, job, dropped, faults>>

-----------------------------------------------------------------------------
(* POST /alerts:batch. *)

\* An empty batch goes to its last commit at once.
ArriveBatch(b) ==
    /\ batch[b].pc = "idle"
    /\ \E items \in BatchItems :
         batch' = [batch EXCEPT ![b].items = items,
                                ![b].pc = IF items = <<>> THEN "commit" ELSE "items"]
    /\ UNCHANGED <<row, cased, cache, req, job, dropped, faults>>

ItemAt(b) == batch[b].items[batch[b].processed + 1]

\* Mutant: the tail of the batch is not committed.
NoLastCommit(b) ==
    LET n == batch[b].processed + 1 IN
    IF n = Len(batch[b].items) THEN "enqueue"
    ELSE IF n % ChunkSize = 0 THEN "commit" ELSE "items"

AfterItem(b) ==
    LET n == batch[b].processed + 1 IN
    IF n % ChunkSize = 0 \/ n = Len(batch[b].items) THEN "commit" ELSE "items"

PersistItem(b) ==
    LET a == ItemAt(b).alert IN
    /\ batch[b].pc = "items"
    /\ a \notin Stored \cup HeldByBatch(b)
    /\ UniqueFree(b, a)
    /\ batch' = [batch EXCEPT ![b].pc = AfterItem(b), ![b].processed = @ + 1,
                              ![b].pending = @ \cup {ItemAt(b)},
                              ![b].fresh = Append(@, a)]
    /\ UNCHANGED <<row, cased, cache, req, job, dropped, faults>>

\* The SAVEPOINT is rolled back and the row that is there is counted.
SkipDuplicate(b) ==
    /\ batch[b].pc = "items"
    /\ ItemAt(b).alert \in Stored \cup HeldByBatch(b)
    /\ batch' = [batch EXCEPT ![b].pc = AfterItem(b), ![b].processed = @ + 1]
    /\ UNCHANGED <<row, cased, cache, req, job, dropped, faults>>

CommitChunk(b) ==
    /\ batch[b].pc = "commit"
    /\ row' = [a \in Alerts |->
                 IF a \in HeldByBatch(b)
                   THEN (CHOOSE i \in batch[b].pending : i.alert = a).body
                   ELSE row[a]]
    /\ batch' = [batch EXCEPT ![b].pending = {},
                   ![b].pc = IF batch[b].processed = Len(batch[b].items)
                               THEN "enqueue" ELSE "items"]
    /\ UNCHANGED <<cased, cache, req, job, dropped, faults>>

Queued == [pc |-> "queued", next |-> 1, tries |-> 0]

\* Mutant: the job is enqueued before the last commit.
EnqueueFirst(b) == batch[b].pc \in {"enqueue", "commit"}

CanEnqueue(b) == batch[b].pc = "enqueue"

EnqueueJob(b) ==
    /\ CanEnqueue(b)
    /\ job' = [job EXCEPT ![b] = Queued]
    /\ batch' = [batch EXCEPT ![b].pc = "done", ![b].answer = "enqueued"]
    /\ UNCHANGED <<row, cased, cache, req, dropped, faults>>

\* Redis raises, before or after it has taken the job: still a 202.
EnqueueFails(b) ==
    /\ Fault
    /\ batch[b].pc = "enqueue"
    /\ \/ job' = [job EXCEPT ![b] = Queued] /\ UNCHANGED dropped
       \/ dropped' = dropped \cup Range(batch[b].fresh) /\ UNCHANGED job
    /\ batch' = [batch EXCEPT ![b].pc = "done", ![b].answer = "not_enqueued"]
    /\ UNCHANGED <<row, cased, cache, req>>

\* Mutant: the session is not closed and keeps what it inserted.
KeepsRows(b) == batch[b].pending

RolledBack(b) == {}

\* The open transaction is rolled back; earlier chunks stay, without a job.
AbortBatch(b) ==
    /\ batch[b].pc \in {"items", "commit", "enqueue"}
    /\ dropped' = dropped \cup (Range(batch[b].fresh) \ HeldByBatch(b))
    /\ batch' = [batch EXCEPT ![b].pc = "done", ![b].answer = "error",
                              ![b].pending = RolledBack(b)]
    /\ UNCHANGED <<row, cased, cache, req, job>>

FailBatch(b) == Fault /\ AbortBatch(b)

WaitsFor(b, c) == batch[b].pc = "items" /\ ItemAt(b).alert \in HeldByBatch(c)

\* Batches that wait for each other: PostgreSQL aborts one of them.
BreakDeadlock(b) ==
    /\ \E cycle \in SUBSET Batches :
         /\ b \in cycle
         /\ \A c \in cycle : \E d \in cycle \ {c} : WaitsFor(c, d)
    /\ AbortBatch(b)
    /\ UNCHANGED faults

-----------------------------------------------------------------------------
(* group_alerts_job.  ARQ keeps a job in Redis until it has finished or     *)
(* failed, so a job whose worker stops is taken again, from its first id.   *)

Working == {"running", "orphan"}

\* The ids a job, queued or running, has still to look at.
Ahead(b) == {batch[b].fresh[i] : i \in job[b].next..Len(batch[b].fresh)}

TakeJob(b) ==
    /\ job[b].pc = "queued"
    /\ job[b].tries < MaxTries
    /\ job' = [job EXCEPT ![b].pc = "running", ![b].tries = @ + 1]
    /\ UNCHANGED <<row, cased, cache, req, batch, dropped, faults>>

DropJob(b, pc) ==
    /\ job' = [job EXCEPT ![b].pc = pc]
    /\ dropped' = dropped \cup (Ahead(b) \ cased)

GiveUpJob(b) ==
    /\ job[b].pc = "queued"
    /\ job[b].tries = MaxTries
    /\ DropJob(b, "failed")
    /\ UNCHANGED <<row, cased, cache, req, batch, faults>>

\* Group the next id and commit; one that has a case is skipped, one that is
\* not found (LookupError) is reported and passed over.
\* Mutant: the skip of an alert that has a case does not go on to the next.
StuckAtSkip(b) == IF batch[b].fresh[job[b].next] \in cased THEN job[b].next ELSE job[b].next + 1

NextId(b) == job[b].next + 1

GroupAlert(b) ==
    /\ job[b].pc \in Working
    /\ job[b].next <= Len(batch[b].fresh)
    /\ cased' = cased \cup ({batch[b].fresh[job[b].next]} \cap Stored)
    /\ job' = [job EXCEPT ![b].next = NextId(b)]
    /\ UNCHANGED <<row, cache, req, batch, dropped, faults>>

\* Any exception is caught: the id goes to the result's "failed" list.
GroupAlertFails(b) ==
    /\ Fault
    /\ job[b].pc \in Working
    /\ job[b].next <= Len(batch[b].fresh)
    /\ dropped' = dropped \cup ({batch[b].fresh[job[b].next]} \ cased)
    /\ job' = [job EXCEPT ![b].next = @ + 1]
    /\ UNCHANGED <<row, cased, cache, req, batch>>

FinishJob(b) ==
    /\ job[b].pc \in Working
    /\ job[b].next > Len(batch[b].fresh)
    /\ job' = [job EXCEPT ![b].pc = "done"]
    /\ UNCHANGED <<row, cased, cache, req, batch, dropped, faults>>

\* Mutant: a retry goes on where the worker stopped, after the alert it was at.
ResumeAfter(b) == job[b].next + 1

RestartAt(b) == 1

\* Cancelled by a shutdown or killed between two alerts.
StopWorker(b) ==
    /\ Fault
    /\ \/ /\ job[b].pc = "running"
          /\ job' = [job EXCEPT ![b].pc = "queued", ![b].next = RestartAt(b)]
          /\ UNCHANGED dropped
       \/ /\ job[b].pc = "orphan"
          /\ DropJob(b, "lost")
    /\ UNCHANGED <<row, cased, cache, req, batch>>

\* ARQ's job_timeout: the job fails and is not tried again.
TimeOutJob(b) ==
    /\ Fault
    /\ job[b].pc \in Working
    /\ DropJob(b, "failed")
    /\ UNCHANGED <<row, cased, cache, req, batch>>

QueuedIds == UNION {Ahead(b) : b \in {c \in Batches : job[c].pc = "queued"}}

\* Redis restarts empty: entries and queued jobs are gone, and a running job
\* goes on but will not be taken again.
RestartRedis ==
    /\ Fault
    /\ cache' = [k \in Key |-> NoEntry]
    /\ job' = [b \in Batches |->
                 [job[b] EXCEPT !.pc = CASE @ = "queued" -> "lost"
                                         [] @ = "running" -> "orphan"
                                         [] OTHER -> @]]
    /\ dropped' = dropped \cup (QueuedIds \ cased)
    /\ UNCHANGED <<row, cased, req, batch>>

-----------------------------------------------------------------------------
Serve(r) == \/ Replay(r) \/ Miss(r) \/ InsertAlert(r) \/ FindExisting(r)
            \/ GroupAndCommit(r) \/ StoreEntry(r)

ServeBatch(b) == \/ PersistItem(b) \/ SkipDuplicate(b) \/ CommitChunk(b)
                 \/ EnqueueJob(b)

Work(b) == TakeJob(b) \/ GiveUpJob(b) \/ GroupAlert(b) \/ FinishJob(b)

Next ==
    \/ \E r \in Requests : Arrive(r) \/ Serve(r) \/ RedisUnavailable(r) \/ FailRequest(r)
    \/ \E b \in Batches : \/ ArriveBatch(b) \/ ServeBatch(b) \/ BreakDeadlock(b)
                          \/ EnqueueFails(b) \/ FailBatch(b)
                          \/ Work(b) \/ GroupAlertFails(b) \/ StopWorker(b) \/ TimeOutJob(b)
    \/ \E k \in Key : ExpireEntry(k)
    \/ RestartRedis

\* A request that can go on goes on, PostgreSQL finds a deadlock
\* (deadlock_timeout), and the worker polls the queue.  Nothing makes an entry
\* expire, a client call or a failure happen.
Spec ==
    /\ Init /\ [][Next]_vars
    /\ \A r \in Requests : WF_vars(Serve(r))
    /\ \A b \in Batches : WF_vars(ServeBatch(b)) /\ WF_vars(BreakDeadlock(b))
                          /\ WF_vars(Work(b))

-----------------------------------------------------------------------------
TypeOK ==
    /\ row \in [Alerts -> Bodies \cup {NoBody}]
    /\ cased \subseteq Alerts
    /\ cache \in [Key -> Item \cup {NoEntry}]
    /\ req \in [Requests -> RequestRow]
    /\ batch \in [Batches -> BatchRow]
    /\ job \in [Batches -> JobRow]
    /\ dropped \subseteq Alerts
    /\ faults \in Nat

\* What the route says is in the database: a 201 or a replayed 200 names a
\* stored and grouped alert with the body that is stored, a 200 for an existing
\* alert the stored one, and every item of an accepted batch is stored.
AnsweredIsStored ==
    /\ \A r \in Requests :
         req[r].said # NoEntry =>
           /\ req[r].said.alert = req[r].item.alert
           /\ row[req[r].said.alert] = req[r].said.body
           /\ req[r].answer \in {"created", "replayed"} => req[r].said.alert \in cased
    /\ \A b \in Batches :
         batch[b].answer \in {"enqueued", "not_enqueued"} =>
           \A i \in 1..Len(batch[b].items) : batch[b].items[i].alert \in Stored

\* Whoever is told that an alert was created is alone with it, among single
\* requests and batches, whatever was retried, lost or raced.
CreatedOnce ==
    /\ \A r, s \in Requests :
         (r # s /\ req[r].answer = "created" /\ req[s].answer = "created") =>
            req[r].item.alert # req[s].item.alert
    /\ \A r \in Requests, b \in Batches :
         (req[r].answer = "created" /\ batch[b].answer # "error") =>
            req[r].item.alert \notin Range(batch[b].fresh)
    /\ \A b, c \in Batches :
         (b # c /\ batch[b].answer # "error" /\ batch[c].answer # "error") =>
            Range(batch[b].fresh) \cap Range(batch[c].fresh) = {}

\* An idempotency entry is the answer to a committed and grouped alert, with
\* the body the database has: no entry outlives a rollback, describes another
\* request's payload, or is found under a natural key that is not its alert's.
EntryNamesStoredAlert ==
    \A k \in Key : cache[k] # NoEntry =>
        /\ row[cache[k].alert] = cache[k].body
        /\ cache[k].alert \in cased
        /\ k \in NaturalKeys => NaturalKey[cache[k].alert] = k

\* A job only ever looks for alerts that are committed.
JobsFindTheirAlerts ==
    \A b \in Batches : job[b].pc # "none" => Range(batch[b].fresh) \subseteq Stored

\* A stored alert without a case is in somebody's care: of the batch that
\* created it and has not enqueued yet, of a job that has it ahead, or it was
\* taken out of the queue by one of the named failures.
StoredIsTracked ==
    \A a \in Stored \ cased :
        \/ a \in dropped
        \/ \E b \in Batches :
             \/ /\ batch[b].pc \in {"items", "commit", "enqueue"}
                /\ a \in Range(batch[b].fresh)
             \/ /\ job[b].pc \in {"queued", "running", "orphan"}
                /\ a \in Ahead(b)

\* Every stored alert gets a case, or one of the named failures took it away.
GroupedInTheEnd ==
    \A a \in Alerts : a \in Stored ~> a \in cased \cup dropped

\* Every request is answered, although inserts wait for each other.
EveryRequestAnswered ==
    /\ \A r \in Requests : req[r].pc # "idle" ~> req[r].pc = "done"
    /\ \A b \in Batches : batch[b].pc # "idle" ~> batch[b].pc = "done"
=============================================================================
