-------------------------- MODULE IngestionProofs ---------------------------
(***************************************************************************)
(* Ingestion never loses sight of a stored alert and never creates one     *)
(* twice, for any number of alerts, keys, requests, batches, tries and     *)
(* failures.                                                               *)
(***************************************************************************)
EXTENDS Ingestion, TLAPS

-----------------------------------------------------------------------------
(* The inductive invariant. *)

\* The alerts a request or a batch has created or is about to.
RequestClaims(r) ==
    IF req[r].pc \in {"group", "store"} \/ req[r].answer = "created"
      THEN {req[r].item.alert} ELSE {}

BatchClaims(b) == IF batch[b].answer # "error" THEN Range(batch[b].fresh) ELSE {}

\* A request that has arrived carries an item; it is not stored before the
\* commit, and stored and grouped from then on.
RequestOK(r) ==
    /\ req[r].pc # "idle" => req[r].item \in Item
    /\ req[r].answer # "none" => req[r].pc = "done"
    /\ req[r].answer = "created" => req[r].said = req[r].item
    /\ req[r].answer = "error" => req[r].said = NoEntry
    /\ req[r].pc # "done" => req[r].said = NoEntry
    /\ req[r].pc = "group" => req[r].item.alert \notin Stored
    /\ req[r].pc = "store" => /\ row[req[r].item.alert] = req[r].item.body
                              /\ req[r].item.alert \in cased
    /\ req[r].said # NoEntry =>
         /\ req[r].said \in Item
         /\ req[r].said.alert = req[r].item.alert
         /\ row[req[r].said.alert] = req[r].said.body
         /\ req[r].answer \in {"created", "replayed"} => req[r].said.alert \in cased

RequestsAgree == \A r \in Requests : RequestOK(r)

\* How far a batch is, and that what it has processed is stored or pending.
BatchOK(b) ==
    /\ batch[b].pc # "done" => batch[b].answer = "none"
    /\ batch[b].pc = "idle" => batch[b].fresh = <<>> /\ batch[b].processed = 0
    /\ batch[b].pc = "items" => batch[b].processed < Len(batch[b].items)
    /\ batch[b].processed <= Len(batch[b].items)
    /\ batch[b].pc = "enqueue" => batch[b].processed = Len(batch[b].items)
    /\ batch[b].answer \in {"enqueued", "not_enqueued"} =>
         batch[b].processed = Len(batch[b].items)
    /\ batch[b].pc \in {"idle", "enqueue", "done"} => batch[b].pending = {}
    /\ \A i, j \in batch[b].pending : i.alert = j.alert => i = j
    /\ HeldByBatch(b) \subseteq Range(batch[b].fresh)
    /\ HeldByBatch(b) \cap Stored = {}
    /\ batch[b].answer # "error" =>
         \A i \in 1..batch[b].processed :
            batch[b].items[i].alert \in Stored \cup HeldByBatch(b)

BatchesAgree == \A b \in Batches : BatchOK(b)

\* An alert is claimed by one request or batch, and a claim is backed by a row.
ClaimsExclusive ==
    /\ \A r \in Requests : RequestClaims(r) \subseteq Stored \cup HeldByRequest(r)
    /\ \A b \in Batches : BatchClaims(b) \subseteq Stored \cup HeldByBatch(b)
    /\ \A r, s \in Requests : r # s => RequestClaims(r) \cap RequestClaims(s) = {}
    /\ \A b, c \in Batches : b # c => BatchClaims(b) \cap BatchClaims(c) = {}
    /\ \A r \in Requests, b \in Batches : RequestClaims(r) \cap BatchClaims(b) = {}

\* A job exists once its batch has been answered, and starts at its first id.
JobsAgree ==
    \A b \in Batches :
      /\ job[b].pc # "none" => batch[b].answer \in {"enqueued", "not_enqueued"}
      /\ job[b].next \in Nat \ {0}

IngestInv == /\ TypeOK /\ RequestsAgree /\ BatchesAgree /\ ClaimsExclusive
             /\ JobsAgree /\ EntryNamesStoredAlert /\ StoredIsTracked

-----------------------------------------------------------------------------
(* Types. *)

LEMMA TypeInit == Init => TypeOK
BY DEF Init, TypeOK, RequestRow, BatchRow, JobRow, Range, Item, Key

LEMMA AppendRange ==
    ASSUME NEW S, NEW seq \in Seq(S), NEW x
    PROVE  Range(Append(seq, x)) = Range(seq) \cup {x}
<1> DEFINE longer == Append(seq, x)
<1>1. /\ Len(seq) \in Nat /\ DOMAIN seq = 1..Len(seq)
      /\ DOMAIN longer = 1..(Len(seq) + 1)
      /\ longer[Len(seq) + 1] = x
      /\ \A i \in 1..Len(seq) : longer[i] = seq[i]
  OBVIOUS
<1> HIDE DEF longer
<1>2. DOMAIN longer = DOMAIN seq \cup {Len(seq) + 1}
  BY <1>1
<1>3. \A i \in DOMAIN seq : longer[i] = seq[i]
  BY <1>1
<1>4. ASSUME NEW y \in Range(longer) PROVE y \in Range(seq) \cup {x}
  <2>1. PICK i \in DOMAIN longer : y = longer[i]
    BY DEF Range
  <2>2. CASE i \in DOMAIN seq
    BY <1>3, <2>1, <2>2 DEF Range
  <2>3. CASE i = Len(seq) + 1
    BY <1>1, <2>1, <2>3
  <2> QED BY <1>2, <2>2, <2>3
<1>5. ASSUME NEW y \in Range(seq) PROVE y \in Range(longer)
  <2>1. PICK i \in DOMAIN seq : y = seq[i]
    BY DEF Range
  <2>2. i \in DOMAIN longer /\ y = longer[i]
    BY <1>2, <1>3, <2>1
  <2> QED BY <2>2 DEF Range
<1>6. x \in Range(longer)
  <2>1. Len(seq) + 1 \in DOMAIN longer
    BY <1>2
  <2> QED BY <1>1, <2>1 DEF Range
<1>7. Range(longer) = Range(seq) \cup {x}
  BY <1>4, <1>5, <1>6
<1> QED BY <1>7 DEF longer

\* The alerts a batch or its job knows of.
LEMMA AlertsOfBatch ==
    ASSUME TypeOK, JobsAgree, NEW b \in Batches
    PROVE  /\ Range(batch[b].fresh) \subseteq Alerts
           /\ Ahead(b) \subseteq Range(batch[b].fresh)
           /\ HeldByBatch(b) \subseteq Alerts
<1>1. batch[b] \in BatchRow /\ job[b] \in JobRow
  BY DEF TypeOK
<1>2. batch[b].fresh \in Seq(Alerts) /\ batch[b].pending \subseteq Item /\ job[b].next \in Nat
  BY <1>1 DEF BatchRow, JobRow
<1>3. Range(batch[b].fresh) \subseteq Alerts
  BY <1>2 DEF Range
<1>4. HeldByBatch(b) \subseteq Alerts
  BY <1>2 DEF HeldByBatch, Item
<1>5. Ahead(b) \subseteq Range(batch[b].fresh)
  BY <1>2 DEF Ahead, Range, JobsAgree
<1> QED BY <1>3, <1>4, <1>5

LEMMA TypeOfRequests ==
    ASSUME TypeOK, RequestsAgree, NEW r \in Requests,
           Serve(r) \/ Arrive(r) \/ RedisUnavailable(r) \/ FailRequest(r)
    PROVE  TypeOK'
<1>1. req \in [Requests -> RequestRow] /\ req[r] \in RequestRow
      /\ (req[r].pc # "idle" => req[r].item \in Item)
  BY DEF TypeOK, RequestsAgree, RequestOK
<1>2. cache \in [Key -> Item \cup {NoEntry}] /\ row \in [Alerts -> Bodies \cup {NoBody}]
      /\ cased \subseteq Alerts /\ faults \in Nat
  BY DEF TypeOK
<1>3. req[r].pc # "idle" => KeyOf(r) \in Key
  BY <1>1, IngestionAssumption DEF KeyOf, ComputeKey, Key, RequestRow, Item
<1>4. req' \in [Requests -> RequestRow]
  <2>1. CASE Arrive(r)
    <3>1. PICK call \in Calls :
            req' = [req EXCEPT ![r].pc = "check", ![r].item = call.item,
                               ![r].header = call.header]
      BY <2>1 DEF Arrive
    <3>2. call.item \in Item /\ call.header \in HeaderKeys \cup {NoHeader}
      BY IngestionAssumption
    <3> QED BY <1>1, <3>1, <3>2 DEF RequestRow
  <2>2. ASSUME NEW answer \in {"created", "replayed", "existing", "conflict", "error"},
               NEW said \in Item \cup {NoEntry}, Answer(r, answer, said)
        PROVE  req' \in [Requests -> RequestRow]
    BY <1>1, <2>2 DEF Answer, RequestRow
  <2>3. CASE Replay(r)
    <3>1. cache[KeyOf(r)] \in Item \cup {NoEntry}
      BY <1>2, <1>3, <2>3 DEF Replay
    <3> QED BY <2>2, <2>3, <3>1 DEF Replay
  <2>4. CASE Miss(r)
    BY <1>1, <2>4 DEF Miss, RequestRow
  <2>5. CASE InsertAlert(r)
    BY <1>1, <2>5 DEF InsertAlert, RequestRow
  <2>6. CASE FindExisting(r)
    <3>1. [alert |-> req[r].item.alert, body |-> row[req[r].item.alert]] \in Item
      BY <1>1, <1>2, <2>6 DEF FindExisting, Item, Stored
    <3> QED BY <2>2, <2>6, <3>1 DEF FindExisting, ExistingRow
  <2>7. CASE GroupAndCommit(r)
    BY <1>1, <2>7 DEF GroupAndCommit, RequestRow
  <2>8. CASE StoreEntry(r)
    BY <1>1, <2>2, <2>8 DEF StoreEntry
  <2>9. CASE RedisUnavailable(r)
    <3>1. CASE req[r].pc = "check" /\ req' = [req EXCEPT ![r].pc = "insert"]
      BY <1>1, <3>1 DEF RequestRow
    <3>2. CASE req[r].pc = "store" /\ Answer(r, "created", req[r].item)
      BY <1>1, <2>2, <3>2
    <3> QED BY <2>9, <3>1, <3>2 DEF RedisUnavailable
  <2>10. CASE FailRequest(r)
    BY <2>2, <2>10 DEF FailRequest
  <2> QED BY <2>1, <2>3, <2>4, <2>5, <2>6, <2>7, <2>8, <2>9, <2>10 DEF Serve
<1>5. cache' \in [Key -> Item \cup {NoEntry}]
  BY <1>1, <1>2, <1>3 DEF Serve, Arrive, Replay, Miss, InsertAlert, FindExisting,
     GroupAndCommit, StoreEntry, RedisUnavailable, FailRequest
<1>6. /\ row' \in [Alerts -> Bodies \cup {NoBody}]
      /\ cased' \subseteq Alerts
      /\ faults' \in Nat
  <2>1. CASE GroupAndCommit(r)
    <3>1. req[r].item.alert \in Alerts /\ req[r].item.body \in Bodies
      BY <1>1, <2>1 DEF GroupAndCommit, Item
    <3> QED BY <1>2, <2>1, <3>1 DEF GroupAndCommit
  <2>2. CASE ~GroupAndCommit(r)
    <3>1. UNCHANGED <<row, cased>>
      BY <2>2 DEF Serve, Arrive, Replay, Miss, InsertAlert, FindExisting,
         StoreEntry, RedisUnavailable, FailRequest
    <3>2. faults' \in {faults, faults + 1}
      BY <2>2 DEF Serve, Arrive, Replay, Miss, InsertAlert, FindExisting,
         StoreEntry, RedisUnavailable, FailRequest, Fault
    <3> QED BY <1>2, <3>1, <3>2
  <2> QED BY <2>1, <2>2
<1>7. UNCHANGED <<batch, job, dropped>>
  BY DEF Serve, Arrive, Replay, Miss, InsertAlert, FindExisting, GroupAndCommit,
     StoreEntry, RedisUnavailable, FailRequest
<1> QED BY <1>4, <1>5, <1>6, <1>7 DEF TypeOK

LEMMA TypeOfBatches ==
    ASSUME TypeOK, BatchesAgree, JobsAgree, NEW b \in Batches,
           ArriveBatch(b) \/ ServeBatch(b) \/ BreakDeadlock(b) \/ EnqueueFails(b) \/ FailBatch(b)
    PROVE  TypeOK'
<1>1. batch \in [Batches -> BatchRow] /\ batch[b] \in BatchRow
  BY DEF TypeOK
<1>2. row \in [Alerts -> Bodies \cup {NoBody}] /\ faults \in Nat /\ dropped \subseteq Alerts
      /\ job \in [Batches -> JobRow]
  BY DEF TypeOK
<1>3. Queued \in JobRow
  BY DEF JobRow, Queued
<1>4. AfterItem(b) \in {"items", "commit"}
  BY DEF AfterItem
<1>5. batch' \in [Batches -> BatchRow]
  <2>1. CASE ArriveBatch(b)
    <3>1. PICK items \in BatchItems :
            batch' = [batch EXCEPT ![b].items = items,
                        ![b].pc = IF items = <<>> THEN "commit" ELSE "items"]
      BY <2>1 DEF ArriveBatch
    <3>2. items \in Seq(Item)
      BY IngestionAssumption
    <3> QED BY <1>1, <3>1, <3>2 DEF BatchRow
  <2>2. CASE PersistItem(b)
    <3>1. batch[b].processed < Len(batch[b].items)
      BY <2>2 DEF PersistItem, BatchesAgree, BatchOK
    <3>2. batch[b].items \in Seq(Item) /\ batch[b].processed \in Nat
          /\ batch[b].fresh \in Seq(Alerts) /\ batch[b].pending \subseteq Item
      BY <1>1 DEF BatchRow
    <3>3. batch[b].processed + 1 \in 1..Len(batch[b].items)
      BY <3>1, <3>2
    <3>4. ItemAt(b) \in Item
      BY <3>2, <3>3 DEF ItemAt
    <3>5. ItemAt(b).alert \in Alerts
      BY <3>4 DEF Item
    <3>6. /\ Append(batch[b].fresh, ItemAt(b).alert) \in Seq(Alerts)
          /\ batch[b].pending \cup {ItemAt(b)} \in SUBSET Item
          /\ batch[b].processed + 1 \in Nat
      BY <3>2, <3>4, <3>5
    <3>7. batch' = [batch EXCEPT ![b].pc = AfterItem(b), ![b].processed = batch[b].processed + 1,
                      ![b].pending = batch[b].pending \cup {ItemAt(b)},
                      ![b].fresh = Append(batch[b].fresh, ItemAt(b).alert)]
      BY <1>1, <2>2 DEF PersistItem, BatchRow
    <3> HIDE DEF ItemAt
    <3> QED BY <1>1, <1>4, <3>6, <3>7 DEF BatchRow
  <2>3. CASE SkipDuplicate(b)
    <3>1. batch[b].processed + 1 \in Nat
      BY <1>1 DEF BatchRow
    <3>2. batch' = [batch EXCEPT ![b].pc = AfterItem(b), ![b].processed = batch[b].processed + 1]
      BY <1>1, <2>3 DEF SkipDuplicate, BatchRow
    <3> QED BY <1>1, <1>4, <3>1, <3>2 DEF BatchRow
  <2>4. CASE CommitChunk(b)
    BY <1>1, <2>4 DEF CommitChunk, BatchRow
  <2>5. CASE EnqueueJob(b)
    BY <1>1, <2>5 DEF EnqueueJob, CanEnqueue, BatchRow
  <2>6. CASE EnqueueFails(b)
    <3>1. batch' = [batch EXCEPT ![b].pc = "done", ![b].answer = "not_enqueued"]
      BY <2>6 DEF EnqueueFails
    <3> QED BY <1>1, <3>1 DEF BatchRow
  <2>7. CASE BreakDeadlock(b) \/ FailBatch(b)
    <3>1. batch' = [batch EXCEPT ![b].pc = "done", ![b].answer = "error", ![b].pending = {}]
      BY <2>7 DEF BreakDeadlock, FailBatch, AbortBatch, RolledBack
    <3> QED BY <1>1, <3>1 DEF BatchRow
  <2> QED BY <2>1, <2>2, <2>3, <2>4, <2>5, <2>6, <2>7 DEF ServeBatch
<1>6. row' \in [Alerts -> Bodies \cup {NoBody}]
  <2>1. \A a \in HeldByBatch(b) : (CHOOSE i \in batch[b].pending : i.alert = a).body \in Bodies
    BY <1>1 DEF HeldByBatch, BatchRow, Item
  <2> QED BY <1>2, <2>1 DEF ServeBatch, ArriveBatch, PersistItem, SkipDuplicate, CommitChunk,
      EnqueueJob, CanEnqueue, EnqueueFails, BreakDeadlock, FailBatch, AbortBatch, RolledBack
<1>7. job' \in [Batches -> JobRow]
  BY <1>2, <1>3 DEF ServeBatch, ArriveBatch, PersistItem, SkipDuplicate, CommitChunk,
      EnqueueJob, CanEnqueue, EnqueueFails, BreakDeadlock, FailBatch, AbortBatch, RolledBack
<1>8. dropped' \subseteq Alerts /\ faults' \in Nat
  <2>1. \/ dropped' = dropped
        \/ dropped' = dropped \cup Range(batch[b].fresh)
        \/ dropped' = dropped \cup (Range(batch[b].fresh) \ HeldByBatch(b))
    BY DEF ServeBatch, ArriveBatch, PersistItem, SkipDuplicate, CommitChunk,
      EnqueueJob, CanEnqueue, EnqueueFails, BreakDeadlock, FailBatch, AbortBatch
  <2>2. faults' = faults \/ faults' = faults + 1
    BY DEF ServeBatch, ArriveBatch, PersistItem, SkipDuplicate, CommitChunk,
      EnqueueJob, CanEnqueue, EnqueueFails, BreakDeadlock, FailBatch, Fault
  <2>3. Range(batch[b].fresh) \subseteq Alerts
    BY AlertsOfBatch
  <2> QED BY <1>2, <2>1, <2>2, <2>3
<1>9. UNCHANGED <<cased, cache, req>>
  BY DEF ServeBatch, ArriveBatch, PersistItem, SkipDuplicate, CommitChunk,
      EnqueueJob, CanEnqueue, EnqueueFails, BreakDeadlock, FailBatch, AbortBatch, RolledBack
<1> QED BY <1>5, <1>6, <1>7, <1>8, <1>9 DEF TypeOK

LEMMA TypeOfJobs ==
    ASSUME TypeOK, JobsAgree, NEW b \in Batches,
           Work(b) \/ GroupAlertFails(b) \/ StopWorker(b) \/ TimeOutJob(b)
    PROVE  TypeOK'
<1>1. job \in [Batches -> JobRow] /\ job[b] \in JobRow /\ cased \subseteq Alerts
      /\ dropped \subseteq Alerts /\ faults \in Nat /\ batch[b].fresh \in Seq(Alerts)
  BY DEF TypeOK, BatchRow
<1>2. job[b].next + 1 \in Nat /\ job[b].tries + 1 \in Nat
  BY <1>1 DEF JobRow
<1>3. ASSUME NEW pc \in {"done", "failed", "lost"}, job' = [job EXCEPT ![b].pc = pc]
      PROVE  job' \in [Batches -> JobRow]
  BY <1>1, <1>3 DEF JobRow
<1>4. ASSUME job' = [job EXCEPT ![b].next = @ + 1]
      PROVE  job' \in [Batches -> JobRow]
  <2>1. job' = [job EXCEPT ![b].next = job[b].next + 1]
    BY <1>1, <1>4 DEF JobRow
  <2> QED BY <1>1, <1>2, <2>1 DEF JobRow
<1>5. job' \in [Batches -> JobRow]
  <2>1. CASE TakeJob(b)
    <3>1. job' = [job EXCEPT ![b].pc = "running", ![b].tries = job[b].tries + 1]
      BY <1>1, <2>1 DEF TakeJob, JobRow
    <3> QED BY <1>1, <1>2, <3>1 DEF JobRow
  <2>2. CASE StopWorker(b)
    <3>1. CASE job' = [job EXCEPT ![b].pc = "queued", ![b].next = 1]
      BY <1>1, <3>1 DEF JobRow
    <3> QED BY <1>3, <2>2, <3>1 DEF StopWorker, DropJob, RestartAt
  <2> QED BY <1>3, <1>4, <2>1, <2>2 DEF Work, GiveUpJob, GroupAlert, NextId, FinishJob,
      GroupAlertFails, TimeOutJob, DropJob
<1>6. (job[b].next <= Len(batch[b].fresh)) => batch[b].fresh[job[b].next] \in Ahead(b)
  BY <1>1 DEF Ahead, JobRow
<1>7. Ahead(b) \subseteq Alerts
  BY AlertsOfBatch
<1>8. dropped' \subseteq Alerts
  BY <1>1, <1>6, <1>7 DEF Work, TakeJob, GiveUpJob, GroupAlert, NextId, FinishJob, GroupAlertFails,
     StopWorker, TimeOutJob, DropJob, RestartAt
<1>9. cased' \subseteq Alerts /\ faults' \in Nat /\ UNCHANGED <<row, cache, req, batch>>
  BY <1>1 DEF Work, TakeJob, GiveUpJob, GroupAlert, NextId, FinishJob, GroupAlertFails,
     StopWorker, TimeOutJob, DropJob, RestartAt, Fault, Stored
<1> QED BY <1>5, <1>8, <1>9 DEF TypeOK

LEMMA TypeStep ==
    ASSUME TypeOK, RequestsAgree, BatchesAgree, JobsAgree, [Next]_vars
    PROVE  TypeOK'
<1>1. ASSUME NEW k \in Key, ExpireEntry(k)
      PROVE  TypeOK'
  BY <1>1 DEF ExpireEntry, TypeOK
<1>2. CASE RestartRedis
  <2>1. job' \in [Batches -> JobRow]
    BY <1>2 DEF RestartRedis, JobRow, TypeOK
  <2>2. dropped' \subseteq Alerts
    BY <1>2, AlertsOfBatch DEF RestartRedis, QueuedIds, TypeOK
  <2> QED BY <1>2, <2>1, <2>2 DEF RestartRedis, Fault, TypeOK
<1>3. CASE UNCHANGED vars
  BY <1>3 DEF vars, TypeOK
<1> QED BY <1>1, <1>2, <1>3, TypeOfRequests, TypeOfBatches, TypeOfJobs DEF Next

-----------------------------------------------------------------------------
(* What happens to the rows. *)

\* The tables change at two commits, which add what only the committer held.
LEMMA RowsGrow ==
    ASSUME TypeOK, RequestsAgree, BatchesAgree, [Next]_vars
    PROVE  /\ \A a \in Stored : row'[a] = row[a]
           /\ Stored \subseteq Stored'
           /\ cased \subseteq cased'
           /\ \/ row' = row
              \/ \E r \in Requests : /\ GroupAndCommit(r)
                                     /\ Stored' = Stored \cup {req[r].item.alert}
              \/ \E b \in Batches : /\ CommitChunk(b)
                                    /\ Stored' = Stored \cup HeldByBatch(b)
<1>1. row \in [Alerts -> Bodies \cup {NoBody}]
  BY DEF TypeOK
<1>2. ASSUME NEW r \in Requests, GroupAndCommit(r)
      PROVE  /\ \A a \in Stored : row'[a] = row[a]
             /\ Stored' = Stored \cup {req[r].item.alert}
  <2>1. req[r].item \in Item /\ req[r].item.alert \notin Stored
    BY <1>2 DEF RequestsAgree, RequestOK, GroupAndCommit
  <2>2. req[r].item.alert \in Alerts /\ req[r].item.body # NoBody
    BY <2>1, IngestionAssumption DEF Item
  <2>3. row' = [row EXCEPT ![req[r].item.alert] = req[r].item.body]
    BY <1>2 DEF GroupAndCommit
  <2> QED BY <1>1, <2>1, <2>2, <2>3 DEF Stored
<1>3. ASSUME NEW b \in Batches, CommitChunk(b)
      PROVE  /\ \A a \in Stored : row'[a] = row[a]
             /\ Stored' = Stored \cup HeldByBatch(b)
  <2>1. batch[b].pending \subseteq Item /\ HeldByBatch(b) \cap Stored = {}
    BY DEF TypeOK, BatchRow, BatchesAgree, BatchOK
  <2>2. \A a \in HeldByBatch(b) :
          /\ a \in Alerts
          /\ (CHOOSE i \in batch[b].pending : i.alert = a).body # NoBody
    BY <2>1, IngestionAssumption DEF HeldByBatch, Item
  <2>3. row' = [a \in Alerts |->
                 IF a \in HeldByBatch(b)
                   THEN (CHOOSE i \in batch[b].pending : i.alert = a).body
                   ELSE row[a]]
    BY <1>3 DEF CommitChunk
  <2> QED BY <1>1, <2>1, <2>2, <2>3 DEF Stored
<1>4. \/ UNCHANGED row
      \/ \E r \in Requests : GroupAndCommit(r)
      \/ \E b \in Batches : CommitChunk(b)
  BY DEF Next, Serve, Arrive, Replay, Miss, InsertAlert, FindExisting, StoreEntry,
     RedisUnavailable, FailRequest, ServeBatch, ArriveBatch, PersistItem, SkipDuplicate,
     EnqueueJob, CanEnqueue, EnqueueFails, BreakDeadlock, FailBatch, AbortBatch, RolledBack, Work, TakeJob,
     GiveUpJob, GroupAlert, NextId, FinishJob, GroupAlertFails, StopWorker, TimeOutJob, DropJob, RestartAt,
     ExpireEntry, RestartRedis, vars
<1>5. cased \subseteq cased'
  BY DEF Next, Serve, Arrive, Replay, Miss, InsertAlert, FindExisting, GroupAndCommit,
     StoreEntry, RedisUnavailable, FailRequest, ServeBatch, ArriveBatch, PersistItem,
     SkipDuplicate, CommitChunk, EnqueueJob, CanEnqueue, EnqueueFails, BreakDeadlock, FailBatch,
     AbortBatch, RolledBack, Work, TakeJob, GiveUpJob, GroupAlert, NextId, FinishJob, GroupAlertFails,
     StopWorker, TimeOutJob, DropJob, RestartAt, ExpireEntry, RestartRedis, vars
<1>6. CASE UNCHANGED row
  BY <1>5, <1>6 DEF Stored
<1> QED BY <1>2, <1>3, <1>4, <1>5, <1>6

\* A step of one request leaves the others as they are, and every other step
\* leaves all of them.
LEMMA OneRequestMoves ==
    ASSUME TypeOK, [Next]_vars
    PROVE  \/ UNCHANGED req
           \/ \E r \in Requests :
                /\ Serve(r) \/ Arrive(r) \/ RedisUnavailable(r) \/ FailRequest(r)
                /\ UNCHANGED <<batch, job>>
                /\ \A s \in Requests \ {r} : req'[s] = req[s]
<1>1. ASSUME NEW r \in Requests,
             Serve(r) \/ Arrive(r) \/ RedisUnavailable(r) \/ FailRequest(r)
      PROVE  /\ UNCHANGED <<batch, job>>
             /\ \A s \in Requests \ {r} : req'[s] = req[s]
  BY <1>1 DEF TypeOK, Serve, Arrive, Replay, Miss, InsertAlert, FindExisting,
     GroupAndCommit, StoreEntry, RedisUnavailable, FailRequest, Answer
<1>2. \/ \E r \in Requests : Serve(r) \/ Arrive(r) \/ RedisUnavailable(r) \/ FailRequest(r)
      \/ UNCHANGED req
  BY DEF Next, ServeBatch, ArriveBatch, PersistItem,
     SkipDuplicate, CommitChunk, EnqueueJob, CanEnqueue, EnqueueFails, BreakDeadlock, FailBatch,
     AbortBatch, RolledBack, Work, TakeJob, GiveUpJob, GroupAlert, NextId, FinishJob, GroupAlertFails,
     StopWorker, TimeOutJob, DropJob, RestartAt, ExpireEntry, RestartRedis, vars
<1> QED BY <1>1, <1>2

LEMMA OneBatchMoves ==
    ASSUME TypeOK, [Next]_vars
    PROVE  \/ UNCHANGED batch
           \/ \E b \in Batches :
                /\ \/ ArriveBatch(b) \/ ServeBatch(b) \/ BreakDeadlock(b)
                   \/ EnqueueFails(b) \/ FailBatch(b)
                /\ UNCHANGED req
                /\ \A c \in Batches \ {b} : batch'[c] = batch[c] /\ job'[c] = job[c]
<1>1. ASSUME NEW b \in Batches,
             \/ ArriveBatch(b) \/ ServeBatch(b) \/ BreakDeadlock(b)
             \/ EnqueueFails(b) \/ FailBatch(b)
      PROVE  /\ UNCHANGED req
             /\ \A c \in Batches \ {b} : batch'[c] = batch[c] /\ job'[c] = job[c]
  BY <1>1 DEF TypeOK, ServeBatch, ArriveBatch, PersistItem, SkipDuplicate, CommitChunk,
     EnqueueJob, CanEnqueue, EnqueueFails, BreakDeadlock, FailBatch, AbortBatch, RolledBack
<1>2. \/ \E b \in Batches : \/ ArriveBatch(b) \/ ServeBatch(b) \/ BreakDeadlock(b)
                            \/ EnqueueFails(b) \/ FailBatch(b)
      \/ UNCHANGED batch
  BY DEF Next, Serve, Arrive, Replay, Miss, InsertAlert, FindExisting, GroupAndCommit,
     StoreEntry, RedisUnavailable, FailRequest, Answer, Work, TakeJob, GiveUpJob, GroupAlert,
     FinishJob, GroupAlertFails, StopWorker, TimeOutJob, DropJob, RestartAt, ExpireEntry, RestartRedis, vars
<1> QED BY <1>1, <1>2

LEMMA OneJobMoves ==
    ASSUME TypeOK, [Next]_vars
    PROVE  \/ UNCHANGED job
           \/ RestartRedis
           \/ \E b \in Batches :
                /\ \/ Work(b) \/ GroupAlertFails(b) \/ StopWorker(b) \/ TimeOutJob(b)
                   \/ EnqueueJob(b) \/ EnqueueFails(b)
                /\ \A c \in Batches \ {b} : job'[c] = job[c]
<1>1. ASSUME NEW b \in Batches,
             \/ Work(b) \/ GroupAlertFails(b) \/ StopWorker(b) \/ TimeOutJob(b)
             \/ EnqueueJob(b) \/ EnqueueFails(b)
      PROVE  \A c \in Batches \ {b} : job'[c] = job[c]
  BY <1>1 DEF TypeOK, Work, TakeJob, GiveUpJob, GroupAlert, NextId, FinishJob, GroupAlertFails,
     StopWorker, TimeOutJob, DropJob, RestartAt, EnqueueJob, CanEnqueue, EnqueueFails
<1>2. ASSUME NEW r \in Requests,
             Serve(r) \/ Arrive(r) \/ RedisUnavailable(r) \/ FailRequest(r)
      PROVE  UNCHANGED job
  BY <1>2 DEF Serve, Arrive, Replay, Miss, InsertAlert, FindExisting, GroupAndCommit,
     StoreEntry, RedisUnavailable, FailRequest
<1>3. ASSUME NEW b \in Batches,
             ArriveBatch(b) \/ ServeBatch(b) \/ BreakDeadlock(b) \/ FailBatch(b)
      PROVE  UNCHANGED job \/ EnqueueJob(b)
  BY <1>3 DEF ArriveBatch, ServeBatch, PersistItem, SkipDuplicate, CommitChunk,
     BreakDeadlock, FailBatch, AbortBatch, RolledBack
<1>4. (\E k \in Key : ExpireEntry(k)) \/ UNCHANGED vars => UNCHANGED job
  BY DEF ExpireEntry, vars
<1> QED BY <1>1, <1>2, <1>3, <1>4 DEF Next

-----------------------------------------------------------------------------
(* The parts of the invariant, one by one. *)

LEMMA RequestsStep ==
    ASSUME TypeOK, RequestsAgree, BatchesAgree, ClaimsExclusive, EntryNamesStoredAlert,
           [Next]_vars
    PROVE  RequestsAgree'
<1>1. \A a \in Stored : row'[a] = row[a]
  BY RowsGrow
<1>2. Stored \subseteq Stored' /\ cased \subseteq cased'
  BY RowsGrow
<1>3. ASSUME NEW s \in Requests, req[s].pc = "group", req'[s] = req[s]
      PROVE  req[s].item.alert \notin Stored'
  <2>1. req[s].item.alert \in RequestClaims(s) /\ req[s].item.alert \notin Stored
    BY <1>3 DEF RequestClaims, RequestsAgree, RequestOK
  <2>2. ASSUME NEW r \in Requests, GroupAndCommit(r)
        PROVE  req[r].item.alert # req[s].item.alert
    <3>1. r # s
      <4>1. req \in [Requests -> RequestRow] /\ req' = [req EXCEPT ![r].pc = "store"]
        BY <2>2 DEF GroupAndCommit, TypeOK
      <4>2. req'[r].pc = "store"
        BY <4>1 DEF RequestRow
      <4> QED BY <1>3, <4>2
    <3>2. req[r].item.alert \in RequestClaims(r)
      BY <2>2 DEF RequestClaims, GroupAndCommit
    <3> QED BY <2>1, <3>1, <3>2 DEF ClaimsExclusive
  <2>3. ASSUME NEW b \in Batches, CommitChunk(b)
        PROVE  req[s].item.alert \notin HeldByBatch(b)
    <3>1. HeldByBatch(b) \subseteq BatchClaims(b)
      BY <2>3 DEF BatchClaims, BatchesAgree, BatchOK, CommitChunk
    <3> QED BY <2>1, <3>1 DEF ClaimsExclusive
  <2> QED BY <2>1, <2>2, <2>3, RowsGrow DEF Stored
<1>4. ASSUME NEW s \in Requests, req'[s] = req[s]
      PROVE  RequestOK(s)'
  <2>1. RequestOK(s)
    BY DEF RequestsAgree
  <2>2. req[s].said # NoEntry => req[s].said.alert \in Stored
    BY <2>1, IngestionAssumption DEF RequestOK, Stored, Item
  <2>3. req[s].pc = "store" => req[s].item.alert \in Stored
    BY <2>1, IngestionAssumption DEF RequestOK, Stored, Item
  <2> QED BY <1>1, <1>2, <1>3, <1>4, <2>1, <2>2, <2>3 DEF RequestOK
<1>5. ASSUME NEW r \in Requests,
             Serve(r) \/ Arrive(r) \/ RedisUnavailable(r) \/ FailRequest(r)
      PROVE  RequestOK(r)'
  <2>1. RequestOK(r) /\ req \in [Requests -> RequestRow]
    BY DEF RequestsAgree, TypeOK
  <2>2. CASE Arrive(r)
    <3>1. PICK call \in Calls :
            req' = [req EXCEPT ![r].pc = "check", ![r].item = call.item,
                               ![r].header = call.header]
      BY <2>2 DEF Arrive
    <3>2. call.item \in Item
      BY IngestionAssumption
    <3>3. req[r].pc = "idle"
      BY <2>2 DEF Arrive
    <3> QED BY <2>1, <3>1, <3>2, <3>3 DEF RequestOK
  <2>3. CASE Replay(r)
    <3>1. KeyOf(r) \in Key
      BY <2>1, <2>3, IngestionAssumption DEF Replay, KeyOf, ComputeKey, Key, RequestOK, RequestRow, Item
    <3>2. /\ cache[KeyOf(r)] \in Item
          /\ row[cache[KeyOf(r)].alert] = cache[KeyOf(r)].body
          /\ cache[KeyOf(r)].alert \in cased
      BY <2>3, <3>1 DEF Replay, EntryNamesStoredAlert, TypeOK
    <3>3. UNCHANGED <<row, cased>> /\ req[r].pc = "check"
      BY <2>3 DEF Replay
    <3>4. CASE cache[KeyOf(r)] = req[r].item /\ Answer(r, "replayed", cache[KeyOf(r)])
      BY <2>1, <3>2, <3>3, <3>4 DEF RequestOK, Answer
    <3>5. CASE Answer(r, "conflict", NoEntry)
      BY <2>1, <3>3, <3>5 DEF RequestOK, Answer
    <3> QED BY <2>3, <3>4, <3>5 DEF Replay
  <2>4. CASE Miss(r)
    BY <2>1, <2>4 DEF Miss, RequestOK
  <2>5. CASE InsertAlert(r)
    BY <2>1, <2>5 DEF InsertAlert, RequestOK, Stored
  <2>6. CASE FindExisting(r)
    <3>1. [alert |-> req[r].item.alert, body |-> row[req[r].item.alert]] \in Item
      BY <2>6 DEF FindExisting, Item, Stored, TypeOK
    <3> QED BY <2>1, <2>6, <3>1 DEF FindExisting, ExistingRow, Answer, RequestOK
  <2>7. CASE GroupAndCommit(r)
    <3>1. req[r].item \in Item /\ req[r].item.alert \in Alerts
      BY <2>1, <2>7 DEF GroupAndCommit, RequestOK, Item
    <3>2. /\ row'[req[r].item.alert] = req[r].item.body
          /\ req[r].item.alert \in cased'
          /\ req[r].said = NoEntry /\ req[r].answer = "none"
      BY <2>1, <2>7, <3>1 DEF GroupAndCommit, RequestOK, TypeOK
    <3>3. req' = [req EXCEPT ![r].pc = "store"]
      BY <2>7 DEF GroupAndCommit
    <3> QED BY <2>1, <3>1, <3>2, <3>3 DEF RequestOK
  <2>8. CASE req[r].pc = "store" /\ Answer(r, "created", req[r].item) /\ UNCHANGED <<row, cased>>
    BY <2>1, <2>8 DEF Answer, RequestOK
  <2>9. CASE req[r].pc = "check" /\ req' = [req EXCEPT ![r].pc = "insert"]
    BY <2>1, <2>9 DEF RequestOK
  <2>10. CASE FailRequest(r)
    BY <2>1, <2>10 DEF FailRequest, Answer, RequestOK
  <2> QED BY <1>5, <2>2, <2>3, <2>4, <2>5, <2>6, <2>7, <2>8, <2>9, <2>10
          DEF Serve, StoreEntry, RedisUnavailable
<1>6. \A s \in Requests : RequestOK(s)'
  BY <1>4, <1>5, OneRequestMoves
<1> QED BY <1>6 DEF RequestsAgree

LEMMA HeldIsClaimed ==
    ASSUME BatchesAgree, NEW b \in Batches
    PROVE  HeldByBatch(b) \cap Stored = {} /\ HeldByBatch(b) \subseteq BatchClaims(b)
<1>1. BatchOK(b)
  BY DEF BatchesAgree
<1>2. CASE batch[b].pc = "done"
  BY <1>1, <1>2 DEF BatchOK, HeldByBatch
<1>3. CASE batch[b].pc # "done"
  BY <1>1, <1>3 DEF BatchOK, BatchClaims
<1> QED BY <1>2, <1>3

\* What a request or a batch claims after a step, it claimed before or an INSERT
\* has just found free.
LEMMA ClaimsGrow ==
    ASSUME TypeOK, RequestsAgree, BatchesAgree, [Next]_vars
    PROVE  /\ \A r \in Requests :
                \/ RequestClaims(r)' \subseteq RequestClaims(r)
                \/ InsertAlert(r) /\ RequestClaims(r)' = {req[r].item.alert}
           /\ \A b \in Batches :
                \/ BatchClaims(b)' \subseteq BatchClaims(b)
                \/ PersistItem(b) /\ BatchClaims(b)' = BatchClaims(b) \cup {ItemAt(b).alert}
<1>1. ASSUME NEW r \in Requests
      PROVE  \/ RequestClaims(r)' \subseteq RequestClaims(r)
             \/ InsertAlert(r) /\ RequestClaims(r)' = {req[r].item.alert}
  <2>1. req \in [Requests -> RequestRow] /\ RequestOK(r)
    BY DEF TypeOK, RequestsAgree
  <2>2. CASE req'[r] = req[r]
    BY <2>2 DEF RequestClaims
  <2>3. CASE Serve(r) \/ Arrive(r) \/ RedisUnavailable(r) \/ FailRequest(r)
    <3>1. CASE Arrive(r)
      <4>1. req[r].pc = "idle" /\ req'[r].pc = "check" /\ req'[r].answer = req[r].answer
        BY <2>1, <3>1 DEF Arrive
      <4> QED BY <2>1, <4>1 DEF RequestClaims, RequestOK
    <3>2. CASE req'[r].pc = "insert" /\ req'[r].answer = req[r].answer /\ req[r].pc = "check"
      BY <2>1, <3>2 DEF RequestClaims, RequestOK
    <3>3. CASE InsertAlert(r)
      BY <2>1, <3>3 DEF RequestClaims, InsertAlert
    <3>4. CASE GroupAndCommit(r)
      <4>1. req[r].pc = "group" /\ req'[r].item = req[r].item
        BY <2>1, <3>4 DEF GroupAndCommit
      <4> QED BY <4>1 DEF RequestClaims
    <3>5. CASE Answer(r, "created", req[r].item) /\ req[r].pc = "store"
      <4>1. req'[r].item = req[r].item
        BY <2>1, <3>5 DEF Answer
      <4> QED BY <3>5, <4>1 DEF RequestClaims
    <3>6. ASSUME NEW answer, NEW said, answer # "created", Answer(r, answer, said)
          PROVE  RequestClaims(r)' = {}
      BY <2>1, <3>6 DEF RequestClaims, Answer
    <3>7. CASE Miss(r) \/ RedisUnavailable(r)
      <4>1. CASE req[r].pc = "check" /\ req' = [req EXCEPT ![r].pc = "insert"]
        BY <2>1, <3>2, <4>1 DEF RequestRow
      <4> QED BY <3>5, <3>7, <4>1 DEF Miss, RedisUnavailable
    <3>8. CASE StoreEntry(r)
      BY <3>5, <3>8 DEF StoreEntry
    <3>9. CASE Replay(r) \/ FindExisting(r) \/ FailRequest(r)
      BY <3>6, <3>9 DEF Replay, FindExisting, FailRequest
    <3> QED BY <2>3, <3>1, <3>3, <3>4, <3>7, <3>8, <3>9 DEF Serve
  <2> QED BY <2>2, <2>3, OneRequestMoves
<1>2. ASSUME NEW b \in Batches
      PROVE  \/ BatchClaims(b)' \subseteq BatchClaims(b)
             \/ PersistItem(b) /\ BatchClaims(b)' = BatchClaims(b) \cup {ItemAt(b).alert}
  <2>1. batch \in [Batches -> BatchRow] /\ BatchOK(b) /\ batch[b].fresh \in Seq(Alerts)
    BY DEF TypeOK, BatchesAgree, BatchRow
  <2>2. CASE batch'[b] = batch[b]
    BY <2>2 DEF BatchClaims
  <2>3. CASE PersistItem(b)
    <3>1. batch[b].answer = "none" /\ batch'[b].answer = "none"
          /\ batch'[b].fresh = Append(batch[b].fresh, ItemAt(b).alert)
      BY <2>1, <2>3 DEF PersistItem, BatchOK
    <3>2. Range(Append(batch[b].fresh, ItemAt(b).alert))
            = Range(batch[b].fresh) \cup {ItemAt(b).alert}
      BY <2>1, AppendRange
    <3> QED BY <2>3, <3>1, <3>2 DEF BatchClaims
  <2>4. CASE \/ ArriveBatch(b) \/ SkipDuplicate(b) \/ CommitChunk(b) \/ EnqueueJob(b)
             \/ BreakDeadlock(b) \/ EnqueueFails(b) \/ FailBatch(b)
    <3>1. batch'[b].fresh = batch[b].fresh
      <4>1. CASE ArriveBatch(b) \/ SkipDuplicate(b)
        BY <2>1, <4>1 DEF ArriveBatch, SkipDuplicate, BatchRow
      <4>2. CASE CommitChunk(b)
        BY <2>1, <4>2 DEF CommitChunk, BatchRow
      <4>3. CASE EnqueueJob(b) \/ EnqueueFails(b)
        BY <2>1, <4>3 DEF EnqueueJob, EnqueueFails, BatchRow
      <4>4. CASE BreakDeadlock(b) \/ FailBatch(b)
        BY <2>1, <4>4 DEF BreakDeadlock, FailBatch, AbortBatch, BatchRow
      <4> QED BY <2>4, <4>1, <4>2, <4>3, <4>4
    <3>2. batch[b].answer = "none"
      BY <2>1, <2>4 DEF BatchOK, ArriveBatch, SkipDuplicate, CommitChunk,
         EnqueueJob, CanEnqueue, EnqueueFails, BreakDeadlock, FailBatch, AbortBatch, RolledBack
    <3> QED BY <3>1, <3>2 DEF BatchClaims
  <2> QED BY <2>2, <2>3, <2>4, OneBatchMoves DEF ServeBatch
<1> QED BY <1>1, <1>2

LEMMA ClaimsStep ==
    ASSUME TypeOK, RequestsAgree, BatchesAgree, ClaimsExclusive, [Next]_vars
    PROVE  ClaimsExclusive'
<1>1. Stored \subseteq Stored'
  BY RowsGrow
<1>2. ASSUME NEW r \in Requests
      PROVE  RequestClaims(r)' \subseteq Stored' \cup HeldByRequest(r)'
  <2>1. CASE RequestClaims(r)' \subseteq RequestClaims(r)
    <3>1. CASE req[r].pc = "group" /\ GroupAndCommit(r)
      <4>1. req[r].item \in Item
        BY <3>1 DEF RequestsAgree, RequestOK
      <4>2. row'[req[r].item.alert] # NoBody /\ req[r].item.alert \in Alerts
        BY <3>1, <4>1, IngestionAssumption DEF GroupAndCommit, TypeOK, Item
      <4> QED BY <2>1, <3>1, <4>2 DEF RequestClaims, Stored
    <3>2. CASE req[r].pc = "group" /\ ~GroupAndCommit(r)
      <4>1. req'[r] = req[r] \/ FailRequest(r)
        BY <3>2, OneRequestMoves DEF Serve, Arrive, Replay, Miss, InsertAlert, FindExisting,
           StoreEntry, RedisUnavailable
      <4>2. CASE req'[r] = req[r]
        BY <2>1, <3>2, <4>2 DEF RequestClaims, HeldByRequest
      <4>3. CASE FailRequest(r)
        BY <4>3 DEF FailRequest, Answer, RequestClaims, TypeOK
      <4> QED BY <4>1, <4>2, <4>3
    <3>3. CASE req[r].pc # "group"
      BY <1>1, <2>1, <3>3 DEF ClaimsExclusive, HeldByRequest
    <3> QED BY <3>1, <3>2, <3>3
  <2>2. CASE InsertAlert(r) /\ RequestClaims(r)' = {req[r].item.alert}
    <3>1. req'[r].pc = "group" /\ req'[r].item = req[r].item
      BY <2>2 DEF InsertAlert, TypeOK
    <3> QED BY <2>2, <3>1 DEF HeldByRequest
  <2> QED BY <2>1, <2>2, ClaimsGrow
<1>3. ASSUME NEW b \in Batches
      PROVE  BatchClaims(b)' \subseteq Stored' \cup HeldByBatch(b)'
  <2>0. batch \in [Batches -> BatchRow] /\ BatchClaims(b) \subseteq Stored \cup HeldByBatch(b)
    BY DEF TypeOK, ClaimsExclusive
  <2>1. CASE CommitChunk(b)
    <3>1. BatchClaims(b)' \subseteq BatchClaims(b)
      BY <2>1, ClaimsGrow DEF CommitChunk, PersistItem
    <3>2. HeldByBatch(b) \subseteq Stored'
      <4>1. \A a \in HeldByBatch(b) : /\ a \in Alerts
                /\ (CHOOSE i \in batch[b].pending : i.alert = a).body # NoBody
        BY <2>0, IngestionAssumption DEF HeldByBatch, BatchRow, Item
      <4> QED BY <2>1, <4>1 DEF CommitChunk, Stored
    <3> QED BY <1>1, <2>0, <3>1, <3>2
  <2>2. CASE PersistItem(b)
    <3>1. BatchClaims(b)' \subseteq BatchClaims(b) \cup {ItemAt(b).alert}
      BY ClaimsGrow
    <3>2. batch'[b].pending = batch[b].pending \cup {ItemAt(b)}
      BY <2>0, <2>2 DEF PersistItem
    <3>3. HeldByBatch(b)' = HeldByBatch(b) \cup {ItemAt(b).alert}
      BY <3>2 DEF HeldByBatch
    <3> QED BY <1>1, <2>0, <3>1, <3>3
  <2>3. CASE FailBatch(b) \/ BreakDeadlock(b)
    <3>1. batch'[b].answer = "error"
      BY <2>0, <2>3 DEF FailBatch, BreakDeadlock, AbortBatch, RolledBack, BatchRow
    <3> QED BY <3>1 DEF BatchClaims
  <2>4. CASE batch'[b].pending = batch[b].pending /\ ~PersistItem(b)
    <3>1. HeldByBatch(b)' = HeldByBatch(b)
      BY <2>4 DEF HeldByBatch
    <3> QED BY <1>1, <2>0, <2>4, <3>1, ClaimsGrow
  <2>5. CASE ArriveBatch(b) \/ SkipDuplicate(b) \/ EnqueueJob(b) \/ EnqueueFails(b)
    <3>1. batch'[b].pending = batch[b].pending
      BY <2>0, <2>5 DEF ArriveBatch, SkipDuplicate, EnqueueJob, CanEnqueue, EnqueueFails, BatchRow
    <3> QED BY <2>2, <2>4, <3>1
  <2> QED BY <2>1, <2>2, <2>3, <2>4, <2>5, OneBatchMoves DEF ServeBatch
<1>4. ASSUME NEW r \in Requests, InsertAlert(r)
      PROVE  /\ \A s \in Requests \ {r} : req[r].item.alert \notin RequestClaims(s)
             /\ \A b \in Batches : req[r].item.alert \notin BatchClaims(b)
             /\ UNCHANGED batch /\ \A s \in Requests \ {r} : req'[s] = req[s]
  BY <1>4, IngestionAssumption DEF InsertAlert, UniqueFree, ClaimsExclusive, TypeOK
<1>5. ASSUME NEW b \in Batches, PersistItem(b)
      PROVE  /\ \A s \in Requests : ItemAt(b).alert \notin RequestClaims(s)
             /\ \A c \in Batches \ {b} : ItemAt(b).alert \notin BatchClaims(c)
             /\ UNCHANGED req /\ \A c \in Batches \ {b} : batch'[c] = batch[c]
  BY <1>5, IngestionAssumption DEF PersistItem, UniqueFree, ClaimsExclusive, TypeOK
<1>6. CASE \E r \in Requests : InsertAlert(r)
  <2>1. PICK r \in Requests : InsertAlert(r)
    BY <1>6
  <2>2. \A b \in Batches : BatchClaims(b)' = BatchClaims(b)
    BY <1>4, <2>1 DEF BatchClaims
  <2>3. \A s \in Requests \ {r} : RequestClaims(s)' = RequestClaims(s)
    BY <1>4, <2>1 DEF RequestClaims
  <2>4. RequestClaims(r)' \subseteq RequestClaims(r) \cup {req[r].item.alert}
    BY ClaimsGrow
  <2> QED BY <1>2, <1>3, <1>4, <2>1, <2>2, <2>3, <2>4 DEF ClaimsExclusive
<1>7. CASE \E b \in Batches : PersistItem(b)
  <2>1. PICK b \in Batches : PersistItem(b)
    BY <1>7
  <2>2. \A c \in Batches \ {b} : BatchClaims(c)' = BatchClaims(c)
    BY <1>5, <2>1 DEF BatchClaims
  <2>3. \A s \in Requests : RequestClaims(s)' = RequestClaims(s)
    BY <1>5, <2>1 DEF RequestClaims
  <2>4. BatchClaims(b)' \subseteq BatchClaims(b) \cup {ItemAt(b).alert}
    BY ClaimsGrow
  <2> QED BY <1>2, <1>3, <1>5, <2>1, <2>2, <2>3, <2>4 DEF ClaimsExclusive
<1>8. CASE /\ ~\E r \in Requests : InsertAlert(r)
           /\ ~\E b \in Batches : PersistItem(b)
  <2>1. \A r \in Requests : RequestClaims(r)' \subseteq RequestClaims(r)
    BY <1>8, ClaimsGrow
  <2>2. \A b \in Batches : BatchClaims(b)' \subseteq BatchClaims(b)
    BY <1>8, ClaimsGrow
  <2> QED BY <1>2, <1>3, <2>1, <2>2 DEF ClaimsExclusive
<1> QED BY <1>6, <1>7, <1>8

LEMMA BatchesStep ==
    ASSUME TypeOK, RequestsAgree, BatchesAgree, ClaimsExclusive, [Next]_vars
    PROVE  BatchesAgree'
<1>1. Stored \subseteq Stored'
  BY RowsGrow
<1>2. ASSUME NEW c \in Batches
      PROVE  Stored' \cap HeldByBatch(c) \subseteq
                 IF CommitChunk(c) THEN HeldByBatch(c) ELSE {}
  <2>1. HeldByBatch(c) \cap Stored = {} /\ HeldByBatch(c) \subseteq BatchClaims(c)
    BY HeldIsClaimed
  <2>2. ASSUME NEW r \in Requests, GroupAndCommit(r)
        PROVE  req[r].item.alert \notin HeldByBatch(c)
    <3>1. req[r].item.alert \in RequestClaims(r)
      BY <2>2 DEF RequestClaims, GroupAndCommit
    <3> QED BY <2>1, <3>1 DEF ClaimsExclusive
  <2>3. ASSUME NEW b \in Batches, b # c, CommitChunk(b)
        PROVE  HeldByBatch(b) \cap HeldByBatch(c) = {}
    <3>1. HeldByBatch(b) \subseteq BatchClaims(b)
      BY HeldIsClaimed
    <3> QED BY <2>1, <2>3, <3>1 DEF ClaimsExclusive
  <2>4. UNCHANGED row => Stored' = Stored
    BY DEF Stored
  <2> QED BY <2>1, <2>2, <2>3, <2>4, RowsGrow
<1>3. ASSUME NEW c \in Batches, batch'[c] = batch[c], ~CommitChunk(c)
      PROVE  BatchOK(c)'
  <2>1. HeldByBatch(c)' = HeldByBatch(c)
    BY <1>3 DEF HeldByBatch
  <2>2. HeldByBatch(c) \cap Stored' = {}
    BY <1>2, <1>3
  <2> QED BY <1>1, <1>3, <2>1, <2>2 DEF BatchesAgree, BatchOK
<1>4. ASSUME NEW b \in Batches,
             \/ ArriveBatch(b) \/ ServeBatch(b) \/ BreakDeadlock(b)
             \/ EnqueueFails(b) \/ FailBatch(b)
      PROVE  BatchOK(b)'
  <2>1. batch \in [Batches -> BatchRow] /\ BatchOK(b)
    BY DEF TypeOK, BatchesAgree
  <2>2. /\ batch[b].items \in Seq(Item) /\ batch[b].processed \in Nat
        /\ batch[b].fresh \in Seq(Alerts) /\ batch[b].pending \subseteq Item
    BY <2>1 DEF BatchRow
  <2>3. CASE ArriveBatch(b)
    <3>1. PICK items \in BatchItems :
            batch' = [batch EXCEPT ![b].items = items,
                        ![b].pc = IF items = <<>> THEN "commit" ELSE "items"]
      BY <2>3 DEF ArriveBatch
    <3>2. items \in Seq(Item) /\ (items # <<>> => Len(items) > 0) /\ Len(items) >= 0
      BY IngestionAssumption
    <3>3. /\ batch[b].pc = "idle" /\ batch[b].pending = {} /\ batch[b].processed = 0
          /\ batch[b].answer = "none" /\ UNCHANGED row
      BY <2>1, <2>3 DEF ArriveBatch, BatchOK
    <3>4. /\ batch'[b].items = items /\ batch'[b].pc \in {"items", "commit"}
          /\ batch'[b].pc = "items" => items # <<>>
          /\ batch'[b].pending = {} /\ batch'[b].processed = 0
          /\ batch'[b].answer = "none" /\ batch'[b].fresh = batch[b].fresh
      BY <2>1, <3>1, <3>3 DEF BatchRow
    <3> HIDE <3>1
    <3> QED BY <3>2, <3>4 DEF BatchOK, HeldByBatch
  <2>4. \A i \in 1..batch[b].processed : i <= Len(batch[b].items)
    BY <2>1, <2>2 DEF BatchOK
  <2> DEFINE done == batch[b].processed + 1
  <2>5. batch[b].pc = "items" =>
          /\ done \in 1..Len(batch[b].items) /\ ItemAt(b) = batch[b].items[done]
          /\ \A i \in 1..done : i \in 1..batch[b].processed \/ i = done
          /\ AfterItem(b) = "items" => done < Len(batch[b].items)
          /\ AfterItem(b) \in {"items", "commit"}
    BY <2>1, <2>2 DEF BatchOK, ItemAt, AfterItem
  <2>6. CASE PersistItem(b)
    <3>1. /\ batch'[b].pc = AfterItem(b) /\ batch'[b].processed = done
          /\ batch'[b].pending = batch[b].pending \cup {ItemAt(b)}
          /\ batch'[b].fresh = Append(batch[b].fresh, ItemAt(b).alert)
          /\ batch'[b].items = batch[b].items /\ batch'[b].answer = batch[b].answer
          /\ batch[b].pc = "items" /\ UNCHANGED row
          /\ ItemAt(b).alert \notin Stored \cup HeldByBatch(b)
      BY <2>1, <2>6 DEF PersistItem, BatchRow
    <3>2. HeldByBatch(b)' = HeldByBatch(b) \cup {ItemAt(b).alert} /\ Stored' = Stored
      BY <3>1 DEF HeldByBatch, Stored
    <3>3. Range(batch'[b].fresh) = Range(batch[b].fresh) \cup {ItemAt(b).alert}
      BY <2>2, <3>1, AppendRange
    <3>4. \A i, j \in batch'[b].pending : i.alert = j.alert => i = j
      BY <2>1, <3>1 DEF BatchOK, HeldByBatch
    <3>5. \A i \in 1..done : batch[b].items[i].alert \in Stored \cup HeldByBatch(b)'
      BY <2>1, <2>4, <2>5, <3>1, <3>2 DEF BatchOK
    <3> HIDE DEF done
    <3> QED BY <2>1, <2>5, <3>1, <3>2, <3>3, <3>4, <3>5 DEF BatchOK
  <2>7. CASE SkipDuplicate(b)
    <3>1. /\ batch'[b].pc = AfterItem(b) /\ batch'[b].processed = done
          /\ batch'[b].pending = batch[b].pending /\ batch'[b].fresh = batch[b].fresh
          /\ batch'[b].items = batch[b].items /\ batch'[b].answer = batch[b].answer
          /\ batch[b].pc = "items" /\ UNCHANGED row
          /\ ItemAt(b).alert \in Stored \cup HeldByBatch(b)
      BY <2>1, <2>7 DEF SkipDuplicate, BatchRow
    <3>2. HeldByBatch(b)' = HeldByBatch(b) /\ Stored' = Stored
      BY <3>1 DEF HeldByBatch, Stored
    <3>3. \A i \in 1..done : batch[b].items[i].alert \in Stored \cup HeldByBatch(b)
      BY <2>1, <2>4, <2>5, <3>1 DEF BatchOK
    <3> HIDE DEF done
    <3> QED BY <2>1, <2>5, <3>1, <3>2, <3>3 DEF BatchOK
  <2>8. CASE CommitChunk(b)
    <3>1. /\ batch'[b].pc = IF batch[b].processed = Len(batch[b].items)
                              THEN "enqueue" ELSE "items"
          /\ batch'[b].pending = {} /\ batch'[b].fresh = batch[b].fresh
          /\ batch'[b].processed = batch[b].processed
          /\ batch'[b].items = batch[b].items /\ batch'[b].answer = batch[b].answer
          /\ batch[b].pc = "commit" /\ batch[b].answer = "none"
      BY <2>1, <2>8 DEF CommitChunk, BatchRow, BatchOK
    <3>2. HeldByBatch(b)' = {}
      BY <3>1 DEF HeldByBatch
    <3>3. HeldByBatch(b) \subseteq Stored'
      BY <3>1, ClaimsStep, <1>1, <3>2, <2>8 DEF ClaimsExclusive, BatchClaims, BatchOK, BatchesAgree
    <3>4. batch[b].processed <= Len(batch[b].items)
      BY <2>1, <3>1 DEF BatchOK
    <3> QED BY <1>1, <2>1, <2>2, <2>4, <3>1, <3>2, <3>3, <3>4 DEF BatchOK
  <2>9. CASE EnqueueJob(b) \/ EnqueueFails(b)
    <3>1. /\ batch'[b].pc = "done" /\ batch'[b].answer \in {"enqueued", "not_enqueued"}
          /\ batch'[b].pending = batch[b].pending /\ batch'[b].fresh = batch[b].fresh
          /\ batch'[b].processed = batch[b].processed /\ batch'[b].items = batch[b].items
          /\ batch[b].pc = "enqueue" /\ UNCHANGED row
      BY <2>1, <2>9 DEF EnqueueJob, CanEnqueue, EnqueueFails, BatchRow
    <3>2. HeldByBatch(b)' = HeldByBatch(b) /\ Stored' = Stored
      BY <3>1 DEF HeldByBatch, Stored
    <3> QED BY <2>1, <3>1, <3>2 DEF BatchOK
  <2>10. CASE BreakDeadlock(b) \/ FailBatch(b)
    <3>1. /\ batch'[b].pc = "done" /\ batch'[b].answer = "error"
          /\ batch'[b].pending = {} /\ UNCHANGED row
          /\ batch'[b].processed = batch[b].processed /\ batch'[b].items = batch[b].items
      <4>1. AbortBatch(b)
        BY <2>10 DEF BreakDeadlock, FailBatch
      <4> QED BY <2>1, <4>1 DEF AbortBatch, RolledBack, BatchRow
    <3> QED BY <2>1, <3>1 DEF BatchOK, HeldByBatch
  <2> QED BY <1>4, <2>3, <2>6, <2>7, <2>8, <2>9, <2>10 DEF ServeBatch
<1>5. \A c \in Batches : BatchOK(c)'
  <2>1. CASE UNCHANGED batch
    BY <1>3, <1>4, <2>1 DEF ServeBatch
  <2>2. CASE ~UNCHANGED batch
    <3>1. PICK b \in Batches :
             /\ \/ ArriveBatch(b) \/ ServeBatch(b) \/ BreakDeadlock(b)
                \/ EnqueueFails(b) \/ FailBatch(b)
             /\ \A c \in Batches \ {b} : batch'[c] = batch[c]
      BY <2>2, OneBatchMoves
    <3> QED BY <1>3, <1>4, <3>1 DEF ServeBatch
  <2> QED BY <2>1, <2>2
<1> QED BY <1>5 DEF BatchesAgree

LEMMA JobsStep ==
    ASSUME TypeOK, BatchesAgree, JobsAgree, [Next]_vars
    PROVE  JobsAgree'
<1>1. batch \in [Batches -> BatchRow] /\ job \in [Batches -> JobRow]
  BY DEF TypeOK
<1>2. ASSUME NEW b \in Batches
      PROVE  batch[b].answer \in {"enqueued", "not_enqueued"} => batch'[b] = batch[b]
  <2>1. batch[b].answer \in {"enqueued", "not_enqueued"} => batch[b].pc = "done"
    BY DEF BatchesAgree, BatchOK
  <2> QED BY <2>1, OneBatchMoves DEF ArriveBatch, ServeBatch, PersistItem, SkipDuplicate,
          CommitChunk, EnqueueJob, CanEnqueue, EnqueueFails, BreakDeadlock, FailBatch, AbortBatch, RolledBack
<1>3. ASSUME NEW b \in Batches
      PROVE  /\ job'[b].pc # "none" =>
                  job[b].pc # "none" \/ batch'[b].answer \in {"enqueued", "not_enqueued"}
             /\ job'[b].next \in Nat \ {0}
  <2>1. job[b].next \in Nat \ {0} /\ job[b] \in JobRow
    BY <1>1 DEF JobsAgree
  <2>2. CASE job'[b] = job[b]
    BY <2>1, <2>2
  <2>3. CASE Work(b) \/ GroupAlertFails(b) \/ StopWorker(b) \/ TimeOutJob(b)
    <3>1. job[b].pc # "none" /\ job[b].next + 1 \in Nat \ {0}
      BY <2>1, <2>3 DEF Work, TakeJob, GiveUpJob, GroupAlert, NextId, FinishJob, GroupAlertFails,
         StopWorker, TimeOutJob, Working
    <3>2. job'[b].next \in {job[b].next, job[b].next + 1, 1}
      BY <1>1, <2>1, <2>3 DEF Work, TakeJob, GiveUpJob, GroupAlert, NextId, FinishJob,
         GroupAlertFails, StopWorker, TimeOutJob, DropJob, RestartAt, JobRow
    <3> QED BY <2>1, <3>1, <3>2
  <2>4. CASE EnqueueJob(b) \/ EnqueueFails(b)
    <3>1. batch'[b].answer \in {"enqueued", "not_enqueued"}
      BY <1>1, <2>4 DEF EnqueueJob, CanEnqueue, EnqueueFails, BatchRow
    <3>2. job'[b] = Queued \/ job'[b] = job[b]
      BY <1>1, <2>4 DEF EnqueueJob, CanEnqueue, EnqueueFails
    <3> QED BY <2>1, <3>1, <3>2 DEF Queued
  <2>5. CASE RestartRedis
    BY <1>1, <2>1, <2>5 DEF RestartRedis, JobRow
  <2> QED BY <2>2, <2>3, <2>4, <2>5, OneJobMoves
<1> QED BY <1>2, <1>3 DEF JobsAgree

\* Entries are stored after the commit that makes them true, and never by
\* anything else; rows do not change afterwards.
LEMMA EntriesStep ==
    ASSUME TypeOK, RequestsAgree, BatchesAgree, EntryNamesStoredAlert, [Next]_vars
    PROVE  EntryNamesStoredAlert'
<1>1. /\ \A a \in Stored : row'[a] = row[a]
      /\ cased \subseteq cased'
  BY RowsGrow
<1>2. cache \in [Key -> Item \cup {NoEntry}] /\ row \in [Alerts -> Bodies \cup {NoBody}]
  BY DEF TypeOK
<1>3. ASSUME NEW k \in Key, cache'[k] = cache[k], cache[k] # NoEntry
      PROVE  /\ row'[cache[k].alert] = cache[k].body
             /\ cache[k].alert \in cased'
             /\ k \in NaturalKeys => NaturalKey[cache[k].alert] = k
  <2>1. cache[k] \in Item /\ cache[k].alert \in Alerts /\ cache[k].body \in Bodies
    BY <1>2, <1>3 DEF Item
  <2>2. cache[k].alert \in Stored
    BY <1>3, <2>1, IngestionAssumption DEF Stored, EntryNamesStoredAlert
  <2> QED BY <1>1, <1>3, <2>2 DEF EntryNamesStoredAlert
<1>4. ASSUME NEW r \in Requests, StoreEntry(r)
      PROVE  /\ \A k \in Key \ {KeyOf(r)} : cache'[k] = cache[k]
             /\ row'[req[r].item.alert] = req[r].item.body
             /\ req[r].item.alert \in cased'
             /\ KeyOf(r) \in NaturalKeys => NaturalKey[req[r].item.alert] = KeyOf(r)
             /\ cache' = [cache EXCEPT ![KeyOf(r)] = req[r].item]
  <2>1. req[r].header \in HeaderKeys \cup {NoHeader}
    BY DEF TypeOK, RequestRow
  <2>2. KeyOf(r) \in NaturalKeys => NaturalKey[req[r].item.alert] = KeyOf(r)
    BY <2>1, IngestionAssumption DEF KeyOf, ComputeKey
  <2> QED BY <1>2, <1>4, <2>2 DEF StoreEntry, RequestsAgree, RequestOK
<1>5. \/ \E r \in Requests : StoreEntry(r)
      \/ \A k \in Key : cache'[k] \in {cache[k], NoEntry}
  <2>1. ASSUME NEW k \in Key, ExpireEntry(k)
        PROVE  \A j \in Key : cache'[j] \in {cache[j], NoEntry}
    BY <1>2, <2>1 DEF ExpireEntry
  <2>2. RestartRedis => \A k \in Key : cache'[k] = NoEntry
    BY DEF RestartRedis
  <2>3. ASSUME NEW r \in Requests,
               Serve(r) \/ Arrive(r) \/ RedisUnavailable(r) \/ FailRequest(r)
        PROVE  UNCHANGED cache \/ StoreEntry(r)
    BY <2>3 DEF Serve, Arrive, Replay, Miss, InsertAlert, FindExisting, GroupAndCommit,
       RedisUnavailable, FailRequest
  <2>4. ASSUME NEW b \in Batches,
               \/ ArriveBatch(b) \/ ServeBatch(b) \/ BreakDeadlock(b) \/ EnqueueFails(b)
               \/ FailBatch(b)
               \/ Work(b) \/ GroupAlertFails(b) \/ StopWorker(b) \/ TimeOutJob(b)
        PROVE  UNCHANGED cache
    BY <2>4 DEF ArriveBatch, ServeBatch, PersistItem, SkipDuplicate, CommitChunk, EnqueueJob, CanEnqueue,
       EnqueueFails, BreakDeadlock, FailBatch, AbortBatch, RolledBack, Work, TakeJob, GiveUpJob, GroupAlert,
       FinishJob, GroupAlertFails, StopWorker, TimeOutJob, DropJob, RestartAt
  <2> QED BY <2>1, <2>2, <2>3, <2>4 DEF Next, vars
<1>6. CASE \E r \in Requests : StoreEntry(r)
  <2>1. PICK r \in Requests : StoreEntry(r)
    BY <1>6
  <2>2. ASSUME NEW k \in Key, k = KeyOf(r)
        PROVE  cache'[k] = req[r].item
    BY <1>2, <1>4, <2>1, <2>2
  <2> QED BY <1>3, <1>4, <2>1, <2>2 DEF EntryNamesStoredAlert
<1>7. CASE \A k \in Key : cache'[k] \in {cache[k], NoEntry}
  BY <1>3, <1>7 DEF EntryNamesStoredAlert
<1> QED BY <1>5, <1>6, <1>7

LEMMA TrackedStep ==
    ASSUME TypeOK, RequestsAgree, BatchesAgree, ClaimsExclusive, JobsAgree, StoredIsTracked,
           [Next]_vars
    PROVE  StoredIsTracked'
<1> DEFINE InBatch(a, b) == /\ batch[b].pc \in {"items", "commit", "enqueue"}
                            /\ a \in Range(batch[b].fresh)
           InJob(a, b) == /\ job[b].pc \in {"queued", "running", "orphan"}
                          /\ a \in Ahead(b)
<1>1. batch \in [Batches -> BatchRow] /\ job \in [Batches -> JobRow] /\ cased \subseteq Alerts
  BY DEF TypeOK
<1>2. \A b \in Batches : batch[b].fresh \in Seq(Alerts) /\ job[b].next \in Nat \ {0}
  BY <1>1 DEF BatchRow, JobsAgree
<1>3. dropped \subseteq dropped'
  BY DEF Next, Serve, Arrive, Replay, Miss, InsertAlert, FindExisting, GroupAndCommit,
     StoreEntry, RedisUnavailable, FailRequest, ServeBatch, ArriveBatch, PersistItem,
     SkipDuplicate, CommitChunk, EnqueueJob, CanEnqueue, EnqueueFails, BreakDeadlock, FailBatch,
     AbortBatch, RolledBack, Work, TakeJob, GiveUpJob, GroupAlert, NextId, FinishJob, GroupAlertFails,
     StopWorker, TimeOutJob, DropJob, RestartAt, ExpireEntry, RestartRedis, vars
<1>4. \A b \in Batches : job'[b] = Queued /\ batch'[b].fresh = batch[b].fresh =>
         Ahead(b)' = Range(batch[b].fresh)
  BY <1>2 DEF Ahead, Queued, Range
<1>5. ASSUME NEW a \in Stored' \ Stored, a \notin cased'
      PROVE  \E b \in Batches : InBatch(a, b)'
  <2>1. ASSUME NEW r \in Requests, GroupAndCommit(r)
        PROVE  req[r].item.alert \in cased'
    BY <2>1 DEF GroupAndCommit
  <2>2. ASSUME NEW b \in Batches, CommitChunk(b), a \in HeldByBatch(b)
        PROVE  InBatch(a, b)'
    <3>1. a \in Range(batch[b].fresh)
      BY <2>2 DEF BatchesAgree, BatchOK
    <3>2. batch'[b].fresh = batch[b].fresh /\ batch'[b].pc \in {"items", "enqueue"}
      BY <1>1, <2>2 DEF CommitChunk, BatchRow
    <3> QED BY <3>1, <3>2
  <2>3. UNCHANGED row => Stored' = Stored
    BY DEF Stored
  <2> HIDE DEF InBatch
  <2> QED BY <1>5, <2>1, <2>2, <2>3, RowsGrow
<1>6. ASSUME NEW a \in Stored, NEW b \in Batches, InBatch(a, b)
      PROVE  InBatch(a, b)' \/ InJob(a, b)' \/ a \in dropped'
  <2>1. CASE batch'[b] = batch[b]
    BY <1>6, <2>1
  <2>2. CASE PersistItem(b)
    <3>1. batch'[b].pc = AfterItem(b) /\ batch'[b].fresh = Append(batch[b].fresh, ItemAt(b).alert)
      BY <1>1, <2>2 DEF PersistItem, BatchRow
    <3>2. Range(batch'[b].fresh) = Range(batch[b].fresh) \cup {ItemAt(b).alert}
      BY <1>2, <3>1, AppendRange
    <3> QED BY <1>6, <3>1, <3>2 DEF AfterItem
  <2>3. CASE SkipDuplicate(b) \/ CommitChunk(b)
    <3>1. /\ batch'[b].fresh = batch[b].fresh
          /\ batch'[b].pc \in {"items", "commit", "enqueue"}
      BY <1>1, <2>3 DEF SkipDuplicate, CommitChunk, AfterItem, BatchRow
    <3> QED BY <1>6, <3>1
  <2>4. CASE EnqueueJob(b) \/ EnqueueFails(b)
    <3>1. batch'[b].fresh = batch[b].fresh
      BY <1>1, <2>4 DEF EnqueueJob, CanEnqueue, EnqueueFails, BatchRow
    <3>2. job'[b] = Queued \/ Range(batch[b].fresh) \subseteq dropped'
      BY <1>1, <2>4 DEF EnqueueJob, CanEnqueue, EnqueueFails
    <3>3. job'[b] = Queued => InJob(a, b)'
      BY <1>4, <1>6, <3>1 DEF Queued
    <3> QED BY <1>6, <3>2, <3>3
  <2>5. CASE BreakDeadlock(b) \/ FailBatch(b)
    <3>1. a \notin HeldByBatch(b)
      BY HeldIsClaimed
    <3> QED BY <1>6, <2>5, <3>1 DEF BreakDeadlock, FailBatch, AbortBatch, RolledBack
  <2> QED BY <1>6, <2>1, <2>2, <2>3, <2>4, <2>5, OneBatchMoves DEF ServeBatch, ArriveBatch
<1>7. ASSUME NEW a \in Stored \ cased, NEW b \in Batches, InJob(a, b)
      PROVE  InJob(a, b)' \/ a \in dropped' \/ a \in cased'
  <2>1. batch'[b] = batch[b]
    <3>1. batch[b].answer \in {"enqueued", "not_enqueued"}
      BY <1>7 DEF JobsAgree
    <3>2. batch[b].pc = "done"
      BY <3>1 DEF BatchesAgree, BatchOK
    <3> QED BY <3>2, OneBatchMoves DEF ArriveBatch, ServeBatch, PersistItem, SkipDuplicate,
          CommitChunk, EnqueueJob, CanEnqueue, EnqueueFails, BreakDeadlock, FailBatch, AbortBatch, RolledBack
  <2>2. PICK i \in job[b].next..Len(batch[b].fresh) : a = batch[b].fresh[i]
    BY <1>7 DEF Ahead
  <2>3. i \in 1..Len(batch[b].fresh) /\ i >= job[b].next
    BY <1>2, <2>2
  <2>4. ASSUME job'[b].pc \in {"queued", "running", "orphan"}, job'[b].next \in Nat,
               i >= job'[b].next
        PROVE  InJob(a, b)'
    BY <1>2, <2>1, <2>2, <2>3, <2>4 DEF Ahead
  <2>5. CASE job'[b] = job[b]
    BY <1>2, <1>7, <2>3, <2>4, <2>5
  <2>6. CASE TakeJob(b)
    <3>1. job'[b].pc = "running" /\ job'[b].next = job[b].next
      BY <1>1, <2>6 DEF TakeJob, JobRow
    <3> QED BY <1>2, <2>3, <2>4, <3>1
  <2>7. CASE dropped' = dropped \cup (Ahead(b) \ cased)
    BY <1>7, <2>7
  <2>8. CASE GroupAlert(b) \/ GroupAlertFails(b)
    <3>1. job'[b].pc = job[b].pc /\ job'[b].next = job[b].next + 1
      BY <1>1, <2>8 DEF GroupAlert, NextId, GroupAlertFails, JobRow
    <3>2. CASE i = job[b].next
      BY <1>7, <2>2, <2>8, <3>2 DEF GroupAlert, GroupAlertFails
    <3>3. CASE i # job[b].next
      BY <1>2, <1>7, <2>3, <2>4, <3>1, <3>3
    <3> QED BY <3>2, <3>3
  <2>9. CASE FinishJob(b)
    BY <1>2, <2>3, <2>9 DEF FinishJob
  <2>10. CASE job' = [job EXCEPT ![b].pc = "queued", ![b].next = 1]
    <3>1. job'[b].pc = "queued" /\ job'[b].next = 1
      BY <1>1, <2>10 DEF JobRow
    <3> QED BY <2>3, <2>4, <3>1
  <2>11. CASE RestartRedis
    <3>1. CASE job[b].pc = "queued"
      <4>1. b \in {c \in Batches : job[c].pc = "queued"}
        BY <3>1
      <4>2. a \in QueuedIds
        BY <1>7, <4>1 DEF QueuedIds
      <4>3. dropped' = dropped \cup (QueuedIds \ cased)
        BY <2>11 DEF RestartRedis
      <4> QED BY <1>7, <4>2, <4>3
    <3>2. CASE job[b].pc # "queued"
      <4>1. job'[b].pc = "orphan" /\ job'[b].next = job[b].next
        BY <1>1, <1>7, <2>11, <3>2 DEF RestartRedis, JobRow
      <4> QED BY <1>2, <2>3, <2>4, <4>1
    <3> QED BY <3>1, <3>2
  <2>12. CASE EnqueueJob(b) \/ EnqueueFails(b)
    <3>1. batch[b].pc = "enqueue" /\ batch'[b].pc = "done"
      BY <1>1, <2>12 DEF EnqueueJob, CanEnqueue, EnqueueFails, BatchRow
    <3> QED BY <2>1, <3>1
  <2> HIDE DEF InJob
  <2>13. CASE Work(b) \/ GroupAlertFails(b) \/ StopWorker(b) \/ TimeOutJob(b)
    BY <2>6, <2>7, <2>8, <2>9, <2>10, <2>13
       DEF Work, GiveUpJob, StopWorker, TimeOutJob, DropJob, RestartAt
  <2> QED BY <2>5, <2>11, <2>12, <2>13, OneJobMoves
<1> HIDE DEF InBatch, InJob
<1>8. ASSUME NEW a \in Stored' \ cased'
      PROVE  a \in dropped' \/ \E b \in Batches : InBatch(a, b)' \/ InJob(a, b)'
  <2>1. CASE a \notin Stored
    BY <1>5, <1>8, <2>1
  <2>2. CASE a \in Stored
    <3>1. a \notin cased
      BY <1>8, RowsGrow
    <3>2. a \in dropped \/ \E b \in Batches : InBatch(a, b) \/ InJob(a, b)
      BY <2>2, <3>1 DEF StoredIsTracked, InBatch, InJob
    <3> QED BY <1>3, <1>6, <1>7, <1>8, <2>2, <3>1, <3>2
  <2> QED BY <2>1, <2>2
<1> QED BY <1>8 DEF StoredIsTracked, InBatch, InJob

-----------------------------------------------------------------------------
(* The theorems. *)

LEMMA InvInit == Init => IngestInv
<1> SUFFICES ASSUME Init PROVE IngestInv
  OBVIOUS
<1>1. TypeOK
  BY TypeInit
<1>2. Stored = {} /\ \A b \in Batches : HeldByBatch(b) = {}
  BY DEF Init, Stored, HeldByBatch
<1>3. RequestsAgree
  BY DEF Init, RequestsAgree, RequestOK
<1>4. BatchesAgree
  BY <1>2 DEF Init, BatchesAgree, BatchOK
<1>5. /\ \A r \in Requests : RequestClaims(r) = {}
      /\ \A b \in Batches : BatchClaims(b) = {}
  BY DEF Init, RequestClaims, BatchClaims, Range
<1>6. ClaimsExclusive
  BY <1>5 DEF ClaimsExclusive
<1>7. JobsAgree /\ EntryNamesStoredAlert
  BY DEF Init, JobsAgree, EntryNamesStoredAlert
<1>8. StoredIsTracked
  BY <1>2 DEF StoredIsTracked
<1> QED BY <1>1, <1>3, <1>4, <1>6, <1>7, <1>8 DEF IngestInv

LEMMA InvStep == IngestInv /\ [Next]_vars => IngestInv'
BY TypeStep, RequestsStep, BatchesStep, ClaimsStep, JobsStep, EntriesStep, TrackedStep
   DEF IngestInv

\* The invariant holds in every reachable state.
THEOREM IngestionInvariant == Spec => []IngestInv
BY InvInit, InvStep, PTL DEF Spec

\* A stored alert without a case is ahead in a batch or in a job, or one of the
\* named failures took it: nothing else loses an alert between the commit of a
\* chunk (routes.py:216) and the worker's (worker.py:73).
THEOREM NothingIsLostSilently == Spec => []StoredIsTracked
<1>1. IngestInv => StoredIsTracked
  BY DEF IngestInv
<1> QED BY <1>1, IngestionInvariant, PTL

\* At most one caller is told that it created an alert, whatever the requests
\* and batches that carry it do at the same time.
THEOREM CreatedOnlyOnce == Spec => []CreatedOnce
<1>1. IngestInv => CreatedOnce
  <2> SUFFICES ASSUME IngestInv PROVE CreatedOnce
    OBVIOUS
  <2>1. \A r \in Requests : req[r].answer = "created" => RequestClaims(r) = {req[r].item.alert}
    BY DEF RequestClaims
  <2>2. \A b \in Batches : batch[b].answer # "error" => BatchClaims(b) = Range(batch[b].fresh)
    BY DEF BatchClaims
  <2> QED BY <2>1, <2>2 DEF CreatedOnce, IngestInv, ClaimsExclusive
<1> QED BY <1>1, IngestionInvariant, PTL

\* An answer never promises more than the database holds.
THEOREM AnswersAreDurable == Spec => []AnsweredIsStored
<1>1. IngestInv => AnsweredIsStored
  <2> SUFFICES ASSUME IngestInv PROVE AnsweredIsStored
    OBVIOUS
  <2>1. ASSUME NEW r \in Requests, req[r].said # NoEntry
        PROVE  /\ req[r].said.alert = req[r].item.alert
               /\ row[req[r].said.alert] = req[r].said.body
               /\ req[r].answer \in {"created", "replayed"} => req[r].said.alert \in cased
    BY <2>1 DEF IngestInv, RequestsAgree, RequestOK
  <2>2. ASSUME NEW b \in Batches, batch[b].answer \in {"enqueued", "not_enqueued"}
        PROVE  \A i \in 1..Len(batch[b].items) : batch[b].items[i].alert \in Stored
    <3>1. BatchOK(b)
      BY DEF IngestInv, BatchesAgree
    <3>2. HeldByBatch(b) = {} /\ batch[b].processed = Len(batch[b].items)
      BY <2>2, <3>1 DEF BatchOK, HeldByBatch
    <3> QED BY <2>2, <3>1, <3>2 DEF BatchOK
  <2> QED BY <2>1, <2>2 DEF AnsweredIsStored
<1> QED BY <1>1, IngestionInvariant, PTL

\* An idempotency entry always tells of a committed and grouped alert.
THEOREM EntriesAreTrue == Spec => []EntryNamesStoredAlert
<1>1. IngestInv => EntryNamesStoredAlert
  BY DEF IngestInv
<1> QED BY <1>1, IngestionInvariant, PTL

\* The worker's LookupError is unreachable: a job's alerts are committed.
THEOREM JobsFindAlerts == Spec => []JobsFindTheirAlerts
<1>1. IngestInv => JobsFindTheirAlerts
  <2> SUFFICES ASSUME IngestInv, NEW b \in Batches, job[b].pc # "none"
               PROVE  Range(batch[b].fresh) \subseteq Stored
    BY DEF JobsFindTheirAlerts
  <2>1. batch[b].answer \in {"enqueued", "not_enqueued"} /\ BatchOK(b)
    BY DEF IngestInv, JobsAgree, BatchesAgree
  <2>2. HeldByBatch(b) = {}
    BY <2>1 DEF BatchOK, HeldByBatch
  <2> QED BY <2>1, <2>2 DEF IngestInv, ClaimsExclusive, BatchClaims
<1> QED BY <1>1, IngestionInvariant, PTL

=============================================================================
