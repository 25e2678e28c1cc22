---------------------------- MODULE GroupingEngine ----------------------------
(***************************************************************************)
(* The grouping engine (backend/app/grouping: blocking, scoring, engine),  *)
(* run for one alert after another as the worker does                      *)
(* (backend/app/worker.py) over the candidates the database returns        *)
(* (backend/app/grouping/persistence.py), and the case each run puts its   *)
(* alert in.  Grouping transactions that overlap are CaseGrouping's.       *)
(*                                                                         *)
(* The union-find is the code's: find climbs to the root and compresses    *)
(* the path behind it, one assignment a step.                              *)
(*                                                                         *)
(* An alert is its id: a number, ordered as the ids are.  A case is named  *)
(* by the alert it was created for.  Scores, tolerances and the threshold  *)
(* are whole percents.  The pins of group() are never passed by            *)
(* persistence and are left out.                                           *)
(***************************************************************************)
EXTENDS Integers, FiniteSets, FiniteSetsExt

CONSTANTS
    Alerts,       \* alert ids
    Payload,      \* what alerts may hold: a sequence of [time, amount, ref, typologies]
    Stored,       \* the data considered: functions from alerts to payloads
    Null,         \* an absent reference field
    Rules,        \* config.rules: [id, enabled, blocking, window, tolerance, match]
    Weights,      \* config.weights
    Threshold,    \* config.similarity_threshold
    Cap,          \* config.candidate_cap
    Decay,        \* the time feature of each gap between two events
    NameRatio,    \* the name feature of each pair of merchant names
    MaxLifecycle  \* bound: closes and re-opens by analysts

ASSUME GroupingEngineAssumption ==
    /\ Alerts \subseteq Nat /\ IsFiniteSet(Alerts)
    /\ Stored \subseteq [Alerts -> DOMAIN Payload]
    /\ Cap \in Nat /\ MaxLifecycle \in Nat

NoAlert == -1
Payloads == DOMAIN Payload

\* _BLOCKING_FIELDS of the candidate query.
BlockingFields == {"customer_ref", "account_ref", "counterparty_ref", "device_id",
                   "ip_address", "session_id", "merchant_name_normalised"}

VARIABLES
    data,      \* data[a]: the payload (its index) of a, as stored; it never changes
    case,      \* case[a]: alert.case_id, NoAlert while a is not grouped
    status,    \* status[c]: "None", "Open", "Closed" or "Merged"
    born,      \* born[c]: the rank of c's created_at, 0 if there is no such case
    decision,  \* decision[a]: the persisted grouping decision
    lifecycle, \* closes and re-opens so far
    pc,        \* where the run is: idle, low, high, key or apply
    alert,     \* the alert being grouped
    batch,     \* the engine's input: alert and its candidates
    kept,      \* the pairs of the batch that match
    parent,    \* the union-find forest
    todo,      \* those not united yet
    low,       \* the root of the low end of the edge in hand
    who,       \* the alert whose root is looked for ...
    root,      \* ... how far the climb has come ...
    node,      \* ... and the node the compression has reached
    key        \* key[b]: the group_key of b, NoAlert until it is looked up

store == <<data, case, status, born, decision, lifecycle>>
finding == <<who, root, node>>
run == <<pc, alert, batch, kept, parent, todo, low, finding, key>>
vars == <<store, run>>

-----------------------------------------------------------------------------
(* blocking.py *)

Abs(n) == IF n < 0 THEN -n ELSE n
Gap(p, q) == Abs(p.time - q.time)

AmountBucket(amount) == Cardinality({b \in {10, 100, 1000, 10000} : amount >= b})

Field(p, k) == IF k = "amount_bucket" THEN AmountBucket(p.amount) ELSE p.ref[k]

Enabled == {r \in Rules : r.enabled}

\* blocking_key_values are equal: no component is Null on either side.
ShareBlock(r, p, q) ==
    /\ r.blocking # {}
    /\ \A k \in r.blocking : Field(p, k) # Null /\ Field(p, k) = Field(q, k)

\* The payloads that fall in one bucket of an enabled rule, inside its window.
BlockTable ==
    {pq \in Payloads \X Payloads : \E r \in Enabled :
        /\ ShareBlock(r, Payload[pq[1]], Payload[pq[2]])
        /\ Gap(Payload[pq[1]], Payload[pq[2]]) <= r.window}

Blocked(a, b) == <<data[a], data[b]>> \in BlockTable

Counterparts(ids, a) == {b \in ids \ {a} : Blocked(a, b)}

Smallest(n, ids) == {a \in ids : Cardinality({b \in ids : b < a}) < n}

Allowed(ids, a) == Smallest(Cap, Counterparts(ids, a))

\* Each end keeps at most Cap counterparts, and a pair needs both ends.
CandidatePairs(ids) ==
    {e \in ids \X ids : e[1] < e[2] /\ e[1] \in Allowed(ids, e[2]) /\ e[2] \in Allowed(ids, e[1])}

-----------------------------------------------------------------------------
(* scoring.py *)

KeyAgrees(k, p, q, r) ==
    IF k = "amount"
    THEN 100 * Abs(p.amount - q.amount) <= r.tolerance * Max({p.amount, q.amount, 1})
    ELSE Field(p, k) # Null /\ Field(p, k) = Field(q, k)

DeterministicMatch(p, q) ==
    {r.id : r \in {s \in Enabled :
        Gap(p, q) <= s.window /\ \A k \in s.match : KeyAgrees(k, p, q, s)}}

Same(k, p, q) == IF p.ref[k] # Null /\ p.ref[k] = q.ref[k] THEN 100 ELSE 0

Contributions(p, q) ==
    LET names == <<p.ref["merchant_name_normalised"], q.ref["merchant_name_normalised"]>>
        either == p.typologies \cup q.typologies
    IN  [time     |-> Decay[Gap(p, q)],
         amount   |-> 100 - Min({100, (100 * Abs(p.amount - q.amount))
                                        \div Max({p.amount, q.amount, 1})}),
         name     |-> IF names[1] = Null \/ names[2] = Null THEN 0 ELSE NameRatio[names],
         device   |-> Same("device_id", p, q),
         ip       |-> Same("ip_address", p, q),
         typology |-> IF either = {} THEN 0
                      ELSE (100 * Cardinality(p.typologies \cap q.typologies))
                               \div Cardinality(either)]

\* _FEATURE_KEYS
Features == {"time", "amount", "name", "device", "ip", "typology"}

SumOf(f) == f.time + f.amount + f.name + f.device + f.ip + f.typology

WeightedScore(contributions) ==
    SumOf([f \in Features |-> Weights[f] * contributions[f]]) \div SumOf(Weights)

\* What the configuration and the stored alerts hold: numbers where the score is
\* computed from them, and weights whose sum divides (0 is a ZeroDivisionError).
ASSUME ScoringAssumption ==
    /\ IsFiniteSet(Rules) /\ \A r \in Rules : r.window \in Nat
    /\ Weights \in [Features -> Nat] /\ SumOf(Weights) > 0
    /\ \A i \in Payloads : /\ Payload[i].time \in Int /\ Payload[i].amount \in Int
                           /\ IsFiniteSet(Payload[i].typologies)
    /\ \A i, j \in Payloads :
           LET p == Payload[i]
               q == Payload[j]
               names == <<p.ref["merchant_name_normalised"], q.ref["merchant_name_normalised"]>>
           IN  /\ Decay[Gap(p, q)] \in Int
               /\ names[1] = Null \/ names[2] = Null \/ NameRatio[names] \in Int

PairDecision(p, q) ==
    LET matched == DeterministicMatch(p, q)
    IN  IF matched # {} THEN [method |-> "deterministic", rules |-> matched, score |-> 0]
        ELSE [method |-> "similarity", rules |-> {}, score |-> WeightedScore(Contributions(p, q))]

-----------------------------------------------------------------------------
(* engine.py *)

VerdictTable ==
    [pq \in Payloads \X Payloads |-> PairDecision(Payload[pq[1]], Payload[pq[2]])]

\* The verdict on a pair is asked with the lower id first.
Verdict(a, b) == IF a < b THEN VerdictTable[<<data[a], data[b]>>]
                          ELSE VerdictTable[<<data[b], data[a]>>]

Keep(a, b) == Verdict(a, b).rules # {} \/ Verdict(a, b).score >= Threshold

Kept(ids) == {e \in CandidatePairs(ids) : Keep(e[1], e[2])}

\* Mutant: a pair that was not kept is cited.
IncidentCandidate(a) ==
    {b \in batch : <<a, b>> \in CandidatePairs(batch) \/ <<b, a>> \in CandidatePairs(batch)}

Incident(a) == {b \in batch : <<a, b>> \in kept \/ <<b, a>> \in kept}

\* _edge_sort_key: deterministic first, then the higher score, then the lower id.
Stronger(a, b, c) ==
    LET v == Verdict(a, b)
        w == Verdict(a, c)
    IN  \/ v.method # w.method /\ v.method = "deterministic"
        \/ v.method = w.method /\ v.score > w.score
        \/ v.method = w.method /\ v.score = w.score /\ b <= c

Singleton == [method |-> "singleton", rules |-> {}, score |-> 0]

\* The decision on a: the verdict on its strongest kept edge.
Decision(a) ==
    IF Incident(a) = {} THEN Singleton
    ELSE Verdict(a, CHOOSE b \in Incident(a) : \A c \in Incident(a) : Stronger(a, b, c))

-----------------------------------------------------------------------------
(* One run: apply_grouping_for_alert around group().  Cases and candidates. *)

Exists(c) == born[c] > 0
Ungrouped(a) == case[a] = NoAlert

\* Mutant: the first window serves all rules.
NarrowestWindow == Min({r.window : r \in Enabled})

WidestWindow == Max({r.window : r \in Enabled} \cup {0})

\* The payloads that agree on one blocking field, inside the widest window.
ReachTable ==
    {pq \in Payloads \X Payloads :
        LET p == Payload[pq[1]]
            q == Payload[pq[2]]
        IN  /\ Gap(p, q) <= WidestWindow
            /\ \E k \in BlockingFields : p.ref[k] # Null /\ p.ref[k] = q.ref[k]}

InReach(a) == {b \in Alerts \ {a} : <<data[a], data[b]>> \in ReachTable}

Near(a) == {b \in InReach(a) : ~Ungrouped(b)}

\* Mutant: the query has no LIMIT.
AllNear(a) == {Near(a)}

\* ORDER BY event_time DESC LIMIT candidate_cap; equal times come in any order.
NewestNear(a) ==
    {S \in SUBSET Near(a) :
        /\ Cardinality(S) = Min({Cap, Cardinality(Near(a))})
        /\ \A b \in S, c \in Near(a) \ S : Payload[data[b]].time >= Payload[data[c]].time}

Singletons == [a \in Alerts |-> a]
NoKeys == [a \in Alerts |-> NoAlert]

Init ==
    /\ data \in Stored
    /\ case = [a \in Alerts |-> NoAlert]
    /\ status = [c \in Alerts |-> "None"]
    /\ born = [c \in Alerts |-> 0]
    /\ decision = [a \in Alerts |-> Singleton]
    /\ lifecycle = 0
    /\ pc = "idle" /\ alert = NoAlert /\ batch = {} /\ kept = {} /\ todo = {}
    /\ low = NoAlert /\ parent = Singletons /\ key = NoKeys
    /\ who = NoAlert /\ root = NoAlert /\ node = NoAlert

Find(a) == who' = a /\ root' = a /\ node' = a

\* The edges are united in sorted order.
Before(e, f) == e[1] < f[1] \/ (e[1] = f[1] /\ e[2] <= f[2])
NextEdge(edges) == CHOOSE e \in edges : \A f \in edges : Before(e, f)

\* On to the next edge, or, when there is none, to the group keys.
NextFind(edges) ==
    IF edges # {} THEN pc' = "low" /\ Find(NextEdge(edges)[1])
    ELSE pc' = "key" /\ Find(Min(batch'))

StartRun(a) ==
    /\ pc = "idle"
    /\ Ungrouped(a)
    /\ \E candidates \in NewestNear(a) :
        /\ batch' = candidates \cup {a}
        /\ kept' = Kept(candidates \cup {a})
    /\ todo' = kept'
    /\ alert' = a
    /\ parent' = Singletons
    /\ key' = NoKeys
    /\ low' = NoAlert
    /\ NextFind(todo')
    /\ UNCHANGED store

Searching == pc \in {"low", "high", "key"}

AtRoot == parent[root] = root

\* while parent[root] != root: root = parent[root]
Climb ==
    /\ Searching
    /\ ~AtRoot
    /\ root' = parent[root]
    /\ UNCHANGED <<store, pc, alert, batch, kept, parent, todo, low, who, node, key>>

\* while parent[x] != root: parent[x], x = root, parent[x]
Compress ==
    /\ Searching
    /\ AtRoot
    /\ parent[node] # root
    /\ parent' = [parent EXCEPT ![node] = root]
    /\ node' = parent[node]
    /\ UNCHANGED <<store, pc, alert, batch, kept, todo, low, who, root, key>>

Found == AtRoot /\ parent[node] = root

FoundLow ==
    /\ pc = "low"
    /\ Found
    /\ low' = root
    /\ pc' = "high"
    /\ Find(NextEdge(todo)[2])
    /\ UNCHANGED <<store, alert, batch, kept, parent, todo, key>>

\* Mutant: the higher root is the new root.
UniteHigh(a, b) == IF a = b THEN parent ELSE [parent EXCEPT ![Min({a, b})] = Max({a, b})]

\* The lower of two roots becomes the parent of the higher.
Unite(a, b) == IF a = b THEN parent ELSE [parent EXCEPT ![Max({a, b})] = Min({a, b})]

FoundHigh ==
    /\ pc = "high"
    /\ Found
    /\ parent' = Unite(low, root)
    /\ todo' = todo \ {NextEdge(todo)}
    /\ low' = NoAlert
    /\ batch' = batch
    /\ NextFind(todo')
    /\ UNCHANGED <<store, alert, kept, key>>

\* The group_key of who; the next alert's, or all keys are known.
FoundKey ==
    /\ pc = "key"
    /\ Found
    /\ key' = [key EXCEPT ![who] = root]
    /\ LET rest == {b \in batch \ {who} : key[b] = NoAlert}
       IN  IF rest # {} THEN pc' = "key" /\ Find(Min(rest))
           ELSE pc' = "apply" /\ UNCHANGED finding
    /\ UNCHANGED <<store, alert, batch, kept, parent, todo, low>>

\* Mutant: every candidate's case.
MatchedAnyKey == {case[b] : b \in batch \ {alert}}

\* The cases of the candidates that got the alert's key.
Matched == {case[b] : b \in {c \in batch \ {alert} : key[c] = key[alert]}}

OpenMatched == {c \in Matched : status[c] \notin {"Merged", "Closed"}}

\* The earliest created_at.
Survivor == CHOOSE c \in OpenMatched : \A d \in OpenMatched : born[c] <= born[d]

Target == IF OpenMatched = {} THEN alert ELSE Survivor

\* Create, attach or merge; then the decision.
ApplyGrouping ==
    /\ pc = "apply"
    /\ LET losers == OpenMatched \ {Target}
       IN  /\ case' = [a \in Alerts |-> IF a = alert \/ case[a] \in losers THEN Target ELSE case[a]]
           /\ status' = [c \in Alerts |-> IF c \in losers THEN "Merged"
                                          ELSE IF c = Target THEN
                                              IF OpenMatched = {} THEN "Open" ELSE status[c]
                                          ELSE status[c]]
    /\ born' = IF OpenMatched = {}
               THEN [born EXCEPT ![alert] = 1 + Cardinality({c \in Alerts : Exists(c)})]
               ELSE born
    /\ decision' = [decision EXCEPT ![alert] = Decision(alert)]
    /\ pc' = "idle" /\ alert' = NoAlert /\ batch' = {} /\ kept' = {} /\ todo' = {}
    /\ low' = NoAlert /\ parent' = Singletons /\ key' = NoKeys
    /\ Find(NoAlert)
    /\ UNCHANGED <<data, lifecycle>>

\* An analyst closes a case, or re-opens it (transition_case).  A run reads no status
\* before its last step, so a change inside a run is the same as one before it.
Lifecycle(c) ==
    /\ pc = "idle"
    /\ lifecycle < MaxLifecycle
    /\ \/ status[c] = "Open" /\ status' = [status EXCEPT ![c] = "Closed"]
       \/ status[c] = "Closed" /\ status' = [status EXCEPT ![c] = "Open"]
    /\ lifecycle' = lifecycle + 1
    /\ UNCHANGED <<data, case, born, decision, run>>

Engine == Climb \/ Compress \/ FoundLow \/ FoundHigh \/ FoundKey \/ ApplyGrouping

Next ==
    \/ \E a \in Alerts : StartRun(a)
    \/ Engine
    \/ \E c \in Alerts : Lifecycle(c)

Spec == Init /\ [][Next]_vars

-----------------------------------------------------------------------------
TypeOK ==
    /\ data \in [Alerts -> Payloads]
    /\ case \in [Alerts -> Alerts \cup {NoAlert}]
    /\ status \in [Alerts -> {"None", "Open", "Closed", "Merged"}]
    /\ born \in [Alerts -> Nat]
    /\ lifecycle \in 0..MaxLifecycle
    /\ pc \in {"idle", "low", "high", "key", "apply"}
    /\ alert \in Alerts \cup {NoAlert}
    /\ batch \subseteq Alerts
    /\ parent \in [Alerts -> Alerts]
    /\ kept \subseteq batch \X batch
    /\ todo \subseteq kept
    /\ low \in Alerts \cup {NoAlert}
    /\ {who, root, node} \subseteq Alerts \cup {NoAlert}
    /\ key \in [Alerts -> Alerts \cup {NoAlert}]

\* The sets of alerts that no edge leaves.
Uncut(ids, edges) == {S \in SUBSET ids : \A e \in edges : e[1] \in S <=> e[2] \in S}

\* The alerts in every uncut set that holds a.
Component(ids, edges) ==
    LET uncut == Uncut(ids, edges)
    IN  [a \in ids |-> {b \in ids : \A S \in uncut : a \in S => b \in S}]

\* group(): "Each component's group_key is the lexicographically smallest alert id in
\* it", however find compresses paths and whatever order edges are united in.
GroupKeyIsLeast ==
    pc = "apply" => LET component == Component(batch, kept)
                    IN  \A a \in batch : key[a] = Min(component[a])

\* The query's LIMIT leaves no alert of a batch with more than candidate_cap
\* counterparts: the cap of blocking.py never drops a pair the query returned.
CapNeverDrops ==
    pc # "idle" => \A a \in batch : Allowed(batch, a) = Counterparts(batch, a)

Grouped == {a \in Alerts : ~Ungrouped(a)}

\* All pairs that match, in a batch or not.
Evidence == {e \in Alerts \X Alerts : e[1] < e[2] /\ Blocked(e[1], e[2]) /\ Keep(e[1], e[2])}

\* The query reaches everyone: its LIMIT is never met.
Uncrowded == \A a \in Alerts : Cardinality(InReach(a)) <= Cap

\* group_alerts_job: "Sequential passes collapse a batch to the right set of cases":
\* while no query is cut short and no case was closed, two grouped alerts are in one
\* case exactly when the matching pairs among the grouped alerts connect them,
\* whatever the order they were grouped in.
SequentialIsBatch ==
    pc = "idle" /\ lifecycle = 0 /\ Uncrowded =>
        LET component == Component(Grouped, Evidence \cap (Grouped \X Grouped))
        IN  \A a \in Grouped : {b \in Grouped : case[b] = case[a]} = component[a]

\* A persisted decision cites a pair: some other grouped alert matches the alert with
\* exactly the decision's method, rules and score; it is in the alert's case unless a
\* case was closed.  A singleton decision is only given to the founder of a case.
DecisionIsExplained ==
    \A a \in Grouped :
        IF decision[a].method = "singleton" THEN Exists(a)
        ELSE \E b \in Grouped \ {a} :
                /\ decision[a] = Verdict(a, b)
                /\ lifecycle = 0 => case[b] = case[a]

\* The grouped alerts, case by case.
Classes == {{a \in Alerts : case[a] = c} : c \in {case[a] : a \in Grouped}}

Partition == INSTANCE CasePartition WITH evidence <- Evidence, classes <- Classes

\* The runs implement the abstract partition: cases are only joined, on evidence.
ImplementsPartition == Partition!Spec

=============================================================================
