------------------------- MODULE GroupingEngineProofs -------------------------
(***************************************************************************)
(* The grouping engine, for any alerts, payloads, rules, weights and caps. *)
(*                                                                         *)
(* 1. The group_key of an alert is the least alert of its component,       *)
(* whatever paths find has compressed.  There is no induction over paths:  *)
(* a forest is described by the sets of alerts that none of its links      *)
(* leaves, and two alerts are in one tree when every such set holds both   *)
(* or neither.                                                             *)
(*                                                                         *)
(* 2. From the keys to the cases: what a run reads of the cases (CasesInv, *)
(* BatchInv) stays true until it is applied, a batch is never larger than  *)
(* the cap, and equal keys are what the kept pairs connect.  So a decision *)
(* cites a pair that matches, cases are joined on evidence only (the       *)
(* abstract partition is implemented), and sequential passes give the      *)
(* components of the evidence as long as no query is cut short.            *)
(***************************************************************************)
EXTENDS GroupingEngine, DataTheorems, FiniteSetTheorems, TLAPS

\* The sets of alerts that no link of p leaves.
Closed(p, ids) == {S \in SUBSET ids : \A a \in ids : a \in S <=> p[a] \in S}

Together(p, ids, a, b) == \A S \in Closed(p, ids) : a \in S <=> b \in S

\* Links go to lower alerts of the batch, or from a root to itself.
Forest(p, ids) == \A a \in ids : p[a] \in ids /\ p[a] <= a

-----------------------------------------------------------------------------
(* Forests. *)

\* A tree has one root.
LEMMA OneRoot ==
  ASSUME NEW ids, NEW p, \A a \in ids : p[a] \in ids,
         NEW r \in ids, NEW m \in ids, p[r] = r, p[m] = m, Together(p, ids, r, m)
  PROVE  r = m
<1>. SUFFICES ASSUME r # m PROVE FALSE
  OBVIOUS
<1>. DEFINE Grown(T) == r \in T /\ \A y \in ids : p[y] \in T => y \in T
            D == {x \in ids : \A T \in SUBSET ids : Grown(T) => x \in T}
            T0 == {x \in D : x = r \/ p[x] \in D}
            T1 == D \ {m}
<1>1. Grown(D)
  OBVIOUS
<1>2. \A x \in D : x = r \/ p[x] \in D
  <2>1. Grown(T0) /\ T0 \in SUBSET ids
    BY <1>1
  <2>2. \A x \in D : x \in T0
    BY <2>1
  <2>. QED
    BY <2>2
<1>3. D \in Closed(p, ids)
  BY <1>1, <1>2 DEF Closed
<1>4. m \notin D
  <2>1. Grown(T1) /\ T1 \in SUBSET ids
    BY <1>1
  <2>2. \A x \in D : x \in T1
    BY <2>1
  <2>. QED
    BY <2>2
<1>5. r \in D
  BY <1>1
<1>. HIDE DEF D
<1>. QED
  BY <1>3, <1>4, <1>5 DEF Together

\* The root of a tree that holds b, found without following b's path.
LEMMA RootOf ==
  ASSUME NEW ids \in SUBSET Nat, NEW p, Forest(p, ids), NEW b \in ids
  PROVE  \E m \in ids : /\ p[m] = m /\ Together(p, ids, b, m)
                        /\ \A x \in ids : Together(p, ids, b, x) => m <= x
<1>. DEFINE C == {x \in ids : Together(p, ids, b, x)}
<1>1. C \in SUBSET Nat /\ b \in C
  BY DEF Together
<1>2. PICK m \in C : \A x \in C : m <= x
  <2>. HIDE DEF C
  <2>. QED
    BY <1>1, LeastNatural
<1>3. p[m] \in C
  BY <1>2 DEF Forest, Together, Closed
<1>4. m <= p[m] /\ p[m] <= m /\ m \in Nat /\ p[m] \in Nat
  BY <1>1, <1>2, <1>3 DEF Forest
<1>5. p[m] = m
  BY <1>4
<1>. QED
  BY <1>2, <1>5

LEMMA RootIsLeast ==
  ASSUME NEW ids \in SUBSET Nat, NEW p, Forest(p, ids),
         NEW r \in ids, p[r] = r, NEW b \in ids, Together(p, ids, r, b)
  PROVE  r <= b
<1>1. PICK m \in ids : /\ p[m] = m /\ Together(p, ids, b, m)
                       /\ \A x \in ids : Together(p, ids, b, x) => m <= x
  BY RootOf
<1>2. Together(p, ids, r, m)
  BY <1>1 DEF Together
<1>3. r = m
  BY <1>1, <1>2, OneRoot DEF Forest
<1>. QED
  BY <1>1, <1>3 DEF Together

\* Path compression, find: parent[x] = root.  The trees stay the same.
LEMMA Compressing ==
  ASSUME NEW ids \in SUBSET Alerts, NEW p \in [Alerts -> Alerts], Forest(p, ids)
  PROVE  \A r, n \in ids : \A q :
            p[r] = r /\ Together(p, ids, n, r) /\ q = [p EXCEPT ![n] = r]
            => Closed(q, ids) = Closed(p, ids) /\ Forest(q, ids)
<1>. SUFFICES ASSUME NEW r \in ids, NEW n \in ids, NEW q,
                     p[r] = r, Together(p, ids, n, r), q = [p EXCEPT ![n] = r]
     PROVE  Closed(q, ids) = Closed(p, ids) /\ Forest(q, ids)
  OBVIOUS
<1>0. ids \in SUBSET Nat
  BY GroupingEngineAssumption
<1>1. q[n] = r /\ \A a \in ids \ {n} : q[a] = p[a]
  OBVIOUS
<1>2. r <= n
  BY <1>0, RootIsLeast DEF Together
<1>3. Forest(q, ids) /\ q[r] = r
  BY <1>1, <1>2 DEF Forest
<1>4. \A S \in Closed(p, ids) : S \in Closed(q, ids)
  BY <1>1 DEF Closed, Together
<1>5. Together(q, ids, p[n], r)
  <2>1. p[n] \in ids
    BY DEF Forest
  <2>2. PICK m \in ids : q[m] = m /\ Together(q, ids, p[n], m)
    BY <1>0, <1>3, <2>1, RootOf
  <2>3. CASE m = n
    BY <1>1, <2>2, <2>3
  <2>4. CASE m # n
    <3>1. p[m] = m
      BY <1>1, <2>2, <2>4
    <3>2. Together(p, ids, m, r)
      BY <1>4, <2>2 DEF Together, Closed
    <3>3. m = r
      BY <3>1, <3>2, OneRoot DEF Forest
    <3>. QED
      BY <2>2, <3>3
  <2>. QED
    BY <2>3, <2>4
<1>6. \A S \in Closed(q, ids) : S \in Closed(p, ids)
  BY <1>1, <1>5 DEF Closed, Together
<1>. QED
  BY <1>3, <1>4, <1>6

\* union: the trees of the two roots become one, the others stay the same.
LEMMA Uniting ==
  ASSUME NEW ids \in SUBSET Alerts, NEW p \in [Alerts -> Alerts], Forest(p, ids),
         NEW l \in ids, p[l] = l, NEW h \in ids, p[h] = h, l < h,
         NEW q, q = [p EXCEPT ![h] = l]
  PROVE  /\ Closed(q, ids) = {S \in Closed(p, ids) : l \in S <=> h \in S}
         /\ Forest(q, ids)
<1>1. q[h] = l /\ \A a \in ids \ {h} : q[a] = p[a]
  OBVIOUS
<1>2. l \in Nat /\ h \in Nat
  BY GroupingEngineAssumption
<1>3. Forest(q, ids)
  BY <1>1, <1>2 DEF Forest
<1>4. ASSUME NEW S \in SUBSET ids
      PROVE  S \in Closed(q, ids) <=> S \in Closed(p, ids) /\ (l \in S <=> h \in S)
  BY <1>1 DEF Closed
<1>. QED
  BY <1>3, <1>4 DEF Closed

\* Nothing leaves a set exactly when nothing leaves what is outside it.
LEMMA Outside ==
  ASSUME NEW ids, NEW p, \A a \in ids : p[a] \in ids, NEW S \in Closed(p, ids)
  PROVE  ids \ S \in Closed(p, ids)
BY DEF Closed

-----------------------------------------------------------------------------
(* Edges. *)

LEMMA NextEdgeExists ==
  ASSUME NEW edges \in SUBSET (Alerts \X Alerts), edges # {}
  PROVE  NextEdge(edges) \in edges
<1>. DEFINE Firsts == {a \in Alerts : \E e \in edges : e[1] = a}
<1>1. Alerts \subseteq Nat
  BY GroupingEngineAssumption
<1>2. PICK a \in Firsts : \A x \in Firsts : a <= x
  BY <1>1, LeastNatural
<1>. DEFINE Seconds == {b \in Alerts : \E e \in edges : e[1] = a /\ e[2] = b}
<1>3. PICK b \in Seconds : \A x \in Seconds : b <= x
  BY <1>1, <1>2, LeastNatural
<1>4. PICK e \in edges : e[1] = a /\ e[2] = b
  BY <1>3
<1>5. ASSUME NEW f \in edges PROVE Before(e, f)
  <2>1. f[1] \in Firsts /\ f[1] \in Nat /\ f[2] \in Nat /\ a \in Nat /\ b \in Nat
    BY <1>1, <1>2, <1>3
  <2>2. a <= f[1]
    BY <2>1, <1>2
  <2>3. f[1] = a => b <= f[2]
    BY <1>3
  <2>. QED
    BY <2>1, <2>2, <2>3, <1>4 DEF Before
<1>. QED
  BY <1>5 DEF NextEdge

LEMMA PairsOfBatch ==
  ASSUME NEW ids
  PROVE  Kept(ids) \subseteq ids \X ids
BY DEF Kept, CandidatePairs

-----------------------------------------------------------------------------
(* The invariant of a run. *)

RunType ==
    /\ pc \in {"idle", "low", "high", "key", "apply"}
    /\ batch \subseteq Alerts
    /\ kept \subseteq batch \X batch /\ todo \subseteq kept
    /\ parent \in [Alerts -> Alerts]
    /\ key \in [Alerts -> Alerts \cup {NoAlert}]

\* The links connect what the edges united so far connect.
LinksAreEdges ==
    /\ Forest(parent, batch)
    /\ Uncut(batch, kept \ todo) = Closed(parent, batch)

InTree(a, b) == Together(parent, batch, a, b)

IsRoot(a) == a \in batch /\ parent[a] = a

\* find stays in the tree of the alert it was called for.
FindIsInTree ==
    Searching => /\ who \in batch /\ root \in batch /\ node \in batch
                 /\ InTree(who, root) /\ InTree(who, node)

\* What is looked for, and what is known of the edge in hand.
EdgeInHand ==
    /\ pc \in {"low", "high"} => todo # {}
    /\ pc = "low" => who = NextEdge(todo)[1]
    /\ pc = "high" => /\ who = NextEdge(todo)[2]
                      /\ IsRoot(low) /\ InTree(NextEdge(todo)[1], low)
    /\ pc \in {"key", "apply"} => todo = {}

\* A key that is known is a root, and none is known before all edges are united.
KeysAreRoots ==
    /\ \A b \in batch : key[b] # NoAlert => IsRoot(key[b]) /\ InTree(b, key[b])
    /\ pc \in {"low", "high"} => \A b \in batch : key[b] = NoAlert
    /\ pc = "apply" => \A b \in batch : key[b] # NoAlert

RunInv == RunType /\ LinksAreEdges /\ FindIsInTree /\ EdgeInHand /\ KeysAreRoots

LEMMA TreeLaws ==
  /\ \A a : InTree(a, a)
  /\ \A a, b : InTree(a, b) => InTree(b, a)
  /\ \A a, b, c : InTree(a, b) /\ InTree(b, c) => InTree(a, c)
BY DEF InTree, Together

LEMMA ParentInTree ==
  ASSUME NEW a \in batch
  PROVE  InTree(a, parent[a])
BY DEF InTree, Together, Closed

LEMMA EdgeEnds ==
  ASSUME RunInv, todo # {}
  PROVE  /\ NextEdge(todo) \in todo
         /\ NextEdge(todo)[1] \in batch /\ NextEdge(todo)[2] \in batch
<1>1. todo \in SUBSET (Alerts \X Alerts)
  BY DEF RunInv, RunType
<1>. QED
  BY <1>1, NextEdgeExists DEF RunInv, RunType

-----------------------------------------------------------------------------
(* Steps. *)

LEMMA RunInit == Init => RunInv
<1>. SUFFICES ASSUME Init PROVE RunInv
  OBVIOUS
<1>1. RunType
  BY DEF Init, RunType, Singletons, NoKeys
<1>2. LinksAreEdges
  BY DEF Init, LinksAreEdges, Forest, Uncut, Closed
<1>. QED
  BY <1>1, <1>2 DEF Init, RunInv, FindIsInTree, Searching, EdgeInHand, KeysAreRoots

\* On to the next edge or to the keys.
LEMMA NextFindStep ==
  ASSUME RunType', LinksAreEdges', batch' # {}, NextFind(todo'),
         \A b \in batch' : key'[b] = NoAlert
  PROVE  RunInv'
<1>1. CASE todo' # {}
  <2>1. pc' = "low" /\ who' = NextEdge(todo')[1] /\ root' = who' /\ node' = who'
    BY <1>1 DEF NextFind, Find
  <2>2. todo' \in SUBSET (Alerts \X Alerts)
    BY DEF RunType
  <2>3. who' \in batch'
    BY <1>1, <2>1, <2>2, NextEdgeExists DEF RunType
  <2>4. FindIsInTree'
    BY <2>1, <2>3 DEF FindIsInTree, InTree, Together
  <2>5. EdgeInHand' /\ KeysAreRoots'
    BY <1>1, <2>1 DEF EdgeInHand, KeysAreRoots
  <2>. QED
    BY <2>4, <2>5 DEF RunInv
<1>2. CASE todo' = {}
  <2>1. pc' = "key" /\ who' = Min(batch') /\ root' = who' /\ node' = who'
    BY <1>2 DEF NextFind, Find
  <2>2. batch' \in SUBSET Nat
    BY GroupingEngineAssumption DEF RunType
  <2>3. who' \in batch'
    BY <2>1, <2>2, MinOfNaturals
  <2>4. FindIsInTree'
    BY <2>1, <2>3 DEF FindIsInTree, InTree, Together
  <2>5. EdgeInHand' /\ KeysAreRoots'
    BY <1>2, <2>1 DEF EdgeInHand, KeysAreRoots
  <2>. QED
    BY <2>4, <2>5 DEF RunInv
<1>. QED
  BY <1>1, <1>2

LEMMA StartRunStep ==
  ASSUME RunInv, NEW a \in Alerts, StartRun(a)
  PROVE  RunInv'
<1>1. PICK candidates \in NewestNear(a) :
        batch' = candidates \cup {a} /\ kept' = Kept(candidates \cup {a})
  BY DEF StartRun
<1>2. /\ todo' = kept' /\ parent' = Singletons /\ key' = NoKeys /\ NextFind(todo')
  BY DEF StartRun
<1>3. candidates \subseteq Alerts
  BY DEF NewestNear, Near, InReach
<1>4. pc' \in {"low", "key"}
  BY <1>2 DEF NextFind
<1>5. RunType'
  BY <1>1, <1>2, <1>3, <1>4, PairsOfBatch DEF RunType, Singletons, NoKeys
<1>6. LinksAreEdges'
  <2>1. \A b \in batch' : parent'[b] = b /\ b \in Nat
    BY <1>2, <1>5, GroupingEngineAssumption DEF RunType, Singletons
  <2>2. kept' \ todo' = {}
    BY <1>2
  <2>. QED
    BY <2>1, <2>2 DEF LinksAreEdges, Forest, Uncut, Closed
<1>7. \A b \in batch' : key'[b] = NoAlert
  BY <1>2, <1>5 DEF RunType, NoKeys
<1>. QED
  BY <1>1, <1>2, <1>5, <1>6, <1>7, NextFindStep

LEMMA ClimbStep ==
  ASSUME RunInv, Climb
  PROVE  RunInv'
<1>1. /\ UNCHANGED <<pc, batch, kept, parent, todo, low, who, node, key>>
      /\ root' = parent[root] /\ Searching
  BY DEF Climb
<1>2. root \in batch /\ InTree(who, root)
  BY <1>1 DEF RunInv, FindIsInTree
<1>3. root' \in batch /\ InTree(who, root')
  BY <1>1, <1>2, ParentInTree, TreeLaws DEF RunInv, LinksAreEdges, Forest
<1>4. FindIsInTree'
  BY <1>1, <1>3 DEF RunInv, FindIsInTree, Searching, InTree
<1>. QED
  BY <1>1, <1>4
     DEF RunInv, RunType, LinksAreEdges, EdgeInHand, KeysAreRoots, IsRoot, InTree

LEMMA CompressStep ==
  ASSUME RunInv, Compress
  PROVE  RunInv'
<1>. USE DEF RunInv
<1>1. /\ UNCHANGED <<pc, batch, kept, todo, low, who, root, key>>
      /\ Searching /\ parent[root] = root /\ parent[node] # root
      /\ parent' = [parent EXCEPT ![node] = root] /\ node' = parent[node]
  BY DEF Compress, AtRoot
<1>2. /\ who \in batch /\ root \in batch /\ node \in batch
      /\ InTree(who, root) /\ InTree(who, node)
  BY <1>1 DEF FindIsInTree
<1>3. InTree(node, root)
  BY <1>2, TreeLaws
<1>4. Closed(parent', batch) = Closed(parent, batch) /\ Forest(parent', batch)
  <2>1. batch \in SUBSET Alerts /\ parent \in [Alerts -> Alerts] /\ Forest(parent, batch)
    BY DEF RunType, LinksAreEdges
  <2>2. Together(parent, batch, node, root)
    BY <1>3 DEF InTree
  <2>. DEFINE q == parent'
  <2>3. q = [parent EXCEPT ![node] = root]
    BY <1>1
  <2>. HIDE DEF q
  <2>4. \A r, n \in batch : \A p :
          parent[r] = r /\ Together(parent, batch, n, r) /\ p = [parent EXCEPT ![n] = r]
          => Closed(p, batch) = Closed(parent, batch) /\ Forest(p, batch)
    BY <2>1, Compressing
  <2>5. Closed(q, batch) = Closed(parent, batch) /\ Forest(q, batch)
    BY <1>1, <1>2, <2>2, <2>3, <2>4
  <2>. QED
    BY <2>5 DEF q
<1>5. parent[node] # node
  <2>1. parent[node] = node => root = node
    BY <1>1, <1>2, <1>3, OneRoot DEF LinksAreEdges, Forest, InTree
  <2>. QED
    BY <1>1, <2>1
<1>6. \A r : IsRoot(r) => IsRoot(r)'
  BY <1>1, <1>5 DEF IsRoot, RunType
<1>7. \A a, b : InTree(a, b) => InTree(a, b)'
  BY <1>1, <1>4 DEF InTree, Together
<1>8. RunType'
  BY <1>1, <1>2 DEF RunType
<1>9. LinksAreEdges'
  BY <1>1, <1>4 DEF LinksAreEdges
<1>10. FindIsInTree'
  <2>1. parent[node] \in batch
    BY <1>2 DEF LinksAreEdges, Forest
  <2>2. InTree(who, parent[node])
    BY <1>2, ParentInTree, TreeLaws
  <2>. QED
    BY <1>1, <1>2, <1>4, <2>1, <2>2 DEF FindIsInTree, InTree, Together
<1>11. EdgeInHand'
  BY <1>1, <1>4, <1>6 DEF EdgeInHand, InTree, Together
<1>12. KeysAreRoots'
  BY <1>1, <1>4, <1>6 DEF KeysAreRoots, InTree, Together
<1>. QED
  BY <1>8, <1>9, <1>10, <1>11, <1>12

LEMMA FoundLowStep ==
  ASSUME RunInv, FoundLow
  PROVE  RunInv'
<1>. USE DEF RunInv
<1>1. /\ UNCHANGED <<batch, kept, parent, todo, key>>
      /\ pc = "low" /\ pc' = "high" /\ low' = root /\ parent[root] = root
      /\ who' = NextEdge(todo)[2] /\ root' = who' /\ node' = who'
  BY DEF FoundLow, Found, AtRoot, Find
<1>2. root \in batch /\ InTree(who, root) /\ who = NextEdge(todo)[1] /\ todo # {}
  BY <1>1 DEF FindIsInTree, EdgeInHand, Searching
<1>3. who' \in batch
  BY <1>1, <1>2, EdgeEnds
<1>4. FindIsInTree'
  BY <1>1, <1>3 DEF FindIsInTree, InTree, Together
<1>5. EdgeInHand'
  BY <1>1, <1>2 DEF EdgeInHand, IsRoot, InTree
<1>6. RunType' /\ LinksAreEdges' /\ KeysAreRoots'
  BY <1>1 DEF RunType, LinksAreEdges, KeysAreRoots
<1>. QED
  BY <1>4, <1>5, <1>6

LEMMA FoundHighStep ==
  ASSUME RunInv, FoundHigh
  PROVE  RunInv'
<1>. USE DEF RunInv
<1>. DEFINE e == NextEdge(todo)
<1>1. /\ UNCHANGED <<kept, key>> /\ batch' = batch
      /\ pc = "high" /\ parent[root] = root
      /\ parent' = Unite(low, root) /\ todo' = todo \ {e} /\ NextFind(todo')
  BY DEF FoundHigh, Found, AtRoot
<1>2. /\ root \in batch /\ InTree(e[2], root) /\ todo # {}
      /\ low \in batch /\ parent[low] = low /\ InTree(e[1], low)
  BY <1>1 DEF FindIsInTree, EdgeInHand, Searching, IsRoot
<1>3. e \in todo /\ e[1] \in batch /\ e[2] \in batch
  BY <1>2, EdgeEnds
<1>4. low \in Nat /\ root \in Nat
  BY <1>2, GroupingEngineAssumption DEF RunType
<1>5. /\ Closed(parent', batch) = {S \in Closed(parent, batch) : low \in S <=> root \in S}
      /\ Forest(parent', batch) /\ parent' \in [Alerts -> Alerts]
  <2>0. batch \in SUBSET Alerts /\ parent \in [Alerts -> Alerts] /\ Forest(parent, batch)
    BY DEF RunType, LinksAreEdges
  <2>1. CASE low = root
    BY <1>1, <2>0, <2>1 DEF Unite
  <2>2. CASE low # root
    <3>. DEFINE l == Min({low, root})
                h == Max({low, root})
                q == parent'
    <3>1. l < h /\ {l, h} = {low, root}
      <4>1. low < root => l = low /\ h = root
        BY <1>4 DEF Min, Max
      <4>2. root < low => l = root /\ h = low
        BY <1>4 DEF Min, Max
      <4>. QED
        BY <1>4, <2>2, <4>1, <4>2
    <3>2. q = [parent EXCEPT ![h] = l]
      BY <1>1, <2>2 DEF Unite
    <3>. HIDE DEF l, h, q
    <3>3. l \in batch /\ h \in batch /\ parent[l] = l /\ parent[h] = h
      BY <1>1, <1>2, <3>1
    <3>4. \A i, j \in batch : \A p :
            parent[i] = i /\ parent[j] = j /\ i < j /\ p = [parent EXCEPT ![j] = i]
            => /\ Closed(p, batch) = {S \in Closed(parent, batch) : i \in S <=> j \in S}
               /\ Forest(p, batch)
      BY <2>0, Uniting
    <3>5. /\ Closed(q, batch) = {S \in Closed(parent, batch) : l \in S <=> h \in S}
          /\ Forest(q, batch)
      BY <3>1, <3>2, <3>3, <3>4
    <3>6. q \in [Alerts -> Alerts]
      BY <2>0, <3>2, <3>3
    <3>7. \A S : (l \in S <=> h \in S) <=> (low \in S <=> root \in S)
      BY <3>1
    <3>. QED
      BY <3>5, <3>6, <3>7 DEF q
  <2>. QED
    BY <2>1, <2>2
<1>6. Uncut(batch, kept \ todo') = {S \in Uncut(batch, kept \ todo) : e[1] \in S <=> e[2] \in S}
  <2>1. kept \ todo' = (kept \ todo) \cup {e}
    BY <1>1, <1>3 DEF RunType
  <2>. HIDE DEF e
  <2>. QED
    BY <2>1 DEF Uncut
<1>7. \A S \in Closed(parent, batch) : (e[1] \in S <=> low \in S) /\ (e[2] \in S <=> root \in S)
  BY <1>2 DEF InTree, Together
<1>8. LinksAreEdges'
  <2>1. Uncut(batch, kept \ todo') = Closed(parent', batch)
    <3>. HIDE DEF e
    <3>. QED
      BY <1>5, <1>6, <1>7 DEF LinksAreEdges
  <2>. QED
    BY <1>1, <1>5, <2>1 DEF LinksAreEdges
<1>9. pc' \in {"low", "key"}
  BY <1>1 DEF NextFind
<1>10. RunType'
  BY <1>1, <1>5, <1>9 DEF RunType
<1>11. batch' # {} /\ \A b \in batch' : key'[b] = NoAlert
  BY <1>1, <1>2 DEF KeysAreRoots
<1>. QED
  BY <1>1, <1>8, <1>10, <1>11, NextFindStep

LEMMA FoundKeyStep ==
  ASSUME RunInv, FoundKey
  PROVE  RunInv'
<1>. USE DEF RunInv
<1>. DEFINE rest == {b \in batch \ {who} : key[b] = NoAlert}
<1>1. /\ UNCHANGED <<batch, kept, parent, todo, low>>
      /\ pc = "key" /\ parent[root] = root /\ key' = [key EXCEPT ![who] = root]
      /\ \/ rest # {} /\ pc' = "key" /\ who' = Min(rest) /\ root' = who' /\ node' = who'
         \/ rest = {} /\ pc' = "apply"
  BY DEF FoundKey, Found, AtRoot, Find
<1>2. /\ who \in batch /\ root \in batch /\ InTree(who, root) /\ todo = {}
  BY <1>1 DEF FindIsInTree, EdgeInHand, Searching
<1>3. RunType'
  BY <1>1, <1>2 DEF RunType
<1>4. key'[who] = root /\ \A b \in Alerts \ {who} : key'[b] = key[b]
  BY <1>1, <1>2 DEF RunType
<1>5. root # NoAlert
  BY <1>2, GroupingEngineAssumption DEF RunType, NoAlert
<1>6. KeysAreRoots'
  <2>1. ASSUME NEW b \in batch, key'[b] # NoAlert
        PROVE  IsRoot(key'[b]) /\ InTree(b, key'[b])
    <3>1. CASE b = who
      BY <1>1, <1>2, <1>4, <3>1 DEF IsRoot
    <3>2. CASE b # who
      BY <1>4, <2>1, <3>2 DEF KeysAreRoots, RunType
    <3>. QED
      BY <3>1, <3>2
  <2>2. pc' = "apply" => \A b \in batch : key'[b] # NoAlert
    BY <1>1, <1>4, <1>5 DEF RunType
  <2>. QED
    BY <1>1, <2>1, <2>2 DEF KeysAreRoots, IsRoot, InTree
<1>7. FindIsInTree'
  <2>1. CASE rest # {}
    <3>1. rest \in SUBSET Nat
      BY GroupingEngineAssumption DEF RunType
    <3>2. who' \in rest
      <4>. HIDE DEF rest
      <4>. QED
        BY <1>1, <2>1, <3>1, MinOfNaturals
    <3>. QED
      BY <1>1, <2>1, <3>2 DEF FindIsInTree, InTree, Together
  <2>2. CASE rest = {}
    BY <1>1, <2>2 DEF FindIsInTree, Searching
  <2>. QED
    BY <2>1, <2>2
<1>8. LinksAreEdges' /\ EdgeInHand'
  BY <1>1, <1>2 DEF LinksAreEdges, EdgeInHand
<1>. QED
  BY <1>3, <1>6, <1>7, <1>8

LEMMA ApplyGroupingStep ==
  ASSUME RunInv, ApplyGrouping
  PROVE  RunInv'
<1>1. /\ pc' = "idle" /\ batch' = {} /\ kept' = {} /\ todo' = {}
      /\ parent' = Singletons /\ key' = NoKeys
  BY DEF ApplyGrouping
<1>2. RunType'
  BY <1>1 DEF RunType, Singletons, NoKeys
<1>3. LinksAreEdges'
  BY <1>1 DEF LinksAreEdges, Forest, Uncut, Closed
<1>. QED
  BY <1>1, <1>2, <1>3 DEF RunInv, FindIsInTree, Searching, EdgeInHand, KeysAreRoots

LEMMA RunNext == RunInv /\ [Next]_vars => RunInv'
<1>. SUFFICES ASSUME RunInv, [Next]_vars PROVE RunInv'
  OBVIOUS
<1>1. CASE UNCHANGED run
  BY <1>1 DEF run, finding, RunInv, RunType, LinksAreEdges, FindIsInTree, Searching,
              EdgeInHand, KeysAreRoots, IsRoot, InTree
<1>2. CASE \E c \in Alerts : Lifecycle(c)
  BY <1>1, <1>2 DEF Lifecycle
<1>3. CASE UNCHANGED vars
  BY <1>1, <1>3 DEF vars
<1>. QED
  BY <1>2, <1>3, StartRunStep, ClimbStep, CompressStep, FoundLowStep, FoundHighStep,
     FoundKeyStep, ApplyGroupingStep DEF Next, Engine

\* group(): when the keys are known, the key of an alert is the least alert that the
\* kept pairs connect it to.
THEOREM KeysAreLeast == Spec => []GroupKeyIsLeast
<1>1. RunInv => GroupKeyIsLeast
  <2>. SUFFICES ASSUME RunInv, pc = "apply", NEW a \in batch
       PROVE  key[a] = Min(Component(batch, kept)[a])
    BY DEF GroupKeyIsLeast
  <2>. DEFINE C == {b \in batch : \A S \in Uncut(batch, kept) : a \in S => b \in S}
  <2>1. Component(batch, kept)[a] = C
    BY DEF Component
  <2>2. Uncut(batch, kept) = Closed(parent, batch)
    <3>1. kept \ todo = kept
      BY DEF RunInv, EdgeInHand
    <3>. QED
      BY <3>1 DEF RunInv, LinksAreEdges
  <2>3. IsRoot(key[a]) /\ InTree(a, key[a])
    BY DEF RunInv, KeysAreRoots
  <2>4. key[a] \in C
    BY <2>2, <2>3 DEF IsRoot, InTree, Together
  <2>5. batch \in SUBSET Nat
    BY GroupingEngineAssumption DEF RunInv, RunType
  <2>6. ASSUME NEW b \in C PROVE key[a] <= b
    <3>1. \A S \in Closed(parent, batch) : a \in S <=> b \in S
      <4>1. ASSUME NEW S \in Closed(parent, batch), b \in S PROVE a \in S
        <5>1. batch \ S \in Closed(parent, batch)
          BY Outside DEF RunInv, LinksAreEdges, Forest
        <5>. QED
          BY <2>2, <2>6, <4>1, <5>1
      <4>. QED
        BY <2>2, <2>6, <4>1
    <3>2. Together(parent, batch, key[a], b)
      BY <2>3, <3>1 DEF InTree, Together
    <3>. QED
      BY <2>3, <2>5, <2>6, <3>2, RootIsLeast DEF RunInv, LinksAreEdges, IsRoot
  <2>7. C \in SUBSET Nat /\ C # {}
    BY <2>4, <2>5
  <2>8. Min(C) \in C /\ \A b \in C : Min(C) <= b
    <3>. HIDE DEF C
    <3>. QED
      BY <2>7, MinOfNaturals
  <2>9. key[a] \in Nat /\ Min(C) \in Nat /\ Min(C) <= key[a] /\ key[a] <= Min(C)
    BY <2>4, <2>6, <2>7, <2>8
  <2>. QED
    BY <2>1, <2>9
<1>2. Spec => []RunInv
  BY RunInit, RunNext, PTL DEF Spec
<1>. QED
  BY <1>1, <1>2, PTL

-----------------------------------------------------------------------------
(* Scores are numbers. *)

\* The larger of two numbers and 1, the divisor of the amount feature, is at least 1.
LEMMA MaxOfThree ==
  ASSUME NEW x \in Int, NEW y \in Int
  PROVE  Max({x, y, 1}) \in Int /\ Max({x, y, 1}) >= 1
<1>1. \E m \in {x, y, 1} : \A z \in {x, y, 1} : m >= z
  <2>1. CASE x >= y /\ x >= 1
    BY <2>1
  <2>2. CASE y >= x /\ y >= 1
    BY <2>2
  <2>3. CASE 1 >= x /\ 1 >= y
    BY <2>3
  <2>. QED
    BY <2>1, <2>2, <2>3
<1>2. Max({x, y, 1}) \in {x, y, 1} /\ \A z \in {x, y, 1} : Max({x, y, 1}) >= z
  BY <1>1 DEF Max
<1>. QED
  BY <1>2

\* The smaller of two numbers is a number.
LEMMA MinOfTwo ==
  ASSUME NEW x \in Int, NEW y \in Int
  PROVE  Min({x, y}) \in Int
BY OfTwo

\* Dividing by a positive number gives a number.
LEMMA Quotient ==
  ASSUME NEW x \in Int, NEW n \in Int, n > 0
  PROVE  x \div n \in Int
OBVIOUS

\* Six products of numbers have a sum.
LEMMA WeightedIsNumber ==
  ASSUME NEW c, \A f \in Features : c[f] \in Int
  PROVE  WeightedScore(c) \in Int
<1>. DEFINE g == [f \in Features |-> Weights[f] * c[f]]
<1>1. \A f \in Features : Weights[f] \in Int
  BY ScoringAssumption
<1>2. ASSUME NEW x \in Int, NEW y \in Int PROVE x * y \in Int
  BY <1>2
<1>3. \A f \in Features : g[f] \in Int
  BY <1>1, <1>2
<1>. HIDE DEF g
<1>4. SumOf(g) \in Int
  BY <1>3 DEF SumOf, Features
<1>5. SumOf(Weights) \in Int /\ SumOf(Weights) > 0
  BY <1>1, ScoringAssumption DEF SumOf, Features
<1>. HIDE DEF Features
<1>6. SumOf(g) \div SumOf(Weights) \in Int
  BY <1>4, <1>5, Quotient
<1>. QED
  BY <1>6 DEF WeightedScore, g

\* The six features of a pair of stored alerts are numbers.
LEMMA ContributionsAreNumbers ==
  ASSUME NEW i \in Payloads, NEW j \in Payloads
  PROVE  \A f \in Features : Contributions(Payload[i], Payload[j])[f] \in Int
<1>. DEFINE p == Payload[i]
            q == Payload[j]
            c == Contributions(p, q)
            names == <<p.ref["merchant_name_normalised"], q.ref["merchant_name_normalised"]>>
            either == p.typologies \cup q.typologies
            both == p.typologies \cap q.typologies
            gap == 100 * Abs(p.amount - q.amount)
            most == Max({p.amount, q.amount, 1})
<1>1. /\ p.time \in Int /\ p.amount \in Int /\ IsFiniteSet(p.typologies)
      /\ q.time \in Int /\ q.amount \in Int /\ IsFiniteSet(q.typologies)
      /\ Decay[Gap(p, q)] \in Int
      /\ names[1] = Null \/ names[2] = Null \/ NameRatio[names] \in Int
  BY ScoringAssumption
<1>2. /\ c.time = Decay[Gap(p, q)]
      /\ c.amount = 100 - Min({100, gap \div most})
      /\ c.name = IF names[1] = Null \/ names[2] = Null THEN 0 ELSE NameRatio[names]
      /\ c.device = Same("device_id", p, q) /\ c.ip = Same("ip_address", p, q)
      /\ c.typology = IF either = {} THEN 0
                      ELSE (100 * Cardinality(both)) \div Cardinality(either)
  BY DEF Contributions
<1>3. c.time \in Int /\ c.name \in Int /\ c.device \in Int /\ c.ip \in Int
  BY <1>1, <1>2 DEF Same
<1>4. c.amount \in Int
  <2>1. gap \in Int
    BY <1>1 DEF Abs
  <2>2. most \in Int /\ most > 0
    BY <1>1, MaxOfThree
  <2>. HIDE DEF gap, most
  <2>3. gap \div most \in Int
    BY <2>1, <2>2, Quotient
  <2>4. Min({100, gap \div most}) \in Int
    BY <2>3, MinOfTwo
  <2>. QED
    BY <1>2, <2>4
<1>5. c.typology \in Int
  <2>1. IsFiniteSet(either) /\ IsFiniteSet(both)
    BY <1>1, FS_Union, FS_Intersection
  <2>2. Cardinality(both) \in Nat /\ Cardinality(either) \in Nat
    BY <2>1, FS_CardinalityType
  <2>3. either # {} => Cardinality(either) # 0
    BY <2>1, FS_EmptySet
  <2>. HIDE DEF both, either
  <2>4. either # {} => (100 * Cardinality(both)) \div Cardinality(either) \in Int
    BY <2>2, <2>3, Quotient
  <2>. QED
    BY <1>2, <2>4
<1>. HIDE DEF c
<1>6. \A f \in Features : c[f] \in Int
  BY <1>3, <1>4, <1>5 DEF Features
<1>. QED
  BY <1>6 DEF c

\* Every verdict has a method and a number.
LEMMA VerdictType ==
  ASSUME data \in [Alerts -> Payloads], NEW a \in Alerts, NEW b \in Alerts
  PROVE  /\ Verdict(a, b).method \in {"deterministic", "similarity"}
         /\ Verdict(a, b).score \in Int
<1>1. ASSUME NEW i \in Payloads, NEW j \in Payloads
      PROVE  /\ VerdictTable[<<i, j>>].method \in {"deterministic", "similarity"}
             /\ VerdictTable[<<i, j>>].score \in Int
  <2>1. VerdictTable[<<i, j>>] = PairDecision(Payload[i], Payload[j])
    BY DEF VerdictTable
  <2>2. WeightedScore(Contributions(Payload[i], Payload[j])) \in Int
    BY ContributionsAreNumbers, WeightedIsNumber
  <2>. QED
    BY <2>1, <2>2 DEF PairDecision
<1>. QED
  BY <1>1 DEF Verdict

-----------------------------------------------------------------------------
(* The best of finitely many. *)

\* The strongest edge of an alert exists.
LEMMA StrongestExists ==
  ASSUME data \in [Alerts -> Payloads], NEW a \in Alerts, NEW S \in SUBSET Alerts, S # {}
  PROVE  \E b \in S : \A c \in S : Stronger(a, b, c)
<1>. DEFINE R == {e \in S \X S : Stronger(a, e[1], e[2])}
<1>1. IsFiniteSet(S) /\ S \subseteq Nat
  BY GroupingEngineAssumption, FS_Subset
<1>2. \A b \in S : /\ Verdict(a, b).method \in {"deterministic", "similarity"}
                   /\ Verdict(a, b).score \in Int /\ b \in Nat
  BY <1>1, VerdictType
<1>3. \A b, c \in S : Stronger(a, b, c) \/ Stronger(a, c, b)
  BY <1>2 DEF Stronger
<1>4. \A b, c, d \in S : Stronger(a, b, c) /\ Stronger(a, c, d) => Stronger(a, b, d)
  BY <1>2 DEF Stronger
<1>5. /\ \A x, y \in S : <<x, y>> \in R <=> Stronger(a, x, y)
  OBVIOUS
<1>. HIDE DEF R
<1>6. \E b \in S : \A c \in S : <<b, c>> \in R
  <2>1. \A x, y \in S : <<x, y>> \in R \/ <<y, x>> \in R
    BY <1>3, <1>5
  <2>2. \A x, y, z \in S : <<x, y>> \in R /\ <<y, z>> \in R => <<x, z>> \in R
    BY <1>4, <1>5
  <2>. QED
    BY <1>1, <2>1, <2>2, FirstExists
<1>. QED
  BY <1>5, <1>6

-----------------------------------------------------------------------------
(* The cases, and what a run reads of them. *)

\* The cases of the grouped alerts were created, and are open or closed.
CasesInv ==
    /\ data \in [Alerts -> Payloads]
    /\ case \in [Alerts -> Alerts \cup {NoAlert}]
    /\ status \in [Alerts -> {"None", "Open", "Closed", "Merged"}]
    /\ born \in [Alerts -> Nat]
    /\ decision = [a \in Alerts |-> decision[a]]
    /\ lifecycle \in Nat
    /\ \A b \in Grouped :
           /\ case[b] \in Grouped /\ Exists(case[b])
           /\ status[case[b]] \in {"Open", "Closed"}
           /\ lifecycle = 0 => status[case[b]] = "Open"

\* A run groups an alert that has no case, with what the query returned.
BatchInv ==
    pc # "idle" =>
        /\ alert \in Alerts /\ Ungrouped(alert)
        /\ \E candidates \in NewestNear(alert) : batch = candidates \cup {alert}
        /\ kept = Kept(batch)

\* What a candidate is.
LEMMA BatchFacts ==
  ASSUME BatchInv, pc # "idle"
  PROVE  /\ alert \in batch /\ batch \subseteq Alerts /\ alert \notin Grouped
         /\ batch \ {alert} \subseteq Grouped
         /\ IsFiniteSet(batch) /\ Cardinality(batch \ {alert}) <= Cap
<1>1. PICK candidates \in NewestNear(alert) : batch = candidates \cup {alert}
  BY DEF BatchInv
<1>2. /\ candidates \subseteq Near(alert)
      /\ Cardinality(candidates) = Min({Cap, Cardinality(Near(alert))})
  BY DEF NewestNear
<1>3. Near(alert) \subseteq Grouped \ {alert} /\ Near(alert) \subseteq Alerts
  BY DEF Near, InReach, Grouped
<1>4. IsFiniteSet(Near(alert)) /\ IsFiniteSet(batch)
  BY <1>1, <1>2, <1>3, GroupingEngineAssumption, FS_Subset DEF BatchInv
<1>5. Cardinality(Near(alert)) \in Nat /\ Cap \in Nat
  BY <1>4, FS_CardinalityType, GroupingEngineAssumption
<1>6. Min({Cap, Cardinality(Near(alert))}) <= Cap
  BY <1>5, MinOfNaturals
<1>7. batch \ {alert} = candidates
  BY <1>1, <1>2, <1>3
<1>8. Cardinality(batch \ {alert}) <= Cap
  BY <1>2, <1>6, <1>7
<1>9. alert \in Alerts /\ alert \notin Grouped
  BY DEF BatchInv, Grouped
<1>. QED
  BY <1>1, <1>2, <1>3, <1>4, <1>7, <1>8, <1>9

\* The n smallest of at most n are all.
LEMMA SmallestOfFew ==
  ASSUME NEW n \in Nat, NEW ids \in SUBSET Nat, IsFiniteSet(ids), Cardinality(ids) <= n
  PROVE  Smallest(n, ids) = ids
<1>1. ASSUME NEW a \in ids PROVE Cardinality({b \in ids : b < a}) < n
  <2>. DEFINE below == {b \in ids : b < a}
  <2>1. below \subseteq ids /\ below # ids
    OBVIOUS
  <2>. HIDE DEF below
  <2>2. IsFiniteSet(below)
    BY <2>1, FS_Subset
  <2>3. Cardinality(below) \in Nat /\ Cardinality(ids) \in Nat
    BY <2>2, FS_CardinalityType
  <2>4. Cardinality(below) <= Cardinality(ids) /\ Cardinality(below) # Cardinality(ids)
    BY <2>1, FS_Subset
  <2>. QED
    BY <2>3, <2>4 DEF below
<1>. QED
  BY <1>1 DEF Smallest

\* A batch has too few counterparts for the cap.
LEMMA NobodyDropped ==
  ASSUME BatchInv, pc # "idle", NEW a \in batch
  PROVE  Allowed(batch, a) = Counterparts(batch, a)
<1>. DEFINE others == batch \ {alert}
            few == Counterparts(batch, a)
<1>1. /\ alert \in batch /\ IsFiniteSet(batch) /\ batch \subseteq Alerts
      /\ Cardinality(others) <= Cap
  BY BatchFacts
<1>2. IsFiniteSet(batch \ {a}) /\ Cardinality(batch \ {a}) = Cardinality(others)
  <2>1. Cardinality(batch \ {a}) = Cardinality(batch) - 1
    BY <1>1, FS_RemoveElement
  <2>2. Cardinality(others) = Cardinality(batch) - 1
    BY <1>1, FS_RemoveElement
  <2>3. IsFiniteSet(batch \ {a})
    BY <1>1, FS_Subset
  <2>. QED
    BY <2>1, <2>2, <2>3
<1>3. few \subseteq batch \ {a}
  BY DEF Counterparts
<1>. HIDE DEF few, others
<1>4. IsFiniteSet(few) /\ Cardinality(few) <= Cardinality(batch \ {a})
  BY <1>2, <1>3, FS_Subset
<1>5. /\ Cardinality(few) \in Nat /\ Cardinality(batch \ {a}) \in Nat
      /\ Cap \in Nat /\ few \in SUBSET Nat
  BY <1>1, <1>2, <1>3, <1>4, FS_CardinalityType, GroupingEngineAssumption
<1>6. Cardinality(few) <= Cap
  BY <1>1, <1>2, <1>4, <1>5
<1>7. Smallest(Cap, few) = few
  BY <1>4, <1>5, <1>6, SmallestOfFew
<1>. QED
  BY <1>7 DEF Allowed, few

\* What is kept is evidence.
LEMMA KeptIsEvidence ==
  ASSUME NEW ids \in SUBSET Alerts
  PROVE  Kept(ids) \subseteq Evidence \cap (ids \X ids)
BY DEF Kept, CandidatePairs, Allowed, Smallest, Counterparts, Evidence

-----------------------------------------------------------------------------
(* The keys of a batch. *)

\* When the keys are known, equal keys are what the kept pairs connect.
LEMMA EqualKeys ==
  ASSUME RunInv, pc = "apply", NEW a \in batch, NEW b \in batch
  PROVE  key[a] = key[b] <=> \A S \in Uncut(batch, kept) : a \in S <=> b \in S
<1>1. Uncut(batch, kept) = Closed(parent, batch)
  <2>1. kept \ todo = kept
    BY DEF RunInv, EdgeInHand
  <2>. QED
    BY <2>1 DEF RunInv, LinksAreEdges
<1>2. /\ IsRoot(key[a]) /\ InTree(a, key[a])
      /\ IsRoot(key[b]) /\ InTree(b, key[b])
  BY DEF RunInv, KeysAreRoots
<1>3. InTree(a, b) => key[a] = key[b]
  <2>1. InTree(a, b) => InTree(key[a], key[b])
    BY <1>2, TreeLaws
  <2>. QED
    BY <1>2, <2>1, OneRoot DEF RunInv, LinksAreEdges, Forest, IsRoot, InTree
<1>4. key[a] = key[b] => InTree(a, b)
  BY <1>2, TreeLaws
<1>. QED
  BY <1>1, <1>3, <1>4 DEF InTree, Together

\* A kept pair has one key.
LEMMA IncidentKey ==
  ASSUME RunInv, pc = "apply", NEW a \in batch, NEW b \in Incident(a)
  PROVE  b \in batch /\ key[a] = key[b]
<1>1. b \in batch /\ (<<a, b>> \in kept \/ <<b, a>> \in kept)
  BY DEF Incident
<1>2. \A S \in Uncut(batch, kept) : a \in S <=> b \in S
  BY <1>1 DEF Uncut
<1>. QED
  BY <1>1, <1>2, EqualKeys

\* An alert no kept pair names has a key of its own.
LEMMA LonelyKey ==
  ASSUME RunInv, pc = "apply", NEW a \in batch, Incident(a) = {}, NEW b \in batch, key[b] = key[a]
  PROVE  b = a
<1>1. \A e \in kept : e[1] # a /\ e[2] # a
  <2>. SUFFICES ASSUME NEW e \in kept PROVE e[1] # a /\ e[2] # a
    OBVIOUS
  <2>1. e = <<e[1], e[2]>> /\ e[1] \in batch /\ e[2] \in batch
    BY DEF RunInv, RunType
  <2>. QED
    BY <2>1 DEF Incident
<1>2. {a} \in Uncut(batch, kept)
  BY <1>1 DEF Uncut
<1>. QED
  BY <1>2, EqualKeys

-----------------------------------------------------------------------------
(* What a run does to the cases. *)

\* The oldest of some cases exists.
LEMMA SurvivorExists ==
  ASSUME born \in [Alerts -> Nat], OpenMatched \in SUBSET Alerts, OpenMatched # {}
  PROVE  Survivor \in OpenMatched
<1>. DEFINE ages == {n \in Nat : \E c \in OpenMatched : n = born[c]}
<1>1. PICK n \in ages : \A m \in ages : n <= m
  <2>1. ages \in SUBSET Nat /\ ages # {}
    OBVIOUS
  <2>. HIDE DEF ages
  <2>. QED
    BY <2>1, LeastNatural
<1>2. \E c \in OpenMatched : \A d \in OpenMatched : born[c] <= born[d]
  BY <1>1
<1>. QED
  BY <1>2 DEF Survivor

\* The cases an alert is put together with are those of batch members with its key.
LEMMA MatchedFacts ==
  ASSUME CasesInv, BatchInv, pc = "apply"
  PROVE  /\ \A c : c \in OpenMatched <=>
                /\ \E b \in batch \ {alert} : case[b] = c /\ key[b] = key[alert]
                /\ status[c] \notin {"Merged", "Closed"}
         /\ OpenMatched \subseteq Grouped /\ OpenMatched \subseteq Alerts
         /\ \A c \in OpenMatched : Exists(c) /\ status[c] = "Open"
         /\ OpenMatched # {} => Target \in OpenMatched
         /\ OpenMatched = {} => Target = alert
         /\ Target \in Alerts
<1>1. batch \ {alert} \subseteq Grouped /\ alert \in Alerts
  BY BatchFacts DEF BatchInv
<1>2. \A c : c \in OpenMatched <=>
                /\ \E b \in batch \ {alert} : case[b] = c /\ key[b] = key[alert]
                /\ status[c] \notin {"Merged", "Closed"}
  BY DEF OpenMatched, Matched
<1>3. \A c \in OpenMatched : /\ c \in Grouped /\ Exists(c) /\ status[c] = "Open"
  BY <1>1, <1>2 DEF CasesInv
<1>4. Grouped \subseteq Alerts
  BY DEF Grouped
<1>5. OpenMatched # {} => Survivor \in OpenMatched
  BY <1>3, <1>4, SurvivorExists DEF CasesInv
<1>. QED
  BY <1>1, <1>2, <1>3, <1>4, <1>5 DEF Target

\* The alert and everybody in those cases are in one case then, the others where they were.
LEMMA Applied ==
  ASSUME CasesInv, BatchInv, ApplyGrouping
  PROVE  /\ Grouped' = Grouped \cup {alert}
         /\ case'[alert] = Target
         /\ \A b \in Grouped :
                /\ case'[b] = IF case[b] \in OpenMatched THEN Target ELSE case[b]
                /\ case[b] \notin OpenMatched => case[b] # Target
<1>1. pc = "apply" /\ alert \in Alerts /\ alert \notin Grouped
  BY BatchFacts DEF ApplyGrouping, BatchInv
<1>2. case' = [a \in Alerts |->
                 IF a = alert \/ case[a] \in OpenMatched \ {Target} THEN Target ELSE case[a]]
  BY DEF ApplyGrouping
<1>3. case'[alert] = Target /\ Target # NoAlert
  BY <1>1, <1>2, MatchedFacts, GroupingEngineAssumption DEF NoAlert
<1>4. \A b \in Alerts \ {alert} :
          case'[b] = IF case[b] \in OpenMatched THEN Target ELSE case[b]
  <2>. SUFFICES ASSUME NEW b \in Alerts \ {alert}
       PROVE  case'[b] = IF case[b] \in OpenMatched THEN Target ELSE case[b]
    OBVIOUS
  <2>1. case'[b] = IF case[b] \in OpenMatched \ {Target} THEN Target ELSE case[b]
    BY <1>2
  <2>. QED
    BY <2>1
<1>5. NoAlert \notin OpenMatched
  BY <1>1, MatchedFacts, GroupingEngineAssumption DEF NoAlert
<1>6. Grouped' = Grouped \cup {alert}
  BY <1>1, <1>3, <1>4, <1>5 DEF Grouped, Ungrouped
<1>7. \A b \in Grouped : case[b] \notin OpenMatched => case[b] # Target
  <2>1. \A b \in Grouped : case[b] \in Grouped
    BY DEF CasesInv
  <2>. QED
    BY <1>1, <2>1, MatchedFacts
<1>8. Grouped \subseteq Alerts \ {alert}
  BY <1>1 DEF Grouped
<1>. QED
  BY <1>3, <1>4, <1>6, <1>7, <1>8

\* Applying a run keeps both invariants.
LEMMA CasesApplied ==
  ASSUME CasesInv, BatchInv, ApplyGrouping
  PROVE  CasesInv' /\ BatchInv'
<1>. USE DEF CasesInv
<1>. DEFINE losers == OpenMatched \ {Target}
<1>1. /\ pc = "apply" /\ alert \in Alerts /\ alert \notin Grouped
      /\ data' = data /\ lifecycle' = lifecycle /\ pc' = "idle"
      /\ decision' = [decision EXCEPT ![alert] = Decision(alert)]
      /\ case' = [a \in Alerts |-> IF a = alert \/ case[a] \in losers THEN Target ELSE case[a]]
      /\ born' = IF OpenMatched = {}
                 THEN [born EXCEPT ![alert] = 1 + Cardinality({c \in Alerts : Exists(c)})]
                 ELSE born
  BY BatchFacts DEF ApplyGrouping, BatchInv
<1>2. status' = [c \in Alerts |-> IF c \in losers THEN "Merged"
                                  ELSE IF c = Target THEN
                                      IF OpenMatched = {} THEN "Open" ELSE status[c]
                                  ELSE status[c]]
  BY DEF ApplyGrouping
<1>3. Cardinality({c \in Alerts : Exists(c)}) \in Nat
  BY GroupingEngineAssumption, FS_Subset, FS_CardinalityType
<1>4. /\ born' \in [Alerts -> Nat]
      /\ \A c \in Alerts : Exists(c) => Exists(c)'
      /\ OpenMatched = {} => born'[alert] > 0
  <2>. DEFINE n == Cardinality({c \in Alerts : Exists(c)})
  <2>1. n \in Nat
    BY <1>3
  <2>. HIDE DEF n
  <2>2. born' = IF OpenMatched = {} THEN [born EXCEPT ![alert] = 1 + n] ELSE born
    BY <1>1 DEF n
  <2>3. CASE OpenMatched = {}
    <3>1. /\ born' \in [Alerts -> Nat] /\ born'[alert] = 1 + n
          /\ \A c \in Alerts \ {alert} : born'[c] = born[c]
      BY <1>1, <2>1, <2>2, <2>3
    <3>. QED
      BY <2>1, <3>1 DEF Exists
  <2>4. CASE OpenMatched # {}
    BY <2>2, <2>4 DEF Exists
  <2>. QED
    BY <2>3, <2>4
<1>5. /\ data' \in [Alerts -> Payloads] /\ lifecycle' \in Nat
      /\ case' \in [Alerts -> Alerts \cup {NoAlert}]
      /\ decision' = [a \in Alerts |-> decision'[a]]
  BY <1>1, MatchedFacts
<1>6. status' \in [Alerts -> {"None", "Open", "Closed", "Merged"}]
  BY <1>2
<1>7. ASSUME NEW b \in Grouped'
      PROVE  /\ case'[b] \in Grouped' /\ Exists(case[b])'
             /\ status'[case'[b]] \in {"Open", "Closed"}
             /\ lifecycle' = 0 => status'[case'[b]] = "Open"
  <2>1. /\ Grouped' = Grouped \cup {alert} /\ case'[alert] = Target
        /\ Grouped \subseteq Alerts
    BY Applied DEF Grouped
  <2>2. CASE b = alert \/ case[b] \in OpenMatched
    <3>1. case'[b] = Target /\ Target \in Alerts
      BY <1>1, <2>1, <2>2, Applied, MatchedFacts
    <3>2. CASE OpenMatched = {}
      <4>1. Target = alert /\ status'[Target] = "Open"
        BY <1>1, <1>2, <3>2, MatchedFacts
      <4>2. case'[b] \in Grouped' /\ case'[b] = alert
        BY <2>1, <3>1, <4>1
      <4>3. Exists(case[b])'
        BY <1>4, <3>2, <4>2 DEF Exists
      <4>. QED
        BY <3>1, <4>1, <4>2, <4>3
    <3>3. CASE OpenMatched # {}
      <4>1. Target \in Grouped /\ Exists(Target) /\ status[Target] = "Open"
        BY <1>1, <3>3, MatchedFacts
      <4>2. status'[Target] = status[Target]
        BY <1>2, <3>1, <3>3
      <4>. QED
        BY <1>4, <2>1, <3>1, <4>1, <4>2 DEF Exists
    <3>. QED
      BY <3>2, <3>3
  <2>3. CASE b # alert /\ case[b] \notin OpenMatched
    <3>1. b \in Grouped /\ case'[b] = case[b] /\ case[b] # Target
      BY <2>1, <2>3, Applied
    <3>2. case[b] \in Grouped /\ Exists(case[b]) /\ case[b] \in Alerts
      BY <2>1, <3>1
    <3>3. status'[case[b]] = status[case[b]]
      BY <1>2, <2>3, <3>1, <3>2
    <3>. QED
      BY <1>1, <1>4, <2>1, <3>1, <3>2, <3>3 DEF Exists
  <2>. QED
    BY <2>2, <2>3
<1>. QED
  BY <1>1, <1>4, <1>5, <1>6, <1>7 DEF BatchInv

\* They hold when nothing is grouped.
LEMMA CasesInit == Init => CasesInv /\ BatchInv
<1>. SUFFICES ASSUME Init PROVE CasesInv /\ BatchInv
  OBVIOUS
<1>1. data \in [Alerts -> Payloads]
  BY GroupingEngineAssumption DEF Init, Payloads
<1>2. Grouped = {}
  BY DEF Init, Grouped, Ungrouped
<1>. QED
  BY <1>1, <1>2 DEF Init, CasesInv, BatchInv

\* What the batch depends on stays while a run goes on.
LEMMA CasesKept ==
  ASSUME CasesInv, BatchInv, UNCHANGED store
  PROVE  /\ CasesInv' /\ Grouped' = Grouped
         /\ UNCHANGED <<alert, batch, kept>> /\ (pc' # "idle" => pc # "idle") => BatchInv'
<1>1. UNCHANGED <<data, case, status, born, decision, lifecycle>>
  BY DEF store
<1>2. CasesInv' /\ Grouped' = Grouped
  BY <1>1 DEF CasesInv, Grouped, Ungrouped, Exists
<1>3. ASSUME UNCHANGED <<alert, batch, kept>>, pc' # "idle" => pc # "idle" PROVE BatchInv'
  <2>1. NewestNear(alert)' = NewestNear(alert)
    BY <1>1, <1>3 DEF NewestNear, Near, InReach, Ungrouped
  <2>2. Kept(batch)' = Kept(batch)
    <3>1. CandidatePairs(batch)' = CandidatePairs(batch)
      BY <1>1, <1>3 DEF CandidatePairs, Allowed, Smallest, Counterparts, Blocked
    <3>2. \A a, b : Keep(a, b)' = Keep(a, b)
      BY <1>1 DEF Keep, Verdict
    <3>. QED
      BY <3>1, <3>2 DEF Kept
  <2>3. Ungrouped(alert)' = Ungrouped(alert)
    BY <1>1, <1>3 DEF Ungrouped
  <2>. QED
    BY <1>3, <2>1, <2>2, <2>3 DEF BatchInv
<1>. QED
  BY <1>2, <1>3

\* Every step keeps them.
LEMMA CasesStep == CasesInv /\ BatchInv /\ [Next]_vars => CasesInv' /\ BatchInv'
<1>. SUFFICES ASSUME CasesInv, BatchInv, [Next]_vars PROVE CasesInv' /\ BatchInv'
  OBVIOUS
<1>1. ASSUME NEW a \in Alerts, StartRun(a) PROVE CasesInv' /\ BatchInv'
  <2>1. UNCHANGED store /\ UNCHANGED <<data, case>> /\ alert' = a /\ Ungrouped(a)
    BY <1>1 DEF StartRun, store
  <2>2. PICK candidates \in NewestNear(a) :
           batch' = candidates \cup {a} /\ kept' = Kept(candidates \cup {a})
    BY <1>1 DEF StartRun
  <2>3. candidates \in NewestNear(a)' /\ kept' = Kept(batch)' /\ Ungrouped(a)'
    BY <2>1, <2>2 DEF NewestNear, Near, InReach, Ungrouped, Kept, CandidatePairs,
                      Allowed, Smallest, Counterparts, Blocked, Keep, Verdict
  <2>. QED
    BY <2>1, <2>2, <2>3, CasesKept DEF BatchInv
<1>2. CASE Climb \/ Compress \/ FoundLow \/ FoundHigh \/ FoundKey
  <2>1. UNCHANGED store /\ UNCHANGED <<alert, batch, kept>> /\ pc # "idle"
    BY <1>2 DEF Climb, Compress, FoundLow, FoundHigh, FoundKey, Searching
  <2>. QED
    BY <2>1, CasesKept
<1>3. CASE ApplyGrouping
  BY <1>3, CasesApplied
<1>4. ASSUME NEW c \in Alerts, Lifecycle(c) PROVE CasesInv' /\ BatchInv'
  <2>1. /\ UNCHANGED <<data, case, born, decision>> /\ lifecycle' = lifecycle + 1
        /\ pc' = "idle" /\ lifecycle' \in Nat /\ lifecycle' # 0
    BY <1>4 DEF Lifecycle, run, CasesInv
  <2>2. PICK s \in {"Open", "Closed"} : status' = [status EXCEPT ![c] = s]
    BY <1>4 DEF Lifecycle
  <2>3. status' \in [Alerts -> {"None", "Open", "Closed", "Merged"}]
    BY <2>2 DEF CasesInv
  <2>4. \A d \in Alerts : status[d] \in {"Open", "Closed"} => status'[d] \in {"Open", "Closed"}
    BY <2>2 DEF CasesInv
  <2>5. Grouped' = Grouped /\ Grouped \subseteq Alerts
    BY <2>1 DEF Grouped, Ungrouped
  <2>. QED
    BY <2>1, <2>3, <2>4, <2>5 DEF CasesInv, BatchInv, Exists
<1>5. CASE UNCHANGED vars
  BY <1>5, CasesKept DEF vars, run
<1>. QED
  BY <1>1, <1>2, <1>3, <1>4, <1>5 DEF Next, Engine

\* The query's LIMIT is the cap of blocking.py: it drops no pair of a batch.
THEOREM CapIsEnough == Spec => []CapNeverDrops
<1>1. BatchInv => CapNeverDrops
  BY NobodyDropped DEF CapNeverDrops
<1>. QED
  BY <1>1, CasesInit, CasesStep, PTL DEF Spec

-----------------------------------------------------------------------------
(* Decisions. *)

\* A decision cites the strongest kept pair of the alert, or says there is none.
LEMMA DecisionFacts ==
  ASSUME CasesInv, BatchInv, RunInv, pc = "apply"
  PROVE  \/ Decision(alert) = Singleton /\ OpenMatched = {}
         \/ \E b \in batch \ {alert} :
                /\ Decision(alert) = Verdict(alert, b)
                /\ Decision(alert).method # "singleton"
                /\ key[b] = key[alert]
<1>1. alert \in batch /\ batch \subseteq Alerts /\ data \in [Alerts -> Payloads]
  BY BatchFacts DEF CasesInv
<1>2. CASE Incident(alert) = {}
  <2>1. \A b \in batch : key[b] = key[alert] => b = alert
    BY <1>1, <1>2, LonelyKey
  <2>2. OpenMatched = {}
    BY <2>1, MatchedFacts
  <2>. QED
    BY <1>2, <2>2 DEF Decision
<1>3. CASE Incident(alert) # {}
  <2>. DEFINE S == Incident(alert)
              b == CHOOSE x \in S : \A c \in S : Stronger(alert, x, c)
  <2>1. S \in SUBSET Alerts /\ S # {} /\ alert \in Alerts
    BY <1>1, <1>3 DEF Incident
  <2>2. b \in S
    <3>. HIDE DEF S
    <3>1. \E x \in S : \A c \in S : Stronger(alert, x, c)
      BY <1>1, <2>1, StrongestExists
    <3>. QED
      BY <3>1
  <2>3. Decision(alert) = Verdict(alert, b)
    BY <1>3 DEF Decision
  <2>. HIDE DEF b
  <2>4. b \in batch /\ key[b] = key[alert]
    BY <1>1, <2>2, IncidentKey
  <2>5. b # alert
    <3>1. kept \subseteq Evidence
      BY <1>1, KeptIsEvidence DEF BatchInv
    <3>2. \A e \in Evidence : e[1] < e[2] /\ e[1] \in Nat
      BY GroupingEngineAssumption DEF Evidence
    <3>3. <<alert, alert>> \notin Evidence
      BY <2>1, <3>2, GroupingEngineAssumption
    <3>. QED
      BY <2>2, <3>1, <3>3 DEF Incident
  <2>6. Verdict(alert, b).method # "singleton"
    BY <1>1, <2>4, <2>1, VerdictType
  <2>. QED
    BY <2>3, <2>4, <2>5, <2>6
<1>. QED
  BY <1>2, <1>3

\* The alert joins the cases of the batch members with its key, unless one is closed.
LEMMA JoinsItsKey ==
  ASSUME CasesInv, BatchInv, ApplyGrouping, lifecycle = 0,
         NEW b \in batch \ {alert}, key[b] = key[alert]
  PROVE  case[b] \in OpenMatched /\ case'[b] = Target /\ case'[alert] = Target
<1>1. pc = "apply"
  BY DEF ApplyGrouping
<1>2. b \in Grouped
  BY <1>1, BatchFacts
<1>3. status[case[b]] = "Open"
  BY <1>2 DEF CasesInv
<1>4. case[b] \in OpenMatched
  BY <1>1, <1>3, MatchedFacts
<1>. QED
  BY <1>2, <1>4, Applied

\* A verdict depends on the data only.
LEMMA SameVerdict ==
  ASSUME data' = data
  PROVE  \A a, b : Verdict(a, b)' = Verdict(a, b)
BY DEF Verdict

\* A step that moves no alert keeps the decisions explained.
LEMMA DecisionKept ==
  ASSUME DecisionIsExplained, UNCHANGED <<data, case, decision>>,
         \A c \in Alerts : Exists(c) => Exists(c)', lifecycle' = 0 => lifecycle = 0
  PROVE  DecisionIsExplained'
<1>1. Grouped' = Grouped /\ Grouped \subseteq Alerts
  BY DEF Grouped, Ungrouped
<1>2. SUFFICES ASSUME NEW a \in Grouped
      PROVE  IF decision[a].method = "singleton" THEN born'[a] > 0
             ELSE \E b \in Grouped \ {a} :
                     /\ decision[a] = Verdict(a, b)
                     /\ lifecycle' = 0 => case[b] = case[a]
  BY <1>1, SameVerdict DEF DecisionIsExplained, Exists
<1>3. CASE decision[a].method = "singleton"
  BY <1>1, <1>3 DEF DecisionIsExplained, Exists
<1>4. CASE decision[a].method # "singleton"
  BY <1>4 DEF DecisionIsExplained
<1>. QED
  BY <1>3, <1>4

\* The decision a run writes is explained, and the earlier ones still are.
LEMMA DecisionApplied ==
  ASSUME CasesInv, BatchInv, RunInv, DecisionIsExplained, ApplyGrouping
  PROVE  DecisionIsExplained'
<1>1. /\ pc = "apply" /\ alert \in Alerts /\ alert \notin Grouped
      /\ data' = data /\ lifecycle' = lifecycle
      /\ decision' = [decision EXCEPT ![alert] = Decision(alert)]
      /\ born' = IF OpenMatched = {}
                 THEN [born EXCEPT ![alert] = 1 + Cardinality({c \in Alerts : Exists(c)})]
                 ELSE born
  BY BatchFacts DEF ApplyGrouping, BatchInv
<1>2. /\ Grouped' = Grouped \cup {alert} /\ batch \ {alert} \subseteq Grouped
      /\ Grouped \subseteq Alerts
  BY <1>1, Applied, BatchFacts DEF Grouped
<1>3. /\ \A a \in Grouped : decision'[a] = decision[a]
      /\ decision'[alert] = Decision(alert)
  BY <1>1, <1>2 DEF CasesInv
<1>4. /\ OpenMatched = {} => born'[alert] > 0
      /\ \A c \in Alerts : born[c] > 0 => born'[c] > 0
  <2>. DEFINE n == Cardinality({c \in Alerts : Exists(c)})
  <2>1. n \in Nat
    BY GroupingEngineAssumption, FS_Subset, FS_CardinalityType
  <2>. HIDE DEF n
  <2>2. born' = IF OpenMatched = {} THEN [born EXCEPT ![alert] = 1 + n] ELSE born
    BY <1>1 DEF n
  <2>3. born \in [Alerts -> Nat]
    BY DEF CasesInv
  <2>. QED
    BY <1>1, <2>1, <2>2, <2>3
<1>5. SUFFICES ASSUME NEW a \in Grouped \cup {alert}
      PROVE  IF decision'[a].method = "singleton" THEN born'[a] > 0
             ELSE \E b \in (Grouped \cup {alert}) \ {a} :
                     /\ decision'[a] = Verdict(a, b)
                     /\ lifecycle = 0 => case'[b] = case'[a]
  BY <1>1, <1>2, SameVerdict DEF DecisionIsExplained, Exists
<1>6. CASE a = alert
  <2>1. CASE Decision(alert) = Singleton /\ OpenMatched = {}
    BY <1>3, <1>4, <1>6, <2>1 DEF Singleton
  <2>2. CASE ~(Decision(alert) = Singleton /\ OpenMatched = {})
    <3>1. PICK b \in batch \ {alert} :
             /\ Decision(alert) = Verdict(alert, b)
             /\ Decision(alert).method # "singleton"
             /\ key[b] = key[alert]
      BY <1>1, <2>2, DecisionFacts
    <3>2. lifecycle = 0 => case'[b] = case'[alert]
      BY <3>1, JoinsItsKey
    <3>. QED
      BY <1>2, <1>3, <1>6, <3>1, <3>2
  <2>. QED
    BY <2>1, <2>2
<1>7. CASE a \in Grouped
  <2>1. CASE decision[a].method = "singleton"
    <3>1. born[a] > 0
      BY <1>7, <2>1 DEF DecisionIsExplained, Exists
    <3>. QED
      BY <1>2, <1>3, <1>4, <1>7, <2>1, <3>1
  <2>2. CASE decision[a].method # "singleton"
    <3>1. PICK b \in Grouped \ {a} :
             /\ decision[a] = Verdict(a, b)
             /\ lifecycle = 0 => case[b] = case[a]
      BY <1>7, <2>2 DEF DecisionIsExplained
    <3>2. case[b] = case[a] => case'[b] = case'[a]
      BY <1>7, Applied
    <3>. QED
      BY <1>3, <1>7, <2>2, <3>1, <3>2
  <2>. QED
    BY <2>1, <2>2
<1>. QED
  BY <1>6, <1>7

\* Every persisted decision stays explained: the pair it cites is of grouped alerts,
\* has its method, rules and score, and, while no case was closed, is in one case.
THEOREM DecisionsExplained == Spec => []DecisionIsExplained
<1>. DEFINE Inv == CasesInv /\ BatchInv /\ RunInv /\ DecisionIsExplained
<1>1. Init => Inv
  <2>1. Init => DecisionIsExplained
    BY DEF Init, DecisionIsExplained, Grouped, Ungrouped
  <2>. QED
    BY <2>1, CasesInit, RunInit
<1>2. Inv /\ [Next]_vars => Inv'
  <2>. SUFFICES ASSUME Inv, [Next]_vars PROVE Inv'
    OBVIOUS
  <2>1. CASE UNCHANGED store
    <3>1. UNCHANGED <<data, case, decision, born, lifecycle>>
      BY <2>1 DEF store
    <3>2. DecisionIsExplained'
      BY <3>1, DecisionKept DEF Exists
    <3>. QED
      BY <3>2, CasesStep, RunNext
  <2>2. CASE \E c \in Alerts : Lifecycle(c)
    <3>1. UNCHANGED <<data, case, decision, born>> /\ lifecycle' # 0
      BY <2>2 DEF Lifecycle, CasesInv
    <3>2. DecisionIsExplained'
      BY <3>1, DecisionKept DEF Exists
    <3>. QED
      BY <3>2, CasesStep, RunNext
  <2>3. CASE ApplyGrouping
    <3>1. DecisionIsExplained'
      BY <2>3, DecisionApplied
    <3>. QED
      BY <3>1, CasesStep, RunNext
  <2>4. UNCHANGED store \/ ApplyGrouping \/ \E c \in Alerts : Lifecycle(c)
    BY DEF Next, Engine, StartRun, Climb, Compress, FoundLow, FoundHigh, FoundKey, vars, store
  <2>. QED
    BY <2>1, <2>2, <2>3, <2>4
<1>. QED
  BY <1>1, <1>2, PTL DEF Spec

-----------------------------------------------------------------------------
(* The abstract partition. *)

ClassOf(c) == {b \in Alerts : case[b] = c}

\* Every class is that of a grouped alert.
LEMMA ClassesAre == Classes = {ClassOf(case[b]) : b \in Grouped}
<1>1. {case[a] : a \in Grouped} = {case[b] : b \in Grouped}
  OBVIOUS
<1>. QED
  BY DEF Classes, ClassOf

\* The classes hold the grouped alerts.
LEMMA ClassesOfGrouped == UNION Classes = Grouped
<1>1. Classes = {ClassOf(case[b]) : b \in Grouped}
  BY ClassesAre
<1>2. \A b \in Grouped : b \in ClassOf(case[b])
  BY DEF Grouped, ClassOf
<1>3. \A b \in Grouped : ClassOf(case[b]) \subseteq Grouped
  BY DEF Grouped, ClassOf, Ungrouped
<1>. QED
  BY <1>1, <1>2, <1>3

\* Evidence and classes depend on the data and on the cases only.
LEMMA PartitionKept ==
  ASSUME UNCHANGED <<data, case>>
  PROVE  Evidence' = Evidence /\ Classes' = Classes
<1>1. Evidence' = Evidence
  BY DEF Evidence, Blocked, Keep, Verdict
<1>2. Classes' = Classes
  BY DEF Classes, Grouped, Ungrouped
<1>. QED
  BY <1>1, <1>2

\* The classes of the cases the alert is put together with become one, with the alert.
LEMMA ClassesApplied ==
  ASSUME CasesInv, BatchInv, ApplyGrouping, NEW joined, joined = {ClassOf(c) : c \in OpenMatched}
  PROVE  /\ joined \in SUBSET Classes
         /\ Classes' = (Classes \ joined) \cup {(UNION joined) \cup {alert}}
<1>1. pc = "apply" /\ alert \in Alerts /\ alert \notin Grouped /\ Grouped \subseteq Alerts
  BY BatchFacts DEF ApplyGrouping, BatchInv, Grouped
<1>2. \A c \in OpenMatched : \E b \in Grouped : case[b] = c
  BY <1>1, MatchedFacts, BatchFacts
<1>3. joined \in SUBSET Classes
  BY <1>2, ClassesAre
<1>4. UNION joined = {b \in Grouped : case[b] \in OpenMatched}
  <2>1. \A c \in OpenMatched : c # NoAlert
    BY <1>1, MatchedFacts, GroupingEngineAssumption DEF NoAlert
  <2>. QED
    BY <2>1 DEF ClassOf, Grouped, Ungrouped
<1>5. /\ Grouped' = Grouped \cup {alert} /\ case'[alert] = Target
      /\ \A b \in Grouped : /\ case'[b] = IF case[b] \in OpenMatched THEN Target ELSE case[b]
                            /\ case[b] \notin OpenMatched => case[b] # Target
  BY Applied
<1>6. Classes' = {{a \in Grouped' : case'[a] = case'[b]} : b \in Grouped'}
  <2>1. \A b \in Grouped' : {a \in Alerts : case'[a] = case'[b]} = {a \in Grouped' : case'[a] = case'[b]}
    BY DEF Grouped, Ungrouped
  <2>2. Classes' = {{a \in Alerts : case'[a] = case'[b]} : b \in Grouped'}
    BY DEF Classes
  <2>. QED
    BY <2>1, <2>2
<1>7. {a \in Grouped' : case'[a] = Target} = (UNION joined) \cup {alert}
  BY <1>1, <1>4, <1>5
<1>8. \A b \in Grouped : case[b] \in OpenMatched => ClassOf(case[b]) \in joined
  OBVIOUS
<1>9. ASSUME NEW b \in Grouped, case[b] \notin OpenMatched
      PROVE  /\ {a \in Grouped' : case'[a] = case'[b]} = ClassOf(case[b])
             /\ ClassOf(case[b]) \notin joined
  <2>1. case'[b] = case[b] /\ case[b] # Target /\ case[b] # NoAlert
    BY <1>5, <1>9 DEF Grouped, Ungrouped
  <2>2. \A a \in Grouped' : case'[a] = case[b] <=> a \in Grouped /\ case[a] = case[b]
    BY <1>5, <1>9, <2>1
  <2>3. {a \in Grouped' : case'[a] = case'[b]} = ClassOf(case[b])
    BY <1>5, <2>1, <2>2 DEF ClassOf, Grouped, Ungrouped
  <2>4. b \in ClassOf(case[b]) /\ b \notin UNION joined
    BY <1>1, <1>4, <1>9 DEF ClassOf
  <2>. QED
    BY <2>3, <2>4
<1>10. Classes' \subseteq (Classes \ joined) \cup {(UNION joined) \cup {alert}}
  <2>. SUFFICES ASSUME NEW b \in Grouped'
       PROVE  {a \in Grouped' : case'[a] = case'[b]}
                  \in (Classes \ joined) \cup {(UNION joined) \cup {alert}}
    BY <1>6
  <2>1. CASE case'[b] = Target
    BY <1>7, <2>1
  <2>2. CASE case'[b] # Target
    <3>1. b \in Grouped /\ case[b] \notin OpenMatched
      BY <1>5, <2>2
    <3>2. ClassOf(case[b]) \in Classes
      BY <3>1, ClassesAre
    <3>. QED
      BY <1>9, <3>1, <3>2
  <2>. QED
    BY <2>1, <2>2
<1>11. (Classes \ joined) \subseteq Classes'
  <2>. SUFFICES ASSUME NEW b \in Grouped, ClassOf(case[b]) \notin joined
       PROVE  ClassOf(case[b]) \in Classes'
    BY ClassesAre
  <2>. QED
    BY <1>5, <1>6, <1>8, <1>9
<1>12. (UNION joined) \cup {alert} \in Classes'
  BY <1>5, <1>6, <1>7
<1>. QED
  BY <1>3, <1>10, <1>11, <1>12

\* What the kept pairs connect, the evidence among the grouped alerts connects.
LEMMA KeyIsConnected ==
  ASSUME BatchInv, RunInv, pc = "apply", NEW b \in batch, key[b] = key[alert]
  PROVE  Partition!Connected(alert, b)
<1>1. alert \in batch /\ batch \subseteq Alerts /\ batch \subseteq Grouped \cup {alert}
  BY BatchFacts
<1>2. kept \subseteq Evidence \cap (batch \X batch)
  BY <1>1, KeptIsEvidence DEF BatchInv
<1>3. ASSUME NEW S \in Partition!Uncut(Grouped \cup {alert}), alert \in S
      PROVE  b \in S
  <2>1. \A e \in Evidence \cap ((Grouped \cup {alert}) \X (Grouped \cup {alert})) :
            e[1] \in S <=> e[2] \in S
    BY DEF Partition!Uncut
  <2>2. \A e \in kept : e[1] \in S <=> e[2] \in S
    BY <1>1, <1>2, <2>1
  <2>3. \A e \in kept : e[1] \in batch /\ e[2] \in batch
    BY <1>2
  <2>4. S \cap batch \in Uncut(batch, kept)
    BY <2>2, <2>3 DEF Uncut
  <2>. QED
    BY <1>1, <1>3, <2>4, EqualKeys
<1>4. Partition!Grouped = Grouped
  BY ClassesOfGrouped DEF Partition!Grouped
<1>. QED
  BY <1>3, <1>4 DEF Partition!Connected

\* Applying a run groups its alert; every other step leaves the partition alone.
LEMMA PartitionStep ==
  ASSUME CasesInv, BatchInv, RunInv, [Next]_vars
  PROVE  [Partition!Next]_Partition!partition
<1>1. CASE UNCHANGED <<data, case>>
  BY <1>1, PartitionKept DEF Partition!partition
<1>2. CASE ApplyGrouping
  <2>. DEFINE joined == {ClassOf(c) : c \in OpenMatched}
  <2>1. pc = "apply" /\ alert \in Alerts /\ alert \notin Grouped /\ data' = data
    BY <1>2, BatchFacts DEF ApplyGrouping, BatchInv
  <2>2. /\ joined \in SUBSET Classes
        /\ Classes' = (Classes \ joined) \cup {(UNION joined) \cup {alert}}
    <3>. HIDE DEF joined
    <3>1. joined = {ClassOf(c) : c \in OpenMatched}
      BY DEF joined
    <3>. QED
      BY <1>2, <3>1, ClassesApplied
  <2>3. ASSUME NEW K \in joined PROVE \E b \in K : Partition!Connected(alert, b)
    <3>1. PICK c \in OpenMatched : K = ClassOf(c)
      BY <2>3
    <3>2. PICK b \in batch \ {alert} : case[b] = c /\ key[b] = key[alert]
      BY <2>1, <3>1, MatchedFacts
    <3>3. b \in K /\ b \in batch
      BY <2>1, <3>1, <3>2, BatchFacts DEF ClassOf
    <3>. QED
      BY <2>1, <3>2, <3>3, KeyIsConnected
  <2>4. Evidence' = Evidence
    BY <2>1 DEF Evidence, Blocked, Keep, Verdict
  <2>5. alert \notin UNION Classes /\ alert \in UNION (Classes')
    BY <2>1, <2>2, ClassesOfGrouped
  <2>. HIDE DEF joined
  <2>6. Partition!Group(alert)
    BY <2>2, <2>3, <2>4, <2>5 DEF Partition!Group, Partition!Grouped
  <2>. QED
    BY <2>1, <2>6 DEF Partition!Next
<1>3. UNCHANGED <<data, case>> \/ ApplyGrouping
  BY DEF Next, Engine, StartRun, Climb, Compress, FoundLow, FoundHigh, FoundKey, Lifecycle, vars, store
<1>. QED
  BY <1>1, <1>2, <1>3

\* The engine, its candidate query and the case it puts an alert in implement the
\* abstract partition of the grouped alerts: cases are only joined, and on evidence.
THEOREM ImplementsTheCases == Spec => ImplementsPartition
<1>1. Init => Partition!Init
  <2>1. Evidence \in SUBSET (Alerts \X Alerts)
    BY DEF Evidence
  <2>2. Init => Classes = {}
    BY DEF Init, Classes, Grouped, Ungrouped
  <2>. QED
    BY <2>1, <2>2 DEF Partition!Init
<1>2. CasesInv /\ BatchInv /\ RunInv /\ [Next]_vars => [Partition!Next]_Partition!partition
  BY PartitionStep
<1>. QED
  BY <1>1, <1>2, CasesInit, CasesStep, RunInit, RunNext, PTL DEF Spec, ImplementsPartition, Partition!Spec

-----------------------------------------------------------------------------
(* Sequential passes. *)

\* Every enabled rule blocks on a column the candidate query tests, or on nothing.
QueryCoversRules == \A r \in Enabled : r.blocking = {} \/ r.blocking \cap BlockingFields # {}

GapsAreNumbers == \A i, j \in Payloads : Gap(Payload[i], Payload[j]) \in Nat

\* The distance of two events is a number.
LEMMA Gaps == GapsAreNumbers
BY ScoringAssumption DEF GapsAreNumbers, Gap, Abs

\* The distance of two events does not depend on their order.
LEMMA GapIsSymmetric ==
  ASSUME NEW i \in Payloads, NEW j \in Payloads
  PROVE  Gap(Payload[i], Payload[j]) = Gap(Payload[j], Payload[i])
<1>1. Payload[i].time \in Int /\ Payload[j].time \in Int
  BY ScoringAssumption
<1>. QED
  BY <1>1 DEF Gap, Abs

\* Blocking is symmetric.
LEMMA BlockedIsSymmetric ==
  ASSUME data \in [Alerts -> Payloads], NEW a \in Alerts, NEW b \in Alerts, Blocked(a, b)
  PROVE  Blocked(b, a)
<1>. DEFINE i == data[a]
            j == data[b]
<1>1. i \in Payloads /\ j \in Payloads
  OBVIOUS
<1>2. PICK r \in Enabled : ShareBlock(r, Payload[i], Payload[j]) /\ Gap(Payload[i], Payload[j]) <= r.window
  BY DEF Blocked, BlockTable
<1>3. ShareBlock(r, Payload[j], Payload[i])
  BY <1>2 DEF ShareBlock
<1>4. Gap(Payload[j], Payload[i]) <= r.window
  BY <1>1, <1>2, GapIsSymmetric
<1>. QED
  BY <1>1, <1>3, <1>4 DEF Blocked, BlockTable

\* No enabled rule has a wider window than the query.
LEMMA WidestIsWide ==
  ASSUME NEW r \in Enabled
  PROVE  WidestWindow \in Nat /\ r.window <= WidestWindow
<1>. DEFINE R == {e \in Enabled \X Enabled : e[1].window >= e[2].window}
<1>1. IsFiniteSet(Enabled) /\ \A s \in Enabled : s.window \in Nat
  BY ScoringAssumption, FS_Subset DEF Enabled
<1>2. PICK w \in Enabled : \A s \in Enabled : w.window >= s.window
  <2>1. \A x, y \in Enabled : <<x, y>> \in R <=> x.window >= y.window
    OBVIOUS
  <2>. HIDE DEF R
  <2>2. ASSUME NEW x \in Enabled, NEW y \in Enabled
        PROVE  <<x, y>> \in R \/ <<y, x>> \in R
    <3>1. x.window \in Nat /\ y.window \in Nat
      BY <1>1
    <3>2. x.window >= y.window \/ y.window >= x.window
      BY <3>1
    <3>. QED
      BY <2>1, <3>2
  <2>3. \A x, y, z \in Enabled : <<x, y>> \in R /\ <<y, z>> \in R => <<x, z>> \in R
    BY <1>1, <2>1
  <2>4. \E x \in Enabled : \A y \in Enabled : <<x, y>> \in R
    BY <1>1, <2>2, <2>3, FirstExists
  <2>. QED
    BY <2>1, <2>4
<1>. DEFINE S == {s.window : s \in Enabled} \cup {0}
<1>3. w.window \in Nat /\ S \in SUBSET (0..w.window) /\ S # {} /\ r.window \in S
  BY <1>1, <1>2
<1>4. S \subseteq Nat
  BY <1>1
<1>. HIDE DEF S
<1>5. Max(S) \in S /\ Max(S) >= r.window
  BY <1>3, MaxOfBounded
<1>6. Max(S) \in Nat /\ r.window \in Nat
  BY <1>1, <1>4, <1>5
<1>. QED
  BY <1>5, <1>6 DEF WidestWindow, S

\* The query reaches every grouped alert that shares a bucket with a.
LEMMA BlockedIsInReach ==
  ASSUME QueryCoversRules, data \in [Alerts -> Payloads],
         NEW a \in Alerts, NEW b \in Alerts \ {a}, Blocked(a, b)
  PROVE  b \in InReach(a)
<1>. DEFINE p == Payload[data[a]]
            q == Payload[data[b]]
<1>1. data[a] \in Payloads /\ data[b] \in Payloads
  OBVIOUS
<1>2. PICK r \in Enabled : ShareBlock(r, p, q) /\ Gap(p, q) <= r.window
  BY DEF Blocked, BlockTable
<1>3. PICK k \in r.blocking \cap BlockingFields : TRUE
  BY <1>2 DEF QueryCoversRules, ShareBlock
<1>4. p.ref[k] # Null /\ p.ref[k] = q.ref[k]
  <2>1. k # "amount_bucket"
    BY <1>3 DEF BlockingFields
  <2>. QED
    BY <1>2, <1>3, <2>1 DEF ShareBlock, Field
<1>5. Gap(p, q) <= WidestWindow
  <2>1. Gap(p, q) \in Nat
    BY <1>1, Gaps DEF GapsAreNumbers
  <2>2. r.window \in Nat /\ r.window <= WidestWindow /\ WidestWindow \in Nat
    BY WidestIsWide, ScoringAssumption DEF Enabled
  <2>. HIDE DEF p, q
  <2>. QED
    BY <1>2, <2>1, <2>2
<1>6. <<data[a], data[b]>> \in ReachTable
  BY <1>1, <1>3, <1>4, <1>5 DEF ReachTable
<1>. QED
  BY <1>6 DEF InReach

\* A query that is not cut short returns everybody it reaches.
LEMMA UncrowdedBatch ==
  ASSUME BatchInv, Uncrowded, pc # "idle"
  PROVE  batch = Near(alert) \cup {alert}
<1>1. PICK S \in NewestNear(alert) : batch = S \cup {alert}
  BY DEF BatchInv
<1>2. S \subseteq Near(alert) /\ Cardinality(S) = Min({Cap, Cardinality(Near(alert))})
  BY DEF NewestNear
<1>3. alert \in Alerts /\ IsFiniteSet(InReach(alert)) /\ Near(alert) \subseteq InReach(alert)
  BY GroupingEngineAssumption, FS_Subset DEF BatchInv, InReach, Near
<1>4. /\ IsFiniteSet(Near(alert)) /\ Cardinality(Near(alert)) <= Cardinality(InReach(alert))
      /\ Cardinality(Near(alert)) \in Nat /\ Cardinality(InReach(alert)) \in Nat /\ Cap \in Nat
  BY <1>3, FS_Subset, FS_CardinalityType, GroupingEngineAssumption
<1>5. Cardinality(Near(alert)) <= Cap
  BY <1>3, <1>4 DEF Uncrowded
<1>6. Min({Cap, Cardinality(Near(alert))}) = Cardinality(Near(alert))
  <2>. DEFINE n == Cardinality(Near(alert))
  <2>1. n \in Nat /\ Cap \in Nat /\ n <= Cap
    BY <1>4, <1>5
  <2>. HIDE DEF n
  <2>2. {Cap, n} \in SUBSET Nat /\ {Cap, n} # {}
    BY <2>1
  <2>3. Min({Cap, n}) \in {Cap, n} /\ Min({Cap, n}) <= n
    BY <2>2, MinOfNaturals
  <2>. QED
    BY <2>1, <2>3 DEF n
<1>7. S = Near(alert)
  BY <1>2, <1>4, <1>6, FS_Subset
<1>. QED
  BY <1>1, <1>7

\* A match between the alert and a grouped alert is kept by its run.
LEMMA MatchIsKept ==
  ASSUME QueryCoversRules, Uncrowded, CasesInv, BatchInv, pc = "apply", NEW b \in Grouped,
         <<alert, b>> \in Evidence \/ <<b, alert>> \in Evidence
  PROVE  b \in batch \ {alert} /\ b \in Incident(alert)
<1>1. /\ alert \in Alerts /\ alert \notin Grouped /\ b \in Alerts \ {alert}
      /\ alert \in batch /\ data \in [Alerts -> Payloads]
  BY BatchFacts DEF BatchInv, CasesInv, Grouped
<1>2. Blocked(alert, b) /\ Blocked(b, alert)
  BY <1>1, BlockedIsSymmetric DEF Evidence
<1>3. b \in batch
  BY <1>1, <1>2, BlockedIsInReach, UncrowdedBatch DEF Near, Grouped
<1>4. alert \in Allowed(batch, b) /\ b \in Allowed(batch, alert)
  BY <1>1, <1>2, <1>3, NobodyDropped DEF Counterparts
<1>5. <<alert, b>> \in kept \/ <<b, alert>> \in kept
  BY <1>1, <1>3, <1>4 DEF BatchInv, Kept, CandidatePairs, Evidence
<1>. QED
  BY <1>1, <1>3, <1>5 DEF Incident

\* One case holds what evidence connects.
OnEvidence ==
    \A S \in Uncut(Grouped, Evidence \cap (Grouped \X Grouped)) :
        \A a, b \in Grouped : case[a] = case[b] => (a \in S <=> b \in S)

\* While no query is cut short and no case was closed, matching alerts are in one case.
MatchesTogether ==
    lifecycle = 0 /\ Uncrowded =>
        \A e \in Evidence \cap (Grouped \X Grouped) : case[e[1]] = case[e[2]]

\* The evidence within a batch connects what its run puts together.
LEMMA OnEvidenceApplied ==
  ASSUME CasesInv, BatchInv, RunInv, OnEvidence, ApplyGrouping
  PROVE  OnEvidence'
<1>. DEFINE all == Grouped \cup {alert}
<1>1. /\ pc = "apply" /\ data' = data /\ alert \in batch
      /\ Grouped' = all /\ case'[alert] = Target /\ batch \subseteq all /\ batch \subseteq Alerts
  BY Applied, BatchFacts DEF ApplyGrouping
<1>2. Evidence' = Evidence
  BY <1>1 DEF Evidence, Blocked, Keep, Verdict
<1>3. SUFFICES ASSUME NEW S \in SUBSET all,
                      \A e \in Evidence \cap (all \X all) : e[1] \in S <=> e[2] \in S,
                      NEW a \in all, NEW b \in all, case'[a] = case'[b]
      PROVE  a \in S <=> b \in S
  BY <1>1, <1>2 DEF OnEvidence, Uncut
<1>. HIDE DEF all
<1>4. ASSUME NEW x \in Grouped, NEW y \in Grouped, case[x] = case[y]
      PROVE  x \in S <=> y \in S
  <2>1. \A e \in Evidence \cap (Grouped \X Grouped) :
            e[1] \in S \cap Grouped <=> e[2] \in S \cap Grouped
    BY <1>3 DEF all
  <2>2. S \cap Grouped \in Uncut(Grouped, Evidence \cap (Grouped \X Grouped))
    BY <2>1 DEF Uncut
  <2>. QED
    BY <1>4, <2>2 DEF OnEvidence
<1>5. ASSUME NEW x \in batch, key[x] = key[alert]
      PROVE  x \in S <=> alert \in S
  <2>1. kept \subseteq Evidence \cap (batch \X batch)
    BY <1>1, KeptIsEvidence DEF BatchInv
  <2>2. \A e \in kept : e[1] \in S \cap batch <=> e[2] \in S \cap batch
    BY <1>1, <1>3, <2>1
  <2>3. S \cap batch \in Uncut(batch, kept)
    BY <2>2 DEF Uncut
  <2>. QED
    BY <1>1, <1>5, <2>3, EqualKeys
<1>6. ASSUME NEW x \in all, case'[x] = Target
      PROVE  x \in S <=> alert \in S
  <2>1. CASE x = alert
    BY <2>1
  <2>2. CASE x # alert
    <3>1. x \in Grouped /\ case[x] \in OpenMatched
      BY <1>6, <2>2, Applied DEF all
    <3>2. PICK y \in batch \ {alert} : case[y] = case[x] /\ key[y] = key[alert]
      BY <1>1, <3>1, MatchedFacts
    <3>3. y \in Grouped
      BY <1>1 DEF all
    <3>. QED
      BY <1>4, <1>5, <3>1, <3>2, <3>3
  <2>. QED
    BY <2>1, <2>2
<1>7. CASE case'[a] = Target
  BY <1>3, <1>6, <1>7
<1>8. CASE case'[a] # Target
  <2>1. a \in Grouped /\ b \in Grouped
    BY <1>1, <1>3, <1>8 DEF all
  <2>2. case[a] = case[b]
    BY <1>3, <1>8, <2>1, Applied
  <2>. QED
    BY <1>4, <2>1, <2>2
<1>. QED
  BY <1>7, <1>8

\* The run of an alert puts it together with everybody it matches.
LEMMA MatchesApplied ==
  ASSUME QueryCoversRules, CasesInv, BatchInv, RunInv, MatchesTogether, ApplyGrouping
  PROVE  MatchesTogether'
<1>1. /\ pc = "apply" /\ data' = data /\ lifecycle' = lifecycle
      /\ alert \in batch /\ alert \notin Grouped
      /\ Grouped' = Grouped \cup {alert} /\ case'[alert] = Target
  BY Applied, BatchFacts DEF ApplyGrouping
<1>2. Evidence' = Evidence /\ Uncrowded' = Uncrowded
  BY <1>1 DEF Evidence, Blocked, Keep, Verdict, Uncrowded, InReach
<1>3. SUFFICES ASSUME lifecycle = 0, Uncrowded, NEW a \in Grouped \cup {alert},
                      NEW b \in Grouped \cup {alert}, <<a, b>> \in Evidence
      PROVE  case'[a] = case'[b]
  BY <1>1, <1>2 DEF MatchesTogether
<1>4. ASSUME NEW x \in Grouped, <<alert, x>> \in Evidence \/ <<x, alert>> \in Evidence
      PROVE  case'[x] = Target
  <2>1. x \in batch \ {alert} /\ key[x] = key[alert]
    BY <1>1, <1>3, <1>4, MatchIsKept, IncidentKey
  <2>. QED
    BY <1>3, <2>1, JoinsItsKey
<1>5. CASE a = alert \/ b = alert
  <2>1. <<alert, alert>> \notin Evidence
    <3>1. alert \in Nat
      BY <1>1, BatchFacts, GroupingEngineAssumption
    <3>. QED
      BY <3>1 DEF Evidence
  <2>2. CASE a = alert
    BY <1>1, <1>3, <1>4, <2>1, <2>2
  <2>3. CASE b = alert
    BY <1>1, <1>3, <1>4, <2>1, <2>3
  <2>. QED
    BY <1>5, <2>2, <2>3
<1>6. CASE a \in Grouped /\ b \in Grouped
  <2>1. case[a] = case[b]
    BY <1>3, <1>6 DEF MatchesTogether
  <2>. QED
    BY <1>6, <2>1, Applied
<1>. QED
  BY <1>5, <1>6

\* Other steps leave the cases and the evidence alone.
LEMMA MatchesKept ==
  ASSUME UNCHANGED <<data, case>>, lifecycle' = 0 => lifecycle = 0
  PROVE  (OnEvidence => OnEvidence') /\ (MatchesTogether => MatchesTogether')
<1>1. /\ Evidence' = Evidence /\ Uncrowded' = Uncrowded /\ Grouped' = Grouped
  BY DEF Evidence, Blocked, Keep, Verdict, Uncrowded, InReach, Grouped, Ungrouped
<1>. QED
  BY <1>1 DEF OnEvidence, MatchesTogether, Uncut

\* "Sequential passes collapse a batch to the right set of cases": while no query is cut
\* short and no case was closed, two grouped alerts are in one case exactly when the
\* evidence among the grouped alerts connects them.  The candidate query tests fixed
\* columns, so every enabled rule has to block on one of them.
THEOREM SequentialPasses ==
  ASSUME QueryCoversRules
  PROVE  Spec => []SequentialIsBatch
<1>. DEFINE Inv == CasesInv /\ BatchInv /\ RunInv /\ OnEvidence /\ MatchesTogether
<1>1. Init => Inv
  <2>1. Init => OnEvidence /\ MatchesTogether
    BY DEF Init, OnEvidence, MatchesTogether, Grouped, Ungrouped
  <2>. QED
    BY <2>1, CasesInit, RunInit
<1>2. Inv /\ [Next]_vars => Inv'
  <2>. SUFFICES ASSUME Inv, [Next]_vars PROVE Inv'
    OBVIOUS
  <2>1. CASE UNCHANGED <<data, case>> /\ (lifecycle' = 0 => lifecycle = 0)
    BY <2>1, MatchesKept, CasesStep, RunNext
  <2>2. CASE ApplyGrouping
    BY <2>2, OnEvidenceApplied, MatchesApplied, CasesStep, RunNext
  <2>3. ASSUME NEW c \in Alerts, Lifecycle(c)
        PROVE  UNCHANGED <<data, case>> /\ (lifecycle' = 0 => lifecycle = 0)
    BY <2>3 DEF Lifecycle, CasesInv
  <2>4. \/ UNCHANGED <<data, case>> /\ (lifecycle' = 0 => lifecycle = 0)
        \/ ApplyGrouping \/ \E c \in Alerts : Lifecycle(c)
    BY DEF Next, Engine, StartRun, Climb, Compress, FoundLow, FoundHigh, FoundKey, vars, store
  <2>. QED
    BY <2>1, <2>2, <2>3, <2>4
<1>3. Inv => SequentialIsBatch
  <2>. DEFINE E == Evidence \cap (Grouped \X Grouped)
  <2>. SUFFICES ASSUME Inv, lifecycle = 0, Uncrowded, NEW a \in Grouped
       PROVE  {b \in Grouped : case[b] = case[a]} = Component(Grouped, E)[a]
    BY DEF SequentialIsBatch
  <2>. DEFINE C == {b \in Grouped : case[b] = case[a]}
  <2>1. Component(Grouped, E)[a] = {b \in Grouped : \A S \in Uncut(Grouped, E) : a \in S => b \in S}
    BY DEF Component
  <2>2. \A b \in C : \A S \in Uncut(Grouped, E) : a \in S => b \in S
    BY DEF OnEvidence
  <2>3. C \in Uncut(Grouped, E) /\ a \in C
    <3>1. \A e \in E : e[1] \in Grouped /\ e[2] \in Grouped /\ case[e[1]] = case[e[2]]
      BY DEF MatchesTogether
    <3>. QED
      BY <3>1 DEF Uncut
  <2>. QED
    BY <2>1, <2>2, <2>3
<1>. QED
  BY <1>1, <1>2, <1>3, PTL DEF Spec

=============================================================================
