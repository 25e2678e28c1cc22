-------------------------- MODULE AuditChainProofs --------------------------
(***************************************************************************)
(* Proofs about AuditChain, for any number of streams, writers and events. *)
(*                                                                         *)
(* The committed rows of a stream are a chain; so are they together with   *)
(* what the one transaction that holds the tip has added.  A transaction   *)
(* that does not hold the tip of a stream has written nothing in it, so a  *)
(* commit either leaves a stream alone or installs the chain of its holder *)
(* (ChainInv).                                                             *)
(*                                                                         *)
(* What the readers of the log report rests on AuditInv.  A damaged stream *)
(* is no chain any more, but appends to it still go on from its tip        *)
(* (Linked) or fail (Stuck); so an edit, a loss or a moved tip leaves a    *)
(* trace that no later append removes, whichever tip a reader read before  *)
(* (Seen).  A bundle of a stream nobody damaged holds its first n events,  *)
(* and the event of the export comes after them (Read).                    *)
(***************************************************************************)
EXTENDS AuditChain, DataTheorems, FiniteSetTheorems

\* rows are the events 1..n, each linked to the one before it.
Chain(rows, n) ==
    /\ rows = [k \in 1..n |-> rows[k]]
    /\ \A k \in 1..n :
           /\ rows[k].prev = IF k = 1 THEN Genesis ELSE rows[k - 1].hash
           /\ rows[k].hash = EventHash(rows[k].prev, k, rows[k].body)

\* t is the tip of the chain rows.
Whole(t, rows) ==
    /\ t.seq \in Nat
    /\ Chain(rows, t.seq)
    /\ t.hash = IF t.seq = 0 THEN Genesis ELSE rows[t.seq].hash

Committed(s) ==
    IF tip[s] = NoTip THEN log[s] = NoRows ELSE tip[s].seq > 0 /\ Whole(tip[s], log[s])

Pending(w, s) ==
    IF newTip[w][s] = NoTip THEN newLog[w][s] = NoRows
    ELSE /\ Whole(newTip[w][s], Extend(log[s], newLog[w][s]))
         /\ newTip[w][s].seq = 0 => wr[w].stream = s /\ wr[w].pc \in {"lock", "append"}

OneHolder(s) == \A w, u \in Writer : w # u => newTip[w][s] = NoTip \/ newTip[u][s] = NoTip

Shapes ==
    /\ tip = [s \in Stream |-> tip[s]]
    /\ log = [s \in Stream |-> log[s]]
    /\ newTip = [w \in Writer |-> [s \in Stream |-> newTip[w][s]]]
    /\ newLog = [w \in Writer |-> [s \in Stream |-> newLog[w][s]]]
    /\ wr \in [Writer -> [pc: {"idle", "open", "lock", "append", "anchor"},
                          stream: Stream \cup {NoStream}]]
    /\ \A w \in Writer : wr[w].pc \in {"lock", "append"} => wr[w].stream \in Stream
    /\ \A w \in Writer : wr[w].pc = "append" => newTip[w][wr[w].stream] # NoTip

Sound(s) == Committed(s) /\ OneHolder(s) /\ \A w \in Writer : Pending(w, s)

ChainInv == Shapes /\ \A s \in Stream \ damaged : Sound(s)

-----------------------------------------------------------------------------
(* Lemmas about chains. *)

\* Extending by nothing, and by one event after others.
LEMMA ExtendFacts ==
    ASSUME NEW rows, NEW more, NEW last
    PROVE  /\ rows = [k \in DOMAIN rows |-> rows[k]] => Extend(rows, NoRows) = rows
           /\ Extend(rows, Extend(more, last)) = Extend(Extend(rows, more), last)
BY DEF Extend, NoRows

\* Appending the next event to a chain gives a chain.
LEMMA ChainGrows ==
    ASSUME NEW t, NEW rows, Whole(t, rows), NEW body
    PROVE  LET hash == EventHash(t.hash, t.seq + 1, body)
               event == [prev |-> t.hash, body |-> body, hash |-> hash]
           IN  Whole(NextTip(t, hash), Extend(rows, [k \in {t.seq + 1} |-> event]))
<1> DEFINE n == t.seq
           hash == EventHash(t.hash, n + 1, body)
           event == [prev |-> t.hash, body |-> body, hash |-> hash]
           grown == Extend(rows, [k \in {n + 1} |-> event])
<1>1. /\ n \in Nat /\ DOMAIN rows = 1..n
      /\ t.hash = IF n = 0 THEN Genesis ELSE rows[n].hash
      /\ \A k \in 1..n :
           /\ rows[k].prev = IF k = 1 THEN Genesis ELSE rows[k - 1].hash
           /\ rows[k].hash = EventHash(rows[k].prev, k, rows[k].body)
  BY DEF Whole, Chain
<1>2. DOMAIN rows \cup {n + 1} = 1..(n + 1)
  BY <1>1
<1> HIDE DEF n, hash, event
<1>3. grown = [k \in 1..(n + 1) |-> IF k = n + 1 THEN event ELSE rows[k]]
  BY <1>2 DEF Extend
<1> HIDE DEF grown
<1>4. \A k \in 1..n : k \in 1..(n + 1) /\ k # n + 1 /\ grown[k] = rows[k]
  BY <1>1, <1>3
<1>5. n + 1 \in 1..(n + 1) /\ grown[n + 1] = event
  BY <1>1, <1>3
<1>6. event.prev = t.hash /\ event.body = body /\ event.hash = hash
  BY DEF event
<1>7. Chain(grown, n + 1)
  <2>1. grown = [k \in 1..(n + 1) |-> grown[k]]
    BY <1>3
  <2>2. ASSUME NEW k \in 1..(n + 1)
        PROVE  /\ grown[k].prev = IF k = 1 THEN Genesis ELSE grown[k - 1].hash
               /\ grown[k].hash = EventHash(grown[k].prev, k, grown[k].body)
    <3>1. CASE k = n + 1
      <4>1. grown[k].hash = EventHash(grown[k].prev, k, grown[k].body)
        BY <1>5, <1>6, <3>1 DEF hash
      <4>2. CASE n = 0
        BY <1>1, <1>5, <1>6, <3>1, <4>1, <4>2
      <4>3. CASE n # 0
        <5>1. n \in 1..n /\ k - 1 = n /\ k # 1
          BY <1>1, <3>1, <4>3
        <5> QED BY <1>1, <1>4, <1>5, <1>6, <3>1, <4>1, <4>3, <5>1
      <4> QED BY <4>2, <4>3
    <3>2. CASE k # n + 1
      <4>1. k \in 1..n /\ grown[k] = rows[k]
        BY <1>1, <1>4, <3>2
      <4>2. k # 1 => k - 1 \in 1..n /\ grown[k - 1] = rows[k - 1]
        BY <1>1, <1>4, <4>1
      <4> QED BY <1>1, <4>1, <4>2
    <3> QED BY <3>1, <3>2
  <2> QED BY <2>1, <2>2 DEF Chain
<1>8. Whole(NextTip(t, hash), grown)
  <2>1. NextTip(t, hash).seq = n + 1 /\ NextTip(t, hash).hash = hash
    BY DEF NextTip, n
  <2> QED BY <1>1, <1>5, <1>6, <1>7, <2>1 DEF Whole
<1> QED BY <1>8 DEF grown, event, hash, n

\* What a chain is made for: verify_stream finds nothing and the anchor holds.
LEMMA ChainIsVerified ==
    ASSUME NEW t, NEW rows, Whole(t, rows), t.seq > 0
    PROVE  rows # NoRows /\ Verified(t, rows)
<1> DEFINE n == t.seq
<1>1. /\ n \in Nat /\ n > 0 /\ DOMAIN rows = 1..n /\ t.hash = rows[n].hash
      /\ \A k \in 1..n :
           /\ rows[k].prev = IF k = 1 THEN Genesis ELSE rows[k - 1].hash
           /\ rows[k].hash = EventHash(rows[k].prev, k, rows[k].body)
  BY SMTT(30) DEF Whole, Chain
<1> HIDE DEF n
<1>2. n \in DOMAIN rows
  BY <1>1
<1>3. rows # NoRows
  BY <1>2 DEF NoRows
<1>4. ASSUME NEW k \in DOMAIN rows PROVE rows[k].prev = ExpectedPrev(rows, k)
  <2> DEFINE before == {j \in DOMAIN rows : j < k}
  <2>1. CASE k = 1
    <3>1. before = {}
      BY <1>1, <2>1
    <3> QED BY <1>1, <2>1, <3>1 DEF ExpectedPrev
  <2>2. CASE k # 1
    <3>1. k - 1 \in before /\ \A j \in before : j <= k - 1
      BY <1>1, <2>2
    <3>2. before \in SUBSET (0..n) /\ before # {}
      BY <1>1, <3>1
    <3> HIDE DEF before
    <3>3. Max(before) \in before /\ \A j \in before : Max(before) >= j
      BY <1>1, <3>2, MaxOfBounded
    <3>4. Max(before) = k - 1
      <4>1. Max(before) \in 0..n /\ k - 1 \in 0..n
        BY <3>1, <3>2, <3>3
      <4>2. Max(before) >= k - 1 /\ Max(before) <= k - 1
        BY <3>1, <3>3
      <4> QED BY <4>1, <4>2
    <3> QED BY <1>1, <2>2, <3>2, <3>4 DEF ExpectedPrev, before
  <2> QED BY <2>1, <2>2
<1>5. BrokenSeqs(rows) = {}
  BY <1>1, <1>4 DEF BrokenSeqs
<1>6. Anchored(t, rows)
  <2>1. DOMAIN rows \in SUBSET (0..n) /\ DOMAIN rows # {}
    <3>1. \A k \in 1..n : k \in 0..n
      BY <1>1
    <3> QED BY <1>1, <1>2, <3>1
  <2>2. Max(DOMAIN rows) \in DOMAIN rows /\ \A j \in DOMAIN rows : Max(DOMAIN rows) >= j
    BY <1>1, <2>1, MaxOfBounded
  <2>3. Max(DOMAIN rows) = n
    <3> DEFINE m == Max(DOMAIN rows)
    <3>1. m \in 1..n /\ m >= n
      BY <1>1, <1>2, <2>2
    <3> HIDE DEF m
    <3>2. m = n
      BY <1>1, <3>1
    <3> QED BY <3>2 DEF m
  <2>4. Cardinality(DOMAIN rows) = n
    <3>1. Cardinality(1..n) = IF 1 > n THEN 0 ELSE n - 1 + 1
      BY <1>1, FS_Interval
    <3> QED BY <1>1, <3>1
  <2> QED BY <1>1, <2>3, <2>4 DEF Anchored, n
<1> QED BY <1>2, <1>3, <1>5, <1>6 DEF Verified

-----------------------------------------------------------------------------
(* The invariant. *)

\* Every stream starts without a tip and without events.
LEMMA InitChain == Init => ChainInv
<1> SUFFICES ASSUME Init PROVE ChainInv
  OBVIOUS
<1>1. Shapes
  BY DEF Init, Shapes
<1>2. ASSUME NEW s \in Stream PROVE Sound(s)
  BY DEF Init, Sound, Committed, OneHolder, Pending
<1> QED BY <1>1, <1>2 DEF ChainInv

\* A step that leaves the rows of a stream alone keeps it sound, if it lets no writer
\* go that has inserted the tip and no event yet.
LEMMA SoundKept ==
    ASSUME NEW s \in Stream, Sound(s), tip'[s] = tip[s], log'[s] = log[s],
           \A w \in Writer : newTip'[w][s] = newTip[w][s] /\ newLog'[w][s] = newLog[w][s],
           \A w \in Writer : newTip[w][s] # NoTip /\ newTip[w][s].seq = 0 =>
               wr'[w].stream = s /\ wr'[w].pc \in {"lock", "append"}
    PROVE  Sound(s)'
<1>1. Committed(s)' /\ OneHolder(s)'
  BY DEF Sound, Committed, OneHolder
<1>2. ASSUME NEW w \in Writer PROVE Pending(w, s)'
  <2>1. Pending(w, s)
    BY DEF Sound
  <2> QED BY <2>1 DEF Pending
<1> QED BY <1>1, <1>2 DEF Sound

\* A locked tip with seq 0 belongs to a writer that is about to append.
LEMMA FreshTip ==
    ASSUME ChainInv, NEW s \in Stream \ damaged, NEW w \in Writer,
           newTip[w][s] # NoTip, newTip[w][s].seq = 0
    PROVE  wr[w].stream = s /\ wr[w].pc \in {"lock", "append"}
BY DEF ChainInv, Sound, Pending

\* The genesis tip is inserted under the lock an insert is.
LEMMA EnsureChain ==
    ASSUME ChainInv, NEW w \in Writer, NEW s \in Stream, EnsureStream(w, s)
    PROVE  ChainInv'
<1>1. /\ wr \in [Writer -> [pc: {"idle", "open", "lock", "append", "anchor"},
                            stream: Stream \cup {NoStream}]]
      /\ newTip = [u \in Writer |-> [x \in Stream |-> newTip[u][x]]]
  BY DEF ChainInv, Shapes
<1>2. /\ UNCHANGED <<tip, log, newLog, damaged>>
      /\ wr' = [wr EXCEPT ![w] = [pc |-> "lock", stream |-> s]] /\ wr[w].pc \in {"idle", "open"}
  BY DEF EnsureStream
<1>3. newTip' = newTip \/ ( /\ SeenTip(w, s) = NoTip /\ TipFree(w, s)
                            /\ newTip' = [newTip EXCEPT ![w][s] = GenesisTip])
  BY DEF EnsureStream
<1>4. GenesisTip # NoTip /\ GenesisTip.seq = 0 /\ GenesisTip.hash = Genesis
  BY DEF GenesisTip, NoTip
<1>5. Shapes'
  <2>1. newTip' = [u \in Writer |-> [x \in Stream |-> newTip'[u][x]]]
    BY <1>1, <1>3
  <2>2. /\ wr' \in [Writer -> [pc: {"idle", "open", "lock", "append", "anchor"},
                               stream: Stream \cup {NoStream}]]
        /\ \A u \in Writer : wr'[u].pc \in {"lock", "append"} => wr'[u].stream \in Stream
    BY <1>1, <1>2 DEF ChainInv, Shapes
  <2>3. \A u \in Writer : wr'[u].pc = "append" => u # w /\ wr'[u] = wr[u]
    BY <1>1, <1>2
  <2>4. \A u \in Writer : wr'[u].pc = "append" => newTip'[u][wr'[u].stream] # NoTip
    BY <1>1, <1>3, <1>4, <2>3 DEF ChainInv, Shapes
  <2> QED BY <1>2, <2>1, <2>2, <2>4 DEF ChainInv, Shapes
<1>6. ASSUME NEW x \in Stream \ damaged PROVE Sound(x)'
  <2>1. Sound(x)
    BY DEF ChainInv
  <2>2. \A u \in Writer : newTip[u][x] # NoTip /\ newTip[u][x].seq = 0 =>
            wr'[u].stream = x /\ wr'[u].pc \in {"lock", "append"}
    BY <1>1, <1>2, FreshTip
  <2>3. CASE \A u \in Writer : newTip'[u][x] = newTip[u][x]
    BY <1>2, <2>1, <2>2, <2>3, SoundKept
  <2>4. CASE ~(\A u \in Writer : newTip'[u][x] = newTip[u][x])
    <3>1. /\ x = s /\ SeenTip(w, s) = NoTip /\ TipFree(w, s)
          /\ \A u \in Writer : newTip'[u][s] = IF u = w THEN GenesisTip ELSE newTip[u][s]
      <4>1. /\ SeenTip(w, s) = NoTip /\ TipFree(w, s)
            /\ newTip' = [newTip EXCEPT ![w][s] = GenesisTip]
        BY <1>3, <2>4
      <4>2. \A u \in Writer, y \in Stream :
                newTip'[u][y] = IF u = w /\ y = s THEN GenesisTip ELSE newTip[u][y]
        BY <1>1, <4>1
      <4>3. x = s
        BY <2>4, <4>2
      <4> QED BY <4>1, <4>2, <4>3
    <3>2. tip[s] = NoTip /\ \A u \in Writer : newTip[u][s] = NoTip
      BY <3>1 DEF SeenTip, TipFree
    <3>3. log[s] = NoRows /\ \A u \in Writer : newLog[u][s] = NoRows
      BY <2>1, <3>1, <3>2 DEF Sound, Committed, Pending
    <3>4. Committed(s)' /\ OneHolder(s)'
      BY <1>2, <3>1, <3>2, <3>3 DEF Committed, OneHolder
    <3>5. ASSUME NEW u \in Writer PROVE Pending(u, s)'
      <4>1. CASE u = w
        <5>1. Extend(NoRows, NoRows) = NoRows
          BY DEF Extend, NoRows
        <5>2. Whole(GenesisTip, NoRows)
          BY <1>4 DEF Whole, Chain, NoRows
        <5>3. wr'[u].stream = s /\ wr'[u].pc = "lock"
          BY <1>1, <1>2, <4>1
        <5> QED BY <1>2, <1>4, <3>1, <3>3, <4>1, <5>1, <5>2, <5>3 DEF Pending
      <4>2. CASE u # w
        BY <1>2, <3>1, <3>2, <3>3, <4>2 DEF Pending
      <4> QED BY <4>1, <4>2
    <3> QED BY <3>1, <3>4, <3>5 DEF Sound
  <2> QED BY <2>3, <2>4
<1> QED BY <1>2, <1>5, <1>6 DEF ChainInv

\* The lock is granted on the latest committed tip, or on the writer's own.
LEMMA LockChain ==
    ASSUME ChainInv, NEW w \in Writer, LockTip(w)
    PROVE  ChainInv'
<1>0. PICK s \in Stream : s = wr[w].stream
  BY DEF ChainInv, Shapes, LockTip
<1>1. /\ wr \in [Writer -> [pc: {"idle", "open", "lock", "append", "anchor"},
                            stream: Stream \cup {NoStream}]]
      /\ newTip = [u \in Writer |-> [x \in Stream |-> newTip[u][x]]]
  BY DEF ChainInv, Shapes
<1>2. /\ UNCHANGED <<tip, log, newLog, damaged>> /\ wr' = [wr EXCEPT ![w].pc = "append"]
      /\ newTip' = [newTip EXCEPT ![w][s] = SeenTip(w, s)]
      /\ SeenTip(w, s) # NoTip /\ TipFree(w, s)
  BY <1>0 DEF LockTip
<1>3. \A u \in Writer, x \in Stream :
          newTip'[u][x] = IF u = w /\ x = s THEN SeenTip(w, s) ELSE newTip[u][x]
  BY <1>1, <1>2
<1>4. \A u \in Writer : /\ wr'[u].stream = wr[u].stream
                        /\ wr'[u].pc = IF u = w THEN "append" ELSE wr[u].pc
  BY <1>1, <1>2
<1>5. Shapes'
  <2>1. newTip' = [u \in Writer |-> [x \in Stream |-> newTip'[u][x]]]
    BY <1>1, <1>2
  <2>2. wr' \in [Writer -> [pc: {"idle", "open", "lock", "append", "anchor"},
                            stream: Stream \cup {NoStream}]]
    BY <1>1, <1>2
  <2>3. \A u \in Writer : wr'[u].pc \in {"lock", "append"} => wr'[u].stream \in Stream
    BY <1>0, <1>1, <1>4 DEF ChainInv, Shapes
  <2>4. \A u \in Writer : wr'[u].pc = "append" => newTip'[u][wr'[u].stream] # NoTip
    BY <1>0, <1>1, <1>2, <1>3, <1>4, <2>3 DEF ChainInv, Shapes
  <2> QED BY <1>2, <2>1, <2>2, <2>3, <2>4, SMTT(30) DEF ChainInv, Shapes
<1>6. ASSUME NEW x \in Stream \ damaged PROVE Sound(x)'
  <2>1. Sound(x)
    BY DEF ChainInv
  <2>2. \A u \in Writer : newTip[u][x] # NoTip /\ newTip[u][x].seq = 0 =>
            wr'[u].stream = x /\ wr'[u].pc \in {"lock", "append"}
    BY <1>4, FreshTip
  <2>3. CASE \A u \in Writer : newTip'[u][x] = newTip[u][x]
    BY <1>2, <2>1, <2>2, <2>3, SoundKept
  <2>4. CASE ~(\A u \in Writer : newTip'[u][x] = newTip[u][x])
    <3>1. x = s /\ newTip[w][s] = NoTip
      BY <1>2, <1>3, <2>4 DEF SeenTip
    <3>2. tip[s] # NoTip /\ newTip'[w][s] = tip[s] /\ newLog[w][s] = NoRows
      BY <1>1, <1>2, <1>3, <2>1, <3>1 DEF SeenTip, Sound, Pending
    <3>3. tip[s].seq > 0 /\ Whole(tip[s], log[s])
      BY <2>1, <3>1, <3>2 DEF Sound, Committed
    <3>4. Extend(log[s], NoRows) = log[s]
      <4>1. log[s] = [k \in DOMAIN log[s] |-> log[s][k]]
        BY <3>3 DEF Whole, Chain
      <4> QED BY <4>1, ExtendFacts
    <3>5. Committed(s)' /\ OneHolder(s)'
      BY <1>1, <1>2, <1>3, <2>1, <3>1 DEF Sound, Committed, OneHolder, TipFree
    <3>6. ASSUME NEW u \in Writer PROVE Pending(u, s)'
      <4>1. CASE u = w
        BY <1>2, <3>2, <3>3, <3>4, <4>1 DEF Pending, Whole
      <4>2. CASE u # w
        BY <1>1, <1>2, <1>3, <1>4, <2>1, <3>1, <4>2 DEF Sound, Pending, TipFree
      <4> QED BY <4>1, <4>2
    <3> QED BY <3>1, <3>5, <3>6 DEF Sound
  <2> QED BY <2>3, <2>4
<1> QED BY <1>2, <1>5, <1>6 DEF ChainInv

\* The holder adds the next event of the chain, with the tip that goes with it.
LEMMA AppendChain ==
    ASSUME ChainInv, NEW w \in Writer, NEW body \in Body, AppendEvent(w, body)
    PROVE  ChainInv'
<1>0. PICK s \in Stream : s = wr[w].stream
  BY DEF ChainInv, Shapes, AppendEvent
<1> DEFINE t == newTip[w][s]
           hash == EventHash(t.hash, t.seq + 1, body)
           event == [prev |-> t.hash, body |-> body, hash |-> hash]
           last == [k \in {t.seq + 1} |-> event]
<1>1. /\ wr \in [Writer -> [pc: {"idle", "open", "lock", "append", "anchor"},
                            stream: Stream \cup {NoStream}]]
      /\ newTip = [u \in Writer |-> [x \in Stream |-> newTip[u][x]]]
      /\ newLog = [u \in Writer |-> [x \in Stream |-> newLog[u][x]]]
      /\ t # NoTip
  BY <1>0 DEF ChainInv, Shapes, AppendEvent
<1>2. /\ UNCHANGED <<tip, log, damaged>> /\ wr' = [wr EXCEPT ![w].pc = "open"]
      /\ newTip' = [newTip EXCEPT ![w][s] = NextTip(t, hash)]
      /\ newLog' = [newLog EXCEPT ![w][s] = Extend(newLog[w][s], last)]
      /\ wr[w].pc = "append"
  BY <1>0, <1>1 DEF AppendEvent
<1>3. \A u \in Writer, x \in Stream :
          /\ newTip'[u][x] = IF u = w /\ x = s THEN NextTip(t, hash) ELSE newTip[u][x]
          /\ newLog'[u][x] = IF u = w /\ x = s THEN Extend(newLog[w][s], last) ELSE newLog[u][x]
  <2> HIDE DEF t, hash, last
  <2> QED BY <1>1, <1>2
<1>4. \A u \in Writer : /\ wr'[u].stream = wr[u].stream
                        /\ wr'[u].pc = IF u = w THEN "open" ELSE wr[u].pc
  BY <1>1, <1>2
<1>5. Shapes'
  <2>1. /\ newTip' = [u \in Writer |-> [x \in Stream |-> newTip'[u][x]]]
        /\ newLog' = [u \in Writer |-> [x \in Stream |-> newLog'[u][x]]]
    <3> HIDE DEF t, hash, last
    <3> QED BY <1>1, <1>2
  <2>2. wr' \in [Writer -> [pc: {"idle", "open", "lock", "append", "anchor"},
                            stream: Stream \cup {NoStream}]]
    BY <1>1, <1>2
  <2>3. \A u \in Writer : wr'[u].pc \in {"lock", "append"} => wr'[u].stream \in Stream
    BY <1>1, <1>4 DEF ChainInv, Shapes
  <2>4. ASSUME NEW u \in Writer, wr'[u].pc = "append"
        PROVE  newTip'[u][wr'[u].stream] # NoTip
    <3>1. u # w /\ wr[u].pc = "append" /\ wr'[u].stream = wr[u].stream
      BY <1>4, <2>4
    <3>2. newTip[u][wr[u].stream] # NoTip /\ wr[u].stream \in Stream
      BY <3>1 DEF ChainInv, Shapes
    <3> HIDE DEF t, hash, last
    <3>3. newTip'[u][wr[u].stream] = newTip[u][wr[u].stream]
      BY <1>3, <3>1, <3>2
    <3> QED BY <3>1, <3>2, <3>3
  <2> QED BY <1>2, <2>1, <2>2, <2>3, <2>4 DEF ChainInv, Shapes
<1>6. ASSUME NEW x \in Stream \ damaged PROVE Sound(x)'
  <2>1. Sound(x)
    BY DEF ChainInv
  <2>2. CASE x # s
    <3>1. \A u \in Writer : newTip[u][x] # NoTip /\ newTip[u][x].seq = 0 =>
              wr'[u].stream = x /\ wr'[u].pc \in {"lock", "append"}
      BY <1>0, <1>4, <2>2, FreshTip
    <3>2. \A u \in Writer : newTip'[u][x] = newTip[u][x] /\ newLog'[u][x] = newLog[u][x]
      BY <1>3, <2>2
    <3> QED BY <1>2, <2>1, <3>1, <3>2, SoundKept
  <2>3. CASE x = s
    <3>1. Whole(t, Extend(log[s], newLog[w][s]))
      BY <1>1, <2>1, <2>3 DEF Sound, Pending
    <3>2. Whole(NextTip(t, hash), Extend(Extend(log[s], newLog[w][s]), last))
      BY <3>1, ChainGrows
    <3>3. Whole(NextTip(t, hash), Extend(log[s], Extend(newLog[w][s], last)))
      BY <3>2, ExtendFacts
    <3>4. t.seq \in Nat /\ NextTip(t, hash).seq = t.seq + 1
      BY <3>1 DEF Whole, NextTip
    <3>5. NextTip(t, hash) # NoTip /\ NextTip(t, hash).seq # 0
      BY <3>4 DEF NoTip
    <3>6. \A u \in Writer \ {w} : newTip[u][s] = NoTip /\ newLog[u][s] = NoRows
      BY <1>1, <2>1, <2>3 DEF Sound, OneHolder, Pending
    <3> HIDE DEF t, hash, last
    <3>7. Committed(s)' /\ OneHolder(s)'
      BY <1>2, <1>3, <2>1, <2>3, <3>6 DEF Sound, Committed, OneHolder
    <3>8. ASSUME NEW u \in Writer PROVE Pending(u, s)'
      <4>1. CASE u = w
        <5>1. newTip'[u][s] = NextTip(t, hash) /\ newLog'[u][s] = Extend(newLog[w][s], last)
          BY <1>3, <4>1
        <5> QED BY <1>2, <3>3, <3>5, <5>1 DEF Pending
      <4>2. CASE u # w
        BY <1>3, <3>6, <4>2 DEF Pending
      <4> QED BY <4>1, <4>2
    <3> QED BY <2>3, <3>7, <3>8 DEF Sound
  <2> QED BY <2>2, <2>3
<1> QED BY <1>2, <1>5, <1>6 DEF ChainInv

\* What letting go of every lock leaves of the writers.
LEMMA ReleaseShapes ==
    ASSUME ChainInv, NEW w \in Writer, Released(w)
    PROVE  /\ newTip' = [u \in Writer |-> [x \in Stream |-> newTip'[u][x]]]
           /\ newLog' = [u \in Writer |-> [x \in Stream |-> newLog'[u][x]]]
           /\ wr' \in [Writer -> [pc: {"idle", "open", "lock", "append", "anchor"},
                                  stream: Stream \cup {NoStream}]]
           /\ \A u \in Writer : wr'[u].pc \in {"lock", "append"} => wr'[u].stream \in Stream
           /\ \A u \in Writer : wr'[u].pc = "append" => newTip'[u][wr'[u].stream] # NoTip
           /\ \A x \in Stream : newTip'[w][x] = NoTip /\ newLog'[w][x] = NoRows
           /\ \A u \in Writer \ {w} : /\ wr'[u] = wr[u]
                                      /\ newTip'[u] = newTip[u] /\ newLog'[u] = newLog[u]
<1>1. /\ wr \in [Writer -> [pc: {"idle", "open", "lock", "append", "anchor"},
                            stream: Stream \cup {NoStream}]]
      /\ newTip = [u \in Writer |-> [x \in Stream |-> newTip[u][x]]]
      /\ newLog = [u \in Writer |-> [x \in Stream |-> newLog[u][x]]]
  BY DEF ChainInv, Shapes
<1>2. /\ newTip' = [newTip EXCEPT ![w] = [s \in Stream |-> NoTip]]
      /\ newLog' = [newLog EXCEPT ![w] = [s \in Stream |-> NoRows]]
      /\ wr' = [wr EXCEPT ![w] = [pc |-> "idle", stream |-> NoStream]]
  BY DEF Released
<1>3. \A u \in Writer \ {w} : wr'[u] = wr[u] /\ newTip'[u] = newTip[u] /\ newLog'[u] = newLog[u]
  BY <1>1, <1>2
<1>4. \A x \in Stream : newTip'[w][x] = NoTip /\ newLog'[w][x] = NoRows
  BY <1>1, <1>2
<1>5. wr'[w].pc = "idle"
  BY <1>1, <1>2
<1>6. /\ newTip' = [u \in Writer |-> [x \in Stream |-> newTip'[u][x]]]
      /\ newLog' = [u \in Writer |-> [x \in Stream |-> newLog'[u][x]]]
  BY <1>1, <1>2
<1>7. wr' \in [Writer -> [pc: {"idle", "open", "lock", "append", "anchor"},
                          stream: Stream \cup {NoStream}]]
  BY <1>1, <1>2
<1>8. ASSUME NEW u \in Writer
      PROVE  /\ wr'[u].pc \in {"lock", "append"} => wr'[u].stream \in Stream
             /\ wr'[u].pc = "append" => newTip'[u][wr'[u].stream] # NoTip
  BY <1>3, <1>5 DEF ChainInv, Shapes
<1> QED BY <1>3, <1>4, <1>6, <1>7, <1>8

\* A commit installs, in each stream, the chain of the writer that holds its tip.
LEMMA CommitChain ==
    ASSUME ChainInv, NEW w \in Writer, Commit(w)
    PROVE  ChainInv'
<1>1. /\ tip' = [s \in Stream |-> SeenTip(w, s)]
      /\ log' = [s \in Stream |-> Extend(log[s], newLog[w][s])]
      /\ damaged' = damaged /\ Released(w) /\ wr[w].pc = "open"
  BY DEF Commit
<1>2. Shapes'
  <2>1. tip' = [s \in Stream |-> tip'[s]] /\ log' = [s \in Stream |-> log'[s]]
    BY <1>1
  <2> QED BY <1>1, <2>1, ReleaseShapes DEF Shapes
<1>3. ASSUME NEW x \in Stream \ damaged PROVE Sound(x)'
  <2>1. Committed(x) /\ OneHolder(x) /\ Pending(w, x) /\ \A u \in Writer : Pending(u, x)
    BY DEF ChainInv, Sound
  <2>2. /\ newTip'[w][x] = NoTip /\ newLog'[w][x] = NoRows
        /\ \A u \in Writer \ {w} : /\ wr'[u] = wr[u] /\ newTip'[u][x] = newTip[u][x]
                                   /\ newLog'[u][x] = newLog[u][x]
    BY <1>1, ReleaseShapes
  <2>3. OneHolder(x)'
    BY <2>1, <2>2 DEF OneHolder
  <2>4. CASE newTip[w][x] = NoTip
    <3>1. tip'[x] = tip[x] /\ newLog[w][x] = NoRows
      BY <1>1, <2>1, <2>4 DEF SeenTip, Pending
    <3>2. log'[x] = log[x]
      <4>1. log[x] = [k \in DOMAIN log[x] |-> log[x][k]]
        BY <2>1 DEF Committed, Whole, Chain, NoRows
      <4> QED BY <1>1, <3>1, <4>1, ExtendFacts
    <3>3. Committed(x)'
      BY <2>1, <3>1, <3>2 DEF Committed
    <3>4. ASSUME NEW u \in Writer PROVE Pending(u, x)'
      BY <2>1, <2>2, <3>2 DEF Pending
    <3> QED BY <2>3, <3>3, <3>4 DEF Sound
  <2>5. CASE newTip[w][x] # NoTip
    <3>1. /\ tip'[x] = newTip[w][x] /\ log'[x] = Extend(log[x], newLog[w][x])
          /\ Whole(newTip[w][x], Extend(log[x], newLog[w][x]))
          /\ newTip[w][x].seq # 0
      BY <1>1, <2>1, <2>5 DEF SeenTip, Pending
    <3>2. Committed(x)'
      BY <2>5, <3>1 DEF Committed, Whole
    <3>3. \A u \in Writer \ {w} : newTip[u][x] = NoTip /\ newLog[u][x] = NoRows
      BY <2>1, <2>5 DEF OneHolder, Pending
    <3>4. ASSUME NEW u \in Writer PROVE Pending(u, x)'
      BY <2>2, <3>3 DEF Pending
    <3> QED BY <2>3, <3>2, <3>4 DEF Sound
  <2> QED BY <2>4, <2>5
<1> QED BY <1>1, <1>2, <1>3 DEF ChainInv

\* A rollback takes back the tip together with the events.
LEMMA RollbackChain ==
    ASSUME ChainInv, NEW w \in Writer, Rollback(w)
    PROVE  ChainInv'
<1>1. UNCHANGED <<tip, log, damaged>> /\ Released(w)
  BY DEF Rollback
<1>2. Shapes'
  BY <1>1, ReleaseShapes DEF ChainInv, Shapes
<1>3. ASSUME NEW x \in Stream \ damaged PROVE Sound(x)'
  <2>1. Committed(x) /\ OneHolder(x) /\ \A u \in Writer : Pending(u, x)
    BY DEF ChainInv, Sound
  <2>2. /\ newTip'[w][x] = NoTip /\ newLog'[w][x] = NoRows
        /\ \A u \in Writer \ {w} : /\ wr'[u] = wr[u] /\ newTip'[u][x] = newTip[u][x]
                                   /\ newLog'[u][x] = newLog[u][x]
    BY <1>1, ReleaseShapes
  <2>3. Committed(x)' /\ OneHolder(x)'
    BY <1>1, <2>1, <2>2 DEF Committed, OneHolder
  <2>4. ASSUME NEW u \in Writer PROVE Pending(u, x)'
    BY <1>1, <2>1, <2>2 DEF Pending
  <2> QED BY <2>3, <2>4 DEF Sound
<1> QED BY <1>1, <1>2, <1>3 DEF ChainInv

\* The reads of an export move only its own writer.
LEMMA ExportChain ==
    ASSUME ChainInv, NEW w \in Writer,
           (\E s \in Stream : ExportEvents(w, s)) \/ ExportAnchor(w)
    PROVE  ChainInv'
<1>1. UNCHANGED <<tip, log, newTip, newLog, damaged>>
  BY DEF ExportEvents, ExportAnchor
<1>2. \/ wr' = [wr EXCEPT ![w].pc = "anchor"] /\ wr[w].pc = "idle"
      \/ wr' = [wr EXCEPT ![w].pc = "open"] /\ wr[w].pc = "anchor"
  BY DEF ExportEvents, ExportAnchor
<1>3. wr \in [Writer -> [pc: {"idle", "open", "lock", "append", "anchor"},
                         stream: Stream \cup {NoStream}]]
  BY DEF ChainInv, Shapes
<1>4. \A u \in Writer : /\ wr'[u].stream = wr[u].stream
                        /\ u # w => wr'[u] = wr[u]
                        /\ wr'[w].pc \in {"anchor", "open"}
  BY <1>2, <1>3
<1>5. wr' \in [Writer -> [pc: {"idle", "open", "lock", "append", "anchor"},
                          stream: Stream \cup {NoStream}]]
  BY <1>2, <1>3
<1>6. Shapes'
  <2>1. \A u \in Writer : wr'[u].pc \in {"lock", "append"} => u # w /\ wr'[u] = wr[u]
    BY <1>4
  <2> QED BY <1>1, <1>5, <2>1 DEF ChainInv, Shapes
<1>7. ASSUME NEW x \in Stream \ damaged PROVE Sound(x)'
  <2>1. \A u \in Writer : newTip[u][x] # NoTip /\ newTip[u][x].seq = 0 =>
            wr'[u].stream = x /\ wr'[u].pc \in {"lock", "append"}
    BY <1>2, <1>4, FreshTip
  <2> QED BY <1>1, <2>1, SoundKept DEF ChainInv
<1> QED BY <1>1, <1>6, <1>7 DEF ChainInv

\* Damage touches the committed rows of one stream, which stops being claimed sound.
LEMMA DamageChain ==
    ASSUME ChainInv, NEW s \in Stream, Damages(s)
    PROVE  ChainInv'
<1>1. Damage(s)
  BY DEF Damages, EditEvent, LoseEvents, ChangeTip
<1>2. UNCHANGED <<wr, newTip, newLog, bundle, check>> /\ damaged' = damaged \cup {s}
  BY <1>1 DEF Damage
<1>3. /\ tip' = [x \in Stream |-> tip'[x]] /\ log' = [x \in Stream |-> log'[x]]
      /\ \A x \in Stream \ {s} : tip'[x] = tip[x] /\ log'[x] = log[x]
  <2>1. tip = [x \in Stream |-> tip[x]] /\ log = [x \in Stream |-> log[x]]
    BY DEF ChainInv, Shapes
  <2>2. CASE \E k \in DOMAIN log[s], body \in Body : EditEvent(s, k, body)
    BY <2>1, <2>2 DEF EditEvent
  <2>3. CASE \E lost \in SUBSET DOMAIN log[s] : LoseEvents(s, lost)
    BY <2>1, <2>3 DEF LoseEvents
  <2>4. CASE \E t : ChangeTip(s, t)
    BY <2>1, <2>4 DEF ChangeTip
  <2> QED BY <2>2, <2>3, <2>4 DEF Damages
<1>4. Shapes'
  BY <1>2, <1>3 DEF ChainInv, Shapes
<1>5. ASSUME NEW x \in Stream \ damaged' PROVE Sound(x)'
  <2>1. x \in Stream \ damaged /\ x # s
    BY <1>2
  <2>2. \A u \in Writer : newTip[u][x] # NoTip /\ newTip[u][x].seq = 0 =>
            wr'[u].stream = x /\ wr'[u].pc \in {"lock", "append"}
    BY <1>2, <2>1, FreshTip
  <2> QED BY <1>2, <1>3, <2>1, <2>2, SoundKept DEF ChainInv
<1> QED BY <1>4, <1>5 DEF ChainInv

\* Steps that change none of the rows, locks and positions.
LEMMA IdleChain ==
    ASSUME ChainInv, UNCHANGED <<tip, log, wr, newTip, newLog, damaged>>
    PROVE  ChainInv'
<1>1. Shapes'
  BY DEF ChainInv, Shapes
<1>2. ASSUME NEW x \in Stream \ damaged PROVE Sound(x)'
  BY FreshTip, SoundKept DEF ChainInv
<1> QED BY <1>1, <1>2 DEF ChainInv

\* Every step keeps the invariant.
LEMMA StepChain == ChainInv /\ [Next]_vars => ChainInv'
<1> SUFFICES ASSUME ChainInv, [Next]_vars PROVE ChainInv'
  OBVIOUS
<1>1. ASSUME NEW w \in Writer, Writes(w) PROVE ChainInv'
  BY <1>1, EnsureChain, LockChain, AppendChain, CommitChain, RollbackChain, ExportChain
     DEF Writes
<1>2. CASE Verifies
  BY <1>2, IdleChain DEF Verifies, VerifyTips, VerifyEvents, VerifyOrphans
<1>3. CASE UNCHANGED vars
  BY <1>3, IdleChain DEF vars
<1> QED BY <1>1, <1>2, <1>3, DamageChain DEF Next

-----------------------------------------------------------------------------
(* The theorems. *)

\* The chain of every stream nobody damaged verifies at every moment, however many
\* transactions append to it at once, fail or record several events.
THEOREM ChainsAlwaysVerify == Spec => []ChainsVerify
<1>1. Init => ChainInv
  BY InitChain
<1>2. ChainInv /\ [Next]_vars => ChainInv'
  BY StepChain
<1>3. ChainInv => ChainsVerify
  <2> SUFFICES ASSUME ChainInv, NEW s \in Stream \ damaged
               PROVE  IF tip[s] = NoTip THEN log[s] = NoRows
                      ELSE log[s] # NoRows /\ Verified(tip[s], log[s])
    BY DEF ChainsVerify
  <2>1. Committed(s)
    BY DEF ChainInv, Sound
  <2> QED BY <2>1, ChainIsVerified DEF Committed
<1> QED BY <1>1, <1>2, <1>3, PTL DEF Spec

\* Two transactions never pick the same seq in a stream nobody damaged: the genesis row
\* and the lock on the tip are enough, the unique constraint is never what stops them.
THEOREM SeqsNeverCollide == Spec => []SeqsDoNotCollide
<1>1. Init => ChainInv
  BY InitChain
<1>2. ChainInv /\ [Next]_vars => ChainInv'
  BY StepChain
<1>3. ChainInv => SeqsDoNotCollide
  <2> SUFFICES ASSUME ChainInv, NEW w \in Writer, wr[w].pc = "append",
                      wr[w].stream \notin damaged
               PROVE  SeqUnused(w, wr[w].stream, newTip[w][wr[w].stream].seq + 1)
    BY DEF SeqsDoNotCollide
  <2>1. PICK s \in Stream \ damaged : s = wr[w].stream
    BY DEF ChainInv, Shapes
  <2>2. newTip[w][s] # NoTip /\ Sound(s)
    BY <2>1 DEF ChainInv, Shapes
  <2> DEFINE n == newTip[w][s].seq
  <2>3. n \in Nat /\ DOMAIN Extend(log[s], newLog[w][s]) = 1..n
    BY <2>2 DEF Sound, Pending, Whole, Chain
  <2>4. DOMAIN log[s] \subseteq 1..n /\ DOMAIN newLog[w][s] \subseteq 1..n
    BY <2>3 DEF Extend
  <2>5. \A u \in Writer \ {w} : DOMAIN newLog[u][s] = {}
    BY <2>2 DEF Sound, OneHolder, Pending, NoRows
  <2>6. n + 1 \notin 1..n
    BY <2>3
  <2> QED BY <2>1, <2>4, <2>5, <2>6 DEF SeqUnused
<1> QED BY <1>1, <1>2, <1>3, PTL DEF Spec

-----------------------------------------------------------------------------
(* Types. *)

\* Events are functions of their seq, committed or not.
RowsAreFunctions ==
    /\ \A s \in Stream : log[s] = [k \in DOMAIN log[s] |-> log[s][k]]
    /\ \A w \in Writer, s \in Stream :
           newLog[w][s] = [k \in DOMAIN newLog[w][s] |-> newLog[w][s][k]]

\* A bundle has its fields and no other.
BundleRecords ==
    /\ bundle = [w \in Writer |-> bundle[w]]
    /\ \A w \in Writer :
           LET b == bundle[w]
           IN  b = [pc |-> b.pc, stream |-> b.stream, rows |-> b.rows,
                    verified |-> b.verified, suspect |-> b.suspect]

\* The types, with the chains of the streams nobody damaged.
Typed == ChainInv /\ TypeOK /\ RowsAreFunctions /\ BundleRecords

\* Hashing one more event gives a longer hash.
LEMMA HashFacts ==
    ASSUME NEW h \in Hash, NEW k \in Nat, NEW body \in Body
    PROVE  /\ EventHash(h, k, body) \in Hash
           /\ Len(h) \in Nat /\ Len(EventHash(h, k, body)) = Len(h) + 1
BY DEF EventHash, Hash

\* The rows of both together are rows.
LEMMA ExtendRows ==
    ASSUME NEW rows, NEW more, EventRows(rows), EventRows(more)
    PROVE  /\ EventRows(Extend(rows, more))
           /\ Extend(rows, more) = [k \in DOMAIN Extend(rows, more) |-> Extend(rows, more)[k]]
BY DEF Extend, EventRows

\* The later rows win.
LEMMA ExtendShape ==
    ASSUME NEW rows, NEW more
    PROVE  /\ DOMAIN Extend(rows, more) = DOMAIN rows \cup DOMAIN more
           /\ \A k \in DOMAIN rows \ DOMAIN more : Extend(rows, more)[k] = rows[k]
           /\ \A k \in DOMAIN more : Extend(rows, more)[k] = more[k]
BY DEF Extend

\* The empty log, and the tips that start a chain or stand for none.
LEMMA NoRowsFacts ==
    /\ EventRows(NoRows) /\ NoRows = [k \in DOMAIN NoRows |-> NoRows[k]] /\ DOMAIN NoRows = {}
    /\ GenesisTip \in Tip /\ NoTip.seq = -1 /\ NoTip.hash = Genesis /\ Genesis \in Hash
    /\ Len(Genesis) = 0 /\ GenesisTip.seq = 0 /\ GenesisTip.hash = Genesis
    /\ \A t \in Tip : t # NoTip /\ t.seq \in Nat /\ t.hash \in Hash
BY DEF EventRows, NoRows, GenesisTip, Tip, NoTip, Genesis, Hash

\* The log without rows is the empty one.
LEMMA NoRowsOnly ==
    ASSUME NEW rows, rows = [k \in DOMAIN rows |-> rows[k]]
    PROVE  rows = NoRows <=> DOMAIN rows = {}
BY DEF NoRows

-----------------------------------------------------------------------------
(* What a step of one writer does to the rows and tips of one stream. *)

\* The tip an append to s goes on from.
Base(s) == IF tip[s] = NoTip THEN GenesisTip ELSE tip[s]

\* Everyone but w keeps what it has written in s.
Others(w, s) == \A u \in Writer \ {w} : newTip'[u][s] = newTip[u][s] /\ newLog'[u][s] = newLog[u][s]

\* Nothing happens in s.
Quiet(s) ==
    /\ tip'[s] = tip[s] /\ log'[s] = log[s]
    /\ \A u \in Writer : newTip'[u][s] = newTip[u][s] /\ newLog'[u][s] = newLog[u][s]

\* w takes the tip of s.
Taken(w, s) ==
    /\ tip'[s] = tip[s] /\ log'[s] = log[s] /\ Others(w, s)
    /\ newTip[w][s] = NoTip /\ TipFree(w, s)
    /\ newTip'[w][s] = Base(s) /\ newLog'[w][s] = newLog[w][s]

\* The event with this body that comes after the tip t, and the tip it leaves.
RowAfter(t, body) ==
    [k \in {t.seq + 1} |->
        [prev |-> t.hash, body |-> body, hash |-> EventHash(t.hash, t.seq + 1, body)]]

TipAfter(t, body) == NextTip(t, EventHash(t.hash, t.seq + 1, body))

\* w, which holds the tip of s, adds an event.
Added(w, s) ==
    /\ tip'[s] = tip[s] /\ log'[s] = log[s] /\ Others(w, s)
    /\ newTip[w][s] \in Tip /\ SeqUnused(w, s, newTip[w][s].seq + 1)
    /\ \E body \in Body :
           /\ newTip'[w][s] = TipAfter(newTip[w][s], body)
           /\ newLog'[w][s] = Extend(newLog[w][s], RowAfter(newTip[w][s], body))

\* w commits what it has added to s.
Installed(w, s) ==
    /\ tip'[s] = SeenTip(w, s) /\ log'[s] = Extend(log[s], newLog[w][s]) /\ Others(w, s)
    /\ newTip'[w][s] = NoTip /\ newLog'[w][s] = NoRows
    /\ \E x \in Stream : newLog[w][x] # NoRows

\* w rolls back what it has added to s.
LetGo(w, s) ==
    /\ tip'[s] = tip[s] /\ log'[s] = log[s] /\ Others(w, s)
    /\ newTip'[w][s] = NoTip /\ newLog'[w][s] = NoRows

\* All that a step of w can do to s.
StreamStep(w, s) == Quiet(s) \/ Taken(w, s) \/ Added(w, s) \/ Installed(w, s) \/ LetGo(w, s)

\* ensure_stream takes the tip of a stream it creates.
LEMMA EnsureStep ==
    ASSUME Typed, NEW w \in Writer, NEW x \in Stream, EnsureStream(w, x), NEW s \in Stream
    PROVE  Quiet(s) \/ (s = x /\ Taken(w, s))
<1>1. newTip = [u \in Writer |-> [y \in Stream |-> newTip[u][y]]]
  BY DEF Typed, ChainInv, Shapes
<1>2. UNCHANGED <<tip, log, newLog>>
  BY DEF EnsureStream
<1>3. CASE newTip' = newTip
  BY <1>2, <1>3 DEF Quiet
<1>4. CASE SeenTip(w, x) = NoTip /\ TipFree(w, x) /\ newTip' = [newTip EXCEPT ![w][x] = GenesisTip]
  <2>1. \A u \in Writer, y \in Stream :
            newTip'[u][y] = IF u = w /\ y = x THEN GenesisTip ELSE newTip[u][y]
    BY <1>1, <1>4
  <2>2. newTip[w][x] = NoTip /\ tip[x] = NoTip
    BY <1>4 DEF SeenTip
  <2>3. CASE s = x
    BY <1>2, <1>4, <2>1, <2>2, <2>3 DEF Taken, Others, Base
  <2>4. CASE s # x
    BY <1>2, <2>1, <2>4 DEF Quiet
  <2> QED BY <2>3, <2>4
<1> QED BY <1>3, <1>4 DEF EnsureStream

\* SELECT ... FOR UPDATE takes the tip.
LEMMA LockStep ==
    ASSUME Typed, NEW w \in Writer, LockTip(w), NEW s \in Stream
    PROVE  Quiet(s) \/ (s = wr[w].stream /\ Taken(w, s))
<1>0. PICK x \in Stream : x = wr[w].stream
  BY DEF Typed, ChainInv, Shapes, LockTip
<1>1. newTip = [u \in Writer |-> [y \in Stream |-> newTip[u][y]]]
  BY DEF Typed, ChainInv, Shapes
<1>2. /\ UNCHANGED <<tip, log, newLog>> /\ SeenTip(w, x) # NoTip /\ TipFree(w, x)
      /\ newTip' = [newTip EXCEPT ![w][x] = SeenTip(w, x)]
  BY <1>0 DEF LockTip
<1>3. \A u \in Writer, y \in Stream :
          newTip'[u][y] = IF u = w /\ y = x THEN SeenTip(w, x) ELSE newTip[u][y]
  BY <1>1, <1>2
<1>4. CASE s = x /\ newTip[w][x] = NoTip
  <2>1. SeenTip(w, x) = Base(x)
    BY <1>2, <1>4 DEF SeenTip, Base
  <2> QED BY <1>0, <1>2, <1>3, <1>4, <2>1 DEF Taken, Others
<1>5. CASE s = x /\ newTip[w][x] # NoTip
  BY <1>2, <1>3, <1>5 DEF Quiet, SeenTip
<1>6. CASE s # x
  BY <1>2, <1>3, <1>6 DEF Quiet
<1> QED BY <1>4, <1>5, <1>6

\* The insert of an event adds to the stream whose tip is locked.
LEMMA AppendStep ==
    ASSUME Typed, NEW w \in Writer, NEW body \in Body, AppendEvent(w, body), NEW s \in Stream
    PROVE  Quiet(s) \/ (s = wr[w].stream /\ Added(w, s))
<1>0. PICK x \in Stream : x = wr[w].stream
  BY DEF Typed, ChainInv, Shapes, AppendEvent
<1> DEFINE t == newTip[w][x]
           t2 == TipAfter(t, body)
           more == RowAfter(t, body)
<1>1. /\ newTip = [u \in Writer |-> [y \in Stream |-> newTip[u][y]]]
      /\ newLog = [u \in Writer |-> [y \in Stream |-> newLog[u][y]]]
  BY DEF Typed, ChainInv, Shapes
<1>2. /\ UNCHANGED <<tip, log>> /\ SeqUnused(w, x, t.seq + 1)
      /\ newTip' = [newTip EXCEPT ![w][x] = t2]
      /\ newLog' = [newLog EXCEPT ![w][x] = Extend(newLog[w][x], more)]
  BY <1>0, <1>1 DEF AppendEvent, TipAfter, RowAfter
<1>3. \A u \in Writer, y \in Stream :
          /\ newTip'[u][y] = IF u = w /\ y = x THEN t2 ELSE newTip[u][y]
          /\ newLog'[u][y] = IF u = w /\ y = x THEN Extend(newLog[w][x], more) ELSE newLog[u][y]
  <2> HIDE DEF t, t2, more
  <2> QED BY <1>1, <1>2
<1>4. t \in Tip
  <2>1. t \in Tip \cup {NoTip}
    BY DEF Typed, TypeOK
  <2>2. t # NoTip
    BY <1>0 DEF Typed, ChainInv, Shapes, AppendEvent
  <2> QED BY <2>1, <2>2
<1>5. CASE s = x
  <2>1. Others(w, s)
    BY <1>3, <1>5 DEF Others
  <2>2. /\ newTip'[w][s] = t2
        /\ newLog'[w][s] = Extend(newLog[w][s], more)
    BY <1>3, <1>5
  <2>3. Added(w, s)
    BY <1>2, <1>4, <1>5, <2>1, <2>2 DEF Added
  <2> QED BY <1>0, <1>5, <2>3
<1>6. CASE s # x
  BY <1>2, <1>3, <1>6 DEF Quiet
<1> QED BY <1>5, <1>6

\* A commit installs what its writer has added to every stream.
LEMMA CommitStep ==
    ASSUME Typed, NEW w \in Writer, Commit(w), NEW s \in Stream
    PROVE  Installed(w, s)
<1>1. /\ tip' = [x \in Stream |-> SeenTip(w, x)]
      /\ log' = [x \in Stream |-> Extend(log[x], newLog[w][x])]
      /\ Released(w) /\ \E x \in Stream : newLog[w][x] # NoRows
  BY DEF Commit
<1>2. /\ newTip'[w][s] = NoTip /\ newLog'[w][s] = NoRows
      /\ \A u \in Writer \ {w} : newTip'[u] = newTip[u] /\ newLog'[u] = newLog[u]
  BY <1>1, ReleaseShapes DEF Typed
<1> QED BY <1>1, <1>2 DEF Installed, Others

\* A rollback drops it.
LEMMA RollbackStep ==
    ASSUME Typed, NEW w \in Writer, Rollback(w), NEW s \in Stream
    PROVE  LetGo(w, s)
<1>1. UNCHANGED <<tip, log>> /\ Released(w)
  BY DEF Rollback
<1>2. /\ newTip'[w][s] = NoTip /\ newLog'[w][s] = NoRows
      /\ \A u \in Writer \ {w} : newTip'[u] = newTip[u] /\ newLog'[u] = newLog[u]
  BY <1>1, ReleaseShapes DEF Typed
<1> QED BY <1>1, <1>2 DEF LetGo, Others

\* The reads of an export leave the log alone.
LEMMA ExportStep ==
    ASSUME NEW w \in Writer, (\E x \in Stream : ExportEvents(w, x)) \/ ExportAnchor(w),
           NEW s \in Stream
    PROVE  Quiet(s)
BY DEF ExportEvents, ExportAnchor, Quiet

\* Every step of a writer is one of these for every stream.
LEMMA WriterStep ==
    ASSUME Typed, NEW w \in Writer, Writes(w), NEW s \in Stream
    PROVE  StreamStep(w, s)
<1>1. ASSUME NEW x \in Stream, EnsureStream(w, x) PROVE StreamStep(w, s)
  BY <1>1, EnsureStep DEF StreamStep
<1>2. ASSUME NEW x \in Stream, ExportEvents(w, x) PROVE StreamStep(w, s)
  BY <1>2, ExportStep DEF StreamStep
<1>3. CASE LockTip(w)
  BY <1>3, LockStep DEF StreamStep
<1>4. ASSUME NEW body \in Body, AppendEvent(w, body) PROVE StreamStep(w, s)
  BY <1>4, AppendStep DEF StreamStep
<1>5. CASE Commit(w)
  BY <1>5, CommitStep DEF StreamStep
<1>6. CASE Rollback(w)
  BY <1>6, RollbackStep DEF StreamStep
<1>7. CASE ExportAnchor(w)
  BY <1>7, ExportStep DEF StreamStep
<1> QED BY <1>1, <1>2, <1>3, <1>4, <1>5, <1>6, <1>7 DEF Writes

\* Damage to one stream leaves the rows of the others alone.
LEMMA DamageStep ==
    ASSUME Typed, NEW d \in Stream, Damages(d), NEW s \in Stream, s # d
    PROVE  Quiet(s)
<1>1. Damage(d)
  BY DEF Damages, EditEvent, LoseEvents, ChangeTip
<1>2. UNCHANGED <<newTip, newLog>>
  BY <1>1 DEF Damage
<1>3. tip'[s] = tip[s] /\ log'[s] = log[s]
  <2>1. tip = [x \in Stream |-> tip[x]] /\ log = [x \in Stream |-> log[x]]
    BY DEF Typed, ChainInv, Shapes
  <2>2. CASE \E k \in DOMAIN log[d], body \in Body : EditEvent(d, k, body)
    BY <2>1, <2>2 DEF EditEvent
  <2>3. CASE \E lost \in SUBSET DOMAIN log[d] : LoseEvents(d, lost)
    BY <2>1, <2>3 DEF LoseEvents
  <2>4. CASE \E t : ChangeTip(d, t)
    BY <2>1, <2>4 DEF ChangeTip
  <2> QED BY <2>2, <2>3, <2>4 DEF Damages
<1> QED BY <1>2, <1>3 DEF Quiet

-----------------------------------------------------------------------------
(* Types are kept. *)

\* The types of one stream.
StreamTyped(s) ==
    /\ tip[s] \in Tip \cup {NoTip}
    /\ EventRows(log[s]) /\ log[s] = [k \in DOMAIN log[s] |-> log[s][k]]
    /\ \A u \in Writer :
           /\ newTip[u][s] \in Tip \cup {NoTip}
           /\ EventRows(newLog[u][s])
           /\ newLog[u][s] = [k \in DOMAIN newLog[u][s] |-> newLog[u][s][k]]

\* The types give those of each stream.
LEMMA TypedStream ==
    ASSUME Typed, NEW s \in Stream
    PROVE  StreamTyped(s)
BY DEF Typed, TypeOK, RowsAreFunctions, StreamTyped

\* The event after a tip, and the tip after the event, have their types.
LEMMA NextEvent ==
    ASSUME NEW t \in Tip, NEW body \in Body
    PROVE  LET t2 == TipAfter(t, body)
               more == RowAfter(t, body)
               n == t.seq + 1
           IN  /\ t2 \in Tip /\ t2.seq = n /\ Len(t2.hash) = Len(t.hash) + 1
               /\ Len(t.hash) \in Nat
               /\ EventRows(more) /\ DOMAIN more = {n}
               /\ more[n].prev = t.hash /\ more[n].body = body /\ more[n].hash = t2.hash
<1> DEFINE hash == EventHash(t.hash, t.seq + 1, body)
           event == [prev |-> t.hash, body |-> body, hash |-> hash]
           more == [k \in {t.seq + 1} |-> event]
<1>1. t.seq \in Nat /\ t.hash \in Hash
  BY DEF Tip
<1>2. hash \in Hash /\ Len(hash) = Len(t.hash) + 1 /\ Len(t.hash) \in Nat
  BY <1>1, HashFacts
<1>3. TipAfter(t, body) = NextTip(t, hash) /\ RowAfter(t, body) = more
  BY DEF TipAfter, RowAfter
<1> HIDE DEF hash
<1>4. event \in Event
  BY <1>1, <1>2 DEF Event
<1>5. /\ NextTip(t, hash) \in Tip /\ NextTip(t, hash).seq = t.seq + 1
      /\ NextTip(t, hash).hash = hash
  BY <1>1, <1>2 DEF NextTip, Tip
<1>6. event.prev = t.hash /\ event.body = body /\ event.hash = hash
  BY DEF event
<1> HIDE DEF event
<1>7. EventRows(more) /\ DOMAIN more = {t.seq + 1} /\ more[t.seq + 1] = event
  BY <1>1, <1>4 DEF EventRows
<1> HIDE DEF more
<1> QED BY <1>2, <1>3, <1>5, <1>6, <1>7

\* A step of a writer keeps the types of a stream.
LEMMA StreamTypedKept ==
    ASSUME NEW w \in Writer, NEW s \in Stream, StreamTyped(s), StreamStep(w, s)
    PROVE  StreamTyped(s)'
<1>1. CASE Quiet(s)
  <2>1. tip'[s] = tip[s] /\ log'[s] = log[s]
    BY <1>1 DEF Quiet
  <2>2. \A u \in Writer : newTip'[u][s] = newTip[u][s] /\ newLog'[u][s] = newLog[u][s]
    BY <1>1 DEF Quiet
  <2> QED BY <2>1, <2>2 DEF StreamTyped
<1>2. ASSUME tip'[s] \in Tip \cup {NoTip}, EventRows(log[s])',
             log'[s] = [k \in DOMAIN log'[s] |-> log'[s][k]], Others(w, s),
             newTip'[w][s] \in Tip \cup {NoTip}, EventRows(newLog[w][s])',
             newLog'[w][s] = [k \in DOMAIN newLog'[w][s] |-> newLog'[w][s][k]]
      PROVE  StreamTyped(s)'
  <2>1. ASSUME NEW u \in Writer
        PROVE  /\ newTip'[u][s] \in Tip \cup {NoTip}
               /\ EventRows(newLog[u][s])'
               /\ newLog'[u][s] = [k \in DOMAIN newLog'[u][s] |-> newLog'[u][s][k]]
    <3>1. CASE u = w
      BY <1>2, <3>1
    <3>2. CASE u # w
      <4>1. newTip'[u][s] = newTip[u][s] /\ newLog'[u][s] = newLog[u][s]
        BY <1>2, <3>2 DEF Others
      <4> QED BY <4>1 DEF StreamTyped
    <3> QED BY <3>1, <3>2
  <2> QED BY <1>2, <2>1 DEF StreamTyped
<1>3. CASE Taken(w, s)
  BY <1>2, <1>3, NoRowsFacts DEF Taken, Base, StreamTyped
<1>4. CASE LetGo(w, s)
  BY <1>2, <1>4, NoRowsFacts DEF LetGo, StreamTyped
<1>5. CASE Installed(w, s)
  <2>1. EventRows(log[s]) /\ EventRows(newLog[w][s])
    BY DEF StreamTyped
  <2>2. /\ tip'[s] \in Tip \cup {NoTip} /\ log'[s] = Extend(log[s], newLog[w][s]) /\ Others(w, s)
        /\ newTip'[w][s] = NoTip /\ newLog'[w][s] = NoRows
    BY <1>5 DEF Installed, SeenTip, StreamTyped
  <2> DEFINE all == Extend(log[s], newLog[w][s])
  <2>3. EventRows(all) /\ all = [k \in DOMAIN all |-> all[k]]
    BY <2>1, ExtendRows
  <2> HIDE DEF all
  <2>4. EventRows(log[s])' /\ log'[s] = [k \in DOMAIN log'[s] |-> log'[s][k]]
    <3>1. log'[s] = all
      BY <2>2 DEF all
    <3> QED BY <2>3, <3>1 DEF EventRows
  <2> QED BY <1>2, <2>2, <2>4, NoRowsFacts
<1>6. CASE Added(w, s)
  <2> DEFINE t == newTip[w][s]
  <2>1. PICK body \in Body : /\ newTip'[w][s] = TipAfter(t, body)
                             /\ newLog'[w][s] = Extend(newLog[w][s], RowAfter(t, body))
    BY <1>6 DEF Added
  <2>2. t \in Tip /\ tip'[s] = tip[s] /\ log'[s] = log[s] /\ Others(w, s)
    BY <1>6 DEF Added
  <2>3. newTip'[w][s] \in Tip /\ EventRows(RowAfter(t, body))
    BY <2>1, <2>2, NextEvent
  <2>4. EventRows(newLog[w][s])
    BY DEF StreamTyped
  <2> HIDE DEF t
  <2>5. /\ EventRows(newLog[w][s])'
        /\ newLog'[w][s] = [k \in DOMAIN newLog'[w][s] |-> newLog'[w][s][k]]
    <3> DEFINE all == Extend(newLog[w][s], RowAfter(t, body))
    <3>1. EventRows(all) /\ all = [k \in DOMAIN all |-> all[k]]
      BY <2>3, <2>4, ExtendRows
    <3>2. newLog'[w][s] = all
      BY <2>1
    <3> HIDE DEF all
    <3> QED BY <3>1, <3>2 DEF EventRows
  <2>6. tip'[s] \in Tip \cup {NoTip} /\ EventRows(log[s])' /\ log'[s] = [k \in DOMAIN log'[s] |-> log'[s][k]]
    BY <2>2 DEF StreamTyped
  <2> QED BY <1>2, <2>2, <2>3, <2>5, <2>6
<1> QED BY <1>1, <1>3, <1>4, <1>5, <1>6 DEF StreamStep

\* What a bundle may hold.
BundleTyped(w) ==
    LET b == bundle[w]
    IN  /\ b = [pc |-> b.pc, stream |-> b.stream, rows |-> b.rows,
                verified |-> b.verified, suspect |-> b.suspect]
        /\ b.pc \in {"none", "events", "built", "sent"}
        /\ b.stream \in Stream \cup {NoStream}
        /\ EventRows(b.rows)

\* The types follow from those of the parts.
LEMMA TypedFromParts ==
    ASSUME ChainInv', \A s \in Stream : StreamTyped(s)',
           bundle' = [w \in Writer |-> bundle'[w]], \A w \in Writer : BundleTyped(w)',
           check' \in [pc: {"idle", "streams", "done"}, tips: [Stream -> Tip \cup {NoTip}],
                       todo: SUBSET Stream, broken: SUBSET Stream, suspects: SUBSET Stream],
           damaged' \in SUBSET Fragile
    PROVE  Typed'
<1>1. /\ tip' \in [Stream -> Tip \cup {NoTip}]
      /\ newTip' \in [Writer -> [Stream -> Tip \cup {NoTip}]]
      /\ wr' \in [Writer -> [pc: {"idle", "open", "lock", "append", "anchor"},
                             stream: Stream \cup {NoStream}]]
  <2>1. /\ tip' = [s \in Stream |-> tip'[s]]
        /\ newTip' = [w \in Writer |-> [s \in Stream |-> newTip'[w][s]]]
        /\ wr' \in [Writer -> [pc: {"idle", "open", "lock", "append", "anchor"},
                               stream: Stream \cup {NoStream}]]
    BY DEF ChainInv, Shapes
  <2>2. /\ \A s \in Stream : tip'[s] \in Tip \cup {NoTip}
        /\ \A w \in Writer, s \in Stream : newTip'[w][s] \in Tip \cup {NoTip}
    BY DEF StreamTyped
  <2> QED BY <2>1, <2>2
<1>2. RowsAreFunctions' /\ BundleRecords'
  <2>1. RowsAreFunctions'
    BY DEF StreamTyped, RowsAreFunctions
  <2>2. BundleRecords'
    BY DEF BundleTyped, BundleRecords
  <2> QED BY <2>1, <2>2
<1>3. /\ \A s \in Stream : EventRows(log[s])'
      /\ \A w \in Writer, s \in Stream : EventRows(newLog[w][s])'
      /\ \A w \in Writer : /\ bundle'[w].pc \in {"none", "events", "built", "sent"}
                           /\ bundle'[w].stream \in Stream \cup {NoStream}
                           /\ EventRows(bundle[w].rows)'
  BY DEF StreamTyped, BundleTyped
<1>4. TypeOK'
  BY <1>1, <1>3 DEF TypeOK
<1> QED BY <1>2, <1>4 DEF Typed

\* What each action leaves in the bundle of its writer.
LEMMA BundleAfter ==
    ASSUME Typed, NEW w \in Writer
    PROVE  LET b == bundle[w]
           IN  /\ Writes(w) => /\ bundle' = [u \in Writer |-> bundle'[u]]
                               /\ \A u \in Writer \ {w} : bundle'[u] = bundle[u]
               /\ \A x \in Stream :
                      EnsureStream(w, x) =>
                          bundle'[w] = IF wr[w].pc = "idle" THEN NoBundle ELSE b
               /\ \A x \in Stream :
                      ExportEvents(w, x) =>
                          bundle'[w] = [pc |-> "events", stream |-> x, rows |-> log[x],
                                        verified |-> FALSE, suspect |-> x \in damaged]
               /\ LockTip(w) => bundle'[w] = b
               /\ \A body \in Body : AppendEvent(w, body) => bundle'[w] = b
               /\ ExportAnchor(w) =>
                      bundle'[w] = [pc |-> "built", stream |-> b.stream, rows |-> b.rows,
                                    verified |-> ChainVerified(tip[b.stream], b.rows),
                                    suspect |-> b.suspect]
               /\ Commit(w) =>
                      bundle'[w] = [pc |-> IF b.pc = "built" THEN "sent" ELSE b.pc,
                                    stream |-> b.stream, rows |-> b.rows,
                                    verified |-> b.verified, suspect |-> b.suspect]
               /\ Rollback(w) => bundle'[w] = NoBundle
<1> DEFINE b == bundle[w]
<1>0. /\ bundle = [u \in Writer |-> bundle[u]]
      /\ b = [pc |-> b.pc, stream |-> b.stream, rows |-> b.rows,
              verified |-> b.verified, suspect |-> b.suspect]
  BY DEF Typed, BundleRecords
<1>1. ASSUME NEW x \in Stream, EnsureStream(w, x)
      PROVE  /\ bundle' = [u \in Writer |-> bundle'[u]]
             /\ \A u \in Writer \ {w} : bundle'[u] = bundle[u]
             /\ bundle'[w] = IF wr[w].pc = "idle" THEN NoBundle ELSE b
  <2>1. bundle' = [bundle EXCEPT ![w] = IF wr[w].pc = "idle" THEN NoBundle ELSE @]
    BY <1>1 DEF EnsureStream
  <2> QED BY <1>0, <2>1
<1>2. ASSUME NEW x \in Stream, ExportEvents(w, x)
      PROVE  /\ bundle' = [u \in Writer |-> bundle'[u]]
             /\ \A u \in Writer \ {w} : bundle'[u] = bundle[u]
             /\ bundle'[w] = [pc |-> "events", stream |-> x, rows |-> log[x],
                              verified |-> FALSE, suspect |-> x \in damaged]
  <2> DEFINE new == [pc |-> "events", stream |-> x, rows |-> log[x],
                     verified |-> FALSE, suspect |-> x \in damaged]
  <2>1. bundle' = [bundle EXCEPT ![w] = new]
    BY <1>2 DEF ExportEvents
  <2> HIDE DEF new
  <2>2. /\ bundle' = [u \in Writer |-> bundle'[u]]
        /\ \A u \in Writer \ {w} : bundle'[u] = bundle[u]
        /\ bundle'[w] = new
    BY <1>0, <2>1
  <2> QED BY <2>2 DEF new
<1>3. ASSUME bundle' = bundle
      PROVE  /\ bundle' = [u \in Writer |-> bundle'[u]]
             /\ \A u \in Writer : bundle'[u] = bundle[u]
  BY <1>0, <1>3
<1>4. ASSUME ExportAnchor(w)
      PROVE  /\ bundle' = [u \in Writer |-> bundle'[u]]
             /\ \A u \in Writer \ {w} : bundle'[u] = bundle[u]
             /\ bundle'[w] = [pc |-> "built", stream |-> b.stream, rows |-> b.rows,
                              verified |-> ChainVerified(tip[b.stream], b.rows),
                              suspect |-> b.suspect]
  <2> DEFINE v == ChainVerified(tip[b.stream], b.rows)
  <2>1. bundle' = [bundle EXCEPT ![w].pc = "built", ![w].verified = v]
    BY <1>4 DEF ExportAnchor
  <2> HIDE DEF v
  <2>2. /\ bundle' = [u \in Writer |-> bundle'[u]]
        /\ \A u \in Writer \ {w} : bundle'[u] = bundle[u]
        /\ bundle'[w] = [b EXCEPT !.pc = "built", !.verified = v]
    BY <1>0, <2>1
  <2> DEFINE built == [b EXCEPT !.pc = "built"]
  <2>3. built = [pc |-> "built", stream |-> b.stream, rows |-> b.rows, verified |-> b.verified,
                 suspect |-> b.suspect]
    BY <1>0
  <2>4. [b EXCEPT !.pc = "built", !.verified = v] = [built EXCEPT !.verified = v]
    BY <1>0
  <2> HIDE DEF built
  <2>5. [built EXCEPT !.verified = v]
        = [pc |-> "built", stream |-> b.stream, rows |-> b.rows, verified |-> v,
           suspect |-> b.suspect]
    BY <2>3
  <2> QED BY <2>2, <2>4, <2>5 DEF v
<1>5. ASSUME Commit(w)
      PROVE  /\ bundle' = [u \in Writer |-> bundle'[u]]
             /\ \A u \in Writer \ {w} : bundle'[u] = bundle[u]
             /\ bundle'[w] = [pc |-> IF b.pc = "built" THEN "sent" ELSE b.pc,
                              stream |-> b.stream, rows |-> b.rows,
                              verified |-> b.verified, suspect |-> b.suspect]
  <2> DEFINE pc == IF b.pc = "built" THEN "sent" ELSE b.pc
  <2>1. bundle' = [bundle EXCEPT ![w].pc = pc]
    BY <1>5 DEF Commit
  <2> HIDE DEF pc
  <2>2. /\ bundle' = [u \in Writer |-> bundle'[u]]
        /\ \A u \in Writer \ {w} : bundle'[u] = bundle[u]
        /\ bundle'[w] = [b EXCEPT !.pc = pc]
    BY <1>0, <2>1
  <2>3. [b EXCEPT !.pc = pc]
        = [pc |-> pc, stream |-> b.stream, rows |-> b.rows, verified |-> b.verified,
           suspect |-> b.suspect]
    BY <1>0
  <2> QED BY <2>2, <2>3 DEF pc
<1>6. ASSUME Rollback(w)
      PROVE  /\ bundle' = [u \in Writer |-> bundle'[u]]
             /\ \A u \in Writer \ {w} : bundle'[u] = bundle[u]
             /\ bundle'[w] = NoBundle
  BY <1>0, <1>6 DEF Rollback, Dropped
<1>7. ASSUME NEW body \in Body, AppendEvent(w, body) PROVE bundle' = bundle
  BY <1>7 DEF AppendEvent
<1>8. LockTip(w) => bundle' = bundle
  BY DEF LockTip
<1>9. Writes(w) => /\ bundle' = [u \in Writer |-> bundle'[u]]
                   /\ \A u \in Writer \ {w} : bundle'[u] = bundle[u]
  BY <1>1, <1>2, <1>3, <1>4, <1>5, <1>6, <1>7, <1>8 DEF Writes
<1> QED BY <1>1, <1>2, <1>3, <1>4, <1>5, <1>6, <1>7, <1>8, <1>9

\* Every variable keeps its type.
LEMMA TypedKept ==
    ASSUME Typed, [Next]_vars
    PROVE  Typed'
<1>1. ChainInv'
  BY StepChain DEF Typed
<1>2. /\ bundle = [w \in Writer |-> bundle[w]] /\ \A w \in Writer : BundleTyped(w)
      /\ damaged \in SUBSET Fragile /\ Fragile \subseteq Stream
      /\ check \in [pc: {"idle", "streams", "done"}, tips: [Stream -> Tip \cup {NoTip}],
                    todo: SUBSET Stream, broken: SUBSET Stream, suspects: SUBSET Stream]
  BY AuditChainAssumption DEF Typed, TypeOK, BundleRecords, BundleTyped
<1>3. ASSUME bundle' = bundle
      PROVE  bundle' = [w \in Writer |-> bundle'[w]] /\ \A w \in Writer : BundleTyped(w)'
  BY <1>2, <1>3 DEF BundleTyped
<1>4. ASSUME NEW w \in Writer, Writes(w) PROVE Typed'
  <2>1. \A s \in Stream : StreamTyped(s)'
    BY <1>4, WriterStep, TypedStream, StreamTypedKept
  <2>2. UNCHANGED <<check, damaged>>
    BY <1>4 DEF Writes, EnsureStream, LockTip, AppendEvent, Commit, Rollback, ExportEvents,
                ExportAnchor
  <2>3. /\ bundle' = [u \in Writer |-> bundle'[u]]
        /\ \A u \in Writer \ {w} : bundle'[u] = bundle[u]
    BY <1>4, BundleAfter
  <2>4. BundleTyped(w)'
    <3>1. CASE bundle'[w] = bundle[w]
      BY <1>2, <3>1 DEF BundleTyped
    <3>2. CASE bundle'[w] = NoBundle
      BY <3>2, NoRowsFacts DEF BundleTyped, NoBundle
    <3>3. ASSUME NEW x \in Stream, ExportEvents(w, x) PROVE BundleTyped(w)'
      <4>1. EventRows(log[x])
        BY TypedStream DEF StreamTyped
      <4>2. bundle'[w] = [pc |-> "events", stream |-> x, rows |-> log[x],
                          verified |-> FALSE, suspect |-> x \in damaged]
        BY <3>3, BundleAfter
      <4> QED BY <4>1, <4>2 DEF BundleTyped, EventRows
    <3>4. CASE ExportAnchor(w)
      <4> DEFINE v == ChainVerified(tip[bundle[w].stream], bundle[w].rows)
      <4>1. bundle'[w] = [pc |-> "built", stream |-> bundle[w].stream, rows |-> bundle[w].rows,
                          verified |-> v, suspect |-> bundle[w].suspect]
        BY <3>4, BundleAfter
      <4> HIDE DEF v
      <4> QED BY <1>2, <4>1 DEF BundleTyped, EventRows
    <3>5. CASE Commit(w)
      <4> DEFINE pc == IF bundle[w].pc = "built" THEN "sent" ELSE bundle[w].pc
      <4>1. bundle'[w] = [pc |-> pc, stream |-> bundle[w].stream, rows |-> bundle[w].rows,
                          verified |-> bundle[w].verified, suspect |-> bundle[w].suspect]
        BY <3>5, BundleAfter
      <4>2. pc \in {"none", "events", "built", "sent"}
        BY <1>2 DEF BundleTyped
      <4> HIDE DEF pc
      <4> QED BY <1>2, <4>1, <4>2 DEF BundleTyped, EventRows
    <3>6. ASSUME NEW x \in Stream, EnsureStream(w, x) PROVE BundleTyped(w)'
      BY <3>1, <3>2, <3>6, BundleAfter
    <3>7. \A body \in Body : AppendEvent(w, body) => BundleTyped(w)'
      BY <3>1, BundleAfter
    <3>8. (LockTip(w) \/ Rollback(w)) => BundleTyped(w)'
      BY <3>1, <3>2, BundleAfter
    <3> QED BY <1>4, <3>3, <3>4, <3>5, <3>6, <3>7, <3>8 DEF Writes
  <2>5. \A u \in Writer : BundleTyped(u)'
    <3>1. ASSUME NEW u \in Writer, u # w PROVE BundleTyped(u)'
      <4>1. bundle'[u] = bundle[u]
        BY <2>3, <3>1
      <4> QED BY <1>2, <4>1 DEF BundleTyped, EventRows
    <3> QED BY <2>4, <3>1
  <2> QED BY <1>1, <1>2, <2>1, <2>2, <2>3, <2>5, TypedFromParts
<1>5. CASE Verifies
  <2>1. UNCHANGED <<tip, log, wr, newTip, newLog, bundle, damaged>>
    BY <1>5 DEF Verifies, VerifyTips, VerifyEvents, VerifyOrphans
  <2>2. \A s \in Stream : StreamTyped(s)'
    BY <2>1, TypedStream DEF StreamTyped
  <2>3. check' \in [pc: {"idle", "streams", "done"}, tips: [Stream -> Tip \cup {NoTip}],
                    todo: SUBSET Stream, broken: SUBSET Stream, suspects: SUBSET Stream]
    <3>1. CASE VerifyTips
      <4>1. tip \in [Stream -> Tip \cup {NoTip}]
        BY DEF Typed, TypeOK
      <4>2. {s \in Stream : tip[s] # NoTip} \in SUBSET Stream /\ damaged \in SUBSET Stream
        BY <1>2
      <4> QED BY <3>1, <4>1, <4>2 DEF VerifyTips
    <3>2. ASSUME NEW s \in Stream, VerifyEvents(s) PROVE
            check' \in [pc: {"idle", "streams", "done"}, tips: [Stream -> Tip \cup {NoTip}],
                        todo: SUBSET Stream, broken: SUBSET Stream, suspects: SUBSET Stream]
      <4>1. PICK new \in {check.broken, check.broken \cup {s}} :
                check' = [check EXCEPT !.todo = @ \ {s}, !.broken = new]
        BY <3>2 DEF VerifyEvents
      <4> QED BY <1>2, <4>1
    <3>3. CASE VerifyOrphans
      <4>1. Orphans(check.tips) \in SUBSET Stream
        BY DEF Orphans
      <4>2. check' = [check EXCEPT !.pc = "done", !.broken = @ \cup Orphans(check.tips)]
        BY <3>3 DEF VerifyOrphans
      <4> QED BY <1>2, <4>1, <4>2
    <3> QED BY <1>5, <3>1, <3>2, <3>3 DEF Verifies
  <2> QED BY <1>1, <1>2, <1>3, <2>1, <2>2, <2>3, TypedFromParts
<1>6. ASSUME NEW d \in Stream, Damages(d) PROVE Typed'
  <2>1. Damage(d)
    BY <1>6 DEF Damages, EditEvent, LoseEvents, ChangeTip
  <2>2. UNCHANGED <<newTip, newLog, bundle, check>> /\ damaged' \in SUBSET Fragile
    BY <1>2, <2>1 DEF Damage
  <2>3. tip'[d] \in Tip \cup {NoTip}
    <3>1. tip = [x \in Stream |-> tip[x]] /\ tip[d] \in Tip \cup {NoTip}
      BY DEF Typed, TypeOK
    <3>2. CASE tip' = tip
      BY <3>1, <3>2
    <3>3. CASE ChangeTip(d, NoTip)
      BY <3>1, <3>3 DEF ChangeTip
    <3>4. ASSUME NEW seq \in 0..MaxSeq, NEW hash \in {Genesis, tip[d].hash},
                 ChangeTip(d, [seq |-> seq, hash |-> hash])
          PROVE  tip'[d] \in Tip
      <4>1. hash \in Hash /\ seq \in Nat
        BY <3>1, NoRowsFacts, AuditChainAssumption
      <4>2. [seq |-> seq, hash |-> hash] \in Tip
        BY <4>1 DEF Tip
      <4>3. tip' = [tip EXCEPT ![d] = [seq |-> seq, hash |-> hash]]
        BY <3>4 DEF ChangeTip
      <4> QED BY <3>1, <4>2, <4>3
    <3> QED BY <1>6, <3>2, <3>3, <3>4 DEF Damages, EditEvent, LoseEvents
  <2>4. EventRows(log[d])' /\ log'[d] = [k \in DOMAIN log'[d] |-> log'[d][k]]
    <3>0. /\ log = [x \in Stream |-> log[x]] /\ EventRows(log[d])
          /\ log[d] = [k \in DOMAIN log[d] |-> log[d][k]]
      BY TypedStream DEF Typed, ChainInv, Shapes, StreamTyped
    <3>1. CASE log' = log
      BY <3>0, <3>1 DEF EventRows
    <3>2. ASSUME NEW k \in DOMAIN log[d], NEW body \in Body, EditEvent(d, k, body)
          PROVE  EventRows(log[d])' /\ log'[d] = [j \in DOMAIN log'[d] |-> log'[d][j]]
      <4> DEFINE e == [log[d][k] EXCEPT !.body = body]
      <4>1. log' = [log EXCEPT ![d][k].body = body]
        BY <3>2 DEF EditEvent
      <4>2. log'[d] = [log[d] EXCEPT ![k] = e]
        BY <3>0, <4>1
      <4>3. log[d][k] \in Event
        BY <3>0 DEF EventRows
      <4>4. e \in Event
        BY <4>3 DEF Event
      <4> HIDE DEF e
      <4>5. \A j \in DOMAIN log[d] : log'[d][j] = IF j = k THEN e ELSE log[d][j]
        BY <3>0, <4>2
      <4>6. DOMAIN log'[d] = DOMAIN log[d] /\ log'[d] = [j \in DOMAIN log'[d] |-> log'[d][j]]
        BY <3>0, <4>2
      <4> QED BY <3>0, <4>4, <4>5, <4>6 DEF EventRows
    <3>3. ASSUME NEW lost \in SUBSET DOMAIN log[d], LoseEvents(d, lost)
          PROVE  EventRows(log[d])' /\ log'[d] = [j \in DOMAIN log'[d] |-> log'[d][j]]
      <4>1. log'[d] = [k \in DOMAIN log[d] \ lost |-> log[d][k]]
        BY <3>0, <3>3 DEF LoseEvents
      <4> QED BY <3>0, <4>1 DEF EventRows
    <3> QED BY <1>6, <3>1, <3>2, <3>3 DEF Damages, ChangeTip
  <2>5. ASSUME NEW s \in Stream PROVE StreamTyped(s)'
    <3>1. StreamTyped(s)
      BY TypedStream
    <3>2. \A u \in Writer : newTip'[u][s] = newTip[u][s] /\ newLog'[u][s] = newLog[u][s]
      BY <2>2
    <3>3. CASE s = d
      <4>1. tip'[s] \in Tip \cup {NoTip}
        BY <2>3, <3>3
      <4>2. EventRows(log[s])' /\ log'[s] = [k \in DOMAIN log'[s] |-> log'[s][k]]
        BY <2>4, <3>3
      <4> QED BY <3>1, <3>2, <4>1, <4>2 DEF StreamTyped
    <3>4. CASE s # d
      <4>1. tip'[s] = tip[s] /\ log'[s] = log[s]
        BY <1>6, <3>4, DamageStep DEF Quiet
      <4> QED BY <3>1, <3>2, <4>1 DEF StreamTyped
    <3> QED BY <3>3, <3>4
  <2> QED BY <1>1, <1>2, <1>3, <2>2, <2>5, TypedFromParts
<1>7. CASE UNCHANGED vars
  <2>1. UNCHANGED <<tip, log, newTip, newLog, bundle, check, damaged>>
    BY <1>7 DEF vars
  <2>2. \A s \in Stream : StreamTyped(s)'
    BY <2>1, TypedStream DEF StreamTyped
  <2> QED BY <1>1, <1>2, <1>3, <2>1, <2>2, TypedFromParts
<1> QED BY <1>4, <1>5, <1>6, <1>7 DEF Next

\* The types hold in the empty log.
LEMMA InitTyped == Init => Typed
<1> SUFFICES ASSUME Init PROVE Typed
  OBVIOUS
<1>1. ChainInv
  BY InitChain
<1>2. TypeOK
  BY NoRowsFacts DEF Init, TypeOK, NoBundle
<1>3. RowsAreFunctions /\ BundleRecords
  BY NoRowsFacts DEF Init, RowsAreFunctions, BundleRecords, NoBundle
<1> QED BY <1>1, <1>2, <1>3 DEF Typed

-----------------------------------------------------------------------------
(* What is appended to a stream goes on from its tip, damaged or not. *)

\* The rows w has added to s go on from the committed tip.
AddedRows(w, s) ==
    LET b == Base(s)
        t == newTip[w][s]
        rows == newLog[w][s]
    IN  IF t = NoTip THEN rows = NoRows
        ELSE /\ b.seq <= t.seq /\ Len(b.hash) <= Len(t.hash)
             /\ t.seq = b.seq => t = b
             /\ DOMAIN rows = (b.seq + 1)..t.seq
             /\ \A k \in DOMAIN rows : Len(rows[k].hash) > Len(b.hash)
             /\ rows # NoRows => rows[b.seq + 1].prev = b.hash

\* No row of s is past its tip, and one writer at most adds to it.
Linked(s) ==
    /\ DOMAIN log[s] \subseteq 1..Base(s).seq
    /\ OneHolder(s)
    /\ \A w \in Writer : AddedRows(w, s)

\* The tip an append goes on from is a tip.
LEMMA BaseTyped ==
    ASSUME NEW s \in Stream, StreamTyped(s)
    PROVE  Base(s) \in Tip /\ Base(s).seq \in Nat /\ Base(s).hash \in Hash /\ Len(Base(s).hash) \in Nat
<1>1. Base(s) \in Tip
  BY NoRowsFacts DEF StreamTyped, Base
<1>2. Base(s).seq \in Nat /\ Base(s).hash \in Hash
  BY <1>1, NoRowsFacts
<1> QED BY <1>1, <1>2 DEF Hash

\* A writer that takes, adds, lets go or leaves alone keeps a stream linked.
LEMMA LinkedKept ==
    ASSUME NEW w \in Writer, NEW s \in Stream, StreamTyped(s), Linked(s), StreamStep(w, s)
    PROVE  Linked(s)'
<1> DEFINE b == Base(s)
<1>0. b \in Tip /\ b.seq \in Nat /\ b.hash \in Hash /\ Len(b.hash) \in Nat
  BY BaseTyped
<1>a. ASSUME NEW u \in Writer, tip'[s] = tip[s],
             newTip'[u][s] = newTip[u][s], newLog'[u][s] = newLog[u][s]
      PROVE  AddedRows(u, s)'
  BY <1>a DEF Linked, AddedRows, Base
<1>b. ASSUME NEW u \in Writer, newTip'[u][s] = NoTip, newLog'[u][s] = NoRows
      PROVE  AddedRows(u, s)'
  BY <1>b DEF AddedRows
<1>1. CASE Quiet(s)
  <2>1. \A u \in Writer : AddedRows(u, s)'
    BY <1>1, <1>a DEF Quiet
  <2> QED BY <1>1, <2>1 DEF Quiet, Linked, OneHolder, Base
<1>2. CASE LetGo(w, s)
  <2>1. \A u \in Writer : AddedRows(u, s)'
    BY <1>2, <1>a, <1>b DEF LetGo, Others
  <2> QED BY <1>2, <2>1 DEF LetGo, Others, Linked, OneHolder, Base
<1>3. CASE Taken(w, s)
  <2>1. newLog[w][s] = NoRows
    BY <1>3 DEF Taken, Linked, AddedRows
  <2>2. AddedRows(w, s)'
    <3>1. newTip'[w][s] = b /\ newLog'[w][s] = NoRows /\ tip'[s] = tip[s]
      BY <1>3, <2>1 DEF Taken
    <3>2. (Base(s))' = b
      BY <3>1 DEF Base
    <3>3. DOMAIN NoRows = (b.seq + 1)..b.seq
      BY <1>0, NoRowsFacts
    <3>4. b # NoTip
      BY <1>0, NoRowsFacts
    <3> HIDE DEF b
    <3> QED BY <1>0, <3>1, <3>2, <3>3, <3>4, NoRowsFacts DEF AddedRows
  <2>3. \A u \in Writer : AddedRows(u, s)'
    BY <1>3, <1>a, <2>2 DEF Taken, Others
  <2>4. OneHolder(s)'
    BY <1>3 DEF Taken, Others, TipFree, OneHolder
  <2> QED BY <1>3, <2>3, <2>4 DEF Taken, Linked, Base
<1>4. CASE Added(w, s)
  <2> DEFINE t == newTip[w][s]
             rows == newLog[w][s]
  <2>1. PICK body \in Body : /\ newTip'[w][s] = TipAfter(t, body)
                             /\ newLog'[w][s] = Extend(rows, RowAfter(t, body))
    BY <1>4 DEF Added
  <2>2. t \in Tip /\ tip'[s] = tip[s] /\ log'[s] = log[s] /\ Others(w, s)
    BY <1>4 DEF Added
  <2>3. t # NoTip /\ t.seq \in Nat
    BY <2>2, NoRowsFacts
  <2> DEFINE t2 == TipAfter(t, body)
             m2 == RowAfter(t, body)
  <2>4. /\ t2 \in Tip /\ t2.seq = t.seq + 1 /\ Len(t2.hash) = Len(t.hash) + 1
        /\ Len(t.hash) \in Nat /\ EventRows(m2) /\ DOMAIN m2 = {t.seq + 1}
        /\ m2[t.seq + 1].prev = t.hash /\ m2[t.seq + 1].hash = t2.hash
    BY <2>2, NextEvent
  <2>5. /\ b.seq <= t.seq /\ Len(b.hash) <= Len(t.hash) /\ (t.seq = b.seq => t = b)
        /\ DOMAIN rows = (b.seq + 1)..t.seq
        /\ \A k \in DOMAIN rows : Len(rows[k].hash) > Len(b.hash)
        /\ rows # NoRows => rows[b.seq + 1].prev = b.hash
    BY <2>3 DEF Linked, AddedRows
  <2>6. EventRows(rows) /\ rows = [k \in DOMAIN rows |-> rows[k]]
    BY DEF StreamTyped
  <2> HIDE DEF t, rows, t2, m2, b
  <2> DEFINE all == Extend(rows, m2)
  <2>7. /\ DOMAIN all = DOMAIN rows \cup DOMAIN m2
        /\ \A k \in DOMAIN rows \ DOMAIN m2 : all[k] = rows[k]
        /\ \A k \in DOMAIN m2 : all[k] = m2[k]
    BY ExtendShape
  <2> HIDE DEF all
  <2>8. DOMAIN all = (b.seq + 1)..(t.seq + 1)
    BY <1>0, <2>3, <2>4, <2>5, <2>7
  <2>9. \A k \in DOMAIN all : k = t.seq + 1 \/ (k \in DOMAIN rows /\ k # t.seq + 1)
    BY <1>0, <2>3, <2>5, <2>8
  <2>10. \A k \in DOMAIN all : Len(all[k].hash) > Len(b.hash)
    BY <1>0, <2>4, <2>5, <2>7, <2>9
  <2>11. all[b.seq + 1].prev = b.hash
    <3>1. CASE t.seq = b.seq
      BY <1>0, <2>4, <2>5, <2>7, <3>1
    <3>2. CASE t.seq # b.seq
      <4>1. b.seq + 1 \in DOMAIN rows /\ b.seq + 1 # t.seq + 1
        BY <1>0, <2>3, <2>5, <3>2
      <4>2. rows # NoRows
        BY <4>1, NoRowsFacts
      <4> QED BY <2>4, <2>5, <2>7, <4>1, <4>2
    <3> QED BY <3>1, <3>2
  <2>12. newTip'[w][s] = t2 /\ newLog'[w][s] = all
    BY <2>1 DEF t2, m2, all
  <2>13. (Base(s))' = b
    BY <2>2 DEF Base, b
  <2>14. t2 # NoTip
    BY <2>4, NoRowsFacts
  <2>15. b.seq <= t2.seq /\ Len(b.hash) <= Len(t2.hash) /\ t2.seq # b.seq
    BY <1>0, <2>3, <2>4, <2>5
  <2>16. AddedRows(w, s)'
    BY <2>4, <2>8, <2>10, <2>11, <2>12, <2>13, <2>14, <2>15 DEF AddedRows
  <2>17. \A u \in Writer : AddedRows(u, s)'
    BY <1>a, <2>2, <2>16 DEF Others
  <2>18. OneHolder(s)'
    BY <2>2, <2>3 DEF Others, OneHolder, Linked, t
  <2> QED BY <2>2, <2>13, <2>17, <2>18 DEF Linked, b
<1>5. CASE Installed(w, s)
  <2> DEFINE t == newTip[w][s]
             rows == newLog[w][s]
  <2>1. /\ tip'[s] = IF t = NoTip THEN tip[s] ELSE t
        /\ log'[s] = Extend(log[s], rows) /\ Others(w, s)
        /\ newTip'[w][s] = NoTip /\ newLog'[w][s] = NoRows
    BY <1>5 DEF Installed, SeenTip
  <2>2. OneHolder(s)'
    BY <2>1 DEF Others, OneHolder, Linked
  <2>3. AddedRows(w, s)'
    BY <1>b, <2>1
  <2>4. CASE t = NoTip
    <3>1. rows = NoRows
      BY <2>4 DEF Linked, AddedRows
    <3>2. log'[s] = log[s]
      BY <2>1, <3>1, ExtendFacts DEF StreamTyped
    <3>3. \A u \in Writer : AddedRows(u, s)'
      BY <1>a, <2>1, <2>3, <2>4 DEF Others
    <3> QED BY <2>1, <2>2, <2>4, <3>2, <3>3 DEF Linked, Base
  <2>5. CASE t # NoTip
    <3>1. \A u \in Writer \ {w} : newTip[u][s] = NoTip /\ newLog[u][s] = NoRows
      BY <2>5 DEF Linked, OneHolder, AddedRows
    <3>2. \A u \in Writer : AddedRows(u, s)'
      BY <1>b, <2>1, <2>3, <3>1 DEF Others
    <3>3. (Base(s))' = t
      BY <2>1, <2>5 DEF Base
    <3>5. DOMAIN log'[s] = DOMAIN log[s] \cup DOMAIN rows
      <4>1. DOMAIN Extend(log[s], rows) = DOMAIN log[s] \cup DOMAIN rows
        BY ExtendShape
      <4> QED BY <2>1, <4>1
    <3>6. b.seq <= t.seq /\ DOMAIN rows = (b.seq + 1)..t.seq /\ DOMAIN log[s] \subseteq 1..b.seq
      BY <2>5 DEF Linked, AddedRows
    <3>7. t.seq \in Nat
      BY <2>5, NoRowsFacts DEF StreamTyped
    <3> HIDE DEF t, rows, b
    <3>8. DOMAIN log'[s] \subseteq 1..t.seq
      BY <1>0, <3>5, <3>6, <3>7
    <3> QED BY <2>2, <3>2, <3>3, <3>8 DEF Linked
  <2> QED BY <2>4, <2>5
<1> QED BY <1>1, <1>2, <1>3, <1>4, <1>5 DEF StreamStep

\* A step of a writer only ever appends to the committed rows: nothing, or at least the
\* event that names the tip as what comes before it.
Grew(s) ==
    /\ \A k \in DOMAIN log[s] : k \in DOMAIN log'[s] /\ log'[s][k] = log[s][k]
    /\ \A k \in DOMAIN log'[s] \ DOMAIN log[s] :
           k > Base(s).seq /\ Len(log'[s][k].hash) > Len(Base(s).hash)
    /\ Base(s)'.seq >= Base(s).seq /\ Len(Base(s)'.hash) >= Len(Base(s).hash)
    /\ tip[s] # NoTip => tip'[s] # NoTip
    /\ \/ Base(s)' = Base(s) /\ log'[s] = log[s]
       \/ /\ Base(s)'.seq > Base(s).seq
          /\ Base(s).seq + 1 \in DOMAIN log'[s]
          /\ log'[s][Base(s).seq + 1].prev = Base(s).hash

\* A stream that is linked only grows.
LEMMA LinkedGrows ==
    ASSUME NEW w \in Writer, NEW s \in Stream, StreamTyped(s), Linked(s), StreamStep(w, s)
    PROVE  Grew(s)
<1> DEFINE b == Base(s)
<1>0. b \in Tip /\ b.seq \in Nat /\ b.hash \in Hash /\ Len(b.hash) \in Nat
  BY BaseTyped
<1>1. ASSUME tip'[s] = tip[s], log'[s] = log[s] PROVE Grew(s)
  <2>1. (Base(s))' = b
    BY <1>1 DEF Base
  <2> HIDE DEF b
  <2> QED BY <1>0, <1>1, <2>1 DEF Grew, b
<1>2. CASE Installed(w, s)
  <2> DEFINE t == newTip[w][s]
             rows == newLog[w][s]
  <2>1. /\ tip'[s] = IF t = NoTip THEN tip[s] ELSE t
        /\ log'[s] = Extend(log[s], rows)
    BY <1>2 DEF Installed, SeenTip
  <2>2. CASE t = NoTip
    <3>1. rows = NoRows
      BY <2>2 DEF Linked, AddedRows
    <3>2. log'[s] = log[s]
      BY <2>1, <3>1, ExtendFacts DEF StreamTyped
    <3> QED BY <1>1, <2>1, <2>2, <3>2
  <2>3. CASE t # NoTip
    <3>1. t.seq \in Nat /\ t \in Tip
      BY <2>3, NoRowsFacts DEF StreamTyped
    <3>2. /\ b.seq <= t.seq /\ Len(b.hash) <= Len(t.hash) /\ (t.seq = b.seq => t = b)
          /\ DOMAIN rows = (b.seq + 1)..t.seq
          /\ \A k \in DOMAIN rows : Len(rows[k].hash) > Len(b.hash)
          /\ rows # NoRows => rows[b.seq + 1].prev = b.hash
          /\ DOMAIN log[s] \subseteq 1..b.seq
      BY <2>3 DEF Linked, AddedRows
    <3>3. (Base(s))' = t /\ tip'[s] # NoTip
      BY <2>1, <2>3 DEF Base
    <3>4. /\ DOMAIN log'[s] = DOMAIN log[s] \cup DOMAIN rows
          /\ \A k \in DOMAIN log[s] \ DOMAIN rows : log'[s][k] = log[s][k]
          /\ \A k \in DOMAIN rows : log'[s][k] = rows[k]
      <4> DEFINE all == Extend(log[s], rows)
      <4>1. /\ DOMAIN all = DOMAIN log[s] \cup DOMAIN rows
            /\ \A k \in DOMAIN log[s] \ DOMAIN rows : all[k] = log[s][k]
            /\ \A k \in DOMAIN rows : all[k] = rows[k]
        <5> HIDE DEF rows
        <5> QED BY ExtendShape
      <4>2. log'[s] = all
        BY <2>1
      <4> HIDE DEF all
      <4> QED BY <4>1, <4>2
    <3>5. CASE t.seq = b.seq
      <4>1. DOMAIN rows = {}
        BY <1>0, <3>1, <3>2, <3>5
      <4>2. rows = NoRows
        BY <4>1, NoRowsOnly DEF StreamTyped
      <4>3. log'[s] = log[s]
        BY <2>1, <4>2, ExtendFacts DEF StreamTyped
      <4>4. t = b
        BY <3>2, <3>5
      <4> HIDE DEF t, rows, b
      <4> QED BY <1>0, <3>3, <4>3, <4>4 DEF Grew, b
    <3>6. CASE t.seq # b.seq
      <4> HIDE DEF t, rows, b
      <4>1. b.seq + 1 \in DOMAIN rows /\ b.seq < t.seq
        BY <1>0, <3>1, <3>2, <3>6
      <4>2. rows # NoRows
        BY <4>1, NoRowsFacts
      <4>3. \A k \in DOMAIN log[s] : k \notin DOMAIN rows
        BY <1>0, <3>1, <3>2
      <4>4. \A k \in DOMAIN rows : k > b.seq
        BY <1>0, <3>1, <3>2
      <4>5. /\ \A k \in DOMAIN log[s] : k \in DOMAIN log'[s] /\ log'[s][k] = log[s][k]
            /\ \A k \in DOMAIN log'[s] \ DOMAIN log[s] : k > b.seq /\ Len(log'[s][k].hash) > Len(b.hash)
        BY <3>2, <3>4, <4>3, <4>4
      <4>6. b.seq + 1 \in DOMAIN log'[s] /\ log'[s][b.seq + 1].prev = b.hash
        BY <3>2, <3>4, <4>1, <4>2
      <4> QED BY <1>0, <3>1, <3>2, <3>3, <4>1, <4>5, <4>6 DEF Grew, b
    <3> QED BY <3>5, <3>6
  <2> QED BY <2>2, <2>3
<1> QED BY <1>1, <1>2 DEF StreamStep, Quiet, Taken, Added, LetGo

-----------------------------------------------------------------------------
(* What damage leaves behind, and that no later append repairs it. *)

\* An event that does not hash to its hash, or does not name the one before it.
Broken(rows) ==
    \E k \in DOMAIN rows :
        \/ rows[k].hash # EventHash(rows[k].prev, k, rows[k].body)
        \/ k - 1 \in DOMAIN rows /\ rows[k].prev # rows[k - 1].hash

\* The tip was set back, or deleted: every seq up to the last is taken.
Behind(t, rows) == \E m \in Nat \ {0} : DOMAIN rows = 1..m /\ t.seq < m

\* An event up to the tip is missing; what was appended since has a longer hash.
Holed(t, rows) ==
    /\ \E j \in 1..t.seq : j \notin DOMAIN rows
    /\ \A k \in DOMAIN rows : k > t.seq => Len(rows[k].hash) > Len(t.hash)

\* The tip has another hash than the last event.
Unanchored(t, rows) == t.seq > 0 /\ DOMAIN rows = 1..t.seq /\ rows[t.seq].hash # t.hash

\* No writer can append to s any more: the next seq is taken.
Stuck(s) ==
    /\ Behind(tip[s], log[s])
    /\ \A w \in Writer : newLog[w][s] = NoRows /\ Behind(newTip[w][s], log[s])

\* The damage to s, as a reader sees it that has read the tip t: then, now or before.
Seen(t, s) ==
    \/ Stuck(s) /\ Behind(t, log[s])
    \/ /\ Linked(s) /\ tip[s] # NoTip
       /\ \/ Broken(log[s])
          \/ /\ Holed(t, log[s])
             /\ t.seq <= tip[s].seq /\ Len(t.hash) <= Len(tip[s].hash)
          \/ Unanchored(t, log[s]) /\ t = tip[s]

\* Appended rows repair nothing.
LEMMA BrokenGrows ==
    ASSUME NEW rows, NEW more, Broken(rows),
           \A k \in DOMAIN rows : k \in DOMAIN more /\ more[k] = rows[k]
    PROVE  Broken(more)
BY DEF Broken

\* A stream that is stuck stays as it is.
LEMMA StuckKept ==
    ASSUME NEW w \in Writer, NEW s \in Stream, StreamTyped(s), Stuck(s), StreamStep(w, s)
    PROVE  Stuck(s)' /\ log'[s] = log[s]
<1>1. PICK m \in Nat \ {0} : DOMAIN log[s] = 1..m /\ tip[s].seq < m
  BY DEF Stuck, Behind
<1>2. \A u \in Writer : newLog[u][s] = NoRows /\ newTip[u][s].seq < m
  <2> SUFFICES ASSUME NEW u \in Writer PROVE newLog[u][s] = NoRows /\ newTip[u][s].seq < m
    OBVIOUS
  <2>1. newLog[u][s] = NoRows /\ Behind(newTip[u][s], log[s])
    BY DEF Stuck
  <2>2. PICK n \in Nat \ {0} : DOMAIN log[s] = 1..n /\ newTip[u][s].seq < n
    BY <2>1 DEF Behind
  <2>3. 1..m = 1..n
    BY <1>1, <2>2
  <2>4. m \in 1..m /\ n \in 1..n
    OBVIOUS
  <2>5. m = n
    BY <2>3, <2>4
  <2> QED BY <2>1, <2>2, <2>5
<1>3. NoTip.seq < m /\ GenesisTip.seq < m
  BY NoRowsFacts
<1>4. ASSUME tip'[s].seq < m, log'[s] = log[s],
             \A u \in Writer : newLog'[u][s] = NoRows /\ newTip'[u][s].seq < m
      PROVE  Stuck(s)' /\ log'[s] = log[s]
  <2>1. (DOMAIN log[s])' = 1..m
    BY <1>1, <1>4
  <2>2. \A u \in Writer : Behind(newTip[u][s], log[s])'
    BY <1>4, <2>1 DEF Behind
  <2>3. Behind(tip[s], log[s])'
    BY <1>4, <2>1 DEF Behind
  <2> QED BY <1>4, <2>2, <2>3 DEF Stuck
<1>5. CASE Quiet(s)
  BY <1>1, <1>2, <1>4, <1>5 DEF Quiet
<1>6. CASE LetGo(w, s)
  BY <1>1, <1>2, <1>3, <1>4, <1>6 DEF LetGo, Others
<1>7. CASE Taken(w, s)
  BY <1>1, <1>2, <1>3, <1>4, <1>7 DEF Taken, Others, Base
<1>8. CASE Added(w, s)
  <2>1. newTip[w][s].seq \in Nat /\ newTip[w][s].seq < m
    BY <1>2, <1>8, NoRowsFacts DEF Added
  <2>2. newTip[w][s].seq + 1 \in 1..m
    BY <2>1
  <2>3. newTip[w][s].seq + 1 \notin DOMAIN log[s]
    BY <1>8 DEF Added, SeqUnused
  <2> QED BY <1>1, <2>2, <2>3
<1>9. CASE Installed(w, s)
  <2>1. log'[s] = log[s]
    BY <1>2, <1>9, ExtendFacts DEF Installed, StreamTyped
  <2>2. tip'[s].seq < m
    BY <1>1, <1>2, <1>9 DEF Installed, SeenTip
  <2> QED BY <1>2, <1>3, <1>4, <1>9, <2>1, <2>2 DEF Installed, Others
<1> QED BY <1>5, <1>6, <1>7, <1>8, <1>9 DEF StreamStep

\* Damage that a reader sees stays to be seen.
LEMMA SeenKept ==
    ASSUME NEW w \in Writer, NEW s \in Stream, StreamTyped(s), StreamStep(w, s),
           NEW t \in Tip \cup {NoTip}, Seen(t, s)
    PROVE  Seen(t, s)'
<1>1. CASE Stuck(s) /\ Behind(t, log[s])
  <2>1. Stuck(s)' /\ log'[s] = log[s]
    BY <1>1, StuckKept
  <2>2. Behind(t, log[s])'
    BY <1>1, <2>1 DEF Behind
  <2> QED BY <2>1, <2>2 DEF Seen
<1>2. CASE Linked(s) /\ tip[s] # NoTip
           /\ (\/ Broken(log[s])
               \/ /\ Holed(t, log[s])
                  /\ t.seq <= tip[s].seq /\ Len(t.hash) <= Len(tip[s].hash)
               \/ Unanchored(t, log[s]) /\ t = tip[s])
  <2>1. Linked(s)' /\ Grew(s) /\ StreamTyped(s)'
    BY <1>2, LinkedKept, LinkedGrows, StreamTypedKept
  <2>2. /\ tip'[s] # NoTip /\ Base(s) = tip[s] /\ (Base(s))' = tip'[s]
        /\ \A k \in DOMAIN log[s] : k \in DOMAIN log'[s] /\ log'[s][k] = log[s][k]
        /\ \A k \in DOMAIN log'[s] \ DOMAIN log[s] :
               k > tip[s].seq /\ Len(log'[s][k].hash) > Len(tip[s].hash)
        /\ tip'[s].seq >= tip[s].seq /\ Len(tip'[s].hash) >= Len(tip[s].hash)
    BY <1>2, <2>1 DEF Grew, Base
  <2>3. /\ tip[s] \in Tip /\ tip[s].seq \in Nat /\ Len(tip[s].hash) \in Nat
        /\ tip'[s] \in Tip /\ tip'[s].seq \in Nat /\ Len(tip'[s].hash) \in Nat
        /\ EventRows(log[s])'
        /\ t.seq \in Int /\ Len(t.hash) \in Nat
    <3>1. tip[s] \in Tip /\ tip'[s] \in Tip /\ EventRows(log[s])'
      BY <1>2, <2>1, <2>2 DEF StreamTyped
    <3>2. \A x \in Tip \cup {NoTip} : x.seq \in Int /\ x.hash \in Hash
      BY NoRowsFacts
    <3>3. \A h \in Hash : Len(h) \in Nat
      BY DEF Hash
    <3> QED BY <3>1, <3>2, <3>3, NoRowsFacts
  <2>4. CASE Broken(log[s])
    <3>1. Broken(log[s])'
      <4>1. PICK k \in DOMAIN log[s] :
                \/ log[s][k].hash # EventHash(log[s][k].prev, k, log[s][k].body)
                \/ k - 1 \in DOMAIN log[s] /\ log[s][k].prev # log[s][k - 1].hash
        BY <2>4 DEF Broken
      <4> QED BY <2>2, <4>1 DEF Broken
    <3> QED BY <2>1, <2>2, <3>1 DEF Seen
  <2>5. CASE Holed(t, log[s]) /\ t.seq <= tip[s].seq /\ Len(t.hash) <= Len(tip[s].hash)
    <3>1. PICK j \in 1..t.seq : j \notin DOMAIN log[s]
      BY <2>5 DEF Holed
    <3>2. j \notin DOMAIN log'[s]
      BY <2>2, <2>3, <2>5, <3>1
    <3>3. ASSUME NEW k \in DOMAIN log'[s], k > t.seq
          PROVE  Len(log'[s][k].hash) > Len(t.hash)
      <4>1. CASE k \in DOMAIN log[s]
        BY <2>2, <2>5, <3>3, <4>1 DEF Holed
      <4>2. CASE k \notin DOMAIN log[s]
        <5>1. Len(log'[s][k].hash) > Len(tip[s].hash)
          BY <2>2, <4>2
        <5>2. Len(log'[s][k].hash) \in Nat
          <6>1. log'[s][k].hash \in Hash
            BY <2>3 DEF EventRows, Event
          <6> QED BY <6>1 DEF Hash
        <5> QED BY <2>3, <2>5, <5>1, <5>2
      <4> QED BY <4>1, <4>2
    <3>4. Holed(t, log[s])'
      BY <3>1, <3>2, <3>3 DEF Holed
    <3>5. t.seq <= tip'[s].seq /\ Len(t.hash) <= Len(tip'[s].hash)
      BY <2>2, <2>3, <2>5
    <3> QED BY <2>1, <2>2, <3>4, <3>5 DEF Seen
  <2>6. CASE Unanchored(t, log[s]) /\ t = tip[s]
    <3>1. CASE tip'[s] = tip[s] /\ log'[s] = log[s]
      <4>1. Unanchored(t, log[s])' /\ t = tip'[s]
        BY <2>6, <3>1 DEF Unanchored
      <4> QED BY <2>1, <2>2, <4>1 DEF Seen
    <3>2. CASE t.seq + 1 \in DOMAIN log'[s] /\ log'[s][t.seq + 1].prev = t.hash
      <4>1. t.seq \in DOMAIN log[s] /\ log[s][t.seq].hash # t.hash /\ t.seq + 1 - 1 = t.seq
        BY <2>3, <2>6 DEF Unanchored
      <4>2. t.seq \in DOMAIN log'[s] /\ log'[s][t.seq].hash # t.hash
        BY <2>2, <4>1
      <4>3. PICK k \in Int : k = t.seq + 1 /\ k - 1 = t.seq
        BY <2>3
      <4>4. Broken(log[s])'
        <5>1. k \in DOMAIN log'[s] /\ k - 1 \in DOMAIN log'[s] /\ log'[s][k].prev # log'[s][k - 1].hash
          BY <3>2, <4>2, <4>3
        <5> QED BY <5>1 DEF Broken
      <4> QED BY <2>1, <2>2, <4>4 DEF Seen
    <3> QED BY <2>1, <2>2, <2>6, <3>1, <3>2 DEF Grew
  <2> QED BY <1>2, <2>4, <2>5, <2>6
<1> QED BY <1>1, <1>2 DEF Seen

\* The tip that s has now shows it as well.
LEMMA SeenNow ==
    ASSUME NEW w \in Writer, NEW s \in Stream, StreamTyped(s), StreamStep(w, s), Seen(tip[s], s)
    PROVE  Seen(tip[s], s)'
<1>1. PICK t \in Tip \cup {NoTip} : t = tip[s]
  BY DEF StreamTyped
<1>2. Seen(t, s)'
  <2>1. Seen(t, s)
    BY <1>1
  <2> QED BY <2>1, SeenKept
<1>3. StreamTyped(s)'
  BY StreamTypedKept
<1>4. CASE Stuck(s)'
  BY <1>4 DEF Seen, Stuck
<1>5. CASE Linked(s)' /\ tip'[s] # NoTip /\ Broken(log[s])'
  BY <1>5 DEF Seen
<1>6. CASE Linked(s)' /\ tip'[s] # NoTip /\ Holed(t, log[s])' /\ t.seq <= tip'[s].seq
  <2>1. DOMAIN log'[s] \subseteq 1..tip'[s].seq
    BY <1>6 DEF Linked, Base
  <2>2. tip'[s].seq \in Nat /\ t.seq \in Int /\ Len(tip'[s].hash) \in Nat
    <3>1. tip'[s] \in Tip
      BY <1>3, <1>6 DEF StreamTyped
    <3>2. tip'[s].hash \in Hash /\ tip'[s].seq \in Nat /\ t.seq \in Int
      BY <3>1, NoRowsFacts
    <3> QED BY <3>2 DEF Hash
  <2>3. PICK j \in 1..t.seq : j \notin DOMAIN log'[s]
    BY <1>6 DEF Holed
  <2>4. j \in 1..tip'[s].seq
    BY <1>6, <2>2
  <2>5. \A k \in DOMAIN log'[s] : ~(k > tip'[s].seq)
    BY <2>1, <2>2
  <2>6. Holed(tip[s], log[s])'
    BY <2>3, <2>4, <2>5 DEF Holed
  <2>7. (Len(tip[s].hash) <= Len(tip[s].hash) /\ tip[s].seq <= tip[s].seq)'
    BY <2>2
  <2> QED BY <1>6, <2>6, <2>7 DEF Seen
<1>7. CASE Linked(s)' /\ tip'[s] # NoTip /\ Unanchored(t, log[s])' /\ t = tip'[s]
  BY <1>7 DEF Seen, Unanchored
<1> QED BY <1>2, <1>4, <1>5, <1>6, <1>7 DEF Seen

\* An event with another body has another hash.
LEMMA HashTellsBody ==
    ASSUME NEW h \in Hash, NEW k \in Nat, NEW body \in Body, NEW other \in Body, body # other
    PROVE  EventHash(h, k, body) # EventHash(h, k, other)
<1>1. \A b \in Body : EventHash(h, k, b)[Len(h) + 1] = <<k, b>>
  BY DEF EventHash, Hash
<1>2. <<k, body>> # <<k, other>>
  OBVIOUS
<1> QED BY <1>1, <1>2

\* Whatever is changed from outside leaves a stream that shows it.
LEMMA DamageIsSeen ==
    ASSUME Typed, NEW s \in Stream, s \notin damaged, Linked(s), Damages(s)
    PROVE  Seen(tip[s], s)'
<1> DEFINE n == tip[s].seq
<1>0. Damage(s)
  BY DEF Damages, EditEvent, LoseEvents, ChangeTip
<1>1. log[s] # NoRows /\ UNCHANGED <<newTip, newLog>>
  BY <1>0 DEF Damage
<1>2. tip[s] # NoTip /\ n > 0 /\ Whole(tip[s], log[s])
  BY <1>1 DEF Typed, ChainInv, Sound, Committed
<1>3. /\ n \in Nat /\ DOMAIN log[s] = 1..n /\ tip[s].hash = log[s][n].hash
      /\ \A k \in 1..n : log[s][k].hash = EventHash(log[s][k].prev, k, log[s][k].body)
  BY <1>2 DEF Whole, Chain
<1>4. StreamTyped(s) /\ tip[s] \in Tip /\ Len(tip[s].hash) \in Nat
  <2>1. StreamTyped(s) /\ tip[s] \in Tip
    BY <1>2, TypedStream DEF StreamTyped
  <2>2. tip[s].hash \in Hash
    BY <2>1, NoRowsFacts
  <2> QED BY <2>1, <2>2 DEF Hash
<1>5. tip = [x \in Stream |-> tip[x]] /\ log = [x \in Stream |-> log[x]]
  BY DEF Typed, ChainInv, Shapes
<1> HIDE DEF n
<1>6. ASSUME tip' = tip, DOMAIN log'[s] \subseteq DOMAIN log[s] PROVE Linked(s)'
  <2>1. (Base(s))' = Base(s)
    BY <1>6 DEF Base
  <2>2. OneHolder(s)' /\ \A u \in Writer : AddedRows(u, s)'
    BY <1>1, <2>1 DEF Linked, OneHolder, AddedRows
  <2> QED BY <1>6, <2>1, <2>2 DEF Linked
<1>7. ASSUME NEW k \in DOMAIN log[s], NEW body \in Body, EditEvent(s, k, body)
      PROVE  Seen(tip[s], s)'
  <2> DEFINE e == [log[s][k] EXCEPT !.body = body]
  <2>1. tip' = tip /\ log' = [log EXCEPT ![s][k].body = body] /\ body # log[s][k].body
    BY <1>7 DEF EditEvent
  <2>2. log'[s] = [log[s] EXCEPT ![k] = e]
    BY <1>5, <2>1
  <2>3. log[s][k] \in Event /\ k \in Nat
    BY <1>4 DEF StreamTyped, EventRows
  <2>4. e.prev = log[s][k].prev /\ e.body = body /\ e.hash = log[s][k].hash
    BY <2>3 DEF Event
  <2>5. /\ log[s][k].prev \in Hash /\ log[s][k].body \in Body
        /\ log[s][k].hash = EventHash(log[s][k].prev, k, log[s][k].body)
    BY <1>3, <2>3 DEF Event
  <2>6. e.hash # EventHash(e.prev, k, e.body)
    BY <2>1, <2>3, <2>4, <2>5, HashTellsBody
  <2> HIDE DEF e
  <2>7. DOMAIN log'[s] = DOMAIN log[s] /\ log'[s][k] = e
    BY <1>4, <2>2 DEF StreamTyped
  <2>8. Broken(log[s])'
    BY <2>6, <2>7 DEF Broken
  <2>9. Linked(s)' /\ tip'[s] # NoTip
    BY <1>2, <1>6, <2>1, <2>7
  <2> QED BY <2>8, <2>9 DEF Seen
<1>8. ASSUME NEW lost \in SUBSET DOMAIN log[s], LoseEvents(s, lost)
      PROVE  Seen(tip[s], s)'
  <2>1. tip' = tip /\ lost # {} /\ log'[s] = [k \in DOMAIN log[s] \ lost |-> log[s][k]]
    BY <1>5, <1>8 DEF LoseEvents
  <2>2. PICK j \in lost : TRUE
    BY <2>1
  <2>3. j \in 1..n /\ j \notin DOMAIN log'[s] /\ DOMAIN log'[s] \subseteq 1..n
    BY <1>3, <2>1, <2>2
  <2>4. \A k \in DOMAIN log'[s] : ~(k > n)
    BY <1>3, <2>3
  <2>5. Holed(tip[s], log[s])'
    BY <2>1, <2>3, <2>4 DEF Holed, n
  <2>6. Linked(s)' /\ tip'[s] # NoTip
    BY <1>2, <1>3, <1>6, <2>1, <2>3
  <2>7. n <= n /\ Len(tip[s].hash) <= Len(tip[s].hash)
    BY <1>3, <1>4
  <2> QED BY <2>1, <2>5, <2>6, <2>7 DEF Seen, n
<1>9. ASSUME NEW t \in Tip \cup {NoTip}, ChangeTip(s, t),
             t = NoTip \/ t.hash \in {Genesis, tip[s].hash}
      PROVE  Seen(tip[s], s)'
  <2>1. /\ log' = log /\ tip'[s] = t /\ t # tip[s] /\ \A u \in Writer : newTip[u][s] = NoTip
    BY <1>5, <1>9 DEF ChangeTip
  <2>2. \A u \in Writer : newTip'[u][s] = NoTip /\ newLog'[u][s] = NoRows
    BY <1>1, <2>1 DEF Linked, AddedRows
  <2>3. t.seq \in Int /\ NoTip.seq = -1 /\ t.hash \in Hash
    BY NoRowsFacts
  <2>4. CASE t.seq < n
    <3>1. (Behind(tip[s], log[s]) /\ \A u \in Writer : Behind(newTip[u][s], log[s]))'
      <4>1. DOMAIN log'[s] = 1..n /\ n \in Nat \ {0} /\ t.seq < n /\ NoTip.seq < n
        BY <1>2, <1>3, <2>1, <2>3, <2>4 DEF n
      <4> QED BY <2>1, <2>2, <4>1 DEF Behind
    <3>2. Stuck(s)'
      BY <2>2, <3>1 DEF Stuck
    <3> QED BY <3>1, <3>2 DEF Seen
  <2>5. CASE ~(t.seq < n)
    <3>1. t \in Tip /\ t.seq \in Nat /\ t.seq >= n /\ t # NoTip
      BY <1>3, <2>3, <2>5, NoRowsFacts
    <3>2. Linked(s)'
      <4>1. (Base(s))' = t
        BY <2>1, <3>1 DEF Base
      <4>2. DOMAIN log'[s] \subseteq 1..t.seq
        BY <1>3, <2>1, <3>1
      <4>3. OneHolder(s)' /\ \A u \in Writer : AddedRows(u, s)'
        BY <2>2 DEF OneHolder, AddedRows
      <4> QED BY <4>1, <4>2, <4>3 DEF Linked
    <3>3. CASE t.seq = n
      <4>1. t.hash # tip[s].hash
        <5>1. \A x \in Tip : x = [seq |-> x.seq, hash |-> x.hash]
          BY DEF Tip
        <5> QED BY <1>4, <2>1, <3>1, <3>3, <5>1 DEF n
      <4>2. Unanchored(t, log[s])'
        BY <1>2, <1>3, <2>1, <3>3, <4>1 DEF Unanchored, n
      <4> QED BY <2>1, <3>1, <3>2, <4>2 DEF Seen
    <3>4. CASE t.seq # n
      <4>1. n + 1 \in 1..t.seq /\ n + 1 \notin 1..n
        BY <1>3, <3>1, <3>4
      <4>2. \A k \in 1..n : ~(k > t.seq)
        BY <1>3, <3>1
      <4>3. Holed(t, log[s])'
        BY <1>3, <2>1, <4>1, <4>2 DEF Holed
      <4>4. t.seq <= t.seq /\ Len(t.hash) <= Len(t.hash)
        BY <2>3, <3>1 DEF Hash
      <4> QED BY <2>1, <3>1, <3>2, <4>3, <4>4 DEF Seen
    <3> QED BY <3>3, <3>4
  <2> QED BY <2>4, <2>5
<1>10. ASSUME NEW seq \in 0..MaxSeq, NEW hash \in {Genesis, tip[s].hash},
              ChangeTip(s, [seq |-> seq, hash |-> hash])
       PROVE  Seen(tip[s], s)'
  <2> DEFINE t == [seq |-> seq, hash |-> hash]
  <2>1. hash \in Hash /\ seq \in Nat
    BY <1>4, NoRowsFacts, AuditChainAssumption
  <2>2. t \in Tip /\ t.hash = hash
    BY <2>1 DEF Tip
  <2> HIDE DEF t
  <2>3. ChangeTip(s, t)
    BY <1>10 DEF t
  <2> QED BY <1>9, <2>2, <2>3
<1>11. CASE ChangeTip(s, NoTip)
  BY <1>9, <1>11
<1> QED BY <1>7, <1>8, <1>10, <1>11 DEF Damages

-----------------------------------------------------------------------------
(* What is seen is reported. *)

\* There are m events from 1 to m.
LEMMA CardOfInterval ==
    ASSUME NEW m \in Nat
    PROVE  IsFiniteSet(1..m) /\ Cardinality(1..m) = m
<1>1. IsFiniteSet(1..m) /\ Cardinality(1..m) = IF 1 > m THEN 0 ELSE m - 1 + 1
  BY FS_Interval
<1> QED BY <1>1

\* The last of them is m.
LEMMA MaxOfInterval ==
    ASSUME NEW m \in Nat \ {0}
    PROVE  Max(1..m) = m
<1>1. 1..m \in SUBSET (0..m) /\ m \in 1..m
  OBVIOUS
<1>2. Max(1..m) \in 1..m /\ \A j \in 1..m : Max(1..m) >= j
  BY <1>1, MaxOfBounded
<1> DEFINE x == Max(1..m)
<1>3. x \in 1..m /\ x >= m
  BY <1>1, <1>2
<1> HIDE DEF x
<1>4. x = m
  BY <1>3
<1> QED BY <1>4 DEF x

\* verify_stream finds what does not hash or does not link.
LEMMA BrokenIsFound ==
    ASSUME NEW rows, NEW n \in Nat, DOMAIN rows \subseteq 1..n, Broken(rows)
    PROVE  BrokenSeqs(rows) # {} /\ DOMAIN rows # {}
<1>1. PICK k \in DOMAIN rows :
          \/ rows[k].hash # EventHash(rows[k].prev, k, rows[k].body)
          \/ k - 1 \in DOMAIN rows /\ rows[k].prev # rows[k - 1].hash
  BY DEF Broken
<1>2. CASE rows[k].hash # EventHash(rows[k].prev, k, rows[k].body)
  BY <1>2 DEF BrokenSeqs
<1>3. CASE k - 1 \in DOMAIN rows /\ rows[k].prev # rows[k - 1].hash
  <2> DEFINE before == {j \in DOMAIN rows : j < k}
  <2>1. k \in 1..n
    OBVIOUS
  <2>2. k - 1 \in before /\ before \in SUBSET (0..n) /\ \A j \in before : j <= k - 1
    BY <1>3, <2>1
  <2> HIDE DEF before
  <2>3. Max(before) \in before /\ \A j \in before : Max(before) >= j
    BY <2>2, MaxOfBounded
  <2>4. Max(before) = k - 1
    <3> DEFINE x == Max(before)
    <3>1. x \in 0..n /\ k - 1 \in 0..n /\ x >= k - 1 /\ x <= k - 1
      BY <2>2, <2>3
    <3> HIDE DEF x
    <3>2. x = k - 1
      BY <3>1
    <3> QED BY <3>2 DEF x
  <2>5. ExpectedPrev(rows, k) = rows[k - 1].hash
    BY <2>2, <2>4 DEF ExpectedPrev, before
  <2> QED BY <1>3, <2>5 DEF BrokenSeqs
<1> QED BY <1>1, <1>2, <1>3

\* A tip that is behind is no anchor.
LEMMA BehindIsFound ==
    ASSUME NEW t \in Tip, NEW rows, Behind(t, rows)
    PROVE  ~Anchored(t, rows) /\ DOMAIN rows # {}
<1>1. PICK m \in Nat \ {0} : DOMAIN rows = 1..m /\ t.seq < m
  BY DEF Behind
<1>2. Cardinality(DOMAIN rows) = m /\ 1 \in 1..m
  BY <1>1, CardOfInterval
<1>3. t.seq \in Nat /\ m # t.seq
  BY <1>1, NoRowsFacts
<1>4. DOMAIN rows # {}
  BY <1>1, <1>2
<1> QED BY <1>2, <1>3, <1>4 DEF Anchored

\* Rows up to the tip with one missing are too few.
LEMMA HoleIsFound ==
    ASSUME NEW t \in Tip, NEW rows, DOMAIN rows \subseteq 1..t.seq,
           \E j \in 1..t.seq : j \notin DOMAIN rows
    PROVE  ~Anchored(t, rows)
<1>1. t.seq \in Nat
  BY NoRowsFacts
<1>2. IsFiniteSet(1..t.seq) /\ Cardinality(1..t.seq) = t.seq
  BY <1>1, CardOfInterval
<1>3. Cardinality(DOMAIN rows) # t.seq
  BY <1>2, FS_Subset
<1> QED BY <1>3 DEF Anchored

\* A tip with another hash than the last event is no anchor.
LEMMA UnanchoredIsFound ==
    ASSUME NEW t \in Tip, NEW rows, Unanchored(t, rows)
    PROVE  ~Anchored(t, rows) /\ DOMAIN rows # {}
<1>1. t.seq \in Nat \ {0}
  BY NoRowsFacts DEF Unanchored
<1>2. Max(1..t.seq) = t.seq /\ t.seq \in 1..t.seq
  BY <1>1, MaxOfInterval
<1> QED BY <1>2 DEF Anchored, Unanchored

\* audit:verify reports the damage a reader sees, whatever was appended since it has
\* read the tips.
LEMMA SeenIsFound ==
    ASSUME NEW s \in Stream, StreamTyped(s), NEW t \in Tip, Seen(t, s)
    PROVE  ~Verified(t, log[s])
<1> DEFINE rows == log[s]
<1>1. t.seq \in Nat /\ Len(t.hash) \in Nat
  <2>1. t.hash \in Hash
    BY NoRowsFacts
  <2> QED BY <2>1, NoRowsFacts DEF Hash
<1>2. CASE Behind(t, rows)
  BY <1>2, BehindIsFound DEF Verified
<1>3. CASE Linked(s) /\ tip[s] # NoTip /\ Broken(rows)
  <2>1. Base(s).seq \in Nat /\ DOMAIN rows \subseteq 1..Base(s).seq
    BY <1>3, BaseTyped DEF Linked
  <2>2. BrokenSeqs(rows) # {} /\ DOMAIN rows # {}
    BY <1>3, <2>1, BrokenIsFound
  <2> QED BY <2>2 DEF Verified
<1>4. CASE Linked(s) /\ tip[s] # NoTip /\ Holed(t, rows)
  <2>1. PICK j \in 1..t.seq : j \notin DOMAIN rows
    BY <1>4 DEF Holed
  <2>2. CASE DOMAIN rows = {}
    <3>1. t # GenesisTip
      BY <1>1, <2>1, NoRowsFacts
    <3> QED BY <2>2, <3>1 DEF Verified
  <2>3. ASSUME DOMAIN rows # {} PROVE ~Verified(t, rows)
    <3>1. Base(s).seq \in Nat /\ DOMAIN rows \subseteq 1..Base(s).seq
      BY <1>4, BaseTyped DEF Linked
    <3>2. DOMAIN rows \in SUBSET (0..Base(s).seq)
      BY <3>1
    <3> HIDE DEF rows
    <3>3. Max(DOMAIN rows) \in DOMAIN rows /\ \A k \in DOMAIN rows : Max(DOMAIN rows) >= k
      BY <2>3, <3>1, <3>2, MaxOfBounded
    <3> DEFINE last == Max(DOMAIN rows)
    <3>4. last \in Nat /\ last \in DOMAIN rows /\ \A k \in DOMAIN rows : last >= k
      BY <3>1, <3>3
    <3> HIDE DEF last
    <3>5. CASE last > t.seq
      <4>1. Len(rows[last].hash) > Len(t.hash)
        BY <1>4, <3>4, <3>5 DEF Holed
      <4>2. rows[last].hash # t.hash
        BY <1>1, <4>1
      <4> QED BY <2>3, <4>2 DEF Verified, Anchored, last
    <3>6. CASE ~(last > t.seq)
      <4>1. DOMAIN rows \subseteq 1..t.seq
        BY <1>1, <3>1, <3>4, <3>6
      <4>2. ~Anchored(t, rows)
        BY <2>1, <4>1, HoleIsFound
      <4> QED BY <2>3, <4>2 DEF Verified
    <3> QED BY <3>5, <3>6
  <2> QED BY <2>2, <2>3
<1>5. CASE Unanchored(t, rows)
  BY <1>5, UnanchoredIsFound DEF Verified
<1> QED BY <1>2, <1>3, <1>4, <1>5 DEF Seen

-----------------------------------------------------------------------------
(* The positions of a writer, its export and its locks. *)

\* What w holds, and where its export is, at each position.
Phase(w) ==
    LET b == bundle[w]
    IN  /\ wr[w].pc \in {"idle", "anchor"} =>
               \A x \in Stream : newTip[w][x] = NoTip /\ newLog[w][x] = NoRows
        /\ wr[w].pc = "anchor" <=> b.pc = "events"
        /\ b.pc = "sent" => wr[w].pc = "idle"
        /\ b.pc = "built" =>
               /\ wr[w].pc \in {"open", "lock", "append"}
               /\ \A x \in Stream : x # b.stream => newLog[w][x] = NoRows
               /\ wr[w].pc \in {"lock", "append"} =>
                      wr[w].stream = b.stream /\ newLog[w][b.stream] = NoRows
        /\ b.pc # "none" => b.stream \in Stream
        /\ b.pc # "none" /\ b.suspect => b.stream \in damaged

\* A step of w leaves what the other writers hold alone.
LEMMA OthersUntouched ==
    ASSUME Typed, NEW w \in Writer, Writes(w)
    PROVE  /\ UNCHANGED <<check, damaged>>
           /\ \A v \in Writer \ {w} :
                  /\ wr'[v] = wr[v] /\ bundle'[v] = bundle[v]
                  /\ \A x \in Stream : newTip'[v][x] = newTip[v][x] /\ newLog'[v][x] = newLog[v][x]
<1>1. UNCHANGED <<check, damaged>>
  BY DEF Writes, EnsureStream, LockTip, AppendEvent, Commit, Rollback, ExportEvents, ExportAnchor
<1>2. \A v \in Writer \ {w} : bundle'[v] = bundle[v]
  BY BundleAfter
<1>3. \A v \in Writer \ {w} : wr'[v] = wr[v]
  <2>1. wr \in [Writer -> [pc: {"idle", "open", "lock", "append", "anchor"},
                           stream: Stream \cup {NoStream}]]
    BY DEF Typed, TypeOK
  <2>2. (\E new : wr' = [wr EXCEPT ![w] = new]) \/ (\E pc : wr' = [wr EXCEPT ![w].pc = pc])
    BY DEF Writes, EnsureStream, LockTip, AppendEvent, Commit, Rollback, Released,
           ExportEvents, ExportAnchor
  <2> QED BY <2>1, <2>2
<1>4. \A v \in Writer \ {w}, x \in Stream :
          newTip'[v][x] = newTip[v][x] /\ newLog'[v][x] = newLog[v][x]
  <2> SUFFICES ASSUME NEW v \in Writer \ {w}, NEW x \in Stream
               PROVE  newTip'[v][x] = newTip[v][x] /\ newLog'[v][x] = newLog[v][x]
    OBVIOUS
  <2>1. StreamStep(w, x)
    BY WriterStep
  <2> QED BY <2>1 DEF StreamStep, Quiet, Taken, Added, Installed, LetGo, Others
<1> QED BY <1>1, <1>2, <1>3, <1>4

\* The position a step leaves its writer in.
LEMMA PositionAfter ==
    ASSUME Typed, NEW w \in Writer
    PROVE  /\ \A x \in Stream : EnsureStream(w, x) =>
                  wr'[w].pc = "lock" /\ wr'[w].stream = x /\ wr[w].pc \in {"idle", "open"}
           /\ LockTip(w) => /\ wr[w].pc = "lock" /\ wr'[w].pc = "append"
                            /\ wr'[w].stream = wr[w].stream
           /\ \A body \in Body : AppendEvent(w, body) => wr[w].pc = "append" /\ wr'[w].pc = "open"
           /\ Commit(w) => wr[w].pc = "open" /\ wr'[w].pc = "idle"
           /\ Rollback(w) => wr'[w].pc = "idle"
           /\ \A x \in Stream : ExportEvents(w, x) => wr[w].pc = "idle" /\ wr'[w].pc = "anchor"
           /\ ExportAnchor(w) => wr[w].pc = "anchor" /\ wr'[w].pc = "open"
<1>1. wr \in [Writer -> [pc: {"idle", "open", "lock", "append", "anchor"},
                         stream: Stream \cup {NoStream}]]
  BY DEF Typed, TypeOK
<1>2. \A x \in Stream : EnsureStream(w, x) =>
          wr'[w].pc = "lock" /\ wr'[w].stream = x /\ wr[w].pc \in {"idle", "open"}
  BY <1>1 DEF EnsureStream
<1>3. LockTip(w) => wr[w].pc = "lock" /\ wr'[w].pc = "append" /\ wr'[w].stream = wr[w].stream
  BY <1>1 DEF LockTip
<1>4. \A body \in Body : AppendEvent(w, body) => wr[w].pc = "append" /\ wr'[w].pc = "open"
  BY <1>1 DEF AppendEvent
<1>5. Commit(w) => wr[w].pc = "open" /\ wr'[w].pc = "idle"
  BY <1>1 DEF Commit, Released
<1>6. Rollback(w) => wr'[w].pc = "idle"
  BY <1>1 DEF Rollback, Released
<1>7. \A x \in Stream : ExportEvents(w, x) => wr[w].pc = "idle" /\ wr'[w].pc = "anchor"
  BY <1>1 DEF ExportEvents
<1>8. ExportAnchor(w) => wr[w].pc = "anchor" /\ wr'[w].pc = "open"
  BY <1>1 DEF ExportAnchor
<1> QED BY <1>2, <1>3, <1>4, <1>5, <1>6, <1>7, <1>8

\* A step of a writer keeps this for every writer.
LEMMA PhaseKept ==
    ASSUME Typed, NEW w \in Writer, Writes(w), NEW v \in Writer, Phase(v)
    PROVE  Phase(v)'
<1> DEFINE b == bundle[w]
<1>1. CASE v # w
  <2>1. /\ wr'[v] = wr[v] /\ bundle'[v] = bundle[v] /\ damaged' = damaged
        /\ \A x \in Stream : newTip'[v][x] = newTip[v][x] /\ newLog'[v][x] = newLog[v][x]
    BY <1>1, OthersUntouched
  <2> QED BY <2>1 DEF Phase
<1>2. CASE v = w
  <2>1. Phase(w) /\ damaged' = damaged
    BY <1>2, OthersUntouched
  <2>2. \A x \in Stream : StreamStep(w, x)
    BY WriterStep
  <2>3. ASSUME NEW x \in Stream, EnsureStream(w, x) PROVE Phase(w)'
    <3>1. /\ wr'[w].pc = "lock" /\ wr'[w].stream = x /\ wr[w].pc \in {"idle", "open"}
          /\ bundle'[w] = IF wr[w].pc = "idle" THEN NoBundle ELSE b
          /\ newLog' = newLog
          /\ b.pc = "built" => x = b.stream /\ newLog[w][x] = NoRows
      BY <2>3, PositionAfter, BundleAfter DEF EnsureStream
    <3>2. CASE wr[w].pc = "idle"
      BY <3>1, <3>2 DEF Phase, NoBundle
    <3>3. CASE wr[w].pc = "open"
      BY <2>1, <3>1, <3>3 DEF Phase
    <3> QED BY <3>1, <3>2, <3>3
  <2>4. ASSUME LockTip(w) PROVE Phase(w)'
    <3>1. /\ wr[w].pc = "lock" /\ wr'[w].pc = "append" /\ wr'[w].stream = wr[w].stream
          /\ bundle'[w] = b /\ newLog' = newLog
      BY <2>4, PositionAfter, BundleAfter DEF LockTip
    <3> QED BY <2>1, <3>1 DEF Phase
  <2>5. ASSUME NEW body \in Body, AppendEvent(w, body) PROVE Phase(w)'
    <3>1. wr[w].pc = "append" /\ wr'[w].pc = "open" /\ bundle'[w] = b
      BY <2>5, PositionAfter, BundleAfter
    <3>2. ASSUME NEW x \in Stream, b.pc = "built", x # b.stream PROVE newLog'[w][x] = NoRows
      <4>1. newLog[w][x] = NoRows /\ x # wr[w].stream
        BY <2>1, <3>1, <3>2 DEF Phase
      <4>2. Quiet(x)
        BY <2>5, <4>1, AppendStep
      <4> QED BY <4>1, <4>2 DEF Quiet
    <3> QED BY <2>1, <3>1, <3>2 DEF Phase
  <2>6. ASSUME Commit(w) PROVE Phase(w)'
    <3>1. /\ wr[w].pc = "open" /\ wr'[w].pc = "idle"
          /\ bundle'[w] = [pc |-> IF b.pc = "built" THEN "sent" ELSE b.pc,
                           stream |-> b.stream, rows |-> b.rows,
                           verified |-> b.verified, suspect |-> b.suspect]
      BY <2>6, PositionAfter, BundleAfter
    <3>2. \A x \in Stream : newTip'[w][x] = NoTip /\ newLog'[w][x] = NoRows
      BY <2>6, CommitStep DEF Installed
    <3>3. /\ bundle'[w].pc = IF b.pc = "built" THEN "sent" ELSE b.pc
          /\ bundle'[w].stream = b.stream /\ bundle'[w].suspect = b.suspect
      BY <3>1
    <3> QED BY <2>1, <3>1, <3>2, <3>3 DEF Phase
  <2>7. ASSUME Rollback(w) PROVE Phase(w)'
    <3>1. wr'[w].pc = "idle" /\ bundle'[w] = NoBundle
      BY <2>7, PositionAfter, BundleAfter
    <3>2. \A x \in Stream : newTip'[w][x] = NoTip /\ newLog'[w][x] = NoRows
      BY <2>7, RollbackStep DEF LetGo
    <3> QED BY <3>1, <3>2 DEF Phase, NoBundle
  <2>8. ASSUME NEW x \in Stream, ExportEvents(w, x) PROVE Phase(w)'
    <3>1. /\ wr[w].pc = "idle" /\ wr'[w].pc = "anchor"
          /\ bundle'[w] = [pc |-> "events", stream |-> x, rows |-> log[x],
                           verified |-> FALSE, suspect |-> x \in damaged]
          /\ UNCHANGED <<newTip, newLog>>
      BY <2>8, PositionAfter, BundleAfter DEF ExportEvents
    <3> DEFINE mark == x \in damaged
    <3> HIDE DEF mark
    <3>2. bundle'[w].pc = "events" /\ bundle'[w].stream = x /\ bundle'[w].suspect = mark
      BY <3>1 DEF mark
    <3>3. bundle'[w].suspect => x \in damaged
      BY <3>2 DEF mark
    <3> QED BY <2>1, <3>1, <3>2, <3>3 DEF Phase
  <2>9. ASSUME ExportAnchor(w) PROVE Phase(w)'
    <3> DEFINE seen == ChainVerified(tip[b.stream], b.rows)
    <3>1. /\ wr[w].pc = "anchor" /\ wr'[w].pc = "open"
          /\ bundle'[w] = [pc |-> "built", stream |-> b.stream, rows |-> b.rows,
                           verified |-> seen, suspect |-> b.suspect]
          /\ UNCHANGED <<newTip, newLog>>
      BY <2>9, PositionAfter, BundleAfter DEF ExportAnchor
    <3> HIDE DEF seen
    <3>2. /\ bundle'[w].pc = "built" /\ bundle'[w].stream = b.stream
          /\ bundle'[w].suspect = b.suspect
      BY <3>1
    <3> QED BY <2>1, <3>1, <3>2 DEF Phase
  <2> QED BY <1>2, <2>3, <2>4, <2>5, <2>6, <2>7, <2>8, <2>9 DEF Writes
<1> QED BY <1>1, <1>2

-----------------------------------------------------------------------------
(* What an export has read of a stream nobody damaged. *)

\* rows are the first n events of s.
Prefix(rows, s, n) == tip[s] # NoTip /\ n <= tip[s].seq /\ rows = [k \in 1..n |-> log[s][k]]

\* The event of the export of w: written with the next seq, later committed.
Recorded(w, s, n) ==
    LET b == bundle[w]
    IN  /\ b.pc # "events" /\ ~b.verified => n < tip[s].seq
        /\ b.pc = "built" /\ newLog[w][s] # NoRows =>
               newLog[w][s][tip[s].seq + 1].body = Exported
        /\ b.pc = "sent" =>
               \E k \in DOMAIN log[s] : /\ k > n /\ log[s][k].body = Exported
                                        /\ b.verified \/ k > n + 1

\* A bundle of a stream nobody damaged holds its first n events, and is recorded.
Read(w) ==
    \A s \in Stream \ damaged :
        bundle[w].pc # "none" /\ bundle[w].stream = s =>
            \E n \in Nat \ {0} : Prefix(bundle[w].rows, s, n) /\ Recorded(w, s, n)

\* The rows of a stream nobody damaged are the events up to its tip.
LEMMA UndamagedRows ==
    ASSUME Typed, NEW s \in Stream \ damaged
    PROVE  /\ log[s] # NoRows => tip[s] # NoTip
           /\ tip[s] # NoTip => /\ tip[s].seq \in Nat \ {0} /\ DOMAIN log[s] = 1..tip[s].seq
                                /\ log[s] # NoRows /\ Verified(tip[s], log[s])
                                /\ log[s] = [k \in 1..tip[s].seq |-> log[s][k]]
<1>1. Committed(s)
  BY DEF Typed, ChainInv, Sound
<1>2. ASSUME tip[s] # NoTip
      PROVE  /\ tip[s].seq \in Nat \ {0} /\ DOMAIN log[s] = 1..tip[s].seq
             /\ log[s] # NoRows /\ Verified(tip[s], log[s])
             /\ log[s] = [k \in 1..tip[s].seq |-> log[s][k]]
  <2>1. tip[s].seq > 0 /\ Whole(tip[s], log[s])
    BY <1>1, <1>2 DEF Committed
  <2>2. log[s] # NoRows /\ Verified(tip[s], log[s])
    BY <2>1, ChainIsVerified
  <2>3. log[s] = [k \in 1..tip[s].seq |-> log[s][k]] /\ tip[s].seq \in Nat
    BY <2>1 DEF Whole, Chain
  <2>4. DOMAIN log[s] = 1..tip[s].seq
    BY <2>3
  <2> QED BY <2>1, <2>2, <2>3, <2>4
<1> QED BY <1>1, <1>2 DEF Committed

\* Its tip stays, or has a higher seq.
LEMMA TipGrows ==
    ASSUME Typed, Typed', NEW s \in Stream \ damaged, s \notin damaged', Grew(s)
    PROVE  /\ tip'[s] = tip[s] \/ tip'[s].seq > tip[s].seq
           /\ tip[s] # NoTip => tip'[s] # NoTip
<1>1. Committed(s) /\ Committed(s)'
  BY DEF Typed, ChainInv, Sound
<1>2. tip[s] # NoTip => tip'[s] # NoTip /\ Base(s) = tip[s] /\ (Base(s))' = tip'[s]
  BY DEF Grew, Base
<1>3. CASE tip[s] # NoTip
  BY <1>2, <1>3 DEF Grew
<1>4. CASE tip[s] = NoTip
  <2>1. tip'[s] # NoTip => tip'[s].seq > 0 /\ tip'[s].seq \in Nat
    BY <1>1 DEF Committed, Whole
  <2> QED BY <1>4, <2>1, NoRowsFacts
<1> QED BY <1>3, <1>4

\* The first n events stay the first n events.
LEMMA PrefixKept ==
    ASSUME Typed, Typed', NEW s \in Stream \ damaged, s \notin damaged', Grew(s),
           NEW n \in Nat \ {0}, NEW rows, Prefix(rows, s, n)
    PROVE  Prefix(rows, s, n)'
<1>1. /\ tip[s] # NoTip /\ n <= tip[s].seq /\ rows = [k \in 1..n |-> log[s][k]]
      /\ tip[s].seq \in Nat /\ DOMAIN log[s] = 1..tip[s].seq
  BY UndamagedRows DEF Prefix
<1>2. tip'[s] # NoTip /\ (tip'[s] = tip[s] \/ tip'[s].seq > tip[s].seq)
  BY <1>1, TipGrows
<1>3. tip'[s].seq \in Nat
  <2>1. tip'[s] \in Tip
    BY <1>2 DEF Typed, TypeOK
  <2> QED BY <2>1, NoRowsFacts
<1>4. n <= tip'[s].seq
  BY <1>1, <1>2, <1>3
<1>5. \A k \in 1..n : log'[s][k] = log[s][k]
  <2>1. \A k \in 1..n : k \in DOMAIN log[s]
    BY <1>1
  <2> QED BY <2>1 DEF Grew
<1>6. rows = [k \in 1..n |-> log'[s][k]]
  BY <1>1, <1>5
<1> QED BY <1>2, <1>4, <1>6 DEF Prefix

\* What was recorded stays recorded when the bundle and what its writer has written in
\* the stream stay, and nobody else moves the tip under it.
LEMMA RecordedKept ==
    ASSUME Typed, Typed', NEW s \in Stream \ damaged, s \notin damaged', Grew(s),
           NEW v \in Writer, NEW n \in Nat \ {0}, tip[s] # NoTip, n <= tip[s].seq,
           Recorded(v, s, n), bundle'[v] = bundle[v], newLog'[v][s] = newLog[v][s],
           newLog[v][s] # NoRows => tip'[s] = tip[s]
    PROVE  Recorded(v, s, n)'
<1>1. /\ tip[s].seq \in Nat /\ tip'[s].seq \in Nat
      /\ tip'[s] = tip[s] \/ tip'[s].seq > tip[s].seq
  <2>1. tip'[s] # NoTip /\ (tip'[s] = tip[s] \/ tip'[s].seq > tip[s].seq)
    BY TipGrows
  <2>2. tip[s] \in Tip /\ tip'[s] \in Tip
    BY <2>1 DEF Typed, TypeOK
  <2> QED BY <2>1, <2>2, NoRowsFacts
<1>2. \A k \in DOMAIN log[s] : k \in DOMAIN log'[s] /\ log'[s][k] = log[s][k]
  BY DEF Grew
<1>3. bundle[v].pc # "events" /\ ~bundle[v].verified => n < tip'[s].seq
  BY <1>1 DEF Recorded
<1>4. bundle[v].pc = "built" /\ newLog'[v][s] # NoRows =>
          newLog'[v][s][tip'[s].seq + 1].body = Exported
  BY DEF Recorded
<1>5. bundle[v].pc = "sent" =>
          \E k \in DOMAIN log'[s] : /\ k > n /\ log'[s][k].body = Exported
                                    /\ bundle[v].verified \/ k > n + 1
  BY <1>2 DEF Recorded
<1> QED BY <1>3, <1>4, <1>5 DEF Recorded

\* A step of a writer of s does not move the tip while another one has added rows.
LEMMA TipHeld ==
    ASSUME NEW w \in Writer, NEW v \in Writer, v # w, NEW s \in Stream, Linked(s),
           StreamStep(w, s), newLog[v][s] # NoRows
    PROVE  tip'[s] = tip[s]
<1>1. newTip[v][s] # NoTip
  BY DEF Linked, AddedRows
<1>2. newTip[w][s] = NoTip
  BY <1>1 DEF Linked, OneHolder
<1> QED BY <1>2 DEF StreamStep, Quiet, Taken, Added, Installed, LetGo, SeenTip

\* A step of the writer itself.
LEMMA ReadOwn ==
    ASSUME Typed, Typed', NEW w \in Writer, Writes(w), Phase(w), Read(w),
           \A s \in Stream \ damaged : Linked(s)
    PROVE  Read(w)'
<1> SUFFICES ASSUME NEW s \in Stream \ damaged,
                    bundle'[w].pc # "none", bundle'[w].stream = s
             PROVE  \E n \in Nat \ {0} : Prefix(bundle[w].rows, s, n)' /\ Recorded(w, s, n)'
  <2>1. damaged' = damaged
    BY OthersUntouched
  <2> QED BY <2>1 DEF Read
<1> DEFINE b == bundle[w]
<1>1. damaged' = damaged /\ StreamStep(w, s) /\ Linked(s) /\ StreamTyped(s)
  BY OthersUntouched, WriterStep, TypedStream
<1>2. Grew(s)
  BY <1>1, LinkedGrows
<1>3. ASSUME NEW x \in Stream, ExportEvents(w, x)
      PROVE  \E n \in Nat \ {0} : Prefix(bundle[w].rows, s, n)' /\ Recorded(w, s, n)'
  <2>1. /\ bundle'[w] = [pc |-> "events", stream |-> x, rows |-> log[x],
                         verified |-> FALSE, suspect |-> x \in damaged]
        /\ tip' = tip /\ log' = log /\ (log[x] # NoRows \/ x \in damaged)
    BY <1>3, BundleAfter DEF ExportEvents
  <2>2. bundle'[w].pc = "events" /\ bundle'[w].rows = log[s] /\ x = s
    BY <2>1
  <2> DEFINE n == tip[s].seq
  <2>3. tip[s] # NoTip /\ n \in Nat \ {0} /\ log[s] = [k \in 1..n |-> log[s][k]]
    BY <2>1, <2>2, UndamagedRows
  <2>4. n <= n
    BY <2>3
  <2> HIDE DEF n
  <2>5. Prefix(bundle[w].rows, s, n)'
    <3>1. tip'[s] # NoTip /\ n <= tip'[s].seq
      BY <2>1, <2>3, <2>4 DEF n
    <3>2. bundle'[w].rows = [k \in 1..n |-> log'[s][k]]
      BY <2>1, <2>2, <2>3
    <3>3. n' = n
      BY <2>1 DEF n
    <3> QED BY <3>1, <3>2, <3>3 DEF Prefix
  <2>6. Recorded(w, s, n)'
    BY <2>2 DEF Recorded
  <2>7. n' = n
    BY <2>1 DEF n
  <2> QED BY <2>3, <2>5, <2>6, <2>7
<1>4. ASSUME b.pc # "none", b.stream = s, bundle'[w].rows = b.rows,
             \A n \in Nat \ {0} : tip[s] # NoTip /\ n <= tip[s].seq /\ Recorded(w, s, n)
                                  /\ Prefix(b.rows, s, n) => Recorded(w, s, n)'
      PROVE  \E n \in Nat \ {0} : Prefix(bundle[w].rows, s, n)' /\ Recorded(w, s, n)'
  <2>1. PICK n \in Nat \ {0} : Prefix(b.rows, s, n) /\ Recorded(w, s, n)
    BY <1>4 DEF Read
  <2>2. tip[s] # NoTip /\ n <= tip[s].seq
    BY <2>1 DEF Prefix
  <2>3. Recorded(w, s, n)'
    BY <1>4, <2>1, <2>2
  <2>4. Prefix(bundle[w].rows, s, n)'
    <3>1. PICK rows : rows = b.rows
      OBVIOUS
    <3>2. Prefix(rows, s, n)'
      BY <1>1, <1>2, <2>1, <3>1, PrefixKept
    <3> QED BY <1>4, <3>1, <3>2 DEF Prefix
  <2> QED BY <2>3, <2>4
<1>5. ASSUME bundle'[w] = b, newLog'[w][s] = newLog[w][s], newLog[w][s] # NoRows => tip'[s] = tip[s]
      PROVE  \E n \in Nat \ {0} : Prefix(bundle[w].rows, s, n)' /\ Recorded(w, s, n)'
  BY <1>1, <1>2, <1>4, <1>5, RecordedKept
<1>6. ASSUME NEW x \in Stream, EnsureStream(w, x)
      PROVE  \E n \in Nat \ {0} : Prefix(bundle[w].rows, s, n)' /\ Recorded(w, s, n)'
  <2>1. bundle'[w] = (IF wr[w].pc = "idle" THEN NoBundle ELSE b) /\ newLog' = newLog /\ tip' = tip
    BY <1>6, BundleAfter DEF EnsureStream
  <2>2. bundle'[w] = b
    BY <2>1 DEF NoBundle
  <2> QED BY <1>5, <2>1, <2>2
<1>7. ASSUME LockTip(w)
      PROVE  \E n \in Nat \ {0} : Prefix(bundle[w].rows, s, n)' /\ Recorded(w, s, n)'
  BY <1>5, <1>7, BundleAfter DEF LockTip
<1>8. ASSUME NEW body \in Body, AppendEvent(w, body)
      PROVE  \E n \in Nat \ {0} : Prefix(bundle[w].rows, s, n)' /\ Recorded(w, s, n)'
  <2> DEFINE t == newTip[w][s]
  <2>1. /\ bundle'[w] = b /\ tip' = tip /\ log' = log /\ wr[w].pc = "append"
        /\ body = Exported <=> b.pc = "built"
    BY <1>8, BundleAfter DEF AppendEvent
  <2>2. CASE s # wr[w].stream
    <3>1. newLog'[w][s] = newLog[w][s]
      BY <1>8, <2>2, AppendStep DEF Quiet
    <3> QED BY <1>5, <2>1, <3>1
  <2>3. CASE s = wr[w].stream /\ b.pc # "built"
    <3>1. \A n \in Nat \ {0} : Recorded(w, s, n) => Recorded(w, s, n)'
      BY <2>1, <2>3 DEF Recorded
    <3> QED BY <1>4, <2>1, <3>1
  <2>4. CASE s = wr[w].stream /\ b.pc = "built"
    <3>1. newLog[w][s] = NoRows /\ b.stream = s
      BY <2>1, <2>4 DEF Phase
    <3>2. newLog'[w][s] = Extend(NoRows, RowAfter(t, body)) /\ t # NoTip /\ t \in Tip
      <4>1. t # NoTip
        BY <2>1, <2>4 DEF Typed, ChainInv, Shapes
      <4>2. t \in Tip
        BY <1>1, <4>1 DEF StreamTyped
      <4>3. newLog' = [newLog EXCEPT ![w][s] = Extend(@, RowAfter(t, body))]
        BY <1>8, <2>4 DEF AppendEvent, RowAfter
      <4>4. newLog = [u \in Writer |-> [y \in Stream |-> newLog[u][y]]]
        BY DEF Typed, ChainInv, Shapes
      <4> HIDE DEF t
      <4> QED BY <3>1, <4>1, <4>2, <4>3, <4>4
    <3>3. ASSUME tip[s] # NoTip PROVE t.seq = tip[s].seq
      <4>1. Base(s) = tip[s] /\ tip[s].seq \in Nat /\ t.seq \in Nat
        BY <1>1, <3>2, <3>3, NoRowsFacts DEF Base, StreamTyped
      <4>2. tip[s].seq <= t.seq /\ {} = (tip[s].seq + 1)..t.seq
        BY <1>1, <3>1, <3>2, <4>1, NoRowsFacts DEF Linked, AddedRows
      <4>3. CASE tip[s].seq < t.seq
        <5>1. tip[s].seq + 1 \in (tip[s].seq + 1)..t.seq
          BY <4>1, <4>3
        <5> QED BY <4>2, <5>1
      <4> QED BY <4>1, <4>2, <4>3
    <3>4. newLog'[w][s][t.seq + 1].body = Exported
      <4> DEFINE more == RowAfter(t, body)
      <4>1. DOMAIN more = {t.seq + 1} /\ more[t.seq + 1].body = body
        BY <3>2, NextEvent
      <4> HIDE DEF t, more
      <4>2. \A k \in DOMAIN more : Extend(NoRows, more)[k] = more[k]
        BY DEF Extend
      <4>3. t.seq + 1 \in DOMAIN more
        BY <4>1
      <4>4. newLog'[w][s] = Extend(NoRows, more)
        BY <3>2 DEF more
      <4> QED BY <2>1, <2>4, <4>1, <4>2, <4>3, <4>4
    <3>5. \A n \in Nat \ {0} : tip[s] # NoTip /\ Recorded(w, s, n) => Recorded(w, s, n)'
      BY <2>1, <2>4, <3>3, <3>4 DEF Recorded
    <3> QED BY <1>4, <2>1, <2>4, <3>1, <3>5
  <2> QED BY <2>2, <2>3, <2>4
<1>9. ASSUME Commit(w)
      PROVE  \E n \in Nat \ {0} : Prefix(bundle[w].rows, s, n)' /\ Recorded(w, s, n)'
  <2>1. /\ bundle'[w] = [pc |-> IF b.pc = "built" THEN "sent" ELSE b.pc,
                         stream |-> b.stream, rows |-> b.rows,
                         verified |-> b.verified, suspect |-> b.suspect]
        /\ wr[w].pc = "open"
    BY <1>9, BundleAfter, PositionAfter
  <2>2. /\ bundle'[w].pc = (IF b.pc = "built" THEN "sent" ELSE b.pc) /\ bundle'[w].stream = b.stream
        /\ bundle'[w].rows = b.rows /\ bundle'[w].verified = b.verified
    BY <2>1
  <2>3. b.pc = "built" /\ b.stream = s
    <3>1. b.pc \in {"none", "events", "built", "sent"}
      BY DEF Typed, TypeOK
    <3> QED BY <2>1, <2>2, <3>1 DEF Phase
  <2>4. Installed(w, s)
    BY <1>9, CommitStep
  <2>5. newLog[w][s] # NoRows /\ newTip[w][s] # NoTip
    <3>1. newLog[w][s] # NoRows
      BY <2>3, <2>4 DEF Installed, Phase
    <3> QED BY <1>1, <3>1 DEF Linked, AddedRows
  <2> DEFINE rows == newLog[w][s]
             t == newTip[w][s]
             k == tip[s].seq + 1
  <2>6. ASSUME NEW n \in Nat \ {0}, tip[s] # NoTip, n <= tip[s].seq, Recorded(w, s, n)
        PROVE  Recorded(w, s, n)'
    <3>1. Base(s) = tip[s] /\ tip[s].seq \in Nat /\ t.seq \in Nat
      BY <1>1, <2>5, <2>6, NoRowsFacts DEF Base, StreamTyped
    <3>2. DOMAIN rows = k..t.seq
      BY <1>1, <2>5, <3>1 DEF Linked, AddedRows
    <3>3. DOMAIN rows # {}
      BY <1>1, <2>5, NoRowsOnly DEF StreamTyped
    <3>4. k \in DOMAIN rows
      BY <3>1, <3>2, <3>3
    <3>5. log'[s] = Extend(log[s], rows)
      BY <2>4 DEF Installed
    <3> HIDE DEF rows, t
    <3>6. k \in DOMAIN Extend(log[s], rows) /\ Extend(log[s], rows)[k] = rows[k]
      BY <3>4 DEF Extend
    <3>7. k \in DOMAIN log'[s] /\ log'[s][k] = rows[k]
      BY <3>5, <3>6
    <3>8. rows[k].body = Exported
      BY <2>3, <2>5, <2>6 DEF Recorded, rows
    <3>9. k > n /\ (b.verified \/ k > n + 1) /\ (~b.verified => n < tip[s].seq)
      BY <2>3, <2>6, <3>1 DEF Recorded
    <3>10. bundle'[w].pc = "sent"
      BY <2>2, <2>3
    <3>11. ~b.verified => n < tip'[s].seq
      <4>1. tip'[s] = tip[s] \/ tip'[s].seq > tip[s].seq
        BY <1>1, <1>2, TipGrows
      <4>2. tip'[s].seq \in Nat
        <5>1. tip'[s] \in Tip
          BY <1>1, <1>2, <2>6, TipGrows DEF Typed, TypeOK
        <5> QED BY <5>1, NoRowsFacts
      <4> QED BY <3>1, <3>9, <4>1, <4>2
    <3> HIDE DEF k
    <3>12. \E j \in DOMAIN log'[s] : /\ j > n /\ log'[s][j].body = Exported
                                     /\ b.verified \/ j > n + 1
      BY <3>7, <3>8, <3>9
    <3> QED BY <2>2, <3>10, <3>11, <3>12 DEF Recorded
  <2> QED BY <1>4, <2>2, <2>3, <2>6
<1>10. ASSUME Rollback(w)
       PROVE  \E n \in Nat \ {0} : Prefix(bundle[w].rows, s, n)' /\ Recorded(w, s, n)'
  <2>1. bundle'[w] = NoBundle
    BY <1>10, BundleAfter
  <2>2. bundle'[w].pc = "none"
    BY <2>1 DEF NoBundle
  <2> QED BY <2>2
<1>11. ASSUME ExportAnchor(w)
       PROVE  \E n \in Nat \ {0} : Prefix(bundle[w].rows, s, n)' /\ Recorded(w, s, n)'
  <2> DEFINE seen == ChainVerified(tip[b.stream], b.rows)
  <2>1. /\ bundle'[w] = [pc |-> "built", stream |-> b.stream, rows |-> b.rows,
                         verified |-> seen, suspect |-> b.suspect]
        /\ wr[w].pc = "anchor" /\ UNCHANGED <<tip, log, newTip, newLog>>
    BY <1>11, BundleAfter, PositionAfter DEF ExportAnchor
  <2> HIDE DEF seen
  <2>2. /\ bundle'[w].pc = "built" /\ bundle'[w].stream = b.stream
        /\ bundle'[w].rows = b.rows /\ bundle'[w].verified = seen
    BY <2>1
  <2>3. b.pc = "events" /\ b.stream = s /\ newLog[w][s] = NoRows
    BY <2>1, <2>2 DEF Phase
  <2>4. ASSUME NEW n \in Nat \ {0}, n <= tip[s].seq, Prefix(b.rows, s, n), ~seen
        PROVE  n < tip[s].seq
    <3>1. /\ tip[s] # NoTip /\ b.rows = [k \in 1..n |-> log[s][k]] /\ tip[s].seq \in Nat \ {0}
          /\ DOMAIN log[s] = 1..tip[s].seq /\ log[s] # NoRows /\ Verified(tip[s], log[s])
          /\ log[s] = [k \in 1..tip[s].seq |-> log[s][k]]
      BY <2>4, UndamagedRows DEF Prefix
    <3>2. CASE n = tip[s].seq
      <4>1. b.rows = log[s]
        BY <3>1, <3>2
      <4>2. DOMAIN log[s] # {}
        BY <3>1
      <4>3. ChainVerified(tip[s], log[s])
        BY <3>1, <4>2 DEF ChainVerified, Verified
      <4> QED BY <2>3, <2>4, <4>1, <4>3 DEF seen
    <3> QED BY <2>4, <3>1, <3>2
  <2>5. ASSUME NEW n \in Nat \ {0}, n <= tip[s].seq, Prefix(b.rows, s, n)
        PROVE  Recorded(w, s, n)'
    BY <2>1, <2>2, <2>3, <2>4, <2>5 DEF Recorded
  <2> QED BY <1>4, <2>2, <2>3, <2>5
<1> QED BY <1>3, <1>6, <1>7, <1>8, <1>9, <1>10, <1>11 DEF Writes

\* A step of another writer.
LEMMA ReadOther ==
    ASSUME Typed, Typed', NEW w \in Writer, Writes(w), NEW v \in Writer \ {w}, Read(v),
           \A s \in Stream \ damaged : Linked(s)
    PROVE  Read(v)'
<1>1. /\ damaged' = damaged /\ bundle'[v] = bundle[v]
      /\ \A x \in Stream : newLog'[v][x] = newLog[v][x]
  BY OthersUntouched
<1> SUFFICES ASSUME NEW s \in Stream \ damaged, bundle[v].pc # "none", bundle[v].stream = s
             PROVE  \E n \in Nat \ {0} : Prefix(bundle[v].rows, s, n)' /\ Recorded(v, s, n)'
  BY <1>1 DEF Read
<1>2. StreamStep(w, s) /\ Linked(s) /\ StreamTyped(s)
  BY WriterStep, TypedStream
<1>3. Grew(s)
  BY <1>2, LinkedGrows
<1>4. PICK n \in Nat \ {0} : Prefix(bundle[v].rows, s, n) /\ Recorded(v, s, n)
  BY DEF Read
<1>5. tip[s] # NoTip /\ n <= tip[s].seq
  BY <1>4 DEF Prefix
<1>6. newLog[v][s] # NoRows => tip'[s] = tip[s]
  BY <1>2, TipHeld
<1>7. Recorded(v, s, n)'
  BY <1>1, <1>3, <1>4, <1>5, <1>6, RecordedKept
<1>8. Prefix(bundle[v].rows, s, n)'
  <2>1. PICK rows : rows = bundle[v].rows
    OBVIOUS
  <2>2. Prefix(rows, s, n)'
    BY <1>1, <1>3, <1>4, <2>1, PrefixKept
  <2> QED BY <1>1, <2>1, <2>2 DEF Prefix
<1> QED BY <1>7, <1>8

-----------------------------------------------------------------------------
(* What an export has read of a stream that was damaged before. *)

\* A bundle of a stream damaged before shows the damage until it is sent, unless it
\* shows no event at all.
Suspect(w) ==
    LET b == bundle[w]
        s == b.stream
    IN  b.pc # "none" /\ b.suspect =>
        /\ b.pc = "events" =>
               \/ DOMAIN b.rows = {}
               \/ Stuck(s) /\ b.rows = log[s]
               \/ /\ Linked(s) /\ tip[s] # NoTip /\ DOMAIN b.rows \subseteq 1..tip[s].seq
                  /\ \/ Broken(b.rows)
                     \/ \E j \in 1..tip[s].seq : j \notin DOMAIN b.rows
                     \/ Unanchored(tip[s], b.rows)
        /\ b.pc = "built" => ~b.verified \/ DOMAIN b.rows = {} \/ Stuck(s)
        /\ b.pc = "sent" => ~b.verified \/ DOMAIN b.rows = {}

\* While the bundle stays, what it shows stays.
LEMMA SuspectKept ==
    ASSUME Typed, NEW w \in Writer, NEW v \in Writer, bundle'[v] = bundle[v], Suspect(v),
           bundle[v].pc # "none" => bundle[v].stream \in Stream,
           \A s \in Stream : StreamStep(w, s)
    PROVE  Suspect(v)'
<1> DEFINE b == bundle[v]
<1> SUFFICES ASSUME b.pc # "none", b.suspect
             PROVE  Suspect(v)'
  BY DEF Suspect
<1>1. PICK s \in Stream : s = b.stream
  OBVIOUS
<1>2. StreamStep(w, s) /\ StreamTyped(s)
  BY TypedStream
<1>3. Stuck(s) => Stuck(s)' /\ log'[s] = log[s]
  BY <1>2, StuckKept
<1>4. CASE b.pc # "events"
  <2>1. Stuck(b.stream) => Stuck(b.stream)'
    BY <1>1, <1>3
  <2> QED BY <1>4, <2>1 DEF Suspect
<1>5. CASE b.pc = "events"
  <2>1. CASE DOMAIN b.rows = {}
    BY <1>5, <2>1 DEF Suspect
  <2>2. CASE Stuck(s) /\ b.rows = log[s]
    BY <1>1, <1>3, <1>5, <2>2 DEF Suspect
  <2>3. ASSUME Linked(s), tip[s] # NoTip, DOMAIN b.rows \subseteq 1..tip[s].seq,
               \/ Broken(b.rows)
               \/ \E j \in 1..tip[s].seq : j \notin DOMAIN b.rows
               \/ Unanchored(tip[s], b.rows)
        PROVE  Suspect(v)'
    <3>1. Linked(s)' /\ Grew(s) /\ StreamTyped(s)'
      BY <1>2, <2>3, LinkedKept, LinkedGrows, StreamTypedKept
    <3>2. /\ tip'[s] # NoTip /\ Base(s) = tip[s] /\ (Base(s))' = tip'[s]
          /\ tip'[s].seq >= tip[s].seq
          /\ tip'[s] = tip[s] \/ tip'[s].seq > tip[s].seq
      BY <2>3, <3>1 DEF Grew, Base
    <3>3. tip[s].seq \in Nat /\ tip'[s].seq \in Nat
      <4>1. tip[s] \in Tip /\ tip'[s] \in Tip
        BY <1>2, <2>3, <3>1, <3>2 DEF StreamTyped
      <4> QED BY <4>1, NoRowsFacts
    <3>4. \A j \in 1..tip[s].seq : j \in 1..tip'[s].seq
      BY <3>2, <3>3
    <3>5. DOMAIN b.rows \subseteq 1..tip'[s].seq
      BY <2>3, <3>4
    <3>6. \/ Broken(b.rows)
          \/ \E j \in 1..tip'[s].seq : j \notin DOMAIN b.rows
          \/ Unanchored(tip'[s], b.rows)
      <4>1. CASE Broken(b.rows)
        BY <4>1
      <4>2. CASE \E j \in 1..tip[s].seq : j \notin DOMAIN b.rows
        BY <3>4, <4>2
      <4>3. CASE Unanchored(tip[s], b.rows)
        <5>1. CASE tip'[s] = tip[s]
          BY <4>3, <5>1
        <5>2. CASE tip'[s].seq > tip[s].seq
          <6>1. tip[s].seq + 1 \in 1..tip'[s].seq /\ tip[s].seq + 1 \notin 1..tip[s].seq
            BY <3>3, <5>2
          <6>2. DOMAIN b.rows = 1..tip[s].seq
            BY <4>3 DEF Unanchored
          <6> QED BY <6>1, <6>2
        <5> QED BY <3>2, <5>1, <5>2
      <4> QED BY <2>3, <4>1, <4>2, <4>3
    <3> HIDE DEF b
    <3>7. bundle'[v] = b /\ b.pc = "events" /\ s = b.stream
      BY <1>1, <1>5 DEF b
    <3> QED BY <3>1, <3>2, <3>5, <3>6, <3>7 DEF Suspect
  <2> QED BY <1>1, <1>5, <2>1, <2>2, <2>3 DEF Suspect
<1> QED BY <1>4, <1>5

\* A step of the writer itself.
LEMMA SuspectOwn ==
    ASSUME Typed, NEW w \in Writer, Writes(w), Phase(w), Suspect(w),
           \A s \in damaged : Seen(tip[s], s)
    PROVE  Suspect(w)'
<1> DEFINE b == bundle[w]
<1>0. /\ \A s \in Stream : StreamStep(w, s)
      /\ b.pc # "none" => b.stream \in Stream
      /\ damaged \subseteq Stream
  BY WriterStep, AuditChainAssumption DEF Phase, Typed, TypeOK
<1>1. ASSUME bundle'[w] = b PROVE Suspect(w)'
  BY <1>0, <1>1, SuspectKept
<1>2. ASSUME bundle'[w] = NoBundle PROVE Suspect(w)'
  <2>1. bundle'[w].pc = "none"
    BY <1>2 DEF NoBundle
  <2> QED BY <2>1 DEF Suspect
<1>3. ASSUME NEW x \in Stream, ExportEvents(w, x) PROVE Suspect(w)'
  <2> DEFINE mark == x \in damaged
  <2> HIDE DEF mark
  <2>1. /\ bundle'[w] = [pc |-> "events", stream |-> x, rows |-> log[x],
                         verified |-> FALSE, suspect |-> mark]
        /\ UNCHANGED <<tip, log, newTip, newLog>>
    BY <1>3, BundleAfter DEF ExportEvents, mark
  <2>2. /\ bundle'[w].pc = "events" /\ bundle'[w].stream = x /\ bundle'[w].rows = log[x]
        /\ bundle'[w].suspect = mark
    BY <2>1
  <2>3. CASE ~mark
    BY <2>2, <2>3 DEF Suspect
  <2>4. CASE mark
    <3>1. Seen(tip[x], x)
      BY <2>4 DEF mark
    <3>2. (Stuck(x) => Stuck(x)') /\ (Linked(x) => Linked(x)')
      BY <2>1 DEF Stuck, Linked, OneHolder, AddedRows, Base
    <3>3. CASE Stuck(x)
      BY <2>1, <2>2, <3>2, <3>3 DEF Suspect
    <3>4. CASE ~Stuck(x)
      <4>1. /\ Linked(x) /\ tip[x] # NoTip
            /\ \/ Broken(log[x])
               \/ \E j \in 1..tip[x].seq : j \notin DOMAIN log[x]
               \/ Unanchored(tip[x], log[x])
        BY <3>1, <3>4 DEF Seen, Holed
      <4>2. DOMAIN log[x] \subseteq 1..tip[x].seq
        BY <4>1 DEF Linked, Base
      <4>3. Linked(x)' /\ tip'[x] = tip[x]
        BY <2>1, <3>2, <4>1
      <4> QED BY <2>2, <4>1, <4>2, <4>3 DEF Suspect
    <3> QED BY <3>3, <3>4
  <2> QED BY <2>3, <2>4
<1>4. ASSUME ExportAnchor(w) PROVE Suspect(w)'
  <2> DEFINE seen == ChainVerified(tip[b.stream], b.rows)
  <2> HIDE DEF seen
  <2>1. /\ bundle'[w] = [pc |-> "built", stream |-> b.stream, rows |-> b.rows,
                         verified |-> seen, suspect |-> b.suspect]
        /\ wr[w].pc = "anchor" /\ UNCHANGED <<tip, log, newTip, newLog>>
    BY <1>4, BundleAfter, PositionAfter DEF ExportAnchor, seen
  <2>2. /\ bundle'[w].pc = "built" /\ bundle'[w].stream = b.stream /\ bundle'[w].rows = b.rows
        /\ bundle'[w].suspect = b.suspect /\ bundle'[w].verified = seen
    BY <2>1
  <2>3. b.pc = "events"
    BY <2>1 DEF Phase
  <2>4. CASE ~b.suspect
    BY <2>2, <2>4 DEF Suspect
  <2>5. CASE b.suspect
    <3>1. PICK s \in Stream : s = b.stream
      BY <1>0, <2>3
    <3>2. ASSUME DOMAIN b.rows # {}, ~Stuck(s) PROVE ~seen
      <4>1. /\ Linked(s) /\ tip[s] # NoTip /\ DOMAIN b.rows \subseteq 1..tip[s].seq
            /\ \/ Broken(b.rows)
               \/ \E j \in 1..tip[s].seq : j \notin DOMAIN b.rows
               \/ Unanchored(tip[s], b.rows)
        BY <2>3, <2>5, <3>1, <3>2 DEF Suspect
      <4>2. tip[s] \in Tip /\ tip[s].seq \in Nat
        BY <4>1, NoRowsFacts, TypedStream DEF StreamTyped
      <4>3. BrokenSeqs(b.rows) # {} \/ ~Anchored(tip[s], b.rows)
        BY <4>1, <4>2, BrokenIsFound, HoleIsFound, UnanchoredIsFound
      <4> QED BY <3>1, <3>2, <4>1, <4>3 DEF seen, ChainVerified
    <3>3. Stuck(s) => Stuck(s)'
      BY <2>1 DEF Stuck
    <3> HIDE DEF b
    <3> QED BY <2>2, <3>1, <3>2, <3>3 DEF Suspect
  <2> QED BY <2>4, <2>5
<1>5. ASSUME Commit(w) PROVE Suspect(w)'
  <2>1. /\ bundle'[w] = [pc |-> IF b.pc = "built" THEN "sent" ELSE b.pc,
                         stream |-> b.stream, rows |-> b.rows,
                         verified |-> b.verified, suspect |-> b.suspect]
        /\ wr[w].pc = "open"
    BY <1>5, BundleAfter, PositionAfter
  <2>2. /\ bundle'[w].pc = (IF b.pc = "built" THEN "sent" ELSE b.pc)
        /\ bundle'[w].stream = b.stream /\ bundle'[w].rows = b.rows
        /\ bundle'[w].suspect = b.suspect /\ bundle'[w].verified = b.verified
    BY <2>1
  <2>3. b.pc # "events" /\ b.pc # "sent"
    BY <2>1 DEF Phase
  <2>4. CASE b.pc = "built" /\ b.suspect
    <3>1. PICK s \in Stream : s = b.stream
      BY <1>0, <2>4
    <3>2. \E x \in Stream : newLog[w][x] # NoRows
      BY <1>5 DEF Commit
    <3>3. newLog[w][s] # NoRows
      BY <2>4, <3>1, <3>2 DEF Phase
    <3>4. ~Stuck(s)
      BY <3>3 DEF Stuck
    <3>5. ~b.verified \/ DOMAIN b.rows = {}
      BY <2>4, <3>1, <3>4 DEF Suspect
    <3> HIDE DEF b
    <3> QED BY <2>2, <2>4, <3>5 DEF Suspect
  <2>5. CASE ~(b.pc = "built" /\ b.suspect)
    <3>1. b.pc \in {"none", "events", "built", "sent"}
      BY DEF Typed, TypeOK
    <3> HIDE DEF b
    <3> QED BY <2>2, <2>3, <2>5, <3>1 DEF Suspect
  <2> QED BY <2>4, <2>5
<1>6. ASSUME NEW x \in Stream, EnsureStream(w, x) PROVE Suspect(w)'
  BY <1>1, <1>2, <1>6, BundleAfter
<1>7. LockTip(w) => Suspect(w)'
  BY <1>1, BundleAfter
<1>8. \A body \in Body : AppendEvent(w, body) => Suspect(w)'
  BY <1>1, BundleAfter
<1>9. Rollback(w) => Suspect(w)'
  BY <1>2, BundleAfter
<1> QED BY <1>3, <1>4, <1>5, <1>6, <1>7, <1>8, <1>9 DEF Writes

-----------------------------------------------------------------------------
(* What audit:verify has read. *)

\* What the verification knows of s: tips it has read are not ahead, a stream it calls
\* broken that nobody damaged has moved on, and damage from before is found or still seen.
Checked(s) ==
    LET t == check.tips[s]
    IN  /\ check.pc = "idle" => s \notin check.suspects /\ s \notin check.broken
        /\ check.pc # "streams" => s \notin check.todo
        /\ s \in check.todo => t # NoTip
        /\ check.pc # "idle" /\ s \notin damaged =>
               /\ t = tip[s] \/ t.seq < tip[s].seq
               /\ s \in check.broken => t.seq < tip[s].seq
        /\ s \in check.suspects =>
               /\ s \in damaged
               /\ s \in check.todo => Seen(t, s)
               /\ s \notin check.todo =>
                      s \in check.broken \/ (check.pc = "streams" /\ t = NoTip /\ Stuck(s))

\* The invariant of the log, its exports and its verification.
AuditInv ==
    /\ Typed
    /\ \A s \in Stream \ damaged : Linked(s)
    /\ \A s \in damaged : Seen(tip[s], s)
    /\ \A w \in Writer : Phase(w) /\ Read(w) /\ Suspect(w)
    /\ \A s \in Stream : Checked(s)

\* A stream that a step leaves alone.
LEMMA QuietKept ==
    ASSUME NEW s \in Stream, Quiet(s)
    PROVE  /\ Linked(s) => Linked(s)'
           /\ Stuck(s) => Stuck(s)'
           /\ Seen(tip[s], s) => Seen(tip[s], s)'
           /\ \A t : Seen(t, s) => Seen(t, s)'
<1>1. Linked(s) => Linked(s)'
  BY DEF Quiet, Linked, OneHolder, AddedRows, Base
<1>2. Stuck(s) => Stuck(s)'
  BY DEF Quiet, Stuck
<1>3. tip'[s] = tip[s] /\ log'[s] = log[s]
  BY DEF Quiet
<1>4. \A t : Seen(t, s) => Seen(t, s)'
  BY <1>1, <1>2, <1>3 DEF Seen
<1>5. Seen(tip[s], s) => Seen(tip[s], s)'
  BY <1>1, <1>2, <1>3 DEF Seen
<1> QED BY <1>1, <1>2, <1>4, <1>5

\* The verification while a writer appends.
LEMMA CheckedGrows ==
    ASSUME Typed, Typed', NEW w \in Writer, Writes(w), NEW s \in Stream, Checked(s),
           s \notin damaged => Linked(s)
    PROVE  Checked(s)'
<1>1. check' = check /\ damaged' = damaged /\ StreamStep(w, s) /\ StreamTyped(s)
  BY OthersUntouched, WriterStep, TypedStream
<1> DEFINE t == check.tips[s]
<1>2. t \in Tip \cup {NoTip}
  BY DEF Typed, TypeOK
<1>3. ASSUME check.pc # "idle", s \notin damaged
      PROVE  /\ t = tip'[s] \/ t.seq < tip'[s].seq
             /\ s \in check.broken => t.seq < tip'[s].seq
  <2>1. Grew(s)
    BY <1>1, <1>3, LinkedGrows
  <2>2. tip'[s] = tip[s] \/ tip'[s].seq > tip[s].seq
    BY <1>1, <1>3, <2>1, TipGrows
  <2>3. \A x \in Tip \cup {NoTip} : x.seq \in Int
    BY NoRowsFacts
  <2>4. t.seq \in Int /\ tip[s].seq \in Int /\ tip'[s].seq \in Int
    <3>1. tip[s] \in Tip \cup {NoTip} /\ tip'[s] \in Tip \cup {NoTip}
      BY DEF Typed, TypeOK
    <3> QED BY <1>2, <2>3, <3>1
  <2>5. /\ t = tip[s] \/ t.seq < tip[s].seq
        /\ s \in check.broken => t.seq < tip[s].seq
    BY <1>3 DEF Checked
  <2> HIDE DEF t
  <2> QED BY <2>2, <2>4, <2>5
<1>4. ASSUME s \in check.suspects, s \in check.todo PROVE Seen(check.tips[s], s)'
  <2>1. PICK x \in Tip \cup {NoTip} : x = t
    BY <1>2
  <2>2. Seen(x, s)
    BY <1>4, <2>1 DEF Checked
  <2>3. Seen(x, s)'
    BY <1>1, <2>2, SeenKept
  <2>4. check'.tips[s] = x
    BY <1>1, <2>1
  <2> QED BY <2>3, <2>4
<1>5. Stuck(s) => Stuck(s)'
  BY <1>1, StuckKept
<1> QED BY <1>1, <1>3, <1>4, <1>5 DEF Checked

\* The verification while a stream is damaged.
LEMMA CheckedDamage ==
    ASSUME Typed, NEW d \in Stream, Damages(d), NEW s \in Stream, Checked(s)
    PROVE  Checked(s)'
<1>1. d \notin damaged /\ damaged' = damaged \cup {d} /\ check' = check
  BY DEF Damages, EditEvent, LoseEvents, ChangeTip, Damage
<1>2. CASE s = d
  BY <1>1, <1>2 DEF Checked
<1>3. CASE s # d
  <2>1. Quiet(s)
    BY <1>3, DamageStep
  <2>2. PICK x : x = check.tips[s]
    OBVIOUS
  <2>3. Seen(check.tips[s], s) => Seen(check.tips[s], s)'
    <3>1. Seen(x, s) => Seen(x, s)'
      BY <2>1, QuietKept
    <3>2. check'.tips[s] = x
      BY <1>1, <2>2
    <3> QED BY <2>2, <3>1, <3>2
  <2>4. (Stuck(s) => Stuck(s)') /\ tip'[s] = tip[s]
    BY <2>1, QuietKept DEF Quiet
  <2> QED BY <1>1, <1>3, <2>3, <2>4 DEF Checked
<1> QED BY <1>2, <1>3

\* The statements of the verification itself.
LEMMA CheckedVerifies ==
    ASSUME Typed, Verifies, NEW s \in Stream, Checked(s), s \in damaged => Seen(tip[s], s)
    PROVE  Checked(s)'
<1>0. UNCHANGED <<tip, log, wr, newTip, newLog, bundle, damaged>>
  BY DEF Verifies, VerifyTips, VerifyEvents, VerifyOrphans
<1>1. /\ check \in [pc: {"idle", "streams", "done"}, tips: [Stream -> Tip \cup {NoTip}],
                    todo: SUBSET Stream, broken: SUBSET Stream, suspects: SUBSET Stream]
      /\ tip[s] \in Tip \cup {NoTip}
  BY DEF Typed, TypeOK
<1>2. Stuck(s) => Stuck(s)' /\ log[s] # NoRows
  <2>1. Stuck(s) => Stuck(s)'
    BY <1>0 DEF Stuck
  <2>2. ASSUME Stuck(s) PROVE log[s] # NoRows
    <3>1. PICK m \in Nat \ {0} : DOMAIN log[s] = 1..m
      BY <2>2 DEF Stuck, Behind
    <3>2. 1 \in 1..m
      OBVIOUS
    <3> QED BY <3>1, <3>2, NoRowsFacts
  <2> QED BY <2>1, <2>2
<1>3. \A t : Seen(t, s) => Seen(t, s)'
  <2>1. Quiet(s)
    BY <1>0 DEF Quiet
  <2> QED BY <2>1, QuietKept
<1>4. CASE VerifyTips
  <2>1. /\ check'.pc = "streams" /\ check'.tips = tip /\ check'.broken = {}
        /\ check'.todo = {x \in Stream : tip[x] # NoTip} /\ check'.suspects = damaged
    BY <1>4 DEF VerifyTips
  <2>2. s \in damaged /\ tip[s] = NoTip => Stuck(s)
    BY DEF Seen
  <2>3. s \in damaged => Seen(check.tips[s], s)'
    <3>1. PICK x : x = tip[s]
      OBVIOUS
    <3>2. s \in damaged => Seen(x, s)'
      BY <1>3, <3>1
    <3>3. check'.tips[s] = x
      BY <2>1, <3>1
    <3> QED BY <3>2, <3>3
  <2> QED BY <1>0, <1>2, <2>1, <2>2, <2>3 DEF Checked
<1> DEFINE t == check.tips[s]
<1>5. ASSUME NEW x \in Stream, VerifyEvents(x) PROVE Checked(s)'
  <2>1. /\ check.pc = "streams" /\ x \in check.todo
        /\ check' = [check EXCEPT !.todo = @ \ {x},
                                  !.broken = IF Verified(check.tips[x], log[x]) THEN @
                                             ELSE @ \cup {x}]
    BY <1>5 DEF VerifyEvents
  <2>2. /\ check'.pc = "streams" /\ check'.tips = check.tips /\ check'.suspects = check.suspects
        /\ check'.todo = check.todo \ {x}
        /\ check'.broken = IF Verified(check.tips[x], log[x]) THEN check.broken
                           ELSE check.broken \cup {x}
    BY <1>1, <2>1
  <2>3. Seen(check.tips[s], s) => Seen(check.tips[s], s)'
    <3>1. PICK y : y = check.tips[s]
      OBVIOUS
    <3>2. Seen(y, s) => Seen(y, s)'
      BY <1>3
    <3>3. check'.tips[s] = y
      BY <2>2, <3>1
    <3> QED BY <3>1, <3>2, <3>3
  <2>4. CASE s # x
    BY <1>0, <1>2, <2>1, <2>2, <2>3, <2>4 DEF Checked
  <2>5. CASE s = x
    <3>1. t # NoTip /\ t \in Tip
      BY <1>1, <2>1, <2>5 DEF Checked
    <3>2. s \in check.suspects => s \in check'.broken
      <4>1. s \in check.suspects => Seen(t, s)
        BY <2>1, <2>5 DEF Checked
      <4>2. Seen(t, s) => ~Verified(t, log[s])
        <5>1. PICK y \in Tip : y = t
          BY <3>1
        <5>2. Seen(y, s) => ~Verified(y, log[s])
          BY SeenIsFound, TypedStream
        <5> QED BY <5>1, <5>2
      <4> QED BY <2>2, <2>5, <4>1, <4>2
    <3>3. ASSUME s \notin damaged, s \in check'.broken PROVE t.seq < tip[s].seq
      <4>1. CASE s \in check.broken
        BY <2>1, <3>3, <4>1 DEF Checked
      <4>2. CASE ~Verified(t, log[s])
        <5>1. t # tip[s]
          BY <3>1, <3>3, <4>2, UndamagedRows
        <5> QED BY <2>1, <3>3, <5>1 DEF Checked
      <4> QED BY <2>2, <2>5, <3>3, <4>1, <4>2
    <3> QED BY <1>0, <2>1, <2>2, <2>5, <3>1, <3>2, <3>3 DEF Checked
  <2> QED BY <2>4, <2>5
<1>6. CASE VerifyOrphans
  <2>1. /\ check.pc = "streams" /\ check.todo = {}
        /\ check' = [check EXCEPT !.pc = "done", !.broken = @ \cup Orphans(check.tips)]
    BY <1>6 DEF VerifyOrphans
  <2>2. /\ check'.pc = "done" /\ check'.tips = check.tips /\ check'.suspects = check.suspects
        /\ check'.todo = {} /\ check'.broken = check.broken \cup Orphans(check.tips)
    BY <1>1, <2>1
  <2>3. s \in check.suspects => s \in damaged /\ s \in check'.broken
    BY <1>2, <2>1, <2>2 DEF Checked, Orphans
  <2>4. ASSUME s \notin damaged, s \in check'.broken PROVE t.seq < tip[s].seq
    <3>1. CASE s \in check.broken
      BY <2>1, <2>4, <3>1 DEF Checked
    <3>2. CASE log[s] # NoRows /\ t = NoTip
      <4>1. tip[s].seq \in Nat
        BY <2>4, <3>2, UndamagedRows
      <4> QED BY <3>2, <4>1, NoRowsFacts
    <3> QED BY <2>2, <2>4, <3>1, <3>2 DEF Orphans
  <2> QED BY <1>0, <2>1, <2>2, <2>3, <2>4 DEF Checked
<1> QED BY <1>4, <1>5, <1>6 DEF Verifies

-----------------------------------------------------------------------------
(* The invariant is kept. *)

\* It holds at the start.
LEMMA InitAudit == Init => AuditInv
<1> SUFFICES ASSUME Init PROVE AuditInv
  OBVIOUS
<1>1. Typed
  BY InitTyped
<1>2. damaged = {} /\ \A s \in Stream : Linked(s)
  <2>1. ASSUME NEW s \in Stream PROVE Linked(s)
    <3>1. DOMAIN log[s] = {}
      BY NoRowsFacts DEF Init
    <3>2. \A w \in Writer : newTip[w][s] = NoTip /\ newLog[w][s] = NoRows
      BY DEF Init
    <3> QED BY <3>1, <3>2 DEF Linked, OneHolder, AddedRows
  <2> QED BY <2>1 DEF Init
<1>3. ASSUME NEW w \in Writer PROVE Phase(w) /\ Read(w) /\ Suspect(w)
  <2>1. bundle[w].pc = "none" /\ wr[w].pc = "idle"
    BY DEF Init, NoBundle
  <2>2. \A x \in Stream : newTip[w][x] = NoTip /\ newLog[w][x] = NoRows
    BY DEF Init
  <2> QED BY <2>1, <2>2 DEF Phase, Read, Suspect
<1>4. ASSUME NEW s \in Stream PROVE Checked(s)
  <2>1. check.pc = "idle" /\ check.todo = {} /\ check.broken = {} /\ check.suspects = {}
    BY DEF Init
  <2> QED BY <2>1 DEF Checked
<1> QED BY <1>1, <1>2, <1>3, <1>4 DEF AuditInv

\* Writers keep it.
LEMMA AuditWrites ==
    ASSUME AuditInv, Typed', NEW w \in Writer, Writes(w)
    PROVE  AuditInv'
<1>1. Typed /\ damaged' = damaged /\ damaged \subseteq Stream
  BY OthersUntouched, AuditChainAssumption DEF AuditInv, Typed, TypeOK
<1>2. ASSUME NEW s \in Stream \ damaged PROVE Linked(s)'
  BY <1>1, WriterStep, TypedStream, LinkedKept DEF AuditInv
<1>3. ASSUME NEW s \in damaged PROVE Seen(tip[s], s)'
  <2>1. s \in Stream /\ StreamStep(w, s) /\ StreamTyped(s) /\ Seen(tip[s], s)
    BY <1>1, WriterStep, TypedStream DEF AuditInv
  <2> QED BY <2>1, SeenNow
<1>4. ASSUME NEW v \in Writer PROVE Phase(v)' /\ Read(v)' /\ Suspect(v)'
  <2>1. Phase(v) /\ Read(v) /\ Suspect(v) /\ \A s \in Stream \ damaged : Linked(s)
    BY DEF AuditInv
  <2>2. Phase(v)'
    BY <1>1, <2>1, PhaseKept
  <2>3. CASE v = w
    <3>1. Phase(w) /\ Read(w) /\ Suspect(w)
      BY <2>1, <2>3
    <3>2. Read(w)'
      BY <1>1, <2>1, <3>1, ReadOwn
    <3>3. Suspect(w)'
      BY <1>1, <3>1, SuspectOwn DEF AuditInv
    <3> QED BY <2>2, <2>3, <3>2, <3>3
  <2>4. CASE v # w
    <3>1. Read(v)'
      BY <1>1, <2>1, <2>4, ReadOther
    <3>2. bundle'[v] = bundle[v] /\ \A s \in Stream : StreamStep(w, s)
      BY <1>1, <2>4, OthersUntouched, WriterStep
    <3>3. bundle[v].pc # "none" => bundle[v].stream \in Stream
      BY <2>1 DEF Phase
    <3>4. Suspect(v)'
      BY <1>1, <2>1, <3>2, <3>3, SuspectKept
    <3> QED BY <2>2, <3>1, <3>4
  <2> QED BY <2>3, <2>4
<1>5. ASSUME NEW s \in Stream PROVE Checked(s)'
  BY <1>1, CheckedGrows DEF AuditInv
<1> QED BY <1>1, <1>2, <1>3, <1>4, <1>5 DEF AuditInv

\* What a writer has read stays while a step leaves its stream alone.
LEMMA QuietReads ==
    ASSUME NEW v \in Writer, Phase(v), Read(v), Suspect(v),
           UNCHANGED <<wr, newTip, newLog, bundle>>, damaged \subseteq damaged',
           damaged \subseteq Stream,
           \A s \in Stream : s \in damaged \/ s \notin damaged' => Quiet(s)
    PROVE  Phase(v)' /\ Read(v)' /\ Suspect(v)'
<1> DEFINE b == bundle[v]
<1>1. bundle'[v] = b
  OBVIOUS
<1>2. Phase(v)'
  BY DEF Phase
<1>3. Read(v)'
  <2> SUFFICES ASSUME NEW s \in Stream \ damaged', b.pc # "none", b.stream = s
               PROVE  \E n \in Nat \ {0} : Prefix(bundle[v].rows, s, n)' /\ Recorded(v, s, n)'
    BY <1>1 DEF Read
  <2>1. tip'[s] = tip[s] /\ log'[s] = log[s] /\ s \notin damaged
    BY DEF Quiet
  <2>2. PICK n \in Nat \ {0} : Prefix(b.rows, s, n) /\ Recorded(v, s, n)
    BY <2>1 DEF Read
  <2>3. Prefix(bundle[v].rows, s, n)' /\ Recorded(v, s, n)'
    BY <1>1, <2>1, <2>2 DEF Prefix, Recorded
  <2> QED BY <2>3
<1>4. Suspect(v)'
  <2> SUFFICES ASSUME b.pc # "none", b.suspect PROVE Suspect(v)'
    BY <1>1 DEF Suspect
  <2>1. PICK s \in damaged : s = b.stream
    BY DEF Phase
  <2>2. Quiet(s) /\ s \in Stream
    BY <2>1
  <2>3. tip'[s] = tip[s] /\ log'[s] = log[s] /\ (Linked(s) => Linked(s)') /\ (Stuck(s) => Stuck(s)')
    BY <2>2, QuietKept DEF Quiet
  <2> QED BY <1>1, <2>1, <2>3 DEF Suspect
<1> QED BY <1>2, <1>3, <1>4

\* Damage keeps it: the stream it hits shows it.
LEMMA AuditDamages ==
    ASSUME AuditInv, Typed', NEW d \in Stream, Damages(d)
    PROVE  AuditInv'
<1>1. /\ d \notin damaged /\ damaged' = damaged \cup {d}
      /\ UNCHANGED <<wr, newTip, newLog, bundle, check>>
  BY DEF Damages, EditEvent, LoseEvents, ChangeTip, Damage
<1>2. Typed /\ damaged \subseteq Stream
  BY AuditChainAssumption DEF AuditInv, Typed, TypeOK
<1>3. \A s \in Stream : s # d => Quiet(s)
  BY <1>2, DamageStep
<1>4. \A s \in Stream \ damaged' : Linked(s)'
  BY <1>1, <1>3, QuietKept DEF AuditInv
<1>5. ASSUME NEW s \in damaged' PROVE Seen(tip[s], s)'
  <2>1. CASE s = d
    BY <1>1, <1>2, <2>1, DamageIsSeen DEF AuditInv
  <2>2. CASE s # d
    BY <1>1, <1>2, <1>3, <2>2, QuietKept DEF AuditInv
  <2> QED BY <2>1, <2>2
<1>6. \A v \in Writer : Phase(v)' /\ Read(v)' /\ Suspect(v)'
  <2>1. \A s \in Stream : s \in damaged \/ s \notin damaged' => Quiet(s)
    BY <1>1, <1>3
  <2> QED BY <1>1, <1>2, <2>1, QuietReads DEF AuditInv
<1>7. \A s \in Stream : Checked(s)'
  BY <1>2, CheckedDamage DEF AuditInv
<1> QED BY <1>4, <1>5, <1>6, <1>7 DEF AuditInv

\* Verification keeps it.
LEMMA AuditVerifies ==
    ASSUME AuditInv, Typed', Verifies
    PROVE  AuditInv'
<1>1. UNCHANGED <<tip, log, wr, newTip, newLog, bundle, damaged>>
  BY DEF Verifies, VerifyTips, VerifyEvents, VerifyOrphans
<1>2. Typed /\ damaged \subseteq Stream
  BY AuditChainAssumption DEF AuditInv, Typed, TypeOK
<1>3. \A s \in Stream : Quiet(s)
  BY <1>1 DEF Quiet
<1>4. \A s \in Stream \ damaged' : Linked(s)'
  BY <1>1, <1>3, QuietKept DEF AuditInv
<1>5. \A s \in damaged' : Seen(tip[s], s)'
  BY <1>1, <1>2, <1>3, QuietKept DEF AuditInv
<1>6. \A v \in Writer : Phase(v)' /\ Read(v)' /\ Suspect(v)'
  BY <1>1, <1>2, <1>3, QuietReads DEF AuditInv
<1>7. \A s \in Stream : Checked(s)'
  BY <1>2, CheckedVerifies DEF AuditInv
<1> QED BY <1>4, <1>5, <1>6, <1>7 DEF AuditInv

\* Every step keeps it.
LEMMA StepAudit == AuditInv /\ [Next]_vars => AuditInv'
<1> SUFFICES ASSUME AuditInv, [Next]_vars PROVE AuditInv'
  OBVIOUS
<1>1. Typed'
  BY TypedKept DEF AuditInv
<1>2. CASE UNCHANGED vars
  <2>1. UNCHANGED <<tip, log, wr, newTip, newLog, bundle, check, damaged>>
    BY <1>2 DEF vars
  <2>2. damaged \subseteq Stream
    BY AuditChainAssumption DEF AuditInv, Typed, TypeOK
  <2>3. \A s \in Stream : Quiet(s)
    BY <2>1 DEF Quiet
  <2>4. (\A s \in Stream \ damaged : Linked(s)') /\ \A s \in damaged : Seen(tip[s], s)'
    BY <2>2, <2>3, QuietKept DEF AuditInv
  <2>5. \A v \in Writer : Phase(v)' /\ Read(v)' /\ Suspect(v)'
    BY <2>1, <2>2, <2>3, QuietReads DEF AuditInv
  <2>6. ASSUME NEW s \in Stream PROVE Checked(s)'
    <3>1. Checked(s) /\ tip'[s] = tip[s] /\ (Stuck(s) => Stuck(s)')
      BY <2>3, QuietKept DEF AuditInv, Quiet
    <3>2. PICK x : x = check.tips[s]
      OBVIOUS
    <3>3. Seen(check.tips[s], s) => Seen(check.tips[s], s)'
      <4>1. Seen(x, s) => Seen(x, s)'
        BY <2>3, QuietKept
      <4>2. check'.tips[s] = x
        BY <2>1, <3>2
      <4> QED BY <3>2, <4>1, <4>2
    <3> QED BY <2>1, <3>1, <3>3 DEF Checked
  <2> QED BY <1>1, <2>1, <2>4, <2>5, <2>6 DEF AuditInv
<1> QED BY <1>1, <1>2, AuditWrites, AuditDamages, AuditVerifies DEF Next

\* Whatever is appended while rows are damaged, a stream damaged before a verification
\* or an export of it started is reported by it: no later append hides an event that was
\* edited or lost, or a tip that was moved.
THEOREM DamageIsReported == Spec => []DamageReported
<1>1. Init => AuditInv
  BY InitAudit
<1>2. AuditInv /\ [Next]_vars => AuditInv'
  BY StepAudit
<1>3. AuditInv => DamageReported
  <2> SUFFICES ASSUME AuditInv PROVE DamageReported
    OBVIOUS
  <2>1. ASSUME check.pc = "done" PROVE check.suspects \subseteq check.broken
    <3>1. check.suspects \subseteq Stream
      BY DEF AuditInv, Typed, TypeOK
    <3>2. \A s \in Stream : s \in check.suspects => s \in check.broken
      BY <2>1 DEF AuditInv, Checked
    <3> QED BY <3>1, <3>2
  <2>2. ASSUME NEW w \in Writer, bundle[w].pc = "sent", bundle[w].suspect,
               DOMAIN bundle[w].rows # {}
        PROVE  ~bundle[w].verified
    <3>1. Suspect(w)
      BY DEF AuditInv
    <3> QED BY <2>2, <3>1 DEF Suspect
  <2> QED BY <2>1, <2>2 DEF DamageReported
<1> QED BY <1>1, <1>2, <1>3, PTL DEF Spec

\* A stream nobody damaged is only ever reported because events were committed between
\* the statements that read it.
THEOREM AlarmsAreAppends == Spec => []FalseAlarmsAreAppends
<1>1. Init => AuditInv
  BY InitAudit
<1>2. AuditInv /\ [Next]_vars => AuditInv'
  BY StepAudit
<1>3. AuditInv => FalseAlarmsAreAppends
  <2> SUFFICES ASSUME AuditInv PROVE FalseAlarmsAreAppends
    OBVIOUS
  <2>1. ASSUME check.pc = "done", NEW s \in check.broken \ damaged
        PROVE  tip[s] # check.tips[s]
    <3>1. /\ s \in Stream /\ check.tips[s] \in Tip \cup {NoTip}
      BY DEF AuditInv, Typed, TypeOK
    <3>2. check.tips[s].seq < tip[s].seq /\ check.tips[s].seq \in Int
      BY <2>1, <3>1, NoRowsFacts DEF AuditInv, Checked
    <3>3. ~(check.tips[s].seq < check.tips[s].seq)
      BY <3>2
    <3> QED BY <3>2, <3>3
  <2>2. ASSUME NEW w \in Writer, bundle[w].pc = "sent", ~bundle[w].verified,
               bundle[w].stream \notin damaged
        PROVE  Cardinality(DOMAIN log[bundle[w].stream] \ DOMAIN bundle[w].rows) > 1
    <3>1. PICK s \in Stream \ damaged : s = bundle[w].stream
      BY <2>2 DEF AuditInv, Phase
    <3>2. PICK n \in Nat \ {0} : Prefix(bundle[w].rows, s, n) /\ Recorded(w, s, n)
      BY <2>2, <3>1 DEF AuditInv, Read
    <3>3. /\ tip[s] # NoTip /\ DOMAIN bundle[w].rows = 1..n
          /\ \E k \in DOMAIN log[s] : k > n + 1
      BY <2>2, <3>2 DEF Prefix, Recorded
    <3>4. DOMAIN log[s] = 1..tip[s].seq /\ tip[s].seq \in Nat
      BY <3>3, UndamagedRows DEF AuditInv
    <3> DEFINE m == tip[s].seq
    <3>5. m > n + 1 /\ m \in Nat
      BY <3>3, <3>4
    <3> HIDE DEF m
    <3>6. (1..m) \ (1..n) = (n + 1)..m
      BY <3>5
    <3>7. Cardinality((n + 1)..m) = m - (n + 1) + 1
      BY <3>5, FS_Interval
    <3> DEFINE missing == Cardinality((1..m) \ (1..n))
    <3>8. missing > 1
      <4>1. missing = m - (n + 1) + 1
        BY <3>6, <3>7
      <4> HIDE DEF missing
      <4> QED BY <3>5, <4>1
    <3> QED BY <3>1, <3>3, <3>4, <3>8 DEF m, missing
  <2> QED BY <2>1, <2>2 DEF FalseAlarmsAreAppends
<1> QED BY <1>1, <1>2, <1>3, PTL DEF Spec

\* No bundle leaves without its own event, later in the stream than all it shows.
THEOREM EveryExportIsAudited == Spec => []ExportsAreAudited
<1>1. Init => AuditInv
  BY InitAudit
<1>2. AuditInv /\ [Next]_vars => AuditInv'
  BY StepAudit
<1>3. AuditInv => ExportsAreAudited
  <2> SUFFICES ASSUME AuditInv, NEW w \in Writer, bundle[w].pc = "sent",
                      bundle[w].stream \notin damaged
               PROVE  \E k \in DOMAIN log[bundle[w].stream] :
                          /\ log[bundle[w].stream][k].body = Exported
                          /\ \A j \in DOMAIN bundle[w].rows : j < k
    BY DEF ExportsAreAudited
  <2>1. PICK s \in Stream \ damaged : s = bundle[w].stream
    BY DEF AuditInv, Phase
  <2>2. PICK n \in Nat \ {0} : Prefix(bundle[w].rows, s, n) /\ Recorded(w, s, n)
    BY <2>1 DEF AuditInv, Read
  <2>3. PICK k \in DOMAIN log[s] : k > n /\ log[s][k].body = Exported
    BY <2>2 DEF Recorded
  <2>4. DOMAIN bundle[w].rows = 1..n
    BY <2>2 DEF Prefix
  <2>5. k \in Nat
    BY TypedStream DEF AuditInv, StreamTyped, EventRows
  <2>6. \A j \in 1..n : j < k
    BY <2>3, <2>5
  <2> QED BY <2>1, <2>3, <2>4, <2>6
<1> QED BY <1>1, <1>2, <1>3, PTL DEF Spec

\* The rows, tips, locks, bundles and readings of the log always have their types.
THEOREM LogTyped == Spec => []TypeOK
<1>1. Init => AuditInv
  BY InitAudit
<1>2. AuditInv /\ [Next]_vars => AuditInv'
  BY StepAudit
<1>3. AuditInv => TypeOK
  BY DEF AuditInv, Typed
<1> QED BY <1>1, <1>2, <1>3, PTL DEF Spec
=============================================================================
