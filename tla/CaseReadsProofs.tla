--------------------------- MODULE CaseReadsProofs ---------------------------
(***************************************************************************)
(* The readers of the case tables, for any tables, filters, limits and     *)
(* ids, and with no bound on how often the tables change between two of    *)
(* their statements.                                                       *)
(*                                                                         *)
(* 1. The walk: the order of the list is total, a page is what comes up to *)
(* its last case, and what a cursor has passed it does not meet again      *)
(* unless a merge has put it at the end (WalkInv).                         *)
(* 2. The counts: what the first statement counted differs from the result *)
(* only by cases that have been touched since (CountInv).                  *)
(* 3. The page of a case: the streams explain the tables at every moment,  *)
(* and only grow, so they explain what a page has read of them (DetailInv).*)
(***************************************************************************)
EXTENDS CaseReads, DataTheorems, FiniteSetTheorems, TLAPS

-----------------------------------------------------------------------------
(* The order of the list. *)

Typed == row \in [Cases -> Row]

\* What a case is sorted by is a number.
LEMMA Keys ==
  ASSUME Typed, NEW sort \in Sorts, NEW c \in Cases
  PROVE  /\ Key(sort, c) \in Int /\ Id[c] \in Int /\ NoTime \in Int
         /\ sort = "oldest_alert" => Key(sort, c) \in Nat \cup {NoTime}
<1>1. row[c].risk \in 0..100 /\ row[c].oldest \in Times \cup {NoTime} /\ c \in Nat
  BY ReadersAssumption DEF Typed, Row
<1>. QED
  BY <1>1, ReadersAssumption DEF Key, Sorts, NoTime

\* Two cases come one before the other, whatever their keys.
LEMMA BeforeIsTotal ==
  ASSUME Typed, NEW sort \in Sorts, NEW c \in Cases, NEW d \in Cases
  PROVE  /\ c # d => Before(sort, c, d) \/ Before(sort, d, c)
         /\ ~(Before(sort, c, d) /\ Before(sort, d, c))
<1>1. c # d => Id[c] # Id[d]
  BY ReadersAssumption
<1>. QED
  BY <1>1, Keys DEF Before, NoTime

\* What comes before something comes before all that follows it.
LEMMA BeforeIsTransitive ==
  ASSUME Typed, NEW sort \in Sorts, NEW b \in Cases, NEW c \in Cases, NEW d \in Cases,
         Before(sort, b, c), Before(sort, c, d)
  PROVE  Before(sort, b, d)
BY Keys DEF Before, NoTime

\* A cursor of this order.
CursorOf(sort) ==
    /\ cursor.value \in Int /\ cursor.id \in Int
    /\ sort = "oldest_alert" => cursor.value \in Nat \cup {NoTime}

\* The keyset after a case's cursor is what comes after the case.
LEMMA KeysetIsAfter ==
  ASSUME Typed, NEW sort \in Sorts, NEW c \in Cases, NEW d \in Cases
  PROVE  Keyset(sort, CursorAt(sort, c), d) <=> Before(sort, c, d)
<1>1. CursorAt(sort, c).value = Key(sort, c) /\ CursorAt(sort, c).id = Id[c]
  BY DEF CursorAt
<1>. QED
  BY <1>1, Keys DEF Before, Keyset, NoTime

\* What comes after something in the keyset is in it.
LEMMA KeysetUp ==
  ASSUME Typed, NEW sort \in Sorts, CursorOf(sort), NEW c \in Cases, NEW d \in Cases,
         Keyset(sort, cursor, c), Before(sort, c, d)
  PROVE  Keyset(sort, cursor, d)
BY Keys DEF Before, Keyset, CursorOf, NoTime

-----------------------------------------------------------------------------
(* A page. *)

\* A nonempty result has a first case, and a last.
LEMMA EndsExist ==
  ASSUME Typed, NEW sort \in Sorts, NEW S \in SUBSET Cases, S # {}
  PROVE  /\ \E c \in S : \A d \in S \ {c} : Before(sort, c, d)
         /\ \E c \in S : \A d \in S \ {c} : Before(sort, d, c)
<1>. DEFINE Up == {e \in S \X S : e[1] = e[2] \/ Before(sort, e[1], e[2])}
            Down == {e \in S \X S : e[1] = e[2] \/ Before(sort, e[2], e[1])}
<1>1. /\ \A x, y \in S : <<x, y>> \in Up <=> x = y \/ Before(sort, x, y)
      /\ \A x, y \in S : <<x, y>> \in Down <=> x = y \/ Before(sort, y, x)
  OBVIOUS
<1>. HIDE DEF Up, Down
<1>2. /\ \A x, y \in S : <<x, y>> \in Up \/ <<y, x>> \in Up
      /\ \A x, y \in S : <<x, y>> \in Down \/ <<y, x>> \in Down
  BY <1>1, BeforeIsTotal
<1>3. /\ \A x, y, z \in S : <<x, y>> \in Up /\ <<y, z>> \in Up => <<x, z>> \in Up
      /\ \A x, y, z \in S : <<x, y>> \in Down /\ <<y, z>> \in Down => <<x, z>> \in Down
  BY <1>1, BeforeIsTransitive
<1>4. IsFiniteSet(S)
  BY ReadersAssumption, FS_Subset
<1>5. \E x \in S : \A y \in S : <<x, y>> \in Up
  BY <1>2, <1>3, <1>4, FirstExists
<1>6. \E x \in S : \A y \in S : <<x, y>> \in Down
  BY <1>2, <1>3, <1>4, FirstExists
<1>. QED
  BY <1>1, <1>5, <1>6

\* A page is what comes up to its last case.
LEMMA PageEnds ==
  ASSUME Typed, NEW sort \in Sorts, NEW n \in Nat \ {0}, NEW S \in SUBSET Cases,
         Page(sort, n, S) # S
  PROVE  /\ LastOf(sort, Page(sort, n, S)) \in S
         /\ \A c \in S : c \in Page(sort, n, S) <=> ~Before(sort, LastOf(sort, Page(sort, n, S)), c)
<1>. DEFINE Ahead(c) == {d \in S : Before(sort, d, c)}
            P == Page(sort, n, S)
            last == LastOf(sort, P)
<1>1. \A c \in S : IsFiniteSet(Ahead(c)) /\ Cardinality(Ahead(c)) \in Nat
  <2>1. IsFiniteSet(S)
    BY ReadersAssumption, FS_Subset
  <2>. QED
    BY <2>1, FS_Subset, FS_CardinalityType
<1>2. P = {c \in S : Cardinality(Ahead(c)) < n}
  BY DEF Page
<1>3. P # {}
  <2>1. PICK c \in S : \A d \in S \ {c} : Before(sort, c, d)
    <3>1. S # {}
      BY DEF Page
    <3>. QED
      BY <3>1, EndsExist
  <2>2. Ahead(c) = {}
    BY <2>1, BeforeIsTotal
  <2>3. Cardinality(Ahead(c)) = 0
    BY <2>2, FS_EmptySet
  <2>. HIDE DEF P
  <2>. QED
    BY <1>2, <2>3
<1>4. last \in P /\ \A c \in P \ {last} : Before(sort, c, last)
  <2>1. P \in SUBSET Cases
    BY <1>2
  <2>. HIDE DEF P
  <2>2. \E c \in P : \A d \in P \ {c} : Before(sort, d, c)
    BY <1>3, <2>1, EndsExist
  <2>. QED
    BY <2>2 DEF LastOf
<1>5. \A c, d \in S : d \in P /\ Before(sort, c, d) => c \in P
  <2>. SUFFICES ASSUME NEW c \in S, NEW d \in P, d \in S, Before(sort, c, d) PROVE c \in P
    OBVIOUS
  <2>1. Ahead(c) \subseteq Ahead(d)
    BY BeforeIsTransitive
  <2>. HIDE DEF Ahead, P
  <2>2. Cardinality(Ahead(c)) <= Cardinality(Ahead(d))
    BY <1>1, <2>1, FS_Subset
  <2>. QED
    BY <1>1, <1>2, <2>2
<1>6. P \subseteq S
  BY <1>2
<1>. HIDE DEF P, last
<1>7. \A c \in S : c \in P <=> ~Before(sort, last, c)
  BY <1>4, <1>5, <1>6, BeforeIsTotal
<1>. QED
  BY <1>4, <1>6, <1>7 DEF P, last

\* A page has room for a case, whatever limit is asked for.
LEMMA LimitIsPositive ==
  ASSUME NEW limit \in Limits
  PROVE  Limit(limit) \in Nat \ {0}
<1>1. limit \in Int /\ MaxLimit \in Int
  BY ReadersAssumption
<1>2. Min({limit, MaxLimit}) \in Int
  BY <1>1, OfTwo
<1>. DEFINE m == Min({limit, MaxLimit})
<1>. HIDE DEF m
<1>3. Max({1, m}) \in Int /\ Max({1, m}) >= 1
  BY <1>2, OfTwo DEF m
<1>. QED
  BY <1>3 DEF Limit, m

-----------------------------------------------------------------------------
(* What a change of the tables does to a case. *)

\* A case stays; once merged it keeps its row; its risk does not fall, and until it is
\* merged its oldest alert gets no younger.
Becomes(r, s) ==
    /\ r.status # "None" => s.status # "None" /\ s.risk >= r.risk
    /\ r.status = "Merged" => s = r
    /\ r.status # "None" /\ s.status # "Merged" /\ r.oldest # NoTime =>
           s.oldest # NoTime /\ s.oldest <= r.oldest

\* The numbers of a row.
LEMMA RowNumbers ==
  ASSUME NEW r \in Row
  PROVE  r.risk \in 0..100 /\ r.oldest \in Nat \cup {NoTime} /\ r.version \in Nat
BY ReadersAssumption DEF Row

\* A row that is not written stays what it is.
LEMMA BecomesItself ==
  ASSUME NEW r \in Row
  PROVE  Becomes(r, r)
BY RowNumbers DEF Becomes, NoTime

\* What the operations of CaseStore make of a row: a transition,
LEMMA BecomesTransitioned ==
  ASSUME NEW r \in Row, NEW d \in Dispositions \cup {NoDisposition}, r.status \in Status,
         NEW t \in ALLOWED[r.status]
  PROVE  Transitioned(r, t, d) \in Row /\ Becomes(r, Transitioned(r, t, d))
         /\ Transitioned(r, t, d).status = t
<1>. DEFINE e == IF t = "Closed" THEN d
                 ELSE IF r.status = "Closed" THEN NoDisposition ELSE r.disposition
            s == [r EXCEPT !.status = t, !.version = r.version + 1, !.disposition = e]
<1>1. Transitioned(r, t, d) = s
  BY DEF Transitioned
<1>2. e \in Dispositions \cup {NoDisposition} /\ r.version + 1 \in Nat
  BY DEF Row
<1>3. t \in Status /\ r.status # "Merged"
  BY DEF ALLOWED, Status
<1>. HIDE DEF e
<1>4. s \in Row
  BY <1>2, <1>3 DEF Row
<1>5. s.status = t /\ s.risk = r.risk /\ s.oldest = r.oldest
  BY DEF Row
<1>6. t # "None"
  BY <1>3 DEF Status
<1>. HIDE DEF s
<1>7. Becomes(r, s)
  BY <1>3, <1>5, <1>6, RowNumbers DEF Becomes, NoTime
<1>. QED
  BY <1>1, <1>4, <1>5, <1>7

\* an assignment,
LEMMA BecomesAssigned ==
  ASSUME NEW r \in Row, NEW u \in Users \cup {NoUser}, r.status # "Merged"
  PROVE  Assigned(r, u) \in Row /\ Becomes(r, Assigned(r, u))
         /\ Assigned(r, u).status = r.status
<1>. DEFINE s == [r EXCEPT !.assignee = u, !.version = r.version + 1]
<1>1. Assigned(r, u) = s
  BY DEF Assigned
<1>2. r.version + 1 \in Nat
  BY DEF Row
<1>3. s \in Row
  BY <1>2 DEF Row
<1>4. s.status = r.status /\ s.risk = r.risk /\ s.oldest = r.oldest
  BY DEF Row
<1>. HIDE DEF s
<1>5. Becomes(r, s)
  BY <1>4, RowNumbers DEF Becomes, NoTime
<1>. QED
  BY <1>1, <1>3, <1>4, <1>5

\* the creation of a case,
LEMMA BecomesCreated ==
  ASSUME NEW r \in Row, r.status = "None", NEW score \in 0..100, NEW time \in Times
  PROVE  Created(score, time) \in Row /\ Becomes(r, Created(score, time))
         /\ Created(score, time).status = "Open"
<1>1. Created(score, time) \in Row /\ Created(score, time).status = "Open"
  BY DEF Created, NoRow, Row, Status
<1>. QED
  BY <1>1 DEF Becomes

\* an attach, which lets no risk fall and no oldest alert get younger,
LEMMA BecomesAttached ==
  ASSUME NEW r \in Row, NEW v \in Nat, NEW score \in 0..100, NEW time \in Times \cup {NoTime},
         r.status # "Merged"
  PROVE  Attached(r, v, score, time) \in Row /\ Becomes(r, Attached(r, v, score, time))
         /\ Attached(r, v, score, time).status = r.status
<1>. DEFINE risk == IF score > r.risk THEN score ELSE r.risk
            oldest == Older(r.oldest, time)
            s == [r EXCEPT !.version = v, !.risk = risk, !.oldest = oldest]
<1>1. Attached(r, v, score, time) = s
  BY DEF Attached
<1>2. risk \in 0..100 /\ risk >= r.risk
  BY RowNumbers
<1>3. oldest \in Times \cup {NoTime}
  BY DEF Older, Row
<1>4. r.oldest # NoTime => oldest # NoTime /\ oldest <= r.oldest
  <2>1. time \in Nat \cup {NoTime}
    BY ReadersAssumption
  <2>. QED
    BY <2>1, RowNumbers DEF Older, NoTime
<1>. HIDE DEF risk, oldest
<1>5. s \in Row
  BY <1>2, <1>3, ZenonT(30) DEF Row
<1>6. s.status = r.status /\ s.risk = risk /\ s.oldest = oldest
  BY DEF Row
<1>. HIDE DEF s
<1>7. Becomes(r, s)
  BY <1>2, <1>4, <1>6, RowNumbers DEF Becomes, NoTime
<1>. QED
  BY <1>1, <1>5, <1>6, <1>7

\* and a merge makes the loser Merged.
LEMMA BecomesMerged ==
  ASSUME NEW r \in Row, r.status # "Merged"
  PROVE  MergedAway(r) \in Row /\ Becomes(r, MergedAway(r)) /\ MergedAway(r).status = "Merged"
<1>1. /\ MergedAway(r) \in Row /\ MergedAway(r).status = "Merged"
      /\ MergedAway(r).risk = r.risk
  BY DEF MergedAway, Row, Status
<1>. QED
  BY <1>1, RowNumbers DEF Becomes

\* One row written.
LEMMA OneWritten ==
  ASSUME Typed, NEW c \in Cases, NEW s \in Row, Becomes(row[c], s), row' = [row EXCEPT ![c] = s]
  PROVE  Typed' /\ \A d \in Cases : Becomes(row[d], row'[d])
BY BecomesItself DEF Typed

\* An aggregate of two cases that are there is one a case may have.
LEMMA ScoresAreRisks ==
  ASSUME Typed, NEW score \in Scores, NEW c \in Cases, NEW time \in Times
  PROVE  /\ score \in 0..100 /\ row[c].risk \in 0..100
         /\ (IF score > row[c].risk THEN score ELSE row[c].risk) \in 0..100
         /\ Older(row[c].oldest, time) \in Times \cup {NoTime}
         /\ row[c].version + 1 \in Nat /\ row[c] \in Row
<1>1. score \in 0..100 /\ row[c] \in Row
  BY ReadersAssumption DEF Typed
<1>. QED
  BY <1>1, RowNumbers DEF Older, Row

\* Rows only become what an operation makes of them.
LEMMA RowsBecome ==
  ASSUME Typed, Write
  PROVE  Typed' /\ \A d \in Cases : Becomes(row[d], row'[d])
<1>1. ASSUME NEW c \in Cases, NEW t \in Status, NEW d \in Dispositions \cup {NoDisposition},
             Transition(c, t, d)
      PROVE  Typed' /\ \A e \in Cases : Becomes(row[e], row'[e])
  <2>1. /\ row[c] \in Row /\ row[c].status \in Status /\ t \in ALLOWED[row[c].status]
        /\ row' = [row EXCEPT ![c] = Transitioned(row[c], t, d)]
    BY <1>1 DEF Transition, Exists, Typed, Row
  <2>. QED
    BY <2>1, BecomesTransitioned, OneWritten
<1>2. ASSUME NEW c \in Cases, NEW u \in Users \cup {NoUser}, Assign(c, u)
      PROVE  Typed' /\ \A e \in Cases : Becomes(row[e], row'[e])
  <2>1. /\ row[c] \in Row /\ row[c].status # "Merged"
        /\ row' = [row EXCEPT ![c] = Assigned(row[c], u)]
    BY <1>2 DEF Assign, Typed
  <2>. QED
    BY <2>1, BecomesAssigned, OneWritten
<1>3. ASSUME row' = row
      PROVE  Typed' /\ \A e \in Cases : Becomes(row[e], row'[e])
  BY <1>3, BecomesItself DEF Typed
<1>4. ASSUME NEW c \in Cases, NEW score \in Scores, NEW time \in Times, Create(c, score, time)
      PROVE  Typed' /\ \A e \in Cases : Becomes(row[e], row'[e])
  <2>1. /\ row[c].status = "None" /\ row[c] \in Row /\ score \in 0..100
        /\ row' = [row EXCEPT ![c] = Created(score, time)]
    BY <1>4, ReadersAssumption DEF Create, Exists, Typed
  <2>. QED
    BY <2>1, BecomesCreated, OneWritten
<1>5. ASSUME NEW c \in Cases, NEW score \in Scores, NEW time \in Times,
             Attach(c, row[c].version + 1, score, time), IsOpen(row[c])
      PROVE  Typed' /\ \A e \in Cases : Becomes(row[e], row'[e])
  <2>1. /\ row[c].status # "Merged"
        /\ row' = [row EXCEPT ![c] = Attached(row[c], row[c].version + 1, score, time)]
    BY <1>5 DEF Attach, IsOpen
  <2>. QED
    BY <2>1, BecomesAttached, ScoresAreRisks, OneWritten
<1>6. ASSUME NEW c \in Cases, NEW s \in Cases, NEW score \in Scores, NEW time \in Times,
             IsOpen(row[c]), IsOpen(row[s]),
             Merge(c, s, row[c].status, {n \in Notes : note[n].on = c}, row[s].version + 1,
                   score, time)
      PROVE  Typed' /\ \A e \in Cases : Becomes(row[e], row'[e])
  <2>. DEFINE lost == MergedAway(row[c])
              kept == Attached(row[s], row[s].version + 1,
                          IF score > row[c].risk THEN score ELSE row[c].risk,
                          Older(row[c].oldest, time))
  <2>1. /\ row[c].status # "Merged" /\ row[s].status # "Merged"
        /\ row' = [row EXCEPT ![c] = lost, ![s] = kept]
    BY <1>6 DEF Merge, IsOpen
  <2>2. c # s
    BY <1>6, ReadersAssumption DEF Merge
  <2>3. lost \in Row /\ Becomes(row[c], lost)
    BY <2>1, BecomesMerged DEF Typed
  <2>4. kept \in Row /\ Becomes(row[s], kept)
    BY <2>1, BecomesAttached, ScoresAreRisks
  <2>. HIDE DEF lost, kept
  <2>. QED
    BY <2>1, <2>2, <2>3, <2>4, BecomesItself DEF Typed
<1>7. CASE Analysts
  <2>1. ASSUME NEW c \in Cases, NEW n \in Notes, NEW u \in Users, AddNote(c, n, u)
        PROVE  row' = row
    BY <2>1 DEF AddNote
  <2>2. ASSUME NEW c \in Cases, NEW n \in Notes, Retract(n, c)
        PROVE  row' = row
    BY <2>2 DEF Retract
  <2>. QED
    BY <1>1, <1>2, <1>3, <1>7, <2>1, <2>2 DEF Analysts
<1>. QED
  BY <1>4, <1>5, <1>6, <1>7 DEF Write

-----------------------------------------------------------------------------
(* The walk over the pages. *)

\* At the end of the list, since its alerts have gone to another case.
Displaced(c) == query.sort = "oldest_alert" /\ row[c].status = "Merged"

\* What the pages so far have listed is behind the cursor, unless it was displaced, and
\* a case that has stayed and is not listed is ahead of it.
OnTheWay ==
    /\ cursor = NoCursor => \A c \in Cases : listed[c] = 0
    /\ cursor # NoCursor =>
         /\ CursorOf(query.sort)
         /\ \A c \in steady : /\ c \in Found(query.filter)
                              /\ listed[c] = IF Keyset(query.sort, cursor, c) THEN 0 ELSE 1
         /\ \A c \in Cases : listed[c] > 0 => \/ ~Keyset(query.sort, cursor, c)
                                              \/ Displaced(c)
    /\ \A c \in Cases : /\ listed[c] > 0 => Exists(c)
                        /\ listed[c] > 1 => Displaced(c)

WalkInv ==
    /\ Typed
    /\ query \in [filter: Filters, sort: Sorts, limit: Limits, case: Cases]
    /\ listed \in [Cases -> Nat]
    /\ steady \subseteq Cases
    /\ pc = "list" => OnTheWay
    /\ pc = "listed" => /\ \A c \in steady : listed[c] = 1
                        /\ \A c \in Cases : listed[c] > 1 => Displaced(c)

\* No page has been fetched.
LEMMA WalkInit == ReadersInit => WalkInv
<1>. SUFFICES ASSUME ReadersInit PROVE WalkInv
  OBVIOUS
<1>1. Typed
  BY ReadersAssumption DEF ReadersInit, Init, Typed
<1>2. /\ query \in [filter: Filters, sort: Sorts, limit: Limits, case: Cases]
      /\ listed = [c \in Cases |-> 0] /\ steady = {} /\ cursor = NoCursor /\ pc # "listed"
  BY DEF ReadersInit
<1>3. OnTheWay
  BY <1>2 DEF OnTheWay
<1>. QED
  BY <1>1, <1>2, <1>3 DEF WalkInv

\* A cursor is never the lack of one.
LEMMA CursorAtCase ==
  ASSUME Typed, NEW sort \in Sorts, NEW c \in Cases
  PROVE  /\ CursorAt(sort, c) # NoCursor
         /\ CursorAt(sort, c).value = Key(sort, c) /\ CursorAt(sort, c).id = Id[c]
<1>1. CursorAt(sort, c).kind # "none"
  BY DEF CursorAt
<1>. QED
  BY <1>1 DEF CursorAt, NoCursor

\* What is behind the cursor stays there, but for a displacement.
LEMMA PassedStays ==
  ASSUME Typed, NEW c \in Cases, row'[c] \in Row, Becomes(row[c], row'[c]), Exists(c),
         query.sort \in Sorts, CursorOf(query.sort), UNCHANGED <<query, cursor>>,
         ~Keyset(query.sort, cursor, c)
  PROVE  ~Keyset(query.sort, cursor, c)' \/ Displaced(c)'
<1>1. /\ row[c].risk \in 0..100 /\ row[c].oldest \in Nat \cup {NoTime}
      /\ row'[c].risk \in 0..100 /\ row'[c].oldest \in Nat \cup {NoTime}
      /\ c \in Nat /\ Id[c] \in Int
  BY RowNumbers, ReadersAssumption DEF Typed
<1>2. CASE query.sort = "oldest_alert"
  BY <1>1, <1>2 DEF Becomes, Exists, Keyset, Key, CursorOf, Displaced, NoTime
<1>3. CASE query.sort = "-risk_score"
  <2>1. /\ Keyset(query.sort, cursor, c)
             <=> \/ row[c].risk < cursor.value
                 \/ row[c].risk = cursor.value /\ Id[c] < cursor.id
        /\ Keyset(query.sort, cursor, c)'
             <=> \/ row'[c].risk < cursor.value
                 \/ row'[c].risk = cursor.value /\ Id[c] < cursor.id
    BY <1>3 DEF Keyset, Key
  <2>2. row'[c].risk >= row[c].risk
    BY DEF Becomes, Exists
  <2>. QED
    <3>1. cursor.value \in Int /\ cursor.id \in Int
      BY DEF CursorOf
    <3>. DEFINE r == row[c].risk
                s == row'[c].risk
                v == cursor.value
                i == cursor.id
    <3>2. r \in Int /\ s \in Int /\ s >= r /\ v \in Int /\ i \in Int /\ Id[c] \in Int
      BY <1>1, <2>2, <3>1
    <3>. HIDE DEF r, s, v, i
    <3>3. ~(r < v \/ (r = v /\ Id[c] < i)) => ~(s < v \/ (s = v /\ Id[c] < i))
      BY <3>2
    <3>. QED
      BY <2>1, <3>3 DEF r, s, v, i
<1>4. CASE query.sort = "-created_at"
  BY <1>1, <1>4 DEF Keyset, Key, CursorOf, NoTime
<1>. QED
  BY <1>2, <1>3, <1>4 DEF Sorts

\* What is displaced stays so.
LEMMA DisplacedStays ==
  ASSUME NEW c \in Cases, Becomes(row[c], row'[c]), UNCHANGED query, Displaced(c)
  PROVE  Displaced(c)'
BY DEF Becomes, Displaced

\* A change of the tables between two pages moves nothing past the cursor.
LEMMA WalkChange ==
  ASSUME WalkInv, Change
  PROVE  WalkInv'
<1>1. Write /\ UNCHANGED <<pc, query, cursor, listed>> /\ pc # "listed"
  BY DEF Change, reader, Running
<1>2. Typed' /\ \A d \in Cases : Becomes(row[d], row'[d])
  BY <1>1, RowsBecome DEF WalkInv
<1>3. steady' = {c \in steady : c \in Found(query.filter)' /\ Key(query.sort, c)' = Key(query.sort, c)}
  BY DEF Change
<1>4. ASSUME pc = "list"
      PROVE  OnTheWay'
  <2>1. OnTheWay /\ query.sort \in Sorts /\ listed \in [Cases -> Nat]
    BY <1>4 DEF WalkInv
  <2>2. ASSUME cursor # NoCursor, NEW c \in steady'
        PROVE  /\ (c \in Found(query.filter))'
               /\ listed'[c] = IF Keyset(query.sort, cursor, c)' THEN 0 ELSE 1
    <3>1. c \in steady /\ (c \in Found(query.filter))' /\ Key(query.sort, c)' = Key(query.sort, c)
      BY <1>1, <1>3, <2>2
    <3>2. Keyset(query.sort, cursor, c)' <=> Keyset(query.sort, cursor, c)
      BY <1>1, <3>1 DEF Keyset
    <3>. QED
      BY <1>1, <2>1, <2>2, <3>1, <3>2 DEF OnTheWay
  <2>3. ASSUME cursor # NoCursor, NEW c \in Cases, listed[c] > 0
        PROVE  ~Keyset(query.sort, cursor, c)' \/ Displaced(c)'
    <3>1. Exists(c) /\ CursorOf(query.sort) /\ (~Keyset(query.sort, cursor, c) \/ Displaced(c))
      BY <2>1, <2>3 DEF OnTheWay
    <3>2. row'[c] \in Row /\ Becomes(row[c], row'[c])
      BY <1>2 DEF Typed
    <3>. QED
      BY <1>1, <2>1, <3>1, <3>2, PassedStays, DisplacedStays DEF WalkInv
  <2>4. ASSUME NEW c \in Cases
        PROVE  /\ listed[c] > 0 => Exists(c)'
               /\ listed[c] > 1 => Displaced(c)'
    BY <1>1, <1>2, <2>1, DisplacedStays DEF OnTheWay, Becomes, Exists
  <2>5. cursor # NoCursor => CursorOf(query.sort)'
    BY <1>1, <2>1 DEF OnTheWay, CursorOf
  <2>. QED
    BY <1>1, <2>1, <2>2, <2>3, <2>4, <2>5 DEF OnTheWay
<1>. QED
  BY <1>1, <1>2, <1>3, <1>4 DEF WalkInv

\* A page lists what is ahead of the old cursor and not ahead of the new one.
LEMMA WalkPage ==
  ASSUME WalkInv, FetchPage
  PROVE  WalkInv'
<1>. DEFINE sort == query.sort
            n == Limit(query.limit)
            result == {c \in Found(query.filter) : cursor # NoCursor => Keyset(sort, cursor, c)}
            page == Page(sort, n, result)
            last == LastOf(sort, page)
<1>1. /\ UNCHANGED <<row, query>>
      /\ listed' = [c \in Cases |-> listed[c] + (IF c \in page THEN 1 ELSE 0)]
      /\ cursor' = IF page # result THEN CursorAt(sort, last) ELSE NoCursor
      /\ pc' = IF page # result THEN pc ELSE IF pc = "list" THEN "listed" ELSE "relisted"
      /\ steady' = IF cursor = NoCursor THEN Found(query.filter) ELSE steady
      /\ pc \in {"list", "resorted"}
  BY DEF FetchPage, store
<1>2. /\ Typed /\ sort \in Sorts /\ query.limit \in Limits /\ listed \in [Cases -> Nat]
      /\ steady \subseteq Cases /\ (pc = "list" => OnTheWay)
  BY DEF WalkInv
<1>3. n \in Nat \ {0}
  BY <1>2, LimitIsPositive
<1>4. Found(query.filter) \subseteq Cases /\ \A c \in Found(query.filter) : Exists(c)
  BY DEF Found
<1>5. result \in SUBSET Cases /\ page \subseteq result
  BY <1>4 DEF Page
<1>6. page # result => /\ last \in result
                       /\ \A c \in result : c \in page <=> ~Before(sort, last, c)
  BY <1>2, <1>3, <1>5, PageEnds
<1>7. \A c \in result : /\ c \in Found(query.filter)
                        /\ cursor # NoCursor => Keyset(sort, cursor, c)
  OBVIOUS
<1>8. \A c \in Found(query.filter) : (cursor # NoCursor => Keyset(sort, cursor, c)) => c \in result
  OBVIOUS
<1>. HIDE DEF result, page, last, n
<1>9. /\ listed' \in [Cases -> Nat] /\ steady' \subseteq Cases
      /\ \A c \in Cases : listed'[c] = listed[c] + (IF c \in page THEN 1 ELSE 0)
  BY <1>1, <1>2, <1>4
<1>10. ASSUME pc = "list", NEW c \in steady'
       PROVE  /\ c \in Found(query.filter) /\ c \in Cases
              /\ c \in result => listed'[c] = IF c \in page THEN 1 ELSE 0
              /\ c \notin result => listed'[c] = 1
  <2>1. OnTheWay
    BY <1>2, <1>10
  <2>2. CASE cursor = NoCursor
    BY <1>1, <1>4, <1>8, <1>9, <1>10, <2>1, <2>2 DEF OnTheWay
  <2>3. CASE cursor # NoCursor
    <3>1. c \in Found(query.filter) /\ listed[c] = IF Keyset(sort, cursor, c) THEN 0 ELSE 1
      BY <1>1, <1>10, <2>1, <2>3 DEF OnTheWay
    <3>2. c \in result <=> Keyset(sort, cursor, c)
      BY <1>7, <1>8, <2>3, <3>1
    <3>. QED
      BY <1>4, <1>5, <1>9, <3>1, <3>2
  <2>. QED
    BY <2>2, <2>3
<1>11. ASSUME pc = "list", NEW c \in Cases
       PROVE  /\ listed'[c] > 0 => Exists(c)
              /\ listed'[c] > 1 => Displaced(c)
  <2>1. OnTheWay
    BY <1>2, <1>11
  <2>2. CASE c \in page
    BY <1>2, <1>4, <1>5, <1>7, <1>9, <2>1, <2>2 DEF OnTheWay
  <2>3. CASE c \notin page
    BY <1>2, <1>9, <2>1, <2>3 DEF OnTheWay
  <2>. QED
    BY <2>2, <2>3
<1>12. ASSUME pc = "list", page # result
       PROVE  OnTheWay'
  <2>1. OnTheWay /\ last \in Cases /\ last \in result
    BY <1>2, <1>5, <1>6, <1>12
  <2>2. /\ cursor' = CursorAt(sort, last) /\ cursor' # NoCursor
        /\ cursor'.value = Key(sort, last) /\ cursor'.id = Id[last]
    BY <1>1, <1>2, <1>12, <2>1, CursorAtCase
  <2>3. \A c \in Cases : Keyset(sort, cursor', c) <=> Before(sort, last, c)
    BY <1>2, <2>1, <2>2, KeysetIsAfter
  <2>4. CursorOf(query.sort)'
    <3>1. /\ Key(sort, last) \in Int /\ Id[last] \in Int
          /\ sort = "oldest_alert" => Key(sort, last) \in Nat \cup {NoTime}
      BY <1>2, <2>1, Keys
    <3>. QED
      BY <1>1, <2>2, <3>1 DEF CursorOf
  <2>5. ASSUME NEW c \in Cases
        PROVE  Keyset(query.sort, cursor, c)' <=> Before(sort, last, c)
    BY <1>1, <2>3 DEF Keyset, Key
  <2>6. ASSUME NEW c \in steady'
        PROVE  /\ (c \in Found(query.filter))'
               /\ listed'[c] = IF Keyset(query.sort, cursor, c)' THEN 0 ELSE 1
    <3>1. /\ c \in Found(query.filter) /\ c \in Cases
          /\ c \in result => listed'[c] = IF c \in page THEN 1 ELSE 0
          /\ c \notin result => listed'[c] = 1
      BY <1>10, <1>12
    <3>2. (c \in Found(query.filter))'
      BY <1>1, <3>1 DEF Found, Exists, FetchPage, store
    <3>3. CASE c \in result
      BY <1>6, <1>12, <2>5, <3>1, <3>2, <3>3
    <3>4. CASE c \notin result
      <4>1. cursor # NoCursor /\ ~Keyset(sort, cursor, c)
        BY <1>8, <3>1, <3>4
      <4>2. CursorOf(sort) /\ Keyset(sort, cursor, last)
        BY <1>7, <2>1, <4>1 DEF OnTheWay
      <4>3. ~Before(sort, last, c)
        BY <1>2, <2>1, <3>1, <4>1, <4>2, KeysetUp
      <4>. QED
        BY <2>5, <3>1, <3>2, <3>4, <4>3
    <3>. QED
      BY <3>3, <3>4
  <2>7. ASSUME NEW c \in Cases, listed'[c] > 0
        PROVE  ~Keyset(query.sort, cursor, c)' \/ Displaced(c)
    <3>1. CASE c \in page
      BY <1>5, <1>6, <1>12, <2>5, <3>1
    <3>2. CASE c \notin page
      <4>1. listed[c] > 0 /\ cursor # NoCursor
        BY <1>2, <1>9, <2>1, <2>7, <3>2 DEF OnTheWay
      <4>2. /\ CursorOf(sort) /\ Keyset(sort, cursor, last)
            /\ ~Keyset(sort, cursor, c) \/ Displaced(c)
        BY <1>7, <2>1, <4>1 DEF OnTheWay
      <4>3. ~Keyset(sort, cursor, c) => ~Before(sort, last, c)
        BY <1>2, <2>1, <4>2, KeysetUp
      <4>. QED
        BY <2>5, <4>2, <4>3
    <3>. QED
      BY <3>1, <3>2
  <2>8. \A c \in Cases : (Displaced(c)' <=> Displaced(c)) /\ (Exists(c)' <=> Exists(c))
    BY <1>1 DEF Displaced, Exists
  <2>. QED
    BY <1>11, <1>12, <2>2, <2>4, <2>6, <2>7, <2>8 DEF OnTheWay
<1>13. ASSUME pc = "list", page = result
       PROVE  /\ \A c \in steady' : listed'[c] = 1
              /\ \A c \in Cases : listed'[c] > 1 => Displaced(c)'
  <2>1. \A c \in Cases : Displaced(c)' <=> Displaced(c)
    BY <1>1 DEF Displaced
  <2>. QED
    BY <1>10, <1>11, <1>13, <2>1
<1>14. Typed' /\ (query \in [filter: Filters, sort: Sorts, limit: Limits, case: Cases])'
  BY <1>1, <1>2 DEF Typed, WalkInv
<1>15. (pc' = "list" => pc = "list" /\ page # result) /\ (pc' = "listed" => pc = "list" /\ page = result)
  BY <1>1
<1>. QED
  BY <1>9, <1>12, <1>13, <1>14, <1>15 DEF WalkInv

\* The other statements leave the walk alone.
LEMMA WalkStep == WalkInv /\ [ReadersNext]_vars => WalkInv'
<1>. SUFFICES ASSUME WalkInv, [ReadersNext]_vars PROVE WalkInv'
  OBVIOUS
<1>1. ASSUME UNCHANGED <<row, query, cursor, listed, steady, note>>, pc' \notin {"list", "listed"} \/ pc' = pc
      PROVE  WalkInv'
  <2>1. \A c \in Cases : Displaced(c)' <=> Displaced(c)
    BY <1>1 DEF Displaced
  <2>2. \A c \in Cases : /\ Keyset(query.sort, cursor, c)' <=> Keyset(query.sort, cursor, c)
                         /\ (c \in Found(query.filter))' <=> c \in Found(query.filter)
                         /\ Exists(c)' <=> Exists(c)
    BY <1>1 DEF Found, Exists, Keyset, Key
  <2>3. CursorOf(query.sort)' <=> CursorOf(query.sort)
    BY <1>1 DEF CursorOf
  <2>4. OnTheWay => OnTheWay'
    BY <1>1, <2>1, <2>2, <2>3 DEF OnTheWay, WalkInv
  <2>. QED
    BY <1>1, <2>1, <2>4 DEF WalkInv, Typed
<1>2. CASE FetchPage
  BY <1>2, WalkPage
<1>3. CASE Change
  BY <1>3, WalkChange
<1>4. CASE InvalidCursor
  BY <1>1, <1>4 DEF InvalidCursor, store
<1>5. CASE CountAll
  BY <1>1, <1>5 DEF CountAll, store
<1>6. CASE CountByStatus
  BY <1>1, <1>6 DEF CountByStatus, store
<1>7. CASE ReadDetail
  <2>1. pc = "detail" /\ UNCHANGED <<row, query, cursor, listed, steady, note>>
    BY <1>7 DEF ReadDetail, store
  <2>2. pc' \in {"not_found", "shown", pc}
    BY <1>7 DEF ReadDetail
  <2>. QED
    BY <1>1, <2>1, <2>2
<1>8. ASSUME NEW sort \in Sorts, Resort(sort) PROVE WalkInv'
  <2>1. /\ pc' = "resorted" /\ query' = [query EXCEPT !.sort = sort] /\ steady' = {}
        /\ UNCHANGED <<row, listed>>
    BY <1>8 DEF Resort, store
  <2>. QED
    BY <2>1 DEF WalkInv, Typed
<1>9. CASE UNCHANGED vars
  BY <1>1, <1>9 DEF vars, store, reader
<1>. QED
  BY <1>2, <1>3, <1>4, <1>5, <1>6, <1>7, <1>8, <1>9 DEF ReadersNext, Read

\* The walk, as a whole.
LEMMA WalkInvariant == ReadersSpec => []WalkInv
BY WalkInit, WalkStep, PTL DEF ReadersSpec

\* paginate, over all its pages: a case that has been in the result since the first page
\* and has kept its place is listed exactly once, whatever ties, NULLs and limits.
THEOREM WalkListsOnce == ReadersSpec => []SteadyListedOnce
<1>1. WalkInv => SteadyListedOnce
  BY DEF WalkInv, SteadyListedOnce
<1>. QED
  BY <1>1, WalkInvariant, PTL

\* A case is listed twice only by age, and when a merge has sent it to the end.
THEOREM WalkListsTwice == ReadersSpec => []TwiceOnlyWhenMerged
<1>1. WalkInv => TwiceOnlyWhenMerged
  BY DEF WalkInv, OnTheWay, Displaced, TwiceOnlyWhenMerged
<1>. QED
  BY <1>1, WalkInvariant, PTL

-----------------------------------------------------------------------------
(* The counts. *)

\* What the first statement counted differs from the result by what has been touched.
CountedFrom(F) ==
    /\ answer.total = Cardinality(F)
    /\ \A c \in Cases : (c \in F) # (c \in Found(query.filter)) => c \in touched

\* An answer has its parts.
Shaped ==
    answer = [read |-> answer.read, case |-> answer.case, alerts |-> answer.alerts,
              notes |-> answer.notes, timeline |-> answer.timeline, total |-> answer.total,
              unassigned |-> answer.unassigned, high_risk |-> answer.high_risk,
              by_status |-> answer.by_status]

CountInv ==
    /\ Typed
    /\ Shaped
    /\ touched \subseteq Cases
    /\ pc = "by_status" => \E F \in SUBSET Cases : CountedFrom(F)
    /\ CountsAgree

\* The strip adds up: every case that is there has one of five statuses.
LEMMA StatusesPartition ==
  ASSUME Typed, NEW F \in SUBSET Cases, \A c \in F : Exists(c),
         NEW n, n = [s \in Status |-> Cardinality({c \in F : row[c].status = s})]
  PROVE  SumOf(n) = Cardinality(F)
<1>. DEFINE Of(s) == {c \in F : row[c].status = s}
            N(s) == Cardinality(Of(s))
<1>1. IsFiniteSet(F) /\ \A s : IsFiniteSet(Of(s)) /\ N(s) \in Nat
  <2>1. IsFiniteSet(F)
    BY ReadersAssumption, FS_Subset
  <2>. QED
    BY <2>1, FS_Subset, FS_CardinalityType
<1>2. \A s \in Status : n[s] = N(s)
  OBVIOUS
<1>3. F = Of("Open") \cup (Of("In Progress") \cup (Of("Pending Info")
                \cup (Of("Closed") \cup Of("Merged"))))
  BY DEF Typed, Row, Status, Exists
<1>4. \A s, t : s # t => Of(s) \cap Of(t) = {}
  OBVIOUS
<1>. HIDE DEF Of
<1>. DEFINE A == Of("Closed") \cup Of("Merged")
            B == Of("Pending Info") \cup A
            C == Of("In Progress") \cup B
<1>5. IsFiniteSet(A) /\ Cardinality(A) = N("Closed") + N("Merged")
  <2>1. Of("Closed") \cap Of("Merged") = {}
    BY <1>4
  <2>. QED
    BY <1>1, <2>1, DisjointCounts
<1>6. IsFiniteSet(B) /\ Cardinality(B) = N("Pending Info") + Cardinality(A)
  <2>1. Of("Pending Info") \cap A = {}
    BY <1>4
  <2>. HIDE DEF A
  <2>. QED
    BY <1>1, <1>5, <2>1, DisjointCounts
<1>7. IsFiniteSet(C) /\ Cardinality(C) = N("In Progress") + Cardinality(B)
  <2>1. Of("In Progress") \cap B = {}
    BY <1>4
  <2>. HIDE DEF B
  <2>. QED
    BY <1>1, <1>6, <2>1, DisjointCounts
<1>8. Cardinality(F) = N("Open") + Cardinality(C)
  <2>1. Of("Open") \cap C = {} /\ F = Of("Open") \cup C
    BY <1>3, <1>4
  <2>. HIDE DEF C
  <2>. QED
    BY <1>1, <1>7, <2>1, DisjointCounts
<1>9. SumOf(n) = N("Open") + N("In Progress") + N("Pending Info") + N("Closed") + N("Merged")
  BY <1>2 DEF SumOf, Status
<1>10. /\ N("Open") \in Nat /\ N("In Progress") \in Nat /\ N("Pending Info") \in Nat
       /\ N("Closed") \in Nat /\ N("Merged") \in Nat
  BY <1>1
<1>. HIDE DEF N, A, B, C
<1>11. Cardinality(F) = N("Open") + (N("In Progress") + (N("Pending Info")
                             + (N("Closed") + N("Merged"))))
  BY <1>5, <1>6, <1>7, <1>8
<1>. DEFINE o == N("Open")
            i == N("In Progress")
            p == N("Pending Info")
            x == N("Closed")
            m == N("Merged")
<1>12. o \in Nat /\ i \in Nat /\ p \in Nat /\ x \in Nat /\ m \in Nat
  BY <1>10
<1>. HIDE DEF o, i, p, x, m
<1>13. o + i + p + x + m = o + (i + (p + (x + m)))
  BY <1>12
<1>. QED
  BY <1>9, <1>11, <1>13 DEF o, i, p, x, m

\* Nothing has been counted.
LEMMA CountInit == ReadersInit => CountInv
<1>. SUFFICES ASSUME ReadersInit PROVE CountInv
  OBVIOUS
<1>1. Typed
  BY ReadersAssumption DEF ReadersInit, Init, Typed
<1>2. answer = NoAnswer /\ touched = {} /\ pc \notin {"by_status", "counted"}
  BY DEF ReadersInit
<1>. QED
  BY <1>1, <1>2 DEF CountInv, Shaped, NoAnswer, CountsAgree

\* The second statement counts by status what is in the result then.
LEMMA CountSum ==
  ASSUME CountInv, CountByStatus
  PROVE  CountsAgree'
<1>. DEFINE G == Found(query.filter)
            n == [s \in Status |-> Cardinality({c \in G : row[c].status = s})]
<1>1. PICK F \in SUBSET Cases : CountedFrom(F)
  BY DEF CountByStatus, CountInv
<1>2. /\ answer' = [answer EXCEPT !.by_status = n]
      /\ UNCHANGED touched
  BY DEF CountByStatus, Counted
<1>. HIDE DEF n
<1>3. answer'.by_status = n /\ answer'.total = answer.total
  BY <1>2 DEF CountInv, Shaped
<1>4. G \in SUBSET Cases /\ \A c \in G : Exists(c)
  BY DEF Found
<1>. HIDE DEF G
<1>5. SumOf(n) = Cardinality(G)
  BY <1>4, StatusesPartition DEF CountInv, n, Shaped
<1>6. /\ IsFiniteSet(F) /\ IsFiniteSet(G) /\ IsFiniteSet(touched)
      /\ F \subseteq G \cup touched /\ G \subseteq F \cup touched
  <2>1. IsFiniteSet(F) /\ IsFiniteSet(G) /\ IsFiniteSet(touched)
    BY <1>4, ReadersAssumption, FS_Subset DEF CountInv, Shaped
  <2>. QED
    BY <1>1, <1>4, <2>1 DEF CountedFrom, G
<1>7. /\ Cardinality(F) - Cardinality(G) <= Cardinality(touched)
      /\ Cardinality(G) - Cardinality(F) <= Cardinality(touched)
  BY <1>6, CloseCounts
<1>. QED
  BY <1>1, <1>2, <1>3, <1>5, <1>7 DEF CountsAgree, CountedFrom

\* What changes in between is touched.
LEMMA CountStep == CountInv /\ [ReadersNext]_vars => CountInv'
<1>. SUFFICES ASSUME CountInv, [ReadersNext]_vars PROVE CountInv'
  OBVIOUS
<1>1. ASSUME UNCHANGED <<row, answer, touched, note>>, pc' \notin {"by_status", "counted"}
      PROVE  CountInv'
  BY <1>1 DEF CountInv, Shaped, Typed, CountsAgree
<1>2. CASE FetchPage
  <2>1. UNCHANGED <<row, answer, touched, note>> /\ pc \in {"list", "resorted"}
    BY <1>2 DEF FetchPage, store
  <2>2. pc' \in {pc, "listed", "relisted"}
    BY <1>2 DEF FetchPage
  <2>. QED
    BY <1>1, <2>1, <2>2
<1>3. CASE Change
  <2>1. Write /\ UNCHANGED <<pc, query, answer>> /\ pc # "counted"
    BY <1>3 DEF Change, reader, Running
  <2>2. Typed'
    BY <2>1, RowsBecome DEF CountInv, Shaped
  <2>3. /\ touched' = touched \cup {c \in Cases :
                       (c \in Found(query.filter)) # (c \in Found(query.filter)')}
    BY <1>3 DEF Change
  <2>4. ASSUME NEW F \in SUBSET Cases, CountedFrom(F)
        PROVE  CountedFrom(F)'
    <3>1. \A c \in Cases : (c \in F) # (c \in Found(query.filter)') => c \in touched'
      BY <2>3, <2>4 DEF CountedFrom
    <3>. QED
      BY <2>1, <2>4, <3>1 DEF CountedFrom
  <2>5. touched' \subseteq Cases
    BY <2>3 DEF CountInv, Shaped
  <2>. QED
    BY <2>1, <2>2, <2>4, <2>5 DEF CountInv, Shaped, CountsAgree
<1>4. CASE InvalidCursor
  BY <1>1, <1>4 DEF InvalidCursor, store
<1>5. CASE CountAll
  <2>. DEFINE F == Found(query.filter)
  <2>1. /\ pc' = "by_status" /\ touched' = {} /\ UNCHANGED <<row, note, query>>
        /\ answer' = [answer EXCEPT
              !.total = Cardinality(F),
              !.unassigned = Cardinality({c \in F : row[c].assignee = NoUser}),
              !.high_risk = Cardinality({c \in F : row[c].risk >= HighRisk})]
    BY <1>5 DEF CountAll, store
  <2>2. F \in SUBSET Cases /\ (Found(query.filter)' = F)
    BY <2>1 DEF Found, Exists
  <2>. HIDE DEF F
  <2>3. /\ answer'.total = Cardinality(F)
        /\ Shaped'
    BY <2>1 DEF CountInv, Shaped
  <2>4. ASSUME NEW G \in SUBSET Cases, G = F
        PROVE  CountedFrom(G)'
    <3>1. \A c \in Cases : c \in Found(query.filter)' <=> c \in G
      BY <2>2, <2>4
    <3>2. answer'.total = Cardinality(G)
      BY <2>3, <2>4
    <3>. QED
      BY <3>1, <3>2 DEF CountedFrom
  <2>. QED
    BY <2>1, <2>2, <2>3, <2>4 DEF CountInv, Typed, CountsAgree
<1>6. CASE CountByStatus
  <2>1. CountsAgree'
    BY <1>6, CountSum
  <2>2. /\ UNCHANGED <<row, touched>> /\ pc' = "counted"
        /\ answer' = [answer EXCEPT !.by_status = [s \in Status |->
              Cardinality({c \in Counted(query.filter) : row[c].status = s})]]
    BY <1>6 DEF CountByStatus, store
  <2>. DEFINE n == [s \in Status |->
              Cardinality({c \in Counted(query.filter) : row[c].status = s})]
  <2>. HIDE DEF n
  <2>3. Shaped'
    BY <2>2 DEF CountInv, n, Shaped
  <2>. QED
    BY <2>1, <2>2, <2>3 DEF CountInv, Typed
<1>7. CASE ReadDetail
  <2>1. pc = "detail" /\ UNCHANGED <<row, touched>> /\ pc' \in {"not_found", "shown", "detail"}
    BY <1>7 DEF ReadDetail, store
  <2>. DEFINE part == Reads[answer.read + 1]
              page == OnPage(query.case, part)
  <2>2. answer' = [answer EXCEPT !.read = @ + 1, ![part] = page]
    BY <1>7 DEF ReadDetail
  <2>. HIDE DEF part, page
  <2>3. Shaped'
    BY <2>2 DEF CountInv, Shaped
  <2>. QED
    BY <2>1, <2>3 DEF CountInv, Typed, CountsAgree
<1>8. ASSUME NEW sort \in Sorts, Resort(sort) PROVE CountInv'
  BY <1>1, <1>8 DEF Resort, store
<1>9. CASE UNCHANGED vars
  <2>1. UNCHANGED <<row, note, answer, touched, query, pc>>
    BY <1>9 DEF vars, store, reader
  <2>2. \A F : CountedFrom(F)' <=> CountedFrom(F)
    BY <2>1 DEF CountedFrom, Found, Exists
  <2>. QED
    BY <2>1, <2>2 DEF CountInv, Shaped, Typed, CountsAgree
<1>. QED
  BY <1>2, <1>3, <1>4, <1>5, <1>6, <1>7, <1>8, <1>9 DEF ReadersNext, Read

\* case_stats: the counts by status add up to the total, but for the cases that entered or
\* left the result between its two statements.
THEOREM StripAgreesWithCards == ReadersSpec => []CountsAgree
<1>1. CountInv => CountsAgree
  BY DEF CountInv, Shaped
<1>2. ReadersSpec => []CountInv
  BY CountInit, CountStep, PTL DEF ReadersSpec
<1>. QED
  BY <1>1, <1>2, PTL

-----------------------------------------------------------------------------
(* The page of a case. *)

NoteRow == [on: Cases \cup {NoCase}, author: Users \cup {NoUser}, retracted: BOOLEAN]

\* Every case has its stream.
Logs == trail = [c \in Cases |-> trail[c]] /\ \A c \in Cases : IsLog(trail[c])

\* The status s of c is the one it began with or one its stream tells of.
Explained(c, s) ==
    \/ s = IF opening[c].status = "None" THEN "Open" ELSE opening[c].status
    \/ \E e \in EventsOf(c) : /\ e.action \in {"case.transitioned", "case.merged"}
                              /\ e.after[1] = s

Somewhere(e) == \E c \in Cases : e \in EventsOf(c)

\* A note, or a retraction, of the tables or of a page has its event in some stream.
NoteTold(n, value) ==
    /\ value # Unwritten => Somewhere(NoteEvent(n))
    /\ value.retracted = TRUE => Somewhere(RetractEvent(n))

\* The streams explain the tables,
TablesExplained ==
    /\ Typed /\ Logs
    /\ note \in [Notes -> NoteRow]
    /\ \A c \in Cases : IF Exists(c) THEN Explained(c, row[c].status)
                        ELSE opening[c].status = "None"
    /\ \A n \in Notes : NoteTold(n, note[n])

\* and what a page has shown of them.
DetailInv ==
    /\ TablesExplained
    /\ query \in [filter: Filters, sort: Sorts, limit: Limits, case: Cases]
    /\ Shaped
    /\ pc = "detail" =>
         /\ answer.read \in 0..3
         /\ answer.read > 0 => Explained(query.case, answer.case.status)
         /\ \A shown \in answer.notes : /\ shown[2] # Unwritten
                                        /\ NoteTold(shown[1], shown[2])
    /\ DetailIsExplained

-----------------------------------------------------------------------------
\* Streams only get longer, so what they tell they go on telling.
Grown == \A c \in Cases : EventsOf(c) \subseteq EventsOf(c)'

\* An append adds its event to those of the stream.
LEMMA EventTold ==
  ASSUME NEW c \in Cases, IsLog(trail[c]), NEW e, trail'[c] = Append(trail[c], e)
  PROVE  EventsOf(c)' = EventsOf(c) \cup {e}
<1>. DEFINE s == trail[c]
            t == trail'[c]
<1>1. IsLog(s) /\ t = Append(s, e)
  OBVIOUS
<1>2. EventsOf(c) = {s[i] : i \in DOMAIN s} /\ EventsOf(c)' = {t[i] : i \in DOMAIN t}
  BY DEF EventsOf
<1>. HIDE DEF s, t
<1>3. /\ Len(s) \in Nat /\ DOMAIN t = 1..(Len(s) + 1) /\ DOMAIN s = 1..Len(s)
      /\ \A i \in 1..Len(s) : t[i] = s[i]
      /\ t[Len(s) + 1] = e
  BY <1>1, Appended
<1>4. \A i \in DOMAIN t : i \in DOMAIN s \/ i = Len(s) + 1
  BY <1>3
<1>5. DOMAIN s \subseteq DOMAIN t /\ Len(s) + 1 \in DOMAIN t
  BY <1>3
<1>6. \A i \in DOMAIN s : t[i] = s[i]
  BY <1>3
<1>7. {t[i] : i \in DOMAIN t} = {s[i] : i \in DOMAIN s} \cup {e}
  BY <1>3, <1>4, <1>5, <1>6
<1>. QED
  BY <1>2, <1>7

\* What is written is told.
LEMMA Logged ==
  ASSUME Logs, NEW c \in Cases, NEW e, Log(c, e)
  PROVE  Logs' /\ Grown /\ e \in EventsOf(c)'
<1>1. /\ trail' = [trail EXCEPT ![c] = Append(trail[c], e)]
      /\ \A d \in Cases : IsLog(trail[d])
      /\ trail = [d \in Cases |-> trail[d]]
  BY DEF Log, Logs
<1>2. IsLog(Append(trail[c], e))
  BY <1>1, Appended
<1>3. trail'[c] = Append(trail[c], e) /\ \A d \in Cases \ {c} : trail'[d] = trail[d]
  BY <1>1
<1>4. EventsOf(c)' = EventsOf(c) \cup {e}
  BY <1>1, <1>3, EventTold
<1>5. \A d \in Cases \ {c} : EventsOf(d)' = EventsOf(d)
  BY <1>3 DEF EventsOf
<1>6. Logs'
  BY <1>1, <1>2, <1>3 DEF Logs
<1>. QED
  BY <1>4, <1>5, <1>6 DEF Grown

\* So does a merge, which writes into two streams.
LEMMA LoggedTwice ==
  ASSUME Logs, NEW c \in Cases, NEW d \in Cases, c # d, NEW e, NEW f,
         trail' = [trail EXCEPT ![c] = Append(@, e), ![d] = Append(@, f)]
  PROVE  Logs' /\ Grown /\ e \in EventsOf(c)' /\ f \in EventsOf(d)'
<1>1. /\ \A b \in Cases : IsLog(trail[b])
      /\ trail = [b \in Cases |-> trail[b]]
  BY DEF Logs
<1>2. IsLog(Append(trail[c], e)) /\ IsLog(Append(trail[d], f))
  BY <1>1, Appended
<1>3. /\ trail'[c] = Append(trail[c], e) /\ trail'[d] = Append(trail[d], f)
      /\ \A b \in Cases \ {c, d} : trail'[b] = trail[b]
      /\ trail' = [b \in Cases |-> trail'[b]]
  BY <1>1
<1>4. EventsOf(c)' = EventsOf(c) \cup {e} /\ EventsOf(d)' = EventsOf(d) \cup {f}
  BY <1>1, <1>3, EventTold
<1>5. \A b \in Cases \ {c, d} : EventsOf(b)' = EventsOf(b)
  BY <1>3 DEF EventsOf
<1>6. Logs'
  BY <1>1, <1>2, <1>3 DEF Logs
<1>. QED
  BY <1>4, <1>5, <1>6 DEF Grown

\* What is explained, or told, stays so.
LEMMA StaysTold ==
  ASSUME Grown, UNCHANGED opening
  PROVE  /\ \A c \in Cases : \A s : Explained(c, s) => Explained(c, s)'
         /\ \A e : Somewhere(e) => Somewhere(e)'
         /\ \A n, v : NoteTold(n, v) => NoteTold(n, v)'
<1>1. ASSUME NEW c \in Cases, NEW s, Explained(c, s)
      PROVE  Explained(c, s)'
  BY <1>1 DEF Explained, Grown
<1>2. ASSUME NEW e, Somewhere(e)
      PROVE  Somewhere(e)'
  BY <1>2 DEF Somewhere, Grown
<1>3. ASSUME NEW n, NEW v, NoteTold(n, v)
      PROVE  NoteTold(n, v)'
  BY <1>2, <1>3 DEF NoteTold, NoteEvent, RetractEvent, Event
<1>. QED
  BY <1>1, <1>2, <1>3

\* Notes, as they are written and changed.
LEMMA NoteRows ==
  /\ Unwritten \in NoteRow /\ Unwritten.retracted = FALSE
  /\ \A v \in NoteRow : v.on \in Cases => v # Unwritten
  /\ \A c \in Cases, u \in Users :
        LET v == [on |-> c, author |-> u, retracted |-> FALSE]
        IN  v \in NoteRow /\ v.retracted = FALSE
  /\ \A v \in NoteRow : LET w == [v EXCEPT !.retracted = TRUE] IN w \in NoteRow
  /\ \A v \in NoteRow, c \in Cases :
        LET w == [v EXCEPT !.on = c] IN w \in NoteRow /\ w.retracted = v.retracted
<1>1. NoCase \notin Cases
  BY ReadersAssumption
<1>2. Unwritten \in NoteRow /\ Unwritten.retracted = FALSE /\ Unwritten.on = NoCase
  BY DEF Unwritten, NoteRow
<1>3. \A v \in NoteRow : v.on \in Cases => v # Unwritten
  BY <1>1, <1>2
<1>. QED
  BY <1>2, <1>3 DEF NoteRow

\* A case whose status stays, or is told now, is explained.
LEMMA StatusTold ==
  ASSUME TablesExplained, Grown, UNCHANGED opening, NEW c \in Cases,
         \/ row'[c].status = row[c].status
         \/ ~Exists(c) /\ row'[c].status = "Open"
         \/ /\ Exists(c)'
            /\ \E e \in EventsOf(c)' : /\ e.action \in {"case.transitioned", "case.merged"}
                                       /\ e.after[1] = row'[c].status
  PROVE  IF Exists(c)' THEN Explained(c, row[c].status)' ELSE opening'[c].status = "None"
<1>1. CASE row'[c].status = row[c].status
  <2>1. Exists(c) => Explained(c, row[c].status)
    BY DEF TablesExplained
  <2>2. Exists(c) => Explained(c, row[c].status)'
    BY <1>1, <2>1 DEF Explained, Grown
  <2>. QED
    BY <1>1, <2>2 DEF TablesExplained, Exists
<1>2. CASE ~Exists(c) /\ row'[c].status = "Open"
  BY <1>2 DEF TablesExplained, Exists, Explained
<1>3. CASE /\ Exists(c)'
           /\ \E e \in EventsOf(c)' : /\ e.action \in {"case.transitioned", "case.merged"}
                                      /\ e.after[1] = row'[c].status
  BY <1>3 DEF Explained
<1>. QED
  BY <1>1, <1>2, <1>3

\* What a transaction writes into the tables, it tells.
LEMMA WritesAreTold ==
  ASSUME TablesExplained, Write, UNCHANGED opening
  PROVE  TablesExplained' /\ Grown
<1>1. Typed' /\ \A d \in Cases : Becomes(row[d], row'[d])
  BY RowsBecome DEF TablesExplained
<1>2. /\ Logs /\ note \in [Notes -> NoteRow] /\ \A n \in Notes : NoteTold(n, note[n])
      /\ row = [d \in Cases |-> row[d]] /\ Typed
  BY DEF TablesExplained, Typed
<1>3. ASSUME Logs', Grown,
             \A d \in Cases :
                IF Exists(d)' THEN Explained(d, row[d].status)' ELSE opening'[d].status = "None",
             (note \in [Notes -> NoteRow])', \A n \in Notes : NoteTold(n, note[n])'
      PROVE  TablesExplained' /\ Grown
  BY <1>1, <1>3 DEF TablesExplained
<1>4. ASSUME Grown, note' = note
      PROVE  (note \in [Notes -> NoteRow])' /\ \A n \in Notes : NoteTold(n, note[n])'
  BY <1>2, <1>4, StaysTold
<1>5. ASSUME NEW c \in Cases, NEW t \in Status, NEW d \in Dispositions \cup {NoDisposition},
             Transition(c, t, d)
      PROVE  TablesExplained' /\ Grown
  <2>. DEFINE e == TransitionEvent(row[c], t, d)
  <2>1. /\ row' = [row EXCEPT ![c] = Transitioned(row[c], t, d)] /\ Log(c, e) /\ note' = note
        /\ row[c] \in Row /\ row[c].status \in Status /\ t \in ALLOWED[row[c].status]
    BY <1>5 DEF Transition, Exists, TablesExplained, Typed, Row
  <2>2. Transitioned(row[c], t, d).status = t
    BY <2>1, BecomesTransitioned
  <2>3. e.action = "case.transitioned" /\ e.after[1] = t
    BY <2>2 DEF TransitionEvent, Event
  <2>. HIDE DEF e
  <2>4. Logs' /\ Grown /\ e \in EventsOf(c)'
    BY <1>2, <2>1, Logged
  <2>5. row'[c].status = t /\ \A b \in Cases \ {c} : row'[b] = row[b]
    BY <1>2, <2>1, <2>2
  <2>6. Exists(c)'
    BY <2>5 DEF Exists, Status
  <2>7. \A b \in Cases :
           IF Exists(b)' THEN Explained(b, row[b].status)' ELSE opening'[b].status = "None"
    BY <2>3, <2>4, <2>5, <2>6, StatusTold
  <2>. QED
    BY <1>3, <1>4, <2>1, <2>4, <2>7
<1>6. ASSUME NEW c \in Cases, NEW u \in Users \cup {NoUser}, Assign(c, u)
      PROVE  TablesExplained' /\ Grown
  <2>1. /\ row' = [row EXCEPT ![c] = Assigned(row[c], u)] /\ note' = note
        /\ Log(c, AssignEvent(row[c], u))
        /\ row[c] \in Row /\ row[c].status # "Merged"
    BY <1>6 DEF Assign, TablesExplained, Typed
  <2>2. Logs' /\ Grown
    BY <1>2, <2>1, Logged
  <2>3. \A b \in Cases : row'[b].status = row[b].status
    BY <1>2, <2>1, BecomesAssigned
  <2>4. \A b \in Cases :
           IF Exists(b)' THEN Explained(b, row[b].status)' ELSE opening'[b].status = "None"
    BY <2>2, <2>3, StatusTold
  <2>. QED
    BY <1>3, <1>4, <2>1, <2>2, <2>4
<1>7. ASSUME row' = row, Grown
      PROVE  \A b \in Cases :
                IF Exists(b)' THEN Explained(b, row[b].status)' ELSE opening'[b].status = "None"
  BY <1>7, StatusTold
<1>8. ASSUME NEW c \in Cases, NEW n \in Notes, NEW u \in Users, AddNote(c, n, u)
      PROVE  TablesExplained' /\ Grown
  <2>. DEFINE v == [on |-> c, author |-> u, retracted |-> FALSE]
  <2>1. /\ row' = row /\ Log(c, NoteEvent(n))
        /\ note' = [note EXCEPT ![n] = v]
    BY <1>8 DEF AddNote
  <2>2. Logs' /\ Grown /\ NoteEvent(n) \in EventsOf(c)'
    BY <1>2, <2>1, Logged
  <2>3. v \in NoteRow /\ v.retracted = FALSE
    BY NoteRows
  <2>. HIDE DEF v
  <2>4. /\ note' \in [Notes -> NoteRow] /\ note'[n] = v
        /\ \A m \in Notes \ {n} : note'[m] = note[m]
    BY <1>2, <2>1, <2>3
  <2>5. NoteTold(n, note[n])'
    BY <2>2, <2>3, <2>4 DEF NoteTold, Somewhere, NoteEvent, Event
  <2>6. \A m \in Notes : NoteTold(m, note[m])'
    BY <1>2, <2>2, <2>4, <2>5, StaysTold
  <2>. QED
    BY <1>3, <1>7, <2>1, <2>2, <2>4, <2>6
<1>9. ASSUME NEW c \in Cases, NEW n \in Notes, Retract(n, c)
      PROVE  TablesExplained' /\ Grown
  <2>. DEFINE v == [note[n] EXCEPT !.retracted = TRUE]
  <2>1. /\ row' = row /\ Log(c, RetractEvent(n)) /\ note[n] # Unwritten
        /\ note' = [note EXCEPT ![n] = v]
    BY <1>9 DEF Retract
  <2>2. Logs' /\ Grown /\ RetractEvent(n) \in EventsOf(c)'
    BY <1>2, <2>1, Logged
  <2>3. v \in NoteRow
    BY <1>2, NoteRows
  <2>. HIDE DEF v
  <2>4. /\ note' \in [Notes -> NoteRow] /\ note'[n] = v
        /\ \A m \in Notes \ {n} : note'[m] = note[m]
    BY <1>2, <2>1, <2>3
  <2>5. NoteTold(n, note[n])'
    <3>1. Somewhere(NoteEvent(n))'
      BY <1>2, <2>1, <2>2, StaysTold DEF NoteTold, NoteEvent, Event
    <3>2. Somewhere(RetractEvent(n))'
      BY <2>2 DEF Somewhere, RetractEvent, Event
    <3>. QED
      BY <3>1, <3>2 DEF NoteTold
  <2>6. \A m \in Notes : NoteTold(m, note[m])'
    BY <1>2, <2>2, <2>4, <2>5, StaysTold
  <2>. QED
    BY <1>3, <1>7, <2>1, <2>2, <2>4, <2>6
<1>10. ASSUME NEW c \in Cases, NEW score \in Scores, NEW time \in Times, Create(c, score, time)
      PROVE  TablesExplained' /\ Grown
  <2>1. /\ ~Exists(c) /\ row' = [row EXCEPT ![c] = Created(score, time)] /\ note' = note
        /\ Log(c, LinkEvent) /\ score \in 0..100 /\ row[c] \in Row /\ row[c].status = "None"
    BY <1>10, ReadersAssumption DEF Create, TablesExplained, Typed, Exists
  <2>2. Logs' /\ Grown
    BY <1>2, <2>1, Logged
  <2>3. row'[c].status = "Open" /\ \A b \in Cases \ {c} : row'[b] = row[b]
    BY <1>2, <2>1, BecomesCreated
  <2>4. \A b \in Cases :
           IF Exists(b)' THEN Explained(b, row[b].status)' ELSE opening'[b].status = "None"
    BY <2>1, <2>2, <2>3, StatusTold
  <2>. QED
    BY <1>3, <1>4, <2>1, <2>2, <2>4
<1>11. ASSUME NEW c \in Cases, NEW score \in Scores, NEW time \in Times,
             Attach(c, row[c].version + 1, score, time), IsOpen(row[c])
      PROVE  TablesExplained' /\ Grown
  <2>1. /\ row' = [row EXCEPT ![c] = Attached(row[c], row[c].version + 1, score, time)]
        /\ note' = note /\ Log(c, LinkEvent) /\ row[c].status # "Merged" /\ row[c] \in Row
    BY <1>11 DEF Attach, IsOpen, TablesExplained, Typed
  <2>2. Logs' /\ Grown
    BY <1>2, <2>1, Logged
  <2>3. Attached(row[c], row[c].version + 1, score, time).status = row[c].status
    <3>1. row[c].version + 1 \in Nat /\ score \in 0..100 /\ time \in Times \cup {NoTime}
      BY <1>2, ScoresAreRisks
    <3>. QED
      BY <2>1, <3>1, BecomesAttached
  <2>4. \A b \in Cases : row'[b].status = row[b].status
    BY <1>2, <2>1, <2>3
  <2>5. \A b \in Cases :
           IF Exists(b)' THEN Explained(b, row[b].status)' ELSE opening'[b].status = "None"
    BY <2>2, <2>4, StatusTold
  <2>. QED
    BY <1>3, <1>4, <2>1, <2>2, <2>5
<1>12. ASSUME NEW c \in Cases, NEW s \in Cases, NEW score \in Scores, NEW time \in Times,
             IsOpen(row[c]), IsOpen(row[s]),
             Merge(c, s, row[c].status, {n \in Notes : note[n].on = c}, row[s].version + 1,
                   score, time)
      PROVE  TablesExplained' /\ Grown
  <2>. DEFINE lost == MergedAway(row[c])
              kept == Attached(row[s], row[s].version + 1,
                          IF score > row[c].risk THEN score ELSE row[c].risk,
                          Older(row[c].oldest, time))
              moved == {n \in Notes : note[n].on = c}
              e == MergeEvent(row[c].status)
  <2>1. /\ row[c].status # "Merged" /\ row[s].status # "Merged" /\ row[c] \in Row
        /\ row' = [row EXCEPT ![c] = lost, ![s] = kept]
        /\ trail' = [trail EXCEPT ![c] = Append(@, e), ![s] = Append(@, LinkEvent)]
        /\ note' = [n \in Notes |-> IF n \in moved THEN [note[n] EXCEPT !.on = s] ELSE note[n]]
    BY <1>12 DEF Merge, IsOpen, TablesExplained, Typed
  <2>2. c # s
    BY <1>12, ReadersAssumption DEF Merge
  <2>3. lost.status = "Merged"
    BY <2>1, BecomesMerged
  <2>4. kept.status = row[s].status
    <3>1. /\ row[s] \in Row /\ row[s].version + 1 \in Nat
          /\ (IF score > row[c].risk THEN score ELSE row[c].risk) \in 0..100
          /\ Older(row[c].oldest, time) \in Times \cup {NoTime}
      BY <1>2, ScoresAreRisks
    <3>. QED
      BY <2>1, <3>1, BecomesAttached
  <2>5. e.action = "case.merged" /\ e.after[1] = "Merged"
    BY DEF MergeEvent, Event
  <2>. HIDE DEF lost, kept, e
  <2>6. Logs' /\ Grown /\ e \in EventsOf(c)'
    BY <1>2, <2>1, <2>2, LoggedTwice
  <2>7. /\ row'[c].status = "Merged" /\ Exists(c)'
        /\ \A b \in Cases \ {c} : row'[b].status = row[b].status
    BY <1>2, <2>1, <2>2, <2>3, <2>4 DEF Exists
  <2>8. \A b \in Cases :
           IF Exists(b)' THEN Explained(b, row[b].status)' ELSE opening'[b].status = "None"
    BY <2>5, <2>6, <2>7, StatusTold
  <2>9. \A n \in Notes : note'[n] \in NoteRow /\ NoteTold(n, note[n])'
    <3>. SUFFICES ASSUME NEW n \in Notes PROVE note'[n] \in NoteRow /\ NoteTold(n, note[n])'
      OBVIOUS
    <3>1. CASE n \in moved
      <4>1. /\ note[n] \in NoteRow /\ note[n].on \in Cases
            /\ note'[n] = [note[n] EXCEPT !.on = s]
        BY <1>2, <2>1, <3>1
      <4>2. /\ note[n] # Unwritten /\ note'[n] \in NoteRow
            /\ note'[n].retracted = note[n].retracted
        BY <4>1, NoteRows
      <4>. QED
        BY <1>2, <2>6, <4>2, StaysTold DEF NoteTold, NoteEvent, RetractEvent, Event
    <3>2. CASE n \notin moved
      BY <1>2, <2>1, <2>6, <3>2, StaysTold
    <3>. QED
      BY <3>1, <3>2
  <2>10. note' \in [Notes -> NoteRow]
    BY <2>1, <2>9
  <2>. QED
    BY <1>3, <2>6, <2>8, <2>9, <2>10
<1>. QED
  BY <1>5, <1>6, <1>8, <1>9, <1>10, <1>11, <1>12 DEF Write, Analysts

\* The streams of a behaviour begin empty, and so does what they have to explain.
LEMMA DetailInit == ReadersInit => DetailInv
<1>. SUFFICES ASSUME ReadersInit PROVE DetailInv
  OBVIOUS
<1>1. /\ row \in [Cases -> Row] /\ note = [n \in Notes |-> Unwritten]
      /\ trail = [c \in Cases |-> <<>>] /\ opening = row /\ answer = NoAnswer
      /\ pc # "shown"
      /\ query \in [filter: Filters, sort: Sorts, limit: Limits, case: Cases]
  BY ReadersAssumption DEF ReadersInit, Init
<1>2. Logs
  <2>1. IsLog(<<>>)
    <3>1. <<>> \in Seq({})
      OBVIOUS
    <3>. QED
      BY <3>1, SequencesAreLogs
  <2>. QED
    BY <1>1, <2>1 DEF Logs
<1>3. \A c \in Cases : Exists(c) => Explained(c, row[c].status)
  BY <1>1 DEF Exists, Explained
<1>4. \A n \in Notes : NoteTold(n, note[n])
  BY <1>1, NoteRows DEF NoteTold
<1>5. note \in [Notes -> NoteRow]
  BY <1>1, NoteRows
<1>6. TablesExplained
  BY <1>1, <1>2, <1>3, <1>4, <1>5 DEF TablesExplained, Typed, Exists
<1>. QED
  BY <1>1, <1>6 DEF DetailInv, Shaped, DetailIsExplained, NoAnswer

\* The shape of an answer.
LEMMA AnswerRead ==
  ASSUME DetailInv, ReadDetail
  PROVE  LET part == Reads[answer.read + 1]
             shown == OnPage(query.case, part)
         IN  /\ answer' = [answer EXCEPT !.read = @ + 1, ![part] = shown]
             /\ answer.read \in 0..3 /\ answer'.read = answer.read + 1
             /\ answer.read = 0 => /\ answer'.case = row[query.case]
                                   /\ answer'.notes = answer.notes
             /\ answer.read = 1 => answer'.case = answer.case /\ answer'.notes = answer.notes
             /\ answer.read = 2 =>
                  /\ answer'.case = answer.case
                  /\ answer'.notes = {<<n, note[n]>> : n \in {m \in Notes : note[m].on = query.case}}
             /\ answer.read = 3 => /\ answer'.case = answer.case
                                   /\ answer'.notes = answer.notes
                                   /\ answer'.timeline = EventsOf(query.case)
<1>. DEFINE part == Reads[answer.read + 1]
            shown == OnPage(query.case, part)
<1>1. answer' = [answer EXCEPT !.read = @ + 1, ![part] = shown] /\ answer.read \in 0..3
  BY DEF ReadDetail, DetailInv
<1>2. /\ answer.read = 0 => part = "case" /\ shown = row[query.case]
      /\ answer.read = 1 => part = "alerts"
      /\ answer.read = 2 =>
           /\ part = "notes"
           /\ shown = {<<n, note[n]>> : n \in {m \in Notes : note[m].on = query.case}}
      /\ answer.read = 3 => part = "timeline" /\ shown = EventsOf(query.case)
  BY DEF Reads, OnPage
<1>. HIDE DEF part, shown
<1>3. answer.read \in {0, 1, 2, 3}
  BY <1>1
<1>4. answer'.read = answer.read + 1
  BY <1>1, <1>2, <1>3 DEF DetailInv, Shaped
<1>5. answer.read = 0 => /\ answer'.case = row[query.case]
                         /\ answer'.notes = answer.notes
  BY <1>1, <1>2 DEF DetailInv, Shaped
<1>6. answer.read = 1 => answer'.case = answer.case /\ answer'.notes = answer.notes
  BY <1>1, <1>2 DEF DetailInv, Shaped
<1>7. answer.read = 2 =>
                  /\ answer'.case = answer.case
                  /\ answer'.notes = {<<n, note[n]>> : n \in {m \in Notes : note[m].on = query.case}}
  BY <1>1, <1>2 DEF DetailInv, Shaped
<1>8. answer.read = 3 => /\ answer'.case = answer.case
                         /\ answer'.notes = answer.notes
                         /\ answer'.timeline = EventsOf(query.case)
  BY <1>1, <1>2 DEF DetailInv, Shaped
<1>. QED
  BY <1>1, <1>4, <1>5, <1>6, <1>7, <1>8 DEF part, shown

\* An event that is in some stream is in the one shown or in another.
LEMMA SomewhereIsHereOrElsewhere ==
  ASSUME NEW e, NEW c \in Cases, Somewhere(e)
  PROVE  e \in EventsOf(c) \/ \E d \in Cases \ {c} : e \in EventsOf(d)
BY DEF Somewhere

\* Each of the four statements reads what the streams explain, and the last the stream.
LEMMA DetailRead ==
  ASSUME DetailInv, ReadDetail
  PROVE  DetailInv'
<1>. DEFINE c == query.case
            part == Reads[answer.read + 1]
            page == OnPage(c, part)
<1>1. /\ UNCHANGED <<row, note, trail, query, opening>> /\ pc = "detail"
      /\ pc' = IF ~Exists(c) THEN "not_found"
               ELSE IF answer.read + 1 = Len(Reads) THEN "shown" ELSE pc
  BY DEF ReadDetail, store
<1>2. /\ answer' = [answer EXCEPT !.read = @ + 1, ![part] = page]
      /\ answer.read \in 0..3 /\ answer'.read = answer.read + 1
  BY AnswerRead
<1>3. /\ answer.read = 0 => answer'.case = row[c] /\ answer'.notes = answer.notes
      /\ answer.read = 1 => answer'.case = answer.case /\ answer'.notes = answer.notes
      /\ answer.read = 2 =>
           /\ answer'.case = answer.case
           /\ answer'.notes = {<<n, note[n]>> : n \in {m \in Notes : note[m].on = c}}
      /\ answer.read = 3 => /\ answer'.case = answer.case /\ answer'.notes = answer.notes
                            /\ answer'.timeline = EventsOf(c)
  BY AnswerRead
<1>4. /\ TablesExplained /\ c \in Cases
      /\ answer.read > 0 => Explained(c, answer.case.status)
      /\ \A s \in answer.notes : s[2] # Unwritten /\ NoteTold(s[1], s[2])
  BY <1>1 DEF DetailInv, Shaped
<1>. HIDE DEF c, part, page
<1>5. answer.read \in {0, 1, 2, 3}
  BY <1>2
<1>6. Exists(c) => Explained(c, answer'.case.status)
  <2>1. Exists(c) => Explained(c, row[c].status)
    BY <1>4 DEF TablesExplained
  <2>2. CASE answer.read = 0
    BY <1>3, <2>1, <2>2
  <2>3. CASE answer.read \in {1, 2, 3}
    BY <1>3, <1>4, <2>3
  <2>. QED
    BY <1>5, <2>2, <2>3
<1>7. \A s \in answer'.notes : s[2] # Unwritten /\ NoteTold(s[1], s[2])
  <2>1. CASE answer.read = 2
    <3>1. ASSUME NEW n \in Notes, note[n].on = c
          PROVE  note[n] # Unwritten /\ NoteTold(n, note[n])
      BY <1>4, <3>1, NoteRows DEF TablesExplained
    <3>2. \A s \in answer'.notes : \E n \in Notes : note[n].on = c /\ s = <<n, note[n]>>
      BY <1>3, <2>1
    <3>. QED
      BY <3>1, <3>2
  <2>2. CASE answer.read \in {0, 1, 3}
    BY <1>3, <1>4, <2>2
  <2>. QED
    BY <1>5, <2>1, <2>2
<1>8. Shaped'
  BY <1>2 DEF DetailInv, Shaped
<1>9. TablesExplained'
  <2>1. \A b \in Cases : (Exists(b)' <=> Exists(b)) /\ (EventsOf(b)' = EventsOf(b))
    BY <1>1 DEF Exists, EventsOf
  <2>2. Grown
    BY <2>1 DEF Grown
  <2>3. /\ \A b \in Cases : Explained(b, row[b].status) => Explained(b, row[b].status)'
        /\ \A n \in Notes : NoteTold(n, note[n]) => NoteTold(n, note[n])'
    BY <1>1, <2>2, StaysTold
  <2>. QED
    BY <1>1, <1>4, <2>1, <2>3 DEF TablesExplained, Typed, Logs
<1>10. c \in Cases /\ query'.case = c
  BY <1>1, <1>4 DEF c
<1>11. pc' = "detail" => answer'.read \in 0..3 /\ Exists(c)
  <2>1. pc' = "detail" => answer.read + 1 # Len(Reads) /\ Exists(c)
    BY <1>1 DEF c
  <2>2. Len(Reads) = 4
    BY DEF Reads
  <2>. QED
    BY <1>2, <2>1, <2>2
<1>12. Explained(c, answer'.case.status) => Explained(query.case, answer.case.status)'
  BY <1>1, <1>10 DEF Explained, EventsOf
<1>13. /\ \A s \in answer'.notes : s[2] # Unwritten /\ NoteTold(s[1], s[2])'
  BY <1>1, <1>7 DEF NoteTold, Somewhere, EventsOf
<1>14. DetailIsExplained'
  <2>. SUFFICES ASSUME pc' = "shown" PROVE DetailIsExplained'
    BY DEF DetailIsExplained
  <2>1. Exists(c) /\ answer.read + 1 = Len(Reads)
    BY <1>1 DEF c
  <2>2. answer.read = 3
    BY <1>2, <2>1 DEF Reads
  <2>3. answer'.timeline = EventsOf(c)
    BY <1>3, <2>2
  <2>4. \A b \in Cases : EventsOf(b)' = EventsOf(b)
    BY <1>1 DEF EventsOf
  <2>5. \A s \in answer'.notes :
           /\ NoteEvent(s[1]) \in EventsOf(c) \/ \E d \in Cases \ {c} : NoteEvent(s[1]) \in EventsOf(d)
           /\ s[2].retracted = TRUE =>
                 \/ RetractEvent(s[1]) \in EventsOf(c)
                 \/ \E d \in Cases \ {c} : RetractEvent(s[1]) \in EventsOf(d)
    BY <1>7, <1>10, SomewhereIsHereOrElsewhere DEF NoteTold
  <2>6. Explained(c, answer'.case.status)
    BY <1>6, <2>1
  <2>. QED
    BY <1>1, <1>10, <2>3, <2>4, <2>5, <2>6
    DEF DetailIsExplained, Explained, NoteEvent, RetractEvent, Event
<1>15. query' \in [filter: Filters, sort: Sorts, limit: Limits, case: Cases]
  BY <1>1 DEF DetailInv
<1>. QED
  BY <1>6, <1>8, <1>9, <1>11, <1>12, <1>13, <1>14, <1>15 DEF DetailInv

\* No other step reads for the page, and the streams only grow.
LEMMA DetailStep == DetailInv /\ [ReadersNext]_vars => DetailInv'
<1>. SUFFICES ASSUME DetailInv, [ReadersNext]_vars PROVE DetailInv'
  OBVIOUS
<1>0. ASSUME UNCHANGED <<row, note, trail, opening>>
      PROVE  /\ TablesExplained' /\ Grown
             /\ \A b \in Cases : EventsOf(b)' = EventsOf(b)
  <2>1. \A b \in Cases : (Exists(b)' <=> Exists(b)) /\ (EventsOf(b)' = EventsOf(b))
    BY <1>0 DEF Exists, EventsOf
  <2>2. Grown
    BY <2>1 DEF Grown
  <2>3. /\ \A b \in Cases : Explained(b, row[b].status) => Explained(b, row[b].status)'
        /\ \A n \in Notes : NoteTold(n, note[n]) => NoteTold(n, note[n])'
    BY <1>0, <2>2, StaysTold
  <2>4. TablesExplained'
    BY <1>0, <2>1, <2>3 DEF DetailInv, TablesExplained, Typed, Logs
  <2>. QED
    BY <2>1, <2>2, <2>4
<1>1. ASSUME TablesExplained', Grown, UNCHANGED <<pc, query, answer, opening>>, pc # "shown"
      PROVE  DetailInv'
  <2>1. pc = "detail" =>
         /\ answer.read > 0 => Explained(query.case, answer.case.status)'
         /\ \A s \in answer.notes : s[2] # Unwritten /\ NoteTold(s[1], s[2])'
    <3>. SUFFICES ASSUME pc = "detail"
         PROVE  /\ answer.read > 0 => Explained(query.case, answer.case.status)'
                /\ \A s \in answer.notes : s[2] # Unwritten /\ NoteTold(s[1], s[2])'
      OBVIOUS
    <3>1. answer.read > 0 => Explained(query.case, answer.case.status)'
      BY <1>1 DEF DetailInv, Explained, Grown
    <3>2. \A s \in answer.notes : s[2] # Unwritten /\ NoteTold(s[1], s[2])'
      BY <1>1, StaysTold DEF DetailInv, Shaped
    <3>. QED
      BY <3>1, <3>2
  <2>. QED
    BY <1>1, <2>1 DEF DetailInv, Shaped, DetailIsExplained
<1>2. ASSUME UNCHANGED <<row, note, trail, opening>>, Shaped',
             (query \in [filter: Filters, sort: Sorts, limit: Limits, case: Cases])',
             pc' \notin {"detail", "shown"}
      PROVE  DetailInv'
  <2>1. TablesExplained'
    BY <1>0, <1>2
  <2>. QED
    BY <1>2, <2>1 DEF DetailInv, DetailIsExplained
<1>3. CASE Change
  <2>1. Write /\ UNCHANGED <<pc, query, answer, opening>> /\ pc # "shown"
    BY <1>3 DEF Change, reader, Running
  <2>. QED
    BY <1>1, <2>1, WritesAreTold DEF DetailInv, Shaped
<1>4. CASE ReadDetail
  BY <1>4, DetailRead
<1>5. CASE FetchPage
  BY <1>2, <1>5 DEF FetchPage, store, DetailInv, Shaped
<1>6. CASE InvalidCursor
  BY <1>2, <1>6 DEF InvalidCursor, store, DetailInv, Shaped
<1>7. CASE CountAll
  <2>1. Shaped'
    BY <1>7 DEF CountAll, DetailInv, Shaped
  <2>2. /\ UNCHANGED <<row, note, trail, opening>> /\ pc' \notin {"detail", "shown"}
        /\ query' \in [filter: Filters, sort: Sorts, limit: Limits, case: Cases]
    BY <1>7 DEF CountAll, store, DetailInv
  <2>. QED
    BY <1>2, <2>1, <2>2
<1>8. CASE CountByStatus
  <2>1. Shaped'
    BY <1>8 DEF CountByStatus, DetailInv, Shaped
  <2>2. /\ UNCHANGED <<row, note, trail, opening>> /\ pc' \notin {"detail", "shown"}
        /\ query' \in [filter: Filters, sort: Sorts, limit: Limits, case: Cases]
    BY <1>8 DEF CountByStatus, store, DetailInv
  <2>. QED
    BY <1>2, <2>1, <2>2
<1>9. ASSUME NEW sort \in Sorts, Resort(sort) PROVE DetailInv'
  <2>1. /\ UNCHANGED <<row, note, trail, opening, answer>> /\ pc' = "resorted"
        /\ query' \in [filter: Filters, sort: Sorts, limit: Limits, case: Cases]
    BY <1>9 DEF Resort, store, DetailInv
  <2>. QED
    BY <1>2, <2>1 DEF DetailInv, Shaped
<1>10. CASE UNCHANGED vars
  <2>1. UNCHANGED <<row, note, trail, pc, query, answer, opening>>
    BY <1>10 DEF vars, store, reader
  <2>2. TablesExplained' /\ Grown /\ \A b \in Cases : EventsOf(b)' = EventsOf(b)
    BY <1>0, <2>1
  <2>3. CASE pc = "shown"
    <3>1. trail' = trail /\ query' = query /\ answer' = answer /\ opening' = opening /\ pc' = pc
      BY <2>1
    <3>2. DetailIsExplained' <=> DetailIsExplained
      BY <3>1 DEF DetailIsExplained, EventsOf, NoteEvent, RetractEvent, Event
    <3>. QED
      BY <2>1, <2>2, <2>3, <3>2 DEF DetailInv, Shaped
  <2>. QED
    BY <1>1, <2>1, <2>2, <2>3
<1>. QED
  BY <1>3, <1>4, <1>5, <1>6, <1>7, <1>8, <1>9, <1>10 DEF ReadersNext, Read

\* get_case_detail: the timeline, read last, explains the status that was read first and the
\* notes and retractions read before it, unless their event is in the stream of another case.
THEOREM DetailExplained == ReadersSpec => []DetailIsExplained
<1>1. DetailInv => DetailIsExplained
  BY DEF DetailInv
<1>2. ReadersSpec => []DetailInv
  BY DetailInit, DetailStep, PTL DEF ReadersSpec
<1>. QED
  BY <1>1, <1>2, PTL

=============================================================================
