---------------------------- MODULE DataTheorems ----------------------------
(***************************************************************************)
(* Facts about numbers, finite sets and sequences that the proofs about    *)
(* several components cite.                                                *)
(***************************************************************************)
EXTENDS Integers, Sequences, FiniteSetsExt, FiniteSetTheorems, WellFoundedInduction, TLAPS

-----------------------------------------------------------------------------
(* Min and Max. *)

\* Every nonempty set of naturals has a least element (the survivor exists).
LEMMA LeastNatural ==
    ASSUME NEW S \in SUBSET Nat, S # {}
    PROVE  \E x \in S : \A y \in S : x <= y
<1> DEFINE R == OpToRel(<, Nat)
<1>1. IsWellFoundedOn(R, Nat)
  BY NatLessThanWellFounded
<1>2. \A x, y \in Nat : x < y => <<x, y>> \in R
  BY DEF OpToRel
<1> HIDE DEF R
<1>3. PICK x \in S : \A y \in S : ~ (<<y, x>> \in R)
  BY <1>1, WFMin, Zenon
<1>4. ASSUME NEW y \in S
      PROVE  ~ (y < x)
  <2>1. ~ (<<y, x>> \in R)
    BY <1>3
  <2>2. y < x => <<y, x>> \in R
    BY <1>2
  <2> QED BY <2>1, <2>2
<1>5. \A y \in S : x <= y
  BY <1>4
<1> QED BY <1>5

\* Min returns a member below every other.
LEMMA MinOfNaturals ==
    ASSUME NEW S \in SUBSET Nat, S # {}
    PROVE  Min(S) \in S /\ \A y \in S : Min(S) <= y
<1>1. \E x \in S : \A y \in S : x <= y
  BY LeastNatural
<1> QED BY <1>1 DEF Min

\* Max of bounded naturals returns a member above every other.
LEMMA MaxOfBounded ==
    ASSUME NEW bound \in Nat, NEW S \in SUBSET (0..bound), S # {}
    PROVE  Max(S) \in S /\ \A y \in S : Max(S) >= y
<1> DEFINE T == {n \in Nat : \E y \in S : n = bound - y}
<1>1. \A y \in S : bound - y \in T
  OBVIOUS
<1>2. T \in SUBSET Nat /\ T # {}
  <2>1. PICK y \in S : TRUE
    OBVIOUS
  <2>2. bound - y \in T
    BY <1>1
  <2> QED BY <2>2
<1>3. PICK x \in T : \A y \in T : x <= y
  BY <1>2, LeastNatural
<1>4. PICK z \in S : x = bound - z
  BY <1>3
<1>5. ASSUME NEW y \in S
      PROVE  z >= y
  <2>1. bound - y \in T
    BY <1>1
  <2>2. x <= bound - y
    BY <1>3, <2>1
  <2> HIDE DEF T
  <2> QED BY <2>2, <1>4
<1>6. \E m \in S : \A y \in S : m >= y
  BY <1>5
<1> QED BY <1>6 DEF Max

\* The lower and the higher of two numbers.
LEMMA OfTwo ==
  ASSUME NEW x \in Int, NEW y \in Int
  PROVE  /\ Min({x, y}) \in {x, y}
         /\ Max({x, y}) \in {x, y} /\ Max({x, y}) >= x /\ Max({x, y}) >= y
<1>1. /\ \E m \in {x, y} : \A z \in {x, y} : m <= z
      /\ \E m \in {x, y} : \A z \in {x, y} : m >= z
  <2>1. CASE x <= y
    BY <2>1
  <2>2. CASE y <= x
    BY <2>2
  <2>. QED
    BY <2>1, <2>2
<1>2. Min({x, y}) \in {x, y}
  BY <1>1 DEF Min
<1>3. Max({x, y}) \in {x, y} /\ \A z \in {x, y} : Max({x, y}) >= z
  BY <1>1 DEF Max
<1>. QED
  BY <1>2, <1>3

-----------------------------------------------------------------------------
(* Finite sets. *)

\* A relation that holds one way or the other, and is transitive, has a first element.
LEMMA FirstExists ==
  ASSUME NEW S, IsFiniteSet(S), S # {}, NEW R,
         \A x, y \in S : <<x, y>> \in R \/ <<y, x>> \in R,
         \A x, y, z \in S : <<x, y>> \in R /\ <<y, z>> \in R => <<x, z>> \in R
  PROVE  \E x \in S : \A y \in S : <<x, y>> \in R
<1>. DEFINE Better(x) == {y \in S : <<x, y>> \notin R}
            ranks == {n \in Nat : \E x \in S : n = Cardinality(Better(x))}
<1>1. \A x \in S : IsFiniteSet(Better(x)) /\ Cardinality(Better(x)) \in Nat
  BY FS_Subset, FS_CardinalityType
<1>2. PICK n \in ranks : \A m \in ranks : n <= m
  <2>1. ranks \in SUBSET Nat /\ ranks # {}
    BY <1>1
  <2>. HIDE DEF ranks
  <2>. QED
    BY <2>1, LeastNatural
<1>3. PICK x \in S : n = Cardinality(Better(x))
  BY <1>2
<1>4. ASSUME NEW y \in S, <<x, y>> \notin R PROVE FALSE
  <2>1. <<y, x>> \in R /\ <<y, y>> \in R
    BY <1>4
  <2>2. Better(y) \subseteq Better(x) /\ y \in Better(x) /\ y \notin Better(y)
    BY <1>4, <2>1
  <2>3. Cardinality(Better(y)) < Cardinality(Better(x))
    <3>1. IsFiniteSet(Better(x)) /\ Better(y) # Better(x)
      BY <1>1, <2>2
    <3>. HIDE DEF Better
    <3>. QED
      BY <2>2, <3>1, <1>1, FS_Subset
  <2>4. Cardinality(Better(y)) \in ranks /\ Cardinality(Better(y)) \in Nat
    BY <1>1
  <2>5. n <= Cardinality(Better(y)) /\ n \in Nat
    BY <1>2, <2>4
  <2>. HIDE DEF Better
  <2>. QED
    BY <1>3, <2>3, <2>4, <2>5
<1>. QED
  BY <1>4

\* Two sets that differ only in a third have about as many members.
LEMMA CloseCounts ==
  ASSUME NEW F, IsFiniteSet(F), NEW G, IsFiniteSet(G), NEW T, IsFiniteSet(T),
         F \subseteq G \cup T, G \subseteq F \cup T
  PROVE  /\ Cardinality(F) \in Nat /\ Cardinality(G) \in Nat /\ Cardinality(T) \in Nat
         /\ Cardinality(F) - Cardinality(G) <= Cardinality(T)
         /\ Cardinality(G) - Cardinality(F) <= Cardinality(T)
<1>1. /\ Cardinality(F) \in Nat /\ Cardinality(G) \in Nat /\ Cardinality(T) \in Nat
      /\ Cardinality(F \cap T) \in Nat /\ Cardinality(G \cap T) \in Nat
  BY FS_CardinalityType, FS_Intersection
<1>2. /\ IsFiniteSet(G \cup T) /\ IsFiniteSet(F \cup T)
      /\ Cardinality(G \cup T) = Cardinality(G) + Cardinality(T) - Cardinality(G \cap T)
      /\ Cardinality(F \cup T) = Cardinality(F) + Cardinality(T) - Cardinality(F \cap T)
  BY FS_Union
<1>3. Cardinality(F) <= Cardinality(G \cup T) /\ Cardinality(G) <= Cardinality(F \cup T)
  BY <1>2, FS_Subset
<1>. QED
  BY <1>1, <1>2, <1>3

\* Two sets without a common member have as many members as both together.
LEMMA DisjointCounts ==
  ASSUME NEW S, IsFiniteSet(S), NEW T, IsFiniteSet(T), S \cap T = {}
  PROVE  /\ IsFiniteSet(S \cup T) /\ Cardinality(S \cup T) = Cardinality(S) + Cardinality(T)
         /\ Cardinality(S) \in Nat /\ Cardinality(T) \in Nat /\ Cardinality(S \cup T) \in Nat
<1>1. Cardinality(S \cap T) = 0
  BY FS_EmptySet
<1>2. /\ Cardinality(S) \in Nat /\ Cardinality(T) \in Nat
      /\ IsFiniteSet(S \cup T) /\ Cardinality(S \cup T) \in Nat
      /\ Cardinality(S \cup T) = Cardinality(S) + Cardinality(T) - Cardinality(S \cap T)
  BY FS_Union, FS_CardinalityType
<1>. QED
  BY <1>1, <1>2

-----------------------------------------------------------------------------
(* Sequences. *)

\* A sequence is its elements from 1 on.
IsLog(s) == Len(s) \in Nat /\ DOMAIN s = 1..Len(s) /\ s = [i \in 1..Len(s) |-> s[i]]

\* Sequences are.
LEMMA SequencesAreLogs ==
  ASSUME NEW S, NEW s \in Seq(S)
  PROVE  IsLog(s)
<1>1. Len(s) \in Nat /\ s \in [1..Len(s) -> S]
  OBVIOUS
<1>. QED
  BY <1>1 DEF IsLog

\* An append adds its event at the end.
LEMMA Appended ==
  ASSUME NEW s, IsLog(s), NEW e
  PROVE  /\ IsLog(Append(s, e)) /\ Len(s) \in Nat
         /\ DOMAIN Append(s, e) = 1..(Len(s) + 1) /\ DOMAIN s = 1..Len(s)
         /\ \A i \in 1..Len(s) : Append(s, e)[i] = s[i]
         /\ Append(s, e)[Len(s) + 1] = e
<1>. DEFINE S == {s[i] : i \in 1..Len(s)} \cup {e}
<1>1. s \in Seq(S) /\ e \in S /\ Len(s) \in Nat
  BY DEF IsLog
<1>. HIDE DEF S
<1>2. Append(s, e) \in Seq(S) /\ Len(Append(s, e)) = Len(s) + 1
  BY <1>1
<1>3. \A i \in 1..Len(s) : Append(s, e)[i] = s[i]
  BY <1>1
<1>4. Append(s, e)[Len(s) + 1] = e
  BY <1>1
<1>5. IsLog(Append(s, e))
  BY <1>2, SequencesAreLogs
<1>. QED
  BY <1>1, <1>2, <1>3, <1>4, <1>5 DEF IsLog

=============================================================================
