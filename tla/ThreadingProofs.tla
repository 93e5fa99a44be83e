---------------------------- MODULE ThreadingProofs ----------------------------
(***************************************************************************)
(* What Threading promises, for any mail, replies, people, subjects and    *)
(* limits: that a mail joins what it names, that answers come home, and    *)
(* that joining by the subject leaves nobody out.                          *)
(*                                                                         *)
(* The first part is about the reference lists of headers.ts, whatever ids *)
(* they hold; the rest is the invariant of captures that overlap, and why  *)
(* every step keeps it.                                                    *)
(***************************************************************************)
EXTENDS Threading, FiniteSetTheorems, TLAPS

-------------------------------------------------------------------------------
(* Lists of references *)

Before(at, i) == {j \in at : j < i}

LEMMA BeforeCounts ==
  ASSUME NEW at, IsFiniteSet(at), at \subseteq Nat, NEW i \in at
  PROVE  /\ IsFiniteSet(Before(at, i))
         /\ Cardinality(Before(at, i)) \in 0..(Cardinality(at) - 1)
<1>1. Before(at, i) \subseteq at \ {i}
  BY DEF Before
<1>2. /\ IsFiniteSet(at \ {i}) /\ Cardinality(at \ {i}) = Cardinality(at) - 1
      /\ Cardinality(at) \in Nat
  BY FS_RemoveElement, FS_CardinalityType
<1>3. /\ IsFiniteSet(Before(at, i))
      /\ Cardinality(Before(at, i)) <= Cardinality(at \ {i})
  BY <1>1, <1>2, FS_Subset
<1> QED
  BY <1>2, <1>3, FS_CardinalityType

LEMMA BeforeGrows ==
  ASSUME NEW at, IsFiniteSet(at), at \subseteq Nat, NEW i \in at, NEW j \in at, i < j
  PROVE  Cardinality(Before(at, i)) < Cardinality(Before(at, j))
<1>1. i \in Before(at, j) /\ Before(at, i) \subseteq Before(at, j) \ {i}
  <2>1. \A k \in at : k < i => k < j /\ k # i
    <3>1. \A k \in Nat : k < i => k < j /\ k # i
      BY i \in Nat, j \in Nat
    <3> QED
      BY <3>1
  <2> QED
    BY <2>1 DEF Before
<1>2. IsFiniteSet(Before(at, j)) /\ IsFiniteSet(Before(at, i))
  BY BeforeCounts
<1>3. /\ IsFiniteSet(Before(at, j) \ {i})
      /\ Cardinality(Before(at, j) \ {i}) = Cardinality(Before(at, j)) - 1
  BY <1>1, <1>2, FS_RemoveElement
<1>4. Cardinality(Before(at, i)) <= Cardinality(Before(at, j) \ {i})
  BY <1>1, <1>3, FS_Subset
<1> QED
  BY <1>2, <1>3, <1>4, FS_CardinalityType

\* Every position of a finite set has a rank of its own, and every rank a position.
LEMMA Ranks ==
  ASSUME NEW at, IsFiniteSet(at), at \subseteq Nat, NEW k \in 0..(Cardinality(at) - 1)
  PROVE  \E i \in at : Cardinality(Before(at, i)) = k
<1> DEFINE n == Cardinality(at)
           rank == [i \in at |-> Cardinality(Before(at, i))]
<1>1. n \in Nat
  BY FS_CardinalityType
<1>2. rank \in [at -> 0..(n - 1)]
  BY BeforeCounts
<1>3. ASSUME NEW i \in at, NEW j \in at, rank[i] = rank[j] PROVE i = j
  <2>1. SUFFICES ASSUME i # j PROVE FALSE
    OBVIOUS
  <2>2. i < j \/ j < i
    BY <2>1
  <2>3. rank[i] < rank[j] \/ rank[j] < rank[i]
    BY <2>2, BeforeGrows
  <2> QED
    BY <1>2, <1>3, <2>3
<1>4. rank \in Injection(at, 0..(n - 1))
  BY <1>2, <1>3 DEF Injection, IsInjective
<1>5. IsFiniteSet(0..(n - 1)) /\ Cardinality(0..(n - 1)) = n
  <2>1. n - 1 \in Int /\ 0 \in Int
    BY <1>1
  <2>2. /\ IsFiniteSet(0..(n - 1))
        /\ Cardinality(0..(n - 1)) = IF 0 > n - 1 THEN 0 ELSE n - 1 - 0 + 1
    BY <2>1, FS_Interval
  <2> QED
    BY <2>2, <1>1
<1>6. rank \in Surjection(at, 0..(n - 1))
  BY <1>4, <1>5, FS_Injection
<1> QED
  BY <1>6 DEF Surjection

LEMMA HasGreatest ==
  ASSUME NEW S, IsFiniteSet(S), S \subseteq Nat, S # {}
  PROVE  Max(S) \in S /\ \A n \in S : n <= Max(S)
<1>1. Cardinality(S) \in Nat \ {0}
  BY FS_CardinalityType, FS_EmptySet
<1>2. PICK m \in S : Cardinality(Before(S, m)) = Cardinality(S) - 1
  <2>1. Cardinality(S) - 1 \in 0..(Cardinality(S) - 1)
    BY <1>1
  <2> QED
    BY <2>1, Ranks
<1>3. \A n \in S : m >= n
  <2>1. SUFFICES ASSUME NEW n \in S, m < n PROVE FALSE
    OBVIOUS
  <2>2. Cardinality(Before(S, m)) < Cardinality(Before(S, n))
    BY <2>1, BeforeGrows
  <2>3. Cardinality(Before(S, n)) \in 0..(Cardinality(S) - 1)
    BY BeforeCounts
  <2> QED
    BY <1>1, <1>2, <2>2, <2>3
<1> QED
  BY <1>3 DEF Max

\* What is kept of a list: a place in it for each element, in order, and all that were asked for.
PlacesOf(ids, at, pos) ==
  /\ pos \in [1..Cardinality(at) -> at]
  /\ Kept(ids, at) = [k \in 1..Cardinality(at) |-> ids[pos[k]]]
  /\ \A k, l \in 1..Cardinality(at) : k < l => pos[k] < pos[l]
  /\ \A i \in at : \E k \in 1..Cardinality(at) : pos[k] = i

LEMMA KeptInOrder ==
  ASSUME NEW S, NEW ids \in Seq(S), NEW at \in SUBSET DOMAIN ids
  PROVE  /\ IsFiniteSet(at) /\ at \subseteq Nat /\ Cardinality(at) \in 0..Len(ids)
         /\ \E pos : PlacesOf(ids, at, pos)
<1> DEFINE n == Cardinality(at)
           pos == [k \in 1..n |-> CHOOSE i \in at : Cardinality(Before(at, i)) = k - 1]
<1>1. /\ IsFiniteSet(DOMAIN ids) /\ Cardinality(DOMAIN ids) = Len(ids)
      /\ DOMAIN ids \subseteq Nat
  <2>1. DOMAIN ids = 1..Len(ids) /\ Len(ids) \in Nat
    OBVIOUS
  <2>2. /\ IsFiniteSet(1..Len(ids))
        /\ Cardinality(1..Len(ids)) = IF 1 > Len(ids) THEN 0 ELSE Len(ids) - 1 + 1
    BY <2>1, FS_Interval
  <2> QED
    BY <2>1, <2>2
<1>2. IsFiniteSet(at) /\ at \subseteq Nat /\ n \in 0..Len(ids)
  <2>1. IsFiniteSet(at) /\ n <= Len(ids)
    BY <1>1, FS_Subset
  <2>2. n \in Nat
    BY <2>1, FS_CardinalityType
  <2> QED
    BY <1>1, <2>1, <2>2
<1>3. \A k \in 1..n : pos[k] \in at /\ Cardinality(Before(at, pos[k])) = k - 1
  <2>1. TAKE k \in 1..n
  <2>2. k - 1 \in 0..(n - 1)
    BY <1>2
  <2>3. \E i \in at : Cardinality(Before(at, i)) = k - 1
    BY <1>2, <2>2, Ranks
  <2> QED
    BY <2>3
<1>4. Kept(ids, at) = [k \in 1..n |-> ids[pos[k]]]
  BY DEF Kept, Before
<1>5. \A k, l \in 1..n : k < l => pos[k] < pos[l]
  <2>1. SUFFICES ASSUME NEW k \in 1..n, NEW l \in 1..n, k < l, ~(pos[k] < pos[l]) PROVE FALSE
    OBVIOUS
  <2>2. pos[l] = pos[k] \/ pos[l] < pos[k]
    BY <1>2, <1>3, <2>1
  <2>3. pos[l] = pos[k] \/ Cardinality(Before(at, pos[l])) < Cardinality(Before(at, pos[k]))
    BY <1>2, <1>3, <2>2, BeforeGrows
  <2> HIDE DEF pos
  <2> QED
    BY <1>2, <1>3, <2>1, <2>3
<1>6. \A i \in at : \E k \in 1..n : pos[k] = i
  <2>1. TAKE i \in at
  <2>2. PICK k \in 1..n : Cardinality(Before(at, i)) = k - 1
    <3>1. Cardinality(Before(at, i)) \in 0..(n - 1)
      BY <1>2, BeforeCounts
    <3>2. Cardinality(Before(at, i)) + 1 \in 1..n
      BY <1>2, <3>1
    <3> QED
      BY <3>1, <3>2
  <2>3. pos[k] = i
    <3>1. SUFFICES ASSUME pos[k] # i PROVE FALSE
      OBVIOUS
    <3>2. pos[k] < i \/ i < pos[k]
      BY <1>2, <1>3, <3>1
    <3> HIDE DEF pos
    <3>3. \/ Cardinality(Before(at, pos[k])) < Cardinality(Before(at, i))
          \/ Cardinality(Before(at, i)) < Cardinality(Before(at, pos[k]))
      BY <1>2, <1>3, <3>2, BeforeGrows
    <3> QED
      BY <1>2, <1>3, <2>2, <3>3
  <2> QED
    BY <2>3
<1>7. pos \in [1..n -> at]
  BY <1>3
<1> HIDE DEF pos
<1>8. PlacesOf(ids, at, pos)
  BY <1>4, <1>5, <1>6, <1>7 DEF PlacesOf
<1> QED
  BY <1>2, <1>8

LEMMA KeptIsList ==
  ASSUME NEW S, NEW ids \in Seq(S), NEW at \in SUBSET DOMAIN ids
  PROVE  /\ Kept(ids, at) \in Seq(S)
         /\ Len(Kept(ids, at)) = Cardinality(at) /\ Cardinality(at) \in 0..Len(ids)
         /\ DOMAIN Kept(ids, at) = 1..Cardinality(at)
<1> DEFINE n == Cardinality(at)
<1>1. PICK pos : PlacesOf(ids, at, pos)
  BY KeptInOrder
<1>2. n \in 0..Len(ids)
  BY KeptInOrder
<1>3. Kept(ids, at) = [k \in 1..n |-> ids[pos[k]]] /\ \A k \in 1..n : ids[pos[k]] \in S
  BY <1>1 DEF PlacesOf
<1> QED
  BY <1>2, <1>3

\* The last that is kept of a list, and the last but one.
LEMMA KeptEnds ==
  ASSUME NEW S, NEW ids \in Seq(S), NEW at \in SUBSET DOMAIN ids, Len(ids) \in at
  PROVE  LET kept == Kept(ids, at) IN
         /\ Len(kept) >= 1 /\ kept[Len(kept)] = ids[Len(ids)]
         /\ Len(ids) - 1 \in at =>
              Len(kept) >= 2 /\ kept[Len(kept) - 1] = ids[Len(ids) - 1]
<1> DEFINE n == Cardinality(at)
           kept == Kept(ids, at)
           last == Len(ids)
<1>1. PICK pos : PlacesOf(ids, at, pos)
  BY KeptInOrder
<1>2. n \in 0..last /\ last \in Nat /\ Len(kept) = n
  BY KeptIsList
<1>3. at \subseteq 1..last
  OBVIOUS
<1>4. \A k \in 1..n : kept[k] = ids[pos[k]] /\ pos[k] \in 1..last
  BY <1>1, <1>3 DEF PlacesOf
<1>5. PICK k \in 1..n : pos[k] = last
  BY <1>1 DEF PlacesOf
<1>6. k = n
  <2>1. SUFFICES ASSUME k < n PROVE FALSE
    BY <1>2
  <2>2. n \in 1..n
    BY <1>2, <2>1
  <2>3. pos[k] < pos[n] /\ pos[n] \in 1..last
    BY <1>1, <1>4, <2>1, <2>2 DEF PlacesOf
  <2> QED
    BY <1>2, <1>5, <2>3
<1>7. ASSUME last - 1 \in at PROVE n >= 2 /\ kept[n - 1] = ids[last - 1]
  <2>1. PICK l \in 1..n : pos[l] = last - 1
    BY <1>1, <1>7 DEF PlacesOf
  <2>2. l # n
    BY <1>2, <1>5, <1>6, <2>1
  <2>3. n >= 2 /\ l <= n - 1 /\ n - 1 \in 1..n
    BY <1>2, <2>2
  <2>4. l = n - 1
    <3>1. SUFFICES ASSUME l < n - 1 PROVE FALSE
      BY <1>2, <2>3
    <3>2. pos[l] < pos[n - 1] /\ pos[n - 1] < pos[n]
      <4>1. n - 1 < n /\ n \in 1..n
        BY <1>2, <2>3
      <4> QED
        BY <1>1, <2>3, <3>1, <4>1 DEF PlacesOf
    <3>3. pos[n - 1] \in 1..last /\ pos[n] = last
      BY <1>4, <1>5, <1>6, <2>3
    <3> QED
      BY <1>2, <2>1, <3>2, <3>3
  <2> QED
    BY <1>4, <2>1, <2>3, <2>4
<1> QED
  BY <1>2, <1>4, <1>5, <1>6, <1>7

\* Dropping repeated ids leaves the last id in its place, and the one before it too, unless
\* it is the same.
LEMMA UniqueEnds ==
  ASSUME NEW S, NEW ids \in Seq(S)
  PROVE  LET unique == Unique(ids) IN
         /\ unique \in Seq(S) /\ Len(unique) \in 0..Len(ids)
         /\ ids # <<>> => Len(unique) >= 1 /\ unique[Len(unique)] = ids[Len(ids)]
         /\ Len(ids) >= 2 /\ ids[Len(ids) - 1] # ids[Len(ids)] =>
              Len(unique) >= 2 /\ unique[Len(unique) - 1] = ids[Len(ids) - 1]
<1> DEFINE at == {i \in DOMAIN ids : \A j \in DOMAIN ids : ids[j] = ids[i] => j <= i}
<1>1. at \in SUBSET DOMAIN ids /\ Unique(ids) = Kept(ids, at)
  BY DEF Unique
<1>2. Unique(ids) \in Seq(S) /\ Len(Unique(ids)) \in 0..Len(ids)
  BY <1>1, KeptIsList
<1>3. DOMAIN ids = 1..Len(ids) /\ Len(ids) \in Nat
  OBVIOUS
<1>4. ids # <<>> => Len(ids) \in at
  BY <1>3
<1>5. Len(ids) >= 2 /\ ids[Len(ids) - 1] # ids[Len(ids)] => Len(ids) - 1 \in at
  BY <1>3
<1>6. Len(ids) >= 2 => ids # <<>>
  OBVIOUS
<1> HIDE DEF at
<1> QED
  BY <1>1, <1>2, <1>4, <1>5, <1>6, KeptEnds

\* new Set keeps every id, in the order in which they come first; and when the first two are
\* the same, it is shorter than the list.
LEMMA NewSetOrder ==
  ASSUME NEW S, NEW ids \in Seq(S)
  PROVE  LET once == NewSet(ids) IN
         /\ once \in Seq(S) /\ Len(once) \in 0..Len(ids)
         /\ Len(ids) >= 2 /\ ids[1] = ids[2] => Len(once) <= Len(ids) - 1
         /\ \A i \in DOMAIN ids : \E k \in DOMAIN once : once[k] = ids[i]
         /\ \A k, l \in DOMAIN once : k < l =>
              \A i \in DOMAIN ids : ids[i] = once[l] =>
                \E j \in 1..i : ids[j] = once[k]
         /\ ids # <<>> => Len(once) >= 1 /\ once[1] = ids[1]
<1> DEFINE at == {i \in DOMAIN ids : \A j \in DOMAIN ids : ids[j] = ids[i] => i <= j}
           n == Cardinality(at)
           once == NewSet(ids)
<1>1. at \in SUBSET DOMAIN ids /\ once = Kept(ids, at)
  BY DEF NewSet
<1>2. once \in Seq(S) /\ Len(once) = n /\ n \in 0..Len(ids) /\ DOMAIN once = 1..n
  BY <1>1, KeptIsList
<1>3. DOMAIN ids = 1..Len(ids) /\ Len(ids) \in Nat
  OBVIOUS
<1>4. PICK pos : PlacesOf(ids, at, pos)
  BY <1>1, KeptInOrder
<1>5. \A k \in 1..n : once[k] = ids[pos[k]] /\ pos[k] \in at
  BY <1>1, <1>4 DEF PlacesOf
<1>6. Len(ids) >= 2 /\ ids[1] = ids[2] => Len(once) <= Len(ids) - 1
  <2>1. SUFFICES ASSUME Len(ids) >= 2, ids[1] = ids[2] PROVE n <= Len(ids) - 1
    BY <1>2
  <2>2. at \subseteq DOMAIN ids \ {2} /\ 2 \in DOMAIN ids
    BY <1>3, <2>1
  <2>3. IsFiniteSet(DOMAIN ids) /\ Cardinality(DOMAIN ids) = Len(ids)
    <3>1. /\ IsFiniteSet(1..Len(ids))
          /\ Cardinality(1..Len(ids)) = IF 1 > Len(ids) THEN 0 ELSE Len(ids) - 1 + 1
      BY <1>3, FS_Interval
    <3> QED
      BY <3>1, <1>3
  <2>4. IsFiniteSet(DOMAIN ids \ {2}) /\ Cardinality(DOMAIN ids \ {2}) = Len(ids) - 1
    BY <2>2, <2>3, FS_RemoveElement
  <2> QED
    BY <2>2, <2>4, FS_Subset
<1>7. ASSUME NEW i \in DOMAIN ids PROVE \E k \in DOMAIN once : once[k] = ids[i]
  <2>1. PICK f \in DOMAIN ids : ids[f] = ids[i] /\ \A j \in DOMAIN ids : ids[j] = ids[i] => f <= j
    <3> DEFINE same == {j \in DOMAIN ids : ids[j] = ids[i]}
    <3>1. IsFiniteSet(same) /\ same \subseteq Nat
      BY KeptInOrder
    <3>2. PICK f \in same : Cardinality(Before(same, f)) = 0
      <4>1. same # {}
        OBVIOUS
      <4>2. Cardinality(same) \in Nat \ {0}
        BY <3>1, <4>1, FS_CardinalityType, FS_EmptySet
      <4>3. 0 \in 0..(Cardinality(same) - 1)
        BY <4>2
      <4> QED
        BY <3>1, <4>3, Ranks
    <3>3. Before(same, f) = {}
      BY <3>1, <3>2, BeforeCounts, FS_EmptySet
    <3>4. \A j \in same : f <= j
      BY <3>1, <3>3 DEF Before
    <3> QED
      BY <3>4
  <2>2. f \in at
    BY <2>1
  <2>3. PICK k \in 1..n : pos[k] = f
    BY <1>4, <2>2 DEF PlacesOf
  <2> QED
    BY <1>2, <1>5, <2>1, <2>3
<1>8. ASSUME NEW k \in DOMAIN once, NEW l \in DOMAIN once, k < l,
             NEW i \in DOMAIN ids, ids[i] = once[l]
      PROVE  \E j \in 1..i : ids[j] = once[k]
  <2>1. pos[k] < pos[l] /\ pos[k] \in at /\ pos[l] \in at
    BY <1>2, <1>4, <1>5, <1>8 DEF PlacesOf
  <2>2. pos[l] <= i
    BY <1>2, <1>5, <1>8, <2>1
  <2>3. pos[k] \in 1..i
    BY <1>3, <2>1, <2>2
  <2> QED
    BY <1>2, <1>5, <2>3
<1>9. ids # <<>> => Len(once) >= 1 /\ once[1] = ids[1]
  <2>1. SUFFICES ASSUME ids # <<>> PROVE n >= 1 /\ once[1] = ids[1]
    BY <1>2
  <2>2. 1 \in DOMAIN ids /\ 1 \in at
    BY <1>3, <2>1
  <2>3. PICK k \in 1..n : pos[k] = 1
    BY <1>4, <2>2 DEF PlacesOf
  <2>4. n >= 1 /\ 1 \in 1..n
    BY <1>2, <2>3
  <2>5. k = 1
    <3>1. SUFFICES ASSUME 1 < k PROVE FALSE
      BY <1>2, <2>3
    <3>2. pos[1] < pos[k] /\ pos[1] \in DOMAIN ids
      BY <1>4, <1>5, <2>4, <3>1 DEF PlacesOf
    <3> QED
      BY <1>3, <2>3, <3>2
  <2> QED
    BY <1>5, <2>3, <2>4, <2>5
<1> HIDE DEF at
<1> QED
  BY <1>2, <1>6, <1>7, <1>8, <1>9

LEMMA SizesAreNumbers ==
  \A id \in Ids : Size[id] \in Nat
<1>1. Size \in [Ids -> Nat]
  BY ThreadingShape DEF ThreadingShape
<1> QED
  BY <1>1

LEMMA BytesOfOne ==
  ASSUME NEW ids, ids \in Seq(Ids), Len(ids) = 1
  PROVE  Bytes(ids) = Size[ids[1]]
<1> DEFINE Sums(f) == f = [n \in 0..Len(ids) |-> IF n = 0 THEN 0 ELSE f[n - 1] + Size[ids[n]]]
           sum == CHOOSE f : Sums(f)
           shown == [n \in 0..1 |-> IF n = 0 THEN 0 ELSE Size[ids[1]]]
<1>1. ids[1] \in Ids /\ Size[ids[1]] \in Nat
  BY SizesAreNumbers
<1>2. Sums(shown)
  <2>1. /\ DOMAIN shown = 0..1 /\ shown[0] = 0 /\ shown[1] = Size[ids[1]]
    OBVIOUS
  <2>2. \A n \in 0..1 : shown[n] = IF n = 0 THEN 0 ELSE shown[n - 1] + Size[ids[n]]
    <3>1. \A n \in 0..1 : n = 0 \/ n = 1
      OBVIOUS
    <3>2. 1 - 1 = 0 /\ 0 + Size[ids[1]] = Size[ids[1]]
      BY <1>1
    <3> QED
      BY <2>1, <3>1, <3>2
  <2> HIDE DEF shown
  <2>3. shown = [n \in 0..1 |-> shown[n]]
    BY DEF shown
  <2> QED
    BY <2>1, <2>2, <2>3
<1>3. Sums(sum)
  BY <1>2
<1>4. Bytes(ids) = sum[1] + 1 - 1
  BY DEF Bytes
<1> HIDE DEF sum
<1>5. sum[0] = 0 /\ sum[1] = sum[0] + Size[ids[1]]
  BY <1>3
<1> QED
  BY <1>1, <1>4, <1>5

LEMMA BytesOfTwo ==
  ASSUME NEW ids, ids \in Seq(Ids), Len(ids) = 2
  PROVE  Bytes(ids) = Size[ids[1]] + Size[ids[2]] + 1
<1> DEFINE Sums(f) == f = [n \in 0..Len(ids) |-> IF n = 0 THEN 0 ELSE f[n - 1] + Size[ids[n]]]
           sum == CHOOSE f : Sums(f)
           shown == [n \in 0..2 |-> IF n = 0 THEN 0
                                    ELSE IF n = 1 THEN Size[ids[1]] ELSE Size[ids[1]] + Size[ids[2]]]
<1>1. /\ ids[1] \in Ids /\ Size[ids[1]] \in Nat
      /\ ids[2] \in Ids /\ Size[ids[2]] \in Nat
  BY SizesAreNumbers
<1>2. Sums(shown)
  <2>1. /\ DOMAIN shown = 0..2 /\ shown[0] = 0 /\ shown[1] = Size[ids[1]]
        /\ shown[2] = Size[ids[1]] + Size[ids[2]]
    OBVIOUS
  <2>2. \A n \in 0..2 : shown[n] = IF n = 0 THEN 0 ELSE shown[n - 1] + Size[ids[n]]
    <3>1. \A n \in 0..2 : n = 0 \/ n = 1 \/ n = 2
      OBVIOUS
    <3>2. 1 - 1 = 0 /\ 2 - 1 = 1 /\ 0 + Size[ids[1]] = Size[ids[1]]
      BY <1>1
    <3> QED
      BY <2>1, <3>1, <3>2
  <2> HIDE DEF shown
  <2>3. shown = [n \in 0..2 |-> shown[n]]
    BY DEF shown
  <2> QED
    BY <2>1, <2>2, <2>3
<1>3. Sums(sum)
  BY <1>2
<1>4. Bytes(ids) = sum[2] + 2 - 1
  BY DEF Bytes
<1> HIDE DEF sum
<1>5. sum[0] = 0 /\ sum[1] = sum[0] + Size[ids[1]] /\ sum[2] = sum[1] + Size[ids[2]]
  BY <1>3
<1> QED
  BY <1>1, <1>4, <1>5

\* What fits is never more than the count, and at least one, or two, that take no more bytes.
LEMMA FittingBounds ==
  ASSUME NEW ids \in Seq(Ids), NEW count \in Nat, NEW bytes \in Nat
  PROVE  /\ Fitting(ids, count, bytes) \in 0..Len(ids) /\ Fitting(ids, count, bytes) <= count
         /\ Len(ids) >= 1 /\ count >= 1 /\ Size[ids[Len(ids)]] <= bytes =>
              Fitting(ids, count, bytes) >= 1
         /\ /\ Len(ids) >= 2 /\ count >= 2
            /\ Size[ids[Len(ids) - 1]] + Size[ids[Len(ids)]] + 1 <= bytes
            => Fitting(ids, count, bytes) >= 2
<1> DEFINE fits == {n \in 0..Len(ids) :
              n <= count /\ (n > 0 => Bytes(SubSeq(ids, Len(ids) - n + 1, Len(ids))) <= bytes)}
           last == Len(ids)
<1>1. Fitting(ids, count, bytes) = Max(fits)
  BY DEF Fitting
<1>2. last \in Nat
  OBVIOUS
<1>3. IsFiniteSet(fits) /\ fits \subseteq Nat /\ fits # {}
  <2>1. IsFiniteSet(0..last)
    BY <1>2, FS_Interval
  <2>2. 0 \in fits
    BY <1>2
  <2> QED
    BY <2>1, <2>2, FS_Subset
<1>4. Max(fits) \in fits /\ \A n \in fits : n <= Max(fits)
  BY <1>3, HasGreatest
<1>5. ASSUME last >= 1, count >= 1, Size[ids[last]] <= bytes PROVE 1 \in fits
  <2> DEFINE newest == SubSeq(ids, last, last)
  <2>1. newest \in Seq(Ids) /\ Len(newest) = 1 /\ newest[1] = ids[last]
    BY <1>2, <1>5
  <2>2. Bytes(newest) = Size[ids[last]]
    BY <2>1, BytesOfOne
  <2>3. last - 1 + 1 = last
    BY <1>2
  <2> HIDE DEF newest
  <2>4. Bytes(SubSeq(ids, last - 1 + 1, last)) <= bytes
    BY <1>5, <2>2, <2>3 DEF newest
  <2> QED
    BY <1>2, <1>5, <2>4
<1>6. ASSUME last >= 2, count >= 2, Size[ids[last - 1]] + Size[ids[last]] + 1 <= bytes
      PROVE  2 \in fits
  <2> DEFINE newest == SubSeq(ids, last - 1, last)
  <2>1. /\ newest \in Seq(Ids) /\ Len(newest) = 2
        /\ newest[1] = ids[last - 1] /\ newest[2] = ids[last]
    BY <1>2, <1>6
  <2>2. Bytes(newest) = Size[ids[last - 1]] + Size[ids[last]] + 1
    BY <2>1, BytesOfTwo
  <2>3. last - 2 + 1 = last - 1
    BY <1>2
  <2> HIDE DEF newest
  <2>4. Bytes(SubSeq(ids, last - 2 + 1, last)) <= bytes
    BY <1>6, <2>2, <2>3 DEF newest
  <2> QED
    BY <1>2, <1>6, <2>4
<1>7. Max(fits) \in 0..last /\ Max(fits) <= count
  BY <1>4
<1> HIDE DEF fits
<1> QED
  BY <1>1, <1>2, <1>4, <1>5, <1>6, <1>7

\* What normalization keeps of a list ends with its last id, if that fits; and with the last
\* two, if they differ and fit.
LEMMA NormalizedEnds ==
  ASSUME NEW ids \in Seq(Ids), NEW count \in Nat, NEW bytes \in Nat
  PROVE  LET kept == NormalizedReferences(ids, count, bytes)
             last == Len(ids) IN
         /\ kept \in Seq(Ids) /\ Len(kept) \in 0..last /\ Len(kept) <= count
         /\ last >= 1 /\ count >= 1 /\ Size[ids[last]] <= bytes =>
              Len(kept) >= 1 /\ kept[Len(kept)] = ids[last]
         /\ /\ last >= 2 /\ count >= 2 /\ ids[last - 1] # ids[last]
            /\ Size[ids[last - 1]] + Size[ids[last]] + 1 <= bytes
            => /\ Len(kept) >= 2 /\ kept[Len(kept)] = ids[last]
               /\ kept[Len(kept) - 1] = ids[last - 1]
<1> DEFINE unique == Unique(ids)
           n == Len(unique)
           fit == Fitting(unique, count, bytes)
           kept == NormalizedReferences(ids, count, bytes)
           last == Len(ids)
<1>1. unique \in Seq(Ids) /\ n \in 0..last /\ last \in Nat
  BY UniqueEnds
<1>2. kept = SubSeq(unique, n - fit + 1, n)
  BY DEF NormalizedReferences
<1>3. fit \in 0..n /\ fit <= count
  BY <1>1, FittingBounds
<1>4. last >= 1 => n >= 1 /\ unique[n] = ids[last]
  BY UniqueEnds
<1>5. last >= 2 /\ ids[last - 1] # ids[last] => n >= 2 /\ unique[n - 1] = ids[last - 1]
  BY UniqueEnds
<1>6. last >= 1 /\ count >= 1 /\ Size[ids[last]] <= bytes => fit >= 1
  BY <1>1, <1>4, FittingBounds
<1>7. /\ last >= 2 /\ count >= 2 /\ ids[last - 1] # ids[last]
      /\ Size[ids[last - 1]] + Size[ids[last]] + 1 <= bytes
      => fit >= 2
  <2>1. SUFFICES ASSUME last >= 2, count >= 2, ids[last - 1] # ids[last],
                        Size[ids[last - 1]] + Size[ids[last]] + 1 <= bytes
                 PROVE  fit >= 2
    OBVIOUS
  <2>2. n >= 2 /\ unique[n - 1] = ids[last - 1] /\ unique[n] = ids[last]
    BY <1>1, <1>4, <1>5, <2>1
  <2>3. Size[unique[n - 1]] + Size[unique[n]] + 1 <= bytes
    BY <2>1, <2>2
  <2> HIDE DEF unique
  <2> QED
    BY <1>1, <2>1, <2>2, <2>3, FittingBounds
<1> HIDE DEF unique, fit, kept
<1>8. kept \in Seq(Ids) /\ Len(kept) = fit /\ \A k \in 1..fit : kept[k] = unique[n - fit + k]
  <2>1. n - fit + 1 \in 1..(n + 1) /\ n \in 0..Len(unique)
    BY <1>1, <1>3
  <2>2. kept \in Seq(Ids) /\ Len(kept) = fit
    BY <1>1, <1>2, <1>3, <2>1
  <2>3. \A k \in 1..fit : kept[k] = unique[n - fit + k]
    BY <1>1, <1>2, <1>3, <2>1
  <2> QED
    BY <2>2, <2>3
<1>9. fit >= 1 => kept[fit] = unique[n]
  BY <1>1, <1>3, <1>8
<1>10. fit >= 2 => kept[fit - 1] = unique[n - 1]
  <2>1. SUFFICES ASSUME fit >= 2 PROVE kept[fit - 1] = unique[n - 1]
    OBVIOUS
  <2>2. fit - 1 \in 1..fit /\ n - fit + (fit - 1) = n - 1
    BY <1>1, <1>3, <2>1
  <2> QED
    BY <1>8, <2>2
<1>11. Len(kept) \in 0..last
  BY <1>1, <1>3, <1>8
<1> QED
  BY <1>3, <1>4, <1>5, <1>6, <1>7, <1>8, <1>9, <1>10, <1>11 DEF kept

LEMMA NoneIsNoId ==
  None \notin Ids /\ Messages \subseteq Ids /\ None \notin Messages /\ None \notin Mails
BY ThreadingShape DEF ThreadingShape, Ids, Messages

\* The references of a mail and, after them, the message it replies to: the nearer to the mail,
\* the further to the right.
Chain(m) == Append(Parsed(m), letters[m].inReplyTo)

\* The headers that a mail program writes.
ChainOrNone(m) ==
  /\ letters[m].references \in Seq(Ids) /\ letters[m].inReplyTo \in Ids \cup {None}
  /\ letters[m].inReplyTo = None => letters[m].references = <<>>
  /\ letters[m].references # <<>> =>
       letters[m].references[Len(letters[m].references)] = letters[m].inReplyTo

LEMMA LookedUpIsOnce ==
  ASSUME NEW ids \in Seq(Ids), Len(NewSet(ids)) <= LookupLimit
  PROVE  LookedUp(ids) \in Seq(Ids) /\ Len(LookedUp(ids)) = Len(NewSet(ids))
         /\ \A k \in 1..Len(NewSet(ids)) : LookedUp(ids)[k] = NewSet(ids)[k]
<1> DEFINE once == NewSet(ids)
<1>1. once \in Seq(Ids) /\ Len(once) \in Nat
  BY NewSetOrder
<1>2. LookupLimit \in Nat
  BY ThreadingShape DEF ThreadingShape
<1>3. LookedUp(ids) = SubSeq(once, 1, Len(once))
  BY <1>1, <1>2 DEF LookedUp
<1> HIDE DEF once
<1>4. SubSeq(once, 1, Len(once)) = once
  BY <1>1
<1> QED
  BY <1>1, <1>3, <1>4 DEF once

\* A capture looks up all of the chain, the nearest first.
LEMMA NamesOfChain ==
  ASSUME NEW m \in Mails, ChainOrNone(m)
  PROVE  /\ Parsed(m) \in Seq(Ids) /\ Names(m) \in Seq(Ids)
         /\ \A i \in DOMAIN Chain(m) : Chain(m)[i] \in Ids =>
              \E p \in DOMAIN Names(m) : Names(m)[p] = Chain(m)[i]
         /\ \A p, q \in DOMAIN Names(m) : p < q =>
              \A i \in DOMAIN Chain(m) : Chain(m)[i] = Names(m)[q] =>
                \E j \in i..Len(Chain(m)) : Chain(m)[j] = Names(m)[p]
<1> DEFINE written == letters[m].references
           answered == letters[m].inReplyTo
           parsed == Parsed(m)
           chain == Chain(m)
           sought == Sought(m, Reverse(parsed))
           once == NewSet(sought)
<1>1. /\ InboundLimit \in Nat \ {0, 1} /\ LookupLimit \in Nat /\ InboundLimit <= LookupLimit
      /\ InboundBytes \in Nat /\ \A id \in Ids : Size[id] <= InboundBytes
  <2>1. /\ InboundLimit \in Nat \ {0, 1} /\ LookupLimit \in Nat /\ InboundLimit <= LookupLimit
        /\ InboundBytes \in Nat /\ \A id, next \in Ids : Size[id] + Size[next] + 1 <= InboundBytes
    BY ThreadingShape DEF ThreadingShape
  <2> QED
    BY <2>1, SizesAreNumbers
<1>2. /\ written \in Seq(Ids) /\ answered \in Ids \cup {None}
      /\ answered = None => written = <<>>
      /\ written # <<>> => written[Len(written)] = answered
  BY DEF ChainOrNone
<1>3. /\ parsed \in Seq(Ids) /\ Len(parsed) \in 0..Len(written) /\ Len(parsed) <= InboundLimit
      /\ written # <<>> => Len(parsed) >= 1 /\ parsed[Len(parsed)] = answered
  <2>1. parsed = NormalizedReferences(written, InboundLimit, InboundBytes)
    BY DEF Parsed
  <2>2. written # <<>> => Len(written) >= 1 /\ Size[written[Len(written)]] <= InboundBytes
    BY <1>1, <1>2
  <2> HIDE DEF parsed, written
  <2> QED
    BY <1>1, <1>2, <2>1, <2>2, NormalizedEnds
<1>4. CASE answered = None
  <2>1. written = <<>>
    BY <1>2, <1>4
  <2>2. Len(parsed) = 0 /\ parsed = <<>>
    BY <1>3, <2>1
  <2>3. Len(chain) = 1 /\ chain[1] = None /\ DOMAIN chain = {1}
    BY <1>4, <2>2 DEF Chain
  <2>4. sought \in Seq(Ids) /\ Len(sought) = 0
    BY <1>4, <2>2 DEF Sought, Reverse
  <2> HIDE DEF sought
  <2>5. Len(once) = 0
    <3>1. Len(once) \in 0..Len(sought)
      BY <2>4, NewSetOrder
    <3> QED
      BY <2>4, <3>1
  <2>6. Names(m) \in Seq(Ids) /\ Len(Names(m)) = 0 /\ DOMAIN Names(m) = {}
    <3>1. Names(m) = LookedUp(sought)
      BY DEF Names, sought
    <3>2. Names(m) \in Seq(Ids) /\ Len(Names(m)) = 0
      <4>1. Len(NewSet(sought)) <= LookupLimit
        BY <1>1, <2>5
      <4> QED
        BY <2>4, <2>5, <3>1, <4>1, LookedUpIsOnce
    <3> QED
      BY <3>2
  <2> QED
    BY <1>3, <2>3, <2>6, NoneIsNoId
<1>5. CASE answered \in Ids
  <2> DEFINE n == Len(chain)
  <2> HIDE DEF parsed
  <2>1. n = Len(parsed) + 1 /\ chain \in Seq(Ids) /\ n \in Nat
    BY <1>3, <1>5 DEF Chain, parsed
  <2>2. /\ chain[n] = answered
        /\ \A i \in 1..Len(parsed) : chain[i] = parsed[i]
    BY <1>3, <1>5, <2>1 DEF Chain, parsed
  <2>3. sought \in Seq(Ids) /\ Len(sought) = n /\ \A i \in 1..n : sought[i] = chain[n + 1 - i]
    <3> DEFINE turned == Reverse(parsed)
    <3>1. /\ turned \in Seq(Ids) /\ Len(turned) = Len(parsed)
          /\ \A i \in 1..Len(parsed) : turned[i] = parsed[Len(parsed) - i + 1]
      <4>1. \A i \in 1..Len(parsed) : Len(parsed) - i + 1 \in 1..Len(parsed)
        BY <1>3
      <4>2. turned = [i \in 1..Len(parsed) |-> parsed[Len(parsed) - i + 1]]
        BY DEF Reverse
      <4> QED
        BY <1>3, <4>1, <4>2
    <3> HIDE DEF turned
    <3>2. sought = <<answered>> \o turned
      <4>1. answered # None
        BY <1>5, NoneIsNoId
      <4> QED
        BY <4>1 DEF Sought, turned
    <3>3. sought \in Seq(Ids) /\ Len(sought) = n /\ sought[1] = answered
      BY <1>5, <2>1, <3>1, <3>2
    <3>4. ASSUME NEW i \in 1..n PROVE sought[i] = chain[n + 1 - i]
      <4>1. CASE i = 1
        BY <2>1, <2>2, <3>3, <4>1
      <4>2. CASE i # 1
        <5>1. i - 1 \in 1..Len(parsed) /\ n + 1 - i \in 1..Len(parsed)
          BY <1>3, <2>1, <4>2
        <5>2. sought[i] = turned[i - 1]
          BY <1>5, <2>1, <3>1, <3>2, <4>2, <5>1
        <5>3. turned[i - 1] = parsed[Len(parsed) - (i - 1) + 1] /\ Len(parsed) - (i - 1) + 1 = n + 1 - i
          BY <1>3, <2>1, <3>1, <5>1
        <5> QED
          BY <2>2, <5>1, <5>2, <5>3
      <4> QED
        BY <4>1, <4>2
    <3> QED
      BY <3>3, <3>4
  <2>4. Len(once) <= LookupLimit
    <3>1. CASE written = <<>>
      <4>1. Len(sought) = 1
        BY <1>3, <2>1, <2>3, <3>1
      <4>2. Len(once) <= 1 /\ Len(once) \in Nat
        BY <2>3, <4>1, NewSetOrder
      <4> QED
        BY <1>1, <4>2
    <3>2. CASE written # <<>>
      <4>1. n >= 2 /\ chain[n] = chain[n - 1]
        BY <1>3, <2>1, <2>2, <3>2
      <4>2. sought[1] = chain[n] /\ sought[2] = chain[n - 1]
        <5>1. 1 \in 1..n /\ 2 \in 1..n /\ n + 1 - 1 = n /\ n + 1 - 2 = n - 1
          BY <2>1, <4>1
        <5> QED
          BY <2>3, <5>1
      <4>3. Len(once) <= n - 1 /\ Len(once) \in Nat
        BY <2>3, <4>1, <4>2, NewSetOrder
      <4> QED
        BY <1>1, <1>3, <2>1, <4>3
    <3> QED
      BY <3>1, <3>2
  <2>5. /\ Names(m) \in Seq(Ids) /\ DOMAIN Names(m) = DOMAIN once
        /\ \A k \in DOMAIN once : Names(m)[k] = once[k]
    <3>1. Names(m) = LookedUp(sought)
      BY DEF Names, parsed
    <3>2. once \in Seq(Ids) /\ DOMAIN once = 1..Len(once)
      BY <2>3, NewSetOrder
    <3>3. /\ Names(m) \in Seq(Ids) /\ Len(Names(m)) = Len(once)
          /\ \A k \in 1..Len(once) : Names(m)[k] = once[k]
      BY <2>3, <2>4, <3>1, LookedUpIsOnce
    <3> QED
      BY <3>2, <3>3
  <2>6. DOMAIN sought = 1..n /\ DOMAIN chain = 1..n
    BY <2>1, <2>3
  <2> HIDE DEF chain, sought, once, written, answered
  <2>7. ASSUME NEW i \in DOMAIN chain
        PROVE  \E p \in DOMAIN Names(m) : Names(m)[p] = chain[i]
    <3>1. n + 1 - i \in 1..n /\ n + 1 - (n + 1 - i) = i
      BY <2>1, <2>6
    <3>2. sought[n + 1 - i] = chain[i]
      BY <2>3, <3>1
    <3>3. \E p \in DOMAIN once : once[p] = sought[n + 1 - i]
      <4>1. \A k \in DOMAIN sought : \E p \in DOMAIN once : once[p] = sought[k]
        BY <2>3, NewSetOrder DEF once
      <4> QED
        BY <2>6, <3>1, <4>1
    <3> QED
      BY <2>5, <3>2, <3>3
  <2>8. ASSUME NEW p \in DOMAIN Names(m), NEW q \in DOMAIN Names(m), p < q,
               NEW i \in DOMAIN chain, chain[i] = Names(m)[q]
        PROVE  \E j \in i..n : chain[j] = Names(m)[p]
    <3>1. /\ n + 1 - i \in 1..n /\ n + 1 - (n + 1 - i) = i
          /\ \A k \in 1..(n + 1 - i) : n + 1 - k \in i..n /\ k \in 1..n
      BY <2>1, <2>6
    <3>2. sought[n + 1 - i] = once[q]
      BY <2>3, <2>5, <2>8, <3>1
    <3>3. PICK k \in 1..(n + 1 - i) : sought[k] = once[p]
      <4>1. \A k, l \in DOMAIN once : k < l =>
              \A e \in DOMAIN sought : sought[e] = once[l] => \E j \in 1..e : sought[j] = once[k]
        BY <2>3, NewSetOrder DEF once
      <4> QED
        BY <2>5, <2>6, <2>8, <3>1, <3>2, <4>1
    <3>4. chain[n + 1 - k] = Names(m)[p] /\ n + 1 - k \in i..n
      BY <2>3, <2>5, <3>1, <3>3
    <3> QED
      BY <3>4
  <2> QED
    BY <1>3, <2>5, <2>7, <2>8 DEF chain, parsed
<1> QED
  BY <1>2, <1>4, <1>5

\* A mail that hands on a list whose last id is another keeps both at the end.
LEMMA ParsedEnds ==
  ASSUME NEW m \in Mails, NEW refs \in Seq(Ids), NEW id \in Ids,
         letters[m].references = Append(refs, id),
         refs # <<>>, refs[Len(refs)] # id
  PROVE  /\ Parsed(m) \in Seq(Ids) /\ Len(Parsed(m)) >= 2
         /\ Parsed(m)[Len(Parsed(m))] = id
         /\ Parsed(m)[Len(Parsed(m)) - 1] = refs[Len(refs)]
<1> DEFINE written == Append(refs, id)
<1>1. /\ InboundLimit \in Nat \ {0, 1} /\ InboundBytes \in Nat
      /\ \A one, next \in Ids : Size[one] + Size[next] + 1 <= InboundBytes
  BY ThreadingShape DEF ThreadingShape
<1>2. /\ written \in Seq(Ids) /\ Len(written) = Len(refs) + 1 /\ Len(refs) >= 1
      /\ written[Len(written)] = id /\ written[Len(written) - 1] = refs[Len(refs)]
      /\ refs[Len(refs)] \in Ids
  OBVIOUS
<1>3. Parsed(m) = NormalizedReferences(written, InboundLimit, InboundBytes)
  BY DEF Parsed
<1> HIDE DEF written
<1>4. /\ Len(written) >= 2 /\ InboundLimit >= 2
      /\ written[Len(written) - 1] # written[Len(written)]
      /\ Size[written[Len(written) - 1]] + Size[written[Len(written)]] + 1 <= InboundBytes
  BY <1>1, <1>2
<1> QED
  BY <1>1, <1>2, <1>3, <1>4, NormalizedEnds

LEMMA AppendedEnds ==
  ASSUME NEW refs \in Seq(Ids), NEW id \in Ids \cup {None}, NEW bytes \in Nat
  PROVE  LET kept == AppendedReference(refs, id, bytes) IN
         /\ kept \in Seq(Ids)
         /\ id # None /\ Size[id] <= bytes => kept # <<>> /\ kept[Len(kept)] = id
<1> DEFINE list == IF id = None THEN refs ELSE Append(refs, id)
           kept == AppendedReference(refs, id, bytes)
<1>1. ReplyLimit \in Nat \ {0}
  BY ThreadingShape DEF ThreadingShape
<1>2. list \in Seq(Ids) /\ (id # None => Len(list) >= 1 /\ list[Len(list)] = id)
  OBVIOUS
<1>3. kept = NormalizedReferences(list, ReplyLimit, bytes)
  BY DEF AppendedReference
<1> HIDE DEF list, kept
<1>4. kept \in Seq(Ids)
  BY <1>1, <1>2, <1>3, NormalizedEnds
<1>5. id # None /\ Size[id] <= bytes => Len(kept) >= 1 /\ kept[Len(kept)] = id
  BY <1>1, <1>2, <1>3, NormalizedEnds
<1>6. Len(kept) >= 1 => kept # <<>>
  BY <1>4
<1> QED
  BY <1>4, <1>5, <1>6 DEF kept

LEMMA ReplyEnds ==
  ASSUME NEW m \in Mails, OnRecord(m) \in Seq(Ids), NEW copy \in Ids \cup {None}
  PROVE  LET kept == ReplyReferences(m, copy) IN
         kept \in Seq(Ids) /\ kept # <<>> /\ kept[Len(kept)] = m
<1>1. /\ m \in Ids /\ m # None /\ InnerBytes \in Nat /\ OuterBytes \in Nat /\ Size[m] <= OuterBytes
  <2>1. /\ m \in Ids /\ m # None
    BY NoneIsNoId DEF Messages
  <2>2. InnerBytes \in Nat /\ OuterBytes \in Nat /\ \A id \in Ids : Size[id] <= OuterBytes
    BY ThreadingShape DEF ThreadingShape
  <2> QED
    BY <2>1, <2>2
<1>2. AppendedReference(OnRecord(m), copy, InnerBytes) \in Seq(Ids)
  BY <1>1, AppendedEnds
<1> QED
  BY <1>1, <1>2, AppendedEnds DEF ReplyReferences

-------------------------------------------------------------------------------
(* The invariant *)

People == {From[n] : n \in Messages} \cup {row.address : row \in Addressed}
PeopleIn(t) == {From[n] : n \in In(t)} \cup {row.address : row \in RowsOf(t)}

Headers == [parent : Messages \cup {None, "unwritten"}, inReplyTo : Ids \cup {None},
            references : Seq(Ids)]
SendRows == [step : {"none", "delivered", "refused", "recorded", "failed"},
             target : Mails \cup {None}, thread : Messages \cup {None}, references : Seq(Ids)]
MessageRows == [thread : Messages \cup {None}, ids : SUBSET Ids]
Tasks == [step : {"none", "naming", "reading", "decided", "stored"}, names : Seq(Ids),
          candidates : SUBSET Messages, reading : Messages \cup {None},
          senders : (SUBSET People) \cup {None}, recipients : (SUBSET People) \cup {None},
          matching : SUBSET Messages, found : Messages \cup {None},
          via : {None, "named", "subject", "new"}]

\* Every variable has its type.
TypeOK ==
  /\ letters \in [Mails -> Headers]
  /\ sends \in [Replies -> SendRows]
  /\ messages \in [Messages -> MessageRows]
  /\ threads \subseteq Messages
  /\ tasks \in [Mails -> Tasks]
  /\ known \in [Mails -> SUBSET Messages]

\* A message is found by ids of its own only, a mail by its id at least.  The row of a reply
\* is in the thread of the send, and comes after it.
RowsOK ==
  /\ \A m \in Mails : messages[m].ids \subseteq {m, CopyOf(m)} /\ (m \in Stored => m \in messages[m].ids)
  /\ \A r \in Replies :
       /\ messages[r].ids \subseteq {r}
       /\ r \in Stored => sends[r].step \in {"recorded", "failed"} /\ messages[r].thread = sends[r].thread

\* A reply is sent in the thread of the message it answers.
SendsOK ==
  \A r \in Replies :
    /\ sends[r].step # "none" => sends[r].thread # None
    /\ sends[r].target # None =>
         /\ sends[r].step # "none" /\ sends[r].target \in Stored
         /\ messages[sends[r].target].thread = sends[r].thread

\* What a reply was sent with ends with the message it answers.
SendsCite ==
  \A r \in Replies : sends[r].target # None =>
    /\ sends[r].references # <<>>
    /\ sends[r].references[Len(sends[r].references)] = sends[r].target

\* A mail answers what has been written, and hands on what that was sent with.
LetterOK(m) ==
  LET letter == letters[m] IN
  /\ ChainOrNone(m)
  /\ letter.inReplyTo # None =>
       /\ letter.parent = letter.inReplyTo /\ letter.parent \in Messages
       /\ letter.references # <<>> => letter.references = Append(ReferencesOf(letter.parent), letter.parent)
       /\ letter.parent \in Replies => sends[letter.parent].step # "none"
       /\ letter.parent \in Mails => letters[letter.parent] # NotWritten

LettersOK == \A m \in Mails : LetterOK(m)

\* A message is known by its own id.
Held(m, id) == id \in known[m] /\ id \in messages[id].ids

\* The thread has a message that the mail names, no further from it than any that is held.
Joins(m, thread) ==
  \A i \in DOMAIN Chain(m) :
    Held(m, Chain(m)[i]) =>
      \E j \in i..Len(Chain(m)), n \in Stored \ {m} :
        Chain(m)[j] \in messages[n].ids /\ messages[n].thread = thread

LeavesNobodyOut(m, thread) ==
  Fits(thread) =>
    \A n \in known[m] : messages[n].thread = thread => PeopleOf(n) \subseteq PeopleOf(m)

\* What is held is still to be looked up, after nothing but what is nearer to the mail.
NamingOK(m, names) ==
  /\ \A i \in DOMAIN Chain(m) :
       Held(m, Chain(m)[i]) => \E p \in DOMAIN names : names[p] = Chain(m)[i]
  /\ \A p, q \in DOMAIN names : p < q =>
       \A i \in DOMAIN Chain(m) : Chain(m)[i] = names[q] =>
         \E j \in i..Len(Chain(m)) : Chain(m)[j] = names[p]

\* The threads that match leave nobody out, and of the one that is read, the first answer has
\* people of that thread only, and if its rows fit, all that was known when the capture began.
ReadingOK(m, task) ==
  /\ \A t \in task.matching : LeavesNobodyOut(m, t)
  /\ task.reading = None => task.senders = None /\ task.recipients = None
  /\ task.reading # None =>
       /\ task.senders = None \/ task.senders \subseteq PeopleIn(task.reading)
       /\ task.recipients = None \/ task.recipients \subseteq PeopleIn(task.reading)
  /\ task.reading # None /\ Fits(task.reading) =>
       \A n \in known[m] : messages[n].thread = task.reading =>
         /\ task.senders = None \/ From[n] \in task.senders
         /\ task.recipients = None \/ Recipients[n] \subseteq task.recipients

DecisionOK(m, thread, via) ==
  /\ Joins(m, thread)
  /\ via = "subject" => thread # None /\ LeavesNobodyOut(m, thread)

\* Candidates are read only when nothing is held.
TaskOK(m, task) ==
  /\ task.step = "naming" => NamingOK(m, task.names)
  /\ task.step = "reading" => Joins(m, None) /\ ReadingOK(m, task)
  /\ task.step = "decided" => DecisionOK(m, task.found, task.via)
  /\ task.reading # None => task.step = "reading"

\* The answered message of a reply that the mail cites was there when the capture began.
TargetKnown(m) ==
  LET reply == letters[m].parent IN
  letters[m].inReplyTo # None /\ reply \in Replies /\ sends[reply].target # None =>
    sends[reply].target \in known[m]

CaptureOK(m) ==
  /\ tasks[m].step # "none" =>
       letters[m] # NotWritten /\ known[m] \subseteq Stored \ {m} /\ TargetKnown(m)
  /\ m \in Stored <=> tasks[m].step = "stored"
  /\ TaskOK(m, tasks[m])
  /\ tasks[m].step = "stored" => DecisionOK(m, messages[m].thread, tasks[m].via)

CapturesOK == \A m \in Mails : CaptureOK(m)

IInv == TypeOK /\ RowsOK /\ SendsOK /\ LettersOK /\ CapturesOK

-------------------------------------------------------------------------------
(* The first state, and types *)

LEMMA NullRows ==
  NoHeaders \in Headers /\ NotWritten \in Headers /\ NoSend \in SendRows
  /\ NoMessage \in MessageRows /\ NoTask \in Tasks
<1>1. <<>> \in Seq(Ids)
  OBVIOUS
<1>2. NoHeaders \in Headers /\ NotWritten \in Headers
  BY <1>1 DEF NoHeaders, NotWritten, Headers
<1>3. NoSend \in SendRows
  BY <1>1 DEF NoSend, SendRows
<1>4. NoMessage \in MessageRows
  BY DEF NoMessage, MessageRows
<1>5. NoTask \in Tasks
  BY <1>1 DEF NoTask, Tasks
<1> QED
  BY <1>2, <1>3, <1>4, <1>5

LEMMA InitIInv == Init => IInv
<1> SUFFICES ASSUME Init PROVE IInv
  OBVIOUS
<1>1. TypeOK
  BY NullRows DEF Init, TypeOK
<1> USE DEF Init, NoHeaders, NotWritten, NoSend, NoMessage, NoTask
<1>2. Stored = {}
  BY DEF Stored
<1>3. RowsOK
  BY <1>2, NoneIsNoId DEF RowsOK, Messages
<1>4. SendsOK
  BY DEF SendsOK
<1>5. LettersOK
  <2>1. <<>> \in Seq(Ids)
    OBVIOUS
  <2> QED
    BY <2>1 DEF LettersOK, LetterOK, ChainOrNone
<1>6. CapturesOK
  BY <1>2 DEF CapturesOK, CaptureOK, TaskOK
<1> QED
  BY <1>1, <1>3, <1>4, <1>5, <1>6 DEF IInv

LEMMA Rows ==
  ASSUME TypeOK
  PROVE  /\ \A m \in Mails :
              /\ letters[m] \in Headers /\ letters[m].references \in Seq(Ids)
              /\ tasks[m] \in Tasks /\ known[m] \subseteq Messages
              /\ m \in Messages
         /\ \A r \in Replies :
              /\ sends[r] \in SendRows /\ sends[r].references \in Seq(Ids)
              /\ r \in Messages /\ r \notin Mails
         /\ \A n \in Messages : messages[n] \in MessageRows /\ (n \in Mails \/ n \in Replies)
         /\ Stored \subseteq Messages
<1>1. Mails \cap Replies = {}
  BY ThreadingShape DEF ThreadingShape
<1> QED
  BY <1>1 DEF TypeOK, Headers, SendRows, MessageRows, Messages, Stored

\* The rows of some messages, and the people in them, are finitely many.
LEMMA PeopleAreFinite ==
  ASSUME NEW some \in SUBSET Messages
  PROVE  LET rows == {row \in Addressed : row.message \in some} IN
         /\ IsFiniteSet(some) /\ IsFiniteSet(rows)
         /\ IsFiniteSet({From[n] : n \in some} \cup {row.address : row \in rows})
<1> DEFINE rows      == {row \in Addressed : row.message \in some}
           senders   == {From[n] : n \in some}
           addresses == {row.address : row \in rows}
<1>1. IsFiniteSet(Messages) /\ IsFiniteSet(Addressed)
  BY ThreadingShape, FS_Union DEF ThreadingShape, Messages
<1>2. IsFiniteSet(some)
  BY <1>1, FS_Subset
<1>3. IsFiniteSet(rows)
  <2>1. rows \in SUBSET Addressed
    OBVIOUS
  <2> QED
    BY <1>1, <2>1, FS_Subset
<1>4. IsFiniteSet(senders)
  <2>1. [n \in some |-> From[n]] \in Surjection(some, senders)
    BY DEF Surjection
  <2> QED
    BY <1>2, <2>1, FS_Surjection
<1>5. IsFiniteSet(addresses)
  <2>1. [row \in rows |-> row.address] \in Surjection(rows, addresses)
    BY DEF Surjection
  <2> QED
    BY <1>3, <2>1, FS_Surjection
<1>6. IsFiniteSet(senders \cup addresses)
  BY <1>4, <1>5, FS_Union
<1> QED
  BY <1>2, <1>3, <1>6

\* A limit leaves nothing else, and all that fits.
LEMMA LimitLeaves ==
  ASSUME NEW limit, NEW rows, NEW left \in LimitedTo(limit, rows)
  PROVE  left \subseteq rows /\ (Cardinality(rows) <= limit => left = rows)
BY DEF LimitedTo, kSubset

\* The answers of the two queries hold people of the thread, and if its rows fit, all of them.
LEMMA AnswersArePeople ==
  ASSUME NEW t
  PROVE  /\ \A senders \in Senders(t) :
              /\ senders \subseteq PeopleIn(t)
              /\ Fits(t) => senders = {From[n] : n \in In(t)}
         /\ \A recipients \in Addressees(t) :
              /\ recipients \subseteq PeopleIn(t)
              /\ Fits(t) => recipients = {row.address : row \in RowsOf(t)}
<1>1. ASSUME NEW senders \in Senders(t)
      PROVE  senders \subseteq PeopleIn(t) /\ (Fits(t) => senders = {From[n] : n \in In(t)})
  <2>1. PICK read \in LimitedTo(RowLimit, In(t)) : senders = {From[n] : n \in read}
    BY DEF Senders
  <2>2. read \subseteq In(t) /\ (Fits(t) => read = In(t))
    BY LimitLeaves DEF Fits
  <2> QED
    BY <2>1, <2>2 DEF PeopleIn
<1>2. ASSUME NEW recipients \in Addressees(t)
      PROVE  /\ recipients \subseteq PeopleIn(t)
             /\ Fits(t) => recipients = {row.address : row \in RowsOf(t)}
  <2>1. PICK read \in LimitedTo(RowLimit, RowsOf(t)) : recipients = {row.address : row \in read}
    BY DEF Addressees, AddressesIn
  <2>2. read \subseteq RowsOf(t) /\ (Fits(t) => read = RowsOf(t))
    BY LimitLeaves DEF Fits
  <2> QED
    BY <2>1, <2>2 DEF PeopleIn
<1> QED
  BY <1>1, <1>2

\* They are people who wrote or are addressed, also those of a thread.
LEMMA AnswersType ==
  ASSUME TypeOK, NEW t
  PROVE  /\ PeopleIn(t) \subseteq People
         /\ Senders(t) \subseteq SUBSET People /\ Addressees(t) \subseteq SUBSET People
<1>1. PeopleIn(t) \subseteq People
  BY Rows DEF PeopleIn, People, In, RowsOf
<1> QED
  BY <1>1, AnswersArePeople

\* A capture goes on to read another candidate, or to what it decided.
LEMMA ResolvesTo ==
  ASSUME NEW m \in Mails, NEW candidates \in SUBSET Messages, NEW matching \in SUBSET Messages,
         Resolves(m, candidates, matching)
  PROVE  \E task \in Tasks :
           /\ Becomes(m, task) /\ task.reading = None
           /\ \/ /\ task.step = "reading" /\ task.matching = matching
                 /\ task.senders = None /\ task.recipients = None
              \/ task.step = "decided" /\ task.found = None /\ task.via = "new"
              \/ task.step = "decided" /\ task.found \in matching /\ task.via = "subject"
<1>1. NoTask \in Tasks
  BY NullRows
<1>2. CASE candidates # {}
  <2> DEFINE task == [NoTask EXCEPT !.step = "reading", !.candidates = candidates, !.matching = matching]
  <2>1. task \in Tasks
    BY <1>1 DEF Tasks
  <2>2. /\ task.reading = None /\ task.step = "reading" /\ task.matching = matching
        /\ task.senders = None /\ task.recipients = None
    BY DEF NoTask
  <2> HIDE DEF task
  <2>3. Becomes(m, task)
    BY <1>2 DEF Resolves, task
  <2> QED
    BY <2>1, <2>2, <2>3
<1>3. CASE candidates = {} /\ matching = {}
  <2> DEFINE task == [NoTask EXCEPT !.step = "decided", !.via = "new"]
  <2>1. task \in Tasks
    BY <1>1 DEF Tasks
  <2>2. task.reading = None /\ task.step = "decided" /\ task.found = None /\ task.via = "new"
    BY DEF NoTask
  <2> HIDE DEF task
  <2>3. Becomes(m, task)
    BY <1>3 DEF Resolves, task
  <2> QED
    BY <2>1, <2>2, <2>3
<1>4. CASE candidates = {} /\ matching # {}
  <2>1. PICK t \in matching :
          Becomes(m, [NoTask EXCEPT !.step = "decided", !.found = t, !.via = "subject"])
    BY <1>4 DEF Resolves
  <2> DEFINE task == [NoTask EXCEPT !.step = "decided", !.found = t, !.via = "subject"]
  <2>2. task \in Tasks
    BY <1>1 DEF Tasks
  <2>3. task.reading = None /\ task.step = "decided" /\ task.found = t /\ task.via = "subject"
    BY DEF NoTask
  <2>4. Becomes(m, task)
    BY <2>1
  <2> HIDE DEF task
  <2> QED
    BY <2>2, <2>3, <2>4
<1> QED
  BY <1>2, <1>3, <1>4

\* The headers somebody can write who has received what they answer.
LEMMA HeadersShape ==
  ASSUME TypeOK, NEW person, NEW headers \in HeadersFor(person)
  PROVE  /\ headers \in Headers
         /\ \/ headers = NoHeaders
            \/ \E n \in Messages :
                 /\ Wrote(person, n) /\ headers.parent = n /\ headers.inReplyTo = n
                 /\ \/ headers.references = <<>>
                    \/ headers.references = Append(ReferencesOf(n), n)
<1> DEFINE received == {n \in Messages : Wrote(person, n)}
<1>1. \A n \in received : Append(ReferencesOf(n), n) \in Seq(Ids) /\ n \in Ids
  <2>1. \A n \in received : ReferencesOf(n) \in Seq(Ids) /\ n \in Ids
    BY Rows, NoneIsNoId DEF ReferencesOf
  <2> QED
    BY <2>1
<1>2. <<>> \in Seq(Ids)
  OBVIOUS
<1>3. CASE headers = NoHeaders
  BY <1>3, NullRows
<1>4. ASSUME NEW n \in received,
             headers = [parent |-> n, inReplyTo |-> n, references |-> Append(ReferencesOf(n), n)]
      PROVE  /\ headers \in Headers /\ headers.parent = n /\ headers.inReplyTo = n
             /\ headers.references = Append(ReferencesOf(n), n)
  BY <1>1, <1>4 DEF Headers
<1>5. ASSUME NEW n \in received,
             headers = [parent |-> n, inReplyTo |-> n, references |-> <<>>]
      PROVE  /\ headers \in Headers /\ headers.parent = n /\ headers.inReplyTo = n
             /\ headers.references = <<>>
  BY <1>1, <1>2, <1>5 DEF Headers
<1>6. \/ headers = NoHeaders
      \/ \E n \in received :
           headers = [parent |-> n, inReplyTo |-> n, references |-> Append(ReferencesOf(n), n)]
      \/ \E n \in received : headers = [parent |-> n, inReplyTo |-> n, references |-> <<>>]
  BY DEF HeadersFor
<1> QED
  BY <1>3, <1>4, <1>5, <1>6

\* The steps of a capture before its mail is stored.
Captures(m) ==
  Begin(m) \/ Look(m) \/ List(m) \/ ReadFirst(m) \/ ReadSecond(m) \/ Abandon(m)

\* They change the task of that mail only, and what it knew when they begin or end it.
LEMMA CaptureSteps ==
  ASSUME IInv, NEW m \in Mails, Captures(m)
  PROVE  /\ UNCHANGED <<letters, sends, messages, threads>>
         /\ \E task \in Tasks : tasks' = [tasks EXCEPT ![m] = task]
         /\ \E at \in SUBSET Messages : known' = [known EXCEPT ![m] = at]
         /\ messages[m].thread = None
<1> USE DEF IInv
<1>1. /\ tasks[m] \in Tasks /\ known[m] \in SUBSET Messages /\ known = [known EXCEPT ![m] = known[m]]
      /\ tasks[m].step # "stored" => messages[m].thread = None
  BY Rows DEF TypeOK, CapturesOK, CaptureOK, Stored
<1>2. messages[m].thread = None
  <2>1. Begin(m) \/ tasks[m].step # "stored"
    <3>1. ReadSecond(m) => tasks[m].reading # None
      BY DEF ReadSecond
    <3>2. tasks[m].reading # None => tasks[m].step = "reading"
      BY DEF CapturesOK, CaptureOK, TaskOK
    <3> QED
      BY <3>1, <3>2 DEF Captures, Look, List, ReadFirst, Abandon
  <2> QED
    BY <1>1, <2>1 DEF Begin
<1>3. CASE Begin(m)
  <2>1. Names(m) \in Seq(Ids)
    BY NamesOfChain DEF LettersOK, LetterOK
  <2>2. [NoTask EXCEPT !.step = "naming", !.names = Names(m)] \in Tasks
    BY <2>1, NullRows DEF Tasks
  <2>3. Stored \in SUBSET Messages
    BY Rows
  <2> QED
    BY <1>1, <1>3, <2>2, <2>3 DEF Begin, Becomes
<1>4. CASE Look(m)
  <2>1. CASE Found(Head(tasks[m].names)) = {}
    <3>1. [tasks[m] EXCEPT !.names = Tail(@)] \in Tasks
      <4>1. Tail(tasks[m].names) \in Seq(Ids)
        <5>1. tasks[m].names \in Seq(Ids) /\ tasks[m].names # <<>>
          BY <1>1, <1>4 DEF Look, Tasks
        <5> QED
          BY <5>1
      <4> QED
        BY <1>1, <4>1 DEF Tasks
    <3> QED
      BY <1>1, <1>4, <2>1, <3>1 DEF Look, Becomes
  <2>2. CASE Found(Head(tasks[m].names)) # {}
    <3>1. PICK n \in Found(Head(tasks[m].names)) :
            Becomes(m, [NoTask EXCEPT !.step = "decided", !.found = messages[n].thread, !.via = "named"])
      BY <1>4, <2>2 DEF Look
    <3>2. messages[n].thread \in Messages
      BY Rows DEF Found, Stored, MessageRows
    <3>3. [NoTask EXCEPT !.step = "decided", !.found = messages[n].thread, !.via = "named"] \in Tasks
      BY <3>2, NullRows DEF Tasks
    <3> QED
      BY <1>1, <1>4, <3>1, <3>3 DEF Look, Becomes
  <2> QED
    BY <2>1, <2>2
<1>5. CASE List(m)
  <2>1. PICK inWindow \in SUBSET Candidates(m) : Resolves(m, inWindow, {})
    BY <1>5 DEF List
  <2>2. inWindow \in SUBSET Messages
    BY DEF Candidates, TypeOK
  <2>3. PICK task \in Tasks : Becomes(m, task)
    BY <2>1, <2>2, ResolvesTo
  <2> QED
    BY <1>1, <1>5, <2>3 DEF List, Becomes
<1>6. CASE ReadFirst(m)
  <2>1. PICK t \in tasks[m].candidates :
          \/ \E senders \in Senders(t) :
               Becomes(m, [tasks[m] EXCEPT !.reading = t, !.senders = senders])
          \/ \E recipients \in Addressees(t) :
               Becomes(m, [tasks[m] EXCEPT !.reading = t, !.recipients = recipients])
    BY <1>6 DEF ReadFirst
  <2>2. /\ t \in Messages
        /\ Senders(t) \subseteq SUBSET People /\ Addressees(t) \subseteq SUBSET People
    BY <1>1, AnswersType DEF Tasks
  <2>3. /\ \A senders \in Senders(t) : [tasks[m] EXCEPT !.reading = t, !.senders = senders] \in Tasks
        /\ \A recipients \in Addressees(t) :
             [tasks[m] EXCEPT !.reading = t, !.recipients = recipients] \in Tasks
    BY <1>1, <2>2 DEF Tasks
  <2> QED
    BY <1>1, <1>6, <2>1, <2>3 DEF ReadFirst, Becomes
<1>7. CASE ReadSecond(m)
  <2>1. PICK candidates \in SUBSET Messages, matching \in SUBSET Messages :
          Resolves(m, candidates, matching)
    <3>1. PICK people :
            Resolves(m, tasks[m].candidates \ {tasks[m].reading},
                     tasks[m].matching \cup IF Among(m, people \ Ignored) THEN {tasks[m].reading} ELSE {})
      BY <1>7 DEF ReadSecond
    <3> DEFINE match == IF Among(m, people \ Ignored) THEN {tasks[m].reading} ELSE {}
    <3>2. match \subseteq {tasks[m].reading}
      OBVIOUS
    <3>3. tasks[m].reading # None
      BY <1>7 DEF ReadSecond
    <3> HIDE DEF match
    <3>4. /\ tasks[m].candidates \ {tasks[m].reading} \in SUBSET Messages
          /\ tasks[m].matching \cup match \in SUBSET Messages
      BY <1>1, <3>2, <3>3 DEF Tasks
    <3>5. Resolves(m, tasks[m].candidates \ {tasks[m].reading}, tasks[m].matching \cup match)
      BY <3>1 DEF match
    <3> QED
      BY <3>4, <3>5
  <2>2. PICK task \in Tasks : Becomes(m, task)
    BY <2>1, ResolvesTo
  <2> QED
    <3>1. UNCHANGED known
      BY <1>7 DEF ReadSecond
    <3> QED
      BY <1>1, <1>2, <2>2, <3>1 DEF Becomes
<1>8. CASE Abandon(m)
  BY <1>1, <1>8, NullRows DEF Abandon, Becomes
<1> QED
  BY <1>3, <1>4, <1>5, <1>6, <1>7, <1>8 DEF Captures

\* A send is new; a reply is in the thread of a stored message, which its references end with.
Cites(send) ==
  send.references # <<>> /\ send.references[Len(send.references)] = send.target

SendStarts(r, send) ==
  /\ sends[r].step = "none" /\ sends' = [sends EXCEPT ![r] = send]
  /\ UNCHANGED <<letters, messages, tasks, known>>
  /\ send.step # "none" /\ send.step # "recorded" /\ send.step # "failed" /\ send.thread # None
  /\ send.target # None => send.target \in Stored /\ messages[send.target].thread = send.thread
  /\ send.target # None /\ (\A id \in Ids : Size[id] <= InnerBytes) => Cites(send)

LEMMA SendSteps ==
  ASSUME IInv, NEW r \in Replies, Compose(r) \/ \E m \in Mails : Reply(r, m) \/ Relay(r, m)
  PROVE  threads' \subseteq Messages /\ \E send \in SendRows : SendStarts(r, send)
<1> USE DEF IInv, Sends, Outcomes
<1>1. r \in Messages /\ None \notin Messages /\ <<>> \in Seq(Ids)
  BY NoneIsNoId DEF Messages
<1>2. CASE Compose(r)
  <2>1. PICK outcome \in Outcomes :
          Sends(r, [step |-> outcome, target |-> None, thread |-> r, references |-> <<>>])
    BY <1>2 DEF Compose
  <2> DEFINE send == [step |-> outcome, target |-> None, thread |-> r, references |-> <<>>]
  <2>2. send \in SendRows
    BY <1>1 DEF SendRows
  <2>3. SendStarts(r, send)
    BY <1>1, <1>2, <2>1 DEF SendStarts, Compose
  <2>4. threads' \subseteq Messages
    BY <1>1, <1>2 DEF Compose, TypeOK
  <2> QED
    BY <2>2, <2>3, <2>4
<1>3. ASSUME NEW m \in Mails, m \in Stored, NEW refs \in Seq(Ids), NEW outcome \in Outcomes,
             sends[r].step = "none", UNCHANGED <<messages, threads>>,
             Sends(r, [step |-> outcome, target |-> m, thread |-> messages[m].thread,
                       references |-> refs]),
             (\A id \in Ids : Size[id] <= InnerBytes) => refs # <<>> /\ refs[Len(refs)] = m
      PROVE  threads' \subseteq Messages /\ \E send \in SendRows : SendStarts(r, send)
  <2> DEFINE send == [step |-> outcome, target |-> m, thread |-> messages[m].thread,
                      references |-> refs]
  <2>1. messages[m].thread \in Messages
    BY <1>3, Rows DEF Stored, MessageRows
  <2>2. send \in SendRows
    BY <2>1 DEF SendRows
  <2>3. SendStarts(r, send)
    BY <1>1, <1>3, <2>1 DEF SendStarts, Cites
  <2>4. threads' \subseteq Messages
    BY <1>3 DEF TypeOK
  <2> QED
    BY <2>2, <2>3, <2>4
<1>4. ASSUME NEW m \in Mails, Reply(r, m)
      PROVE  threads' \subseteq Messages /\ \E send \in SendRows : SendStarts(r, send)
  <2>1. PICK copy \in {None} \cup (messages[m].ids \ {m}), outcome \in Outcomes :
          Sends(r, [step |-> outcome, target |-> m, thread |-> messages[m].thread,
                    references |-> ReplyReferences(m, copy)])
    BY <1>4 DEF Reply
  <2>2. copy \in Ids \cup {None}
    BY Rows DEF MessageRows
  <2>3. OnRecord(m) \in Seq(Ids)
    BY NamesOfChain DEF OnRecord, LettersOK, LetterOK
  <2>4. /\ ReplyReferences(m, copy) \in Seq(Ids) /\ ReplyReferences(m, copy) # <<>>
        /\ ReplyReferences(m, copy)[Len(ReplyReferences(m, copy))] = m
    BY <2>2, <2>3, ReplyEnds
  <2>5. sends[r].step = "none" /\ m \in Stored /\ UNCHANGED <<messages, threads>>
    BY <1>4 DEF Reply
  <2> QED
    BY <1>3, <2>1, <2>4, <2>5
<1>5. ASSUME NEW m \in Mails, Relay(r, m)
      PROVE  threads' \subseteq Messages /\ \E send \in SendRows : SendStarts(r, send)
  <2> DEFINE refs == AppendedReference(OnRecord(m), m, InnerBytes)
  <2>1. PICK outcome \in Outcomes :
          Sends(r, [step |-> outcome, target |-> m, thread |-> messages[m].thread,
                    references |-> refs])
    BY <1>5 DEF Relay
  <2>2. m \in Ids /\ m # None /\ InnerBytes \in Nat
    <3>1. InnerBytes \in Nat
      BY ThreadingShape DEF ThreadingShape
    <3> QED
      BY <3>1, NoneIsNoId DEF Messages
  <2>3. OnRecord(m) \in Seq(Ids)
    BY NamesOfChain DEF OnRecord, LettersOK, LetterOK
  <2>4. /\ refs \in Seq(Ids)
        /\ (\A id \in Ids : Size[id] <= InnerBytes) => refs # <<>> /\ refs[Len(refs)] = m
    BY <2>2, <2>3, AppendedEnds
  <2>5. sends[r].step = "none" /\ m \in Stored /\ UNCHANGED <<messages, threads>>
    BY <1>5 DEF Relay, HasAlias
  <2> HIDE DEF refs
  <2> QED
    BY <1>3, <2>1, <2>4, <2>5
<1> QED
  BY <1>2, <1>4, <1>5

\* What a step does to the tables.
LEMMA Steps ==
  ASSUME IInv, [Next]_vars
  PROVE  \/ \E m \in Mails : Write(m) \/ Captures(m) \/ Project(m) \/ RecordCopy(m)
         \/ threads' \subseteq Messages
            /\ \E r \in Replies : (\E send \in SendRows : SendStarts(r, send)) \/ Record(r)
         \/ UNCHANGED vars
<1>1. ASSUME NEW r \in Replies, Record(r) PROVE threads' \subseteq Messages
  BY <1>1 DEF Record, IInv, TypeOK
<1>2. ASSUME NEW r \in Replies, Compose(r) \/ \E m \in Mails : Reply(r, m) \/ Relay(r, m)
      PROVE  threads' \subseteq Messages /\ \E send \in SendRows : SendStarts(r, send)
  BY <1>2, SendSteps
<1> QED
  BY <1>1, <1>2 DEF Next, Captures

LEMMA TypeStep ==
  ASSUME IInv, [Next]_vars
  PROVE  TypeOK'
<1> USE DEF IInv
<1>1. ASSUME NEW m \in Mails, Write(m) PROVE TypeOK'
  <2>1. PICK headers \in HeadersFor(From[m]) : letters' = [letters EXCEPT ![m] = headers]
    BY <1>1 DEF Write
  <2>2. headers \in Headers
    BY <2>1, HeadersShape
  <2> QED
    BY <1>1, <2>1, <2>2 DEF Write, TypeOK
<1>2. ASSUME NEW m \in Mails, Captures(m) PROVE TypeOK'
  BY <1>2, CaptureSteps DEF TypeOK
<1>3. ASSUME NEW m \in Mails, Project(m) PROVE TypeOK'
  <2> DEFINE thread == IF tasks[m].found = None THEN m ELSE tasks[m].found
  <2>1. m \in Messages /\ thread \in Messages
    BY Rows DEF Tasks
  <2>2. RowIn(thread, {m}) \in MessageRows
    BY <2>1, NoneIsNoId DEF RowIn, MessageRows
  <2>3. [NoTask EXCEPT !.step = "stored", !.via = tasks[m].via] \in Tasks
    BY NullRows, Rows DEF Tasks
  <2>4. /\ threads' = threads \cup {thread}
        /\ messages' = [messages EXCEPT ![m] = RowIn(thread, {m})]
        /\ tasks' = [tasks EXCEPT ![m] = [NoTask EXCEPT !.step = "stored", !.via = tasks[m].via]]
        /\ UNCHANGED <<letters, sends, known>>
    BY <1>3 DEF Project
  <2> HIDE DEF thread
  <2> QED
    BY <2>1, <2>2, <2>3, <2>4 DEF TypeOK
<1>4. ASSUME NEW m \in Mails, RecordCopy(m) PROVE TypeOK'
  <2>1. m \in Messages /\ CopyOf(m) \in Ids
    BY DEF Messages, Ids
  <2>2. [messages[m] EXCEPT !.ids = @ \cup {CopyOf(m)}] \in MessageRows
    BY <2>1, Rows DEF MessageRows
  <2> QED
    BY <1>4, <2>1, <2>2 DEF RecordCopy, TypeOK
<1>5. ASSUME NEW r \in Replies, NEW send \in SendRows, SendStarts(r, send), threads' \subseteq Messages
      PROVE  TypeOK'
  BY <1>5 DEF SendStarts, TypeOK
<1>6. ASSUME NEW r \in Replies, Record(r), threads' \subseteq Messages PROVE TypeOK'
  <2>1. PICK ids \in {{}} \cup (IF sends[r].step = "delivered" THEN {{r}} ELSE {}) :
          messages' = [messages EXCEPT ![r] = RowIn(sends[r].thread, ids)]
    BY <1>6 DEF Record
  <2>2. r \in Messages /\ r \in Ids /\ sends[r] \in SendRows
    BY Rows, NoneIsNoId
  <2>3. RowIn(sends[r].thread, ids) \in MessageRows
    BY <2>1, <2>2 DEF RowIn, MessageRows, SendRows
  <2>4. [sends[r] EXCEPT !.step = IF @ = "delivered" THEN "recorded" ELSE "failed"] \in SendRows
    BY <2>2 DEF SendRows
  <2> QED
    BY <1>6, <2>1, <2>2, <2>3, <2>4 DEF Record, Sends, TypeOK
<1>7. CASE UNCHANGED vars
  BY <1>7 DEF vars, TypeOK
<1> QED
  BY <1>1, <1>2, <1>3, <1>4, <1>5, <1>6, <1>7, Steps

-------------------------------------------------------------------------------
(* What no step takes back *)

\* A written mail and a send keep their headers; a stored message stays in its thread and is
\* still found by the ids it was found by, and gets or loses no id of its own.
Grows ==
  /\ \A m \in Mails : letters[m] # NotWritten => letters'[m] = letters[m]
  /\ \A r \in Replies : sends[r].step # "none" =>
       /\ sends'[r].step # "none" /\ sends'[r].target = sends[r].target
       /\ sends'[r].thread = sends[r].thread /\ sends'[r].references = sends[r].references
  /\ \A n \in Messages : n \in Stored =>
       /\ n \in Stored' /\ messages'[n].thread = messages[n].thread
       /\ messages[n].ids \subseteq messages'[n].ids
       /\ n \in messages'[n].ids => n \in messages[n].ids

LEMMA StepGrows ==
  ASSUME IInv, [Next]_vars
  PROVE  Grows
<1> USE DEF IInv
<1>1. ASSUME NEW m \in Mails, Write(m) PROVE Grows
  BY <1>1 DEF Write, Grows, TypeOK, Stored
<1>2. ASSUME NEW m \in Mails, Captures(m) PROVE Grows
  BY <1>2, CaptureSteps DEF Grows, Stored
<1>3. ASSUME NEW m \in Mails, Project(m) PROVE Grows
  <2>1. m \notin Stored
    BY <1>3 DEF Project, CapturesOK, CaptureOK
  <2>2. UNCHANGED <<letters, sends>> /\ \A n \in Messages : n # m => messages'[n] = messages[n]
    BY <1>3 DEF Project, TypeOK
  <2> QED
    BY <2>1, <2>2, Rows DEF Grows, Stored
<1>4. ASSUME NEW m \in Mails, RecordCopy(m) PROVE Grows
  <2>1. UNCHANGED <<letters, sends>> /\ \A n \in Messages : n # m => messages'[n] = messages[n]
    BY <1>4 DEF RecordCopy, TypeOK
  <2>2. /\ messages'[m].thread = messages[m].thread
        /\ messages'[m].ids = messages[m].ids \cup {CopyOf(m)}
    BY <1>4, Rows DEF RecordCopy, TypeOK, MessageRows
  <2>3. m # CopyOf(m)
    BY ThreadingShape DEF ThreadingShape, Messages
  <2> QED
    BY <2>1, <2>2, <2>3, Rows DEF Grows, Stored
<1>5. ASSUME NEW r \in Replies, NEW send \in SendRows, SendStarts(r, send) PROVE Grows
  BY <1>5 DEF SendStarts, Grows, TypeOK, Stored
<1>6. ASSUME NEW r \in Replies, Record(r) PROVE Grows
  <2>1. r \notin Stored /\ sends[r].step # "none"
    BY <1>6 DEF Record, Outcomes, RowsOK
  <2>2. UNCHANGED letters /\ \A n \in Messages : n # r => messages'[n] = messages[n]
    BY <1>6 DEF Record, Sends, TypeOK
  <2>3. /\ \A s \in Replies : s # r => sends'[s] = sends[s]
        /\ sends'[r].step \in {"recorded", "failed"} /\ sends'[r].target = sends[r].target
        /\ sends'[r].thread = sends[r].thread /\ sends'[r].references = sends[r].references
    BY <1>6, Rows DEF Record, Sends, TypeOK, SendRows
  <2>4. \A n \in Stored : n \in Messages /\ n # r /\ n \in Stored'
    BY <2>1, <2>2, Rows DEF Stored
  <2> QED
    BY <2>1, <2>2, <2>3, <2>4 DEF Grows
<1>7. CASE UNCHANGED vars
  BY <1>7 DEF vars, Grows, Stored
<1> QED
  BY <1>1, <1>2, <1>3, <1>4, <1>5, <1>6, <1>7, Steps

LEMMA RowsStep ==
  ASSUME IInv, [Next]_vars
  PROVE  RowsOK'
<1> USE DEF IInv
<1>1. CASE UNCHANGED <<messages, sends>>
  BY <1>1 DEF RowsOK, Stored
<1>2. ASSUME NEW m \in Mails, Project(m) PROVE RowsOK'
  <2> DEFINE thread == IF tasks[m].found = None THEN m ELSE tasks[m].found
  <2>1. m \in Messages /\ \A r \in Replies : r # m
    BY Rows
  <2>2. UNCHANGED sends /\ messages'[m] = RowIn(thread, {m})
        /\ \A n \in Messages : n # m => messages'[n] = messages[n]
    BY <1>2, <2>1 DEF Project, TypeOK
  <2>3. messages'[m].ids = {m}
    BY <2>2 DEF RowIn
  <2>4. \A n \in Messages : n # m => (n \in Stored' <=> n \in Stored)
    BY <2>2 DEF Stored
  <2> QED
    BY <2>1, <2>2, <2>3, <2>4, Rows DEF RowsOK
<1>3. ASSUME NEW m \in Mails, RecordCopy(m) PROVE RowsOK'
  <2>1. m \in Messages /\ \A r \in Replies : r # m
    BY Rows
  <2>2. UNCHANGED sends /\ \A n \in Messages : n # m => messages'[n] = messages[n]
    BY <1>3 DEF RecordCopy, TypeOK
  <2>3. /\ messages'[m].thread = messages[m].thread
        /\ messages'[m].ids = messages[m].ids \cup {CopyOf(m)}
    BY <1>3, <2>1, Rows DEF RecordCopy, TypeOK, MessageRows
  <2>4. \A n \in Messages : n \in Stored' <=> n \in Stored
    BY <2>2, <2>3 DEF Stored
  <2> QED
    BY <2>1, <2>2, <2>3, <2>4, Rows DEF RowsOK
<1>4. ASSUME NEW r \in Replies, NEW send \in SendRows, SendStarts(r, send) PROVE RowsOK'
  <2>1. r \notin Stored /\ UNCHANGED messages /\ \A s \in Replies : s # r => sends'[s] = sends[s]
    BY <1>4 DEF SendStarts, TypeOK, RowsOK
  <2>2. Stored' = Stored
    BY <2>1 DEF Stored
  <2> QED
    BY <2>1, <2>2 DEF RowsOK
<1>5. ASSUME NEW r \in Replies, Record(r) PROVE RowsOK'
  <2>1. PICK ids \in {{}} \cup (IF sends[r].step = "delivered" THEN {{r}} ELSE {}) :
          messages' = [messages EXCEPT ![r] = RowIn(sends[r].thread, ids)]
    BY <1>5 DEF Record
  <2>2. r \in Messages /\ \A m \in Mails : r # m
    BY Rows
  <2>3. /\ messages'[r].thread = sends[r].thread /\ messages'[r].ids \subseteq {r}
        /\ \A n \in Messages : n # r => messages'[n] = messages[n]
    BY <2>1, <2>2 DEF TypeOK, RowIn
  <2>4. /\ \A s \in Replies : s # r => sends'[s] = sends[s]
        /\ sends'[r].step \in {"recorded", "failed"} /\ sends'[r].thread = sends[r].thread
    BY <1>5, Rows DEF Record, Sends, TypeOK, SendRows
  <2>5. \A n \in Messages : n # r => (n \in Stored' <=> n \in Stored)
    BY <2>3 DEF Stored
  <2> QED
    BY <2>2, <2>3, <2>4, <2>5, Rows DEF RowsOK
<1>6. ASSUME NEW m \in Mails, Write(m) \/ Captures(m) PROVE UNCHANGED <<messages, sends>>
  BY <1>6, CaptureSteps DEF Write
<1>7. UNCHANGED vars => UNCHANGED <<messages, sends>>
  BY DEF vars
<1> QED
  BY <1>1, <1>2, <1>3, <1>4, <1>5, <1>6, <1>7, Steps

LEMMA SendsStep ==
  ASSUME IInv, [Next]_vars
  PROVE  SendsOK'
<1> USE DEF IInv
<1>1. Grows
  BY StepGrows
<1>2. ASSUME NEW r \in Replies, sends[r].step # "none",
             sends'[r].target = sends[r].target /\ sends'[r].thread = sends[r].thread
             /\ sends'[r].step # "none"
      PROVE  /\ sends'[r].step # "none" => sends'[r].thread # None
             /\ sends'[r].target # None =>
                  /\ sends'[r].step # "none" /\ sends'[r].target \in Stored'
                  /\ messages'[sends'[r].target].thread = sends'[r].thread
  <2>1. sends[r].target # None => sends[r].target \in Stored /\ sends[r].target \in Messages
    BY Rows DEF SendsOK
  <2> QED
    BY <1>1, <1>2, <2>1 DEF SendsOK, Grows
<1>3. ASSUME NEW r \in Replies, sends[r].step = "none", sends'[r] = sends[r]
      PROVE  sends'[r].step = "none" /\ sends'[r].target = None
  BY <1>3 DEF SendsOK
<1>4. ASSUME NEW r \in Replies, NEW send \in SendRows, SendStarts(r, send) PROVE SendsOK'
  <2>1. UNCHANGED messages /\ sends'[r] = send /\ \A s \in Replies : s # r => sends'[s] = sends[s]
    BY <1>4 DEF SendStarts, TypeOK
  <2>2. Stored' = Stored
    BY <2>1 DEF Stored
  <2>3. /\ send.step # "none" /\ send.thread # None
        /\ send.target # None => send.target \in Stored /\ messages[send.target].thread = send.thread
    BY <1>4 DEF SendStarts
  <2> QED
    BY <2>1, <2>2, <2>3 DEF SendsOK
<1>5. ASSUME NEW r \in Replies, Record(r) PROVE SendsOK'
  <2>1. sends[r].step # "none" /\ \A s \in Replies : s # r => sends'[s] = sends[s]
    BY <1>5 DEF Record, Sends, Outcomes, TypeOK
  <2>2. \A s \in Replies : sends[s].step = "none" => sends'[s] = sends[s]
    BY <2>1
  <2> QED
    BY <1>1, <1>2, <1>3, <2>2 DEF SendsOK, Grows
<1>6. CASE UNCHANGED sends
  BY <1>1, <1>2, <1>3, <1>6 DEF SendsOK, Grows
<1>7. ASSUME NEW m \in Mails, Write(m) \/ Captures(m) \/ Project(m) \/ RecordCopy(m)
      PROVE  UNCHANGED sends
  BY <1>7, CaptureSteps DEF Write, Project, RecordCopy
<1>8. UNCHANGED vars => UNCHANGED sends
  BY DEF vars
<1> QED
  BY <1>4, <1>5, <1>6, <1>7, <1>8, Steps

LEMMA CitesStep ==
  ASSUME IInv, SendsCite, \A id \in Ids : Size[id] <= InnerBytes, [Next]_vars
  PROVE  SendsCite'
<1> USE DEF IInv
<1>1. Grows
  BY StepGrows
<1>2. ASSUME NEW r \in Replies, NEW send \in SendRows, SendStarts(r, send) PROVE SendsCite'
  <2>1. sends'[r] = send /\ \A s \in Replies : s # r => sends'[s] = sends[s]
    BY <1>2 DEF SendStarts, TypeOK
  <2>2. send.target # None => Cites(send)
    BY <1>2 DEF SendStarts
  <2> QED
    BY <2>1, <2>2 DEF SendsCite, Cites
<1>3. ASSUME NEW r \in Replies, Record(r) PROVE SendsCite'
  <2>1. sends[r].step # "none" /\ \A s \in Replies : s # r => sends'[s] = sends[s]
    BY <1>3 DEF Record, Sends, Outcomes, TypeOK
  <2> QED
    BY <1>1, <2>1 DEF SendsCite, Grows
<1>4. CASE UNCHANGED sends
  BY <1>4 DEF SendsCite
<1>5. ASSUME NEW m \in Mails, Write(m) \/ Captures(m) \/ Project(m) \/ RecordCopy(m)
      PROVE  UNCHANGED sends
  BY <1>5, CaptureSteps DEF Write, Project, RecordCopy
<1>6. UNCHANGED vars => UNCHANGED sends
  BY DEF vars
<1> QED
  BY <1>2, <1>3, <1>4, <1>5, <1>6, Steps

\* What an answer cites was sent, and keeps its references.
LEMMA CitedStays ==
  ASSUME TypeOK, Grows, NEW n \in Messages,
         n \in Replies => sends[n].step # "none",
         n \in Mails => letters[n] # NotWritten
  PROVE  /\ ReferencesOf(n)' = ReferencesOf(n)
         /\ n \in Replies => sends'[n].step # "none"
         /\ n \in Mails => letters'[n] # NotWritten
<1>1. n \in Mails \/ n \in Replies
  BY DEF Messages
<1> QED
  BY <1>1 DEF Grows, ReferencesOf

LEMMA LettersStep ==
  ASSUME IInv, [Next]_vars
  PROVE  LettersOK'
<1> USE DEF IInv
<1>1. Grows /\ TypeOK'
  BY StepGrows, TypeStep
<1>2. ASSUME NEW m \in Mails, letters'[m] = letters[m] PROVE LetterOK(m)'
  <2>1. LetterOK(m)
    BY DEF LettersOK, LetterOK
  <2>2. ChainOrNone(m)'
    BY <1>2, <2>1 DEF LetterOK, ChainOrNone
  <2>3. ASSUME letters[m].inReplyTo # None
        PROVE  /\ letters[m].references # <<>> =>
                    letters[m].references = Append(ReferencesOf(letters[m].parent)', letters[m].parent)
               /\ letters[m].parent \in Replies => sends'[letters[m].parent].step # "none"
               /\ letters[m].parent \in Mails => letters'[letters[m].parent] # NotWritten
    <3>1. PICK n \in Messages : n = letters[m].parent
      BY <2>1, <2>3 DEF LetterOK
    <3>2. /\ ReferencesOf(n)' = ReferencesOf(n)
          /\ n \in Replies => sends'[n].step # "none"
          /\ n \in Mails => letters'[n] # NotWritten
      BY <1>1, <2>1, <2>3, <3>1, CitedStays DEF LetterOK
    <3> QED
      BY <1>2, <2>1, <2>3, <3>1, <3>2 DEF LetterOK, ReferencesOf
  <2> QED
    BY <1>2, <2>1, <2>2, <2>3 DEF LetterOK, ReferencesOf
<1>3. ASSUME NEW m \in Mails, Write(m) PROVE LetterOK(m)'
  <2>1. PICK headers \in HeadersFor(From[m]) : letters' = [letters EXCEPT ![m] = headers]
    BY <1>3 DEF Write
  <2>2. letters'[m] = headers /\ letters[m] = NotWritten
    BY <1>3, <2>1 DEF Write, TypeOK
  <2>3. CASE headers = NoHeaders
    <3>1. <<>> \in Seq(Ids)
      OBVIOUS
    <3> QED
      BY <2>2, <2>3, <3>1 DEF LetterOK, ChainOrNone, NoHeaders
  <2>4. ASSUME NEW n \in Messages, Wrote(From[m], n), headers.parent = n, headers.inReplyTo = n,
               headers.references = <<>> \/ headers.references = Append(ReferencesOf(n), n)
        PROVE  LetterOK(m)'
    <3>1. /\ n \in Replies => sends[n].step # "none"
          /\ n \in Mails => letters[n] # NotWritten
      BY <2>4, Rows DEF Wrote
    <3>2. /\ ReferencesOf(n)' = ReferencesOf(n)
          /\ n \in Replies => sends'[n].step # "none"
          /\ n \in Mails => letters'[n] # NotWritten
      BY <1>1, <3>1, CitedStays
    <3>3. ReferencesOf(n) \in Seq(Ids) /\ n \in Ids /\ n # None
      BY Rows, NoneIsNoId DEF ReferencesOf
    <3>4. ChainOrNone(m)'
      <4>1. /\ Append(ReferencesOf(n), n) \in Seq(Ids)
            /\ Append(ReferencesOf(n), n)[Len(Append(ReferencesOf(n), n))] = n
            /\ <<>> \in Seq(Ids)
        BY <3>3
      <4> QED
        BY <2>2, <2>4, <3>3, <4>1 DEF ChainOrNone
    <3>5. headers.references # <<>> => headers.references = Append(ReferencesOf(n)', n)
      BY <2>4, <3>2
    <3> QED
      BY <2>2, <2>4, <3>2, <3>4, <3>5 DEF LetterOK, ReferencesOf
  <2>5. \/ headers = NoHeaders
        \/ \E n \in Messages :
             /\ Wrote(From[m], n) /\ headers.parent = n /\ headers.inReplyTo = n
             /\ headers.references = <<>> \/ headers.references = Append(ReferencesOf(n), n)
    BY HeadersShape
  <2> QED
    BY <2>3, <2>4, <2>5
<1>4. \A m \in Mails : letters'[m] = letters[m] \/ Write(m)
  <2>1. ASSUME NEW m \in Mails, Write(m) PROVE \A o \in Mails : o # m => letters'[o] = letters[o]
    BY <2>1 DEF Write, TypeOK
  <2>2. ASSUME NEW m \in Mails, Captures(m) \/ Project(m) \/ RecordCopy(m) PROVE UNCHANGED letters
    BY <2>2, CaptureSteps DEF Project, RecordCopy
  <2>3. ASSUME NEW r \in Replies, (\E send \in SendRows : SendStarts(r, send)) \/ Record(r)
        PROVE  UNCHANGED letters
    BY <2>3 DEF SendStarts, Record, Sends
  <2>4. UNCHANGED vars => UNCHANGED letters
    BY DEF vars
  <2> QED
    BY <2>1, <2>2, <2>3, <2>4, Steps
<1>5. \A m \in Mails : LetterOK(m)'
  BY <1>2, <1>3, <1>4
<1> QED
  BY <1>5 DEF LettersOK, LetterOK

-------------------------------------------------------------------------------
(* What a capture relies on does not change under it *)

LEMMA ChainStays ==
  ASSUME NEW m \in Mails, letters'[m] = letters[m]
  PROVE  Chain(m)' = Chain(m)
BY DEF Chain, Parsed

LEMMA HeldStays ==
  ASSUME TypeOK, Grows, NEW m \in Mails, known'[m] = known[m], known[m] \subseteq Stored, NEW id
  PROVE  Held(m, id)' <=> Held(m, id)
<1>1. id \in known[m] => id \in Stored /\ id \in Messages
  BY Rows
<1> QED
  BY <1>1 DEF Held, Grows

LEMMA JoinsStays ==
  ASSUME TypeOK, Grows, NEW m \in Mails, letters'[m] = letters[m],
         known'[m] = known[m], known[m] \subseteq Stored, NEW t, Joins(m, t)
  PROVE  Joins(m, t)'
<1>1. Chain(m)' = Chain(m)
  BY ChainStays
<1>2. \A id : Held(m, id)' <=> Held(m, id)
  BY HeldStays
<1>3. \A n \in Stored \ {m} :
        /\ n \in Stored' \ {m} /\ messages'[n].thread = messages[n].thread
        /\ messages[n].ids \subseteq messages'[n].ids
  BY Rows DEF Grows
<1>4. ASSUME NEW i \in DOMAIN Chain(m), Held(m, Chain(m)[i])
      PROVE  \E j \in i..Len(Chain(m)), n \in Stored' \ {m} :
               Chain(m)[j] \in messages'[n].ids /\ messages'[n].thread = t
  <2>1. PICK j \in i..Len(Chain(m)), n \in Stored \ {m} :
          Chain(m)[j] \in messages[n].ids /\ messages[n].thread = t
    BY <1>4 DEF Joins
  <2> QED
    BY <1>3, <2>1
<1>5. \A i \in DOMAIN Chain(m) : Held(m, Chain(m)[i])' <=> Held(m, Chain(m)[i])
  BY <1>1, <1>2 DEF Held
<1> QED
  BY <1>1, <1>4, <1>5 DEF Joins

\* A thread only grows, so that what fits has fitted before.
LEMMA FitsBefore ==
  ASSUME Grows, NEW t
  PROVE  PeopleIn(t) \subseteq PeopleIn(t)' /\ (Fits(t)' => Fits(t))
<1>1. In(t) \subseteq In(t)' /\ In(t)' \in SUBSET Messages
  BY DEF In, Grows, Stored
<1>2. RowsOf(t) \subseteq RowsOf(t)'
  BY <1>1 DEF RowsOf
<1>3. PeopleIn(t) \subseteq PeopleIn(t)'
  BY <1>1, <1>2 DEF PeopleIn
<1>4. IsFiniteSet(In(t)') /\ IsFiniteSet(RowsOf(t)') /\ IsFiniteSet(PeopleIn(t)')
  BY <1>1, PeopleAreFinite DEF RowsOf, PeopleIn
<1>5. ASSUME NEW S, NEW T, IsFiniteSet(T), S \subseteq T, NEW limit \in Nat, Cardinality(T) <= limit
      PROVE  Cardinality(S) <= limit
  <2>1. Cardinality(S) <= Cardinality(T) /\ IsFiniteSet(S)
    BY <1>5, FS_Subset
  <2>2. Cardinality(S) \in Nat /\ Cardinality(T) \in Nat
    BY <1>5, <2>1, FS_CardinalityType
  <2> QED
    BY <1>5, <2>1, <2>2
<1>6. RowLimit \in Nat /\ PeopleLimit \in Nat
  BY ThreadingShape DEF ThreadingShape
<1>7. Fits(t)' => Fits(t)
  <2>1. SUFFICES ASSUME Fits(t)' PROVE Fits(t)
    OBVIOUS
  <2>2. /\ Cardinality(In(t)') <= RowLimit /\ Cardinality(RowsOf(t)') <= RowLimit
        /\ Cardinality(PeopleIn(t)') <= PeopleLimit
    BY <2>1 DEF Fits, PeopleIn
  <2>3. /\ Cardinality(In(t)) <= RowLimit /\ Cardinality(RowsOf(t)) <= RowLimit
        /\ Cardinality(PeopleIn(t)) <= PeopleLimit
    BY <1>1, <1>2, <1>3, <1>4, <1>5, <1>6, <2>2
  <2> QED
    BY <2>3 DEF Fits, PeopleIn
<1> QED
  BY <1>3, <1>7

LEMMA NobodyStays ==
  ASSUME TypeOK, Grows, NEW m \in Mails, known'[m] = known[m], known[m] \subseteq Stored,
         NEW t, LeavesNobodyOut(m, t)
  PROVE  LeavesNobodyOut(m, t)'
<1>1. \A n \in known[m] : messages'[n].thread = messages[n].thread
  BY Rows DEF Grows
<1>2. Fits(t)' => Fits(t)
  BY FitsBefore
<1> QED
  BY <1>1, <1>2 DEF LeavesNobodyOut, PeopleOf

LEMMA TargetStays ==
  ASSUME TypeOK, LettersOK, Grows, NEW m \in Mails, letters'[m] = letters[m],
         known'[m] = known[m], TargetKnown(m)
  PROVE  TargetKnown(m)'
<1>1. LetterOK(m)
  BY DEF LettersOK
<1> QED
  BY <1>1 DEF LetterOK, TargetKnown, Grows

\* A decision, and what a task rests on, hold on whatever is stored meanwhile.
LEMMA TaskStays ==
  ASSUME TypeOK, Grows, NEW m \in Mails, letters'[m] = letters[m],
         known'[m] = known[m], known[m] \subseteq Stored
  PROVE  /\ \A thread, via : DecisionOK(m, thread, via) => DecisionOK(m, thread, via)'
         /\ \A task : TaskOK(m, task) => TaskOK(m, task)'
<1>1. Chain(m)' = Chain(m) /\ \A id : Held(m, id)' <=> Held(m, id)
  BY ChainStays, HeldStays
<1>2. \A t : (Joins(m, t) => Joins(m, t)') /\ (LeavesNobodyOut(m, t) => LeavesNobodyOut(m, t)')
  BY JoinsStays, NobodyStays
<1>3. \A thread, via : DecisionOK(m, thread, via) => DecisionOK(m, thread, via)'
  BY <1>2 DEF DecisionOK
<1>4. ASSUME NEW names, NamingOK(m, names) PROVE NamingOK(m, names)'
  <2>1. \A i \in DOMAIN Chain(m) : Held(m, Chain(m)[i])' <=> Held(m, Chain(m)[i])
    BY <1>1 DEF Held
  <2> QED
    BY <1>1, <1>4, <2>1 DEF NamingOK
<1>5. ASSUME NEW task, ReadingOK(m, task) PROVE ReadingOK(m, task)'
  <2>1. \A n \in known[m] : messages'[n].thread = messages[n].thread
    BY Rows DEF Grows
  <2>2. \A t \in task.matching : LeavesNobodyOut(m, t)'
    BY <1>2, <1>5 DEF ReadingOK
  <2>3. /\ PeopleIn(task.reading) \subseteq PeopleIn(task.reading)'
        /\ Fits(task.reading)' => Fits(task.reading)
    BY FitsBefore
  <2> QED
    BY <1>5, <2>1, <2>2, <2>3 DEF ReadingOK
<1>6. ASSUME NEW task, TaskOK(m, task) PROVE TaskOK(m, task)'
  <2>1. \A names : NamingOK(m, names) => NamingOK(m, names)'
    BY <1>4
  <2>2. ReadingOK(m, task) => ReadingOK(m, task)'
    BY <1>5
  <2> QED
    BY <1>2, <1>3, <1>6, <2>1, <2>2 DEF TaskOK
<1> QED
  BY <1>3, <1>6

\* What is certain of the capture of a mail stays so while others are captured, sent or recorded.
LEMMA OthersKeep ==
  ASSUME IInv, Grows, NEW m \in Mails, tasks'[m] = tasks[m], known'[m] = known[m],
         m \in Stored' <=> m \in Stored
  PROVE  CaptureOK(m)'
<1> USE DEF IInv
<1>1. CaptureOK(m) /\ tasks[m] \in Tasks /\ m \in Messages
  BY Rows DEF CapturesOK
<1>2. CASE tasks[m].step = "none"
  <2>1. TaskOK(m, tasks[m])'
    BY <1>1, <1>2 DEF CaptureOK, TaskOK
  <2> QED
    BY <1>1, <1>2, <2>1 DEF CaptureOK
<1>3. CASE tasks[m].step # "none"
  <2>1. /\ letters'[m] = letters[m] /\ letters[m] # NotWritten
        /\ known[m] \subseteq Stored \ {m} /\ TargetKnown(m)
    BY <1>1, <1>3 DEF CaptureOK, Grows
  <2>2. TargetKnown(m)' /\ known[m] \subseteq Stored' \ {m}
    BY <2>1, TargetStays, Rows DEF Grows
  <2>3. /\ \A thread, via : DecisionOK(m, thread, via) => DecisionOK(m, thread, via)'
        /\ \A task : TaskOK(m, task) => TaskOK(m, task)'
    BY <2>1, TaskStays
  <2>4. TaskOK(m, tasks[m])'
    <3>1. PICK task : task = tasks[m]
      OBVIOUS
    <3>2. TaskOK(m, task)'
      BY <1>1, <2>3, <3>1 DEF CaptureOK
    <3> QED
      BY <3>1, <3>2
  <2>5. tasks[m].step = "stored" => DecisionOK(m, messages[m].thread, tasks[m].via)'
    <3>1. PICK thread, via : thread = messages[m].thread /\ via = tasks[m].via
      OBVIOUS
    <3>2. tasks[m].step = "stored" => DecisionOK(m, thread, via)'
      BY <1>1, <2>3, <3>1 DEF CaptureOK
    <3>3. tasks[m].step = "stored" => messages'[m].thread = thread
      BY <1>1, <3>1 DEF CaptureOK, Grows
    <3> QED
      BY <3>1, <3>2, <3>3
  <2> QED
    BY <1>1, <2>1, <2>2, <2>4, <2>5 DEF CaptureOK
<1> QED
  BY <1>2, <1>3

\* A capture that goes on within what it knew.
LEMMA GoesOn ==
  ASSUME IInv, Grows, NEW m \in Mails, UNCHANGED <<letters, sends, messages, known>>,
         NEW task \in Tasks, tasks' = [tasks EXCEPT ![m] = task],
         tasks[m].step \in {"naming", "reading", "decided"},
         task.step \in {"naming", "reading", "decided"}, TaskOK(m, task)
  PROVE  CaptureOK(m)'
<1> USE DEF IInv
<1>1. CaptureOK(m) /\ tasks'[m] = task
  BY DEF CapturesOK, TypeOK
<1>2. /\ letters'[m] = letters[m] /\ letters[m] # NotWritten
      /\ known[m] \subseteq Stored \ {m} /\ TargetKnown(m)
      /\ Stored' = Stored /\ m \notin Stored
  BY <1>1 DEF CaptureOK, Stored
<1>3. TaskOK(m, task)' /\ TargetKnown(m)'
  BY <1>2, TaskStays, TargetStays
<1>4. TaskOK(m, tasks[m])'
  BY <1>1, <1>3
<1> QED
  BY <1>1, <1>2, <1>3, <1>4 DEF CaptureOK

-------------------------------------------------------------------------------
(* The steps of a capture *)

LEMMA BeginKeeps ==
  ASSUME IInv, NEW m \in Mails, Begin(m)
  PROVE  CaptureOK(m)'
<1> USE DEF IInv
<1> DEFINE task == [NoTask EXCEPT !.step = "naming", !.names = Names(m)]
<1>1. /\ letters[m] # NotWritten /\ messages[m].thread = None
      /\ UNCHANGED <<letters, sends, messages>>
      /\ tasks'[m] = task /\ known'[m] = Stored /\ Stored' = Stored
  BY DEF Begin, Becomes, TypeOK, Stored
<1>2. task.step = "naming" /\ task.names = Names(m) /\ task.reading = None
  BY DEF NoTask
<1>3. Stored' = Stored \ {m} /\ m \notin Stored
  BY <1>1 DEF Stored
<1>4. TargetKnown(m)'
  BY <1>1 DEF TargetKnown, SendsOK
<1>5. Chain(m)' = Chain(m)
  BY <1>1, ChainStays
<1>6. TaskOK(m, task)'
  <2>1. \A i \in DOMAIN Chain(m) : Held(m, Chain(m)[i])' =>
          \E p \in DOMAIN Names(m) : Names(m)[p] = Chain(m)[i]
    <3>1. \A i \in DOMAIN Chain(m) : Held(m, Chain(m)[i])' => Chain(m)[i] \in Ids
      BY <1>1, <1>5, Rows, NoneIsNoId DEF Held
    <3> QED
      BY <3>1, NamesOfChain DEF LettersOK, LetterOK
  <2>2. \A p, q \in DOMAIN Names(m) : p < q =>
          \A i \in DOMAIN Chain(m) : Chain(m)[i] = Names(m)[q] =>
            \E j \in i..Len(Chain(m)) : Chain(m)[j] = Names(m)[p]
    BY NamesOfChain DEF LettersOK, LetterOK
  <2>3. PICK names : names = Names(m)
    OBVIOUS
  <2>4. NamingOK(m, names)'
    BY <1>5, <2>1, <2>2, <2>3 DEF NamingOK
  <2>5. task.names' = names
    BY <1>1, <1>2, <2>3 DEF Names, Parsed, Sought
  <2>6. task'.step = "naming" /\ task'.reading = None
    BY DEF NoTask
  <2> HIDE DEF task
  <2> QED
    BY <2>4, <2>5, <2>6 DEF TaskOK
<1>7. tasks'[m] = task'
  BY <1>1 DEF Names, Parsed, Sought
<1> HIDE DEF task
<1> QED
  BY <1>1, <1>2, <1>3, <1>4, <1>6, <1>7 DEF CaptureOK

\* What a query finds is what the mail names nearest of what was held.
LEMMA LookKeeps ==
  ASSUME IInv, Grows, NEW m \in Mails, Look(m)
  PROVE  CaptureOK(m)'
<1> USE DEF IInv
<1> DEFINE names == tasks[m].names
           id == Head(names)
<1>1. /\ tasks[m].step = "naming" /\ names # <<>> /\ UNCHANGED known
      /\ names \in Seq(Ids) /\ tasks[m] \in Tasks
  BY Rows DEF Look, Tasks
<1>2. NamingOK(m, names) /\ known[m] \subseteq Stored /\ m \notin Stored /\ CaptureOK(m)
  BY <1>1 DEF CapturesOK, CaptureOK, TaskOK
<1>3. Len(names) \in Nat /\ DOMAIN names = 1..Len(names) /\ 1 \in DOMAIN names /\ id = names[1]
  BY <1>1
<1>4. CASE Found(id) = {}
  <2> DEFINE task == [tasks[m] EXCEPT !.names = Tail(@)]
  <2>1. Becomes(m, task)
    BY <1>4 DEF Look
  <2>2. /\ Tail(names) \in Seq(Ids) /\ DOMAIN Tail(names) = 1..(Len(names) - 1)
        /\ \A p \in 1..(Len(names) - 1) : Tail(names)[p] = names[p + 1]
    BY <1>1, <1>3
  <2>3. /\ task \in Tasks /\ task.step = "naming" /\ task.names = Tail(names)
        /\ task.reading = tasks[m].reading
    BY <1>1, <2>2 DEF Tasks
  <2>4. NamingOK(m, Tail(names))
    <3>1. ASSUME NEW i \in DOMAIN Chain(m), Held(m, Chain(m)[i])
          PROVE  \E p \in DOMAIN Tail(names) : Tail(names)[p] = Chain(m)[i]
      <4>1. PICK p \in DOMAIN names : names[p] = Chain(m)[i]
        BY <1>2, <3>1 DEF NamingOK
      <4>2. p # 1
        BY <1>2, <1>3, <1>4, <3>1, <4>1 DEF Held, Found
      <4>3. p - 1 \in DOMAIN Tail(names) /\ (p - 1) + 1 = p
        BY <1>3, <2>2, <4>2
      <4> QED
        BY <2>2, <4>1, <4>3
    <3>2. ASSUME NEW p \in DOMAIN Tail(names), NEW q \in DOMAIN Tail(names), p < q,
                 NEW i \in DOMAIN Chain(m), Chain(m)[i] = Tail(names)[q]
          PROVE  \E j \in i..Len(Chain(m)) : Chain(m)[j] = Tail(names)[p]
      <4>1. /\ p + 1 \in DOMAIN names /\ q + 1 \in DOMAIN names /\ p + 1 < q + 1
            /\ Tail(names)[q] = names[q + 1] /\ Tail(names)[p] = names[p + 1]
        BY <1>3, <2>2, <3>2
      <4> QED
        BY <1>2, <3>2, <4>1 DEF NamingOK
    <3> HIDE DEF names
    <3> QED
      BY <3>1, <3>2 DEF NamingOK
  <2>5. TaskOK(m, task)
    BY <1>1, <1>2, <2>3, <2>4 DEF TaskOK, CaptureOK
  <2> HIDE DEF task
  <2> QED
    BY <1>1, <2>1, <2>3, <2>5, GoesOn DEF Becomes
<1>5. CASE Found(id) # {}
  <2>1. PICK n \in Found(id) :
          Becomes(m, [NoTask EXCEPT !.step = "decided", !.found = messages[n].thread, !.via = "named"])
    BY <1>5 DEF Look
  <2> DEFINE task == [NoTask EXCEPT !.step = "decided", !.found = messages[n].thread, !.via = "named"]
  <2>2. n \in Stored \ {m} /\ id \in messages[n].ids /\ messages[n].thread \in Messages
    BY <1>2, Rows DEF Found, Stored, MessageRows
  <2>3. /\ task \in Tasks /\ task.step = "decided" /\ task.found = messages[n].thread
        /\ task.via = "named" /\ task.reading = None
    BY <2>2, NullRows DEF NoTask, Tasks
  <2>4. Joins(m, messages[n].thread)
    <3>1. ASSUME NEW i \in DOMAIN Chain(m), Held(m, Chain(m)[i])
          PROVE  \E j \in i..Len(Chain(m)) : Chain(m)[j] = id
      <4>1. PICK p \in DOMAIN names : names[p] = Chain(m)[i]
        BY <1>2, <3>1 DEF NamingOK
      <4>2. CASE p = 1
        <5>1. Chain(m) \in Seq(Ids \cup {None})
          <6>1. Parsed(m) \in Seq(Ids) /\ letters[m].inReplyTo \in Ids \cup {None}
            BY Rows, NamesOfChain DEF LettersOK, LetterOK, Headers
          <6> QED
            BY <6>1 DEF Chain
        <5>2. i \in i..Len(Chain(m))
          BY <5>1
        <5> QED
          BY <1>3, <4>1, <4>2, <5>2
      <4>3. CASE p # 1
        BY <1>2, <1>3, <4>1, <4>3 DEF NamingOK
      <4> QED
        BY <4>2, <4>3
    <3> QED
      BY <2>2, <3>1 DEF Joins
  <2>5. Becomes(m, task)
    BY <2>1
  <2> HIDE DEF task
  <2>6. TaskOK(m, task)
    BY <2>3, <2>4 DEF TaskOK, DecisionOK
  <2> QED
    BY <1>1, <2>3, <2>5, <2>6, GoesOn DEF Becomes
<1> QED
  BY <1>4, <1>5

\* When the mail names nothing that was held, candidates are read until none is left.
LEMMA ResolvesKeeps ==
  ASSUME IInv, Grows, NEW m \in Mails, UNCHANGED known, tasks[m].step \in {"naming", "reading"},
         NEW candidates \in SUBSET Messages, NEW matching \in SUBSET Messages,
         Resolves(m, candidates, matching),
         Joins(m, None), \A t \in matching : LeavesNobodyOut(m, t)
  PROVE  CaptureOK(m)'
<1> USE DEF IInv
<1>1. PICK task \in Tasks :
        /\ Becomes(m, task) /\ task.reading = None
        /\ \/ /\ task.step = "reading" /\ task.matching = matching
              /\ task.senders = None /\ task.recipients = None
           \/ task.step = "decided" /\ task.found = None /\ task.via = "new"
           \/ task.step = "decided" /\ task.found \in matching /\ task.via = "subject"
  BY ResolvesTo
<1>2. \A t : Joins(m, t)
  BY DEF Joins, Stored
<1>3. TaskOK(m, task)
  <2>1. CASE /\ task.step = "reading" /\ task.matching = matching
             /\ task.senders = None /\ task.recipients = None
    <3>1. ReadingOK(m, task)
      BY <1>1, <2>1 DEF ReadingOK
    <3> QED
      BY <2>1, <3>1 DEF TaskOK
  <2>2. CASE task.step = "decided" /\ task.found = None /\ task.via = "new"
    <3>1. DecisionOK(m, task.found, task.via)
      BY <1>2, <2>2 DEF DecisionOK
    <3> QED
      BY <1>1, <2>2, <3>1 DEF TaskOK
  <2>3. CASE task.step = "decided" /\ task.found \in matching /\ task.via = "subject"
    <3>1. task.found # None
      BY <2>3, NoneIsNoId
    <3>2. DecisionOK(m, task.found, task.via)
      BY <1>2, <2>3, <3>1 DEF DecisionOK
    <3> QED
      BY <1>1, <2>3, <3>2 DEF TaskOK
  <2> QED
    BY <1>1, <2>1, <2>2, <2>3
<1> QED
  BY <1>1, <1>3, GoesOn DEF Becomes

LEMMA ListKeeps ==
  ASSUME IInv, Grows, NEW m \in Mails, List(m)
  PROVE  CaptureOK(m)'
<1> USE DEF IInv
<1>1. tasks[m].step = "naming" /\ tasks[m].names = <<>> /\ UNCHANGED known
  BY DEF List
<1>2. PICK inWindow \in SUBSET Candidates(m) : Resolves(m, inWindow, {})
  BY DEF List
<1>3. inWindow \in SUBSET Messages
  BY DEF Candidates, TypeOK
<1>4. Joins(m, None)
  <2>1. NamingOK(m, tasks[m].names) /\ DOMAIN tasks[m].names = {}
    BY <1>1 DEF CapturesOK, CaptureOK, TaskOK
  <2> QED
    BY <2>1 DEF NamingOK, Joins
<1> QED
  BY <1>1, <1>2, <1>3, <1>4, ResolvesKeeps

\* What was known of a thread that fits is in the answers of both queries, whichever comes first.
LEMMA AnswersHaveKnown ==
  ASSUME NEW m \in Mails, known[m] \subseteq Stored, NEW n \in known[m], NEW t,
         messages[n].thread = t, Fits(t)
  PROVE  /\ \A senders \in Senders(t) : From[n] \in senders
         /\ \A recipients \in Addressees(t) : Recipients[n] \subseteq recipients
<1>1. n \in In(t) /\ n \in Messages
  BY DEF In, Stored
<1>2. Recipients[n] \subseteq {row.address : row \in RowsOf(t)}
  BY <1>1 DEF Recipients, RowsOf
<1> QED
  BY <1>1, <1>2, AnswersArePeople

LEMMA ReadFirstKeeps ==
  ASSUME IInv, Grows, NEW m \in Mails, ReadFirst(m)
  PROVE  CaptureOK(m)'
<1> USE DEF IInv
<1>1. /\ tasks[m].step = "reading" /\ tasks[m].reading = None /\ UNCHANGED known
      /\ tasks[m] \in Tasks
  BY Rows DEF ReadFirst
<1>2. Joins(m, None) /\ ReadingOK(m, tasks[m]) /\ known[m] \subseteq Stored
  BY <1>1 DEF CapturesOK, CaptureOK, TaskOK
<1>3. tasks[m].senders = None /\ tasks[m].recipients = None
  BY <1>1, <1>2 DEF ReadingOK
<1>4. PICK t \in tasks[m].candidates :
        \/ \E senders \in Senders(t) :
             Becomes(m, [tasks[m] EXCEPT !.reading = t, !.senders = senders])
        \/ \E recipients \in Addressees(t) :
             Becomes(m, [tasks[m] EXCEPT !.reading = t, !.recipients = recipients])
  BY DEF ReadFirst
<1>5. /\ t \in Messages /\ t # None
      /\ Senders(t) \subseteq SUBSET People /\ Addressees(t) \subseteq SUBSET People
  BY <1>1, AnswersType, NoneIsNoId DEF Tasks
<1>6. ASSUME NEW task \in Tasks, Becomes(m, task), task.step = "reading", task.reading = t,
             task.matching = tasks[m].matching,
             task.senders = None \/ task.senders \in Senders(t),
             task.recipients = None \/ task.recipients \in Addressees(t)
      PROVE  CaptureOK(m)'
  <2>1. ReadingOK(m, task)
    BY <1>2, <1>5, <1>6, AnswersHaveKnown, AnswersArePeople DEF ReadingOK
  <2>2. TaskOK(m, task)
    BY <1>2, <1>6, <2>1 DEF TaskOK
  <2> QED
    BY <1>1, <1>6, <2>2, GoesOn DEF Becomes
<1>7. ASSUME NEW senders \in Senders(t),
             Becomes(m, [tasks[m] EXCEPT !.reading = t, !.senders = senders])
      PROVE  CaptureOK(m)'
  <2> DEFINE task == [tasks[m] EXCEPT !.reading = t, !.senders = senders]
  <2>1. /\ task \in Tasks /\ task.step = "reading" /\ task.reading = t
        /\ task.matching = tasks[m].matching /\ task.senders = senders /\ task.recipients = None
    BY <1>1, <1>3, <1>5 DEF Tasks
  <2>2. Becomes(m, task)
    BY <1>7
  <2> HIDE DEF task
  <2> QED
    BY <1>6, <2>1, <2>2
<1>8. ASSUME NEW recipients \in Addressees(t),
             Becomes(m, [tasks[m] EXCEPT !.reading = t, !.recipients = recipients])
      PROVE  CaptureOK(m)'
  <2> DEFINE task == [tasks[m] EXCEPT !.reading = t, !.recipients = recipients]
  <2>1. /\ task \in Tasks /\ task.step = "reading" /\ task.reading = t
        /\ task.matching = tasks[m].matching /\ task.senders = None /\ task.recipients = recipients
    BY <1>1, <1>3, <1>5 DEF Tasks
  <2>2. Becomes(m, task)
    BY <1>8
  <2> HIDE DEF task
  <2> QED
    BY <1>6, <2>1, <2>2
<1> QED
  BY <1>4, <1>7, <1>8

LEMMA ReadSecondKeeps ==
  ASSUME IInv, Grows, NEW m \in Mails, ReadSecond(m)
  PROVE  CaptureOK(m)'
<1> USE DEF IInv
<1> DEFINE task == tasks[m]
           t    == task.reading
<1>0. PICK senders \in IF task.senders = None THEN Senders(t) ELSE {task.senders},
           recipients \in IF task.recipients = None THEN Addressees(t) ELSE {task.recipients} :
        \E people \in KeptOf(senders, recipients) :
          Resolves(m, task.candidates \ {t},
                   task.matching \cup IF Among(m, people \ Ignored) THEN {t} ELSE {})
  BY DEF ReadSecond
<1>1. PICK people \in KeptOf(senders, recipients) :
        Resolves(m, task.candidates \ {t},
                 task.matching \cup IF Among(m, people \ Ignored) THEN {t} ELSE {})
  BY <1>0
<1>2. /\ t # None /\ UNCHANGED known
      /\ task \in Tasks /\ task.step = "reading"
  BY Rows DEF ReadSecond, CapturesOK, CaptureOK, TaskOK
<1>3. Joins(m, None) /\ ReadingOK(m, task) /\ known[m] \subseteq Stored
  BY <1>2 DEF CapturesOK, CaptureOK, TaskOK
<1> DEFINE matching == task.matching \cup IF Among(m, people \ Ignored) THEN {t} ELSE {}
<1>4. task.candidates \ {t} \in SUBSET Messages /\ matching \in SUBSET Messages
  BY <1>2 DEF Tasks
<1>5. ASSUME Among(m, people \ Ignored) PROVE LeavesNobodyOut(m, t)
  <2>1. SUFFICES ASSUME Fits(t), NEW n \in known[m], messages[n].thread = t
                 PROVE  PeopleOf(n) \subseteq PeopleOf(m)
    BY DEF LeavesNobodyOut
  <2>2. From[n] \in senders /\ Recipients[n] \subseteq recipients
    BY <1>0, <1>2, <1>3, <2>1, AnswersHaveKnown DEF ReadingOK
  <2>3. people = senders \cup recipients
    <3>1. senders \cup recipients \subseteq PeopleIn(t)
      BY <1>0, <1>2, <1>3, AnswersArePeople DEF ReadingOK
    <3>2. Cardinality(senders \cup recipients) <= PeopleLimit
      <4>1. Cardinality(PeopleIn(t)) <= PeopleLimit
        BY <2>1 DEF Fits, PeopleIn
      <4>2. IsFiniteSet(PeopleIn(t))
        <5>1. In(t) \in SUBSET Messages
          BY DEF In, Stored
        <5> QED
          BY <5>1, PeopleAreFinite DEF PeopleIn, RowsOf
      <4>3. /\ Cardinality(senders \cup recipients) <= Cardinality(PeopleIn(t))
            /\ IsFiniteSet(senders \cup recipients)
        BY <3>1, <4>2, FS_Subset
      <4>4. Cardinality(senders \cup recipients) \in Nat /\ Cardinality(PeopleIn(t)) \in Nat
        BY <4>2, <4>3, FS_CardinalityType
      <4>5. PeopleLimit \in Nat
        BY ThreadingShape DEF ThreadingShape
      <4> QED
        BY <4>1, <4>3, <4>4, <4>5
    <3> QED
      BY <1>1, <3>2, LimitLeaves DEF KeptOf
  <2> QED
    BY <1>5, <2>2, <2>3 DEF Among, PeopleOf
<1>6. \A other \in matching : LeavesNobodyOut(m, other)
  BY <1>3, <1>5 DEF ReadingOK
<1>7. Resolves(m, task.candidates \ {t}, matching)
  BY <1>1
<1> HIDE DEF matching
<1> QED
  BY <1>2, <1>3, <1>4, <1>6, <1>7, ResolvesKeeps

LEMMA ProjectKeeps ==
  ASSUME IInv, Grows, NEW m \in Mails, Project(m)
  PROVE  CaptureOK(m)'
<1> USE DEF IInv
<1> DEFINE task == [NoTask EXCEPT !.step = "stored", !.via = tasks[m].via]
<1>1. PICK thread : thread = IF tasks[m].found = None THEN m ELSE tasks[m].found
  OBVIOUS
<1>2. /\ tasks[m].step = "decided" /\ tasks'[m] = task
      /\ messages'[m] = RowIn(thread, {m}) /\ UNCHANGED <<letters, sends, known>>
      /\ tasks[m] \in Tasks /\ m \in Messages
  BY <1>1, Rows DEF Project, TypeOK
<1>3. /\ task.step = "stored" /\ task.via = tasks[m].via /\ task.reading = None
  BY DEF NoTask
<1>4. /\ DecisionOK(m, tasks[m].found, tasks[m].via)
      /\ letters[m] # NotWritten /\ known[m] \subseteq Stored \ {m} /\ TargetKnown(m)
  BY <1>2 DEF CapturesOK, CaptureOK, TaskOK
<1>5. DecisionOK(m, thread, tasks[m].via)
  <2>1. CASE tasks[m].found = None
    <3>1. Joins(m, thread) /\ tasks[m].via # "subject"
      BY <1>4, <2>1 DEF DecisionOK, Joins, Stored
    <3> QED
      BY <3>1 DEF DecisionOK
  <2>2. CASE tasks[m].found # None
    BY <1>1, <1>4, <2>2
  <2> QED
    BY <2>1, <2>2
<1>6. thread \in Messages /\ thread # None
  BY <1>1, <1>2, NoneIsNoId DEF Tasks
<1>7. m \in Stored' /\ messages'[m].thread = thread
  BY <1>2, <1>6 DEF Stored, RowIn
<1>8. known[m] \subseteq Stored' \ {m} /\ TargetKnown(m)'
  BY <1>2, <1>4, Rows, TargetStays DEF Grows
<1>9. DecisionOK(m, messages[m].thread, tasks[m].via)'
  <2>1. PICK via : via = tasks[m].via
    OBVIOUS
  <2>2. DecisionOK(m, thread, via)'
    BY <1>2, <1>4, <1>5, <2>1, TaskStays
  <2> QED
    BY <1>2, <1>3, <1>7, <2>1, <2>2
<1>10. TaskOK(m, tasks[m])'
  BY <1>2, <1>3 DEF TaskOK
<1> HIDE DEF task
<1> QED
  BY <1>2, <1>3, <1>4, <1>7, <1>8, <1>9, <1>10 DEF CaptureOK

LEMMA AbandonKeeps ==
  ASSUME IInv, NEW m \in Mails, Abandon(m)
  PROVE  CaptureOK(m)'
<1> USE DEF IInv
<1>1. /\ tasks'[m] = NoTask /\ tasks[m].step # "stored" /\ Stored' = Stored
  BY DEF Abandon, Becomes, TypeOK, Stored
<1>2. m \notin Stored
  BY <1>1 DEF CapturesOK, CaptureOK
<1>3. TaskOK(m, tasks[m])'
  BY <1>1 DEF TaskOK, NoTask
<1> QED
  BY <1>1, <1>2, <1>3 DEF CaptureOK, NoTask

LEMMA CapturesStep ==
  ASSUME IInv, [Next]_vars
  PROVE  CapturesOK'
<1> USE DEF IInv
<1>1. Grows
  BY StepGrows
<1>2. ASSUME NEW m \in Mails, Captures(m) \/ Project(m), NEW o \in Mails, o # m
      PROVE  CaptureOK(o)'
  <2>1. /\ tasks'[o] = tasks[o] /\ known'[o] = known[o] /\ messages'[o] = messages[o]
    <3>1. CASE Captures(m)
      BY <1>2, <3>1, CaptureSteps DEF TypeOK
    <3>2. CASE Project(m)
      BY <1>2, <3>2, Rows DEF Project, TypeOK
    <3> QED
      BY <1>2, <3>1, <3>2
  <2>2. o \in Stored' <=> o \in Stored
    BY <2>1 DEF Stored
  <2> QED
    BY <1>1, <2>1, <2>2, OthersKeep
<1>3. ASSUME NEW m \in Mails, Captures(m) \/ Project(m) PROVE CaptureOK(m)'
  BY <1>1, <1>3, BeginKeeps, LookKeeps, ListKeeps, ReadFirstKeeps, ReadSecondKeeps, ProjectKeeps,
     AbandonKeeps DEF Captures
<1>4. ASSUME NEW o \in Mails, UNCHANGED <<tasks, known>>, o \in Stored' <=> o \in Stored
      PROVE  CaptureOK(o)'
  BY <1>1, <1>4, OthersKeep
<1>5. ASSUME NEW m \in Mails, Write(m) PROVE CapturesOK'
  <2>1. UNCHANGED <<tasks, known>> /\ Stored' = Stored
    BY <1>5 DEF Write, Stored
  <2> QED
    BY <1>4, <2>1 DEF CapturesOK
<1>6. ASSUME NEW m \in Mails, RecordCopy(m) PROVE CapturesOK'
  <2>1. UNCHANGED <<tasks, known>> /\ \A o \in Messages : messages'[o].thread = messages[o].thread
    BY <1>6, Rows DEF RecordCopy, TypeOK, MessageRows
  <2>2. Stored' = Stored
    BY <2>1 DEF Stored
  <2> QED
    BY <1>4, <2>1, <2>2 DEF CapturesOK
<1>7. ASSUME NEW r \in Replies, NEW send \in SendRows, SendStarts(r, send) PROVE CapturesOK'
  <2>1. UNCHANGED <<tasks, known>> /\ Stored' = Stored
    BY <1>7 DEF SendStarts, Stored
  <2> QED
    BY <1>4, <2>1 DEF CapturesOK
<1>8. ASSUME NEW r \in Replies, Record(r) PROVE CapturesOK'
  <2>1. UNCHANGED <<tasks, known>> /\ \A o \in Mails : messages'[o] = messages[o] /\ o \in Messages
    BY <1>8, Rows DEF Record, Sends, TypeOK
  <2>2. \A o \in Mails : o \in Stored' <=> o \in Stored
    BY <2>1 DEF Stored
  <2> QED
    BY <1>4, <2>1, <2>2 DEF CapturesOK
<1>9. CASE UNCHANGED vars
  <2>1. UNCHANGED <<tasks, known>> /\ Stored' = Stored
    BY <1>9 DEF vars, Stored
  <2> QED
    BY <1>4, <2>1 DEF CapturesOK
<1> QED
  BY <1>2, <1>3, <1>5, <1>6, <1>7, <1>8, <1>9, Steps DEF CapturesOK

LEMMA StepIInv == IInv /\ [Next]_vars => IInv'
BY TypeStep, RowsStep, SendsStep, LettersStep, CapturesStep DEF IInv

-------------------------------------------------------------------------------
(* The theorems *)

THEOREM Invariance == Spec => []IInv
BY InitIInv, StepIInv, PTL DEF Spec

\* Every variable has its type, whatever is written, captured and sent.
THEOREM TypeCorrect == Spec => []TypeOK
<1>1. IInv => TypeOK
  BY DEF IInv
<1> QED
  BY <1>1, Invariance, PTL

\* A mail that names messages the mailbox held when its capture began joins a thread of one of
\* them, whatever is captured, forwarded or recorded while its capture looks them up one by one.
THEOREM NamesAreJoined == Spec => []NamedIsJoined
<1>1. IInv => NamedIsJoined
  <2>1. SUFFICES ASSUME IInv, NEW m \in Captured PROVE Joins(m, messages[m].thread)
    BY DEF NamedIsJoined, Joins, Held, Chain
  <2>2. m \in Mails /\ tasks[m].step = "stored"
    BY <2>1 DEF Captured, IInv, CapturesOK, CaptureOK
  <2> QED
    BY <2>1, <2>2 DEF IInv, CapturesOK, CaptureOK, DecisionOK
<1> QED
  BY <1>1, Invariance, PTL

\* A mail that joins by its subject leaves out nobody of what the mailbox held when its
\* capture began, in a thread that the two queries for its people read whole: also where
\* other threads outgrow their limits.
THEOREM SubjectIsSafe == Spec => []SubjectLeavesNobodyOut
<1>1. IInv => SubjectLeavesNobodyOut
  <2>1. SUFFICES ASSUME IInv, NEW m \in Captured, tasks[m].via = "subject"
                 PROVE  LeavesNobodyOut(m, messages[m].thread)
    BY DEF SubjectLeavesNobodyOut, LeavesNobodyOut
  <2>2. m \in Mails /\ tasks[m].step = "stored"
    BY <2>1 DEF Captured, IInv, CapturesOK, CaptureOK
  <2> QED
    BY <2>1, <2>2 DEF IInv, CapturesOK, CaptureOK, DecisionOK
<1> QED
  BY <1>1, Invariance, PTL

\* The last two that such an answer names are the reply and the message it answered: the
\* capture knew the latter, and whichever of the two it found is in the thread of the reply.
LEMMA CitedIsFound ==
  ASSUME IInv, SendsCite
  PROVE  AnswersComeHome
<1> USE DEF IInv
<1>1. SUFFICES ASSUME NEW m \in Captured, NEW reply \in Replies, reply = letters[m].parent,
                      letters[m].references # <<>>, sends[reply].target # None
               PROVE  messages[m].thread = sends[reply].thread
  BY DEF AnswersComeHome
<1> DEFINE target == sends[reply].target
           parsed == Parsed(m)
           last == Len(parsed)
<1>2. m \in Mails /\ tasks[m].step = "stored" /\ CaptureOK(m) /\ LetterOK(m)
  BY DEF Captured, CapturesOK, CaptureOK, LettersOK
<1>3. /\ Joins(m, messages[m].thread) /\ known[m] \subseteq Stored /\ TargetKnown(m)
  BY <1>2 DEF CaptureOK, DecisionOK
<1>4. /\ letters[m].inReplyTo = reply
      /\ letters[m].references = Append(sends[reply].references, reply)
  BY <1>1, <1>2, Rows DEF LetterOK, ChainOrNone, ReferencesOf
<1>5. /\ target \in known[m] /\ target \in Stored /\ target \in Mails
      /\ messages[target].thread = sends[reply].thread
  <2>1. sends[reply].target \in Mails
    BY <1>1, Rows DEF SendRows
  <2>2. letters[m].inReplyTo # None
    BY <1>4, Rows, NoneIsNoId
  <2> QED
    BY <1>1, <1>3, <2>1, <2>2 DEF SendsOK, TargetKnown
<1>6. parsed \in Seq(Ids) /\ last >= 2 /\ parsed[last] = reply /\ parsed[last - 1] = target
  <2>1. /\ sends[reply].references \in Seq(Ids) /\ reply \in Ids /\ reply # target
        /\ sends[reply].references # <<>>
        /\ sends[reply].references[Len(sends[reply].references)] = target
    BY <1>1, <1>5, Rows, NoneIsNoId DEF SendsCite
  <2> QED
    BY <1>2, <1>4, <2>1, ParsedEnds
<1>7. /\ Len(Chain(m)) = last + 1 /\ last - 1 \in DOMAIN Chain(m)
      /\ \A j \in (last - 1)..(last + 1) : Chain(m)[j] = target \/ Chain(m)[j] = reply
  <2>1. Len(parsed) \in Nat /\ reply \in Ids
    BY <1>6, Rows, NoneIsNoId
  <2>2. Chain(m) = Append(parsed, reply)
    BY <1>4 DEF Chain
  <2> HIDE DEF parsed
  <2>3. /\ Len(Chain(m)) = last + 1 /\ DOMAIN Chain(m) = 1..(last + 1)
        /\ Chain(m)[last + 1] = reply /\ \A j \in 1..last : Chain(m)[j] = parsed[j]
    BY <1>6, <2>1, <2>2
  <2>4. \A j \in (last - 1)..(last + 1) : j = last - 1 \/ j = last \/ j = last + 1
    BY <1>6
  <2> QED
    BY <1>6, <2>1, <2>3, <2>4
<1>8. Chain(m)[last - 1] = target /\ Held(m, target)
  <2>1. target \in messages[target].ids
    BY <1>5 DEF RowsOK
  <2>2. Chain(m)[last - 1] = target
    <3>1. parsed \in Seq(Ids) /\ last - 1 \in 1..last
      BY <1>6
    <3> HIDE DEF parsed
    <3> QED
      BY <1>4, <1>6, <3>1 DEF Chain, parsed
  <2> QED
    BY <1>5, <2>1, <2>2 DEF Held
<1> HIDE DEF target, parsed
<1>9. PICK j \in (last - 1)..(last + 1), n \in Stored \ {m} :
        Chain(m)[j] \in messages[n].ids /\ messages[n].thread = messages[m].thread
  BY <1>3, <1>7, <1>8 DEF Joins
<1>10. Chain(m)[j] = target => n = target
  <2>1. \A o \in Mails : CopyOf(o) \notin Messages
    BY ThreadingShape DEF ThreadingShape
  <2> QED
    BY <1>5, <1>9, <2>1, Rows DEF RowsOK
<1>11. Chain(m)[j] = reply => n = reply
  <2>1. \A o \in Mails : CopyOf(o) \notin Messages
    BY ThreadingShape DEF ThreadingShape
  <2> QED
    BY <1>9, <2>1, Rows DEF RowsOK
<1>12. CASE n = target
  BY <1>5, <1>9, <1>12
<1>13. CASE n = reply
  BY <1>9, <1>13 DEF RowsOK
<1> QED
  BY <1>7, <1>9, <1>10, <1>11, <1>12, <1>13

\* An answer to a reply comes home, when no id takes more bytes than the references of a relay
\* may: a longer one would be left out of them.
THEOREM AnswersAreHome ==
  ASSUME \A id \in Ids : Size[id] <= InnerBytes
  PROVE  Spec => []AnswersComeHome
<1>1. Init => SendsCite
  BY DEF Init, SendsCite, NoSend
<1>2. IInv /\ SendsCite /\ [Next]_vars => SendsCite'
  BY CitesStep
<1>3. IInv /\ SendsCite => AnswersComeHome
  BY CitedIsFound
<1> QED
  BY <1>1, <1>2, <1>3, Invariance, PTL DEF Spec

================================================================================
