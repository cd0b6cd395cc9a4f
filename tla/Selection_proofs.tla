-------------------------- MODULE Selection_proofs --------------------------
(***************************************************************************)
(* What Pick keeps of a sequence: a place's rank among the kept ones is    *)
(* where it goes, every rank is taken, and by one place only.              *)
(***************************************************************************)
EXTENDS Selection, FiniteSetTheorems, SequenceTheorems, WellFoundedInduction, TLAPS

LEMMA LeastNat ==
    ASSUME NEW T, T \subseteq Nat, T # {}
    PROVE  \E x \in T : \A y \in T : x <= y
  <1>1. \E x \in T : \A y \in T : <<y, x>> \notin OpToRel(<, Nat)
    BY NatLessThanWellFounded, WFMin
  <1>2. ASSUME NEW x \in Nat, NEW y \in Nat, y < x
        PROVE  <<y, x>> \in OpToRel(<, Nat)
    BY <1>2 DEF OpToRel
  <1>3. PICK x \in T : \A y \in T : <<y, x>> \notin OpToRel(<, Nat)
    BY <1>1
  <1>4. \A y \in T : ~(y < x)
    BY <1>2, <1>3
  <1> QED
    BY <1>4

(* How many places of kept are not after i.                                *)
Rank(kept, i) == Cardinality({j \in kept : j <= i})

LEMMA RankIs ==
    ASSUME NEW n \in Nat, NEW kept \in SUBSET (1..n)
    PROVE  /\ Cardinality(kept) \in 0..n
           /\ \A i \in Nat : Rank(kept, i) \in 0..Cardinality(kept)
           /\ Rank(kept, 0) = 0 /\ Rank(kept, n) = Cardinality(kept)
           /\ \A i \in Nat : Rank(kept, i + 1) =
                 IF i + 1 \in kept THEN Rank(kept, i) + 1 ELSE Rank(kept, i)
           /\ \A i, j \in Nat : i <= j => Rank(kept, i) <= Rank(kept, j)
  <1>n. \A x \in kept : x \in 1..n /\ x \in Nat
    OBVIOUS
  <1> USE <1>n
  <1>1. IsFiniteSet(1..n) /\ Cardinality(1..n) = n
    BY FS_Interval
  <1>2. IsFiniteSet(kept) /\ Cardinality(kept) <= n
    BY <1>1, FS_Subset
  <1>3. Cardinality(kept) \in Nat
    BY <1>2, FS_CardinalityType
  <1>4. ASSUME NEW i \in Nat
        PROVE  /\ IsFiniteSet({j \in kept : j <= i})
               /\ Rank(kept, i) \in 0..Cardinality(kept)
    <2>1. {j \in kept : j <= i} \in SUBSET kept
      OBVIOUS
    <2>2. /\ IsFiniteSet({j \in kept : j <= i})
          /\ Cardinality({j \in kept : j <= i}) <= Cardinality(kept)
      BY <2>1, <1>2, FS_Subset
    <2>3. Cardinality({j \in kept : j <= i}) \in Nat
      BY <2>2, FS_CardinalityType
    <2> QED
      BY <2>2, <2>3, <1>3 DEF Rank
  <1>5. Rank(kept, 0) = 0
    <2>0. \A j \in kept : ~(j <= 0)
      OBVIOUS
    <2>1. {j \in kept : j <= 0} = {}
      BY <2>0
    <2> QED
      BY <2>1, FS_EmptySet DEF Rank
  <1>6. Rank(kept, n) = Cardinality(kept)
    <2>0. \A j \in kept : j <= n
      OBVIOUS
    <2>1. {j \in kept : j <= n} = kept
      BY <2>0
    <2> QED
      BY <2>1 DEF Rank
  <1>7. ASSUME NEW i \in Nat
        PROVE  Rank(kept, i + 1) =
                 IF i + 1 \in kept THEN Rank(kept, i) + 1 ELSE Rank(kept, i)
    <2>1. CASE i + 1 \in kept
      <3>0. \A j \in kept : j <= i + 1 <=> j <= i \/ j = i + 1
        OBVIOUS
      <3>1. {j \in kept : j <= i + 1} = {j \in kept : j <= i} \cup {i + 1}
        <4>1. ASSUME NEW j
              PROVE  j \in {x \in kept : x <= i + 1}
                       <=> j \in {x \in kept : x <= i} \cup {i + 1}
          BY <2>1, <3>0
        <4> QED
          BY <4>1
      <3>2. i + 1 \notin {j \in kept : j <= i}
        OBVIOUS
      <3>3. Cardinality({j \in kept : j <= i} \cup {i + 1})
              = Cardinality({j \in kept : j <= i}) + 1
        BY <3>2, <1>4, FS_AddElement
      <3> QED
        BY <2>1, <3>1, <3>3 DEF Rank
    <2>2. CASE i + 1 \notin kept
      <3>0. \A j \in kept : j <= i + 1 <=> j <= i
        BY <2>2
      <3>1. {j \in kept : j <= i + 1} = {j \in kept : j <= i}
        BY <3>0
      <3> QED
        BY <2>2, <3>1 DEF Rank
    <2> QED
      BY <2>1, <2>2
  <1>8. ASSUME NEW i \in Nat, NEW j \in Nat, i <= j
        PROVE  Rank(kept, i) <= Rank(kept, j)
    <2>0. \A x \in kept : x <= i => x <= j
      BY <1>8
    <2>1. {x \in kept : x <= i} \in SUBSET {x \in kept : x <= j}
      BY <2>0
    <2>2. IsFiniteSet({x \in kept : x <= j})
      BY <1>4
    <2>3. Cardinality({x \in kept : x <= i}) <= Cardinality({x \in kept : x <= j})
      BY <2>1, <2>2, FS_Subset
    <2> QED
      BY <2>3 DEF Rank
  <1>9. Cardinality(kept) \in 0..n
    BY <1>2, <1>3
  <1> QED
    BY <1>4, <1>5, <1>6, <1>7, <1>8, <1>9

(* Every rank is taken, by one place.                                      *)
LEMMA RankIsTaken ==
    ASSUME NEW n \in Nat, NEW kept \in SUBSET (1..n), NEW m \in 1..Cardinality(kept)
    PROVE  \E i \in kept : Rank(kept, i) = m
  <1>1. /\ Cardinality(kept) \in 0..n
        /\ \A i \in Nat : Rank(kept, i) \in 0..Cardinality(kept)
        /\ Rank(kept, 0) = 0 /\ Rank(kept, n) = Cardinality(kept)
        /\ \A i \in Nat : Rank(kept, i + 1) =
                 IF i + 1 \in kept THEN Rank(kept, i) + 1 ELSE Rank(kept, i)
    BY RankIs
  <1> DEFINE T == {i \in Nat : Rank(kept, i) >= m}
  <1>2. T \subseteq Nat /\ T # {}
    BY <1>1
  <1>3. PICK i \in T : \A j \in T : i <= j
    BY <1>2, LeastNat
  <1>4. i \in Nat /\ Rank(kept, i) >= m /\ i # 0
    BY <1>1
  <1>5. PICK h \in Nat : i = h + 1
    <2>1. i - 1 \in Nat /\ i = (i - 1) + 1
      BY <1>4
    <2> QED
      BY <2>1
  <1>6. Rank(kept, h) < m /\ Rank(kept, h) \in Nat
    <2>1. h \notin T
      BY <1>3, <1>5
    <2> QED
      BY <2>1, <1>1
  <1>7. i \in kept /\ Rank(kept, i) = m
    BY <1>1, <1>4, <1>5, <1>6
  <1> QED
    BY <1>7

LEMMA RankIsOwn ==
    ASSUME NEW n \in Nat, NEW kept \in SUBSET (1..n), NEW i \in kept, NEW j \in kept,
           i < j
    PROVE  Rank(kept, i) < Rank(kept, j)
  <1>n. \A x \in kept : x \in 1..n /\ x \in Nat
    OBVIOUS
  <1> USE <1>n
  <1>1. j - 1 \in Nat /\ j = (j - 1) + 1 /\ i <= j - 1 /\ i \in Nat
    OBVIOUS
  <1>2. /\ Rank(kept, j) = Rank(kept, j - 1) + 1
        /\ Rank(kept, i) <= Rank(kept, j - 1)
        /\ Rank(kept, i) \in Nat /\ Rank(kept, j - 1) \in Nat
    <2>1. /\ \A x \in Nat : Rank(kept, x) \in 0..Cardinality(kept)
          /\ \A x \in Nat : Rank(kept, x + 1) =
                 IF x + 1 \in kept THEN Rank(kept, x) + 1 ELSE Rank(kept, x)
          /\ \A x, y \in Nat : x <= y => Rank(kept, x) <= Rank(kept, y)
          /\ Cardinality(kept) \in 0..n
      BY RankIs
    <2>2. Rank(kept, j) = Rank(kept, j - 1) + 1
      BY <1>1, <2>1
    <2> QED
      BY <1>1, <2>1, <2>2
  <1> QED
    BY <1>2

LEMMA RankBefore ==
    ASSUME NEW n \in Nat, NEW kept \in SUBSET (1..n), NEW k \in kept
    PROVE  Rank(kept, k) = Rank(kept, k - 1) + 1
  <1>1. k - 1 \in Nat /\ k = (k - 1) + 1
    <2>1. k \in 1..n
      OBVIOUS
    <2> QED
      BY <2>1
  <1>2. Rank(kept, (k - 1) + 1) =
           IF (k - 1) + 1 \in kept THEN Rank(kept, k - 1) + 1 ELSE Rank(kept, k - 1)
    BY <1>1, RankIs
  <1> QED
    BY <1>1, <1>2

(* f tells which place of d each place of Pick(d, kept) comes from.        *)
Selects(f, d, kept) ==
    /\ f \in [1..Cardinality(kept) -> kept]
    /\ \A i, j \in 1..Cardinality(kept) : i < j => f[i] < f[j]
    /\ \A k \in kept : \E i \in 1..Cardinality(kept) : f[i] = k
    /\ Pick(d, kept) = [i \in 1..Cardinality(kept) |-> d[f[i]]]

(* Pick keeps what is in kept, in its order, and nothing else.             *)
LEMMA PickIs ==
    ASSUME NEW n \in Nat, NEW kept \in SUBSET (1..n), NEW d
    PROVE  /\ Cardinality(kept) \in 0..n
           /\ \E f : Selects(f, d, kept)
  <1>0. /\ Cardinality(kept) \in 0..n
        /\ \A x \in Nat : Rank(kept, x) \in 0..Cardinality(kept)
        /\ Rank(kept, 0) = 0
        /\ \A x, y \in Nat : x <= y => Rank(kept, x) <= Rank(kept, y)
    BY RankIs
  <1>n. \A x \in kept : x \in 1..n /\ x \in Nat
    OBVIOUS
  <1> USE <1>n
  <1> DEFINE f == [m \in 1..Cardinality(kept) |-> CHOOSE i \in kept : Rank(kept, i) = m]
  <1>1. ASSUME NEW m \in 1..Cardinality(kept)
        PROVE  f[m] \in kept /\ Rank(kept, f[m]) = m
    <2>1. \E i \in kept : Rank(kept, i) = m
      BY RankIsTaken
    <2>2. f[m] = CHOOSE i \in kept : Rank(kept, i) = m
      OBVIOUS
    <2> HIDE DEF f
    <2> QED
      BY <2>1, <2>2
  <1>2. f \in [1..Cardinality(kept) -> kept]
    BY <1>1
  <1>4. Pick(d, kept) = [i \in 1..Cardinality(kept) |-> d[f[i]]]
    BY DEF Pick, Rank
  <1> HIDE DEF f
  <1>3. ASSUME NEW i \in 1..Cardinality(kept), NEW j \in 1..Cardinality(kept), i < j
        PROVE  f[i] < f[j]
    <2>1. f[i] \in Nat /\ f[j] \in Nat
      BY <1>1
    <2>2. f[j] <= f[i] => j <= i
      BY <2>1, <1>0, <1>1
    <2> QED
      BY <2>1, <2>2, <1>3
  <1>5. ASSUME NEW k \in kept PROVE \E i \in 1..Cardinality(kept) : f[i] = k
    <2> DEFINE m == Rank(kept, k)
    <2>1. m \in 1..Cardinality(kept)
      <3>2. k - 1 \in Nat /\ k = (k - 1) + 1
        OBVIOUS
      <3>3. m = Rank(kept, k - 1) + 1
        BY <3>2, RankBefore
      <3>4. Rank(kept, k - 1) \in 0..Cardinality(kept) /\ m \in 0..Cardinality(kept)
        BY <1>0, <3>2
      <3> HIDE DEF m
      <3> QED
        BY <3>3, <3>4, <1>0
    <2>2. f[m] \in kept /\ Rank(kept, f[m]) = m
      BY <1>1, <2>1
    <2>3. f[m] = k
      <3>1. f[m] < k => Rank(kept, f[m]) < Rank(kept, k)
        BY <2>2, RankIsOwn
      <3>2. k < f[m] => Rank(kept, k) < Rank(kept, f[m])
        BY <2>2, RankIsOwn
      <3>3. f[m] \in Nat /\ k \in Nat
        BY <2>2
      <3>4. Rank(kept, f[m]) = Rank(kept, k) /\ Rank(kept, k) \in Nat
        BY <2>2, <2>1
      <3> QED
        BY <3>1, <3>2, <3>3, <3>4
    <2> QED
      BY <2>1, <2>3
  <1>6. Selects(f, d, kept)
    BY <1>2, <1>3, <1>4, <1>5 DEF Selects
  <1> QED
    BY <1>0, <1>6

(* The same, by elements.                                                  *)
LEMMA PickKeeps ==
    ASSUME NEW V, NEW s \in Seq(V), NEW kept \in SUBSET (DOMAIN s)
    PROVE  /\ Pick(s, kept) \in Seq(V) /\ Len(Pick(s, kept)) = Cardinality(kept)
           /\ DOMAIN Pick(s, kept) = 1..Cardinality(kept)
           /\ Cardinality(kept) \in 0..Len(s)
           /\ \A m \in 1..Cardinality(kept) : \E i \in kept : Pick(s, kept)[m] = s[i]
           /\ \A i \in kept : \E m \in 1..Cardinality(kept) : Pick(s, kept)[m] = s[i]
  <1>1. /\ Len(s) \in Nat /\ DOMAIN s = 1..Len(s)
        /\ \A i \in 1..Len(s) : s[i] \in V
    BY LenProperties, ElementOfSeq
  <1>2. Cardinality(kept) \in 0..Len(s)
    BY <1>1, PickIs
  <1>3. PICK f : Selects(f, s, kept)
    BY <1>1, PickIs
  <1>4. /\ f \in [1..Cardinality(kept) -> kept]
        /\ \A k \in kept : \E i \in 1..Cardinality(kept) : f[i] = k
        /\ Pick(s, kept) = [i \in 1..Cardinality(kept) |-> s[f[i]]]
    BY <1>3 DEF Selects
  <1>5. Pick(s, kept) \in [1..Cardinality(kept) -> V]
    BY <1>1, <1>4
  <1>6. Pick(s, kept) \in Seq(V) /\ Len(Pick(s, kept)) = Cardinality(kept)
    BY <1>2, <1>5, SeqDef
  <1>7. DOMAIN Pick(s, kept) = 1..Cardinality(kept)
    BY <1>5
  <1>8. \A m \in 1..Cardinality(kept) : \E i \in kept : Pick(s, kept)[m] = s[i]
    BY <1>4
  <1>9. \A i \in kept : \E m \in 1..Cardinality(kept) : Pick(s, kept)[m] = s[i]
    <2>1. ASSUME NEW i \in kept
          PROVE  \E m \in 1..Cardinality(kept) : Pick(s, kept)[m] = s[i]
      <3>1. PICK m \in 1..Cardinality(kept) : f[m] = i
        BY <1>4
      <3> QED
        BY <1>4, <3>1
    <2> QED
      BY <2>1
  <1> QED
    BY <1>2, <1>6, <1>7, <1>8, <1>9

=============================================================================
