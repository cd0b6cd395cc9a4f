--------------------------- MODULE JwksCache_proofs ---------------------------
(***************************************************************************)
(* Proofs about JwksCache, for any zones, tasks, keys, signatures, windows *)
(* and table bounds.                                                       *)
(*                                                                         *)
(* In order: the dictionaries (what Pick, Without, Store, Stamped and      *)
(* Evicted keep of a table); what the verdict on a document owes to that   *)
(* document (Follows), and what a verdict must have been served to be      *)
(* right (Just); what each action does to a task and to the tables; the    *)
(* inductive invariant Base, from which the state invariants follow; and   *)
(* FlightInv on top of it, which says that fetches are few while each      *)
(* table has room for every zone. That every task is answered rests on     *)
(* fairness and is checked by TLC alone.                                   *)
(***************************************************************************)
EXTENDS JwksCache, Selection_proofs

-----------------------------------------------------------------------------
(* The dictionaries. Values are drawn from V, an entry is found by its zone.*)

Dict(d, V) == d \in Seq(Zones \X V) /\ Keyed(d)
Entry(d, z, v) == \E i \in DOMAIN d : d[i] = <<z, v>>

(* Entries are in the order of their values.                               *)
Sorted(d) == \A i, j \in DOMAIN d : i < j => d[i][2] <= d[j][2]

LEMMA DictAt ==
    ASSUME NEW V, NEW d, Dict(d, V)
    PROVE  /\ Len(d) \in Nat /\ DOMAIN d = 1..Len(d)
           /\ \A i \in 1..Len(d) : /\ d[i] = <<d[i][1], d[i][2]>>
                                   /\ d[i][1] \in Zones /\ d[i][2] \in V
           /\ \A i, j \in 1..Len(d) : d[i][1] = d[j][1] => i = j
  <1>1. /\ Len(d) \in Nat /\ DOMAIN d = 1..Len(d)
        /\ \A i \in 1..Len(d) : d[i] \in Zones \X V
    BY LenProperties, ElementOfSeq DEF Dict
  <1>2. \A e \in Zones \X V : e = <<e[1], e[2]>> /\ e[1] \in Zones /\ e[2] \in V
    OBVIOUS
  <1>3. \A i, j \in 1..Len(d) : d[i][1] = d[j][1] => i = j
    BY <1>1 DEF Dict, Keyed
  <1> QED
    BY <1>1, <1>2, <1>3

LEMMA DictOf ==
    ASSUME NEW V, NEW n \in Nat, NEW d, d = [i \in 1..n |-> d[i]],
           \A i \in 1..n : d[i] \in Zones \X V,
           \A i, j \in 1..n : d[i][1] = d[j][1] => i = j
    PROVE  Dict(d, V) /\ Len(d) = n /\ DOMAIN d = 1..n
  <1>1. DOMAIN d = 1..n
    OBVIOUS
  <1>2. d \in [1..n -> Zones \X V]
    OBVIOUS
  <1>3. d \in Seq(Zones \X V) /\ Len(d) = n
    BY <1>2, SeqDef
  <1>4. \A e \in Zones \X V : e[1] \in Zones
    OBVIOUS
  <1>5. Keyed(d)
    BY <1>1, <1>4 DEF Keyed
  <1> QED
    BY <1>1, <1>3, <1>5 DEF Dict

LEMMA HasIs ==
    ASSUME NEW V, NEW d, Dict(d, V), NEW z
    PROVE  /\ Has(d, z) <=> \E i \in 1..Len(d) : d[i][1] = z
           /\ \A i \in 1..Len(d) : d[i][1] = z => Get(d, z) = d[i][2]
  <1>1. /\ DOMAIN d = 1..Len(d)
        /\ \A i, j \in 1..Len(d) : d[i][1] = d[j][1] => i = j
    BY DictAt
  <1>2. Has(d, z) <=> \E i \in 1..Len(d) : d[i][1] = z
    BY <1>1 DEF Has, ToSet
  <1>3. ASSUME NEW i \in 1..Len(d), d[i][1] = z PROVE Get(d, z) = d[i][2]
    <2> DEFINE e == CHOOSE x \in ToSet(d) : x[1] = z
    <2>1. d[i] \in ToSet(d)
      BY <1>1 DEF ToSet
    <2>2. e \in ToSet(d) /\ e[1] = z
      BY <2>1, <1>3
    <2>3. PICK j \in 1..Len(d) : e = d[j]
      BY <2>2, <1>1 DEF ToSet
    <2>4. i = j
      BY <2>2, <2>3, <1>3, <1>1
    <2> QED
      BY <2>3, <2>4 DEF Get
  <1> QED
    BY <1>2, <1>3

LEMMA EntryIs ==
    ASSUME NEW V, NEW d, Dict(d, V), NEW z
    PROVE  /\ Has(d, z) => Entry(d, z, Get(d, z)) /\ Get(d, z) \in V
           /\ \A v : Entry(d, z, v) => Has(d, z) /\ Get(d, z) = v /\ v \in V
  <1>1. /\ DOMAIN d = 1..Len(d)
        /\ \A i \in 1..Len(d) : /\ d[i] = <<d[i][1], d[i][2]>>
                                /\ d[i][1] \in Zones /\ d[i][2] \in V
    BY DictAt
  <1>2. /\ Has(d, z) <=> \E i \in 1..Len(d) : d[i][1] = z
        /\ \A i \in 1..Len(d) : d[i][1] = z => Get(d, z) = d[i][2]
    BY HasIs
  <1>3. ASSUME Has(d, z) PROVE Entry(d, z, Get(d, z)) /\ Get(d, z) \in V
    <2>1. PICK i \in 1..Len(d) : d[i][1] = z
      BY <1>2, <1>3
    <2>2. Get(d, z) = d[i][2]
      BY <1>2, <2>1
    <2> QED
      BY <1>1, <2>1, <2>2 DEF Entry
  <1>4. ASSUME NEW v, Entry(d, z, v) PROVE Has(d, z) /\ Get(d, z) = v /\ v \in V
    <2>1. PICK i \in 1..Len(d) : d[i] = <<z, v>>
      BY <1>1, <1>4 DEF Entry
    <2>2. d[i][1] = z /\ d[i][2] = v
      BY <2>1
    <2> QED
      BY <1>1, <1>2, <2>2
  <1> QED
    BY <1>3, <1>4

LEMMA Picked ==
    ASSUME NEW V, NEW d, Dict(d, V), NEW kept \in SUBSET (DOMAIN d)
    PROVE  /\ Dict(Pick(d, kept), V) /\ Len(Pick(d, kept)) <= Len(d)
           /\ \A y, v : Entry(Pick(d, kept), y, v) <=> \E i \in kept : d[i] = <<y, v>>
           /\ (V \subseteq Nat /\ Sorted(d)) => Sorted(Pick(d, kept))
  <1> DEFINE p == Pick(d, kept)
             n == Cardinality(kept)
  <1>1. /\ Len(d) \in Nat /\ DOMAIN d = 1..Len(d)
        /\ \A i \in 1..Len(d) : /\ d[i] = <<d[i][1], d[i][2]>>
                                /\ d[i][1] \in Zones /\ d[i][2] \in V
        /\ \A i, j \in 1..Len(d) : d[i][1] = d[j][1] => i = j
    BY DictAt
  <1>2. kept \in SUBSET (1..Len(d))
    BY <1>1
  <1>3. n \in 0..Len(d)
    BY <1>1, <1>2, PickIs
  <1>4. PICK f \in [1..n -> kept] :
           /\ \A i, j \in 1..n : i < j => f[i] < f[j]
           /\ \A k \in kept : \E i \in 1..n : f[i] = k
           /\ p = [i \in 1..n |-> d[f[i]]]
    <2>1. PICK f : Selects(f, d, kept)
      BY <1>1, <1>2, PickIs
    <2> QED
      BY <2>1 DEF Selects
  <1> HIDE DEF p, n
  <1>5. \A i \in 1..n : p[i] = d[f[i]] /\ f[i] \in kept /\ f[i] \in 1..Len(d)
    BY <1>4, <1>2
  <1>6. p = [i \in 1..n |-> p[i]] /\ DOMAIN p = 1..n
    BY <1>4
  <1>7. \A i, j \in 1..n : f[i] = f[j] => i = j
    <2>1. \A i \in 1..n : f[i] \in Nat /\ i \in Nat
      BY <1>5, <1>3
    <2>2. \A i, j \in 1..n : i < j => f[i] # f[j]
      BY <1>4, <2>1
    <2> QED
      BY <2>1, <2>2
  <1>8. \A i, j \in 1..n : p[i][1] = p[j][1] => i = j
    BY <1>1, <1>5, <1>7
  <1>9. \A i \in 1..n : p[i] \in Zones \X V
    <2>1. \A i \in 1..Len(d) : d[i] \in Zones \X V
      BY <1>1, ElementOfSeq DEF Dict
    <2> QED
      BY <2>1, <1>5
  <1>10. Dict(p, V) /\ Len(p) = n
    BY <1>3, <1>6, <1>8, <1>9, DictOf
  <1>11. ASSUME NEW y, NEW v
         PROVE  Entry(p, y, v) <=> \E i \in kept : d[i] = <<y, v>>
    <2>1. Entry(p, y, v) <=> \E i \in 1..n : p[i] = <<y, v>>
      BY <1>6 DEF Entry
    <2>2. ASSUME NEW i \in kept, d[i] = <<y, v>> PROVE \E j \in 1..n : p[j] = <<y, v>>
      <3>1. PICK j \in 1..n : f[j] = i
        BY <1>4
      <3> QED
        BY <3>1, <1>5, <2>2
    <2> QED
      BY <2>1, <2>2, <1>5
  <1>12. ASSUME V \subseteq Nat, Sorted(d) PROVE Sorted(p)
    <2>1. \A i, j \in 1..Len(d) : i < j => d[i][2] <= d[j][2]
      BY <1>1, <1>12 DEF Sorted
    <2>2. ASSUME NEW i \in 1..n, NEW j \in 1..n, i < j PROVE p[i][2] <= p[j][2]
      BY <2>1, <2>2, <1>4, <1>5
    <2> QED
      BY <2>2, <1>6 DEF Sorted
  <1>13. Len(p) <= Len(d)
    BY <1>3, <1>10, <1>1
  <1> QED
    BY <1>10, <1>11, <1>12, <1>13 DEF p

LEMMA WithoutIs ==
    ASSUME NEW V, NEW d, Dict(d, V), NEW z
    PROVE  /\ Dict(Without(d, z), V) /\ Len(Without(d, z)) <= Len(d)
           /\ \A y, v : Entry(Without(d, z), y, v) <=> Entry(d, y, v) /\ y # z
           /\ ~Has(Without(d, z), z)
           /\ (V \subseteq Nat /\ Sorted(d)) => Sorted(Without(d, z))
  <1> DEFINE kept == {i \in DOMAIN d : d[i][1] # z}
  <1>1. kept \in SUBSET (DOMAIN d)
    OBVIOUS
  <1>2. Without(d, z) = Pick(d, kept)
    BY DEF Without
  <1>3. ASSUME NEW y, NEW v
        PROVE  (\E i \in kept : d[i] = <<y, v>>) <=> Entry(d, y, v) /\ y # z
    BY DEF Entry
  <1> HIDE DEF kept
  <1>4. /\ Dict(Without(d, z), V) /\ Len(Without(d, z)) <= Len(d)
        /\ \A y, v : Entry(Without(d, z), y, v) <=> \E i \in kept : d[i] = <<y, v>>
        /\ (V \subseteq Nat /\ Sorted(d)) => Sorted(Without(d, z))
    <2>1. /\ Dict(Pick(d, kept), V) /\ Len(Pick(d, kept)) <= Len(d)
          /\ \A y, v : Entry(Pick(d, kept), y, v) <=> \E i \in kept : d[i] = <<y, v>>
          /\ (V \subseteq Nat /\ Sorted(d)) => Sorted(Pick(d, kept))
      BY <1>1, Picked
    <2> QED
      BY <1>2, <2>1
  <1>5. \A y, v : Entry(Without(d, z), y, v) <=> Entry(d, y, v) /\ y # z
    BY <1>3, <1>4
  <1>6. ~Has(Without(d, z), z)
    BY <1>4, <1>5, EntryIs
  <1> QED
    BY <1>4, <1>5, <1>6

LEMMA TailIs ==
    ASSUME NEW V, NEW d, Dict(d, V), Len(d) >= 1
    PROVE  /\ Dict(Tail(d), V) /\ Len(Tail(d)) = Len(d) - 1
           /\ \A y, v : Entry(Tail(d), y, v) => Entry(d, y, v)
           /\ \A y, v : Entry(d, y, v) => Entry(Tail(d), y, v) \/ d[1] = <<y, v>>
           /\ (V \subseteq Nat /\ Sorted(d)) => Sorted(Tail(d))
  <1> DEFINE p == Tail(d)
             n == Len(d) - 1
  <1>1. /\ Len(d) \in Nat /\ DOMAIN d = 1..Len(d)
        /\ \A i, j \in 1..Len(d) : d[i][1] = d[j][1] => i = j
    BY DictAt
  <1>2. \A i \in 1..Len(d) : d[i] \in Zones \X V
    BY <1>1, ElementOfSeq DEF Dict
  <1>3. d # <<>> /\ d \in Seq(Zones \X V)
    <2>1. Len(<<>>) = 0
      BY EmptySeq
    <2> QED
      BY <2>1, <1>1 DEF Dict
  <1>4. p \in Seq(Zones \X V) /\ Len(p) = n
    BY <1>3, HeadTailProperties
  <1>5. \A i \in 1..n : p[i] = d[i + 1]
    BY <1>3, HeadTailProperties, <1>4
  <1>6. n \in Nat /\ p = [i \in 1..n |-> p[i]] /\ DOMAIN p = 1..n
    <2>1. n \in Nat
      BY <1>1
    <2>2. p \in [1..n -> Zones \X V]
      BY <1>4, LenProperties
    <2> QED
      BY <2>1, <2>2
  <1> HIDE DEF p
  <1>7. \A i \in 1..n : i + 1 \in 1..Len(d)
    BY <1>1
  <1>8. Dict(p, V)
    <2>1. \A i \in 1..n : p[i] \in Zones \X V
      BY <1>2, <1>5, <1>7
    <2>2. \A i, j \in 1..n : p[i][1] = p[j][1] => i + 1 = j + 1
      BY <1>1, <1>5, <1>7
    <2>3. \A i, j \in 1..n : p[i][1] = p[j][1] => i = j
      BY <2>2
    <2> HIDE DEF n
    <2> QED
      BY <1>6, <2>1, <2>3, DictOf
  <1>9. ASSUME NEW y, NEW v, Entry(p, y, v) PROVE Entry(d, y, v)
    <2>1. PICK i \in 1..n : p[i] = <<y, v>>
      BY <1>9, <1>6 DEF Entry
    <2> QED
      BY <2>1, <1>1, <1>5, <1>7 DEF Entry
  <1>10. ASSUME NEW y, NEW v, Entry(d, y, v) PROVE Entry(p, y, v) \/ d[1] = <<y, v>>
    <2>1. PICK i \in 1..Len(d) : d[i] = <<y, v>>
      BY <1>10, <1>1 DEF Entry
    <2>2. i = 1 \/ (i - 1 \in 1..n /\ (i - 1) + 1 = i)
      BY <1>1
    <2>3. i - 1 \in 1..n => p[i - 1] = <<y, v>>
      BY <2>1, <1>5, <2>2
    <2> QED
      BY <2>1, <2>2, <2>3, <1>6 DEF Entry
  <1>11. ASSUME V \subseteq Nat, Sorted(d) PROVE Sorted(p)
    <2>1. ASSUME NEW i \in 1..n, NEW j \in 1..n, i < j PROVE p[i][2] <= p[j][2]
      <3>1. i + 1 < j + 1
        BY <2>1
      <3> QED
        BY <3>1, <1>1, <1>5, <1>7, <1>11 DEF Sorted
    <2> QED
      BY <2>1, <1>6 DEF Sorted
  <1> QED
    BY <1>4, <1>8, <1>9, <1>10, <1>11 DEF p

LEMMA AppendIs ==
    ASSUME NEW V, NEW d, Dict(d, V), NEW z \in Zones, NEW v \in V, ~Has(d, z)
    PROVE  /\ Dict(Append(d, <<z, v>>), V) /\ Len(Append(d, <<z, v>>)) = Len(d) + 1
           /\ \A y, w : Entry(Append(d, <<z, v>>), y, w)
                          <=> Entry(d, y, w) \/ (y = z /\ w = v)
           /\ (/\ V \subseteq Nat /\ Sorted(d)
               /\ \A i \in DOMAIN d : d[i][2] <= v) => Sorted(Append(d, <<z, v>>))
  <1> DEFINE e == <<z, v>>
             p == Append(d, e)
             n == Len(d) + 1
  <1>1. /\ Len(d) \in Nat /\ DOMAIN d = 1..Len(d)
        /\ \A i, j \in 1..Len(d) : d[i][1] = d[j][1] => i = j
    BY DictAt
  <1>2. \A i \in 1..Len(d) : d[i] \in Zones \X V
    BY <1>1, ElementOfSeq DEF Dict
  <1>3. \A i \in 1..Len(d) : d[i][1] # z
    BY HasIs
  <1>4. e \in Zones \X V /\ e[1] = z /\ e[2] = v /\ \A y, w : e = <<y, w>> <=> y = z /\ w = v
    OBVIOUS
  <1>5. d \in Seq(Zones \X V)
    BY DEF Dict
  <1> HIDE DEF e
  <1>6. /\ p \in Seq(Zones \X V) /\ Len(p) = n
        /\ \A i \in 1..Len(d) : p[i] = d[i]
        /\ p[Len(d) + 1] = e
    BY <1>4, <1>5, AppendProperties
  <1>7. n \in Nat /\ p = [i \in 1..n |-> p[i]] /\ DOMAIN p = 1..n
    <2>1. n \in Nat
      BY <1>1
    <2>2. p \in [1..n -> Zones \X V]
      BY <1>6, LenProperties
    <2> QED
      BY <2>1, <2>2
  <1> HIDE DEF p
  <1>8. \A i \in 1..n : i \in 1..Len(d) \/ i = Len(d) + 1
    BY <1>1
  <1>9. \A i \in 1..Len(d) : i \in 1..n
    BY <1>1
  <1>10. Len(d) + 1 \in 1..n
    BY <1>1
  <1>11. Dict(p, V)
    <2>1. \A i \in 1..n : p[i] \in Zones \X V
      BY <1>2, <1>4, <1>6, <1>8
    <2>2. \A i, j \in 1..n : p[i][1] = p[j][1] => i = j
      BY <1>1, <1>3, <1>4, <1>6, <1>8
    <2> HIDE DEF n
    <2> QED
      BY <1>7, <2>1, <2>2, DictOf
  <1>12. ASSUME NEW y, NEW w
         PROVE  Entry(p, y, w) <=> Entry(d, y, w) \/ (y = z /\ w = v)
    <2>1. Entry(p, y, w) <=> \E i \in 1..n : p[i] = <<y, w>>
      BY <1>7 DEF Entry
    <2>2. Entry(d, y, w) <=> \E i \in 1..Len(d) : d[i] = <<y, w>>
      BY <1>1 DEF Entry
    <2> HIDE DEF n
    <2>3. Entry(p, y, w) => Entry(d, y, w) \/ (y = z /\ w = v)
      BY <2>1, <2>2, <1>4, <1>6, <1>8
    <2>4. Entry(d, y, w) => Entry(p, y, w)
      BY <2>1, <2>2, <1>6, <1>9
    <2>5. y = z /\ w = v => Entry(p, y, w)
      BY <2>1, <1>4, <1>6, <1>10
    <2> QED
      BY <2>3, <2>4, <2>5
  <1>13. ASSUME V \subseteq Nat, Sorted(d), \A i \in DOMAIN d : d[i][2] <= v
         PROVE  Sorted(p)
    <2>1. ASSUME NEW i \in 1..n, NEW j \in 1..n, i < j PROVE p[i][2] <= p[j][2]
      <3>1. i \in 1..Len(d)
        BY <1>1, <2>1
      <3>2. CASE j \in 1..Len(d)
        BY <3>1, <3>2, <2>1, <1>1, <1>6, <1>13 DEF Sorted
      <3>3. CASE j = Len(d) + 1
        BY <3>1, <3>3, <1>1, <1>4, <1>6, <1>13
      <3> QED
        BY <3>2, <3>3, <1>8
    <2> QED
      BY <2>1, <1>7 DEF Sorted
  <1> QED
    BY <1>6, <1>11, <1>12, <1>13 DEF p, e

LEMMA ReplacedIs ==
    ASSUME NEW V, NEW d, Dict(d, V), NEW z \in Zones, NEW v \in V, Has(d, z),
           NEW p, p = [i \in DOMAIN d |-> IF d[i][1] = z THEN <<z, v>> ELSE d[i]]
    PROVE  /\ Dict(p, V) /\ Len(p) = Len(d)
           /\ \A y, w : Entry(p, y, w)
                          <=> (Entry(d, y, w) /\ y # z) \/ (y = z /\ w = v)
  <1> DEFINE e == <<z, v>>
             n == Len(d)
  <1>1. /\ n \in Nat /\ DOMAIN d = 1..n
        /\ \A i, j \in 1..n : d[i][1] = d[j][1] => i = j
        /\ \A i \in 1..n : d[i] = <<d[i][1], d[i][2]>>
    BY DictAt
  <1>2. \A i \in 1..n : d[i] \in Zones \X V
    BY <1>1, ElementOfSeq DEF Dict
  <1>4. e \in Zones \X V /\ e[1] = z /\ e[2] = v /\ \A y, w : e = <<y, w>> <=> y = z /\ w = v
    OBVIOUS
  <1>5. \A i \in 1..n : p[i] = IF d[i][1] = z THEN e ELSE d[i]
    BY <1>1
  <1>6. p = [i \in 1..n |-> p[i]] /\ DOMAIN p = 1..n
    BY <1>1
  <1>7. PICK h \in 1..n : d[h][1] = z
    BY HasIs
  <1> HIDE DEF e, n
  <1>8. Dict(p, V) /\ Len(p) = n
    <2>1. \A i \in 1..n : p[i] \in Zones \X V
      BY <1>2, <1>4, <1>5
    <2>2. \A i \in 1..n : p[i][1] = d[i][1]
      BY <1>4, <1>5
    <2>3. \A i, j \in 1..n : p[i][1] = p[j][1] => i = j
      BY <1>1, <2>2
    <2> QED
      BY <1>1, <1>6, <2>1, <2>3, DictOf
  <1>9. ASSUME NEW y, NEW w
        PROVE  Entry(p, y, w) <=> (Entry(d, y, w) /\ y # z) \/ (y = z /\ w = v)
    <2>1. Entry(p, y, w) <=> \E i \in 1..n : p[i] = <<y, w>>
      BY <1>6 DEF Entry
    <2>2. Entry(d, y, w) <=> \E i \in 1..n : d[i] = <<y, w>>
      BY <1>1 DEF Entry
    <2>3. \A i \in 1..n : d[i] = <<y, w>> => d[i][1] = y
      OBVIOUS
    <2>4. p[h] = e
      BY <1>5, <1>7
    <2> QED
      <3>1. ASSUME NEW i \in 1..n, p[i] = <<y, w>>
            PROVE  (Entry(d, y, w) /\ y # z) \/ (y = z /\ w = v)
        <4>1. CASE d[i][1] = z
          BY <4>1, <3>1, <1>4, <1>5
        <4>2. CASE d[i][1] # z
          <5>1. d[i] = <<y, w>>
            BY <4>2, <3>1, <1>5
          <5>2. y # z
            BY <5>1, <4>2, <2>3
          <5> QED
            BY <5>1, <5>2, <2>2
        <4> QED
          BY <4>1, <4>2
      <3>2. ASSUME Entry(d, y, w), y # z PROVE Entry(p, y, w)
        BY <3>2, <2>1, <2>2, <2>3, <1>5
      <3>3. y = z /\ w = v => Entry(p, y, w)
        BY <2>1, <2>4, <1>4
      <3> QED
        BY <3>1, <3>2, <3>3, <2>1
  <1> QED
    BY <1>8, <1>9 DEF n

(* A table with the oldest entry dropped if it is full.                    *)
Roomy(d) == IF Len(d) >= TableMax THEN Tail(d) ELSE d

LEMMA RoomyIs ==
    ASSUME JwksAssumption, NEW V, NEW d, Dict(d, V), Len(d) <= TableMax
    PROVE  /\ Dict(Roomy(d), V) /\ Len(Roomy(d)) < TableMax
           /\ \A y, w : Entry(Roomy(d), y, w) => Entry(d, y, w)
           /\ \A y, w : Entry(d, y, w) =>
                 \/ Entry(Roomy(d), y, w)
                 \/ Len(d) >= TableMax /\ d[1] = <<y, w>>
           /\ (V \subseteq Nat /\ Sorted(d)) => Sorted(Roomy(d))
  <1>0. Len(d) \in Nat /\ TableMax \in Nat \ {0}
    BY DictAt DEF JwksAssumption
  <1>1. CASE Len(d) >= TableMax
    <2>1. Len(d) >= 1 /\ Len(d) - 1 < TableMax /\ Roomy(d) = Tail(d)
      BY <1>0, <1>1 DEF Roomy
    <2>2. /\ Dict(Tail(d), V) /\ Len(Tail(d)) = Len(d) - 1
          /\ \A y, v : Entry(Tail(d), y, v) => Entry(d, y, v)
          /\ \A y, v : Entry(d, y, v) => Entry(Tail(d), y, v) \/ d[1] = <<y, v>>
          /\ (V \subseteq Nat /\ Sorted(d)) => Sorted(Tail(d))
      BY <2>1, TailIs
    <2> QED
      BY <2>1, <2>2, <1>1
  <1>2. CASE ~(Len(d) >= TableMax)
    <2>1. Roomy(d) = d /\ Len(d) < TableMax
      BY <1>0, <1>2 DEF Roomy
    <2> QED
      BY <2>1
  <1> QED
    BY <1>1, <1>2

LEMMA StoreIs ==
    ASSUME JwksAssumption, NEW V, NEW d, Dict(d, V), Len(d) <= TableMax,
           NEW z \in Zones, NEW v \in V
    PROVE  /\ Dict(Store(d, z, v), V) /\ Len(Store(d, z, v)) <= TableMax
           /\ Entry(Store(d, z, v), z, v)
           /\ \A y, w : Entry(Store(d, z, v), y, w) =>
                 (Entry(d, y, w) /\ y # z) \/ (y = z /\ w = v)
           /\ Len(d) < TableMax =>
                 \A y, w : Entry(d, y, w) /\ y # z => Entry(Store(d, z, v), y, w)
  <1> DEFINE k == Roomy(d)
  <1>0. TableMax \in Nat \ {0} /\ Len(d) \in Nat
    BY DictAt DEF JwksAssumption
  <1>1. /\ Dict(k, V) /\ Len(k) < TableMax
        /\ \A y, w : Entry(k, y, w) => Entry(d, y, w)
        /\ Len(d) < TableMax => k = d
    BY <1>0, RoomyIs DEF Roomy
  <1>2. Len(k) \in Nat
    BY <1>1, DictAt
  <1>3. Store(d, z, v) = IF Has(k, z)
              THEN [i \in DOMAIN k |-> IF k[i][1] = z THEN <<z, v>> ELSE k[i]]
              ELSE Append(k, <<z, v>>)
    BY DEF Store, Roomy
  <1> HIDE DEF k
  <1>4. CASE Has(k, z)
    <2> DEFINE p == [i \in DOMAIN k |-> IF k[i][1] = z THEN <<z, v>> ELSE k[i]]
    <2>1. p = [i \in DOMAIN k |-> IF k[i][1] = z THEN <<z, v>> ELSE k[i]]
      OBVIOUS
    <2>2. Store(d, z, v) = p
      BY <1>3, <1>4
    <2> HIDE DEF p
    <2>3. /\ Dict(p, V) /\ Len(p) = Len(k)
          /\ \A y, w : Entry(p, y, w)
                          <=> (Entry(k, y, w) /\ y # z) \/ (y = z /\ w = v)
      BY <2>1, <1>1, <1>4, ReplacedIs
    <2>4. Len(p) <= TableMax
      BY <2>3, <1>0, <1>1, <1>2
    <2> QED
      BY <2>2, <2>3, <2>4, <1>1
  <1>5. CASE ~Has(k, z)
    <2> DEFINE p == Append(k, <<z, v>>)
    <2>1. /\ Dict(p, V) /\ Len(p) = Len(k) + 1
          /\ \A y, w : Entry(p, y, w) <=> Entry(k, y, w) \/ (y = z /\ w = v)
      BY <1>1, <1>5, AppendIs
    <2>2. Store(d, z, v) = p
      BY <1>3, <1>5
    <2> HIDE DEF p
    <2>3. Len(p) <= TableMax
      BY <2>1, <1>0, <1>1, <1>2
    <2>4. \A w : ~Entry(k, z, w)
      BY <1>1, <1>5, EntryIs
    <2>5. \A y, w : Entry(p, y, w) => (Entry(d, y, w) /\ y # z) \/ (y = z /\ w = v)
      BY <2>1, <2>4, <1>1
    <2> QED
      BY <2>1, <2>2, <2>3, <2>5, <1>1
  <1> QED
    BY <1>4, <1>5

LEMMA StampedIs ==
    ASSUME JwksAssumption, now \in Nat, Dict(forced, Nat), Len(forced) <= TableMax,
           Sorted(forced), \A y, w : Entry(forced, y, w) => w <= now, NEW z \in Zones
    PROVE  /\ Dict(Stamped(z), Nat) /\ Len(Stamped(z)) <= TableMax
           /\ Sorted(Stamped(z))
           /\ Entry(Stamped(z), z, now)
           /\ \A y, w : Entry(Stamped(z), y, w) =>
                 Entry(forced, y, w) \/ (y = z /\ w = now)
           /\ \A y, w : Entry(forced, y, w) /\ y # z =>
                 \/ Entry(Stamped(z), y, w)
                 \/ Len(forced) >= TableMax /\ forced[1] = <<y, w>>
  <1> DEFINE k == Roomy(forced)
             u == Without(k, z)
  <1>0. TableMax \in Nat \ {0}
    BY DEF JwksAssumption
  <1>1. /\ Dict(k, Nat) /\ Len(k) < TableMax
        /\ \A y, w : Entry(k, y, w) => Entry(forced, y, w)
        /\ \A y, w : Entry(forced, y, w) =>
             Entry(k, y, w) \/ (Len(forced) >= TableMax /\ forced[1] = <<y, w>>)
        /\ Sorted(k)
    BY RoomyIs
  <1>2. Stamped(z) = Append(u, <<z, now>>)
    BY DEF Stamped, Roomy
  <1> HIDE DEF k
  <1>3. /\ Dict(u, Nat) /\ Len(u) <= Len(k)
        /\ \A y, v : Entry(u, y, v) <=> Entry(k, y, v) /\ y # z
        /\ ~Has(u, z)
        /\ Sorted(u)
    BY <1>1, WithoutIs
  <1> HIDE DEF u
  <1>4. /\ Len(u) \in Nat /\ Len(k) \in Nat /\ DOMAIN u = 1..Len(u)
        /\ \A i \in 1..Len(u) : u[i] = <<u[i][1], u[i][2]>>
    BY <1>1, <1>3, DictAt
  <1>5. \A i \in DOMAIN u : u[i][2] <= now
    <2>1. ASSUME NEW i \in DOMAIN u PROVE u[i][2] <= now
      <3>1. Entry(u, u[i][1], u[i][2])
        BY <1>4 DEF Entry
      <3> QED
        BY <3>1, <1>1, <1>3
    <2> QED
      BY <2>1
  <1>6. /\ Dict(Append(u, <<z, now>>), Nat) /\ Len(Append(u, <<z, now>>)) = Len(u) + 1
        /\ \A y, w : Entry(Append(u, <<z, now>>), y, w)
                          <=> Entry(u, y, w) \/ (y = z /\ w = now)
        /\ Sorted(Append(u, <<z, now>>))
    BY <1>3, <1>5, AppendIs
  <1>7. Len(u) + 1 <= TableMax
    BY <1>0, <1>1, <1>3, <1>4
  <1> QED
    BY <1>1, <1>2, <1>3, <1>6, <1>7

LEMMA EvictedIs ==
    ASSUME JwksAssumption, NEW V, NEW d, Dict(d, V)
    PROVE  /\ Dict(Evicted(d), V)
           /\ \A y, v : Entry(Evicted(d), y, v) => Entry(d, y, v)
           /\ Len(d) < TableMax => Evicted(d) = d
  <1>1. CASE Len(d) < TableMax
    BY <1>1 DEF Evicted
  <1>2. CASE ~(Len(d) < TableMax)
    <2>1. PICK kept \in SUBSET (DOMAIN d) : Evicted(d) = Pick(d, kept)
      BY <1>2 DEF Evicted
    <2>2. /\ Dict(Pick(d, kept), V)
          /\ \A y, v : Entry(Pick(d, kept), y, v) <=> \E i \in kept : d[i] = <<y, v>>
      BY Picked
    <2>3. \A y, v : (\E i \in kept : d[i] = <<y, v>>) => Entry(d, y, v)
      BY DEF Entry
    <2> QED
      BY <1>2, <2>1, <2>2, <2>3
  <1> QED
    BY <1>1, <1>2

(* While a zone has no entry, there are fewer entries than zones.          *)
LEMMA MissingIsShort ==
    ASSUME JwksAssumption, NEW V, NEW d, Dict(d, V), NEW z \in Zones, ~Has(d, z)
    PROVE  Len(d) < Cardinality(Zones)
  <1> DEFINE f == [i \in 1..Len(d) |-> d[i][1]]
             T == Zones \ {z}
  <1>1. /\ Len(d) \in Nat /\ DOMAIN d = 1..Len(d)
        /\ \A i \in 1..Len(d) : d[i][1] \in Zones
        /\ \A i, j \in 1..Len(d) : d[i][1] = d[j][1] => i = j
    BY DictAt
  <1>2. \A i \in 1..Len(d) : d[i][1] # z
    BY HasIs
  <1>3. IsFiniteSet(Zones)
    BY DEF JwksAssumption
  <1>4. IsFiniteSet(T) /\ Cardinality(T) = Cardinality(Zones) - 1
    BY <1>3, FS_RemoveElement
  <1>5. f \in Injection(1..Len(d), T)
    BY <1>1, <1>2 DEF Injection, IsInjective
  <1>6. Cardinality(1..Len(d)) <= Cardinality(T)
    BY <1>4, <1>5, FS_Injection
  <1>7. Cardinality(1..Len(d)) = Len(d)
    BY <1>1, FS_Interval
  <1>8. Cardinality(Zones) \in Nat
    BY <1>3, FS_CardinalityType
  <1> QED
    BY <1>1, <1>4, <1>6, <1>7, <1>8

-----------------------------------------------------------------------------
(* What a verdict owes to the documents seen.                              *)

(* v is right for a task that knows doc and no other document.             *)
Follows(jws, doc, v) ==
    /\ v \in {"verified", "expired", "invalid", "no_key"}
    /\ v \in {"verified", "expired"} => IsJwks(doc) /\ jws.signer \in doc
    /\ jws.signer # Forger /\ v \in {"no_key", "invalid"} =>
          ~IsJwks(doc) \/ jws.signer \notin doc
    /\ jws.signer = Forger =>
          v = "invalid" \/ (v = "no_key" /\ (~IsJwks(doc) \/ doc = {}))

LEMMA JwksIsKeys ==
    ASSUME JwksAssumption, NEW doc \in Docs, IsJwks(doc)
    PROVE  doc \subseteq Keys
  BY DEF JwksAssumption, IsJwks

LEMMA AgainstIs ==
    ASSUME NEW doc, NEW jws, NEW kid
    PROVE  /\ Against(doc, jws, kid) \in {"none", "expired", "verified", "invalid"}
           /\ Against(doc, jws, kid) = "none" <=> Candidates(doc, kid) = {}
           /\ Against(doc, jws, kid) \in {"expired", "verified"}
                 <=> jws.signer \in Candidates(doc, kid)
           /\ Candidates(doc, kid) \subseteq doc
           /\ Candidates(doc, NoKid) = doc
  <1> DEFINE c == Candidates(doc, kid)
  <1>1. Candidates(doc, kid) \subseteq doc /\ Candidates(doc, NoKid) = doc
    BY DEF Candidates
  <1>2. Against(doc, jws, kid) =
          CASE c = {} -> "none"
            [] jws.signer \in c -> IF jws.lapsed THEN "expired" ELSE "verified"
            [] OTHER -> "invalid"
    BY DEF Against
  <1> HIDE DEF c
  <1>3. CASE c = {}
    <2>1. Against(doc, jws, kid) = "none"
      BY <1>2, <1>3
    <2> QED
      BY <2>1, <1>1, <1>3 DEF c
  <1>4. CASE jws.signer \in c
    <2>1. Against(doc, jws, kid) \in {"expired", "verified"}
      BY <1>2, <1>4
    <2> QED
      BY <2>1, <1>1, <1>4 DEF c
  <1>5. CASE c # {} /\ jws.signer \notin c
    <2>1. Against(doc, jws, kid) = "invalid"
      BY <1>2, <1>5
    <2> QED
      BY <2>1, <1>1, <1>5 DEF c
  <1> QED
    BY <1>3, <1>4, <1>5

LEMMA ResultFollows ==
    ASSUME JwksAssumption, KidAssumption, NEW doc \in Docs, IsJwks(doc),
           NEW jws \in Signatures
    PROVE  /\ Result(doc, jws) # "none" => Follows(jws, doc, Result(doc, jws))
           /\ Result(doc, jws) = "none" => Candidates(doc, jws.kid) = {}
           /\ Result(doc, jws) = "none" => jws.signer \notin doc
           /\ jws.signer = Forger /\ ~RejectedBy(doc, jws) => doc = {}
  <1> DEFINE named == Against(doc, jws, jws.kid)
             any == Against(doc, jws, NoKid)
  <1>0. doc \subseteq Keys /\ jws.signer \in Keys \cup {Forger} /\ Forger \notin Keys
    BY JwksIsKeys DEF JwksAssumption
  <1>1. /\ named \in {"none", "expired", "verified", "invalid"}
        /\ named = "none" <=> Candidates(doc, jws.kid) = {}
        /\ named \in {"expired", "verified"} <=> jws.signer \in Candidates(doc, jws.kid)
        /\ Candidates(doc, jws.kid) \subseteq doc
    BY AgainstIs
  <1>2. /\ any \in {"none", "expired", "verified", "invalid"}
        /\ any = "none" <=> doc = {}
        /\ any \in {"expired", "verified"} <=> jws.signer \in doc
    BY AgainstIs
  <1>3. Result(doc, jws) = IF named # "none" THEN named
                           ELSE IF any \in {"verified", "expired"} THEN any ELSE "none"
    BY DEF Result
  <1>4. RejectedBy(doc, jws) <=> any = "invalid"
    BY DEF RejectedBy
  <1> HIDE DEF named, any
  <1>5. ASSUME named = "invalid", jws.signer # Forger PROVE jws.signer \notin doc
    <2>1. jws.signer \in Keys
      BY <1>0, <1>5
    <2>2. \/ jws.kid \in {NoKid, Label[jws.signer]}
          \/ \A k \in Keys : jws.kid # Label[k]
      BY <2>1 DEF KidAssumption
    <2>3. Candidates(doc, jws.kid) = {k \in doc : jws.kid = NoKid \/ Label[k] = jws.kid}
      BY DEF Candidates
    <2>4. jws.signer \notin Candidates(doc, jws.kid) /\ Candidates(doc, jws.kid) # {}
      BY <1>1, <1>5
    <2>5. CASE jws.kid = NoKid
      BY <2>3, <2>4, <2>5
    <2>6. CASE jws.kid = Label[jws.signer]
      BY <2>3, <2>4, <2>6
    <2>7. CASE jws.kid # NoKid /\ \A k \in Keys : jws.kid # Label[k]
      BY <2>3, <2>4, <2>7, <1>0
    <2> QED
      BY <2>2, <2>5, <2>6, <2>7
  <1>6. jws.signer = Forger => jws.signer \notin doc
    BY <1>0
  <1>7. ASSUME Result(doc, jws) # "none" PROVE Follows(jws, doc, Result(doc, jws))
    <2>1. CASE named # "none"
      <3>1. Result(doc, jws) = named
        BY <1>3, <2>1
      <3>2. named \in {"expired", "verified"} => jws.signer \in doc
        BY <1>1
      <3>3. named \in {"expired", "verified", "invalid"}
        BY <1>1, <2>1
      <3> QED
        BY <3>1, <3>2, <3>3, <1>5, <1>6 DEF Follows
    <2>2. CASE named = "none"
      <3>1. Result(doc, jws) = any /\ any \in {"verified", "expired"}
        BY <1>3, <1>7, <2>2
      <3>2. jws.signer \in doc
        BY <3>1, <1>2
      <3> QED
        BY <3>1, <3>2, <1>6 DEF Follows
    <2> QED
      BY <2>1, <2>2
  <1>8. ASSUME Result(doc, jws) = "none"
        PROVE  Candidates(doc, jws.kid) = {} /\ jws.signer \notin doc
    <2>1. named = "none" /\ any \notin {"verified", "expired"}
      BY <1>3, <1>8
    <2> QED
      BY <2>1, <1>1, <1>2
  <1>9. jws.signer = Forger /\ ~RejectedBy(doc, jws) => doc = {}
    BY <1>2, <1>4, <1>6
  <1> QED
    BY <1>7, <1>8, <1>9

(* Without a document nothing is known of the key.                         *)
LEMMA NothingFollows ==
    ASSUME NEW jws, NEW doc, ~IsJwks(doc), NEW v \in {"no_key", "invalid"}
    PROVE  Follows(jws, doc, v)
  BY DEF Follows

-----------------------------------------------------------------------------
(* The invariant.                                                          *)

Pcs == {"idle", "wait", "fetch", "refresh", "done"}
Cached == [doc : Docs \ {Down}, until : Nat]

(* z served doc at most ago ticks before s, or later.                      *)
Ev(n, srv, z, s, ago, doc) == \E i \in 0..n : i + ago >= s /\ doc = srv[z][i + 1]

(* The verdict v on signature jws of zone z, asked at s, is right.         *)
KeyWasServed(n, srv, z, s, jws, v) ==
    v \in {"verified", "expired"} =>
        \E doc \in Docs : /\ Ev(n, srv, z, s, TTL + FetchTime, doc)
                          /\ IsJwks(doc) /\ jws.signer \in doc

KeyWasMissing(n, srv, z, s, jws, v) ==
    jws.signer # Forger /\ v \in {"no_key", "invalid"} =>
        \E doc \in Docs : /\ Ev(n, srv, z, s, TTL + FetchTime, doc)
                          /\ ~IsJwks(doc) \/ jws.signer \notin doc

ForgeryIsInvalid(n, srv, z, s, jws, v) ==
    jws.signer = Forger =>
        \/ v \in {"invalid", "not_checked"}
        \/ /\ v = "no_key"
           /\ \E doc \in Docs : /\ Ev(n, srv, z, s, TTL + FetchTime, doc)
                                /\ ~IsJwks(doc) \/ doc = {}

KeyWasMissingLately(n, srv, z, s, jws, v) ==
    jws.signer # Forger /\ v = "no_key" =>
        \/ \E doc \in Docs : /\ Ev(n, srv, z, s, NegativeTTL + FetchTime, doc)
                             /\ ~IsJwks(doc) \/ jws.signer \notin doc
        \/ Ev(n, srv, z, s, TTL + FetchTime, NotAJwks)
        \/ \E doc \in Docs : /\ Ev(n, srv, z, s, MaxNow, doc)
                             /\ IsJwks(doc) /\ jws.signer \notin doc

Just(n, srv, z, s, jws, v) ==
    /\ KeyWasServed(n, srv, z, s, jws, v) /\ KeyWasMissing(n, srv, z, s, jws, v)
    /\ ForgeryIsInvalid(n, srv, z, s, jws, v) /\ KeyWasMissingLately(n, srv, z, s, jws, v)

(* What a task knows of itself.                                            *)
TaskOK(n, srv, p, z, jws, l, s, st, r, v) ==
    /\ p \in Pcs /\ r \in BOOLEAN /\ v \in Verdicts /\ l \in Tasks \cup {None}
    /\ s \in Nat /\ st \in Nat
    /\ p # "idle" => z \in Zones /\ jws \in Signatures /\ s <= n
    /\ p \in {"wait", "fetch"} => l \in Tasks
    /\ p \in {"fetch", "refresh"} => s <= st /\ st <= n /\ n - st <= FetchTime
    /\ p = "done" <=> v # "none"
    /\ p = "done" => Just(n, srv, z, s, jws, v)

Local(t) == TaskOK(now, served, pc[t], zone[t], sig[t], lock[t], since[t], started[t],
                   rejected[t], verdict[t])

Shaped(f) == f = [t \in Tasks |-> f[t]]

TasksInv ==
    /\ Shaped(pc) /\ Shaped(zone) /\ Shaped(sig) /\ Shaped(lock) /\ Shaped(since)
    /\ Shaped(started) /\ Shaped(rejected) /\ Shaped(verdict)
    /\ \A t \in Tasks : Local(t)

ClockInv ==
    /\ now \in Nat /\ now <= MaxNow
    /\ \A z \in Zones : served[z] \in Seq(Docs) /\ Len(served[z]) = now + 1
    /\ changes \in 0..MaxChanges /\ cancels \in 0..MaxCancels

(* What is remembered of a zone was true not long before it lapses.        *)
Backed(n, srv, z, e) ==
    \E i \in 0..n : e.doc = srv[z][i + 1] /\ i + TTL + FetchTime >= e.until
DownBacked(n, srv, z, until) ==
    \E i \in 0..n : Down = srv[z][i + 1] /\ i + NegativeTTL + FetchTime >= until

TablesInv ==
    /\ Dict(cache, Cached) /\ Len(cache) <= TableMax
    /\ Dict(negative, Nat) /\ Len(negative) <= TableMax
    /\ Dict(forced, Nat) /\ Len(forced) <= TableMax
    /\ \A z, e : Entry(cache, z, e) => Backed(now, served, z, e)
    /\ \A z, until : Entry(negative, z, until) => DownBacked(now, served, z, until)
    /\ Sorted(forced) /\ \A z, n : Entry(forced, z, n) => n <= now
    /\ seen \in [Zones -> Docs \cup {None}]

LocksInv ==
    /\ Dict(locks, Tasks)
    /\ holder \in [Tasks -> Tasks \cup {None}]
    /\ Shaped(queue) /\ \A l \in Tasks : queue[l] \in Seq(Tasks)
    /\ \A t \in Tasks : pc[t] = "wait" => \E i \in DOMAIN queue[lock[t]] : queue[lock[t]][i] = t

(* g is f, changed at t alone.                                             *)
Alters(f, g, t) == Shaped(g) /\ \A u \in Tasks \ {t} : g[u] = f[u]

LEMMA ExceptAlters ==
    ASSUME NEW f, Shaped(f), NEW t \in Tasks, NEW x
    PROVE  Alters(f, [f EXCEPT ![t] = x], t) /\ [f EXCEPT ![t] = x][t] = x
  BY DEF Shaped, Alters

LEMMA SameAlters ==
    ASSUME NEW f, Shaped(f), NEW t \in Tasks
    PROVE  Alters(f, f, t)
  BY DEF Alters

LEMMA EvLater ==
    ASSUME JwksAssumption, now \in Nat, NEW z, NEW s \in Nat, NEW a \in Nat, NEW b \in Nat,
           NEW doc, a <= b, Ev(now, served, z, s, a, doc)
    PROVE  Ev(now, served, z, s, b, doc)
  <1>1. PICK i \in 0..now : i + a >= s /\ doc = served[z][i + 1]
    BY DEF Ev
  <1>2. i + b >= s
    BY <1>1
  <1> QED
    BY <1>1, <1>2 DEF Ev

(* A verdict on what the zone served lately, or on what is cached, is right.*)
LEMMA RightVerdict ==
    ASSUME JwksAssumption, now \in Nat, now <= MaxNow, NEW z, NEW s \in Nat, s <= now,
           NEW doc \in Docs, NEW jws, NEW v, Follows(jws, doc, v),
           \/ Ev(now, served, z, s, NegativeTTL + FetchTime, doc)
           \/ doc # Down /\ Ev(now, served, z, s, TTL + FetchTime, doc)
    PROVE  Just(now, served, z, s, jws, v)
  <1>0. /\ TTL \in Nat /\ NegativeTTL \in Nat /\ NegativeTTL <= TTL /\ FetchTime \in Nat
        /\ MaxNow \in Nat /\ None \notin Docs
    BY DEF JwksAssumption
  <1>1. Ev(now, served, z, s, TTL + FetchTime, doc)
    <2>1. NegativeTTL + FetchTime \in Nat /\ TTL + FetchTime \in Nat
          /\ NegativeTTL + FetchTime <= TTL + FetchTime
      BY <1>0
    <2> QED
      BY <2>1, EvLater
  <1>2. Ev(now, served, z, s, MaxNow, doc)
    <2>1. PICK i \in 0..now : doc = served[z][i + 1]
      BY <1>1 DEF Ev
    <2>2. i + MaxNow >= s
      BY <1>0
    <2> QED
      BY <2>1, <2>2 DEF Ev
  <1>3. ASSUME v = "no_key", jws.signer # Forger
        PROVE  \/ \E d \in Docs : /\ Ev(now, served, z, s, NegativeTTL + FetchTime, d)
                                  /\ ~IsJwks(d) \/ jws.signer \notin d
               \/ Ev(now, served, z, s, TTL + FetchTime, NotAJwks)
               \/ \E d \in Docs : /\ Ev(now, served, z, s, MaxNow, d)
                                  /\ IsJwks(d) /\ jws.signer \notin d
    <2>1. ~IsJwks(doc) \/ jws.signer \notin doc
      BY <1>3 DEF Follows
    <2>2. CASE Ev(now, served, z, s, NegativeTTL + FetchTime, doc)
      BY <2>1, <2>2
    <2>3. CASE doc # Down /\ ~IsJwks(doc)
      <3>1. doc = NotAJwks
        BY <1>0, <2>3 DEF IsJwks
      <3> QED
        BY <3>1, <1>1
    <2>4. CASE IsJwks(doc)
      BY <2>1, <2>4, <1>2
    <2> QED
      BY <2>2, <2>3, <2>4
  <1>4. KeyWasMissingLately(now, served, z, s, jws, v)
    BY <1>3 DEF KeyWasMissingLately
  <1>5. KeyWasServed(now, served, z, s, jws, v)
    BY <1>1 DEF Follows, KeyWasServed
  <1>6. KeyWasMissing(now, served, z, s, jws, v)
    BY <1>1 DEF Follows, KeyWasMissing
  <1>7. ForgeryIsInvalid(now, served, z, s, jws, v)
    BY <1>1 DEF Follows, ForgeryIsInvalid
  <1> QED
    BY <1>4, <1>5, <1>6, <1>7 DEF Just

-----------------------------------------------------------------------------
(* What a task may do once it has looked at a document or at the caches.   *)

Base == ClockInv /\ TasksInv /\ TablesInv /\ LocksInv

(* doc is what a task that arrived at s may be given for zone z.           *)
Known(z, s, doc) ==
    \/ doc = None /\ Ev(now, served, z, s, NegativeTTL + FetchTime, Down)
    \/ /\ doc \in Docs
       /\ \/ Ev(now, served, z, s, NegativeTTL + FetchTime, doc)
          \/ doc # Down /\ Ev(now, served, z, s, TTL + FetchTime, doc)

Ends(t, z, s, jws) ==
    /\ \E v \in Verdicts \ {"none"} : Done(t, v) /\ Just(now, served, z, s, jws, v)
    /\ UNCHANGED <<forced, rejected, started, refreshedAt>>

Refreshes(t, z) ==
    /\ BudgetLeft(z)
    /\ forced' = Stamped(z)
    /\ refreshedAt' = [refreshedAt EXCEPT ![z] = now]
    /\ \E b \in BOOLEAN : rejected' = [rejected EXCEPT ![t] = b]
    /\ started' = [started EXCEPT ![t] = now]
    /\ pc' = [pc EXCEPT ![t] = "refresh"]
    /\ UNCHANGED verdict

Fetches(t, z, l) ==
    /\ ~Suppressed(z)
    /\ negative' = Without(negative, z)
    /\ holder' = [holder EXCEPT ![l] = t]
    /\ started' = [started EXCEPT ![t] = now]
    /\ pc' = [pc EXCEPT ![t] = "fetch"]
    /\ UNCHANGED <<forced, rejected, verdict, refreshedAt>>

LEMMA ServedIsDoc ==
    ASSUME ClockInv, NEW z \in Zones, NEW i \in 0..now
    PROVE  served[z][i + 1] \in Docs
  <1>1. served[z] \in Seq(Docs) /\ Len(served[z]) = now + 1 /\ now \in Nat
    BY DEF ClockInv
  <1>2. i + 1 \in 1..Len(served[z])
    BY <1>1
  <1> QED
    BY <1>1, <1>2, ElementOfSeq

LEMMA ConcludeDoes ==
    ASSUME JwksAssumption, KidAssumption, Base, NEW t \in Tasks, NEW z \in Zones,
           NEW jws \in Signatures, NEW s \in Nat, s <= now, NEW doc,
           Conclude(t, z, jws, doc), Known(z, s, doc)
    PROVE  Ends(t, z, s, jws) \/ Refreshes(t, z)
  <1>0. now \in Nat /\ now <= MaxNow /\ ClockInv
    BY DEF Base, ClockInv
  <1>1. ASSUME NEW v, Follows(jws, doc, v) PROVE Just(now, served, z, s, jws, v)
    <2>1. CASE doc \in Docs
      <3>1. None \notin Docs
        BY DEF JwksAssumption
      <3>2. \/ Ev(now, served, z, s, NegativeTTL + FetchTime, doc)
            \/ doc # Down /\ Ev(now, served, z, s, TTL + FetchTime, doc)
        BY <2>1, <3>1 DEF Known
      <3> QED
        BY <1>0, <1>1, <2>1, <3>2, RightVerdict
    <2>2. CASE doc \notin Docs
      <3>1. doc = None /\ Ev(now, served, z, s, NegativeTTL + FetchTime, Down)
        BY <2>2 DEF Known
      <3>2. Down \in Docs
        <4>1. PICK i \in 0..now : Down = served[z][i + 1]
          BY <3>1 DEF Ev
        <4> QED
          BY <4>1, <1>0, ServedIsDoc
      <3>3. Follows(jws, Down, v)
        BY <1>1, <3>1 DEF Follows, IsJwks
      <3> QED
        BY <1>0, <3>1, <3>2, <3>3, RightVerdict
    <2> QED
      BY <2>1, <2>2
  <1>2. ASSUME NEW v, Follows(jws, doc, v), Done(t, v),
               UNCHANGED <<forced, rejected, started, refreshedAt>>
        PROVE  Ends(t, z, s, jws)
    <2>1. v \in Verdicts \ {"none"}
      BY <1>2 DEF Follows, Verdicts
    <2> QED
      BY <1>1, <1>2, <2>1 DEF Ends
  <1>3. CASE ~IsJwks(doc)
    <2>1. Done(t, "no_key") /\ UNCHANGED <<forced, rejected, started, refreshedAt>>
      BY <1>3 DEF Conclude
    <2>2. Follows(jws, doc, "no_key")
      BY <1>3, NothingFollows
    <2> QED
      BY <2>1, <2>2, <1>2
  <1>4. CASE IsJwks(doc)
    <2>1. doc \in Docs
      BY <1>4 DEF Known, IsJwks
    <2>2. /\ Result(doc, jws) # "none" => Follows(jws, doc, Result(doc, jws))
          /\ Result(doc, jws) = "none" => Candidates(doc, jws.kid) = {}
          /\ Result(doc, jws) = "none" => jws.signer \notin doc
          /\ jws.signer = Forger /\ ~RejectedBy(doc, jws) => doc = {}
      BY <1>4, <2>1, ResultFollows
    <2>3. CASE Result(doc, jws) # "none"
      <3>1. /\ Done(t, Result(doc, jws))
            /\ UNCHANGED <<forced, rejected, started, refreshedAt>>
        BY <1>4, <2>3 DEF Conclude
      <3> QED
        BY <3>1, <2>2, <2>3, <1>2
    <2>4. CASE Result(doc, jws) = "none" /\ jws.kid # NoKid /\ BudgetLeft(z)
      <3>1. /\ forced' = Stamped(z)
            /\ refreshedAt' = [refreshedAt EXCEPT ![z] = now]
            /\ rejected' = [rejected EXCEPT ![t] = RejectedBy(doc, jws)]
            /\ started' = [started EXCEPT ![t] = now]
            /\ pc' = [pc EXCEPT ![t] = "refresh"]
            /\ UNCHANGED verdict
        BY <1>4, <2>4 DEF Conclude
      <3>2. RejectedBy(doc, jws) \in BOOLEAN
        BY DEF RejectedBy
      <3> QED
        BY <3>1, <3>2, <2>4 DEF Refreshes
    <2>5. CASE Result(doc, jws) = "none" /\ ~(jws.kid # NoKid /\ BudgetLeft(z))
      <3> DEFINE v == IF jws.kid # NoKid /\ RejectedBy(doc, jws)
                      THEN "invalid" ELSE "no_key"
      <3>1. Done(t, v) /\ UNCHANGED <<forced, rejected, started, refreshedAt>>
        BY <1>4, <2>5 DEF Conclude
      <3>2. v \in {"invalid", "no_key"}
        OBVIOUS
      <3>3. v = "no_key" /\ jws.signer = Forger => doc = {}
        <4>1. CASE jws.kid = NoKid
          <5>1. Candidates(doc, NoKid) = doc
            BY AgainstIs
          <5> QED
            BY <4>1, <5>1, <2>2, <2>5
        <4>2. CASE jws.kid # NoKid
          BY <4>2, <2>2
        <4> QED
          BY <4>1, <4>2
      <3> HIDE DEF v
      <3>4. Follows(jws, doc, v)
        BY <3>2, <3>3, <2>2, <2>5 DEF Follows
      <3> QED
        BY <3>1, <3>4, <1>2
    <2> QED
      BY <2>3, <2>4, <2>5
  <1> QED
    BY <1>3, <1>4

LEMMA FinalFollows ==
    ASSUME JwksAssumption, KidAssumption, NEW t \in Tasks, NEW doc \in Docs,
           sig[t] \in Signatures
    PROVE  Follows(sig[t], doc, FinalVerdict(t, doc))
  <1>1. CASE IsJwks(doc) /\ Result(doc, sig[t]) # "none"
    <2>1. FinalVerdict(t, doc) = Result(doc, sig[t])
      BY <1>1 DEF FinalVerdict
    <2> QED
      BY <1>1, <2>1, ResultFollows
  <1>2. CASE IsJwks(doc) /\ Result(doc, sig[t]) = "none"
    <2>1. FinalVerdict(t, doc) =
            IF rejected[t] \/ RejectedBy(doc, sig[t]) THEN "invalid" ELSE "no_key"
      BY <1>2 DEF FinalVerdict
    <2>2. /\ sig[t].signer \notin doc
          /\ sig[t].signer = Forger /\ ~RejectedBy(doc, sig[t]) => doc = {}
      BY <1>2, ResultFollows
    <2> QED
      BY <2>1, <2>2 DEF Follows
  <1>3. CASE ~IsJwks(doc)
    <2>1. FinalVerdict(t, doc) \in {"no_key", "invalid"}
      BY <1>3 DEF FinalVerdict
    <2> QED
      BY <1>3, <2>1, NothingFollows
  <1> QED
    BY <1>1, <1>2, <1>3

(* A cached document that has not lapsed is one the zone served lately.    *)
LEMMA FreshIsKnown ==
    ASSUME JwksAssumption, Base, NEW z \in Zones, NEW s \in Nat, s <= now, Fresh(z)
    PROVE  Known(z, s, Get(cache, z).doc)
  <1>1. Dict(cache, Cached) /\ Has(cache, z) /\ now < Get(cache, z).until /\ now \in Nat
    BY DEF Base, TablesInv, ClockInv, Fresh
  <1>2. Entry(cache, z, Get(cache, z)) /\ Get(cache, z) \in Cached
    BY <1>1, EntryIs
  <1> DEFINE e == Get(cache, z)
  <1>3. e.doc \in Docs /\ e.doc # Down /\ e.until \in Nat
    BY <1>2 DEF Cached
  <1>4. Backed(now, served, z, e)
    BY <1>2 DEF Base, TablesInv
  <1>5. PICK i \in 0..now : e.doc = served[z][i + 1] /\ i + TTL + FetchTime >= e.until
    BY <1>4 DEF Backed
  <1>6. TTL \in Nat /\ FetchTime \in Nat
    BY DEF JwksAssumption
  <1> HIDE DEF e
  <1>7. now < e.until
    BY <1>1 DEF e
  <1>8. i + (TTL + FetchTime) >= s
    BY <1>1, <1>3, <1>5, <1>6, <1>7
  <1>9. Ev(now, served, z, s, TTL + FetchTime, e.doc)
    BY <1>5, <1>8 DEF Ev
  <1> QED
    BY <1>3, <1>9 DEF Known, e

LEMMA SuppressedIsKnown ==
    ASSUME JwksAssumption, Base, NEW z \in Zones, NEW s \in Nat, s <= now, Suppressed(z)
    PROVE  Known(z, s, None)
  <1>1. Dict(negative, Nat) /\ Has(negative, z) /\ now < Get(negative, z) /\ now \in Nat
    BY DEF Base, TablesInv, ClockInv, Suppressed
  <1> DEFINE e == Get(negative, z)
  <1>2. Entry(negative, z, e) /\ e \in Nat
    BY <1>1, EntryIs
  <1>4. DownBacked(now, served, z, e)
    BY <1>2 DEF Base, TablesInv
  <1>5. PICK i \in 0..now : Down = served[z][i + 1] /\ i + NegativeTTL + FetchTime >= e
    BY <1>4 DEF DownBacked
  <1>6. NegativeTTL \in Nat /\ FetchTime \in Nat
    BY DEF JwksAssumption
  <1>7. now < e
    BY <1>1
  <1> HIDE DEF e
  <1>8. i + (NegativeTTL + FetchTime) >= s
    BY <1>1, <1>2, <1>5, <1>6, <1>7
  <1> QED
    BY <1>5, <1>8 DEF Ev, Known

LEMMA UnderLockDoes ==
    ASSUME JwksAssumption, KidAssumption, Base, NEW t \in Tasks, NEW z \in Zones,
           NEW jws \in Signatures, NEW s \in Nat, s <= now, NEW l \in Tasks,
           UnderLock(t, z, jws, l)
    PROVE  \/ /\ Ends(t, z, s, jws) \/ Refreshes(t, z)
              /\ UNCHANGED <<negative, holder>>
           \/ Fetches(t, z, l)
  <1>1. CASE Fresh(z) \/ Suppressed(z)
    <2> DEFINE doc == IF Fresh(z) THEN Get(cache, z).doc ELSE None
    <2>1. Conclude(t, z, jws, doc) /\ UNCHANGED <<negative, holder>>
      BY <1>1 DEF UnderLock
    <2>2. Known(z, s, doc)
      BY <1>1, FreshIsKnown, SuppressedIsKnown
    <2> HIDE DEF doc
    <2> QED
      BY <2>1, <2>2, ConcludeDoes
  <1>2. CASE ~(Fresh(z) \/ Suppressed(z))
    BY <1>2 DEF UnderLock, Fetches
  <1> QED
    BY <1>1, <1>2

-----------------------------------------------------------------------------
(* A step moves one task.                                                  *)

Moves(t) ==
    /\ Alters(pc, pc', t) /\ Alters(zone, zone', t) /\ Alters(sig, sig', t)
    /\ Alters(lock, lock', t) /\ Alters(since, since', t)
    /\ Alters(started, started', t) /\ Alters(rejected, rejected', t)
    /\ Alters(verdict, verdict', t)
    /\ TaskOK(now, served, pc'[t], zone'[t], sig'[t], lock'[t], since'[t], started'[t],
              rejected'[t], verdict'[t])

LEMMA MovesTasks ==
    ASSUME TasksInv, NEW t \in Tasks, Moves(t), UNCHANGED <<now, served>>
    PROVE  TasksInv'
  <1>1. /\ Shaped(pc') /\ Shaped(zone') /\ Shaped(sig') /\ Shaped(lock') /\ Shaped(since')
        /\ Shaped(started') /\ Shaped(rejected') /\ Shaped(verdict')
    BY DEF Moves, Alters
  <1>2. ASSUME NEW u \in Tasks PROVE Local(u)'
    <2>1. CASE u = t
      BY <2>1 DEF Moves, Local
    <2>2. CASE u # t
      <3>1. /\ pc'[u] = pc[u] /\ zone'[u] = zone[u] /\ sig'[u] = sig[u]
            /\ lock'[u] = lock[u] /\ since'[u] = since[u] /\ started'[u] = started[u]
            /\ rejected'[u] = rejected[u] /\ verdict'[u] = verdict[u]
        BY <2>2 DEF Moves, Alters
      <3>2. Local(u)
        BY DEF TasksInv
      <3> QED
        BY <3>1, <3>2 DEF Local
    <2> QED
      BY <2>1, <2>2
  <1> QED
    BY <1>1, <1>2 DEF TasksInv, Shaped

(* Task t now asks of zone z about jws under lock l, since tick s.         *)
Asks(t, z, jws, l, s) ==
    /\ Alters(zone, zone', t) /\ zone'[t] = z
    /\ Alters(sig, sig', t) /\ sig'[t] = jws
    /\ Alters(lock, lock', t) /\ lock'[t] = l
    /\ Alters(since, since', t) /\ since'[t] = s

LEMMA AsksOn ==
    ASSUME TasksInv, NEW t \in Tasks, UNCHANGED <<zone, sig, lock, since>>
    PROVE  Asks(t, zone[t], sig[t], lock[t], since[t])
  BY SameAlters DEF TasksInv, Asks

LEMMA OutcomeMoves ==
    ASSUME JwksAssumption, Base, NEW t \in Tasks, NEW z \in Zones, NEW jws \in Signatures,
           NEW l \in Tasks \cup {None}, NEW s \in Nat, s <= now, pc[t] # "done",
           Asks(t, z, jws, l, s),
           \/ Ends(t, z, s, jws) \/ Refreshes(t, z)
           \/ l \in Tasks /\ Fetches(t, z, l)
    PROVE  Moves(t)
  <1>0. /\ Shaped(pc) /\ Shaped(started) /\ Shaped(rejected) /\ Shaped(verdict)
        /\ Local(t) /\ now \in Nat
    BY DEF Base, TasksInv, ClockInv
  <1>1. /\ rejected[t] \in BOOLEAN /\ started[t] \in Nat /\ verdict[t] = "none"
    BY <1>0 DEF Local, TaskOK
  <1>2. FetchTime \in Nat /\ now - now <= FetchTime
    BY <1>0 DEF JwksAssumption
  <1>3. CASE Ends(t, z, s, jws)
    <2>1. PICK v \in Verdicts \ {"none"} : Done(t, v) /\ Just(now, served, z, s, jws, v)
      BY <1>3 DEF Ends
    <2>2. UNCHANGED <<rejected, started>>
      BY <1>3 DEF Ends
    <2>3. /\ Alters(pc, pc', t) /\ pc'[t] = "done"
          /\ Alters(verdict, verdict', t) /\ verdict'[t] = v
      BY <2>1, <1>0, ExceptAlters DEF Done
    <2>4. /\ Alters(rejected, rejected', t) /\ rejected'[t] = rejected[t]
          /\ Alters(started, started', t) /\ started'[t] = started[t]
      BY <2>2, <1>0, SameAlters
    <2>5. TaskOK(now, served, "done", z, jws, l, s, started[t], rejected[t], v)
      BY <1>1, <2>1 DEF TaskOK, Pcs
    <2> QED
      BY <2>3, <2>4, <2>5 DEF Moves, Asks
  <1>4. CASE Refreshes(t, z)
    <2>1. PICK b \in BOOLEAN : rejected' = [rejected EXCEPT ![t] = b]
      BY <1>4 DEF Refreshes
    <2>2. /\ Alters(pc, pc', t) /\ pc'[t] = "refresh"
          /\ Alters(started, started', t) /\ started'[t] = now
          /\ Alters(rejected, rejected', t) /\ rejected'[t] = b
      BY <1>4, <2>1, <1>0, ExceptAlters DEF Refreshes
    <2>3. /\ Alters(verdict, verdict', t) /\ verdict'[t] = "none"
      BY <1>4, <1>0, <1>1, SameAlters DEF Refreshes
    <2>4. TaskOK(now, served, "refresh", z, jws, l, s, now, b, "none")
      BY <1>0, <1>2 DEF TaskOK, Pcs, Verdicts
    <2> QED
      BY <2>2, <2>3, <2>4 DEF Moves, Asks
  <1>5. CASE l \in Tasks /\ Fetches(t, z, l)
    <2>2. /\ Alters(pc, pc', t) /\ pc'[t] = "fetch"
          /\ Alters(started, started', t) /\ started'[t] = now
      BY <1>5, <1>0, ExceptAlters DEF Fetches
    <2>3. /\ Alters(verdict, verdict', t) /\ verdict'[t] = "none"
          /\ Alters(rejected, rejected', t) /\ rejected'[t] = rejected[t]
      BY <1>5, <1>0, <1>1, SameAlters DEF Fetches
    <2>4. TaskOK(now, served, "fetch", z, jws, l, s, now, rejected[t], "none")
      BY <1>0, <1>1, <1>2, <1>5 DEF TaskOK, Pcs, Verdicts
    <2> QED
      BY <2>2, <2>3, <2>4 DEF Moves, Asks
  <1> QED
    BY <1>3, <1>4, <1>5

-----------------------------------------------------------------------------
(* The steps of a task, by what they change.                               *)

Concludes(t, z, s, jws) == Ends(t, z, s, jws) \/ Refreshes(t, z)

(* Inside lock l.                                                          *)
Looks(t, z, jws, l, s) ==
    \/ Concludes(t, z, s, jws) /\ UNCHANGED <<negative, holder>>
    \/ Fetches(t, z, l)

(* A task arrives and finds a document cached.                             *)
Hits(t, z, jws) ==
    /\ Asks(t, z, jws, lock[t], now) /\ lock[t] \in Tasks \cup {None}
    /\ Concludes(t, z, now, jws)
    /\ UNCHANGED <<cache, negative, mutex>>

(* A task arrives, finds none and asks for lock l.                         *)
Misses(t, z, jws, l) ==
    /\ Asks(t, z, jws, l, now)
    /\ cache' = Without(cache, z)
    /\ locks' = IF Has(locks, z) THEN locks ELSE Append(Evicted(locks), <<z, l>>)
    /\ Has(locks, z) => l = Get(locks, z)
    /\ \/ holder[l] = None /\ Looks(t, z, jws, l, now) /\ UNCHANGED queue
       \/ /\ queue' = [queue EXCEPT ![l] = Append(@, t)]
          /\ pc' = [pc EXCEPT ![t] = "wait"]
          /\ UNCHANGED <<negative, forced, holder, started, rejected, verdict, refreshedAt>>

LEMMA ArriveDoes ==
    ASSUME JwksAssumption, KidAssumption, Base, NEW t \in Tasks, Arrive(t)
    PROVE  /\ UNCHANGED <<now, served, changes, cancels, seen, failedAt>>
           /\ pc[t] = "idle"
           /\ \E z \in Zones, jws \in Signatures :
                Hits(t, z, jws) \/ \E l \in Tasks : Misses(t, z, jws, l)
  <1>0. /\ UNCHANGED <<now, served, changes, cancels, seen, failedAt>>
        /\ pc[t] = "idle"
    BY DEF Arrive
  <1>1. PICK z \in Zones, jws \in Signatures :
         /\ zone' = [zone EXCEPT ![t] = z]
         /\ sig' = [sig EXCEPT ![t] = jws]
         /\ since' = [since EXCEPT ![t] = now]
         /\ IF Fresh(z)
            THEN /\ Conclude(t, z, jws, Get(cache, z).doc)
                 /\ UNCHANGED <<cache, negative, mutex, lock>>
            ELSE /\ cache' = Without(cache, z)
                 /\ locks' = IF Has(locks, z) THEN locks
                             ELSE Append(Evicted(locks), <<z, LockOf(t, z)>>)
                 /\ lock' = [lock EXCEPT ![t] = LockOf(t, z)]
                 /\ IF holder[LockOf(t, z)] = None /\ queue[LockOf(t, z)] = <<>>
                    THEN UnderLock(t, z, jws, LockOf(t, z)) /\ UNCHANGED queue
                    ELSE /\ queue' = [queue EXCEPT ![LockOf(t, z)] = Append(@, t)]
                         /\ pc' = [pc EXCEPT ![t] = "wait"]
                         /\ UNCHANGED <<negative, forced, holder, started,
                                        rejected, verdict, refreshedAt>>
    BY DEF Arrive
  <1>2. /\ Shaped(zone) /\ Shaped(sig) /\ Shaped(since) /\ Shaped(lock)
        /\ lock[t] \in Tasks \cup {None} /\ now \in Nat /\ now <= now
    BY DEF Base, TasksInv, ClockInv, Local, TaskOK
  <1>3. /\ Alters(zone, zone', t) /\ zone'[t] = z
        /\ Alters(sig, sig', t) /\ sig'[t] = jws
        /\ Alters(since, since', t) /\ since'[t] = now
    <2>1. zone' = [zone EXCEPT ![t] = z] /\ Shaped(zone)
      BY <1>1, <1>2
    <2>2. sig' = [sig EXCEPT ![t] = jws] /\ Shaped(sig)
      BY <1>1, <1>2
    <2>3. since' = [since EXCEPT ![t] = now] /\ Shaped(since)
      BY <1>1, <1>2
    <2>4. Alters(zone, zone', t) /\ zone'[t] = z
      BY <2>1, ExceptAlters
    <2>5. Alters(sig, sig', t) /\ sig'[t] = jws
      BY <2>2, ExceptAlters
    <2>6. Alters(since, since', t) /\ since'[t] = now
      BY <2>3, ExceptAlters
    <2> QED
      BY <2>4, <2>5, <2>6
  <1>4. CASE Fresh(z)
    <2>1. /\ Conclude(t, z, jws, Get(cache, z).doc)
          /\ UNCHANGED <<cache, negative, mutex, lock>>
      BY <1>1, <1>4
    <2>2. Known(z, now, Get(cache, z).doc)
      BY <1>2, <1>4, FreshIsKnown
    <2>3. Concludes(t, z, now, jws)
      BY <2>1, <2>2, <1>2, ConcludeDoes DEF Concludes
    <2>4. Asks(t, z, jws, lock[t], now)
      BY <2>1, <1>2, <1>3, SameAlters DEF Asks
    <2> QED
      BY <1>0, <1>2, <2>1, <2>3, <2>4 DEF Hits
  <1>5. CASE ~Fresh(z)
    <2>1. Dict(locks, Tasks)
      BY DEF Base, LocksInv
    <2>2. PICK l \in Tasks : l = LockOf(t, z) /\ (Has(locks, z) => l = Get(locks, z))
      BY <2>1, EntryIs DEF LockOf
    <2>3. /\ cache' = Without(cache, z)
          /\ locks' = IF Has(locks, z) THEN locks ELSE Append(Evicted(locks), <<z, l>>)
          /\ lock' = [lock EXCEPT ![t] = l]
          /\ IF holder[l] = None /\ queue[l] = <<>>
             THEN UnderLock(t, z, jws, l) /\ UNCHANGED queue
             ELSE /\ queue' = [queue EXCEPT ![l] = Append(@, t)]
                  /\ pc' = [pc EXCEPT ![t] = "wait"]
                  /\ UNCHANGED <<negative, forced, holder, started,
                                 rejected, verdict, refreshedAt>>
      BY <1>1, <1>5, <2>2
    <2>4. Asks(t, z, jws, l, now)
      BY <2>3, <1>2, <1>3, ExceptAlters DEF Asks
    <2>5. CASE holder[l] = None /\ queue[l] = <<>>
      <3>1. UnderLock(t, z, jws, l) /\ UNCHANGED queue
        BY <2>3, <2>5
      <3>2. Looks(t, z, jws, l, now)
        BY <3>1, <1>2, UnderLockDoes DEF Looks, Concludes
      <3> QED
        BY <1>0, <2>2, <2>3, <2>4, <2>5, <3>1, <3>2 DEF Misses
    <2>6. CASE ~(holder[l] = None /\ queue[l] = <<>>)
      BY <1>0, <2>2, <2>3, <2>4, <2>6 DEF Misses
    <2> QED
      BY <2>5, <2>6
  <1> QED
    BY <1>4, <1>5

LEMMA WakeDoes ==
    ASSUME JwksAssumption, KidAssumption, Base, NEW t \in Tasks, Wake(t)
    PROVE  /\ UNCHANGED <<now, served, changes, cancels, cache, locks, seen, zone,
                          sig, lock, since, failedAt>>
           /\ pc[t] = "wait" /\ lock[t] \in Tasks /\ holder[lock[t]] = None
           /\ Head(queue[lock[t]]) = t
           /\ queue' = [queue EXCEPT ![lock[t]] = Tail(@)]
           /\ Looks(t, zone[t], sig[t], lock[t], since[t])
  <1>1. /\ UNCHANGED <<now, served, changes, cancels, cache, locks, seen, zone,
                       sig, lock, since, failedAt>>
        /\ pc[t] = "wait" /\ holder[lock[t]] = None /\ Head(queue[lock[t]]) = t
        /\ queue' = [queue EXCEPT ![lock[t]] = Tail(@)]
        /\ UnderLock(t, zone[t], sig[t], lock[t])
    BY DEF Wake, Woken
  <1>2. /\ lock[t] \in Tasks /\ zone[t] \in Zones /\ sig[t] \in Signatures
        /\ since[t] \in Nat /\ since[t] <= now
    BY <1>1 DEF Base, TasksInv, Local, TaskOK
  <1>3. Looks(t, zone[t], sig[t], lock[t], since[t])
    BY <1>1, <1>2, UnderLockDoes DEF Looks, Concludes
  <1> QED
    BY <1>1, <1>2, <1>3

(* A fetch that ends now brought what the zone served since the question.  *)
LEMMA AnswerIsRecent ==
    ASSUME JwksAssumption, Base, NEW t \in Tasks, pc[t] \in {"fetch", "refresh"},
           NEW doc \in Docs, Answer(t, doc)
    PROVE  /\ Ev(now, served, zone[t], since[t], NegativeTTL + FetchTime, doc)
           /\ doc = Down => DownBacked(now, served, zone[t], now + NegativeTTL)
           /\ Backed(now, served, zone[t], [doc |-> doc, until |-> now + TTL])
  <1>1. /\ since[t] \in Nat /\ started[t] \in Nat /\ since[t] <= started[t]
        /\ started[t] <= now /\ now - started[t] <= FetchTime /\ now \in Nat
    BY DEF Base, TasksInv, ClockInv, Local, TaskOK
  <1>2. NegativeTTL \in Nat /\ FetchTime \in Nat /\ TTL \in Nat
    BY DEF JwksAssumption
  <1>3. PICK i \in started[t]..now : doc = served[zone[t]][i + 1]
    BY DEF Answer
  <1>4. i \in 0..now /\ i + (NegativeTTL + FetchTime) >= since[t]
    BY <1>1, <1>2
  <1>5. i + NegativeTTL + FetchTime >= now + NegativeTTL
    BY <1>1, <1>2
  <1>6. i + TTL + FetchTime >= now + TTL
    BY <1>1, <1>2
  <1>7. Ev(now, served, zone[t], since[t], NegativeTTL + FetchTime, doc)
    BY <1>3, <1>4 DEF Ev
  <1>8. doc = Down => DownBacked(now, served, zone[t], now + NegativeTTL)
    BY <1>3, <1>4, <1>5 DEF DownBacked
  <1>9. Backed(now, served, zone[t], [doc |-> doc, until |-> now + TTL])
    BY <1>3, <1>4, <1>6 DEF Backed
  <1> QED
    BY <1>7, <1>8, <1>9

LEMMA FetchDoneDoes ==
    ASSUME JwksAssumption, KidAssumption, Base, NEW t \in Tasks, FetchDone(t)
    PROVE  /\ UNCHANGED <<now, served, changes, cancels, locks, queue, zone, sig,
                          lock, since>>
           /\ pc[t] = "fetch" /\ lock[t] \in Tasks
           /\ holder' = [holder EXCEPT ![lock[t]] = None]
           /\ Concludes(t, zone[t], since[t], sig[t])
           /\ \/ /\ negative' = Store(negative, zone[t], now + NegativeTTL)
                 /\ DownBacked(now, served, zone[t], now + NegativeTTL)
                 /\ failedAt' = [failedAt EXCEPT ![zone[t]] = now]
                 /\ UNCHANGED <<cache, seen>>
              \/ \E doc \in Docs \ {Down} :
                   LET e == [doc |-> doc, until |-> now + TTL]
                   IN  /\ cache' = Store(cache, zone[t], e)
                       /\ Backed(now, served, zone[t], e)
                       /\ seen' = [seen EXCEPT ![zone[t]] = doc]
                       /\ UNCHANGED <<negative, failedAt>>
  <1>1. /\ UNCHANGED <<now, served, changes, cancels, locks, queue, zone, sig,
                       lock, since>>
        /\ pc[t] = "fetch" /\ holder' = [holder EXCEPT ![lock[t]] = None]
    BY DEF FetchDone
  <1>2. /\ lock[t] \in Tasks /\ zone[t] \in Zones /\ sig[t] \in Signatures
        /\ since[t] \in Nat /\ since[t] <= now
    BY <1>1 DEF Base, TasksInv, Local, TaskOK
  <1>3. PICK doc \in Docs :
         /\ Answer(t, doc)
         /\ IF doc = Down
            THEN /\ negative' = Store(negative, zone[t], FailedUntil(t))
                 /\ failedAt' = [failedAt EXCEPT ![zone[t]] = now]
                 /\ Conclude(t, zone[t], sig[t], None)
                 /\ UNCHANGED <<cache, seen>>
            ELSE /\ cache' = Store(cache, zone[t], [doc |-> doc, until |-> now + TTL])
                 /\ seen' = [seen EXCEPT ![zone[t]] = doc]
                 /\ Conclude(t, zone[t], sig[t], doc)
                 /\ UNCHANGED <<negative, failedAt>>
    BY DEF FetchDone
  <1>4. /\ Ev(now, served, zone[t], since[t], NegativeTTL + FetchTime, doc)
        /\ doc = Down => DownBacked(now, served, zone[t], now + NegativeTTL)
        /\ Backed(now, served, zone[t], [doc |-> doc, until |-> now + TTL])
    BY <1>1, <1>3, AnswerIsRecent
  <1>5. CASE doc = Down
    <2>1. Known(zone[t], since[t], None)
      BY <1>4, <1>5 DEF Known
    <2>2. Conclude(t, zone[t], sig[t], None)
      BY <1>3, <1>5
    <2>3. Concludes(t, zone[t], since[t], sig[t])
      BY <2>1, <2>2, <1>2, ConcludeDoes DEF Concludes
    <2> QED
      BY <1>1, <1>2, <1>3, <1>4, <1>5, <2>3 DEF FailedUntil
  <1>6. CASE doc # Down
    <2>1. Known(zone[t], since[t], doc)
      BY <1>4 DEF Known
    <2>2. Conclude(t, zone[t], sig[t], doc)
      BY <1>3, <1>6
    <2>3. Concludes(t, zone[t], since[t], sig[t])
      BY <2>1, <2>2, <1>2, ConcludeDoes DEF Concludes
    <2> QED
      BY <1>1, <1>2, <1>3, <1>4, <1>6, <2>3
  <1> QED
    BY <1>5, <1>6

LEMMA RefreshDoneDoes ==
    ASSUME JwksAssumption, KidAssumption, Base, NEW t \in Tasks, RefreshDone(t)
    PROVE  /\ UNCHANGED <<now, served, changes, cancels, negative, forced, mutex, seen,
                          zone, sig, lock, since, started, rejected, history>>
           /\ pc[t] = "refresh"
           /\ \E v \in Verdicts \ {"none"} :
                Done(t, v) /\ Just(now, served, zone[t], since[t], sig[t], v)
           /\ \/ UNCHANGED cache
              \/ \E doc \in Docs \ {Down} :
                   LET e == [doc |-> doc, until |-> now + TTL]
                   IN  cache' = Store(cache, zone[t], e) /\ Backed(now, served, zone[t], e)
  <1>1. /\ UNCHANGED <<now, served, changes, cancels, negative, forced, mutex, seen,
                       zone, sig, lock, since, started, rejected, history>>
        /\ pc[t] = "refresh"
    BY DEF RefreshDone
  <1>2. /\ zone[t] \in Zones /\ sig[t] \in Signatures
        /\ since[t] \in Nat /\ since[t] <= now /\ now \in Nat /\ now <= MaxNow
    BY <1>1 DEF Base, TasksInv, ClockInv, Local, TaskOK
  <1>3. PICK doc \in Docs :
         /\ Answer(t, doc)
         /\ cache' = IF IsJwks(doc)
                     THEN Store(cache, zone[t], [doc |-> doc, until |-> now + TTL])
                     ELSE cache
         /\ Done(t, FinalVerdict(t, doc))
    BY DEF RefreshDone
  <1>4. /\ Ev(now, served, zone[t], since[t], NegativeTTL + FetchTime, doc)
        /\ Backed(now, served, zone[t], [doc |-> doc, until |-> now + TTL])
    BY <1>1, <1>3, AnswerIsRecent
  <1>5. Follows(sig[t], doc, FinalVerdict(t, doc))
    BY <1>2, FinalFollows
  <1>6. FinalVerdict(t, doc) \in Verdicts \ {"none"}
    BY <1>5 DEF Follows, Verdicts
  <1>7. Just(now, served, zone[t], since[t], sig[t], FinalVerdict(t, doc))
    BY <1>2, <1>4, <1>5, RightVerdict
  <1>8. \/ UNCHANGED cache
        \/ \E d \in Docs \ {Down} :
             LET e == [doc |-> d, until |-> now + TTL]
             IN  cache' = Store(cache, zone[t], e) /\ Backed(now, served, zone[t], e)
    <2>1. CASE IsJwks(doc)
      <3>1. doc \in Docs \ {Down}
        BY <2>1 DEF IsJwks
      <3> QED
        BY <3>1, <2>1, <1>3, <1>4
    <2>2. CASE ~IsJwks(doc)
      BY <2>2, <1>3
    <2> QED
      BY <2>1, <2>2
  <1> QED
    BY <1>1, <1>3, <1>6, <1>7, <1>8

LEMMA CancelDoes ==
    ASSUME JwksAssumption, Base, NEW t \in Tasks, Cancel(t)
    PROVE  /\ UNCHANGED <<now, served, changes, tables, locks, seen, zone, sig, lock,
                          since, started, rejected, history>>
           /\ pc[t] \in {"wait", "fetch", "refresh"}
           /\ cancels' \in 0..MaxCancels
           /\ Done(t, "not_checked")
           /\ Just(now, served, zone[t], since[t], sig[t], "not_checked")
           /\ holder' = IF pc[t] = "fetch" THEN [holder EXCEPT ![lock[t]] = None]
                                           ELSE holder
           /\ queue' = IF pc[t] = "wait"
                       THEN [queue EXCEPT ![lock[t]] =
                               Pick(@, {i \in DOMAIN @ : @[i] # t})]
                       ELSE queue
  <1>1. cancels' \in 0..MaxCancels
    BY DEF Cancel, Base, ClockInv, JwksAssumption
  <1>2. Just(now, served, zone[t], since[t], sig[t], "not_checked")
    BY DEF Just, KeyWasServed, KeyWasMissing, ForgeryIsInvalid, KeyWasMissingLately
  <1> QED
    BY <1>1, <1>2 DEF Cancel

LEMMA DoneMoves ==
    ASSUME Base, NEW t \in Tasks, pc[t] \in {"wait", "fetch", "refresh"},
           NEW v \in Verdicts \ {"none"}, Done(t, v),
           Just(now, served, zone[t], since[t], sig[t], v),
           UNCHANGED <<zone, sig, lock, since, started, rejected>>
    PROVE  Moves(t)
  <1>0. /\ Shaped(pc) /\ Shaped(zone) /\ Shaped(sig) /\ Shaped(lock) /\ Shaped(since)
        /\ Shaped(started) /\ Shaped(rejected) /\ Shaped(verdict) /\ Local(t)
    BY DEF Base, TasksInv
  <1>1. /\ Alters(pc, pc', t) /\ pc'[t] = "done"
        /\ Alters(verdict, verdict', t) /\ verdict'[t] = v
    BY <1>0, ExceptAlters DEF Done
  <1>2. /\ Alters(zone, zone', t) /\ Alters(sig, sig', t) /\ Alters(lock, lock', t)
        /\ Alters(since, since', t) /\ Alters(started, started', t)
        /\ Alters(rejected, rejected', t)
    BY <1>0, SameAlters
  <1>3. TaskOK(now, served, "done", zone[t], sig[t], lock[t], since[t], started[t],
               rejected[t], v)
    BY <1>0 DEF Local, TaskOK, Pcs
  <1> QED
    BY <1>1, <1>2, <1>3 DEF Moves

-----------------------------------------------------------------------------
(* Every step keeps what the tasks know.                                   *)

LEMMA ArriveMoves ==
    ASSUME JwksAssumption, KidAssumption, Base, NEW t \in Tasks, Arrive(t)
    PROVE  Moves(t)
  <1>0. /\ pc[t] = "idle" /\ now \in Nat /\ now <= now
        /\ Shaped(pc) /\ Shaped(started) /\ Shaped(rejected) /\ Shaped(verdict)
        /\ Local(t)
    BY ArriveDoes DEF Base, ClockInv, TasksInv
  <1>1. PICK z \in Zones, jws \in Signatures :
           Hits(t, z, jws) \/ \E l \in Tasks : Misses(t, z, jws, l)
    BY ArriveDoes
  <1>2. CASE Hits(t, z, jws)
    BY <1>0, <1>2, OutcomeMoves DEF Hits, Concludes
  <1>3. ASSUME NEW l \in Tasks, Misses(t, z, jws, l) PROVE Moves(t)
    <2>1. CASE Looks(t, z, jws, l, now)
      BY <1>0, <1>3, <2>1, OutcomeMoves DEF Misses, Looks, Concludes
    <2>2. CASE /\ pc' = [pc EXCEPT ![t] = "wait"]
               /\ UNCHANGED <<started, rejected, verdict>>
      <3>1. /\ Alters(pc, pc', t) /\ pc'[t] = "wait"
        BY <1>0, <2>2, ExceptAlters
      <3>2. /\ Alters(started, started', t) /\ Alters(rejected, rejected', t)
            /\ Alters(verdict, verdict', t)
        BY <1>0, <2>2, SameAlters
      <3>3. TaskOK(now, served, "wait", z, jws, l, now, started[t], rejected[t], verdict[t])
        BY <1>0 DEF Local, TaskOK, Pcs
      <3> QED
        BY <3>1, <3>2, <3>3, <1>3, <2>2 DEF Moves, Misses, Asks
    <2> QED
      BY <1>3, <2>1, <2>2 DEF Misses
  <1> QED
    BY <1>1, <1>2, <1>3

LEMMA ResumeMoves ==
    ASSUME JwksAssumption, KidAssumption, Base, NEW t \in Tasks, Resume(t)
    PROVE  Moves(t)
  <1>0. Local(t) /\ TasksInv
    BY DEF Base, TasksInv
  <1>1. CASE Wake(t) \/ FetchDone(t)
    <2>1. /\ pc[t] \in {"wait", "fetch"} /\ UNCHANGED <<zone, sig, lock, since>>
          /\ lock[t] \in Tasks
          /\ \/ Looks(t, zone[t], sig[t], lock[t], since[t])
             \/ Concludes(t, zone[t], since[t], sig[t])
      BY <1>1, WakeDoes, FetchDoneDoes
    <2>2. Asks(t, zone[t], sig[t], lock[t], since[t])
      BY <1>0, <2>1, AsksOn
    <2>3. zone[t] \in Zones /\ sig[t] \in Signatures /\ since[t] \in Nat /\ since[t] <= now
      BY <1>0, <2>1 DEF Local, TaskOK
    <2> QED
      BY <2>1, <2>2, <2>3, OutcomeMoves DEF Looks, Concludes
  <1>2. CASE RefreshDone(t)
    BY <1>2, RefreshDoneDoes, DoneMoves
  <1> QED
    BY <1>1, <1>2 DEF Resume

LEMMA CancelMoves ==
    ASSUME JwksAssumption, Base, NEW t \in Tasks, Cancel(t)
    PROVE  Moves(t)
  <1>1. "not_checked" \in Verdicts \ {"none"}
    BY DEF Verdicts
  <1> QED
    BY <1>1, CancelDoes, DoneMoves

-----------------------------------------------------------------------------
(* Every step keeps the tables.                                            *)

CacheOK(n, srv, d) ==
    /\ Dict(d, Cached) /\ Len(d) <= TableMax
    /\ \A z, e : Entry(d, z, e) => Backed(n, srv, z, e)
NegativeOK(n, srv, d) ==
    /\ Dict(d, Nat) /\ Len(d) <= TableMax
    /\ \A z, until : Entry(d, z, until) => DownBacked(n, srv, z, until)
ForcedOK(n, d) ==
    /\ Dict(d, Nat) /\ Len(d) <= TableMax /\ Sorted(d)
    /\ \A z, stamp : Entry(d, z, stamp) => stamp <= n

LEMMA TablesAre ==
    TablesInv <=> /\ CacheOK(now, served, cache) /\ NegativeOK(now, served, negative)
                  /\ ForcedOK(now, forced) /\ seen \in [Zones -> Docs \cup {None}]
  BY DEF TablesInv, CacheOK, NegativeOK, ForcedOK

LEMMA WithoutKeeps ==
    ASSUME JwksAssumption, NEW n, NEW srv, NEW d, NEW z
    PROVE  /\ CacheOK(n, srv, d) => CacheOK(n, srv, Without(d, z))
           /\ NegativeOK(n, srv, d) => NegativeOK(n, srv, Without(d, z))
  <1>0. TableMax \in Nat
    BY DEF JwksAssumption
  <1>1. ASSUME CacheOK(n, srv, d) PROVE CacheOK(n, srv, Without(d, z))
    <2>1. Dict(d, Cached) /\ Len(d) <= TableMax /\ Len(d) \in Nat
      BY <1>1, DictAt DEF CacheOK
    <2>2. /\ Dict(Without(d, z), Cached) /\ Len(Without(d, z)) <= Len(d)
          /\ \A y, v : Entry(Without(d, z), y, v) => Entry(d, y, v)
      BY <2>1, WithoutIs
    <2>3. Len(Without(d, z)) \in Nat
      BY <2>2, DictAt
    <2> QED
      BY <1>0, <1>1, <2>1, <2>2, <2>3 DEF CacheOK
  <1>2. ASSUME NegativeOK(n, srv, d) PROVE NegativeOK(n, srv, Without(d, z))
    <2>1. Dict(d, Nat) /\ Len(d) <= TableMax /\ Len(d) \in Nat
      BY <1>2, DictAt DEF NegativeOK
    <2>2. /\ Dict(Without(d, z), Nat) /\ Len(Without(d, z)) <= Len(d)
          /\ \A y, v : Entry(Without(d, z), y, v) => Entry(d, y, v)
      BY <2>1, WithoutIs
    <2>3. Len(Without(d, z)) \in Nat
      BY <2>2, DictAt
    <2> QED
      BY <1>0, <1>2, <2>1, <2>2, <2>3 DEF NegativeOK
  <1> QED
    BY <1>1, <1>2

LEMMA StoreKeeps ==
    ASSUME JwksAssumption, NEW n, NEW srv, NEW d, NEW z \in Zones, NEW e
    PROVE  /\ CacheOK(n, srv, d) /\ e \in Cached /\ Backed(n, srv, z, e) =>
                CacheOK(n, srv, Store(d, z, e))
           /\ NegativeOK(n, srv, d) /\ e \in Nat /\ DownBacked(n, srv, z, e) =>
                NegativeOK(n, srv, Store(d, z, e))
  <1>1. ASSUME CacheOK(n, srv, d), e \in Cached, Backed(n, srv, z, e)
        PROVE  CacheOK(n, srv, Store(d, z, e))
    <2>1. Dict(d, Cached) /\ Len(d) <= TableMax
      BY <1>1 DEF CacheOK
    <2>2. /\ Dict(Store(d, z, e), Cached) /\ Len(Store(d, z, e)) <= TableMax
          /\ \A y, v : Entry(Store(d, z, e), y, v) =>
               Entry(d, y, v) \/ (y = z /\ v = e)
      BY <1>1, <2>1, StoreIs
    <2> QED
      BY <1>1, <2>2 DEF CacheOK
  <1>2. ASSUME NegativeOK(n, srv, d), e \in Nat, DownBacked(n, srv, z, e)
        PROVE  NegativeOK(n, srv, Store(d, z, e))
    <2>1. Dict(d, Nat) /\ Len(d) <= TableMax
      BY <1>2 DEF NegativeOK
    <2>2. /\ Dict(Store(d, z, e), Nat) /\ Len(Store(d, z, e)) <= TableMax
          /\ \A y, v : Entry(Store(d, z, e), y, v) =>
               Entry(d, y, v) \/ (y = z /\ v = e)
      BY <1>2, <2>1, StoreIs
    <2> QED
      BY <1>2, <2>2 DEF NegativeOK
  <1> QED
    BY <1>1, <1>2

LEMMA StampKeeps ==
    ASSUME JwksAssumption, Base, NEW z \in Zones
    PROVE  ForcedOK(now, Stamped(z))
  <1>1. /\ now \in Nat /\ Dict(forced, Nat) /\ Len(forced) <= TableMax
        /\ Sorted(forced) /\ \A y, w : Entry(forced, y, w) => w <= now
    BY DEF Base, ClockInv, TablesInv
  <1>2. /\ Dict(Stamped(z), Nat) /\ Len(Stamped(z)) <= TableMax
        /\ Sorted(Stamped(z))
        /\ \A y, w : Entry(Stamped(z), y, w) =>
             Entry(forced, y, w) \/ (y = z /\ w = now)
    BY <1>1, StampedIs
  <1> QED
    BY <1>1, <1>2 DEF ForcedOK

LEMMA ConcludesKeeps ==
    ASSUME JwksAssumption, Base, NEW z \in Zones, NEW t, NEW s, NEW jws,
           Concludes(t, z, s, jws)
    PROVE  ForcedOK(now, forced')
  <1>1. ForcedOK(now, forced)
    BY TablesAre DEF Base
  <1>2. CASE UNCHANGED forced
    BY <1>1, <1>2
  <1>3. CASE forced' = Stamped(z)
    BY <1>3, StampKeeps
  <1> QED
    BY <1>2, <1>3 DEF Concludes, Ends, Refreshes

LEMMA LooksKeeps ==
    ASSUME JwksAssumption, Base, NEW z \in Zones, NEW t, NEW s, NEW jws, NEW l,
           Looks(t, z, jws, l, s)
    PROVE  ForcedOK(now, forced') /\ NegativeOK(now, served, negative')
  <1>1. ForcedOK(now, forced) /\ NegativeOK(now, served, negative)
    BY TablesAre DEF Base
  <1>2. CASE Concludes(t, z, s, jws) /\ UNCHANGED negative
    BY <1>1, <1>2, ConcludesKeeps
  <1>3. CASE Fetches(t, z, l)
    BY <1>1, <1>3, WithoutKeeps DEF Fetches
  <1> QED
    BY <1>2, <1>3 DEF Looks

TablesStep == /\ CacheOK(now, served, cache') /\ NegativeOK(now, served, negative')
              /\ ForcedOK(now, forced') /\ seen' \in [Zones -> Docs \cup {None}]

LEMMA TaskTables ==
    ASSUME JwksAssumption, KidAssumption, Base, NEW t \in Tasks,
           Arrive(t) \/ Resume(t) \/ Cancel(t)
    PROVE  TablesStep
  <1>0. /\ CacheOK(now, served, cache) /\ NegativeOK(now, served, negative)
        /\ ForcedOK(now, forced) /\ seen \in [Zones -> Docs \cup {None}]
        /\ now \in Nat
    BY TablesAre DEF Base, ClockInv
  <1>z. pc[t] # "idle" => zone[t] \in Zones
    BY DEF Base, TasksInv, Local, TaskOK
  <1>e. TTL \in Nat /\ NegativeTTL \in Nat
    BY DEF JwksAssumption
  <1>1. CASE Arrive(t)
    <2>1. PICK z \in Zones, jws \in Signatures :
             Hits(t, z, jws) \/ \E l \in Tasks : Misses(t, z, jws, l)
      BY <1>1, ArriveDoes
    <2>2. UNCHANGED seen
      BY <1>1, ArriveDoes
    <2>3. CASE Hits(t, z, jws)
      BY <1>0, <2>2, <2>3, ConcludesKeeps DEF Hits, TablesStep
    <2>4. ASSUME NEW l \in Tasks, Misses(t, z, jws, l) PROVE TablesStep
      <3>1. CacheOK(now, served, cache')
        BY <1>0, <2>4, WithoutKeeps DEF Misses
      <3>2. ForcedOK(now, forced') /\ NegativeOK(now, served, negative')
        <4>1. CASE Looks(t, z, jws, l, now)
          BY <4>1, LooksKeeps
        <4>2. CASE UNCHANGED <<forced, negative>>
          BY <1>0, <4>2
        <4> QED
          BY <2>4, <4>1, <4>2 DEF Misses
      <3> QED
        BY <1>0, <2>2, <3>1, <3>2 DEF TablesStep
    <2> QED
      BY <2>1, <2>3, <2>4
  <1>2. CASE Wake(t)
    <2>1. /\ UNCHANGED <<cache, seen>> /\ zone[t] \in Zones
          /\ Looks(t, zone[t], sig[t], lock[t], since[t])
      BY <1>2, <1>z, WakeDoes
    <2> QED
      BY <1>0, <2>1, LooksKeeps DEF TablesStep
  <1>3. CASE FetchDone(t)
    <2>1. /\ zone[t] \in Zones /\ Concludes(t, zone[t], since[t], sig[t])
      BY <1>3, <1>z, FetchDoneDoes
    <2>2. ForcedOK(now, forced')
      BY <2>1, ConcludesKeeps
    <2>3. CASE /\ negative' = Store(negative, zone[t], now + NegativeTTL)
               /\ DownBacked(now, served, zone[t], now + NegativeTTL)
               /\ UNCHANGED <<cache, seen>>
      <3>1. now + NegativeTTL \in Nat
        BY <1>0, <1>e
      <3> QED
        BY <1>0, <2>1, <2>2, <2>3, <3>1, StoreKeeps DEF TablesStep
    <2>4. ASSUME NEW doc \in Docs \ {Down}, NEW e, e = [doc |-> doc, until |-> now + TTL],
                 cache' = Store(cache, zone[t], e),
                 Backed(now, served, zone[t], e),
                 seen' = [seen EXCEPT ![zone[t]] = doc], UNCHANGED negative
          PROVE  TablesStep
      <3>1. e \in Cached
        BY <1>0, <1>e, <2>4 DEF Cached
      <3>2. CacheOK(now, served, cache')
        BY <1>0, <2>1, <2>4, <3>1, StoreKeeps
      <3>3. seen' \in [Zones -> Docs \cup {None}]
        BY <1>0, <2>4
      <3> QED
        BY <1>0, <2>2, <2>4, <3>2, <3>3 DEF TablesStep
    <2> QED
      BY <1>3, <2>3, <2>4, FetchDoneDoes
  <1>4. CASE RefreshDone(t)
    <2>1. UNCHANGED <<negative, forced, seen>> /\ zone[t] \in Zones
      BY <1>4, <1>z, RefreshDoneDoes
    <2>2. CASE UNCHANGED cache
      BY <1>0, <2>1, <2>2 DEF TablesStep
    <2>3. ASSUME NEW doc \in Docs \ {Down}, NEW e, e = [doc |-> doc, until |-> now + TTL],
                 cache' = Store(cache, zone[t], e),
                 Backed(now, served, zone[t], e)
          PROVE  TablesStep
      <3>1. e \in Cached
        BY <1>0, <1>e, <2>3 DEF Cached
      <3>2. CacheOK(now, served, cache')
        BY <1>0, <2>1, <2>3, <3>1, StoreKeeps
      <3> QED
        BY <1>0, <2>1, <3>2 DEF TablesStep
    <2> QED
      BY <1>4, <2>2, <2>3, RefreshDoneDoes
  <1>5. CASE Cancel(t)
    BY <1>0, <1>5, CancelDoes DEF tables, TablesStep
  <1> QED
    BY <1>1, <1>2, <1>3, <1>4, <1>5 DEF Resume

-----------------------------------------------------------------------------
(* Every step keeps the locks and the queues before them.                  *)

InSeq(q, u) == \E i \in DOMAIN q : q[i] = u

LEMMA AppendIn ==
    ASSUME NEW q \in Seq(Tasks), NEW t \in Tasks
    PROVE  /\ Append(q, t) \in Seq(Tasks) /\ InSeq(Append(q, t), t)
           /\ \A u : InSeq(q, u) => InSeq(Append(q, t), u)
  <1>1. Len(q) \in Nat /\ DOMAIN q = 1..Len(q)
    BY LenProperties
  <1>2. /\ Append(q, t) \in Seq(Tasks) /\ Len(Append(q, t)) = Len(q) + 1
        /\ \A i \in 1..Len(q) : Append(q, t)[i] = q[i]
        /\ Append(q, t)[Len(q) + 1] = t
    BY AppendProperties
  <1>3. DOMAIN Append(q, t) = 1..(Len(q) + 1)
    BY <1>2, LenProperties
  <1>4. Len(q) + 1 \in DOMAIN Append(q, t) /\ \A i \in 1..Len(q) : i \in DOMAIN Append(q, t)
    BY <1>1, <1>3
  <1> QED
    BY <1>1, <1>2, <1>4 DEF InSeq

LEMMA TailIn ==
    ASSUME NEW q \in Seq(Tasks), NEW t, InSeq(q, t), Head(q) = t
    PROVE  /\ Tail(q) \in Seq(Tasks)
           /\ \A u : u # t /\ InSeq(q, u) => InSeq(Tail(q), u)
  <1>1. Len(q) \in Nat /\ DOMAIN q = 1..Len(q)
    BY LenProperties
  <1>2. q # <<>>
    <2>1. Len(q) # 0
      BY <1>1 DEF InSeq
    <2>2. Len(<<>>) = 0
      BY EmptySeq
    <2> QED
      BY <2>1, <2>2
  <1>3. /\ Tail(q) \in Seq(Tasks) /\ Len(Tail(q)) = Len(q) - 1
        /\ \A i \in 1..(Len(q) - 1) : Tail(q)[i] = q[i + 1]
    BY <1>2, HeadTailProperties
  <1>4. DOMAIN Tail(q) = 1..(Len(q) - 1)
    BY <1>3, LenProperties
  <1>5. ASSUME NEW u, u # t, InSeq(q, u) PROVE InSeq(Tail(q), u)
    <2>1. PICK i \in 1..Len(q) : q[i] = u
      BY <1>1, <1>5 DEF InSeq
    <2>2. i # 1
      BY <1>5, <2>1
    <2>3. i - 1 \in 1..(Len(q) - 1) /\ (i - 1) + 1 = i
      BY <1>1, <2>2
    <2>4. Tail(q)[i - 1] = u
      BY <1>3, <2>1, <2>3
    <2> QED
      BY <1>4, <2>3, <2>4 DEF InSeq
  <1> QED
    BY <1>3, <1>5

LEMMA PickIn ==
    ASSUME NEW q \in Seq(Tasks), NEW t
    PROVE  LET p == Pick(q, {i \in DOMAIN q : q[i] # t})
           IN  /\ p \in Seq(Tasks)
               /\ \A u : u # t /\ InSeq(q, u) => InSeq(p, u)
  <1> DEFINE kept == {i \in DOMAIN q : q[i] # t}
             n == Cardinality(kept)
             p == Pick(q, kept)
  <1>1. Len(q) \in Nat /\ DOMAIN q = 1..Len(q)
    BY LenProperties
  <1>2. kept \in SUBSET (1..Len(q))
    BY <1>1
  <1>3. n \in 0..Len(q) /\ \E f : Selects(f, q, kept)
    BY <1>1, <1>2, PickIs
  <1>4. PICK f : Selects(f, q, kept)
    BY <1>3
  <1>5. /\ f \in [1..n -> kept]
        /\ \A k \in kept : \E i \in 1..n : f[i] = k
        /\ p = [i \in 1..n |-> q[f[i]]]
    BY <1>4 DEF Selects
  <1>6. ASSUME NEW u, u # t, InSeq(q, u) PROVE \E k \in kept : q[k] = u
    BY <1>6 DEF InSeq
  <1>7. \A k \in kept : k \in 1..Len(q)
    BY <1>2
  <1> HIDE DEF kept, n, p
  <1>8. \A i \in 1..n : q[f[i]] \in Tasks
    BY <1>5, <1>7, ElementOfSeq
  <1>9. p \in [1..n -> Tasks] /\ n \in Nat
    BY <1>1, <1>3, <1>5, <1>8
  <1>10. p \in Seq(Tasks)
    BY <1>9, SeqDef
  <1>11. ASSUME NEW u, u # t, InSeq(q, u) PROVE InSeq(p, u)
    <2>1. PICK k \in kept : q[k] = u
      BY <1>6, <1>11
    <2>2. PICK i \in 1..n : f[i] = k
      BY <1>5
    <2> QED
      BY <2>1, <2>2, <1>5 DEF InSeq
  <1> QED
    BY <1>10, <1>11 DEF p, kept

QueuesInv ==
    /\ Shaped(queue) /\ \A l \in Tasks : queue[l] \in Seq(Tasks)
    /\ \A t \in Tasks : pc[t] = "wait" => InSeq(queue[lock[t]], t)

LEMMA LocksAre ==
    LocksInv <=> /\ Dict(locks, Tasks) /\ holder \in [Tasks -> Tasks \cup {None}]
                 /\ QueuesInv
  BY DEF LocksInv, QueuesInv, InSeq

(* Only what happens to one queue, and to the task that moves, matters.    *)
LEMMA QueuesKeep ==
    ASSUME Base, NEW t \in Tasks, Moves(t), NEW l \in Tasks, NEW q \in Seq(Tasks),
           queue' = [queue EXCEPT ![l] = q],
           \A u : u # t /\ InSeq(queue[l], u) => InSeq(q, u),
           pc'[t] = "wait" => lock'[t] = l /\ InSeq(q, t)
    PROVE  QueuesInv'
  <1>0. QueuesInv /\ TasksInv
    BY LocksAre DEF Base
  <1>1. Alters(queue, queue', l) /\ queue'[l] = q
    BY <1>0, ExceptAlters DEF QueuesInv
  <1>2. Shaped(queue')
    BY <1>1 DEF Alters
  <1>3. \A m \in Tasks : queue'[m] \in Seq(Tasks)
    BY <1>0, <1>1 DEF QueuesInv, Alters
  <1>4. ASSUME NEW u \in Tasks, pc'[u] = "wait" PROVE InSeq(queue'[lock'[u]], u)
    <2>1. CASE u = t
      BY <1>1, <1>4, <2>1
    <2>2. CASE u # t
      <3>1. pc'[u] = pc[u] /\ lock'[u] = lock[u]
        BY <2>2 DEF Moves, Alters
      <3>2. InSeq(queue[lock[u]], u) /\ lock[u] \in Tasks
        BY <1>0, <1>4, <3>1 DEF QueuesInv, TasksInv, Local, TaskOK
      <3>3. CASE lock[u] = l
        BY <1>1, <2>2, <3>1, <3>2, <3>3
      <3>4. CASE lock[u] # l
        <4>1. queue'[lock[u]] = queue[lock[u]]
          BY <1>1, <3>2, <3>4 DEF Alters
        <4> QED
          BY <3>1, <3>2, <4>1
      <3> QED
        BY <3>3, <3>4
    <2> QED
      BY <2>1, <2>2
  <1>5. QueuesInv' <=>
          /\ Shaped(queue') /\ \A m \in Tasks : queue'[m] \in Seq(Tasks)
          /\ \A u \in Tasks : pc'[u] = "wait" => InSeq(queue'[lock'[u]], u)
    BY DEF QueuesInv, Shaped, InSeq
  <1> QED
    BY <1>2, <1>3, <1>4, <1>5

LEMMA SameQueues ==
    ASSUME Base, NEW t \in Tasks, Moves(t), UNCHANGED queue, pc'[t] # "wait"
    PROVE  QueuesInv'
  <1>0. QueuesInv
    BY LocksAre DEF Base
  <1>1. queue[t] \in Seq(Tasks) /\ queue' = [queue EXCEPT ![t] = queue[t]]
    BY <1>0 DEF QueuesInv, Shaped
  <1> QED
    BY <1>1, QueuesKeep

LEMMA OutcomePc ==
    ASSUME Base, NEW t \in Tasks, NEW z, NEW s, NEW jws, NEW l,
           Concludes(t, z, s, jws) \/ Looks(t, z, jws, l, s)
    PROVE  /\ pc'[t] \in {"done", "refresh", "fetch"}
           /\ Concludes(t, z, s, jws) => pc'[t] \in {"done", "refresh"}
  <1>0. Shaped(pc)
    BY DEF Base, TasksInv
  <1>1. \A x : [pc EXCEPT ![t] = x][t] = x
    BY <1>0, ExceptAlters
  <1>2. Ends(t, z, s, jws) => pc'[t] = "done"
    BY <1>1 DEF Ends, Done
  <1>3. Refreshes(t, z) => pc'[t] = "refresh"
    BY <1>1 DEF Refreshes
  <1>4. Fetches(t, z, l) => pc'[t] = "fetch"
    BY <1>1 DEF Fetches
  <1> QED
    BY <1>2, <1>3, <1>4 DEF Looks, Concludes

LEMMA ArriveLocks ==
    ASSUME JwksAssumption, KidAssumption, Base, NEW t \in Tasks, Arrive(t)
    PROVE  LocksInv'
  <1>0. /\ Dict(locks, Tasks) /\ holder \in [Tasks -> Tasks \cup {None}] /\ QueuesInv
        /\ Moves(t)
    BY LocksAre, ArriveMoves DEF Base
  <1>1. PICK z \in Zones, jws \in Signatures :
           Hits(t, z, jws) \/ \E l \in Tasks : Misses(t, z, jws, l)
    BY ArriveDoes
  <1>2. CASE Hits(t, z, jws)
    <2>1. UNCHANGED <<locks, holder, queue>> /\ pc'[t] # "wait"
      BY <1>2, OutcomePc DEF Hits, mutex
    <2>2. QueuesInv'
      BY <1>0, <2>1, SameQueues
    <2>3. Dict(locks', Tasks) /\ holder' \in [Tasks -> Tasks \cup {None}]
      BY <1>0, <2>1
    <2> QED
      BY <2>2, <2>3 DEF LocksInv, QueuesInv, InSeq, Dict, Keyed
  <1>3. ASSUME NEW l \in Tasks, Misses(t, z, jws, l) PROVE LocksInv'
    <2>1. Dict(locks', Tasks)
      <3>1. CASE Has(locks, z)
        BY <1>0, <1>3, <3>1 DEF Misses
      <3>2. CASE ~Has(locks, z)
        <4>1. locks' = Append(Evicted(locks), <<z, l>>)
          BY <1>3, <3>2 DEF Misses
        <4>2. /\ Dict(Evicted(locks), Tasks)
              /\ \A y, v : Entry(Evicted(locks), y, v) => Entry(locks, y, v)
          BY <1>0, EvictedIs
        <4>3. ~Has(Evicted(locks), z)
          BY <1>0, <3>2, <4>2, EntryIs
        <4>4. Dict(Append(Evicted(locks), <<z, l>>), Tasks)
          BY <4>2, <4>3, AppendIs
        <4> QED
          BY <4>1, <4>4
      <3> QED
        BY <3>1, <3>2
    <2>2. CASE Looks(t, z, jws, l, now) /\ UNCHANGED queue
      <3>1. pc'[t] # "wait"
        BY <2>2, OutcomePc
      <3>2. QueuesInv'
        BY <1>0, <2>2, <3>1, SameQueues
      <3>3. holder' \in [Tasks -> Tasks \cup {None}]
        BY <1>0, <2>2 DEF Looks, Fetches
      <3> QED
        BY <2>1, <3>2, <3>3 DEF LocksInv, QueuesInv, InSeq, Dict, Keyed
    <2>3. CASE /\ queue' = [queue EXCEPT ![l] = Append(@, t)]
               /\ pc' = [pc EXCEPT ![t] = "wait"] /\ UNCHANGED holder
      <3> DEFINE q == Append(queue[l], t)
      <3>1. queue[l] \in Seq(Tasks)
        BY <1>0 DEF QueuesInv
      <3>2. /\ q \in Seq(Tasks) /\ InSeq(q, t)
            /\ \A u : InSeq(queue[l], u) => InSeq(q, u)
        BY <3>1, AppendIn
      <3>3. queue' = [queue EXCEPT ![l] = q]
        BY <2>3
      <3>4. lock'[t] = l
        BY <1>3 DEF Misses, Asks
      <3> HIDE DEF q
      <3>5. QueuesInv'
        BY <1>0, <3>2, <3>3, <3>4, QueuesKeep
      <3>6. holder' \in [Tasks -> Tasks \cup {None}]
        BY <1>0, <2>3
      <3> QED
        BY <2>1, <3>5, <3>6 DEF LocksInv, QueuesInv, InSeq, Dict, Keyed
    <2> QED
      BY <1>3, <2>2, <2>3 DEF Misses
  <1> QED
    BY <1>1, <1>2, <1>3

LEMMA ResumeLocks ==
    ASSUME JwksAssumption, KidAssumption, Base, NEW t \in Tasks, Resume(t)
    PROVE  LocksInv'
  <1>0. /\ Dict(locks, Tasks) /\ holder \in [Tasks -> Tasks \cup {None}] /\ QueuesInv
        /\ Moves(t)
    BY LocksAre, ResumeMoves DEF Base
  <1>1. UNCHANGED locks
    BY WakeDoes, FetchDoneDoes, RefreshDoneDoes DEF Resume, mutex
  <1>2. Dict(locks', Tasks)
    BY <1>0, <1>1
  <1>3. CASE Wake(t)
    <2>1. /\ pc[t] = "wait" /\ lock[t] \in Tasks
          /\ Head(queue[lock[t]]) = t
          /\ queue' = [queue EXCEPT ![lock[t]] = Tail(@)]
          /\ Looks(t, zone[t], sig[t], lock[t], since[t])
      BY <1>3, WakeDoes
    <2> DEFINE q == Tail(queue[lock[t]])
    <2>2. queue[lock[t]] \in Seq(Tasks) /\ InSeq(queue[lock[t]], t)
      BY <1>0, <2>1 DEF QueuesInv
    <2>3. /\ q \in Seq(Tasks)
          /\ \A u : u # t /\ InSeq(queue[lock[t]], u) => InSeq(q, u)
      BY <2>1, <2>2, TailIn
    <2>4. queue' = [queue EXCEPT ![lock[t]] = q]
      BY <2>1
    <2>5. pc'[t] # "wait"
      BY <2>1, OutcomePc
    <2> HIDE DEF q
    <2>6. QueuesInv'
      BY <1>0, <2>1, <2>3, <2>4, <2>5, QueuesKeep
    <2>7. holder' \in [Tasks -> Tasks \cup {None}]
      BY <1>0, <2>1 DEF Looks, Fetches
    <2> QED
      BY <1>2, <2>6, <2>7 DEF LocksInv, QueuesInv, InSeq, Dict, Keyed
  <1>4. CASE FetchDone(t)
    <2>1. /\ UNCHANGED queue /\ Concludes(t, zone[t], since[t], sig[t])
          /\ holder' = [holder EXCEPT ![lock[t]] = None]
      BY <1>4, FetchDoneDoes
    <2>2. pc'[t] # "wait"
      BY <2>1, OutcomePc
    <2>3. QueuesInv'
      BY <1>0, <2>1, <2>2, SameQueues
    <2>4. holder' \in [Tasks -> Tasks \cup {None}]
      BY <1>0, <2>1
    <2> QED
      BY <1>2, <2>3, <2>4 DEF LocksInv, QueuesInv, InSeq, Dict, Keyed
  <1>5. CASE RefreshDone(t)
    <2>1. UNCHANGED <<queue, holder>> /\ \E v \in Verdicts : Done(t, v)
      BY <1>5, RefreshDoneDoes DEF mutex
    <2>2. pc'[t] # "wait"
      BY <2>1, ExceptAlters DEF Done, Base, TasksInv
    <2>3. QueuesInv'
      BY <1>0, <2>1, <2>2, SameQueues
    <2>4. holder' \in [Tasks -> Tasks \cup {None}]
      BY <1>0, <2>1
    <2> QED
      BY <1>2, <2>3, <2>4 DEF LocksInv, QueuesInv, InSeq, Dict, Keyed
  <1> QED
    BY <1>3, <1>4, <1>5 DEF Resume

LEMMA CancelLocks ==
    ASSUME JwksAssumption, Base, NEW t \in Tasks, Cancel(t)
    PROVE  LocksInv'
  <1>0. /\ Dict(locks, Tasks) /\ holder \in [Tasks -> Tasks \cup {None}] /\ QueuesInv
        /\ Moves(t)
    BY LocksAre, CancelMoves DEF Base
  <1>1. /\ UNCHANGED locks /\ pc[t] \in {"wait", "fetch", "refresh"}
        /\ Done(t, "not_checked")
        /\ holder' = IF pc[t] = "fetch" THEN [holder EXCEPT ![lock[t]] = None]
                                        ELSE holder
        /\ queue' = IF pc[t] = "wait"
                    THEN [queue EXCEPT ![lock[t]] = Pick(@, {i \in DOMAIN @ : @[i] # t})]
                    ELSE queue
    BY CancelDoes
  <1>2. pc'[t] # "wait"
    BY <1>1, ExceptAlters DEF Done, Base, TasksInv
  <1>3. Dict(locks', Tasks) /\ holder' \in [Tasks -> Tasks \cup {None}]
    BY <1>0, <1>1
  <1>4. CASE pc[t] = "wait"
    <2> DEFINE q == Pick(queue[lock[t]], {i \in DOMAIN queue[lock[t]] :
                                            queue[lock[t]][i] # t})
    <2>1. lock[t] \in Tasks
      BY <1>4 DEF Base, TasksInv, Local, TaskOK
    <2>2. queue[lock[t]] \in Seq(Tasks)
      BY <1>0, <2>1 DEF QueuesInv
    <2>3. /\ q \in Seq(Tasks)
          /\ \A u : u # t /\ InSeq(queue[lock[t]], u) => InSeq(q, u)
      BY <2>2, PickIn
    <2>4. queue' = [queue EXCEPT ![lock[t]] = q]
      BY <1>1, <1>4
    <2> HIDE DEF q
    <2>5. QueuesInv'
      BY <1>0, <1>2, <2>1, <2>3, <2>4, QueuesKeep
    <2> QED
      BY <1>3, <2>5 DEF LocksInv, QueuesInv, InSeq, Dict, Keyed
  <1>5. CASE pc[t] # "wait"
    <2>1. QueuesInv'
      BY <1>0, <1>1, <1>2, <1>5, SameQueues
    <2> QED
      BY <1>3, <2>1 DEF LocksInv, QueuesInv, InSeq, Dict, Keyed
  <1> QED
    BY <1>4, <1>5

-----------------------------------------------------------------------------
(* The clock.                                                              *)

(* What was true of what the zones served stays true as they serve on.     *)
Longer(n, srv, m, tsrv) ==
    /\ n \in Nat /\ m \in Nat /\ n <= m
    /\ \A z \in Zones, i \in 0..n : tsrv[z][i + 1] = srv[z][i + 1]

LEMMA EvGrows ==
    ASSUME NEW n, NEW srv, NEW m, NEW tsrv, Longer(n, srv, m, tsrv),
           NEW z \in Zones, NEW s, NEW ago, NEW doc, Ev(n, srv, z, s, ago, doc)
    PROVE  Ev(m, tsrv, z, s, ago, doc)
  <1>1. PICK i \in 0..n : i + ago >= s /\ doc = srv[z][i + 1]
    BY DEF Ev
  <1>2. i \in 0..m /\ tsrv[z][i + 1] = srv[z][i + 1]
    BY DEF Longer
  <1> QED
    BY <1>1, <1>2 DEF Ev

LEMMA BackedGrows ==
    ASSUME NEW n, NEW srv, NEW m, NEW tsrv, Longer(n, srv, m, tsrv), NEW z \in Zones, NEW e
    PROVE  /\ Backed(n, srv, z, e) => Backed(m, tsrv, z, e)
           /\ DownBacked(n, srv, z, e) => DownBacked(m, tsrv, z, e)
  <1>0. \A i \in 0..n : i \in 0..m /\ tsrv[z][i + 1] = srv[z][i + 1]
    BY DEF Longer
  <1>1. Backed(n, srv, z, e) => Backed(m, tsrv, z, e)
    BY <1>0 DEF Backed
  <1>2. DownBacked(n, srv, z, e) => DownBacked(m, tsrv, z, e)
    BY <1>0 DEF DownBacked
  <1> QED
    BY <1>1, <1>2

LEMMA JustGrows ==
    ASSUME NEW n, NEW srv, NEW m, NEW tsrv, Longer(n, srv, m, tsrv),
           NEW z \in Zones, NEW s, NEW jws, NEW v, Just(n, srv, z, s, jws, v)
    PROVE  Just(m, tsrv, z, s, jws, v)
  <1>1. KeyWasServed(m, tsrv, z, s, jws, v)
    BY EvGrows DEF Just, KeyWasServed
  <1>2. KeyWasMissing(m, tsrv, z, s, jws, v)
    BY EvGrows DEF Just, KeyWasMissing
  <1>3. ForgeryIsInvalid(m, tsrv, z, s, jws, v)
    BY EvGrows DEF Just, ForgeryIsInvalid
  <1>4. KeyWasMissingLately(m, tsrv, z, s, jws, v)
    BY EvGrows DEF Just, KeyWasMissingLately
  <1> QED
    BY <1>1, <1>2, <1>3, <1>4 DEF Just

LEMMA TickDoes ==
    ASSUME JwksAssumption, Base, Tick
    PROVE  /\ now' = now + 1 /\ UNCHANGED <<cancels, tables, mutex, seen, locals, history>>
           /\ ClockInv' /\ Longer(now, served, now', served')
           /\ \A t \in Tasks : pc[t] \in {"fetch", "refresh"} => now - started[t] < FetchTime
  <1>1. /\ now' = now + 1 /\ now < MaxNow
        /\ UNCHANGED <<cancels, tables, mutex, seen, locals, history>>
        /\ \A t \in Tasks : pc[t] \in {"fetch", "refresh"} => now - started[t] < FetchTime
    BY DEF Tick
  <1>2. PICK doc \in [Zones -> Docs] :
         /\ changes' = changes + Cardinality({z \in Zones : doc[z] # Last(served[z])})
         /\ changes' <= MaxChanges
         /\ served' = [z \in Zones |-> Append(served[z], doc[z])]
    BY DEF Tick
  <1>3. /\ now \in Nat /\ MaxNow \in Nat /\ changes \in Nat /\ cancels \in 0..MaxCancels
        /\ \A z \in Zones : served[z] \in Seq(Docs) /\ Len(served[z]) = now + 1
    BY DEF Base, ClockInv, JwksAssumption
  <1>4. ASSUME NEW z \in Zones
        PROVE  /\ served'[z] \in Seq(Docs) /\ Len(served'[z]) = now' + 1
               /\ \A i \in 0..now : served'[z][i + 1] = served[z][i + 1]
    <2>1. served'[z] = Append(served[z], doc[z]) /\ doc[z] \in Docs
      BY <1>2
    <2>2. served[z] \in Seq(Docs) /\ Len(served[z]) = now + 1
      BY <1>3
    <2>3. /\ Append(served[z], doc[z]) \in Seq(Docs)
          /\ Len(Append(served[z], doc[z])) = Len(served[z]) + 1
          /\ \A i \in 1..Len(served[z]) : Append(served[z], doc[z])[i] = served[z][i]
      BY <2>1, <2>2, AppendProperties
    <2>4. \A i \in 0..now : i + 1 \in 1..Len(served[z])
      BY <1>3, <2>2
    <2> QED
      BY <1>1, <2>1, <2>2, <2>3, <2>4
  <1>5. changes' \in 0..MaxChanges
    <2> DEFINE changed == {z \in Zones : doc[z] # Last(served[z])}
    <2>1. IsFiniteSet(Zones) /\ changed \in SUBSET Zones
      BY DEF JwksAssumption
    <2>2. Cardinality(changed) \in Nat
      BY <2>1, FS_Subset, FS_CardinalityType
    <2> HIDE DEF changed
    <2>3. MaxChanges \in Nat
      BY DEF JwksAssumption
    <2> QED
      BY <1>2, <1>3, <2>2, <2>3 DEF changed
  <1>6. now' \in Nat /\ now' <= MaxNow /\ now <= now'
    BY <1>1, <1>3
  <1>7. ClockInv'
    BY <1>1, <1>3, <1>4, <1>5, <1>6 DEF ClockInv
  <1>8. Longer(now, served, now', served')
    BY <1>3, <1>4, <1>6 DEF Longer
  <1> QED
    BY <1>1, <1>7, <1>8

LEMMA TickBase ==
    ASSUME JwksAssumption, Base, Tick
    PROVE  Base'
  <1>1. /\ now' = now + 1 /\ UNCHANGED <<cancels, tables, mutex, seen, locals, history>>
        /\ ClockInv' /\ Longer(now, served, now', served')
        /\ \A t \in Tasks : pc[t] \in {"fetch", "refresh"} => now - started[t] < FetchTime
    BY TickDoes
  <1>2. now \in Nat /\ FetchTime \in Nat
    BY DEF Base, ClockInv, JwksAssumption
  <1>3. TasksInv'
    <2>1. ASSUME NEW t \in Tasks PROVE Local(t)'
      <3>1. Local(t)
        BY DEF Base, TasksInv
      <3>2. pc[t] = "done" =>
              Just(now', served', zone[t], since[t], sig[t], verdict[t])
        BY <1>1, <3>1, JustGrows DEF Local, TaskOK
      <3>3. pc[t] \in {"fetch", "refresh"} =>
              started[t] <= now' /\ now' - started[t] <= FetchTime
        BY <1>1, <1>2, <3>1 DEF Local, TaskOK
      <3>4. pc[t] # "idle" => since[t] <= now'
        BY <1>1, <1>2, <3>1 DEF Local, TaskOK
      <3>5. TaskOK(now', served', pc[t], zone[t], sig[t], lock[t], since[t], started[t],
                   rejected[t], verdict[t])
        BY <3>1, <3>2, <3>3, <3>4 DEF Local, TaskOK
      <3> QED
        BY <1>1, <3>5 DEF Local, locals
    <2> QED
      BY <1>1, <2>1 DEF Base, TasksInv, Shaped, locals
  <1>4. TablesInv'
    <2>1. ASSUME NEW z, NEW e, Entry(cache, z, e) PROVE Backed(now', served', z, e)
      <3>1. z \in Zones
        BY <2>1, DictAt DEF Entry, Base, TablesInv
      <3> QED
        BY <1>1, <2>1, <3>1, BackedGrows DEF Base, TablesInv
    <2>2. ASSUME NEW z, NEW e, Entry(negative, z, e) PROVE DownBacked(now', served', z, e)
      <3>1. z \in Zones
        BY <2>2, DictAt DEF Entry, Base, TablesInv
      <3> QED
        BY <1>1, <2>2, <3>1, BackedGrows DEF Base, TablesInv
    <2>3. ASSUME NEW z, NEW e, Entry(forced, z, e) PROVE e <= now'
      <3>1. Dict(forced, Nat) /\ e <= now
        BY <2>3 DEF Base, TablesInv
      <3>2. e \in Nat
        BY <2>3, <3>1, EntryIs
      <3> QED
        BY <1>1, <1>2, <3>1, <3>2
    <2>4. CacheOK(now', served', cache) /\ NegativeOK(now', served', negative)
          /\ ForcedOK(now', forced) /\ seen \in [Zones -> Docs \cup {None}]
      BY <2>1, <2>2, <2>3 DEF Base, TablesInv, CacheOK, NegativeOK, ForcedOK
    <2>5. UNCHANGED <<cache, negative, forced, seen>>
      BY <1>1 DEF tables
    <2> QED
      BY <2>4, <2>5 DEF TablesInv, CacheOK, NegativeOK, ForcedOK, Dict, Keyed, Entry, Sorted
  <1>5. LocksInv'
    <2>1. UNCHANGED <<locks, holder, queue, pc, lock>>
      BY <1>1 DEF mutex, locals
    <2> QED
      BY <2>1 DEF Base, LocksInv, Dict, Keyed, Shaped
  <1> QED
    BY <1>1, <1>3, <1>4, <1>5 DEF Base

LEMMA TaskBase ==
    ASSUME JwksAssumption, KidAssumption, Base, NEW t \in Tasks,
           Arrive(t) \/ Resume(t) \/ Cancel(t)
    PROVE  Base'
  <1>1. Moves(t)
    BY ArriveMoves, ResumeMoves, CancelMoves
  <1>2. UNCHANGED <<now, served, changes>> /\ cancels' \in 0..MaxCancels
    <2>1. cancels \in 0..MaxCancels
      BY DEF Base, ClockInv
    <2> QED
      BY <2>1, ArriveDoes, WakeDoes, FetchDoneDoes, RefreshDoneDoes, CancelDoes DEF Resume
  <1>3. ClockInv'
    BY <1>2 DEF Base, ClockInv
  <1>4. TasksInv'
    BY <1>1, <1>2, MovesTasks DEF Base
  <1>5. TablesInv'
    <2>1. TablesStep
      BY TaskTables
    <2>2. CacheOK(now', served', cache') /\ NegativeOK(now', served', negative')
          /\ ForcedOK(now', forced') /\ seen' \in [Zones -> Docs \cup {None}]
      BY <1>2, <2>1 DEF TablesStep
    <2> QED
      BY <2>2 DEF TablesInv, CacheOK, NegativeOK, ForcedOK, Dict, Keyed, Entry, Sorted
  <1>6. LocksInv'
    BY ArriveLocks, ResumeLocks, CancelLocks
  <1> QED
    BY <1>3, <1>4, <1>5, <1>6 DEF Base

LEMMA EmptyDict ==
    ASSUME NEW V
    PROVE  /\ Dict(<<>>, V) /\ Len(<<>>) = 0 /\ Sorted(<<>>)
           /\ \A z, v : ~Entry(<<>>, z, v)
  <1>1. <<>> \in Seq(Zones \X V) /\ Len(<<>>) = 0 /\ DOMAIN <<>> = {}
    BY EmptySeq
  <1>2. Keyed(<<>>)
    BY <1>1 DEF Keyed
  <1> QED
    BY <1>1, <1>2 DEF Dict, Sorted, Entry

LEMMA InitBase ==
    ASSUME JwksAssumption, Init
    PROVE  Base
  <1>1. ClockInv
    <2>1. now = 0 /\ changes = 0 /\ cancels = 0
      BY DEF Init
    <2>2. ASSUME NEW z \in Zones PROVE served[z] \in Seq(Docs) /\ Len(served[z]) = 1
      <3>1. PICK doc \in Docs : served[z] = <<doc>>
        BY DEF Init
      <3> QED
        BY <3>1
    <2> QED
      BY <2>1, <2>2 DEF ClockInv, JwksAssumption
  <1>2. TasksInv
    <2>1. /\ Shaped(pc) /\ Shaped(zone) /\ Shaped(sig) /\ Shaped(lock) /\ Shaped(since)
          /\ Shaped(started) /\ Shaped(rejected) /\ Shaped(verdict)
      BY DEF Init, Shaped
    <2>2. ASSUME NEW t \in Tasks PROVE Local(t)
      BY DEF Init, Local, TaskOK, Pcs, Verdicts
    <2> QED
      BY <2>1, <2>2 DEF TasksInv
  <1>3. TablesInv
    <2>1. cache = <<>> /\ negative = <<>> /\ forced = <<>>
      BY DEF Init
    <2>2. seen \in [Zones -> Docs \cup {None}]
      BY DEF Init
    <2>3. TableMax \in Nat /\ 0 <= TableMax
      BY DEF JwksAssumption
    <2> QED
      BY <2>1, <2>2, <2>3, EmptyDict DEF TablesInv
  <1>4. LocksInv
    <2>1. locks = <<>> /\ holder \in [Tasks -> Tasks \cup {None}]
      BY DEF Init
    <2>2. Shaped(queue) /\ \A l \in Tasks : queue[l] \in Seq(Tasks)
      BY EmptySeq DEF Init, Shaped
    <2>3. \A t \in Tasks : pc[t] # "wait"
      BY DEF Init
    <2> QED
      BY <2>1, <2>2, <2>3, EmptyDict DEF LocksInv
  <1> QED
    BY <1>1, <1>2, <1>3, <1>4 DEF Base

LEMMA NextBase ==
    ASSUME JwksAssumption, KidAssumption, Base, [Next]_vars
    PROVE  Base'
  <1>1. CASE \E t \in Tasks : Arrive(t) \/ Resume(t) \/ Cancel(t)
    BY <1>1, TaskBase
  <1>2. CASE Tick
    BY <1>2, TickBase
  <1>3. CASE UNCHANGED vars
    <2>1. /\ UNCHANGED <<now, served, changes, cancels, cache, negative, forced, locks,
                         holder, queue, seen>>
          /\ UNCHANGED <<pc, zone, sig, lock, since, started, rejected, verdict>>
      BY <1>3 DEF vars, tables, mutex, locals
    <2>2. ClockInv' /\ TasksInv'
      BY <2>1 DEF Base, ClockInv, TasksInv, Shaped, Local
    <2>3. TablesInv'
      BY <2>1 DEF Base, TablesInv, Dict, Keyed, Entry, Sorted
    <2>4. LocksInv'
      BY <2>1 DEF Base, LocksInv, Dict, Keyed, Shaped
    <2> QED
      BY <2>2, <2>3, <2>4 DEF Base
  <1> QED
    BY <1>1, <1>2, <1>3 DEF Next, Rest

-----------------------------------------------------------------------------
(* What follows for the properties.                                        *)

LEMMA BaseTypes ==
    ASSUME JwksAssumption, Base
    PROVE  TypeOK
  <1>1. /\ now \in 0..MaxNow /\ changes \in 0..MaxChanges /\ cancels \in 0..MaxCancels
        /\ \A z \in Zones : served[z] \in Seq(Docs) /\ Len(served[z]) = now + 1
    BY DEF Base, ClockInv, JwksAssumption
  <1>2. /\ Keyed(cache) /\ Keyed(negative) /\ Keyed(forced) /\ Keyed(locks)
        /\ Len(cache) <= TableMax /\ Len(negative) <= TableMax /\ Len(forced) <= TableMax
        /\ seen \in [Zones -> Docs \cup {None}]
    BY DEF Base, TablesInv, LocksInv, Dict
  <1>3. \A e \in ToSet(cache) : e[2].doc \in Docs \ {Down}
    <2>1. Dict(cache, Cached)
      BY DEF Base, TablesInv
    <2>2. DOMAIN cache = 1..Len(cache) /\ \A i \in 1..Len(cache) : cache[i][2] \in Cached
      BY <2>1, DictAt
    <2>3. \A c \in Cached : c.doc \in Docs \ {Down}
      BY DEF Cached
    <2> QED
      BY <2>2, <2>3 DEF ToSet
  <1>4. /\ holder \in [Tasks -> Tasks \cup {None}]
        /\ \A t \in Tasks : queue[t] \in Seq(Tasks)
    BY DEF Base, LocksInv
  <1>5. \A t \in Tasks : /\ pc[t] \in {"idle", "wait", "fetch", "refresh", "done"}
                         /\ lock[t] \in Tasks \cup {None}
                         /\ rejected[t] \in BOOLEAN /\ verdict[t] \in Verdicts
                         /\ pc[t] = "done" <=> verdict[t] # "none"
    BY DEF Base, TasksInv, Local, TaskOK, Pcs
  <1>6. /\ Shaped(pc) /\ Shaped(lock) /\ Shaped(rejected) /\ Shaped(verdict)
    BY DEF Base, TasksInv
  <1>7. pc \in [Tasks -> {"idle", "wait", "fetch", "refresh", "done"}]
    BY <1>5, <1>6 DEF Shaped
  <1>8. lock \in [Tasks -> Tasks \cup {None}]
    BY <1>5, <1>6 DEF Shaped
  <1>9. rejected \in [Tasks -> BOOLEAN]
    <2>1. \A t \in Tasks : rejected[t] \in BOOLEAN
      BY <1>5
    <2>2. rejected = [t \in Tasks |-> rejected[t]]
      BY <1>6 DEF Shaped
    <2> QED
      BY ONLY <2>1, <2>2, Zenon
  <1>10. verdict \in [Tasks -> Verdicts]
    BY <1>5, <1>6 DEF Shaped
  <1> QED
    BY <1>1, <1>2, <1>3, <1>4, <1>5, <1>7, <1>8, <1>9, <1>10 DEF TypeOK

LEMMA SinceIs ==
    ASSUME NEW t \in Tasks, NEW ago, NEW doc
    PROVE  doc \in ServedSince(t, ago) <=> Ev(now, served, zone[t], since[t], ago, doc)
  BY DEF ServedSince, Ev

LEMMA BaseVerdicts ==
    ASSUME JwksAssumption, Base
    PROVE  VerifiedByAServedKey /\ VerdictsAreRight /\ OutageIsShort
  <1>1. ASSUME NEW t \in Tasks, pc[t] = "done"
        PROVE  Just(now, served, zone[t], since[t], sig[t], verdict[t])
    BY <1>1 DEF Base, TasksInv, Local, TaskOK
  <1>2. ASSUME NEW t \in Tasks, verdict[t] # "none" PROVE pc[t] = "done"
    BY <1>2 DEF Base, TasksInv, Local, TaskOK
  <1>3. VerifiedByAServedKey
    <2>1. ASSUME NEW t \in Tasks, verdict[t] \in {"verified", "expired"}
          PROVE  \E doc \in ServedSince(t, TTL + FetchTime) :
                     IsJwks(doc) /\ sig[t].signer \in doc
      <3>1. KeyWasServed(now, served, zone[t], since[t], sig[t], verdict[t])
        BY <1>1, <1>2, <2>1 DEF Just
      <3> QED
        BY <2>1, <3>1, SinceIs DEF KeyWasServed
    <2> QED
      BY <2>1 DEF VerifiedByAServedKey
  <1>4. ServedKeyIsFound
    <2>1. ASSUME NEW t \in Tasks, Genuine(t), verdict[t] \in {"no_key", "invalid"}
          PROVE  \E doc \in ServedSince(t, TTL + FetchTime) :
                     ~IsJwks(doc) \/ sig[t].signer \notin doc
      <3>1. KeyWasMissing(now, served, zone[t], since[t], sig[t], verdict[t])
        BY <1>1, <2>1 DEF Just, Genuine
      <3> QED
        BY <2>1, <3>1, SinceIs DEF KeyWasMissing, Genuine
    <2> QED
      BY <2>1 DEF ServedKeyIsFound
  <1>5. ForgeryIsNotUnknown
    <2>1. ASSUME NEW t \in Tasks, pc[t] = "done", sig[t].signer = Forger
          PROVE  \/ verdict[t] \in {"invalid", "not_checked"}
                 \/ /\ verdict[t] = "no_key"
                    /\ \E doc \in ServedSince(t, TTL + FetchTime) : ~IsJwks(doc) \/ doc = {}
      <3>1. ForgeryIsInvalid(now, served, zone[t], since[t], sig[t], verdict[t])
        BY <1>1, <2>1 DEF Just
      <3> QED
        BY <2>1, <3>1, SinceIs DEF ForgeryIsInvalid
    <2> QED
      BY <2>1 DEF ForgeryIsNotUnknown
  <1>6. OutageIsShort
    <2>1. ASSUME NEW t \in Tasks, Genuine(t), verdict[t] = "no_key"
          PROVE  \/ \E doc \in ServedSince(t, NegativeTTL + FetchTime) :
                        ~IsJwks(doc) \/ sig[t].signer \notin doc
                 \/ \E doc \in ServedSince(t, TTL + FetchTime) : doc = NotAJwks
                 \/ \E doc \in ServedSince(t, MaxNow) :
                        IsJwks(doc) /\ sig[t].signer \notin doc
      <3>1. KeyWasMissingLately(now, served, zone[t], since[t], sig[t], verdict[t])
        BY <1>1, <2>1 DEF Just, Genuine
      <3> QED
        BY <2>1, <3>1, SinceIs DEF KeyWasMissingLately, Genuine
    <2> QED
      BY <2>1 DEF OutageIsShort
  <1> QED
    BY <1>3, <1>4, <1>5, <1>6 DEF VerdictsAreRight

THEOREM BaseHolds == Spec => []Base
  <1>1. Init => Base
    BY InitBase, JwksAssumption
  <1>2. Base /\ [Next]_vars => Base'
    BY NextBase, JwksAssumption, KidAssumption
  <1> QED
    BY <1>1, <1>2, PTL DEF Spec

(* The tables stay within their bound and hold one entry of a zone, and a  *)
(* task has a verdict exactly when it has ended.                           *)
THEOREM JwksTypes == Spec => []TypeOK
  <1>1. Base => TypeOK
    BY BaseTypes, JwksAssumption
  <1> QED
    BY <1>1, BaseHolds, PTL

(* A key the zone has retired for longer than a cache window and a fetch   *)
(* no longer verifies.                                                     *)
THEOREM RetiredKeysAreForgotten == Spec => []VerifiedByAServedKey
  <1>1. Base => VerifiedByAServedKey
    BY BaseVerdicts, JwksAssumption
  <1> QED
    BY <1>1, BaseHolds, PTL

(* Neither a genuine nor a forged signature gets the verdict of the other. *)
THEOREM NoVerdictIsSwapped == Spec => []VerdictsAreRight
  <1>1. Base => VerdictsAreRight
    BY BaseVerdicts, JwksAssumption
  <1> QED
    BY <1>1, BaseHolds, PTL

(* A failed fetch is forgotten after the negative window.                  *)
THEOREM OutagesAreForgotten == Spec => []OutageIsShort
  <1>1. Base => OutageIsShort
    BY BaseVerdicts, JwksAssumption
  <1> QED
    BY <1>1, BaseHolds, PTL

-----------------------------------------------------------------------------
(* Fetches are few, while there are no more zones than a table has places. *)

RoomForAll == Cardinality(Zones) <= TableMax

(* A task that waits or fetches does so under the lock its zone has in the *)
(* table; a fetching task holds it, and no failure of the zone is          *)
(* remembered meanwhile.                                                   *)
FlightOK(d, neg, h, p, z, l, t) ==
    /\ p \in {"wait", "fetch"} => Entry(d, z, l)
    /\ p = "fetch" => h[l] = t /\ ~Has(neg, z)

(* A failure or a forced refetch is remembered until its window has passed.*)
FailureOK(n, neg, z, at) ==
    at = None \/ (at \in Nat /\ (n >= at + NegativeTTL \/ Entry(neg, z, at + NegativeTTL)))
RefreshOK(n, d, z, at) ==
    at = None \/ (at \in Nat /\ (n >= at + TTL \/ Entry(d, z, at)))

FlightInv ==
    /\ \A t \in Tasks : FlightOK(locks, negative, holder, pc[t], zone[t], lock[t], t)
    /\ failedAt = [z \in Zones |-> failedAt[z]]
    /\ refreshedAt = [z \in Zones |-> refreshedAt[z]]
    /\ \A z \in Zones : FailureOK(now, negative, z, failedAt[z])
    /\ \A z \in Zones : RefreshOK(now, forced, z, refreshedAt[z])

(* One task at a time fetches for a zone.                                  *)
LEMMA OneFlight ==
    ASSUME JwksAssumption, Base, FlightInv, NEW t \in Tasks, NEW u \in Tasks,
           pc[t] = "fetch", pc[u] \in {"wait", "fetch"}, zone[u] = zone[t]
    PROVE  lock[u] = lock[t] /\ (pc[u] = "fetch" => u = t)
  <1>1. Entry(locks, zone[t], lock[t]) /\ Entry(locks, zone[t], lock[u])
    BY DEF FlightInv, FlightOK
  <1>2. Dict(locks, Tasks)
    BY DEF Base, LocksInv
  <1>3. lock[u] = lock[t]
    BY <1>1, <1>2, EntryIs
  <1>4. holder[lock[t]] = t /\ (pc[u] = "fetch" => holder[lock[u]] = u)
    BY DEF FlightInv, FlightOK
  <1> QED
    BY <1>3, <1>4

(* The forced refetch a task may start is due, and the table remembers it. *)
LEMMA RefreshIsKept ==
    ASSUME JwksAssumption, RoomForAll, Base, FlightInv, NEW z \in Zones, NEW t \in Tasks,
           Refreshes(t, z)
    PROVE  /\ refreshedAt[z] = None \/ now - refreshedAt[z] >= TTL
           /\ refreshedAt' = [y \in Zones |-> refreshedAt'[y]]
           /\ \A y \in Zones : RefreshOK(now, forced', y, refreshedAt'[y])
  <1>0. /\ now \in Nat /\ Dict(forced, Nat) /\ Len(forced) <= TableMax
        /\ Sorted(forced) /\ \A y, w : Entry(forced, y, w) => w <= now
    BY DEF Base, ClockInv, TablesInv
  <1>t. TTL \in Nat
    BY DEF JwksAssumption
  <1>1. Has(forced, z) => now - Get(forced, z) >= TTL
    BY DEF Refreshes, BudgetLeft
  <1>2. refreshedAt[z] = None \/ now - refreshedAt[z] >= TTL
    <2>1. RefreshOK(now, forced, z, refreshedAt[z])
      BY DEF FlightInv
    <2>2. CASE Entry(forced, z, refreshedAt[z])
      BY <1>0, <1>1, <2>2, EntryIs
    <2>3. CASE refreshedAt[z] \in Nat /\ now >= refreshedAt[z] + TTL
      BY <1>0, <1>t, <2>3
    <2> QED
      BY <2>1, <2>2, <2>3 DEF RefreshOK
  <1>3. /\ forced' = Stamped(z) /\ refreshedAt' = [refreshedAt EXCEPT ![z] = now]
        /\ refreshedAt = [y \in Zones |-> refreshedAt[y]]
    BY DEF Refreshes, FlightInv
  <1>4. refreshedAt' = [y \in Zones |-> refreshedAt'[y]] /\ refreshedAt'[z] = now
        /\ \A y \in Zones \ {z} : refreshedAt'[y] = refreshedAt[y]
    BY <1>3
  <1>5. /\ Entry(Stamped(z), z, now)
        /\ \A y, w : Entry(forced, y, w) /\ y # z =>
             \/ Entry(Stamped(z), y, w)
             \/ Len(forced) >= TableMax /\ forced[1] = <<y, w>>
    BY <1>0, StampedIs
  <1>6. RefreshOK(now, forced', z, refreshedAt'[z])
    BY <1>0, <1>3, <1>4, <1>5 DEF RefreshOK
  <1>7. ASSUME NEW y \in Zones, y # z, NEW w, Len(forced) >= TableMax,
               forced[1] = <<y, w>>
        PROVE  w \in Nat /\ now - w >= TTL
    <2>1. /\ Len(forced) \in Nat /\ DOMAIN forced = 1..Len(forced)
          /\ \A i \in 1..Len(forced) : forced[i][2] \in Nat
      BY <1>0, DictAt
    <2>2. Has(forced, z)
      <3>1. ~Has(forced, z) => Len(forced) < Cardinality(Zones)
        BY <1>0, MissingIsShort
      <3>2. Cardinality(Zones) \in Nat /\ TableMax \in Nat
        BY FS_CardinalityType DEF JwksAssumption
      <3> QED
        BY <1>7, <2>1, <3>1, <3>2 DEF RoomForAll
    <2>3. PICK i \in 1..Len(forced) : forced[i][1] = z
      BY <1>0, <2>2, HasIs
    <2>4. Get(forced, z) = forced[i][2]
      BY <1>0, <2>3, HasIs
    <2>5. forced[1][1] = y /\ forced[1][2] = w /\ 1 \in 1..Len(forced)
      BY <1>7, <2>1, <2>3
    <2>6. w <= forced[i][2]
      BY <1>0, <1>7, <2>1, <2>3, <2>5 DEF Sorted
    <2>7. now - forced[i][2] >= TTL
      BY <1>1, <2>2, <2>4
    <2> QED
      BY <1>0, <1>t, <2>1, <2>5, <2>6, <2>7
  <1>8. ASSUME NEW y \in Zones PROVE RefreshOK(now, forced', y, refreshedAt'[y])
    <2>1. CASE y = z
      BY <1>6, <2>1
    <2>2. CASE y # z
      <3>1. RefreshOK(now, forced, y, refreshedAt[y]) /\ refreshedAt'[y] = refreshedAt[y]
        BY <1>4, <2>2 DEF FlightInv
      <3>2. CASE Entry(forced, y, refreshedAt[y])
        <4>1. CASE Entry(Stamped(z), y, refreshedAt[y])
          BY <1>3, <3>1, <4>1 DEF RefreshOK
        <4>2. CASE Len(forced) >= TableMax /\ forced[1] = <<y, refreshedAt[y]>>
          <5>1. refreshedAt[y] \in Nat /\ now - refreshedAt[y] >= TTL
            BY <1>7, <2>2, <4>2
          <5>2. now >= refreshedAt[y] + TTL
            BY <1>0, <1>t, <5>1
          <5> QED
            BY <3>1, <5>1, <5>2 DEF RefreshOK
        <4> QED
          BY <1>5, <2>2, <3>2, <4>1, <4>2
      <3>3. CASE ~Entry(forced, y, refreshedAt[y])
        BY <3>1, <3>3 DEF RefreshOK
      <3> QED
        BY <3>2, <3>3
    <2> QED
      BY <2>1, <2>2
  <1> QED
    BY <1>2, <1>4, <1>8

LEMMA ConcludesBudget ==
    ASSUME JwksAssumption, RoomForAll, Base, FlightInv, NEW z \in Zones, NEW t \in Tasks,
           NEW s, NEW jws, Concludes(t, z, s, jws)
    PROVE  /\ pc'[t] = "refresh" => refreshedAt[z] = None \/ now - refreshedAt[z] >= TTL
           /\ refreshedAt' = [y \in Zones |-> refreshedAt'[y]]
           /\ \A y \in Zones : RefreshOK(now, forced', y, refreshedAt'[y])
  <1>1. CASE Ends(t, z, s, jws)
    <2>1. UNCHANGED <<forced, refreshedAt>>
      BY <1>1 DEF Ends
    <2>2. pc'[t] = "done"
      <3>1. Shaped(pc)
        BY DEF Base, TasksInv
      <3>2. \A x : [pc EXCEPT ![t] = x][t] = x
        BY <3>1, ExceptAlters
      <3> QED
        BY <1>1, <3>2 DEF Ends, Done
    <2> QED
      BY <2>1, <2>2 DEF FlightInv
  <1>2. CASE Refreshes(t, z)
    BY <1>2, RefreshIsKept
  <1> QED
    BY <1>1, <1>2 DEF Concludes

(* A fetch a task may start is due; what it forgets had lapsed.            *)
LEMMA FetchesBudget ==
    ASSUME JwksAssumption, Base, FlightInv, NEW z \in Zones, NEW t \in Tasks, NEW l,
           Fetches(t, z, l)
    PROVE  /\ failedAt[z] = None \/ now - failedAt[z] >= NegativeTTL
           /\ ~Has(negative', z)
           /\ \A y : Has(negative', y) => Has(negative, y)
           /\ \A y \in Zones : FailureOK(now, negative', y, failedAt[y])
  <1>0. now \in Nat /\ Dict(negative, Nat) /\ NegativeTTL \in Nat
    BY DEF Base, ClockInv, TablesInv, JwksAssumption
  <1>1. negative' = Without(negative, z) /\ ~Suppressed(z)
    BY DEF Fetches
  <1>2. /\ Dict(Without(negative, z), Nat)
        /\ \A y, v : Entry(Without(negative, z), y, v) <=> Entry(negative, y, v) /\ y # z
        /\ ~Has(Without(negative, z), z)
    BY <1>0, WithoutIs
  <1>3. \A v : Entry(negative, z, v) => v \in Nat /\ now >= v
    BY <1>0, <1>1, EntryIs DEF Suppressed
  <1>4. failedAt[z] = None \/ (failedAt[z] \in Nat /\ now >= failedAt[z] + NegativeTTL)
    BY <1>3 DEF FlightInv, FailureOK
  <1>5. failedAt[z] = None \/ now - failedAt[z] >= NegativeTTL
    BY <1>0, <1>4
  <1>6. ASSUME NEW y, Has(negative', y) PROVE Has(negative, y)
    BY <1>0, <1>1, <1>2, <1>6, EntryIs
  <1>7. ASSUME NEW y \in Zones PROVE FailureOK(now, negative', y, failedAt[y])
    <2>1. CASE y = z
      BY <1>4, <2>1 DEF FailureOK
    <2>2. CASE y # z
      BY <1>1, <1>2, <2>2 DEF FlightInv, FailureOK
    <2> QED
      BY <2>1, <2>2
  <1> QED
    BY <1>1, <1>2, <1>5, <1>6, <1>7

Due(t) == RefreshIsDue(t) /\ FetchIsDue(t)

LEMMA FlightIs ==
    FlightInv' <=>
      /\ \A t \in Tasks : FlightOK(locks', negative', holder', pc'[t], zone'[t], lock'[t], t)
      /\ failedAt' = [z \in Zones |-> failedAt'[z]]
      /\ refreshedAt' = [z \in Zones |-> refreshedAt'[z]]
      /\ \A z \in Zones : FailureOK(now', negative', z, failedAt'[z])
      /\ \A z \in Zones : RefreshOK(now', forced', z, refreshedAt'[z])
  BY DEF FlightInv

(* The others keep their flights as long as their entries, their locks and *)
(* the absence of a failure are left alone.                                *)
LEMMA OthersFly ==
    ASSUME Base, FlightInv, NEW t \in Tasks, Moves(t),
           \A z, l : Entry(locks, z, l) => Entry(locks', z, l),
           \A u \in Tasks \ {t} : pc[u] = "fetch" =>
              /\ holder'[lock[u]] = holder[lock[u]]
              /\ Has(negative', zone[u]) => Has(negative, zone[u]),
           FlightOK(locks', negative', holder', pc'[t], zone'[t], lock'[t], t)
    PROVE  \A u \in Tasks :
              FlightOK(locks', negative', holder', pc'[u], zone'[u], lock'[u], u)
  <1>1. ASSUME NEW u \in Tasks \ {t}
        PROVE  FlightOK(locks', negative', holder', pc'[u], zone'[u], lock'[u], u)
    <2>1. pc'[u] = pc[u] /\ zone'[u] = zone[u] /\ lock'[u] = lock[u]
      BY DEF Moves, Alters
    <2>2. FlightOK(locks, negative, holder, pc[u], zone[u], lock[u], u)
      BY DEF FlightInv
    <2> QED
      BY <2>1, <2>2 DEF FlightOK
  <1> QED
    BY <1>1

(* What happens under a free lock.                                         *)
LEMMA LooksFlight ==
    ASSUME JwksAssumption, RoomForAll, Base, FlightInv, NEW t \in Tasks, Moves(t),
           NEW z \in Zones, NEW jws, NEW s, NEW l \in Tasks, Looks(t, z, jws, l, s),
           holder[l] = None, zone'[t] = z, lock'[t] = l, Entry(locks', z, l),
           \A y, m : Entry(locks, y, m) => Entry(locks', y, m),
           pc[t] \notin {"fetch", "refresh"}, UNCHANGED <<now, failedAt>>
    PROVE  FlightInv' /\ Due(t)
  <1>1. CASE Concludes(t, z, s, jws) /\ UNCHANGED <<negative, holder>>
    <2>1. pc'[t] \in {"done", "refresh"}
      BY <1>1, OutcomePc
    <2>2. FlightOK(locks', negative', holder', pc'[t], zone'[t], lock'[t], t)
      BY <2>1 DEF FlightOK
    <2>3. \A u \in Tasks :
              FlightOK(locks', negative', holder', pc'[u], zone'[u], lock'[u], u)
      BY <1>1, <2>2, OthersFly
    <2>4. /\ pc'[t] = "refresh" => refreshedAt[z] = None \/ now - refreshedAt[z] >= TTL
          /\ refreshedAt' = [y \in Zones |-> refreshedAt'[y]]
          /\ \A y \in Zones : RefreshOK(now, forced', y, refreshedAt'[y])
      BY <1>1, ConcludesBudget
    <2>5. FlightInv'
      BY <1>1, <2>3, <2>4, FlightIs DEF FlightInv
    <2> QED
      BY <2>1, <2>4, <2>5 DEF Due, RefreshIsDue, FetchIsDue
  <1>2. CASE Fetches(t, z, l)
    <2>1. pc'[t] = "fetch" /\ holder' = [holder EXCEPT ![l] = t]
      BY <1>2, ExceptAlters DEF Fetches, Base, TasksInv
    <2>2. holder \in [Tasks -> Tasks \cup {None}] /\ None \notin Tasks
      BY DEF Base, LocksInv, JwksAssumption
    <2>3. /\ failedAt[z] = None \/ now - failedAt[z] >= NegativeTTL
          /\ ~Has(negative', z)
          /\ \A y : Has(negative', y) => Has(negative, y)
          /\ \A y \in Zones : FailureOK(now, negative', y, failedAt[y])
      BY <1>2, FetchesBudget
    <2>4. FlightOK(locks', negative', holder', pc'[t], zone'[t], lock'[t], t)
      BY <2>1, <2>2, <2>3 DEF FlightOK
    <2>5. ASSUME NEW u \in Tasks \ {t}, pc[u] = "fetch"
          PROVE  holder'[lock[u]] = holder[lock[u]]
      <3>1. holder[lock[u]] = u
        BY <2>5 DEF FlightInv, FlightOK
      <3>2. lock[u] # l
        BY <2>2, <3>1
      <3> QED
        BY <2>1, <2>2, <3>2
    <2>6. \A u \in Tasks :
              FlightOK(locks', negative', holder', pc'[u], zone'[u], lock'[u], u)
      BY <2>3, <2>4, <2>5, OthersFly
    <2>7. UNCHANGED <<forced, refreshedAt>>
      BY <1>2 DEF Fetches
    <2>8. FlightInv'
      BY <2>3, <2>6, <2>7, FlightIs DEF FlightInv
    <2> QED
      BY <2>1, <2>3, <2>8 DEF Due, RefreshIsDue, FetchIsDue
  <1> QED
    BY <1>1, <1>2 DEF Looks

LEMMA ArriveFlight ==
    ASSUME JwksAssumption, KidAssumption, RoomForAll, Base, FlightInv, NEW t \in Tasks,
           Arrive(t)
    PROVE  FlightInv' /\ Due(t)
  <1>0. /\ UNCHANGED <<now, failedAt>> /\ pc[t] = "idle" /\ Moves(t)
        /\ Dict(locks, Tasks) /\ Shaped(pc)
    BY ArriveDoes, ArriveMoves DEF Base, LocksInv, TasksInv
  <1>1. PICK z \in Zones, jws \in Signatures :
           Hits(t, z, jws) \/ \E l \in Tasks : Misses(t, z, jws, l)
    BY ArriveDoes
  <1>2. CASE Hits(t, z, jws)
    <2>1. /\ Concludes(t, z, now, jws) /\ UNCHANGED <<negative, locks, holder>>
          /\ zone'[t] = z
      BY <1>2 DEF Hits, Asks, mutex
    <2>2. pc'[t] \in {"done", "refresh"}
      BY <2>1, OutcomePc
    <2>3. FlightOK(locks', negative', holder', pc'[t], zone'[t], lock'[t], t)
      BY <2>2 DEF FlightOK
    <2>4. \A u \in Tasks :
              FlightOK(locks', negative', holder', pc'[u], zone'[u], lock'[u], u)
      BY <1>0, <2>1, <2>3, OthersFly
    <2>5. /\ pc'[t] = "refresh" => refreshedAt[z] = None \/ now - refreshedAt[z] >= TTL
          /\ refreshedAt' = [y \in Zones |-> refreshedAt'[y]]
          /\ \A y \in Zones : RefreshOK(now, forced', y, refreshedAt'[y])
      BY <2>1, ConcludesBudget
    <2>6. FlightInv'
      BY <1>0, <2>1, <2>4, <2>5, FlightIs DEF FlightInv
    <2> QED
      BY <2>1, <2>2, <2>5, <2>6 DEF Due, RefreshIsDue, FetchIsDue
  <1>3. ASSUME NEW l \in Tasks, Misses(t, z, jws, l) PROVE FlightInv' /\ Due(t)
    <2>1. /\ zone'[t] = z /\ lock'[t] = l
          /\ locks' = IF Has(locks, z) THEN locks ELSE Append(Evicted(locks), <<z, l>>)
          /\ Has(locks, z) => l = Get(locks, z)
      BY <1>3 DEF Misses, Asks
    <2>2. Entry(locks', z, l) /\ \A y, m : Entry(locks, y, m) => Entry(locks', y, m)
      <3>1. CASE Has(locks, z)
        BY <1>0, <2>1, <3>1, EntryIs
      <3>2. CASE ~Has(locks, z)
        <4>1. Len(locks) < Cardinality(Zones) /\ Len(locks) \in Nat
          BY <1>0, <3>2, MissingIsShort, DictAt
        <4>2. Cardinality(Zones) \in Nat /\ TableMax \in Nat
          BY FS_CardinalityType DEF JwksAssumption
        <4>3. Len(locks) < TableMax
          BY <4>1, <4>2 DEF RoomForAll
        <4>4. locks' = Append(locks, <<z, l>>)
          BY <1>0, <2>1, <3>2, <4>3, EvictedIs
        <4> QED
          BY <1>0, <3>2, <4>4, AppendIs
      <3> QED
        BY <3>1, <3>2
    <2>3. CASE holder[l] = None /\ Looks(t, z, jws, l, now)
      BY <1>0, <2>1, <2>2, <2>3, LooksFlight
    <2>4. CASE /\ pc' = [pc EXCEPT ![t] = "wait"]
               /\ UNCHANGED <<negative, forced, holder, refreshedAt>>
      <3>1. pc'[t] = "wait"
        BY <1>0, <2>4, ExceptAlters
      <3>2. FlightOK(locks', negative', holder', pc'[t], zone'[t], lock'[t], t)
        BY <2>1, <2>2, <3>1 DEF FlightOK
      <3>3. \A u \in Tasks :
                FlightOK(locks', negative', holder', pc'[u], zone'[u], lock'[u], u)
        BY <1>0, <2>2, <2>4, <3>2, OthersFly
      <3>4. FlightInv'
        BY <1>0, <2>4, <3>3, FlightIs DEF FlightInv
      <3> QED
        BY <3>1, <3>4 DEF Due, RefreshIsDue, FetchIsDue
    <2> QED
      BY <1>3, <2>3, <2>4 DEF Misses
  <1> QED
    BY <1>1, <1>2, <1>3

LEMMA WakeFlight ==
    ASSUME JwksAssumption, KidAssumption, RoomForAll, Base, FlightInv, NEW t \in Tasks,
           Wake(t)
    PROVE  FlightInv' /\ Due(t)
  <1>1. /\ UNCHANGED <<now, locks, zone, lock, failedAt>>
        /\ pc[t] = "wait" /\ lock[t] \in Tasks /\ holder[lock[t]] = None
        /\ Looks(t, zone[t], sig[t], lock[t], since[t])
    BY WakeDoes
  <1>2. Moves(t)
    BY ResumeMoves DEF Resume
  <1>3. zone[t] \in Zones
    BY <1>1 DEF Base, TasksInv, Local, TaskOK
  <1>4. Entry(locks, zone[t], lock[t])
    BY <1>1 DEF FlightInv, FlightOK
  <1> QED
    BY <1>1, <1>2, <1>3, <1>4, LooksFlight

(* A task that fetches gives its lock up: the locks of others are others.  *)
LEMMA OthersHold ==
    ASSUME JwksAssumption, Base, FlightInv, NEW t \in Tasks, pc[t] = "fetch",
           holder' = [holder EXCEPT ![lock[t]] = None],
           NEW u \in Tasks \ {t}, pc[u] = "fetch"
    PROVE  holder'[lock[u]] = holder[lock[u]] /\ zone[u] # zone[t]
  <1>1. holder[lock[t]] = t /\ holder[lock[u]] = u
    BY DEF FlightInv, FlightOK
  <1>2. lock[t] \in Tasks /\ lock[u] \in Tasks /\ holder \in [Tasks -> Tasks \cup {None}]
    BY DEF Base, TasksInv, LocksInv, Local, TaskOK
  <1>3. lock[u] # lock[t]
    BY <1>1
  <1>4. zone[u] # zone[t]
    BY OneFlight
  <1> QED
    BY <1>2, <1>3, <1>4

LEMMA FetchDoneFlight ==
    ASSUME JwksAssumption, KidAssumption, RoomForAll, Base, FlightInv, NEW t \in Tasks,
           FetchDone(t)
    PROVE  FlightInv' /\ Due(t)
  <1> DEFINE z == zone[t]
  <1>1. /\ UNCHANGED <<now, locks, zone, lock>> /\ pc[t] = "fetch"
        /\ holder' = [holder EXCEPT ![lock[t]] = None]
        /\ Concludes(t, z, since[t], sig[t])
        /\ \/ /\ negative' = Store(negative, z, now + NegativeTTL)
              /\ failedAt' = [failedAt EXCEPT ![z] = now]
           \/ UNCHANGED <<negative, failedAt>>
    BY FetchDoneDoes
  <1>2. Moves(t)
    BY ResumeMoves DEF Resume
  <1>3. /\ z \in Zones /\ now \in Nat /\ NegativeTTL \in Nat /\ now + NegativeTTL \in Nat
        /\ Dict(negative, Nat) /\ Len(negative) <= TableMax /\ ~Has(negative, z)
    <2>1. z \in Zones
      BY <1>1 DEF Base, TasksInv, Local, TaskOK
    <2>2. /\ now \in Nat /\ NegativeTTL \in Nat
          /\ Dict(negative, Nat) /\ Len(negative) <= TableMax
      BY DEF Base, ClockInv, TablesInv, JwksAssumption
    <2>3. ~Has(negative, z)
      BY <1>1 DEF FlightInv, FlightOK
    <2> QED
      BY <2>1, <2>2, <2>3
  <1>4. pc'[t] \in {"done", "refresh"}
    BY <1>1, OutcomePc
  <1>5. /\ pc'[t] = "refresh" => refreshedAt[z] = None \/ now - refreshedAt[z] >= TTL
        /\ refreshedAt' = [y \in Zones |-> refreshedAt'[y]]
        /\ \A y \in Zones : RefreshOK(now, forced', y, refreshedAt'[y])
    BY <1>1, <1>3, ConcludesBudget
  <1>6. /\ \A u \in Tasks \ {t} : pc[u] = "fetch" =>
              (Has(negative', zone[u]) => Has(negative, zone[u]))
        /\ failedAt' = [y \in Zones |-> failedAt'[y]]
        /\ \A y \in Zones : FailureOK(now, negative', y, failedAt'[y])
    <2>1. CASE /\ negative' = Store(negative, z, now + NegativeTTL)
               /\ failedAt' = [failedAt EXCEPT ![z] = now]
      <3>1. Len(negative) < TableMax
        <4>1. Len(negative) < Cardinality(Zones) /\ Len(negative) \in Nat
          BY <1>3, MissingIsShort, DictAt
        <4>2. Cardinality(Zones) \in Nat /\ TableMax \in Nat
          BY FS_CardinalityType DEF JwksAssumption
        <4> QED
          BY <4>1, <4>2 DEF RoomForAll
      <3>2. /\ Dict(negative', Nat) /\ Entry(negative', z, now + NegativeTTL)
            /\ \A y, w : Entry(negative', y, w) => Entry(negative, y, w) \/ y = z
            /\ \A y, w : Entry(negative, y, w) /\ y # z => Entry(negative', y, w)
        BY <1>3, <2>1, <3>1, StoreIs
      <3>3. /\ failedAt = [y \in Zones |-> failedAt[y]]
            /\ \A y \in Zones : FailureOK(now, negative, y, failedAt[y])
        BY DEF FlightInv
      <3>4. /\ failedAt' = [y \in Zones |-> failedAt'[y]] /\ failedAt'[z] = now
            /\ \A y \in Zones \ {z} : failedAt'[y] = failedAt[y]
        BY <1>3, <2>1, <3>3
      <3>5. ASSUME NEW u \in Tasks \ {t}, pc[u] = "fetch", Has(negative', zone[u])
            PROVE  Has(negative, zone[u])
        <4>1. zone[u] # z
          BY <1>1, <3>5, OthersHold
        <4>2. Entry(negative', zone[u], Get(negative', zone[u]))
          BY <3>2, <3>5, EntryIs
        <4>3. Entry(negative, zone[u], Get(negative', zone[u]))
          BY <3>2, <4>1, <4>2
        <4> QED
          BY <1>3, <4>3, EntryIs
      <3>6. ASSUME NEW y \in Zones PROVE FailureOK(now, negative', y, failedAt'[y])
        <4>1. CASE y = z
          BY <1>3, <3>2, <3>4, <4>1 DEF FailureOK
        <4>2. CASE y # z
          BY <3>2, <3>3, <3>4, <4>2 DEF FailureOK
        <4> QED
          BY <4>1, <4>2
      <3> QED
        BY <3>4, <3>5, <3>6
    <2>2. CASE UNCHANGED <<negative, failedAt>>
      BY <2>2 DEF FlightInv
    <2> QED
      BY <1>1, <2>1, <2>2
  <1>7. \A u \in Tasks \ {t} : pc[u] = "fetch" => holder'[lock[u]] = holder[lock[u]]
    BY <1>1, OthersHold
  <1>8. FlightOK(locks', negative', holder', pc'[t], zone'[t], lock'[t], t)
    BY <1>4 DEF FlightOK
  <1>9. \A u \in Tasks :
            FlightOK(locks', negative', holder', pc'[u], zone'[u], lock'[u], u)
    BY <1>1, <1>2, <1>6, <1>7, <1>8, OthersFly
  <1>10. FlightInv'
    BY <1>1, <1>5, <1>6, <1>9, FlightIs
  <1> QED
    BY <1>1, <1>4, <1>5, <1>10 DEF Due, RefreshIsDue, FetchIsDue

LEMMA LeavesFlight ==
    ASSUME JwksAssumption, KidAssumption, Base, FlightInv, NEW t \in Tasks,
           RefreshDone(t) \/ Cancel(t)
    PROVE  FlightInv' /\ Due(t)
  <1>1. /\ UNCHANGED <<now, negative, forced, locks, failedAt, refreshedAt>>
        /\ \E v : Done(t, v)
        /\ \/ UNCHANGED holder
           \/ pc[t] = "fetch" /\ holder' = [holder EXCEPT ![lock[t]] = None]
    BY RefreshDoneDoes, CancelDoes DEF mutex, history, tables
  <1>2. Moves(t)
    BY ResumeMoves, CancelMoves DEF Resume
  <1>3. pc'[t] = "done"
    <2>1. Shaped(pc)
      BY DEF Base, TasksInv
    <2>2. \A x : [pc EXCEPT ![t] = x][t] = x
      BY <2>1, ExceptAlters
    <2> QED
      BY <1>1, <2>2 DEF Done
  <1>4. \A u \in Tasks \ {t} : pc[u] = "fetch" => holder'[lock[u]] = holder[lock[u]]
    BY <1>1, OthersHold
  <1>5. FlightOK(locks', negative', holder', pc'[t], zone'[t], lock'[t], t)
    BY <1>3 DEF FlightOK
  <1>6. \A u \in Tasks :
            FlightOK(locks', negative', holder', pc'[u], zone'[u], lock'[u], u)
    BY <1>1, <1>2, <1>4, <1>5, OthersFly
  <1>7. FlightInv'
    BY <1>1, <1>6, FlightIs DEF FlightInv
  <1> QED
    BY <1>3, <1>7 DEF Due, RefreshIsDue, FetchIsDue

LEMMA TaskFlight ==
    ASSUME JwksAssumption, KidAssumption, RoomForAll, Base, FlightInv, NEW t \in Tasks,
           Arrive(t) \/ Resume(t) \/ Cancel(t)
    PROVE  FlightInv' /\ \A u \in Tasks : Due(u)
  <1>1. FlightInv' /\ Due(t)
    BY ArriveFlight, WakeFlight, FetchDoneFlight, LeavesFlight DEF Resume
  <1>2. Moves(t)
    BY ArriveMoves, ResumeMoves, CancelMoves
  <1>3. ASSUME NEW u \in Tasks \ {t} PROVE Due(u)
    <2>1. pc'[u] = pc[u]
      BY <1>2 DEF Moves, Alters
    <2> QED
      BY <2>1 DEF Due, RefreshIsDue, FetchIsDue
  <1> QED
    BY <1>1, <1>3

LEMMA NextFlight ==
    ASSUME JwksAssumption, KidAssumption, RoomForAll, Base, FlightInv, [Next]_vars
    PROVE  FlightInv' /\ \A u \in Tasks : Due(u)
  <1>1. CASE \E t \in Tasks : Arrive(t) \/ Resume(t) \/ Cancel(t)
    BY <1>1, TaskFlight
  <1>2. ASSUME /\ UNCHANGED <<negative, forced, locks, holder, pc, zone, lock,
                              failedAt, refreshedAt>>
               /\ now' = now \/ now' = now + 1
        PROVE  FlightInv' /\ \A u \in Tasks : Due(u)
    <2>1. now \in Nat /\ TTL \in Nat /\ NegativeTTL \in Nat
      BY DEF Base, ClockInv, JwksAssumption
    <2>2. ASSUME NEW z \in Zones PROVE FailureOK(now', negative', z, failedAt'[z])
      <3>1. FailureOK(now, negative, z, failedAt[z])
        BY DEF FlightInv
      <3> QED
        BY <1>2, <2>1, <3>1 DEF FailureOK
    <2>3. ASSUME NEW z \in Zones PROVE RefreshOK(now', forced', z, refreshedAt'[z])
      <3>1. RefreshOK(now, forced, z, refreshedAt[z])
        BY DEF FlightInv
      <3> QED
        BY <1>2, <2>1, <3>1 DEF RefreshOK
    <2>4. FlightInv'
      BY <1>2, <2>2, <2>3, FlightIs DEF FlightInv
    <2>5. \A u \in Tasks : Due(u)
      BY <1>2 DEF Due, RefreshIsDue, FetchIsDue
    <2> QED
      BY <2>4, <2>5
  <1>3. CASE Tick
    <2>1. now' = now + 1 /\ UNCHANGED <<tables, mutex, locals, history>>
      BY <1>3, TickDoes
    <2> QED
      BY <1>2, <2>1 DEF tables, mutex, locals, history
  <1>4. CASE UNCHANGED vars
    BY <1>2, <1>4 DEF vars, tables, mutex, locals, history
  <1> QED
    BY <1>1, <1>3, <1>4 DEF Next, Rest

LEMMA FewFlights ==
    ASSUME JwksAssumption, Base, FlightInv
    PROVE  OneFetchPerZone
  <1>1. ASSUME NEW z \in Zones PROVE Cardinality(InFlight(z, "fetch")) <= 1
    <2> DEFINE S == InFlight(z, "fetch")
    <2>1. ASSUME NEW t \in S, NEW u \in S PROVE u = t
      <3>1. t \in Tasks /\ u \in Tasks /\ pc[t] = "fetch" /\ pc[u] = "fetch"
            /\ zone[u] = zone[t]
        BY DEF InFlight
      <3> QED
        BY <3>1, OneFlight
    <2>2. CASE S = {}
      <3>1. Cardinality({}) = 0
        BY FS_EmptySet
      <3>2. Cardinality(S) = 0
        BY <2>2, <3>1, Zenon
      <3> QED
        BY <3>2
    <2>3. CASE S # {}
      <3>1. PICK t \in S : TRUE
        BY <2>3
      <3>2. S = {t}
        BY <2>1, <3>1
      <3>3. Cardinality({t}) = 1
        BY FS_Singleton
      <3> QED
        BY <3>2, <3>3
    <2> QED
      BY <2>2, <2>3
  <1> QED
    BY <1>1 DEF OneFetchPerZone

(* With room in the tables for every zone, a zone is asked by one task at  *)
(* a time, not again after a failure before the negative entry lapses, and *)
(* for an unknown kid once in a cache window. With more zones than places  *)
(* a zone's lock or stamp may be evicted, and the budgets with it.         *)
THEOREM ZonesAreSpared ==
    ASSUME RoomForAll
    PROVE  Spec => FetchesAreFew
  <1>1. Init => FlightInv
    BY DEF Init, FlightInv, FlightOK, FailureOK, RefreshOK
  <1>2. Base /\ FlightInv /\ [Next]_vars => FlightInv' /\ \A t \in Tasks : Due(t)
    BY RoomForAll, NextFlight, JwksAssumption, KidAssumption
  <1>3. Base /\ FlightInv => OneFetchPerZone
    BY FewFlights, JwksAssumption
  <1>4. Spec => []FlightInv
    BY <1>1, <1>2, BaseHolds, PTL DEF Spec
  <1>5. (\A t \in Tasks : Due(t)) => \A t \in Tasks : RefreshIsDue(t) /\ FetchIsDue(t)
    BY DEF Due
  <1> QED
    BY <1>2, <1>3, <1>4, <1>5, BaseHolds, PTL DEF Spec, FetchesAreFew

=============================================================================
