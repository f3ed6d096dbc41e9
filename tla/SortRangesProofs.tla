--------------------------- MODULE SortRangesProofs ---------------------------
(***************************************************************************)
(* The report is in the order of the keys, for every array of ranges, every *)
(* list of keys and every MIN_MERGE_SIZE: the insertions, the merge loop   *)
(* and the halving of mergesort_ranges are followed by induction, and      *)
(* merge is shown to be the order of the keys.                             *)
(***************************************************************************)
EXTENDS SortRanges, SequenceTheorems, WellFoundedInduction, TLAPS

-----------------------------------------------------------------------------
(* Induction on natural numbers for a set of them: the library has it for an
   operator, of which the provers can make no use, but it also has that < is
   well-founded, and a smallest element outside the set contradicts the step. *)
LEMMA Smallest == ASSUME NEW T \in SUBSET Nat, T # {} PROVE \E x \in T : \A y \in T : x <= y
<1>. DEFINE Less == OpToRel(<, Nat)
<1>1. IsWellFoundedOn(Less, Nat)
  BY NatLessThanWellFounded
<1>2. \A x, y \in Nat : y < x => <<y, x>> \in Less
  BY DEF OpToRel
<1>. HIDE DEF Less
<1>3. PICK x \in T : \A y \in T : ~ (<<y, x>> \in Less)
  BY <1>1, WFMin
<1>4. ASSUME NEW y \in T PROVE ~(y < x)
  BY <1>2, <1>3
<1>5. ASSUME NEW y \in T PROVE x <= y
  <2>1. x \in Nat /\ y \in Nat
    OBVIOUS
  <2>. HIDE <1>2
  <2>. QED  BY <1>4, <2>1
<1>. QED  BY <1>5

LEMMA Inductive ==
  ASSUME NEW T, 0 \in T, \A n \in Nat : n \in T => n + 1 \in T PROVE Nat \subseteq T
<1>. SUFFICES ASSUME Nat \ T # {} PROVE FALSE
  OBVIOUS
<1>1. PICK x \in Nat \ T : \A y \in Nat \ T : x <= y
  BY Smallest, Nat \ T \in SUBSET Nat
<1>2. x # 0 /\ x - 1 \in Nat
  BY <1>1
<1>3. x - 1 \in T
  BY <1>1, <1>2
<1>. QED  BY <1>1, <1>2, <1>3

-----------------------------------------------------------------------------
(* The order of the keys *)

\* The keys are the letters of -s.
KeysGiven == config.sorts \in Seq(Keys)

LEMMA KeyValues ==
  ASSUME KeysGiven, NEW l \in Ranges
  PROVE  /\ Len(config.sorts) \in Nat /\ DOMAIN config.sorts = 1..Len(config.sorts)
         /\ \A x \in DOMAIN config.sorts : l[config.sorts[x]] \in Int
<1>1. Len(config.sorts) \in Nat /\ DOMAIN config.sorts = 1..Len(config.sorts)
  BY DEF KeysGiven
<1>2. \A x \in 1..Len(config.sorts) : config.sorts[x] \in Keys
  BY ElementOfSeq DEF KeysGiven
<1>. QED  BY <1>1, <1>2 DEF Ranges

\* The first key that tells two ranges apart decides.
LEMMA FirstDiffering ==
  ASSUME KeysGiven, NEW D \in SUBSET DOMAIN config.sorts, D # {}
  PROVE  \E x \in D : \A y \in D : x <= y
<1>1. D \subseteq Nat
  BY DEF KeysGiven
<1>. QED  BY <1>1, Smallest

LEMMA MergePrecedes ==
  ASSUME KeysGiven, NEW l \in Ranges, NEW r \in Ranges PROVE merge(l, r) <=> Precedes(l, r)
<1>. DEFINE v(x) == l[config.sorts[x]]
            w(x) == r[config.sorts[x]]
            D == {x \in DOMAIN config.sorts : v(x) # w(x)}
            first == CHOOSE x \in D : \A y \in D : x <= y
<1>1. \A x \in DOMAIN config.sorts : x \in 1..Len(config.sorts) /\ v(x) \in Int /\ w(x) \in Int
  BY KeyValues
<1>2. merge(l, r) <=> D # {} /\ v(first) < w(first)
  BY DEF merge, Differing
<1>3. Precedes(l, r) <=> \E x \in DOMAIN config.sorts : v(x) < w(x) /\ \A y \in 1..(x - 1) : v(y) = w(y)
  BY DEF Precedes
<1>4. Len(config.sorts) \in Nat /\ DOMAIN config.sorts = 1..Len(config.sorts)
  BY KeyValues
<1>. HIDE DEF v, w
<1>5. ASSUME D # {}, v(first) < w(first) PROVE Precedes(l, r)
  <2>1. first \in D /\ \A y \in D : first <= y
    BY <1>5, FirstDiffering
  <2>. HIDE DEF first
  <2>2. \A y \in 1..(first - 1) : y \notin D /\ y \in DOMAIN config.sorts
    BY <1>4, <2>1
  <2>. QED  BY <1>3, <1>5, <2>1, <2>2
<1>6. ASSUME NEW x \in DOMAIN config.sorts, v(x) < w(x), \A y \in 1..(x - 1) : v(y) = w(y)
      PROVE  D # {} /\ v(first) < w(first)
  <2>1. x \in D
    BY <1>1, <1>6
  <2>2. first \in D /\ \A y \in D : first <= y
    BY <2>1, FirstDiffering
  <2>. HIDE DEF first
  <2>3. \A y \in D : ~(y < x)
    BY <1>1, <1>4, <1>6
  <2>4. first = x
    BY <1>4, <2>1, <2>2, <2>3
  <2>. QED  BY <1>6, <2>1, <2>4
<1>. QED  BY <1>2, <1>3, <1>5, <1>6

\* Ties and order are one weak order.
NotAfter(l, r) == ~Precedes(r, l)

LEMMA NotAfterTransitive ==
  ASSUME KeysGiven, NEW l \in Ranges, NEW m \in Ranges, NEW r \in Ranges,
         NotAfter(l, m), NotAfter(m, r)
  PROVE  NotAfter(l, r)
<1>. DEFINE u(x) == l[config.sorts[x]]
            v(x) == m[config.sorts[x]]
            w(x) == r[config.sorts[x]]
            D == {x \in DOMAIN config.sorts : u(x) # v(x) \/ v(x) # w(x)}
<1>1. \A x \in DOMAIN config.sorts : u(x) \in Int /\ v(x) \in Int /\ w(x) \in Int
  BY KeyValues
<1>2. Len(config.sorts) \in Nat /\ DOMAIN config.sorts = 1..Len(config.sorts)
  BY KeyValues
<1>3. \A x \in DOMAIN config.sorts : ~(v(x) < u(x) /\ \A y \in 1..(x - 1) : v(y) = u(y))
  BY DEF NotAfter, Precedes
<1>4. \A x \in DOMAIN config.sorts : ~(w(x) < v(x) /\ \A y \in 1..(x - 1) : w(y) = v(y))
  BY DEF NotAfter, Precedes
<1>5. SUFFICES ASSUME NEW x \in DOMAIN config.sorts,
                      w(x) < u(x), \A y \in 1..(x - 1) : w(y) = u(y)
               PROVE  FALSE
  BY DEF NotAfter, Precedes
<1>. HIDE DEF u, v, w
<1>6. x \in D
  BY <1>1, <1>5
<1>7. PICK z \in D : \A y \in D : z <= y
  BY <1>6, FirstDiffering
<1>8. z \in DOMAIN config.sorts /\ z \in 1..Len(config.sorts) /\ x \in 1..Len(config.sorts) /\ z <= x
  BY <1>2, <1>6, <1>7
<1>9. \A y \in 1..(z - 1) : u(y) = v(y) /\ v(y) = w(y)
  <2>1. \A y \in 1..(z - 1) : y \in DOMAIN config.sorts /\ y \notin D
    BY <1>2, <1>7, <1>8
  <2>. QED  BY <2>1
<1>10. ~(v(z) < u(z)) /\ ~(w(z) < v(z))
  BY <1>3, <1>4, <1>8, <1>9
<1>11. u(z) <= v(z) /\ v(z) <= w(z) /\ (u(z) # v(z) \/ v(z) # w(z))
  BY <1>1, <1>7, <1>8, <1>10
<1>12. u(z) < w(z)
  BY <1>1, <1>8, <1>11
<1>13. CASE z = x
  BY <1>1, <1>5, <1>12, <1>13
<1>14. CASE z # x
  <2>1. z \in 1..(x - 1)
    BY <1>8, <1>14
  <2>. QED  BY <1>1, <1>5, <1>8, <1>12, <2>1
<1>. QED  BY <1>13, <1>14

LEMMA PrecedesNotAfter ==
  ASSUME KeysGiven, NEW l \in Ranges, NEW r \in Ranges, Precedes(l, r) PROVE NotAfter(l, r)
<1>. DEFINE v(x) == l[config.sorts[x]]
            w(x) == r[config.sorts[x]]
<1>1. \A x \in DOMAIN config.sorts : x \in 1..Len(config.sorts) /\ v(x) \in Int /\ w(x) \in Int
  BY KeyValues
<1>2. PICK x \in DOMAIN config.sorts : v(x) < w(x) /\ \A y \in 1..(x - 1) : v(y) = w(y)
  BY DEF Precedes
<1>3. SUFFICES ASSUME NEW z \in DOMAIN config.sorts,
                      w(z) < v(z), \A y \in 1..(z - 1) : w(y) = v(y)
               PROVE  FALSE
  BY DEF NotAfter, Precedes
<1>. HIDE DEF v, w
<1>4. x < z \/ z < x \/ x = z
  BY <1>1
<1>5. x \in 1..Len(config.sorts) /\ z \in 1..Len(config.sorts)
  BY <1>1
<1>6. CASE x < z
  BY <1>1, <1>2, <1>3, <1>5, <1>6
<1>7. CASE z < x
  BY <1>1, <1>2, <1>3, <1>5, <1>7
<1>8. CASE x = z
  BY <1>1, <1>2, <1>3, <1>8
<1>. QED  BY <1>4, <1>6, <1>7, <1>8

-----------------------------------------------------------------------------
(* The insertions *)

InOrder(s) == \A x, y \in 1..Len(s) : x < y => NotAfter(s[x], s[y])
Distinct(s) == \A x, y \in 1..Len(s) : s[x] = s[y] => x = y

\* What a part of the array is when it has been sorted: n ranges, those of S.
SortOf(s, n, S) ==
  s \in Seq(Ranges) /\ Len(s) = n /\ ToSet(s) = S /\ Distinct(s) /\ InOrder(s)

LEMMA Elements ==
  ASSUME NEW S, NEW s \in Seq(S)
  PROVE  Len(s) \in Nat /\ DOMAIN s = 1..Len(s) /\ \A x \in 1..Len(s) : s[x] \in S /\ s[x] \in ToSet(s)
<1>1. Len(s) \in Nat /\ DOMAIN s = 1..Len(s)
  OBVIOUS
<1>. QED  BY <1>1, ElementOfSeq DEF ToSet

LEMMA InsertAtIs ==
  ASSUME NEW S, NEW u \in Seq(S), NEW hold \in S, NEW stop \in 0..Len(u)
  PROVE  LET v == InsertAt(u, stop + 1, hold)
         IN  /\ v \in Seq(S) /\ Len(v) = Len(u) + 1
             /\ \A k \in 1..(Len(u) + 1) :
                  v[k] = IF k <= stop THEN u[k] ELSE IF k = stop + 1 THEN hold ELSE u[k - 1]
<1>. DEFINE a == SubSeq(u, 1, stop)
            b == SubSeq(u, stop + 1, Len(u))
            v == InsertAt(u, stop + 1, hold)
<1>1. Len(u) \in Nat /\ \A x \in 1..Len(u) : u[x] \in S
  BY Elements
<1>2. a \in Seq(S) /\ Len(a) = stop /\ \A x \in 1..stop : a[x] = u[x]
  <2>1. \A x \in 1..stop : u[x] \in S
    BY <1>1
  <2>. QED  BY <1>1, <2>1, SubSeqProperties
<1>3. /\ b \in Seq(S) /\ Len(b) = Len(u) - stop
      /\ \A x \in 1..(Len(u) - stop) : b[x] = u[stop + x]
  <2>1. \A x \in (stop + 1)..Len(u) : u[x] \in S
    BY <1>1
  <2>2. b \in Seq(S) /\ Len(b) = (IF stop + 1 <= Len(u) THEN Len(u) - (stop + 1) + 1 ELSE 0)
        /\ \A x \in 1..(Len(u) - (stop + 1) + 1) : b[x] = u[stop + 1 + x - 1]
    BY <1>1, <2>1, SubSeqProperties
  <2>3. Len(b) = Len(u) - stop
    BY <1>1, <2>2
  <2>4. \A x \in 1..(Len(u) - stop) : b[x] = u[stop + x]
    <3>1. \A x \in 1..(Len(u) - stop) : x \in 1..(Len(u) - (stop + 1) + 1) /\ stop + 1 + x - 1 = stop + x
      BY <1>1
    <3>. QED  BY <2>2, <3>1
  <2>. QED  BY <2>2, <2>3, <2>4
<1>4. v = (a \o <<hold>>) \o b
  <2>1. (stop + 1) - 1 = stop
    OBVIOUS
  <2>. QED  BY <2>1 DEF InsertAt
<1>. HIDE DEF a, b, v
<1>5. /\ a \o <<hold>> \in Seq(S) /\ Len(a \o <<hold>>) = stop + 1
      /\ \A k \in 1..(stop + 1) : (a \o <<hold>>)[k] = IF k <= stop THEN u[k] ELSE hold
  <2>1. Append(a, hold) = a \o <<hold>>
    BY <1>2, AppendIsConcat
  <2>2. /\ Append(a, hold) \in Seq(S) /\ Len(Append(a, hold)) = stop + 1
        /\ \A x \in 1..stop : Append(a, hold)[x] = a[x]
        /\ Append(a, hold)[stop + 1] = hold
    BY <1>2, AppendProperties
  <2>3. \A k \in 1..(stop + 1) : k \in 1..stop \/ k = stop + 1
    OBVIOUS
  <2>. QED  BY <1>2, <2>1, <2>2, <2>3
<1>6. /\ v \in Seq(S) /\ Len(v) = Len(u) + 1
      /\ \A k \in 1..(Len(u) + 1) :
           v[k] = IF k <= stop + 1 THEN (a \o <<hold>>)[k] ELSE b[k - (stop + 1)]
  <2>. DEFINE c == a \o <<hold>>
  <2>1. c \in Seq(S) /\ Len(c) = stop + 1 /\ v = c \o b
    BY <1>4, <1>5
  <2>. HIDE DEF c
  <2>2. (stop + 1) + (Len(u) - stop) = Len(u) + 1
    BY <1>1
  <2>3. /\ c \o b \in Seq(S) /\ Len(c \o b) = Len(c) + Len(b)
        /\ \A k \in 1..(Len(c) + Len(b)) :
             (c \o b)[k] = IF k <= Len(c) THEN c[k] ELSE b[k - Len(c)]
    BY <1>3, <2>1, ConcatProperties
  <2>4. /\ v \in Seq(S) /\ Len(v) = Len(u) + 1
        /\ \A k \in 1..(Len(u) + 1) : v[k] = IF k <= stop + 1 THEN c[k] ELSE b[k - (stop + 1)]
    BY <1>3, <2>1, <2>2, <2>3
  <2>. QED  BY <2>4 DEF c
<1>7. ASSUME NEW k \in 1..(Len(u) + 1)
      PROVE  v[k] = IF k <= stop THEN u[k] ELSE IF k = stop + 1 THEN hold ELSE u[k - 1]
  <2>1. CASE k <= stop + 1
    <3>1. k \in 1..(stop + 1) /\ (k <= stop \/ k = stop + 1)
      BY <2>1
    <3>. QED  BY <1>5, <1>6, <2>1, <3>1
  <2>2. CASE k > stop + 1
    <3>1. k - (stop + 1) \in 1..(Len(u) - stop) /\ stop + (k - (stop + 1)) = k - 1
      BY <1>1, <2>2
    <3>2. b[k - (stop + 1)] = u[k - 1]
      BY <1>3, <3>1
    <3>. QED  BY <1>6, <2>2, <3>2
  <2>. QED  BY <2>1, <2>2
<1>. QED  BY <1>6, <1>7 DEF v

\* The place of hold: nothing after it goes before hold.
LEMMA StopExists ==
  ASSUME NEW u \in Seq(Ranges), NEW hold
  PROVE  \E x \in 0..Len(u) : /\ x = 0 \/ merge(u[x], hold)
                              /\ \A y \in (x + 1)..Len(u) : ~merge(u[y], hold)
<1>. DEFINE T == {x \in 0..Len(u) : \A y \in (x + 1)..Len(u) : ~merge(u[y], hold)}
<1>1. Len(u) \in T /\ T \in SUBSET Nat
  <2>1. Len(u) \in Nat
    OBVIOUS
  <2>2. (Len(u) + 1)..Len(u) = {}
    BY <2>1
  <2>. QED  BY <2>1, <2>2
<1>2. PICK x \in T : \A y \in T : x <= y
  BY <1>1, Smallest
<1>3. ASSUME x # 0 PROVE merge(u[x], hold)
  <2>1. x - 1 \in 0..Len(u) /\ x - 1 \notin T
    <3>1. x \in 0..Len(u) /\ Len(u) \in Nat
      OBVIOUS
    <3>2. x - 1 \in 0..Len(u) /\ ~(x <= x - 1)
      BY <1>3, <3>1
    <3>. HIDE DEF T
    <3>. QED  BY <1>2, <3>2
  <2>2. PICK y \in ((x - 1) + 1)..Len(u) : merge(u[y], hold)
    BY <2>1
  <2>3. y = x \/ y \in (x + 1)..Len(u)
    BY <2>2
  <2>. QED  BY <1>2, <2>2, <2>3
<1>. QED  BY <1>2, <1>3

LEMMA InsertIs ==
  ASSUME KeysGiven, NEW u \in Seq(Ranges), NEW hold \in Ranges
  PROVE  \E stop \in 0..Len(u) :
           /\ stop = 0 \/ NotAfter(u[stop], hold)
           /\ \A y \in (stop + 1)..Len(u) : NotAfter(hold, u[y])
           /\ Insert(u, hold) \in Seq(Ranges) /\ Len(Insert(u, hold)) = Len(u) + 1
           /\ \A k \in 1..(Len(u) + 1) :
                Insert(u, hold)[k] =
                  IF k <= stop THEN u[k] ELSE IF k = stop + 1 THEN hold ELSE u[k - 1]
<1>. DEFINE stop == CHOOSE x \in 0..Len(u) :
                      /\ x = 0 \/ merge(u[x], hold)
                      /\ \A y \in (x + 1)..Len(u) : ~merge(u[y], hold)
<1>1. /\ stop \in 0..Len(u)
      /\ stop = 0 \/ merge(u[stop], hold)
      /\ \A y \in (stop + 1)..Len(u) : ~merge(u[y], hold)
  BY StopExists
<1>2. Insert(u, hold) = InsertAt(u, stop + 1, hold)
  BY DEF Insert
<1>. HIDE DEF stop
<1>3. \A x \in 1..Len(u) : u[x] \in Ranges
  BY ElementOfSeq
<1>4. stop = 0 \/ NotAfter(u[stop], hold)
  <2>1. stop # 0 => stop \in 1..Len(u)
    BY <1>1
  <2>. QED  BY <1>1, <1>3, <2>1, MergePrecedes, PrecedesNotAfter
<1>5. \A y \in (stop + 1)..Len(u) : NotAfter(hold, u[y])
  <2>1. \A y \in (stop + 1)..Len(u) : y \in 1..Len(u)
    BY <1>1
  <2>. QED  BY <1>1, <1>3, <2>1, MergePrecedes DEF NotAfter
<1>6. /\ Insert(u, hold) \in Seq(Ranges) /\ Len(Insert(u, hold)) = Len(u) + 1
      /\ \A k \in 1..(Len(u) + 1) :
           Insert(u, hold)[k] =
             IF k <= stop THEN u[k] ELSE IF k = stop + 1 THEN hold ELSE u[k - 1]
  <2>1. \A z \in 0..Len(u) :
          /\ InsertAt(u, z + 1, hold) \in Seq(Ranges) /\ Len(InsertAt(u, z + 1, hold)) = Len(u) + 1
          /\ \A k \in 1..(Len(u) + 1) :
               InsertAt(u, z + 1, hold)[k] =
                 IF k <= z THEN u[k] ELSE IF k = z + 1 THEN hold ELSE u[k - 1]
    BY InsertAtIs
  <2>. QED  BY <1>1, <1>2, <2>1, Zenon
<1>. QED  BY <1>1, <1>4, <1>5, <1>6, Zenon

\* hold is a new one: the ranges inserted so far and hold are in order.
LEMMA InsertSorts ==
  ASSUME KeysGiven, NEW u, NEW n \in Nat, NEW S, SortOf(u, n, S), NEW hold \in Ranges, hold \notin S
  PROVE  SortOf(Insert(u, hold), n + 1, S \cup {hold})
<1>. DEFINE v == Insert(u, hold)
<1>1. /\ u \in Seq(Ranges) /\ Len(u) = n /\ DOMAIN u = 1..n
      /\ \A x \in 1..n : u[x] \in Ranges /\ u[x] \in S
  BY Elements DEF SortOf
<1>2. PICK stop \in 0..n :
           /\ stop = 0 \/ NotAfter(u[stop], hold)
           /\ \A y \in (stop + 1)..n : NotAfter(hold, u[y])
           /\ v \in Seq(Ranges) /\ Len(v) = n + 1
           /\ \A k \in 1..(n + 1) :
                v[k] = IF k <= stop THEN u[k] ELSE IF k = stop + 1 THEN hold ELSE u[k - 1]
  BY <1>1, InsertIs
<1>. HIDE DEF v
\* Where the ranges come from, and where they go.
<1>. DEFINE from(k) == IF k < stop + 1 THEN k ELSE k - 1
            to(x) == IF x < stop + 1 THEN x ELSE x + 1
<1>3. \A k \in 1..(n + 1) : k # stop + 1 => from(k) \in 1..n /\ v[k] = u[from(k)]
  BY <1>2
<1>4. \A x \in 1..n : to(x) \in 1..(n + 1) /\ v[to(x)] = u[x]
  BY <1>2
<1>5. stop + 1 \in 1..(n + 1) /\ v[stop + 1] = hold
  BY <1>2
<1>6. ToSet(v) = S \cup {hold}
  <2>1. DOMAIN v = 1..(n + 1)
    BY <1>2
  <2>. HIDE DEF from, to
  <2>2. S = {u[x] : x \in 1..n}
    BY <1>1 DEF SortOf, ToSet
  <2>3. ToSet(v) \subseteq S \cup {hold}
    BY <2>1, <1>1, <1>3, <1>5 DEF ToSet
  <2>4. S \cup {hold} \subseteq ToSet(v)
    BY <2>1, <2>2, <1>4, <1>5 DEF ToSet
  <2>. QED  BY <2>3, <2>4
<1>7. \A j, k \in 1..(n + 1) : j < k /\ j # stop + 1 /\ k # stop + 1 => from(j) < from(k)
  BY <1>2
<1>8. Distinct(v)
  <2>1. \A j, k \in 1..(n + 1) : j < k => v[j] # v[k]
    <3>1. \A k \in 1..(n + 1) : k # stop + 1 => v[k] # hold
      <4>. HIDE DEF from
      <4>. QED  BY <1>1, <1>3
    <3>2. \A j, k \in 1..(n + 1) : j < k /\ j # stop + 1 /\ k # stop + 1 => from(j) # from(k)
      BY <1>7
    <3>. HIDE DEF from
    <3>3. \A x, y \in 1..n : u[x] = u[y] => x = y
      BY <1>1 DEF SortOf, Distinct
    <3>. QED  BY <1>3, <1>5, <3>1, <3>2, <3>3
  <2>2. \A j, k \in 1..(n + 1) : j < k \/ k < j \/ j = k
    OBVIOUS
  <2>. QED  BY <1>2, <2>1, <2>2 DEF Distinct
<1>9. InOrder(v)
  <2>1. \A x, y \in 1..n : x < y => NotAfter(u[x], u[y])
    BY <1>1 DEF SortOf, InOrder
  <2>2. ASSUME NEW x \in 1..n, x <= stop PROVE NotAfter(u[x], hold)
    <3>1. stop \in 1..n /\ NotAfter(u[stop], hold) /\ (x = stop \/ x < stop)
      BY <1>2, <2>2
    <3>2. x < stop => NotAfter(u[x], u[stop])
      BY <2>1, <3>1
    <3>. QED  BY <1>1, <3>1, <3>2, NotAfterTransitive
  <2>3. ASSUME NEW j \in 1..(n + 1), NEW k \in 1..(n + 1), j < k PROVE NotAfter(v[j], v[k])
    <3>1. CASE j = stop + 1
      <4>1. k # stop + 1 /\ from(k) \in (stop + 1)..n
        BY <2>3, <3>1
      <4>. HIDE DEF from
      <4>. QED  BY <1>2, <1>3, <1>5, <3>1, <4>1
    <3>2. CASE k = stop + 1
      <4>1. j # stop + 1 /\ from(j) <= stop
        BY <2>3, <3>2
      <4>. HIDE DEF from
      <4>. QED  BY <1>3, <1>5, <2>2, <3>2, <4>1
    <3>3. CASE j # stop + 1 /\ k # stop + 1
      <4>. HIDE DEF from
      <4>. QED  BY <1>3, <1>7, <2>1, <2>3, <3>3
    <3>. QED  BY <3>1, <3>2, <3>3
  <2>. QED  BY <1>2, <2>3 DEF InOrder
<1>. QED  BY <1>2, <1>6, <1>8, <1>9 DEF SortOf, v

IsDone(f, t, n) == f = [k \in 0..n |-> IF k = 0 THEN << >> ELSE Insert(f[k - 1], t[k])]

LEMMA DoneExists == ASSUME NEW t PROVE \A n \in Nat : \E f : IsDone(f, t, n)
<1>. DEFINE T == {n \in Nat : \E f : IsDone(f, t, n)}
<1>1. 0 \in T
  <2>1. IsDone([k \in 0..0 |-> << >>], t, 0)
    BY DEF IsDone
  <2>. QED  BY <2>1
<1>2. ASSUME NEW n \in Nat, n \in T PROVE n + 1 \in T
  <2>1. PICK f : IsDone(f, t, n)
    BY <1>2
  <2>. DEFINE g == [k \in 0..(n + 1) |-> IF k <= n THEN f[k] ELSE Insert(f[n], t[n + 1])]
  <2>2. \A k \in 0..n : f[k] = IF k = 0 THEN << >> ELSE Insert(f[k - 1], t[k])
    BY <2>1, Zenon DEF IsDone
  <2>3. \A k \in 0..(n + 1) : k # 0 => k - 1 \in 0..n /\ (k \in 0..n \/ k = n + 1)
    OBVIOUS
  <2>4. (\A k \in 0..n : g[k] = f[k]) /\ g[n + 1] = Insert(f[n], t[n + 1]) /\ 0 \in 0..n
        /\ (n + 1) - 1 = n /\ n + 1 # 0
    OBVIOUS
  <2>5. \A k \in 0..(n + 1) : g[k] = IF k = 0 THEN << >> ELSE Insert(g[k - 1], t[k])
    <3>. HIDE DEF g
    <3>1. \A k \in 0..n : k # 0 => g[k] = Insert(g[k - 1], t[k])
      BY <2>2, <2>3, <2>4
    <3>. QED  BY <2>2, <2>3, <2>4, <3>1
  <2>6. g = [k \in 0..(n + 1) |-> g[k]]
    OBVIOUS
  <2>. HIDE DEF g
  <2>7. [k \in 0..(n + 1) |-> g[k]]
          = [k \in 0..(n + 1) |-> IF k = 0 THEN << >> ELSE Insert(g[k - 1], t[k])]
    BY <2>5
  <2>8. IsDone(g, t, n + 1)
    BY <2>6, <2>7 DEF IsDone
  <2>. QED  BY <2>8
<1>. HIDE DEF T
<1>3. Nat \subseteq T
  BY <1>1, <1>2, Inductive
<1>. QED  BY <1>3 DEF T

\* A short part is sorted by the insertions.
LEMMA InsertedSorts ==
  ASSUME KeysGiven, NEW t \in Seq(Ranges), Distinct(t)
  PROVE  SortOf(inserted(t), Len(t), ToSet(t))
<1>. DEFINE f == CHOOSE g : IsDone(g, t, Len(t))
            To(n) == {t[x] : x \in 1..n}
            T == {n \in Nat : n <= Len(t) => SortOf(f[n], n, To(n))}
<1>1. Len(t) \in Nat /\ DOMAIN t = 1..Len(t) /\ \A x \in 1..Len(t) : t[x] \in Ranges
  BY Elements
<1>2. IsDone(f, t, Len(t))
  BY <1>1, DoneExists
<1>3. inserted(t) = f[Len(t)]
  BY DEF inserted, IsDone
<1>. HIDE DEF f
<1>4. \A n \in 0..Len(t) : f[n] = IF n = 0 THEN << >> ELSE Insert(f[n - 1], t[n])
  BY <1>2, Zenon DEF IsDone
<1>5. 0 \in T
  <2>1. f[0] = << >> /\ To(0) = {}
    BY <1>1, <1>4
  <2>2. << >> \in Seq(Ranges) /\ Len(<< >>) = 0 /\ ToSet(<< >>) = {}
    BY DEF ToSet
  <2>3. Distinct(<< >>) /\ InOrder(<< >>)
    BY DEF Distinct, InOrder
  <2>. QED  BY <2>1, <2>2, <2>3 DEF SortOf
<1>6. ASSUME NEW n \in Nat, n \in T PROVE n + 1 \in T
  <2>. SUFFICES ASSUME n + 1 <= Len(t) PROVE SortOf(f[n + 1], n + 1, To(n + 1))
    OBVIOUS
  <2>1. n + 1 \in 1..Len(t) /\ n + 1 \in 0..Len(t) /\ (n + 1) - 1 = n /\ n + 1 # 0
    BY <1>1
  <2>2. f[n + 1] = Insert(f[n], t[n + 1])
    BY <1>4, <2>1
  <2>3. SortOf(f[n], n, To(n))
    BY <1>1, <1>6
  <2>4. t[n + 1] \notin To(n)
    <3>1. \A x \in 1..n : x \in 1..Len(t) /\ x # n + 1
      BY <1>1, <2>1
    <3>. QED  BY <2>1, <3>1 DEF Distinct
  <2>5. To(n + 1) = To(n) \cup {t[n + 1]}
    <3>1. 1..(n + 1) = 1..n \cup {n + 1}
      OBVIOUS
    <3>. QED  BY <3>1
  <2>. HIDE DEF To
  <2>. QED  BY <1>1, <2>1, <2>2, <2>3, <2>4, <2>5, InsertSorts
<1>. HIDE DEF T
<1>7. Len(t) \in T
  BY <1>1, <1>5, <1>6, Inductive
<1>8. To(Len(t)) = ToSet(t)
  BY <1>1 DEF ToSet
<1>. HIDE DEF To
<1>. QED  BY <1>1, <1>3, <1>7, <1>8 DEF T

-----------------------------------------------------------------------------
(* The merge loop *)

\* After k ranges: temp holds the first ones of both halves, in order, and
\* none of them goes after one that is left.
First(s, n) == {s[x] : x \in 1..n}
NoneAfter(u, k, s, n) == \A x \in 1..k : \A y \in (n + 1)..Len(s) : NotAfter(u[x], s[y])
LoopInv(s, a, b, k) ==
  /\ s = [left |-> s.left, right |-> s.right, temp |-> s.temp]
  /\ s.left \in 0..Len(a) /\ s.right \in 0..Len(b) /\ s.left + s.right = k
  /\ SortOf(s.temp, k, First(a, s.left) \cup First(b, s.right))
  /\ NoneAfter(s.temp, k, a, s.left) /\ NoneAfter(s.temp, k, b, s.right)

\* A range that goes after none of temp is added to its end.
LEMMA AppendSorts ==
  ASSUME NEW u, NEW n \in Nat, NEW S, SortOf(u, n, S), NEW e \in Ranges, e \notin S,
         \A x \in 1..n : NotAfter(u[x], e)
  PROVE  SortOf(Append(u, e), n + 1, S \cup {e})
<1>. DEFINE v == Append(u, e)
<1>1. /\ u \in Seq(Ranges) /\ Len(u) = n /\ \A x \in 1..n : u[x] \in S
      /\ S = {u[x] : x \in 1..n}
  BY Elements DEF SortOf, ToSet
<1>2. /\ v \in Seq(Ranges) /\ Len(v) = n + 1 /\ DOMAIN v = 1..(n + 1)
      /\ \A x \in 1..n : v[x] = u[x]
      /\ v[n + 1] = e
  BY <1>1, AppendProperties
<1>. HIDE DEF v
<1>3. \A x \in 1..(n + 1) : x \in 1..n \/ x = n + 1
  OBVIOUS
<1>4. n + 1 \in 1..(n + 1) /\ \A x \in 1..n : x \in 1..(n + 1) /\ x < n + 1 /\ ~(n + 1 < x)
  OBVIOUS
<1>5. ToSet(v) = S \cup {e}
  <2>1. ToSet(v) \subseteq S \cup {e}
    BY <1>1, <1>2, <1>3 DEF ToSet
  <2>2. S \cup {e} \subseteq ToSet(v)
    BY <1>1, <1>2, <1>4 DEF ToSet
  <2>. QED  BY <2>1, <2>2
<1>6. Distinct(v)
  BY <1>1, <1>2, <1>3 DEF SortOf, Distinct
<1>7. InOrder(v)
  <2>1. ASSUME NEW x \in 1..(n + 1), NEW y \in 1..(n + 1), x < y PROVE NotAfter(v[x], v[y])
    <3>1. x \in 1..n /\ (y \in 1..n \/ y = n + 1)
      BY <2>1
    <3>2. y \in 1..n => NotAfter(u[x], u[y])
      BY <1>1, <2>1, <3>1 DEF SortOf, InOrder
    <3>. QED  BY <1>2, <3>1, <3>2
  <2>. QED  BY <1>2, <2>1 DEF InOrder
<1>. QED  BY <1>2, <1>5, <1>6, <1>7 DEF SortOf, v

\* One more range of the half a, which loses none of b by it.
LEMMA TakeOne ==
  ASSUME KeysGiven,
         NEW a, NEW A, SortOf(a, Len(a), A), NEW b, NEW B, SortOf(b, Len(b), B), A \cap B = {},
         NEW left \in 0..Len(a), NEW right \in 0..Len(b), left < Len(a), NEW k \in Nat,
         NEW temp, SortOf(temp, k, First(a, left) \cup First(b, right)),
         NoneAfter(temp, k, a, left), NoneAfter(temp, k, b, right),
         right = Len(b) \/ NotAfter(a[left + 1], b[right + 1]),
         NEW new, new = Append(temp, a[left + 1])
  PROVE  /\ SortOf(new, k + 1, First(a, left + 1) \cup First(b, right))
         /\ NoneAfter(new, k + 1, a, left + 1) /\ NoneAfter(new, k + 1, b, right)
<1>. DEFINE e == a[left + 1]
            m == Len(a)
            n == Len(b)
            S == First(a, left) \cup First(b, right)
<1>1. /\ m \in Nat /\ \A x \in 1..m : a[x] \in Ranges /\ a[x] \in A
      /\ n \in Nat /\ \A x \in 1..n : b[x] \in Ranges /\ b[x] \in B
  BY Elements DEF SortOf
<1>2. left + 1 \in 1..m
  BY <1>1
<1>3. e \in Ranges /\ \A x \in 1..k : NotAfter(temp[x], e)
  <2>1. left + 1 \in (left + 1)..m
    BY <1>1, <1>2
  <2>. QED  BY <1>1, <1>2, <2>1 DEF NoneAfter
<1>4. e \notin S
  <2>1. \A x \in 1..left : x \in 1..m /\ x # left + 1
    BY <1>1, <1>2
  <2>2. \A x \in 1..left : a[x] # e
    BY <1>1, <1>2, <2>1 DEF SortOf, Distinct
  <2>3. \A x \in 1..right : b[x] # e
    <3>1. \A x \in 1..right : x \in 1..n
      BY <1>1
    <3>. QED  BY <1>1, <1>2, <3>1
  <2>. HIDE DEF e
  <2>. QED  BY <2>2, <2>3 DEF First
<1>5. S \cup {e} = First(a, left + 1) \cup First(b, right)
  <2>1. 1..(left + 1) = 1..left \cup {left + 1}
    OBVIOUS
  <2>. QED  BY <2>1 DEF First
<1>6. \A y \in ((left + 1) + 1)..m : NotAfter(e, a[y])
  <2>1. \A y \in ((left + 1) + 1)..m : y \in 1..m /\ left + 1 < y
    BY <1>1, <1>2
  <2>. QED  BY <1>1, <1>2, <2>1 DEF SortOf, InOrder
<1>7. \A y \in (right + 1)..n : NotAfter(e, b[y])
  <2>. SUFFICES ASSUME NEW y \in (right + 1)..n PROVE NotAfter(e, b[y])
    OBVIOUS
  <2>1. right # n /\ right + 1 \in 1..n /\ y \in 1..n /\ (y = right + 1 \/ right + 1 < y)
    BY <1>1
  <2>2. NotAfter(e, b[right + 1])
    BY <2>1
  <2>3. right + 1 < y => NotAfter(b[right + 1], b[y])
    BY <1>1, <2>1 DEF SortOf, InOrder
  <2>. QED  BY <1>1, <1>3, <2>1, <2>2, <2>3, NotAfterTransitive
<1>8. SortOf(temp, k, S) /\ new = Append(temp, e)
  OBVIOUS
<1>. HIDE DEF e, S
<1>9. /\ SortOf(new, k + 1, S \cup {e})
      /\ \A x \in 1..k : new[x] = temp[x]
      /\ new[k + 1] = e
  <2>1. SortOf(Append(temp, e), k + 1, S \cup {e})
    BY <1>3, <1>4, <1>8, AppendSorts
  <2>2. temp \in Seq(Ranges) /\ Len(temp) = k
    BY <1>8 DEF SortOf
  <2>3. (\A x \in 1..k : Append(temp, e)[x] = temp[x]) /\ Append(temp, e)[k + 1] = e
    BY <1>3, <2>2, AppendProperties
  <2>. QED  BY <1>8, <2>1, <2>3, Zenon
<1>10. \A x \in 1..(k + 1) : x \in 1..k \/ x = k + 1
  OBVIOUS
<1>11. NoneAfter(new, k + 1, a, left + 1)
  <2>1. \A y \in ((left + 1) + 1)..m : y \in (left + 1)..m
    BY <1>1
  <2>. QED  BY <1>6, <1>9, <1>10, <2>1 DEF NoneAfter
<1>12. NoneAfter(new, k + 1, b, right)
  BY <1>7, <1>9, <1>10 DEF NoneAfter
<1>. QED  BY <1>5, <1>9, <1>11, <1>12

LEMMA TakeKeeps ==
  ASSUME KeysGiven,
         NEW a, NEW A, SortOf(a, Len(a), A), NEW b, NEW B, SortOf(b, Len(b), B), A \cap B = {},
         NEW k \in Nat, k < Len(a) + Len(b), NEW s, LoopInv(s, a, b, k)
  PROVE  LoopInv(Take(a, b, s), a, b, k + 1)
<1>. DEFINE left == s.left
            right == s.right
            temp == s.temp
<1>1. /\ Len(a) \in Nat /\ \A x \in 1..Len(a) : a[x] \in Ranges
      /\ Len(b) \in Nat /\ \A x \in 1..Len(b) : b[x] \in Ranges
  BY Elements DEF SortOf
<1>2. /\ left \in 0..Len(a) /\ right \in 0..Len(b) /\ left + right = k
      /\ SortOf(temp, k, First(a, left) \cup First(b, right))
      /\ NoneAfter(temp, k, a, left) /\ NoneAfter(temp, k, b, right)
  BY DEF LoopInv
<1>3. Take(a, b, s) =
        IF left < Len(a) /\ (right = Len(b) \/ merge(a[left + 1], b[right + 1]))
        THEN [left |-> left + 1, right |-> right, temp |-> Append(temp, a[left + 1])]
        ELSE [left |-> left, right |-> right + 1, temp |-> Append(temp, b[right + 1])]
  BY DEF Take
<1>. HIDE DEF left, right, temp
<1>5. left < Len(a) => left + 1 \in 1..Len(a)
  BY <1>1, <1>2
<1>6. right < Len(b) => right + 1 \in 1..Len(b)
  BY <1>1, <1>2
<1>7. CASE left < Len(a) /\ (right = Len(b) \/ merge(a[left + 1], b[right + 1]))
  <2>. DEFINE new == Append(temp, a[left + 1])
  <2>1. right = Len(b) \/ NotAfter(a[left + 1], b[right + 1])
    <3>1. right # Len(b) => right < Len(b)
      BY <1>1, <1>2
    <3>. QED  BY <1>1, <1>5, <1>6, <1>7, <3>1, MergePrecedes, PrecedesNotAfter
  <2>2. left + 1 \in 0..Len(a) /\ (left + 1) + right = k + 1
    BY <1>1, <1>2, <1>7
  <2>3. /\ SortOf(new, k + 1, First(a, left + 1) \cup First(b, right))
        /\ NoneAfter(new, k + 1, a, left + 1) /\ NoneAfter(new, k + 1, b, right)
    BY <1>2, <1>7, <2>1, TakeOne
  <2>. HIDE DEF new
  <2>4. LoopInv([left |-> left + 1, right |-> right, temp |-> new], a, b, k + 1)
    BY <1>2, <2>2, <2>3 DEF LoopInv
  <2>5. Take(a, b, s) = [left |-> left + 1, right |-> right, temp |-> new]
    BY <1>3, <1>7 DEF new
  <2>. QED  BY <2>4, <2>5
<1>8. CASE ~(left < Len(a) /\ (right = Len(b) \/ merge(a[left + 1], b[right + 1])))
  <2>. DEFINE new == Append(temp, b[right + 1])
  <2>1. right < Len(b)
    BY <1>1, <1>2, <1>8
  <2>2. left = Len(a) \/ NotAfter(b[right + 1], a[left + 1])
    <3>1. left # Len(a) => left < Len(a)
      BY <1>1, <1>2
    <3>. QED  BY <1>1, <1>5, <1>6, <1>8, <2>1, <3>1, MergePrecedes DEF NotAfter
  <2>3. right + 1 \in 0..Len(b) /\ left + (right + 1) = k + 1
    BY <1>1, <1>2, <2>1
  <2>4. First(b, right) \cup First(a, left) = First(a, left) \cup First(b, right)
        /\ First(b, right + 1) \cup First(a, left) = First(a, left) \cup First(b, right + 1)
        /\ B \cap A = {}
    OBVIOUS
  <2>5. SortOf(temp, k, First(b, right) \cup First(a, left))
    BY <1>2, <2>4
  <2>6. /\ SortOf(new, k + 1, First(b, right + 1) \cup First(a, left))
        /\ NoneAfter(new, k + 1, b, right + 1) /\ NoneAfter(new, k + 1, a, left)
    BY <1>2, <2>1, <2>2, <2>4, <2>5, TakeOne
  <2>. HIDE DEF new
  <2>7. SortOf(new, k + 1, First(a, left) \cup First(b, right + 1))
    BY <2>4, <2>6
  <2>8. LoopInv([left |-> left, right |-> right + 1, temp |-> new], a, b, k + 1)
    BY <1>2, <2>3, <2>6, <2>7 DEF LoopInv
  <2>9. Take(a, b, s) = [left |-> left, right |-> right + 1, temp |-> new]
    BY <1>3, <1>8 DEF new
  <2>. QED  BY <2>8, <2>9
<1>. QED  BY <1>7, <1>8

IsLoop(f, a, b, n) ==
  f = [k \in 0..n |-> IF k = 0 THEN [left |-> 0, right |-> 0, temp |-> << >>] ELSE Take(a, b, f[k - 1])]

LEMMA LoopExists == ASSUME NEW a, NEW b PROVE \A n \in Nat : \E f : IsLoop(f, a, b, n)
<1>. DEFINE T == {n \in Nat : \E f : IsLoop(f, a, b, n)}
            start == [left |-> 0, right |-> 0, temp |-> << >>]
<1>1. 0 \in T
  <2>1. IsLoop([k \in 0..0 |-> start], a, b, 0)
    BY DEF IsLoop
  <2>. QED  BY <2>1
<1>2. ASSUME NEW n \in Nat, n \in T PROVE n + 1 \in T
  <2>1. PICK f : IsLoop(f, a, b, n)
    BY <1>2
  <2>. DEFINE g == [k \in 0..(n + 1) |-> IF k <= n THEN f[k] ELSE Take(a, b, f[n])]
  <2>2. \A k \in 0..n : f[k] = IF k = 0 THEN start ELSE Take(a, b, f[k - 1])
    BY <2>1, Zenon DEF IsLoop
  <2>. HIDE DEF start
  <2>3. \A k \in 0..(n + 1) : k # 0 => k - 1 \in 0..n /\ (k \in 0..n \/ k = n + 1)
    OBVIOUS
  <2>4. (\A k \in 0..n : g[k] = f[k]) /\ g[n + 1] = Take(a, b, f[n]) /\ 0 \in 0..n
        /\ (n + 1) - 1 = n /\ n + 1 # 0
    OBVIOUS
  <2>5. \A k \in 0..(n + 1) : g[k] = IF k = 0 THEN start ELSE Take(a, b, g[k - 1])
    <3>. HIDE DEF g
    <3>1. \A k \in 0..n : k # 0 => g[k] = Take(a, b, g[k - 1])
      BY <2>2, <2>3, <2>4
    <3>. QED  BY <2>2, <2>3, <2>4, <3>1
  <2>6. g = [k \in 0..(n + 1) |-> g[k]]
    OBVIOUS
  <2>. HIDE DEF g
  <2>7. [k \in 0..(n + 1) |-> g[k]]
          = [k \in 0..(n + 1) |-> IF k = 0 THEN start ELSE Take(a, b, g[k - 1])]
    BY <2>5
  <2>8. IsLoop(g, a, b, n + 1)
    BY <2>6, <2>7, Zenon DEF IsLoop, start
  <2>. QED  BY <2>8
<1>. HIDE DEF T
<1>3. Nat \subseteq T
  BY <1>1, <1>2, Inductive
<1>. QED  BY <1>3 DEF T

\* Two halves in order, with no range in common, make one part in order.
LEMMA MergedSorts ==
  ASSUME KeysGiven,
         NEW a, NEW A, SortOf(a, Len(a), A), NEW b, NEW B, SortOf(b, Len(b), B), A \cap B = {}
  PROVE  SortOf(Merged(a, b), Len(a) + Len(b), A \cup B)
<1>. DEFINE n == Len(a) + Len(b)
            f == CHOOSE g : IsLoop(g, a, b, n)
            T == {k \in Nat : k <= n => LoopInv(f[k], a, b, k)}
            start == [left |-> 0, right |-> 0, temp |-> << >>]
<1>1. /\ Len(a) \in Nat /\ DOMAIN a = 1..Len(a)
      /\ Len(b) \in Nat /\ DOMAIN b = 1..Len(b) /\ n \in Nat
  BY DEF SortOf
<1>2. IsLoop(f, a, b, n)
  BY <1>1, LoopExists
<1>3. Merged(a, b) = f[n].temp
  BY DEF Merged, IsLoop
<1>. HIDE DEF f
<1>4. \A k \in 0..n : f[k] = IF k = 0 THEN start ELSE Take(a, b, f[k - 1])
  BY <1>2, Zenon DEF IsLoop
<1>5. 0 \in T
  <2>1. f[0] = start
    <3>1. 0 \in 0..n
      BY <1>1
    <3>. QED  BY <1>4, <3>1, Zenon
  <2>2. << >> \in Seq(Ranges) /\ Len(<< >>) = 0 /\ ToSet(<< >>) = {}
    BY DEF ToSet
  <2>3. Distinct(<< >>) /\ InOrder(<< >>)
    BY DEF Distinct, InOrder
  <2>4. First(a, 0) \cup First(b, 0) = {}
    BY DEF First
  <2>5. SortOf(<< >>, 0, First(a, 0) \cup First(b, 0))
    BY <2>2, <2>3, <2>4 DEF SortOf
  <2>6. NoneAfter(<< >>, 0, a, 0) /\ NoneAfter(<< >>, 0, b, 0)
    BY DEF NoneAfter
  <2>7. start.left = 0 /\ start.right = 0 /\ start.temp = << >>
        /\ start = [left |-> 0, right |-> 0, temp |-> << >>]
    OBVIOUS
  <2>8. 0 \in 0..Len(a) /\ 0 \in 0..Len(b) /\ 0 + 0 = 0
    BY <1>1
  <2>. HIDE DEF start
  <2>9. LoopInv(start, a, b, 0)
    BY <2>5, <2>6, <2>7, <2>8 DEF LoopInv
  <2>. QED  BY <2>1, <2>9
<1>. HIDE DEF start
<1>6. ASSUME NEW k \in Nat, k \in T PROVE k + 1 \in T
  <2>. SUFFICES ASSUME k + 1 <= n PROVE LoopInv(f[k + 1], a, b, k + 1)
    OBVIOUS
  <2>1. k + 1 \in 0..n /\ (k + 1) - 1 = k /\ k + 1 # 0 /\ k < n
    BY <1>1
  <2>2. f[k + 1] = Take(a, b, f[k])
    BY <1>4, <2>1
  <2>3. LoopInv(f[k], a, b, k)
    BY <1>1, <1>6
  <2>. QED  BY <2>1, <2>2, <2>3, TakeKeeps
<1>. HIDE DEF T
<1>7. n \in T
  BY <1>1, <1>5, <1>6, Inductive
<1>8. LoopInv(f[n], a, b, n)
  BY <1>1, <1>7 DEF T
<1>9. f[n].left = Len(a) /\ f[n].right = Len(b)
  BY <1>1, <1>8 DEF LoopInv
<1>10. First(a, Len(a)) = A /\ First(b, Len(b)) = B
  BY <1>1 DEF First, SortOf, ToSet
<1>. QED  BY <1>3, <1>8, <1>9, <1>10 DEF LoopInv

-----------------------------------------------------------------------------
(* The halving *)

half(t) == SubSeq(t, 1, Len(t) \div 2)
other(t) == SubSeq(t, Len(t) \div 2 + 1, Len(t))
Sorted(f, t) == IF Len(t) < MIN_MERGE_SIZE THEN inserted(t) ELSE Merged(f[half(t)], f[other(t)])

LEMMA Halves ==
  ASSUME SortAssumption, NEW t \in Seq(Ranges), ~(Len(t) < MIN_MERGE_SIZE)
  PROVE  \E m \in Nat :
           /\ m < Len(t) /\ 0 < m
           /\ half(t) \in Seq(Ranges) /\ Len(half(t)) = m
           /\ \A x \in 1..m : half(t)[x] = t[x]
           /\ other(t) \in Seq(Ranges) /\ Len(other(t)) = Len(t) - m
           /\ \A x \in 1..(Len(t) - m) : other(t)[x] = t[m + x]
<1>. DEFINE m == Len(t) \div 2
            n == Len(t)
<1>1. n \in Nat /\ \A x \in 1..n : t[x] \in Ranges
  BY Elements
<1>2. MIN_MERGE_SIZE \in Nat /\ MIN_MERGE_SIZE >= 2
  BY DEF SortAssumption
<1>3. m \in Nat /\ m < n /\ 0 < m
  BY <1>1, <1>2
<1>4. half(t) = SubSeq(t, 1, m) /\ other(t) = SubSeq(t, m + 1, n)
  BY DEF half, other
<1>. HIDE DEF m
<1>5. half(t) \in Seq(Ranges) /\ Len(half(t)) = m /\ \A x \in 1..m : half(t)[x] = t[x]
  <2>1. \A x \in 1..m : t[x] \in Ranges
    BY <1>1, <1>3
  <2>. QED  BY <1>1, <1>3, <1>4, <2>1, SubSeqProperties
<1>6. /\ other(t) \in Seq(Ranges) /\ Len(other(t)) = n - m
      /\ \A x \in 1..(n - m) : other(t)[x] = t[m + x]
  <2>1. \A x \in (m + 1)..n : t[x] \in Ranges
    BY <1>1, <1>3
  <2>2. other(t) \in Seq(Ranges) /\ Len(other(t)) = (IF m + 1 <= n THEN n - (m + 1) + 1 ELSE 0)
        /\ \A x \in 1..(n - (m + 1) + 1) : other(t)[x] = t[m + 1 + x - 1]
    BY <1>1, <1>3, <1>4, <2>1, SubSeqProperties
  <2>3. Len(other(t)) = n - m
    BY <1>1, <1>3, <2>2
  <2>4. \A x \in 1..(n - m) : other(t)[x] = t[m + x]
    <3>1. \A x \in 1..(n - m) : x \in 1..(n - (m + 1) + 1) /\ m + 1 + x - 1 = m + x
      BY <1>1, <1>3
    <3>. QED  BY <2>2, <3>1
  <2>. QED  BY <2>2, <2>3, <2>4
<1>. QED  BY <1>3, <1>5, <1>6

\* The function on the arrays of at most n ranges, and on all of them.
UpTo(n) == {t \in Seq(Ranges) : Len(t) <= n}
IsSort(f, n) == f = [t \in UpTo(n) |-> Sorted(f, t)]

LEMMA SortStep ==
  ASSUME SortAssumption, NEW n \in Nat, NEW f, NEW g,
         \A t \in UpTo(n) : g[t] = f[t], NEW t \in UpTo(n + 1)
  PROVE  Sorted(g, t) = Sorted(f, t)
<1>1. t \in Seq(Ranges) /\ Len(t) \in Nat /\ Len(t) <= n + 1
  BY DEF UpTo
<1>2. CASE Len(t) < MIN_MERGE_SIZE
  BY <1>2 DEF Sorted
<1>3. CASE ~(Len(t) < MIN_MERGE_SIZE)
  <2>1. PICK m \in Nat : /\ m < Len(t) /\ 0 < m
                         /\ half(t) \in Seq(Ranges) /\ Len(half(t)) = m
                         /\ other(t) \in Seq(Ranges) /\ Len(other(t)) = Len(t) - m
    BY <1>1, <1>3, Halves
  <2>2. m <= n /\ Len(t) - m <= n
    BY <1>1, <2>1
  <2>3. half(t) \in UpTo(n) /\ other(t) \in UpTo(n)
    BY <2>1, <2>2 DEF UpTo
  <2>. QED  BY <1>3, <2>3 DEF Sorted
<1>. QED  BY <1>2, <1>3

LEMMA SortUpTo == ASSUME SortAssumption PROVE \A n \in Nat : \E f : IsSort(f, n)
<1>. DEFINE T == {n \in Nat : \E f : IsSort(f, n)}
<1>1. 0 \in T
  <2>. DEFINE f == [t \in UpTo(0) |-> inserted(t)]
  <2>1. ASSUME NEW g, NEW t \in UpTo(0) PROVE Sorted(g, t) = inserted(t)
    <3>1. Len(t) < MIN_MERGE_SIZE
      BY DEF UpTo, SortAssumption
    <3>. QED  BY <3>1 DEF Sorted
  <2>2. IsSort(f, 0)
    <3>1. \A t \in UpTo(0) : Sorted(f, t) = inserted(t)
      BY <2>1
    <3>2. f = [t \in UpTo(0) |-> Sorted(f, t)]
      BY <3>1
    <3>. QED  BY <3>2 DEF IsSort
  <2>. QED  BY <2>2
<1>2. ASSUME NEW n \in Nat, n \in T PROVE n + 1 \in T
  <2>1. PICK f : IsSort(f, n)
    BY <1>2
  <2>. DEFINE g == [t \in UpTo(n + 1) |-> Sorted(f, t)]
  <2>2. \A t \in UpTo(n) : f[t] = Sorted(f, t)
    BY <2>1, Zenon DEF IsSort
  <2>3. \A t \in UpTo(n) : t \in UpTo(n + 1)
    <3>1. \A t \in Seq(Ranges) : Len(t) <= n => Len(t) <= n + 1
      OBVIOUS
    <3>. QED  BY <3>1 DEF UpTo
  <2>4. \A t \in UpTo(n) : g[t] = f[t]
    BY <2>2, <2>3
  <2>5. \A t \in UpTo(n + 1) : Sorted(g, t) = Sorted(f, t)
    <3>. HIDE DEF g
    <3>. QED  BY <2>4, SortStep
  <2>6. g = [t \in UpTo(n + 1) |-> Sorted(g, t)]
    BY <2>5
  <2>7. IsSort(g, n + 1)
    BY <2>6, Zenon DEF IsSort
  <2>. QED  BY <2>7
<1>. HIDE DEF T
<1>3. Nat \subseteq T
  BY <1>1, <1>2, Inductive
<1>. QED  BY <1>3 DEF T

\* Two such functions do not contradict each other.
LEMMA SortAgrees ==
  ASSUME SortAssumption, NEW n \in Nat, NEW f, IsSort(f, n), NEW m \in Nat, NEW g, IsSort(g, m),
         NEW u \in UpTo(n), u \in UpTo(m)
  PROVE  f[u] = g[u]
<1>. DEFINE T == {k \in Nat : \A t \in UpTo(k) : t \in UpTo(n) /\ t \in UpTo(m) => f[t] = g[t]}
<1>1. (\A t \in UpTo(n) : f[t] = Sorted(f, t)) /\ (\A t \in UpTo(m) : g[t] = Sorted(g, t))
  BY Zenon DEF IsSort
<1>2. \A k \in Nat : UpTo(k) \subseteq Seq(Ranges) /\ \A t \in UpTo(k) : Len(t) \in Nat /\ Len(t) <= k
  BY DEF UpTo
<1>3. 0 \in T
  <2>1. \A t \in UpTo(0) : Len(t) < MIN_MERGE_SIZE
    BY DEF UpTo, SortAssumption
  <2>. QED  BY <1>1, <2>1 DEF Sorted
<1>4. ASSUME NEW k \in Nat, k \in T PROVE k + 1 \in T
  <2>. SUFFICES ASSUME NEW t \in UpTo(k + 1), t \in UpTo(n), t \in UpTo(m) PROVE f[t] = g[t]
    OBVIOUS
  <2>1. CASE Len(t) < MIN_MERGE_SIZE
    BY <1>1, <2>1 DEF Sorted
  <2>2. CASE ~(Len(t) < MIN_MERGE_SIZE)
    <3>1. PICK l \in Nat : /\ l < Len(t) /\ 0 < l
                           /\ half(t) \in Seq(Ranges) /\ Len(half(t)) = l
                           /\ other(t) \in Seq(Ranges) /\ Len(other(t)) = Len(t) - l
      BY <1>2, <2>2, Halves
    <3>2. Len(t) \in Nat /\ Len(t) <= k + 1 /\ Len(t) <= n /\ Len(t) <= m
      BY <1>2
    <3>3. l <= k /\ l <= n /\ l <= m /\ Len(t) - l <= k /\ Len(t) - l <= n /\ Len(t) - l <= m
      BY <3>1, <3>2
    <3>4. /\ half(t) \in UpTo(k) /\ half(t) \in UpTo(n) /\ half(t) \in UpTo(m)
          /\ other(t) \in UpTo(k) /\ other(t) \in UpTo(n) /\ other(t) \in UpTo(m)
      BY <3>1, <3>3 DEF UpTo
    <3>5. f[half(t)] = g[half(t)] /\ f[other(t)] = g[other(t)]
      BY <1>4, <3>4
    <3>. QED  BY <1>1, <2>2, <3>5 DEF Sorted
  <2>. QED  BY <2>1, <2>2
<1>. HIDE DEF T
<1>5. Len(u) \in T
  BY <1>2, <1>3, <1>4, Inductive
<1>6. u \in UpTo(Len(u))
  BY <1>2 DEF UpTo
<1>. QED  BY <1>5, <1>6 DEF T

LEMMA SortExists ==
  ASSUME SortAssumption PROVE \E f : f = [t \in Seq(Ranges) |-> Sorted(f, t)]
<1>. DEFINE G(n) == CHOOSE g : IsSort(g, n)
            F == [t \in Seq(Ranges) |-> G(Len(t))[t]]
<1>1. \A n \in Nat : IsSort(G(n), n)
  BY SortUpTo
<1>. HIDE DEF G
<1>2. \A n \in Nat : \A t \in UpTo(n) : G(n)[t] = Sorted(G(n), t)
  BY <1>1, Zenon DEF IsSort
<1>3. \A t \in Seq(Ranges) : Len(t) \in Nat /\ t \in UpTo(Len(t))
  BY DEF UpTo
<1>4. \A n \in Nat : \A t \in UpTo(n) : F[t] = G(n)[t]
  <2>. SUFFICES ASSUME NEW n \in Nat, NEW t \in UpTo(n) PROVE G(Len(t))[t] = G(n)[t]
    BY DEF UpTo
  <2>1. t \in Seq(Ranges)
    BY DEF UpTo
  <2>. HIDE DEF F
  <2>. QED  BY <1>1, <1>3, <2>1, SortAgrees
<1>5. \A t \in Seq(Ranges) : F[t] = Sorted(F, t)
  <2>. SUFFICES ASSUME NEW t \in Seq(Ranges) PROVE F[t] = Sorted(F, t)
    OBVIOUS
  <2>. HIDE DEF F
  <2>1. F[t] = Sorted(G(Len(t)), t)
    BY <1>2, <1>3, <1>4
  <2>2. t \in UpTo(Len(t) + 1)
    BY <1>3 DEF UpTo
  <2>3. Sorted(F, t) = Sorted(G(Len(t)), t)
    BY <1>3, <1>4, <2>2, SortStep
  <2>. QED  BY <2>1, <2>3
<1>6. F = [t \in Seq(Ranges) |-> F[t]]
  OBVIOUS
<1>. HIDE DEF F
<1>7. F = [t \in Seq(Ranges) |-> Sorted(F, t)]
  BY <1>5, <1>6
<1>. QED  BY <1>7

LEMMA SortIs ==
  ASSUME SortAssumption
  PROVE  \A t \in Seq(Ranges) : mergesort_ranges[t] = Sorted(mergesort_ranges, t)
<1>1. mergesort_ranges = CHOOSE f : f = [t \in Seq(Ranges) |-> Sorted(f, t)]
  BY Zenon DEF mergesort_ranges, Sorted, half, other
<1>2. mergesort_ranges = [t \in Seq(Ranges) |-> Sorted(mergesort_ranges, t)]
  BY <1>1, SortExists, Zenon
<1>. QED  BY <1>2, Zenon

\* Every array of ranges is sorted.
LEMMA MergesortSorts ==
  ASSUME SortAssumption, KeysGiven, NEW u \in Seq(Ranges), Distinct(u)
  PROVE  SortOf(mergesort_ranges[u], Len(u), ToSet(u))
<1>. DEFINE Done(t) == Distinct(t) => SortOf(mergesort_ranges[t], Len(t), ToSet(t))
            T == {k \in Nat : \A t \in UpTo(k) : Done(t)}
<1>1. ASSUME NEW t \in Seq(Ranges), Len(t) < MIN_MERGE_SIZE PROVE Done(t)
  <2>1. mergesort_ranges[t] = inserted(t)
    BY <1>1, SortIs DEF Sorted
  <2>. QED  BY <2>1, InsertedSorts
<1>2. 0 \in T
  <2>1. \A t \in UpTo(0) : t \in Seq(Ranges) /\ Len(t) < MIN_MERGE_SIZE
    BY DEF UpTo, SortAssumption
  <2>. HIDE DEF Done
  <2>. QED  BY <1>1, <2>1
<1>3. ASSUME NEW k \in Nat, k \in T PROVE k + 1 \in T
  <2>. SUFFICES ASSUME NEW t \in UpTo(k + 1), Distinct(t), ~(Len(t) < MIN_MERGE_SIZE)
                PROVE  SortOf(mergesort_ranges[t], Len(t), ToSet(t))
    <3>1. \A t \in UpTo(k + 1) : t \in Seq(Ranges)
      BY DEF UpTo
    <3>. QED  BY <1>1, <3>1
  <2>1. t \in Seq(Ranges) /\ Len(t) \in Nat /\ Len(t) <= k + 1 /\ DOMAIN t = 1..Len(t)
    BY DEF UpTo
  <2>2. PICK m \in Nat :
           /\ m < Len(t) /\ 0 < m
           /\ half(t) \in Seq(Ranges) /\ Len(half(t)) = m
           /\ \A x \in 1..m : half(t)[x] = t[x]
           /\ other(t) \in Seq(Ranges) /\ Len(other(t)) = Len(t) - m
           /\ \A x \in 1..(Len(t) - m) : other(t)[x] = t[m + x]
    BY <2>1, Halves
  <2>. DEFINE a == half(t)
              b == other(t)
              n == Len(t)
  <2>3. mergesort_ranges[t] = Merged(mergesort_ranges[a], mergesort_ranges[b])
    BY <2>1, SortIs DEF Sorted
  <2>4. DOMAIN a = 1..m /\ DOMAIN b = 1..(n - m) /\ n - m \in Nat
    BY <2>1, <2>2
  <2>5. a \in UpTo(k) /\ b \in UpTo(k)
    <3>1. m <= k /\ n - m <= k
      BY <2>1, <2>2
    <3>. QED  BY <2>2, <3>1 DEF UpTo
  <2>. HIDE DEF a, b, n
  <2>6. /\ \A x \in 1..m : x \in 1..n /\ a[x] = t[x]
        /\ \A x \in 1..(n - m) : m + x \in 1..n /\ b[x] = t[m + x]
    BY <2>1, <2>2 DEF a, b, n
  <2>7. \A x \in 1..n : x \in 1..m \/ (x - m \in 1..(n - m) /\ m + (x - m) = x)
    BY <2>1, <2>2 DEF n
  <2>8. \A x, y \in 1..n : t[x] = t[y] => x = y
    BY DEF Distinct, n
  <2>9. Distinct(a) /\ Distinct(b)
    <3>1. Distinct(a)
      BY <2>2, <2>6, <2>8 DEF Distinct, a
    <3>2. \A x, y \in 1..(n - m) : b[x] = b[y] => x = y
      <4>1. \A x, y \in 1..(n - m) : m + x = m + y => x = y
        BY <2>4
      <4>. QED  BY <2>6, <2>8, <4>1
    <3>. QED  BY <2>2, <3>1, <3>2 DEF Distinct, b, n
  <2>10. ToSet(a) \cap ToSet(b) = {}
    <3>1. \A x \in 1..m : \A y \in 1..(n - m) : a[x] # b[y]
      <4>1. \A x \in 1..m : \A y \in 1..(n - m) : x # m + y
        BY <2>2, <2>4
      <4>. QED  BY <2>6, <2>8, <4>1
    <3>. QED  BY <2>4, <3>1 DEF ToSet
  <2>11. ToSet(a) \cup ToSet(b) = ToSet(t)
    <3>1. ToSet(a) \cup ToSet(b) \subseteq ToSet(t)
      BY <2>1, <2>4, <2>6 DEF ToSet, n
    <3>2. \A x \in 1..n : t[x] \in ToSet(a) \cup ToSet(b)
      <4>1. \A x \in 1..m : t[x] \in ToSet(a)
        BY <2>4, <2>6 DEF ToSet
      <4>2. \A x \in 1..(n - m) : t[m + x] \in ToSet(b)
        BY <2>4, <2>6 DEF ToSet
      <4>. QED  BY <2>7, <4>1, <4>2
    <3>3. ToSet(t) \subseteq ToSet(a) \cup ToSet(b)
      BY <2>1, <3>2 DEF ToSet, n
    <3>. QED  BY <3>1, <3>3
  <2>12. Done(a) /\ Done(b)
    <3>. HIDE DEF Done
    <3>. QED  BY <1>3, <2>5
  <2>13. /\ SortOf(mergesort_ranges[a], m, ToSet(a))
         /\ SortOf(mergesort_ranges[b], n - m, ToSet(b))
    BY <2>2, <2>9, <2>12 DEF a, b, n
  <2>14. Len(mergesort_ranges[a]) = m /\ Len(mergesort_ranges[b]) = n - m
    BY <2>13 DEF SortOf
  <2>15. SortOf(Merged(mergesort_ranges[a], mergesort_ranges[b]),
                m + (n - m), ToSet(a) \cup ToSet(b))
    BY <2>10, <2>13, <2>14, MergedSorts
  <2>16. m + (n - m) = n
    BY <2>1, <2>2 DEF n
  <2>. QED  BY <2>3, <2>11, <2>15, <2>16 DEF n
<1>. HIDE DEF T
<1>4. Len(u) \in T /\ u \in UpTo(Len(u))
  BY <1>2, <1>3, Inductive DEF UpTo
<1>. QED  BY <1>4 DEF T

-----------------------------------------------------------------------------
(* The report *)

\* No two ranges of the array are out of order.
Ordered == \A x, y \in 1..Len(orig) : x < y =>
  IF config.reverse_order THEN ~Precedes(orig[x], orig[y]) ELSE ~Precedes(orig[y], orig[x])

(* The inductive invariant: the array holds each of its ranges once, and is in
   order from the sort on, first as it is without -r. *)
SortInv ==
  /\ config \in Options
  /\ pc \in {"sort", "flip", "output"}
  /\ orig \in Seq(Ranges) /\ Distinct(orig)
  /\ pc = "flip" => InOrder(orig)
  /\ pc = "output" => Ordered

LEMMA InvKeys == ASSUME SortAssumption, SortInv PROVE KeysGiven /\ config.reverse_order \in BOOLEAN
  BY DEF SortAssumption, SortInv, KeysGiven

LEMMA InitSort == ASSUME SortAssumption, Init PROVE SortInv
<1>1. orig \in Seq(Ranges) /\ \A x \in 1..Len(orig) : orig[x] \in Ranges
  BY Elements DEF Init, SortAssumption
<1>2. Distinct(orig)
  <2>1. \A x, y \in 1..Len(orig) : x # y => orig[x]["entry"] # orig[y]["entry"]
    BY <1>1 DEF Init, EntriesDiffer
  <2>. QED  BY <2>1 DEF Distinct
<1>. QED  BY <1>1, <1>2 DEF Init, SortInv

\* What a step makes of the array, the keys being the same.
LEMMA SortKeeps ==
  ASSUME SortAssumption, SortInv, Sort
  PROVE  /\ SortInv'
         /\ ToSet(orig') = ToSet(orig) /\ Len(orig') = Len(orig)
<1>1. KeysGiven /\ config.reverse_order \in BOOLEAN /\ orig \in Seq(Ranges) /\ Distinct(orig)
  BY InvKeys DEF SortInv
<1>2. orig' \in Seq(Ranges) /\ Len(orig') = Len(orig) /\ ToSet(orig') = ToSet(orig)
      /\ Distinct(orig') /\ InOrder(orig')
  <2>1. CASE config.sorts # << >>
    <3>1. SortOf(orig', Len(orig), ToSet(orig))
      BY <1>1, <2>1, MergesortSorts DEF Sort
    <3>. QED  BY <3>1 DEF SortOf
  <2>2. CASE config.sorts = << >>
    <3>1. orig' = orig
      BY <2>2 DEF Sort
    <3>2. InOrder(orig)
      BY <2>2 DEF InOrder, NotAfter, Precedes
    <3>3. InOrder(orig')
      BY <3>1, <3>2
    <3>. QED  BY <1>1, <3>1, <3>3
  <2>. QED  BY <2>1, <2>2
<1>3. InOrder(orig)'
  BY <1>2 DEF InOrder, NotAfter, Precedes, Sort
<1>4. Distinct(orig)' /\ config' = config /\ pc' = "flip"
  BY <1>2 DEF Distinct, Sort
<1>. QED  BY <1>2, <1>3, <1>4 DEF SortInv

LEMMA FlipKeeps ==
  ASSUME SortAssumption, SortInv, Flip
  PROVE  /\ SortInv'
         /\ ToSet(orig') = ToSet(orig) /\ Len(orig') = Len(orig)
<1>. DEFINE n == Len(orig)
<1>1. /\ config.reverse_order \in BOOLEAN /\ orig \in Seq(Ranges) /\ Distinct(orig)
      /\ InOrder(orig) /\ n \in Nat /\ DOMAIN orig = 1..n
      /\ \A x \in 1..n : orig[x] \in Ranges
  BY InvKeys, Elements DEF SortInv, Flip
<1>2. config' = config /\ pc' = "output"
  BY DEF Flip
<1>3. CASE config.reverse_order
  <2>1. orig' = [x \in 1..n |-> orig[n - x + 1]]
    BY <1>1, <1>3 DEF Flip, flip_ranges
  <2>2. \A x \in 1..n : n - x + 1 \in 1..n /\ n - (n - x + 1) + 1 = x
    BY <1>1
  <2>3. orig' \in Seq(Ranges) /\ Len(orig') = n /\ DOMAIN orig' = 1..n
    BY <1>1, <2>1, <2>2
  <2>4. \A x \in 1..n : orig'[x] = orig[n - x + 1]
    BY <2>1
  <2>. HIDE DEF n
  <2>5. ToSet(orig') = ToSet(orig)
    <3>1. ToSet(orig') \subseteq ToSet(orig)
      BY <1>1, <2>2, <2>3, <2>4 DEF ToSet
    <3>2. \A x \in 1..n : orig'[n - x + 1] = orig[x]
      BY <2>2, <2>4
    <3>3. ToSet(orig) \subseteq ToSet(orig')
      BY <1>1, <2>2, <2>3, <3>2 DEF ToSet
    <3>. QED  BY <3>1, <3>3
  <2>6. \A x, y \in 1..n : x < y => n - y + 1 < n - x + 1
    BY <1>1
  <2>7. Distinct(orig')
    <3>1. \A x, y \in 1..n : n - x + 1 = n - y + 1 => x = y
      BY <1>1
    <3>2. \A x, y \in 1..n : orig[x] = orig[y] => x = y
      BY <1>1 DEF Distinct, n
    <3>3. \A x, y \in 1..n : orig'[x] = orig'[y] => x = y
      BY <2>2, <2>4, <3>1, <3>2
    <3>. QED  BY <2>3, <3>3 DEF Distinct
  <2>8. \A x, y \in 1..n : x < y => ~Precedes(orig'[x], orig'[y])
    <3>1. \A x, y \in 1..n : x < y => ~Precedes(orig[y], orig[x])
      BY <1>1 DEF InOrder, NotAfter, n
    <3>. QED  BY <2>2, <2>4, <2>6, <3>1
  <2>9. Ordered'
    BY <1>2, <1>3, <2>3, <2>8 DEF Ordered, Precedes
  <2>10. Distinct(orig)'
    BY <2>7 DEF Distinct
  <2>. QED  BY <1>2, <2>3, <2>5, <2>9, <2>10 DEF SortInv, n
<1>4. CASE ~config.reverse_order
  <2>1. orig' = orig
    BY <1>4 DEF Flip
  <2>2. Ordered
    BY <1>1, <1>4 DEF Ordered, InOrder, NotAfter
  <2>3. Ordered' /\ Distinct(orig)'
    BY <1>1, <1>2, <2>1, <2>2 DEF Ordered, Precedes, Distinct
  <2>. QED  BY <1>1, <1>2, <2>1, <2>3 DEF SortInv
<1>. QED  BY <1>3, <1>4

LEMMA SortUnchanged ==
  ASSUME SortInv, UNCHANGED vars
  PROVE  SortInv' /\ ToSet(orig') = ToSet(orig) /\ Len(orig') = Len(orig)
  BY DEF vars, SortInv, Distinct, InOrder, NotAfter, Ordered, Precedes

THEOREM SortInvariant == Spec => []SortInv
<1>. USE SortAssumption
<1>1. Init => SortInv
  BY InitSort
<1>2. SortInv /\ [Next]_vars => SortInv'
  BY SortKeeps, FlipKeeps, SortUnchanged DEF Next, Terminated
<1>. QED  BY <1>1, <1>2, PTL DEF Spec

(* The array that the output functions read always holds ranges, each of them
   once: neither the insertions nor the merge loop nor flip_ranges copies one
   range over another. *)
THEOREM ArrayTyped == Spec => []TypeOK
<1>1. SortInv => TypeOK
  <2>. SUFFICES ASSUME SortInv PROVE TypeOK
    OBVIOUS
  <2>1. DOMAIN orig = 1..Len(orig) /\ \A x \in 1..Len(orig) : orig[x] \in Ranges
    BY Elements DEF SortInv
  <2>2. IsInjective(orig)
    BY <2>1 DEF SortInv, Distinct, IsInjective
  <2>. QED  BY <2>1, <2>2 DEF SortInv, TypeOK
<1>. QED  BY <1>1, SortInvariant, PTL

(* The report is in the order of the keys of -s, backwards with -r, for every
   array that prepare_data leaves, any number of keys and any MIN_MERGE_SIZE
   from two up: mergesort_ranges and flip_ranges leave no two ranges out of
   order. *)
THEOREM SortedReport == Spec => []ReportSorted
<1>1. SortInv => ReportSorted
  <2>. SUFFICES ASSUME SortInv PROVE ReportSorted
    OBVIOUS
  <2>1. DOMAIN orig = 1..Len(orig)
    BY Elements DEF SortInv
  <2>. QED  BY <2>1 DEF SortInv, ReportSorted, Ordered
<1>. QED  BY <1>1, SortInvariant, PTL

(* The sort and the flip lose no range of the array and add none. *)
THEOREM NoRangeLost == Spec => RangesKept
<1>. USE SortAssumption
<1>1. SortInv /\ [Next]_vars => [ToSet(orig') = ToSet(orig) /\ Len(orig') = Len(orig)]_vars
  BY SortKeeps, FlipKeeps, SortUnchanged DEF Next, Terminated
<1>. QED  BY <1>1, SortInvariant, PTL DEF Spec, RangesKept
=============================================================================
