---------------------------- MODULE CountingProofs ----------------------------
(***************************************************************************)
(* Proofs about do_counting for every number of leases, ranges, networks   *)
(* and addresses: type correctness, and that the single pass with a        *)
(* rewinding cursor counts every lease of every range exactly once.        *)
(***************************************************************************)
EXTENDS Counting, FiniteSetTheorems, SequenceTheorems, TLAPS

USE CountingAssumption

-----------------------------------------------------------------------------
(* Lists *)

(* Sorting keeps the length of a list and takes its elements from it: this
   is what prepare_data may rely on of HASH_SORT and qsort. *)
LEMMA RearrangementType ==
  ASSUME NEW S, NEW s \in Seq(S), NEW t \in Rearrangements(s)
  PROVE  /\ t \in Seq(S) /\ Len(t) = Len(s) /\ DOMAIN t = DOMAIN s
<1>1. PICK p \in Bijection(DOMAIN s, DOMAIN s) : t = [x \in DOMAIN s |-> s[p[x]]]
  BY DEF Rearrangements
<1>2. p \in [DOMAIN s -> DOMAIN s]
  BY DEF Bijection, Injection
<1>3. DOMAIN s = 1..Len(s) /\ Len(s) \in Nat
  OBVIOUS
<1>4. t \in [1..Len(s) -> S]
  BY <1>1, <1>2, <1>3
<1> QED
  BY <1>3, <1>4

(* Sorting keeps the addresses of the leases distinct, so that the sorted
   list is strictly increasing. *)
LEMMA RearrangementUnique ==
  ASSUME NEW S, NEW s \in Seq(S), NEW t \in Rearrangements(s), UniqueIps(s)
  PROVE  UniqueIps(t)
<1>1. PICK p \in Bijection(DOMAIN s, DOMAIN s) : t = [x \in DOMAIN s |-> s[p[x]]]
  BY DEF Rearrangements
<1>2. /\ p \in [DOMAIN s -> DOMAIN s]
      /\ \A x, y \in DOMAIN s : p[x] = p[y] => x = y
  BY DEF Bijection, Injection, IsInjective
<1>3. SUFFICES ASSUME NEW x \in DOMAIN t, NEW y \in DOMAIN t, t[x].ip = t[y].ip
               PROVE  x = y
  BY DEF UniqueIps
<1>4. x \in DOMAIN s /\ y \in DOMAIN s
  BY <1>1
<1>5. t[x] = s[p[x]] /\ t[y] = s[p[y]]
  BY <1>1, <1>4
<1>6. p[x] = p[y]
  BY <1>2, <1>3, <1>4, <1>5 DEF UniqueIps
<1> QED
  BY <1>2, <1>4, <1>6

-----------------------------------------------------------------------------
(* Type correctness *)

(* The size of a range is a number, also where 32 bit arithmetic wraps. *)
LEMMA SizeType == \A r \in RangeRec : get_range_size(r) \in Nat
<1>1. SUFFICES ASSUME NEW r \in RangeRec PROVE get_range_size(r) \in Nat
  OBVIOUS
<1>2. r.last - r.first + 1 \in Int /\ Word \in Nat /\ Word > 0
  BY DEF RangeRec, Addr
<1> QED
  BY <1>2 DEF get_range_size

(* Counting a lease keeps the counters numbers and changes one of them. *)
LEMMA Increment ==
  ASSUME NEW S, NEW f \in [S -> [LeaseTypes -> Nat]], NEW a \in S, NEW b \in LeaseTypes
  PROVE  LET g == [f EXCEPT ![a][b] = @ + 1] IN
           /\ g \in [S -> [LeaseTypes -> Nat]]
           /\ \A x \in S, y \in LeaseTypes :
                g[x][y] = IF x = a /\ y = b THEN f[x][y] + 1 ELSE f[x][y]
<1> DEFINE h == [f[a] EXCEPT ![b] = @ + 1]
           g == [f EXCEPT ![a] = h]
<1>1. f[a] \in [LeaseTypes -> Nat] /\ f[a][b] \in Nat
  OBVIOUS
<1>2. h \in [LeaseTypes -> Nat] /\ \A y \in LeaseTypes : h[y] = IF y = b THEN f[a][b] + 1 ELSE f[a][y]
  BY <1>1
<1> HIDE DEF h
<1>3. g \in [S -> [LeaseTypes -> Nat]] /\ \A x \in S : g[x] = IF x = a THEN h ELSE f[x]
  BY <1>2
<1>4. [f EXCEPT ![a][b] = @ + 1] = g
  BY DEF h
<1> HIDE DEF g
<1> QED
  BY <1>2, <1>3, <1>4

(* A cursor on a lease moves to the next lease or to NULL. *)
LEMMA NextLeaseType ==
  ASSUME TypeOK, l # NULL
  PROVE  /\ l \in DOMAIN leases
         /\ NextLease = IF l = Len(leases) THEN 0 ELSE l + 1
         /\ NextLease \in 0..Len(leases)
<1>1. Len(leases) \in Nat /\ l \in 0..Len(leases) /\ DOMAIN leases = 1..Len(leases)
  BY DEF TypeOK
<1>2. l \in 1..Len(leases)
  BY <1>1 DEF NULL
<1>3. NextLease = IF l = Len(leases) THEN 0 ELSE l + 1
  BY DEF NextLease, NULL
<1>4. NextLease \in 0..Len(leases)
  <2>1. CASE l = Len(leases)
    BY <1>1, <1>3, <2>1
  <2>2. CASE l # Len(leases)
    <3>1. NextLease = l + 1
      BY <1>3, <2>2
    <3>2. \A n \in Nat : \A a \in 1..n : a # n => a + 1 \in 0..n
      OBVIOUS
    <3> QED
      BY <1>1, <1>2, <2>2, <3>1, <3>2
  <2> QED
    BY <2>1, <2>2
<1> QED
  BY <1>1, <1>2, <1>3, <1>4

LEMMA TypeInit == Init => TypeOK
<1> SUFFICES ASSUME Init PROVE TypeOK
  OBVIOUS
<1>1. leases \in Seq(Lease) /\ Len(leases) \in 0..MaxLeases
  BY DEF Init
<1>2. ranges \in Seq(RangeRec) /\ Len(ranges) \in 0..MaxRanges
  BY DEF Init
<1>3. Zero \in [LeaseTypes -> Nat]
  BY DEF Zero
<1> QED
  BY <1>1, <1>2, <1>3 DEF Init, TypeOK, NULL

(* A step keeps the types. *)
LEMMA TypeStep == TypeOK /\ [Next]_vars => TypeOK'
<1> SUFFICES ASSUME TypeOK, [Next]_vars PROVE TypeOK'
  OBVIOUS
<1>0. /\ Len(leases) \in Nat /\ DOMAIN leases = 1..Len(leases)
      /\ Len(ranges) \in Nat /\ DOMAIN ranges = 1..Len(ranges)
  BY DEF TypeOK
<1>1. CASE PrepareData
  <2>1. /\ leases' \in Seq(Lease) /\ Len(leases') = Len(leases)
        /\ leases' \in Rearrangements(leases)
    BY <1>1, RearrangementType DEF PrepareData, SortedLeases, TypeOK
  <2>2. /\ ranges' \in Seq(RangeRec) /\ Len(ranges') = Len(ranges)
        /\ DOMAIN ranges' = DOMAIN ranges
    BY <1>1, RearrangementType DEF PrepareData, SortedRanges, TypeOK
  <2>3. l' \in 0..Len(leases')
    <3>1. leases' # << >> => Len(leases') > 0
      BY <2>1
    <3> QED
      BY <1>1, <2>1, <3>1 DEF PrepareData, Head1, NULL
  <2> QED
    BY <1>1, <2>1, <2>2, <2>3 DEF PrepareData, TypeOK
<1>2. CASE Rewind
  BY <1>0, <1>2 DEF Rewind, Above, NULL, TypeOK, inputs
<1>3. CASE StartScan
  <2>1. leases # << >> => Len(leases) > 0
    BY DEF TypeOK
  <2>2. l' \in 0..Len(leases)
    BY <1>0, <1>3, <2>1 DEF StartScan, Restart, Head1, NULL, TypeOK
  <2> QED
    BY <1>0, <1>3, <2>2 DEF StartScan, TypeOK, inputs
<1>4. CASE SkipLease
  <2>1. l' \in 0..Len(leases)
    BY <1>4, NextLeaseType DEF SkipLease, Reaches
  <2> QED
    BY <1>4, <2>1 DEF SkipLease, TypeOK, inputs
<1>5. CASE CountLease
  <2>1. l' \in 0..Len(leases)
    BY <1>5, NextLeaseType DEF CountLease, Reaches
  <2>2. l \in DOMAIN leases /\ i \in DOMAIN ranges
    BY <1>0, <1>5 DEF CountLease, Reaches, NULL, TypeOK
  <2> DEFINE t == leases[l].type
             n == ranges[i].net
  <2>3. t \in LeaseTypes /\ n \in Nets
    <3>1. leases[l] \in Lease /\ ranges[i] \in RangeRec
      BY <1>0, <2>2 DEF TypeOK
    <3> QED
      BY <3>1 DEF Lease, RangeRec
  <2>4. tally' = [tally EXCEPT ![i][t] = @ + 1] /\ net' = [net EXCEPT ![n][t] = @ + 1]
    BY <1>5 DEF CountLease
  <2>5. tally' \in [DOMAIN ranges -> [LeaseTypes -> Nat]]
    BY <2>2, <2>3, <2>4, Increment DEF TypeOK
  <2>6. net' \in [Nets -> [LeaseTypes -> Nat]]
    <3>1. net \in [Nets -> [LeaseTypes -> Nat]]
      BY DEF TypeOK
    <3> HIDE DEF t, n
    <3> QED
      BY <2>3, <2>4, <3>1, Increment
  <2> QED
    BY <1>5, <2>1, <2>5, <2>6 DEF CountLease, TypeOK, inputs
<1>6. CASE CloseRange
  <2>1. i \in DOMAIN ranges
    BY <1>0, <1>6 DEF CloseRange, TypeOK
  <2>2. ranges[i].net \in Nets /\ get_range_size(ranges[i]) \in Nat
    BY <2>1, SizeType DEF TypeOK, RangeRec
  <2>3. available' \in [Nets -> Nat]
    BY <1>6, <2>2 DEF CloseRange, TypeOK
  <2> QED
    BY <1>0, <1>6, <2>1, <2>3 DEF CloseRange, TypeOK, inputs
<1>7. CASE ResetDefault
  <2>1. Default \in Nets
    BY DEF Default, Nets
  <2>2. net' \in [Nets -> [LeaseTypes -> Nat]]
    BY <1>7, <2>1 DEF ResetDefault, TypeOK
  <2> QED
    BY <1>7, <2>1, <2>2 DEF ResetDefault, TypeOK, inputs
<1>8. CASE AddToTotal
  <2>1. Default \in Nets /\ k \in DOMAIN ranges
    BY <1>0, <1>8 DEF Default, Nets, AddToTotal, TypeOK
  <2>2. tally[k] \in [LeaseTypes -> Nat] /\ get_range_size(ranges[k]) \in Nat
    BY <2>1, SizeType DEF TypeOK
  <2>3. net' \in [Nets -> [LeaseTypes -> Nat]]
    BY <1>8, <2>1, <2>2 DEF AddToTotal, TypeOK
  <2>4. available' \in [Nets -> Nat]
    BY <1>8, <2>1, <2>2 DEF AddToTotal, TypeOK
  <2> QED
    BY <1>0, <1>8, <2>1, <2>3, <2>4 DEF AddToTotal, TypeOK, inputs
<1>9. CASE Return
  BY <1>9 DEF Return, TypeOK, inputs
<1>10. CASE UNCHANGED vars
  BY <1>10 DEF vars, TypeOK
<1> QED
  BY <1>1, <1>2, <1>3, <1>4, <1>5, <1>6, <1>7, <1>8, <1>9, <1>10
     DEF Next, Step, Terminated

(* The variables of do_counting keep their types: in particular the lease
   cursor is NULL or a lease of the list, whatever the ranges are. *)
THEOREM TypeCorrect == Spec => []TypeOK
BY TypeInit, TypeStep, PTL DEF Spec

-----------------------------------------------------------------------------
(* What the cursor has passed *)

(* The list and range positions that TypeOK gives, and the records there. *)
LEMMA Positions ==
  ASSUME TypeOK
  PROVE  /\ Len(leases) \in Nat /\ DOMAIN leases = 1..Len(leases)
         /\ Len(ranges) \in Nat /\ DOMAIN ranges = 1..Len(ranges)
         /\ \A x \in DOMAIN leases : leases[x].ip \in Int /\ leases[x].type \in LeaseTypes
         /\ \A j \in DOMAIN ranges : /\ ranges[j].first \in Int /\ ranges[j].last \in Int
                                    /\ ranges[j].net \in Nets
         /\ l \in Int /\ (l # NULL => l \in DOMAIN leases)
         /\ i \in Int /\ k \in Int
<1>1. /\ Len(leases) \in Nat /\ DOMAIN leases = 1..Len(leases)
      /\ Len(ranges) \in Nat /\ DOMAIN ranges = 1..Len(ranges)
  BY DEF TypeOK
<1>2. ASSUME NEW x \in DOMAIN leases
      PROVE  leases[x].ip \in Int /\ leases[x].type \in LeaseTypes
  <2>1. leases[x] \in Lease
    BY <1>1, <1>2 DEF TypeOK
  <2> QED
    BY <2>1 DEF Lease, Addr
<1>3. ASSUME NEW j \in DOMAIN ranges
      PROVE  ranges[j].first \in Int /\ ranges[j].last \in Int /\ ranges[j].net \in Nets
  <2>1. ranges[j] \in RangeRec
    BY <1>1, <1>3 DEF TypeOK
  <2> QED
    BY <2>1 DEF RangeRec, Addr
<1>4. l \in Int /\ i \in Int /\ k \in Int
  BY <1>1 DEF TypeOK
<1>5. l # NULL => l \in DOMAIN leases
  BY NextLeaseType
<1> QED
  BY <1>1, <1>2, <1>3, <1>4, <1>5

(* In the sorted list the addresses increase strictly. *)
LEMMA Increasing ==
  ASSUME TypeOK, SortedInv, pc # "prepare",
         NEW x \in DOMAIN leases, NEW y \in DOMAIN leases, x < y
  PROVE  leases[x].ip < leases[y].ip
<1>1. leases[x].ip <= leases[y].ip
  BY DEF SortedInv, LeasesSorted
<1>2. x \in Int /\ y \in Int
  BY Positions
<1>3. leases[x].ip # leases[y].ip
  BY <1>2 DEF SortedInv, UniqueIps
<1> QED
  BY <1>1, <1>3, Positions

(* The heart of the algorithm: when a scan starts nothing of the range is
   behind the cursor, whatever range was visited before it. *)
LEMMA NothingBehind ==
  ASSUME TypeOK, SortedInv, StartScan, NEW t \in LeaseTypes, NEW x \in Matching(i, t)
  PROVE  Restart # NULL /\ ~(x < Restart)
<1>1. x \in DOMAIN leases /\ leases[x].ip >= ranges[i].first /\ i \in DOMAIN ranges
  <2>1. i \in DOMAIN ranges
    BY Positions DEF StartScan, TypeOK
  <2> QED
    BY <2>1, Positions DEF Matching, InRange
<1>2. CASE l = NULL
  <2>1. leases # << >>
    BY <1>1
  <2>2. Restart = 1
    BY <1>2, <2>1 DEF Restart, Head1
  <2> QED
    BY <1>1, <2>2, Positions DEF NULL
<1>3. CASE l # NULL
  <2>1. Restart = l /\ l \in DOMAIN leases
    BY <1>3, Positions DEF Restart
  <2>2. leases[l].ip <= ranges[i].first
    BY <1>1, <1>3, <2>1, Positions DEF StartScan, Above
  <2>3. ASSUME x < l PROVE FALSE
    <3>1. leases[x].ip < leases[l].ip
      BY <1>1, <2>1, <2>3, Increasing DEF StartScan
    <3> QED
      BY <1>1, <2>1, <2>2, <3>1, Positions
  <2> QED
    BY <1>3, <2>1, <2>3
<1> QED
  BY <1>2, <1>3

(* When a scan ends nothing of the range is at or after the cursor. *)
LEMMA NothingAhead ==
  ASSUME TypeOK, SortedInv, CloseRange, NEW t \in LeaseTypes, NEW x \in Matching(i, t)
  PROVE  l = NULL \/ x < l
<1>1. SUFFICES ASSUME l # NULL, ~(x < l) PROVE FALSE
  OBVIOUS
<1>2. i \in DOMAIN ranges
  BY Positions DEF CloseRange, TypeOK
<1>3. x \in DOMAIN leases /\ leases[x].ip <= ranges[i].last
  BY <1>2, Positions DEF Matching, InRange
<1>4. l \in DOMAIN leases /\ leases[l].ip > ranges[i].last
  BY <1>1, <1>2, Positions DEF CloseRange, Reaches
<1>5. l = x \/ l < x
  BY <1>1, <1>3, <1>4, Positions
<1>6. leases[l].ip <= leases[x].ip
  BY <1>3, <1>4, <1>5, Increasing, Positions DEF CloseRange
<1> QED
  BY <1>2, <1>3, <1>4, <1>6, Positions

-----------------------------------------------------------------------------
(* The counters *)

(* The sets whose sizes the counters hold are finite. *)
LEMMA FiniteSeen ==
  ASSUME TypeOK
  PROVE  /\ \A j, t : IsFiniteSet(Matching(j, t)) /\ IsFiniteSet(Seen(j, t))
         /\ \A n, t : IsFiniteSet(NetSeen(n, t))
         /\ \A t : \A J \in SUBSET Int : J \subseteq DOMAIN ranges => IsFiniteSet(Pairs(J, t))
<1>1. IsFiniteSet(DOMAIN leases) /\ IsFiniteSet(DOMAIN ranges)
  BY Positions, FS_Interval
<1>2. IsFiniteSet((DOMAIN leases) \X (DOMAIN ranges))
  BY <1>1, FS_Product
<1>3. \A j, t : Matching(j, t) \subseteq DOMAIN leases /\ Seen(j, t) \subseteq DOMAIN leases
  BY DEF Matching, Seen
<1>4. \A n, t : NetSeen(n, t) \subseteq (DOMAIN leases) \X (DOMAIN ranges)
  BY DEF NetSeen, OfNet
<1>5. \A J, t : J \subseteq DOMAIN ranges => Pairs(J, t) \subseteq (DOMAIN leases) \X (DOMAIN ranges)
  BY DEF Pairs
<1> QED
  BY <1>1, <1>2, <1>3, <1>4, <1>5, FS_Subset

(* A step that counts no lease leaves the set of counted leases alone. *)
LEMMA SeenKept ==
  ASSUME TypeOK, PhaseInv, SortedInv,
         \/ Rewind \/ StartScan \/ SkipLease \/ CloseRange
         \/ ResetDefault \/ AddToTotal \/ Return \/ UNCHANGED vars,
         NEW j \in DOMAIN ranges, NEW t \in LeaseTypes
  PROVE  Seen(j, t)' = Seen(j, t)
<1>0. UNCHANGED inputs
  BY DEF Rewind, StartScan, SkipLease, CloseRange, ResetDefault, AddToTotal, Return, vars, inputs
<1>1. Matching(j, t)' = Matching(j, t)
  BY <1>0 DEF Matching, InRange, inputs
<1>2. j \in Int /\ i \in Int /\ l \in Int
  BY Positions
<1>3. CASE Rewind
  BY <1>1, <1>3 DEF Rewind, Seen
<1>4. CASE StartScan
  <2>1. i' = i /\ pc = "rewind" /\ pc' = "scan" /\ l' = Restart
    BY <1>4 DEF StartScan
  <2>2. CASE j = i
    <3>1. Seen(j, t) = {}
      BY <1>2, <2>1, <2>2 DEF Seen
    <3>2. \A x \in Matching(j, t) : l' # NULL /\ ~(x < l')
      BY <1>4, <2>1, <2>2, NothingBehind
    <3>3. \A x \in Matching(j, t)' : ~(j < i' \/ (l' = NULL \/ x < l'))
      BY <1>1, <1>2, <2>1, <2>2, <3>2
    <3> QED
      BY <3>1, <3>3 DEF Seen, NULL
  <2>3. CASE j # i
    BY <1>1, <2>1, <2>3 DEF Seen
  <2> QED
    BY <2>2, <2>3
<1>5. CASE SkipLease
  <2>1. i' = i /\ pc = "scan" /\ pc' = "scan" /\ l # NULL /\ l' = NextLease
    BY <1>5 DEF SkipLease, Reaches
  <2>2. CASE j = i
    <3>1. l \in DOMAIN leases /\ l \notin Matching(j, t)
      BY <1>5, <2>1, <2>2, Positions DEF SkipLease, Matching, InRange
    <3>2. \A x \in Matching(j, t) : x < l <=> (l' = NULL \/ x < l')
      <4>1. SUFFICES ASSUME NEW x \in Matching(j, t)
                     PROVE  x < l <=> (l' = NULL \/ x < l')
        OBVIOUS
      <4>2. x \in 1..Len(leases) /\ l \in 1..Len(leases) /\ Len(leases) \in Nat /\ x # l
        BY <3>1, <4>1, Positions DEF Matching
      <4>3. l' = IF l = Len(leases) THEN 0 ELSE l + 1
        BY <2>1, NextLeaseType
      <4> QED
        BY <4>2, <4>3 DEF NULL
    <3> QED
      BY <1>1, <2>1, <2>2, <3>2 DEF Seen, NULL
  <2>3. CASE j # i
    BY <1>1, <2>1, <2>3 DEF Seen
  <2> QED
    BY <2>2, <2>3
<1>6. CASE CloseRange
  <2>1. i' = i + 1 /\ pc = "scan" /\ pc' = "rewind"
    BY <1>6 DEF CloseRange
  <2>2. \A x \in Matching(i, t) : l = NULL \/ x < l
    BY <1>6, NothingAhead
  <2> QED
    BY <1>1, <1>2, <2>1, <2>2 DEF Seen
<1>7. CASE ResetDefault
  BY <1>1, <1>7 DEF ResetDefault, Seen
<1>8. CASE AddToTotal
  BY <1>1, <1>8 DEF AddToTotal, Seen
<1>9. CASE Return
  BY <1>1, <1>9 DEF Return, Seen
<1>10. CASE UNCHANGED vars
  BY <1>1, <1>10 DEF vars, Seen
<1> QED
  BY <1>3, <1>4, <1>5, <1>6, <1>7, <1>8, <1>9, <1>10

(* Counting a lease adds it, and nothing else, to what its range has seen;
   the lease was not there before. *)
LEMMA SeenGrows ==
  ASSUME TypeOK, CountLease, NEW j \in DOMAIN ranges, NEW t \in LeaseTypes
  PROVE  /\ l \in DOMAIN leases /\ i \in DOMAIN ranges
         /\ Seen(j, t)' = IF j = i /\ t = leases[l].type
                          THEN Seen(j, t) \cup {l} ELSE Seen(j, t)
         /\ l \notin Seen(i, t)
<1>1. /\ i' = i /\ pc = "scan" /\ pc' = "scan" /\ l # NULL /\ l' = NextLease
      /\ UNCHANGED inputs
  BY DEF CountLease, Reaches
<1>2. l \in DOMAIN leases /\ i \in DOMAIN ranges
  BY <1>1, Positions DEF TypeOK
<1>3. Matching(j, t)' = Matching(j, t)
  BY <1>1 DEF Matching, InRange, inputs
<1>4. l \in Matching(i, t) <=> t = leases[l].type
  BY <1>2, Positions DEF CountLease, Reaches, Matching, InRange
<1>5. \A x \in Matching(i, t) : (l' = NULL \/ x < l') <=> (x < l \/ x = l)
  <2>1. SUFFICES ASSUME NEW x \in Matching(i, t)
                 PROVE  (l' = NULL \/ x < l') <=> (x < l \/ x = l)
    OBVIOUS
  <2>2. x \in 1..Len(leases) /\ l \in 1..Len(leases) /\ Len(leases) \in Nat
    BY <1>2, <2>1, Positions DEF Matching
  <2>3. l' = IF l = Len(leases) THEN 0 ELSE l + 1
    BY <1>1, NextLeaseType
  <2> QED
    BY <2>2, <2>3 DEF NULL
<1>6. i \in Int /\ j \in Int /\ l \in Int
  BY Positions
<1>7. l \notin Seen(i, t)
  BY <1>1, <1>6 DEF Seen
<1>8. CASE j = i
  <2>1. Seen(j, t) = {x \in Matching(i, t) : x < l}
    BY <1>1, <1>6, <1>8 DEF Seen
  <2>2. Seen(j, t)' = {x \in Matching(i, t) : x < l \/ x = l}
    BY <1>1, <1>3, <1>5, <1>6, <1>8 DEF Seen, NULL
  <2> QED
    BY <1>2, <1>4, <1>7, <1>8, <2>1, <2>2
<1>9. CASE j # i
  BY <1>1, <1>2, <1>3, <1>7, <1>9 DEF Seen
<1> QED
  BY <1>8, <1>9

-----------------------------------------------------------------------------
(* The inductive step *)

\* The steps that leave the counters of the shared networks alone.
QuietStep == \/ Rewind \/ StartScan \/ SkipLease \/ CloseRange
             \/ ResetDefault \/ AddToTotal \/ Return \/ UNCHANGED vars

(* Before the first range is visited nothing has been counted. *)
LEMMA NothingSeen ==
  ASSUME TypeOK, i = 1, pc # "scan", NEW t \in LeaseTypes
  PROVE  /\ \A j \in DOMAIN ranges : Seen(j, t) = {}
         /\ \A n : NetSeen(n, t) = {}
<1>1. \A j \in DOMAIN ranges : Seen(j, t) = {}
  BY Positions DEF Seen
<1>2. \A n : NetSeen(n, t) = {}
  BY <1>1 DEF NetSeen, OfNet
<1> QED
  BY <1>1, <1>2

LEMMA InitCounting == Init => CountingInv
<1> SUFFICES ASSUME Init PROVE CountingInv
  OBVIOUS
<1>1. TypeOK
  BY TypeInit
<1>2. PhaseInv /\ SortedInv /\ TotalInv
  BY DEF Init, PhaseInv, SortedInv, TotalInv
<1>3. ASSUME NEW t \in LeaseTypes
      PROVE  /\ \A j \in DOMAIN ranges : Seen(j, t) = {}
             /\ \A n : NetSeen(n, t) = {}
  BY <1>1, NothingSeen DEF Init
<1>4. TallyInv
  BY <1>3, FS_EmptySet DEF Init, TallyInv, Zero
<1>5. NetInv
  BY <1>3, FS_EmptySet DEF Init, NetInv, Zero
<1> QED
  BY <1>1, <1>2, <1>4, <1>5 DEF CountingInv

(* prepare_data reorders both lists before anything has been counted. *)
LEMMA PrepareCounting ==
  ASSUME CountingInv, TypeOK', PrepareData
  PROVE  CountingInv'
<1> USE DEF CountingInv
<1>1. /\ pc = "prepare" /\ pc' = "rewind" /\ i = 1 /\ i' = 1 /\ k' = 1
      /\ UNCHANGED <<tally, net>>
  BY DEF PrepareData, PhaseInv
<1>2. leases' \in Rearrangements(leases) /\ LeasesSorted(leases')
  BY DEF PrepareData, SortedLeases
<1>3. SortedInv'
  <2>1. leases \in Seq(Lease) /\ UniqueIps(leases)
    BY DEF TypeOK, SortedInv
  <2>2. UniqueIps(leases')
    BY <1>2, <2>1, RearrangementUnique
  <2> QED
    BY <1>1, <1>2, <2>2 DEF SortedInv, UniqueIps, LeasesSorted
<1>4. PhaseInv' /\ TotalInv'
  BY <1>1 DEF PhaseInv, TotalInv
<1>5. DOMAIN ranges' = DOMAIN ranges
  BY RearrangementType DEF PrepareData, SortedRanges, TypeOK
<1>6. ASSUME NEW t \in LeaseTypes
      PROVE  /\ \A j \in DOMAIN ranges : Seen(j, t) = {}
             /\ \A n : NetSeen(n, t) = {}
  BY <1>1, NothingSeen
<1>7. ASSUME NEW t \in LeaseTypes
      PROVE  /\ \A j \in DOMAIN ranges' : Seen(j, t)' = {}
             /\ \A n : NetSeen(n, t)' = {}
  <2>1. \A j \in DOMAIN ranges' : Seen(j, t)' = {}
    BY <1>1, <1>5, Positions DEF Seen
  <2> QED
    BY <2>1 DEF NetSeen, OfNet
<1>8. TallyInv'
  BY <1>1, <1>5, <1>6, <1>7 DEF TallyInv
<1>9. NetInv'
  BY <1>1, <1>6, <1>7 DEF NetInv
<1> QED
  BY <1>3, <1>4, <1>8, <1>9

(* A step that counts no lease keeps the counters of ranges and networks. *)
LEMMA QuietCounting ==
  ASSUME CountingInv, QuietStep
  PROVE  TallyInv' /\ NetInv' /\ SortedInv'
<1> USE DEF CountingInv
<1>0. UNCHANGED <<inputs, tally>>
  BY DEF QuietStep, Rewind, StartScan, SkipLease, CloseRange, ResetDefault, AddToTotal, Return,
         vars, inputs
<1>1. \A j \in DOMAIN ranges, t \in LeaseTypes : Seen(j, t)' = Seen(j, t)
  BY SeenKept DEF QuietStep
<1>2. TallyInv'
  BY <1>0, <1>1 DEF TallyInv, inputs
<1>3. ASSUME NEW n \in Nets \ {Default}, NEW t \in LeaseTypes
      PROVE  net[n][t]' = net[n][t]
  <2>1. CASE ResetDefault
    BY <1>3, <2>1 DEF ResetDefault, TypeOK
  <2>2. CASE AddToTotal
    BY <1>3, <2>2 DEF AddToTotal, TypeOK
  <2> QED
    BY <2>1, <2>2 DEF QuietStep, Rewind, StartScan, SkipLease, CloseRange, Return, vars
<1>4. \A n, t : t \in LeaseTypes => NetSeen(n, t)' = NetSeen(n, t)
  BY <1>0, <1>1 DEF NetSeen, OfNet, inputs
<1>5. NetInv'
  BY <1>3, <1>4 DEF NetInv
<1>6. pc # "prepare" => pc' # "prepare"
  BY DEF QuietStep, Rewind, StartScan, SkipLease, CloseRange, ResetDefault, AddToTotal, Return, vars
<1>7. pc = "prepare" => pc' = "prepare"
  BY DEF QuietStep, Rewind, StartScan, SkipLease, CloseRange, ResetDefault, AddToTotal, Return, vars
<1>8. SortedInv'
  BY <1>0, <1>6, <1>7 DEF SortedInv, UniqueIps, LeasesSorted, inputs
<1> QED
  BY <1>2, <1>5, <1>8

(* Counting a lease adds one to the counter of its state, in the range and
   in the network of the range, and to no other counter. *)
LEMMA CountCounting ==
  ASSUME CountingInv, CountLease
  PROVE  TallyInv' /\ NetInv' /\ SortedInv'
<1> USE DEF CountingInv
<1>1. l \in DOMAIN leases /\ i \in DOMAIN ranges
  BY SeenGrows, Positions DEF CountLease, Reaches, TypeOK
<1> DEFINE ty == leases[l].type
           nt == ranges[i].net
<1>2. ty \in LeaseTypes /\ nt \in Nets
  BY <1>1, Positions
<1>3. tally' = [tally EXCEPT ![i][ty] = @ + 1] /\ net' = [net EXCEPT ![nt][ty] = @ + 1]
  BY DEF CountLease
<1>4. UNCHANGED inputs /\ pc' = "scan" /\ pc = "scan"
  BY DEF CountLease
<1> HIDE DEF ty, nt
<1>5. \A j \in DOMAIN ranges, t \in LeaseTypes :
        tally'[j][t] = IF j = i /\ t = ty THEN tally[j][t] + 1 ELSE tally[j][t]
  <2>1. tally \in [DOMAIN ranges -> [LeaseTypes -> Nat]]
    BY DEF TypeOK
  <2> HIDE DEF CountingInv
  <2> QED
    BY <1>1, <1>2, <1>3, <2>1, Increment
<1>6. \A n \in Nets, t \in LeaseTypes :
        net'[n][t] = IF n = nt /\ t = ty THEN net[n][t] + 1 ELSE net[n][t]
  <2>1. net \in [Nets -> [LeaseTypes -> Nat]]
    BY DEF TypeOK
  <2> HIDE DEF CountingInv
  <2> QED
    BY <1>2, <1>3, <2>1, Increment
<1>7. \A j \in DOMAIN ranges, t \in LeaseTypes :
        /\ Seen(j, t)' = IF j = i /\ t = ty THEN Seen(j, t) \cup {l} ELSE Seen(j, t)
        /\ l \notin Seen(i, t)
  BY SeenGrows DEF ty
<1>8. TallyInv'
  <2>1. SUFFICES ASSUME NEW j \in DOMAIN ranges, NEW t \in LeaseTypes
                 PROVE  tally'[j][t] = Cardinality(Seen(j, t)')
    BY <1>4 DEF TallyInv, inputs
  <2>2. CASE j = i /\ t = ty
    BY <1>5, <1>7, <2>1, <2>2, FiniteSeen, FS_AddElement DEF TallyInv
  <2>3. CASE ~(j = i /\ t = ty)
    BY <1>5, <1>7, <2>1, <2>3 DEF TallyInv
  <2> QED
    BY <2>2, <2>3
<1>9. NetInv'
  <2>1. SUFFICES ASSUME NEW n \in Nets \ {Default}, NEW t \in LeaseTypes
                 PROVE  net'[n][t] = Cardinality(NetSeen(n, t)')
    BY DEF NetInv
  <2>2. OfNet(n)' = OfNet(n) /\ OfNet(n) \subseteq DOMAIN ranges /\ (i \in OfNet(n) <=> n = nt)
    BY <1>1, <1>4 DEF OfNet, inputs, nt
  <2>3. NetSeen(n, t)' = {p \in (DOMAIN leases) \X OfNet(n) : p[1] \in Seen(p[2], t)'}
    BY <1>4, <2>2 DEF NetSeen, inputs
  <2>4. CASE n = nt /\ t = ty
    <3>1. NetSeen(n, t)' = NetSeen(n, t) \cup {<<l, i>>}
      BY <1>1, <1>7, <2>2, <2>3, <2>4 DEF NetSeen
    <3>2. <<l, i>> \notin NetSeen(n, t)
      BY <1>1, <1>7, <2>1 DEF NetSeen
    <3>3. IsFiniteSet(NetSeen(n, t))
      BY FiniteSeen
    <3>4. Cardinality(NetSeen(n, t)') = Cardinality(NetSeen(n, t)) + 1
      BY <3>1, <3>2, <3>3, FS_AddElement
    <3>5. net[n][t] = Cardinality(NetSeen(n, t))
      BY <2>1 DEF NetInv
    <3> QED
      BY <1>6, <2>1, <2>4, <3>4, <3>5
  <2>5. CASE ~(n = nt /\ t = ty)
    <3>1. NetSeen(n, t)' = NetSeen(n, t)
      BY <1>1, <1>7, <2>2, <2>3, <2>5 DEF NetSeen
    <3> QED
      BY <1>6, <2>1, <2>5, <3>1 DEF NetInv
  <2> QED
    BY <2>4, <2>5
<1>10. SortedInv'
  BY <1>4 DEF SortedInv, UniqueIps, LeasesSorted, inputs
<1> QED
  BY <1>8, <1>9, <1>10

(* One more range adds its leases to the pairs of "All networks". *)
LEMMA PairsGrow ==
  ASSUME TypeOK, k \in DOMAIN ranges, NEW t \in LeaseTypes
  PROVE  Cardinality(Pairs(1..k, t)) = Cardinality(Pairs(1..(k - 1), t)) + Cardinality(Matching(k, t))
<1> DEFINE M == Matching(k, t)
           C == {<<x, k>> : x \in M}
           f == [x \in M |-> <<x, k>>]
<1>1. k \in 1..Len(ranges) /\ Len(ranges) \in Nat /\ DOMAIN ranges = 1..Len(ranges)
  BY Positions
<1>2. 1..k = 1..(k - 1) \cup {k} /\ k \notin 1..(k - 1) /\ 1..(k - 1) \subseteq DOMAIN ranges
      /\ 1..(k - 1) \in SUBSET Int
  BY <1>1
<1>3. IsFiniteSet(M) /\ IsFiniteSet(Pairs(1..(k - 1), t))
  BY <1>2, FiniteSeen
<1>4. Pairs(1..k, t) = Pairs(1..(k - 1), t) \cup C
  BY <1>2 DEF Pairs, Matching
<1>5. Pairs(1..(k - 1), t) \cap C = {}
  BY <1>2 DEF Pairs
<1>6. f \in Bijection(M, C)
  BY DEF Bijection, Injection, Surjection, IsInjective
<1>7. IsFiniteSet(C) /\ Cardinality(C) = Cardinality(M)
  BY <1>3, <1>6, FS_Bijection DEF ExistsBijection
<1>8. Cardinality(M) \in Nat /\ Cardinality(Pairs(1..(k - 1), t)) \in Nat
  BY <1>3, FS_CardinalityType
<1> DEFINE P == Pairs(1..(k - 1), t)
<1> HIDE DEF M, C, f, P
<1>9. Cardinality(P \cup C) = Cardinality(P) + Cardinality(C) - Cardinality(P \cap C)
  BY <1>3, <1>7, FS_Union DEF P
<1>10. Cardinality(P \cap C) = 0
  BY <1>5, FS_EmptySet DEF P
<1>11. Cardinality(P \cup C) = Cardinality(P) + Cardinality(M)
  BY <1>7, <1>8, <1>9, <1>10 DEF P
<1> QED
  BY <1>4, <1>11 DEF M, P

(* The last loop adds up the counters of the ranges, which no step changes
   any more: "All networks" has the leases of the ranges before k. *)
LEMMA TotalStep ==
  ASSUME CountingInv, [Next]_vars
  PROVE  PhaseInv' /\ (~PrepareData => TotalInv')
<1> USE DEF CountingInv
<1>0. Len(ranges) \in Nat /\ DOMAIN ranges = 1..Len(ranges) /\ i \in Int /\ k \in Int
  BY Positions
<1>1. CASE PrepareData
  BY <1>1 DEF PrepareData, PhaseInv
<1>2. CASE Rewind \/ StartScan \/ SkipLease \/ CountLease \/ CloseRange
  BY <1>2 DEF Rewind, StartScan, SkipLease, CountLease, CloseRange, PhaseInv, TotalInv, inputs
<1>3. CASE ResetDefault
  <2>1. i = Len(ranges) + 1 /\ k = 1
    BY <1>0, <1>3 DEF ResetDefault, PhaseInv, TypeOK
  <2>2. PhaseInv'
    BY <1>3, <2>1 DEF ResetDefault, PhaseInv, inputs
  <2>3. Default \in Nets
    BY DEF Default, Nets
  <2>4. \A t \in {"ACTIVE", "FREE"} : net'[Default][t] = 0
    BY <1>3, <2>3 DEF ResetDefault, TypeOK, Cleared, LeaseTypes
  <2>5. \A t : Pairs(1..(k - 1), t)' = {}
    BY <1>3, <2>1 DEF ResetDefault, Pairs
  <2>6. TotalInv'
    BY <2>4, <2>5, FS_EmptySet DEF TotalInv
  <2> QED
    BY <2>2, <2>6
<1>4. CASE AddToTotal
  <2>1. k \in DOMAIN ranges /\ i = Len(ranges) + 1 /\ k' = k + 1 /\ pc = "total"
    BY <1>0, <1>4 DEF AddToTotal, PhaseInv, TypeOK
  <2>2. PhaseInv'
    BY <1>4 DEF AddToTotal, PhaseInv, inputs
  <2>3. Default \in Nets
    BY DEF Default, Nets
  <2>4. SUFFICES ASSUME NEW t \in {"ACTIVE", "FREE"}
                 PROVE  net'[Default][t] = Cardinality(Pairs(1..(k - 1), t)')
    BY <2>2 DEF TotalInv
  <2>5. t \in LeaseTypes
    BY DEF LeaseTypes
  <2>6. net'[Default][t] = net[Default][t] + tally[k][t]
    BY <1>4, <2>3, <2>5 DEF AddToTotal, TypeOK
  <2>7. tally[k][t] = Cardinality(Matching(k, t))
    <3>1. Seen(k, t) = Matching(k, t)
      BY <1>0, <2>1 DEF Seen
    <3> QED
      BY <2>1, <2>5, <3>1 DEF TallyInv
  <2>8. Pairs(1..(k - 1), t)' = Pairs(1..k, t)
    <3>1. 1..(k' - 1) = 1..k
      BY <1>0, <2>1
    <3> QED
      BY <1>4, <3>1 DEF AddToTotal, Pairs, Matching, InRange, inputs
  <2>9. net[Default][t] = Cardinality(Pairs(1..(k - 1), t))
    BY <2>1 DEF TotalInv
  <2> QED
    BY <2>1, <2>5, <2>6, <2>7, <2>8, <2>9, PairsGrow
<1>5. CASE Return
  <2>1. k = Len(ranges) + 1
    BY <1>0, <1>5 DEF Return, TypeOK
  <2> QED
    BY <1>5, <2>1 DEF Return, PhaseInv, TotalInv, Pairs, Matching, InRange, inputs
<1>6. CASE UNCHANGED vars
  BY <1>6 DEF vars, PhaseInv, TotalInv, Pairs, Matching, InRange
<1> QED
  BY <1>1, <1>2, <1>3, <1>4, <1>5, <1>6 DEF Next, Step, Terminated

(* CountingInv is inductive. *)
LEMMA NextCounting == CountingInv /\ TypeOK' /\ [Next]_vars => CountingInv'
<1> SUFFICES ASSUME CountingInv, TypeOK', [Next]_vars PROVE CountingInv'
  OBVIOUS
<1>1. CASE PrepareData
  BY <1>1, PrepareCounting
<1>2. CASE ~PrepareData
  <2>1. PhaseInv' /\ TotalInv'
    BY <1>2, TotalStep
  <2>2. TallyInv' /\ NetInv' /\ SortedInv'
    BY <1>2, QuietCounting, CountCounting DEF QuietStep, Next, Step, Terminated
  <2> QED
    BY <2>1, <2>2 DEF CountingInv
<1> QED
  BY <1>1, <1>2

(* The invariant says what the reader of the report relies on. *)
LEMMA CountingInvExact ==
  CountingInv => RangeCountersExact /\ NetCountersExact /\ AllNetworksExact
<1> SUFFICES ASSUME CountingInv
             PROVE  RangeCountersExact /\ NetCountersExact /\ AllNetworksExact
  OBVIOUS
<1> USE DEF CountingInv
<1>0. /\ Len(ranges) \in Nat /\ DOMAIN ranges = 1..Len(ranges)
      /\ i \in 1..(Len(ranges) + 1)
  BY Positions DEF TypeOK
<1>1. \A t : \A j \in Closed : j \in DOMAIN ranges /\ Seen(j, t) = Matching(j, t)
  BY <1>0 DEF Closed, Seen
<1>2. RangeCountersExact
  BY <1>1 DEF RangeCountersExact, TallyInv
<1>3. ASSUME pc \in {"rewind", "total", "done"}, NEW n, NEW t
      PROVE  NetSeen(n, t) = Pairs(Closed \cap OfNet(n), t)
  <2>1. \A j \in DOMAIN ranges : Seen(j, t) = IF j \in Closed THEN Matching(j, t) ELSE {}
    BY <1>0, <1>3 DEF Closed, Seen
  <2> QED
    BY <2>1 DEF NetSeen, Pairs, OfNet
<1>4. NetCountersExact
  BY <1>3 DEF NetCountersExact, NetInv
<1>5. AllNetworksExact
  <2>1. pc = "done" => 1..(k - 1) = DOMAIN ranges
    BY <1>0 DEF PhaseInv
  <2> QED
    BY <2>1 DEF AllNetworksExact, TotalInv
<1> QED
  BY <1>2, <1>4, <1>5

(* CountingInv holds in every state. *)
LEMMA CountingAlways == Spec => []CountingInv
BY TypeCorrect, InitCounting, NextCounting, PTL DEF Spec

(* For all leases, ranges and networks: a range that do_counting has left has
   exactly the leases of each state in it counted. *)
THEOREM RangesExact == Spec => []RangeCountersExact
BY CountingAlways, CountingInvExact, PTL

(* ... so has every shared network, for its ranges that are done ... *)
THEOREM NetworksExact == Spec => []NetCountersExact
BY CountingAlways, CountingInvExact, PTL

(* ... and "All networks" in the end, backups excepted. *)
THEOREM TotalsExact == Spec => []AllNetworksExact
BY CountingAlways, CountingInvExact, PTL

-----------------------------------------------------------------------------
(***************************************************************************)
(* The loops of do_counting implement PoolUsage, for all leases, ranges    *)
(* and networks: the initial states are initial states of the abstract     *)
(* report, sorting is Arrange, leaving a range is TallyPool, the end is    *)
(* ReportTotals, and a reader of the report sees nothing of other steps.   *)
(***************************************************************************)

-----------------------------------------------------------------------------
(* Sizes *)

\* The addresses of the ranges J, as they are added to a network.
Space(J) == {o \in Addr \X J : o[1] \in Usage!Sized(ranges[o[2]])}

(* The two parts have their own definitions of finite sets. *)
LEMMA SameCardinality ==
  /\ \A S : Usage!Cardinality(S) = Cardinality(S)
  /\ Usage!LeaseTypes = LeaseTypes /\ Usage!Nets = Nets /\ Usage!Addr = Addr
  /\ Usage!Pool = RangeRec
BY DEF Usage!Cardinality, Cardinality, Usage!IsFiniteSet, IsFiniteSet, Usage!LeaseTypes, LeaseTypes,
       Usage!Nets, Nets, Usage!Addr, Addr, Usage!Pool, RangeRec

(* The size of a range in 32 bit arithmetic is the number of its addresses,
   if that is below 2^32. *)
LEMMA SizeCounts ==
  ASSUME NEW r \in RangeRec, r.last - r.first + 1 < Word
  PROVE  /\ Usage!Sized(r) \subseteq Addr /\ IsFiniteSet(Usage!Sized(r))
         /\ Cardinality(Usage!Sized(r)) = get_range_size(r)
<1>0. r.first \in Addr /\ r.last \in Addr /\ r.first <= r.last
  BY DEF RangeRec
<1>1. /\ r.first \in 0..MaxAddr /\ r.last \in 0..MaxAddr /\ r.first <= r.last /\ MaxAddr \in Nat
      /\ r.first \in Int /\ r.last \in Int /\ ~(r.first > r.last)
  BY <1>0 DEF Addr
<1>2. Usage!Sized(r) = r.first..r.last
  BY DEF Usage!Sized
<1>3. IsFiniteSet(r.first..r.last) /\ Cardinality(r.first..r.last) = r.last - r.first + 1
  <2>. DEFINE a == r.first
              b == r.last
  <2>1. a \in Int /\ b \in Int /\ ~(a > b)
    BY <1>1
  <2>. HIDE DEF a, b
  <2>2. IsFiniteSet(a..b) /\ Cardinality(a..b) = b - a + 1
    BY <2>1, FS_Interval
  <2>. QED  BY <2>2 DEF a, b
<1>4. get_range_size(r) = r.last - r.first + 1
  <2>1. r.last - r.first + 1 \in 0..(Word - 1) /\ Word \in Nat
    BY <1>1
  <2>. QED  BY <2>1 DEF get_range_size
<1>. QED  BY <1>1, <1>2, <1>3, <1>4 DEF Addr

LEMMA FiniteSpace ==
  ASSUME TypeOK, NEW J, J \subseteq DOMAIN ranges
  PROVE  IsFiniteSet(Space(J)) /\ Cardinality(Space(J)) \in Nat
<1>0. 0 \in Int /\ 1 \in Int /\ MaxAddr \in Int /\ Len(ranges) \in Int /\ DOMAIN ranges = 1..Len(ranges)
  BY Positions
<1>1. IsFiniteSet(1..Len(ranges)) /\ IsFiniteSet(0..MaxAddr)
  BY <1>0, FS_Interval
<1>2. IsFiniteSet(Addr \X (DOMAIN ranges))
  BY <1>0, <1>1, FS_Product DEF Addr
<1>3. IsFiniteSet(Space(J))
  BY <1>2, FS_Subset DEF Space
<1>. QED  BY <1>3, FS_CardinalityType

(* One more range adds its size. *)
LEMMA SpaceGrows ==
  ASSUME TypeOK, SizesFit, NEW J, J \subseteq DOMAIN ranges, NEW j \in DOMAIN ranges, j \notin J
  PROVE  Cardinality(Space(J \cup {j})) = Cardinality(Space(J)) + get_range_size(ranges[j])
<1>. DEFINE A == Usage!Sized(ranges[j])
            C == {<<a, j>> : a \in A}
            P == Space(J)
            f == [a \in A |-> <<a, j>>]
<1>1. ranges[j] \in RangeRec /\ ranges[j].last - ranges[j].first + 1 < Word
  BY Positions DEF TypeOK, SizesFit
<1>2. A \subseteq Addr /\ IsFiniteSet(A) /\ Cardinality(A) = get_range_size(ranges[j])
  BY <1>1, SizeCounts
<1>3. f \in Bijection(A, C)
  BY DEF Bijection, Injection, Surjection, IsInjective
<1>4. IsFiniteSet(C) /\ Cardinality(C) = Cardinality(A)
  BY <1>2, <1>3, FS_Bijection DEF ExistsBijection
<1>5. Space(J \cup {j}) = P \cup C
  BY <1>2 DEF Space
<1>6. P \cap C = {}
  BY DEF Space
<1>7. IsFiniteSet(P) /\ Cardinality(P) \in Nat
  BY FiniteSpace
<1>8. Cardinality(C) \in Nat
  BY <1>4, FS_CardinalityType
<1>. HIDE DEF A, C, P, f
<1>9. Cardinality(P \cup C) = Cardinality(P) + Cardinality(C) - Cardinality(P \cap C)
  BY <1>4, <1>7, FS_Union
<1>10. Cardinality(P \cap C) = 0
  BY <1>6, FS_EmptySet
<1>11. Cardinality(P \cup C) = Cardinality(P) + Cardinality(C)
  BY <1>7, <1>8, <1>9, <1>10
<1>. QED  BY <1>2, <1>4, <1>5, <1>11 DEF P

-----------------------------------------------------------------------------
(* The sizes of the networks *)

\* What CountingInv is for the leases: networks have the ranges left behind,
\* and "All networks" those added in the last loop.
SizeInv ==
  /\ SizesFit
  /\ \A n \in Nets \ {Default} : available[n] = Cardinality(Space(Closed \cap OfNet(n)))
  /\ pc \in {"total", "done"} => available[Default] = Cardinality(Space(1..(k - 1)))

LEMMA EmptySpace == Cardinality(Space({})) = 0
<1>1. Space({}) = {}
  BY DEF Space
<1>. QED  BY <1>1, FS_EmptySet

LEMMA InitSize == Init /\ SizesFit => SizeInv
<1>. SUFFICES ASSUME Init, SizesFit PROVE SizeInv
  OBVIOUS
<1>1. Closed = {}
  BY DEF Init, Closed
<1>2. \A n : Closed \cap OfNet(n) = {}
  BY <1>1
<1>. QED  BY <1>2, EmptySpace DEF Init, SizeInv

LEMMA NextSize ==
  ASSUME CountingInv, SizeInv, [Next]_vars
  PROVE  SizeInv'
<1>. TypeOK /\ PhaseInv
  BY DEF CountingInv
<1>0. /\ Len(ranges) \in Nat /\ DOMAIN ranges = 1..Len(ranges) /\ i \in Int /\ k \in Int
      /\ i \in 1..(Len(ranges) + 1) /\ k \in 1..(Len(ranges) + 1)
      /\ TypeOK /\ PhaseInv /\ available \in [Nets -> Nat] /\ Default \in Nets
  <2>1. Default \in Nets
    BY DEF Default, Nets
  <2>2. /\ i \in 1..(Len(ranges) + 1) /\ k \in 1..(Len(ranges) + 1)
        /\ available \in [Nets -> Nat]
    BY DEF TypeOK
  <2>. QED  BY <2>1, <2>2, Positions
<1>9. SizesFit'
  <2>1. CASE PrepareData
    <3>1. PICK p \in Bijection(DOMAIN ranges, DOMAIN ranges) :
            ranges' = [x \in DOMAIN ranges |-> ranges[p[x]]]
      BY <2>1 DEF PrepareData, SortedRanges, Rearrangements
    <3>2. \A x \in DOMAIN ranges : p[x] \in DOMAIN ranges
      BY <3>1 DEF Bijection, Injection
    <3>. QED  BY <3>1, <3>2 DEF SizeInv, SizesFit
  <2>2. CASE ~PrepareData
    <3>1. ranges' = ranges
      BY <2>2 DEF Next, Step, Rewind, StartScan, SkipLease, CountLease, CloseRange, ResetDefault,
                  AddToTotal, Return, Terminated, vars, inputs
    <3>. QED  BY <3>1 DEF SizeInv, SizesFit
  <2>. QED  BY <2>1, <2>2
<1>1. CASE PrepareData
  <2>1. Closed = {} /\ Closed' = {} /\ pc' = "rewind" /\ available' = available
    BY <1>0, <1>1 DEF PrepareData, PhaseInv, Closed
  <2>2. \A n : (Closed \cap OfNet(n))' = {} /\ Closed \cap OfNet(n) = {}
    BY <2>1
  <2>3. Space({})' = {} /\ Space({}) = {}
    BY DEF Space
  <2>. QED  BY <1>9, <2>1, <2>2, <2>3 DEF SizeInv
<1>2. ASSUME UNCHANGED ranges, NEW J PROVE Space(J)' = Space(J)
  BY <1>2 DEF Space
<1>3. ASSUME UNCHANGED ranges, NEW n PROVE OfNet(n)' = OfNet(n)
  BY <1>3 DEF OfNet
<1>4. CASE Rewind \/ StartScan \/ SkipLease \/ CountLease
  <2>1. /\ UNCHANGED <<ranges, available, i>> /\ pc' \notin {"total", "done"}
    BY <1>4 DEF Rewind, StartScan, SkipLease, CountLease, inputs
  <2>2. Closed' = Closed
    BY <2>1 DEF Closed
  <2>. QED  BY <1>9, <1>2, <1>3, <2>1, <2>2 DEF SizeInv
<1>5. CASE CloseRange
  <2>. DEFINE m == ranges[i].net
  <2>1. /\ i \in DOMAIN ranges /\ UNCHANGED ranges /\ i' = i + 1 /\ pc' = "rewind"
        /\ available' = [available EXCEPT ![m] = @ + get_range_size(ranges[i])]
    BY <1>0, <1>5 DEF CloseRange, TypeOK, inputs
  <2>2. Closed' = Closed \cup {i} /\ i \notin Closed /\ Closed \subseteq DOMAIN ranges
    BY <1>0, <2>1 DEF Closed
  <2>3. ASSUME NEW n \in Nets \ {Default}
        PROVE  available'[n] = Cardinality(Space(Closed \cap OfNet(n))')
    <3>. DEFINE J == Closed \cap OfNet(n)
    <3>1. Space(Closed \cap OfNet(n))' = Space(Closed' \cap OfNet(n))
      BY <1>3, <2>1 DEF Space
    <3>2. J \subseteq DOMAIN ranges /\ i \notin J
      BY <2>2
    <3>3. available[n] = Cardinality(Space(J))
      BY DEF SizeInv
    <3>4. CASE n = m
      <4>1. Closed' \cap OfNet(n) = J \cup {i}
        BY <2>1, <2>2, <3>4 DEF OfNet
      <4>2. Cardinality(Space(J \cup {i})) = Cardinality(Space(J)) + get_range_size(ranges[i])
        BY <1>0, <2>1, <3>2, SpaceGrows DEF SizeInv
      <4>3. available'[n] = available[n] + get_range_size(ranges[i])
        BY <1>0, <2>1, <2>3, <3>4
      <4>. QED  BY <3>1, <3>3, <4>1, <4>2, <4>3
    <3>5. CASE n # m
      <4>1. Closed' \cap OfNet(n) = J
        BY <2>1, <2>2, <3>5 DEF OfNet
      <4>2. available'[n] = available[n]
        BY <1>0, <2>1, <2>3, <3>5
      <4>. QED  BY <3>1, <3>3, <4>1, <4>2
    <3>. QED  BY <3>4, <3>5
  <2>. QED  BY <1>9, <2>1, <2>3 DEF SizeInv
<1>6. CASE ResetDefault
  <2>1. /\ UNCHANGED <<ranges, i, k>> /\ k = 1 /\ pc' = "total"
        /\ available' = [available EXCEPT ![Default] = 0]
    BY <1>0, <1>6 DEF ResetDefault, PhaseInv, inputs
  <2>2. Closed' = Closed /\ 1..(k' - 1) = {}
    BY <2>1 DEF Closed
  <2>3. \A n \in Nets \ {Default} : available'[n] = available[n]
    BY <1>0, <2>1
  <2>4. available'[Default] = 0
    BY <1>0, <2>1
  <2>5. Space(1..(k - 1))' = {}
    BY <2>2 DEF Space
  <2>. QED  BY <1>9, <1>2, <1>3, <2>1, <2>2, <2>3, <2>4, <2>5, FS_EmptySet DEF SizeInv
<1>7. CASE AddToTotal
  <2>1. /\ UNCHANGED <<ranges, i>> /\ k' = k + 1 /\ pc = "total" /\ k \in DOMAIN ranges
        /\ available' = [available EXCEPT ![Default] = @ + get_range_size(ranges[k])]
    BY <1>0, <1>7 DEF AddToTotal, inputs
  <2>2. /\ 1..(k' - 1) = 1..(k - 1) \cup {k} /\ k \notin 1..(k - 1)
        /\ 1..(k - 1) \subseteq DOMAIN ranges
    BY <1>0, <2>1
  <2>3. Cardinality(Space(1..(k' - 1))) = Cardinality(Space(1..(k - 1))) + get_range_size(ranges[k])
    BY <1>0, <2>1, <2>2, SpaceGrows DEF SizeInv
  <2>4. \A n \in Nets \ {Default} : available'[n] = available[n]
    BY <1>0, <2>1
  <2>5. available'[Default] = available[Default] + get_range_size(ranges[k])
    BY <1>0, <2>1
  <2>6. Closed' = Closed
    BY <2>1 DEF Closed
  <2>7. Space(1..(k - 1))' = Space(1..(k' - 1))
    BY <2>1 DEF Space
  <2>. QED  BY <1>9, <1>2, <1>3, <2>1, <2>3, <2>4, <2>5, <2>6, <2>7 DEF SizeInv
<1>8. CASE Return \/ UNCHANGED vars
  <2>1. UNCHANGED <<ranges, available, i, k>> /\ (pc' \in {"total", "done"} => pc \in {"total", "done"})
    BY <1>8 DEF Return, vars, inputs
  <2>2. Closed' = Closed
    BY <2>1 DEF Closed
  <2>. QED  BY <1>9, <1>2, <1>3, <2>1, <2>2 DEF SizeInv
<1>. QED
  BY <1>1, <1>4, <1>5, <1>6, <1>7, <1>8 DEF Next, Step, Terminated

-----------------------------------------------------------------------------
(* What the report says of the leases *)

\* A lease table with one entry per address is a function of the addresses.
LEMMA LeasedIs ==
  ASSUME UniqueIps(leases)
  PROVE  /\ \A a : a \in DOMAIN leased <=> \E x \in DOMAIN leases : leases[x].ip = a
         /\ \A x \in DOMAIN leases : leased[leases[x].ip] = leases[x].type
<1>1. ASSUME NEW x \in DOMAIN leases
      PROVE  (CHOOSE y \in DOMAIN leases : leases[y].ip = leases[x].ip) = x
  BY DEF UniqueIps
<1>. QED  BY <1>1 DEF leased

\* What do_counting counts in a range is what the abstract report counts there.
LEMMA TallyMatches ==
  ASSUME TypeOK, UniqueIps(leases), NEW j \in DOMAIN ranges, NEW t
  PROVE  Usage!Tally(ranges[j], t) = Cardinality(Matching(j, t))
<1>. DEFINE A == {a \in DOMAIN leased : a \in ranges[j].first..ranges[j].last /\ leased[a] = t}
            f == [x \in Matching(j, t) |-> leases[x].ip]
<1>1. Usage!Tally(ranges[j], t) = Cardinality(A)
  BY SameCardinality DEF Usage!Tally
<1>2. \A x \in DOMAIN leases : x \in Matching(j, t) <=> leases[x].ip \in A
  BY LeasedIs DEF Matching, InRange
<1>3. \A a \in A : \E x \in DOMAIN leases : leases[x].ip = a
  BY LeasedIs
<1>4. Matching(j, t) \subseteq DOMAIN leases
  BY DEF Matching
<1>. HIDE DEF A
<1>5. f \in Bijection(Matching(j, t), A)
  BY <1>2, <1>3, <1>4 DEF Bijection, Injection, Surjection, IsInjective, UniqueIps
<1>6. IsFiniteSet(Matching(j, t))
  BY FiniteSeen
<1>. QED  BY <1>1, <1>5, <1>6, FS_Bijection DEF ExistsBijection

\* So are the totals.
LEMMA PairsMatch ==
  ASSUME TypeOK, UniqueIps(leases), NEW J \in SUBSET (DOMAIN ranges), NEW t
  PROVE  Cardinality({o \in (DOMAIN leased) \X J :
                        o[1] \in ranges[o[2]].first..ranges[o[2]].last /\ leased[o[1]] = t})
           = Cardinality(Pairs(J, t))
<1>. DEFINE A == {o \in (DOMAIN leased) \X J :
                    o[1] \in ranges[o[2]].first..ranges[o[2]].last /\ leased[o[1]] = t}
            P == Pairs(J, t)
            f == [p \in P |-> <<leases[p[1]].ip, p[2]>>]
<1>1. \A x \in DOMAIN leases, j \in J : <<x, j>> \in P <=> <<leases[x].ip, j>> \in A
  BY LeasedIs DEF Pairs, Matching, InRange
<1>2. \A p \in P : p = <<p[1], p[2]>> /\ p[1] \in DOMAIN leases /\ p[2] \in J
  BY DEF Pairs
<1>3. \A o \in A : \E x \in DOMAIN leases, j \in J : o = <<leases[x].ip, j>>
  BY LeasedIs
<1>. HIDE DEF A, P
<1>4. \A p \in P : f[p] \in A
  BY <1>1, <1>2
<1>5. \A p, q \in P : f[p] = f[q] => p = q
  BY <1>2 DEF UniqueIps
<1>6. \A o \in A : \E p \in P : f[p] = o
  <2>1. SUFFICES ASSUME NEW o \in A PROVE \E p \in P : f[p] = o
    OBVIOUS
  <2>2. PICK x \in DOMAIN leases, j \in J : o = <<leases[x].ip, j>>
    BY <1>3, <2>1
  <2>3. <<x, j>> \in P /\ f[<<x, j>>] = o
    BY <1>1, <2>1, <2>2
  <2>. QED  BY <2>3
<1>7. f \in Bijection(P, A)
  <2>1. f \in [P -> A]
    BY <1>4
  <2>. HIDE DEF f
  <2>. QED  BY <1>5, <1>6, <2>1 DEF Bijection, Injection, Surjection, IsInjective
<1>8. IsFiniteSet(P)
  <2>1. J \in SUBSET Int /\ J \subseteq DOMAIN ranges
    BY Positions
  <2>. QED  BY <2>1, FiniteSeen DEF P
<1>9. Cardinality(A) = Cardinality(P)
  BY <1>7, <1>8, FS_Bijection DEF ExistsBijection
<1>. QED  BY <1>9 DEF A, P

-----------------------------------------------------------------------------
(* The refinement mapping *)

LEMMA UsageType ==
  ASSUME TypeOK
  PROVE  usage \in Seq([LeaseTypes -> Nat]) /\ Len(usage) = i - 1
<1>1. i \in 1..(Len(ranges) + 1) /\ Len(ranges) \in Nat /\ DOMAIN ranges = 1..Len(ranges)
  BY Positions DEF TypeOK
<1>2. Closed \subseteq DOMAIN ranges
  BY <1>1 DEF Closed
<1>3. usage \in [1..(i - 1) -> [LeaseTypes -> Nat]]
  BY <1>2 DEF usage, TypeOK, Closed
<1>4. i - 1 \in Nat
  BY <1>1
<1>. QED  BY <1>3, <1>4

LEMMA InitUsage == Init => Usage!Init
<1>. SUFFICES ASSUME Init PROVE Usage!Init
  OBVIOUS
<1>1. TypeOK /\ UniqueIps(leases)
  BY TypeInit DEF Init
<1>2. usage = << >>
  BY <1>1, UsageType DEF Init
<1>3. totals = Usage!NoTotals
  BY DEF Init, totals, Usage!NoTotals
<1>4. ranges \in UNION {[1..n -> Usage!Pool] : n \in 0..MaxRanges}
  BY SameCardinality DEF Init
<1>. DEFINE A == DOMAIN leased
<1>5. leased \in [A -> LeaseTypes] /\ A \subseteq Addr
  <2>1. \A x \in DOMAIN leases : leases[x] \in Lease
    BY <1>1, Positions DEF TypeOK
  <2>2. \A x \in DOMAIN leases : leases[x].ip \in Addr /\ leases[x].type \in LeaseTypes
    BY <2>1 DEF Lease
  <2>3. \A a \in A : leased[a] \in LeaseTypes /\ a \in Addr
    BY <1>1, <2>2, LeasedIs
  <2>4. leased = [a \in A |-> leased[a]]
    BY DEF leased
  <2>. QED  BY <2>3, <2>4
<1>6. Cardinality(A) <= MaxLeases
  <2>. DEFINE D == DOMAIN leases
              f == [x \in D |-> leases[x].ip]
  <2>1. f \in Bijection(D, A)
    <3>1. \A x, y \in D : leases[x].ip = leases[y].ip => x = y
      BY <1>1 DEF UniqueIps
    <3>. QED
      BY <1>1, <3>1, LeasedIs DEF Bijection, Injection, Surjection, IsInjective
  <2>2. D = 1..Len(leases) /\ Len(leases) \in Nat /\ Len(leases) <= MaxLeases
    BY <1>1, Positions DEF TypeOK
  <2>3. IsFiniteSet(D) /\ Cardinality(D) = Len(leases)
    <3>. DEFINE n == Len(leases)
    <3>1. n \in Nat /\ 1 \in Int /\ n \in Int /\ (1 > n => n = 0)
      BY <2>2
    <3>. HIDE DEF n
    <3>2. IsFiniteSet(1..n) /\ Cardinality(1..n) = n
      BY <3>1, FS_Interval
    <3>. QED  BY <2>2, <3>2 DEF n
  <2>. QED  BY <2>1, <2>2, <2>3, FS_Bijection DEF ExistsBijection
<1>7. leased \in UNION {[S -> Usage!LeaseTypes] :
                          S \in {T \in SUBSET Usage!Addr : Usage!Cardinality(T) <= MaxLeases}}
  BY <1>5, <1>6, SameCardinality
<1>. QED  BY <1>2, <1>3, <1>4, <1>7 DEF Usage!Init

(* The steps of the abstract report under the mapping. *)
LEMMA ArrangeIs ==
  (/\ usage = << >> /\ totals = Usage!NoTotals
   /\ ranges' \in [DOMAIN ranges -> {ranges[x] : x \in DOMAIN ranges}]
   /\ \A r : Cardinality({x \in DOMAIN ranges : ranges[x] = r})
               = Cardinality({x \in DOMAIN ranges : ranges'[x] = r})
   /\ leased' = leased /\ usage' = usage /\ totals' = totals)
  => Usage!Arrange
BY SameCardinality DEF Usage!Arrange

\* Sorting both lists arranges the pools, and changes no lease.
LEMMA PrepareArranges ==
  ASSUME CountingInv, CountingInv', PrepareData
  PROVE  Usage!Arrange
<1>0. TypeOK /\ TypeOK' /\ PhaseInv /\ SortedInv /\ SortedInv'
  BY DEF CountingInv
<1>1. pc = "prepare" /\ pc' = "rewind" /\ i = 1 /\ i' = 1
  BY <1>0 DEF PrepareData, PhaseInv
<1>2. usage = << >> /\ usage' = << >>
  <2>1. Closed = {} /\ Closed' = {}
    BY <1>1 DEF Closed
  <2>2. \A f : [j \in {} |-> f[j]] = << >>
    OBVIOUS
  <2>. QED  BY <2>1, <2>2 DEF usage
<1>3. totals = Usage!NoTotals /\ totals' = totals
  BY <1>1 DEF totals, Usage!NoTotals
<1>4. leased' = leased
  <2>1. PICK p \in Bijection(DOMAIN leases, DOMAIN leases) :
               leases' = [x \in DOMAIN leases |-> leases[p[x]]]
    BY DEF PrepareData, SortedLeases, Rearrangements
  <2>2. /\ p \in [DOMAIN leases -> DOMAIN leases]
        /\ \A y \in DOMAIN leases : \E x \in DOMAIN leases : p[x] = y
    BY DEF Bijection, Injection, Surjection
  <2>3. UniqueIps(leases) /\ UniqueIps(leases)'
    BY <1>0 DEF SortedInv
  <2>4. /\ \A a : a \in DOMAIN leased' <=> \E x \in DOMAIN leases' : leases'[x].ip = a
        /\ \A x \in DOMAIN leases' : leased'[leases'[x].ip] = leases'[x].type
    <3>1. ASSUME NEW x \in DOMAIN leases'
          PROVE  (CHOOSE y \in DOMAIN leases' : leases'[y].ip = leases'[x].ip) = x
      BY <2>3 DEF UniqueIps
    <3>. QED  BY <3>1 DEF leased
  <2>5. DOMAIN leased' = DOMAIN leased
    <3>1. \A a : (\E x \in DOMAIN leases' : leases'[x].ip = a)
                  <=> \E x \in DOMAIN leases : leases[x].ip = a
      BY <2>1, <2>2
    <3>2. \A a : a \in DOMAIN leased' <=> a \in DOMAIN leased
      BY <2>3, <2>4, <3>1, LeasedIs
    <3>. QED  BY <3>2
  <2>6. \A a \in DOMAIN leased : leased'[a] = leased[a]
    BY <2>1, <2>2, <2>3, <2>4, <2>5, LeasedIs
  <2>7. leased = [a \in DOMAIN leased |-> leased[a]] /\ leased' = [a \in DOMAIN leased' |-> leased'[a]]
    BY DEF leased
  <2>. QED  BY <2>5, <2>6, <2>7
<1>. DEFINE D == DOMAIN ranges
<1>5. PICK q \in Bijection(D, D) : ranges' = [x \in D |-> ranges[q[x]]]
  BY DEF PrepareData, SortedRanges, Rearrangements
<1>6. /\ q \in [D -> D]
      /\ \A x, y \in D : q[x] = q[y] => x = y
      /\ \A y \in D : \E x \in D : q[x] = y
  BY DEF Bijection, Injection, Surjection, IsInjective
<1>7. ranges' \in [D -> {ranges[x] : x \in D}]
  BY <1>5, <1>6
<1>8. ASSUME NEW r
      PROVE  Cardinality({x \in D : ranges[x] = r}) = Cardinality({x \in D : ranges'[x] = r})
  <2>. DEFINE A == {x \in D : ranges'[x] = r}
              B == {x \in D : ranges[x] = r}
              f == [x \in A |-> q[x]]
  <2>1. f \in Bijection(A, B)
    <3>1. \A x \in D : x \in A <=> q[x] \in B
      BY <1>5, <1>6
    <3>. QED  BY <1>6, <3>1 DEF Bijection, Injection, Surjection, IsInjective
  <2>2. D = 1..Len(ranges) /\ Len(ranges) \in Int /\ 1 \in Int
    BY <1>0, Positions
  <2>3. IsFiniteSet(A)
    <3>1. IsFiniteSet(1..Len(ranges))
      BY <2>2, FS_Interval
    <3>. QED  BY <2>2, <3>1, FS_Subset
  <2>. HIDE DEF A, B, f
  <2>4. Cardinality(B) = Cardinality(A)
    BY <2>1, <2>3, FS_Bijection DEF ExistsBijection
  <2>. QED  BY <2>4 DEF A, B
<1>. QED
  BY <1>2, <1>3, <1>4, <1>7, <1>8, ArrangeIs

\* Leaving a range adds its figures to the report.
LEMMA CloseTallies ==
  ASSUME CountingInv, CountingInv', CloseRange
  PROVE  Usage!TallyPool
<1>0. TypeOK /\ TypeOK' /\ SortedInv /\ UniqueIps(leases) /\ RangeCountersExact'
  <2>1. TypeOK /\ TypeOK' /\ SortedInv
    BY DEF CountingInv
  <2>2. RangeCountersExact'
    BY CountingInvExact, PTL
  <2>. QED  BY <2>1, <2>2 DEF SortedInv
<1>1. /\ i \in DOMAIN ranges /\ i' = i + 1 /\ pc = "scan" /\ pc' = "rewind"
      /\ UNCHANGED <<leases, ranges, tally>>
      /\ Len(ranges) \in Nat /\ DOMAIN ranges = 1..Len(ranges)
  BY <1>0, Positions DEF CloseRange, TypeOK, inputs
<1>2. leased' = leased /\ totals' = totals
  BY <1>1 DEF leased, totals
<1>3. tally[i] = [t \in LeaseTypes |-> Usage!Tally(ranges[i], t)]
  <2>1. tally[i] \in [LeaseTypes -> Nat]
    BY <1>0, <1>1 DEF TypeOK
  <2>2. ASSUME NEW t \in LeaseTypes PROVE tally[i][t] = Usage!Tally(ranges[i], t)
    <3>1. i \in Closed'
      BY <1>1 DEF Closed
    <3>2. \A j : Matching(j, t)' = Matching(j, t)
      BY <1>1 DEF Matching, InRange
    <3>3. tally'[i][t] = Cardinality(Matching(i, t))
      BY <2>2, <3>1, <3>2, <1>0 DEF RangeCountersExact
    <3>4. Usage!Tally(ranges[i], t) = Cardinality(Matching(i, t))
      BY <1>0, <1>1, TallyMatches
    <3>. QED  BY <1>1, <3>3, <3>4
  <2>. QED  BY <2>1, <2>2
<1>4. usage' = Append(usage, tally[i])
  <2>. DEFINE S == [LeaseTypes -> Nat]
              n == i - 1
  <2>1. n \in Nat /\ i = n + 1 /\ Closed = 1..n /\ Closed' = 1..(n + 1)
    BY <1>1 DEF Closed
  <2>2. \A j \in 1..(n + 1) : j \in DOMAIN ranges /\ tally[j] \in S
    <3>1. \A j \in DOMAIN ranges : tally[j] \in S
      BY <1>0 DEF TypeOK
    <3>. QED  BY <1>1, <2>1, <3>1
  <2>3. usage = [j \in 1..n |-> tally[j]] /\ usage' = [j \in 1..(n + 1) |-> tally[j]]
    BY <1>1, <2>1 DEF usage
  <2>. HIDE DEF S, n
  <2>4. usage \in [1..n -> S] /\ usage \in Seq(S) /\ Len(usage) = n
    BY <2>1, <2>2, <2>3
  <2>5. usage' \in [1..(n + 1) -> S] /\ usage' \in Seq(S) /\ Len(usage') = n + 1
    BY <2>1, <2>2, <2>3
  <2>6. tally[i] \in S
    BY <2>1, <2>2
  <2>7. \A j \in 1..(n + 1) : Append(usage, tally[i])[j] = usage'[j]
    BY <2>1, <2>3, <2>4, <2>6
  <2>8. Append(usage, tally[i]) \in Seq(S) /\ Len(Append(usage, tally[i])) = n + 1
    BY <2>1, <2>4, <2>6
  <2>. QED  BY <2>1, <2>5, <2>7, <2>8
<1>5. Len(usage) = i - 1
  BY <1>0, UsageType
<1>6. Len(usage) < Len(ranges) /\ ranges[Len(usage) + 1] = ranges[i]
  BY <1>1, <1>5
<1>. QED
  BY <1>1, <1>2, <1>3, <1>4, <1>6, SameCardinality DEF Usage!TallyPool

\* Returning shows the totals.
LEMMA ReturnReports ==
  ASSUME CountingInv, SizeInv, Return
  PROVE  Usage!ReportTotals
<1>0. /\ TypeOK /\ PhaseInv /\ UniqueIps(leases)
      /\ NetCountersExact /\ TotalInv
  BY CountingInvExact DEF CountingInv, SortedInv
<1>1. /\ pc = "total" /\ pc' = "done" /\ UNCHANGED <<leases, ranges, i, tally, net, available>>
      /\ i = Len(ranges) + 1 /\ k = Len(ranges) + 1
      /\ Len(ranges) \in Nat /\ DOMAIN ranges = 1..Len(ranges)
  BY <1>0, Positions DEF Return, PhaseInv, TypeOK, inputs
<1>2. Closed = DOMAIN ranges /\ 1..(k - 1) = DOMAIN ranges
  BY <1>1 DEF Closed
<1>3. \A n : Usage!Members(n) = IF n = Default THEN DOMAIN ranges ELSE OfNet(n)
  BY DEF Usage!Members, OfNet, Default
<1>4. ASSUME NEW n \in Nets
      PROVE  /\ Usage!Members(n) \in SUBSET (DOMAIN ranges)
             /\ available[n] = Cardinality(Usage!Offered(n))
             /\ \A t \in LeaseTypes : t # "BACKUP" \/ n # Default =>
                  net[n][t] = Cardinality(Usage!Found(n, t))
  <2>. DEFINE J == Usage!Members(n)
  <2>1. J \in SUBSET (DOMAIN ranges)
    BY <1>3 DEF OfNet
  <2>2. Usage!Offered(n) = Space(J)
    BY SameCardinality DEF Usage!Offered, Space
  <2>3. available[n] = Cardinality(Space(J))
    <3>1. CASE n = Default
      BY <1>1, <1>2, <1>3, <3>1 DEF SizeInv
    <3>2. CASE n # Default
      <4>1. J = Closed \cap OfNet(n)
        BY <1>2, <1>3, <3>2 DEF OfNet
      <4>. QED  BY <1>4, <3>2, <4>1 DEF SizeInv
    <3>. QED  BY <3>1, <3>2
  <2>4. ASSUME NEW t \in LeaseTypes, t # "BACKUP" \/ n # Default
        PROVE  net[n][t] = Cardinality(Usage!Found(n, t))
    <3>1. Cardinality(Usage!Found(n, t)) = Cardinality(Pairs(J, t))
      BY <1>0, <2>1, PairsMatch DEF Usage!Found
    <3>2. CASE n = Default
      <4>1. t \in {"ACTIVE", "FREE"}
        BY <2>4, <3>2 DEF LeaseTypes
      <4>2. J = 1..(k - 1)
        BY <1>2, <1>3, <3>2
      <4>3. net[Default][t] = Cardinality(Pairs(1..(k - 1), t))
        BY <1>0, <1>1, <4>1 DEF TotalInv
      <4>. QED  BY <3>1, <3>2, <4>2, <4>3
    <3>3. CASE n # Default
      <4>1. J = Closed \cap OfNet(n)
        BY <1>2, <1>3, <3>3 DEF OfNet
      <4>2. net[n][t] = Cardinality(Pairs(Closed \cap OfNet(n), t))
        BY <1>0, <1>1, <1>4, <2>4, <3>3 DEF NetCountersExact
      <4>. QED  BY <3>1, <4>1, <4>2
    <3>. QED  BY <3>2, <3>3
  <2>. QED  BY <2>1, <2>2, <2>3, <2>4
<1>5. \A n \in Nets : [available |-> available[n], used |-> net[n]["ACTIVE"], touched |-> net[n]["FREE"]]
                        = Usage!Total(n)
  BY <1>4, SameCardinality DEF Usage!Total, LeaseTypes
<1>6. \A n \in 1..NumNets : net[n]["BACKUP"] = Usage!Backups(n)
  <2>1. \A n \in 1..NumNets : n \in Nets /\ n # Default
    BY DEF Nets, Default
  <2>. QED  BY <1>4, <2>1, SameCardinality DEF Usage!Backups, LeaseTypes
<1>7. totals' = [reported |-> TRUE,
                 total    |-> [n \in Nets |-> Usage!Total(n)],
                 backups  |-> [n \in 1..NumNets |-> Usage!Backups(n)]]
  BY <1>1, <1>5, <1>6 DEF totals
<1>8. totals = Usage!NoTotals
  BY <1>1 DEF totals, Usage!NoTotals
<1>9. leased' = leased /\ usage' = usage /\ ranges' = ranges
  BY <1>1 DEF leased, usage, Closed
<1>10. Len(usage) = Len(ranges)
  BY <1>0, <1>1, UsageType
<1>. QED
  BY <1>7, <1>8, <1>9, <1>10, SameCardinality DEF Usage!ReportTotals

\* The other steps show nothing.
LEMMA OthersStutter ==
  ASSUME CountingInv,
         Rewind \/ StartScan \/ SkipLease \/ CountLease \/ ResetDefault \/ AddToTotal \/ UNCHANGED vars
  PROVE  UNCHANGED Usage!vars
<1>1. UNCHANGED <<leases, ranges, i>>
  BY DEF Rewind, StartScan, SkipLease, CountLease, ResetDefault, AddToTotal, vars, inputs
<1>2. leased' = leased /\ Closed' = Closed
  BY <1>1 DEF leased, Closed
<1>3. totals' = totals
  <2>1. CASE UNCHANGED vars
    BY <2>1 DEF vars, totals
  <2>2. CASE ~UNCHANGED vars
    BY <2>2 DEF Rewind, StartScan, SkipLease, CountLease, ResetDefault, AddToTotal, totals
  <2>. QED  BY <2>1, <2>2
<1>4. \A j \in Closed : tally'[j] = tally[j]
  <2>1. CASE CountLease
    <3>1. i \notin Closed /\ Closed \subseteq DOMAIN ranges
      BY Positions DEF CountingInv, TypeOK, Closed
    <3>2. DOMAIN tally = DOMAIN ranges
      BY DEF CountingInv, TypeOK
    <3>. QED  BY <2>1, <3>1, <3>2 DEF CountLease
  <2>2. CASE ~CountLease
    BY <2>2 DEF Rewind, StartScan, SkipLease, ResetDefault, AddToTotal, vars
  <2>. QED  BY <2>1, <2>2
<1>5. usage' = usage
  BY <1>2, <1>4 DEF usage
<1>. QED  BY <1>1, <1>2, <1>3, <1>5 DEF Usage!vars

(* do_counting implements the abstract report, its fairness excepted: for all
   leases and networks, and all ranges of less than 2^32 addresses, the figures come range by range as if counted
   in one step, in an order that sorting allows, and the totals are those of
   all leases and addresses of the ranges of a network. *)
THEOREM CountingImplements == Spec /\ SizesFit => Usage!Safety
<1>1. Spec /\ SizesFit => [](CountingInv /\ SizeInv)
  BY CountingAlways, InitSize, NextSize, PTL DEF Spec
<1>2. CountingInv /\ SizeInv /\ CountingInv' /\ [Next]_vars => [Usage!Next]_(Usage!vars)
  <2>. SUFFICES ASSUME CountingInv, SizeInv, CountingInv', [Next]_vars
                PROVE  [Usage!Next]_(Usage!vars)
    OBVIOUS
  <2>1. CASE PrepareData
    BY <2>1, PrepareArranges DEF Usage!Next
  <2>2. CASE CloseRange
    BY <2>2, CloseTallies DEF Usage!Next
  <2>3. CASE Return
    BY <2>3, ReturnReports DEF Usage!Next
  <2>. QED
    BY <2>1, <2>2, <2>3, OthersStutter DEF Next, Step, Terminated
<1>. QED
  BY <1>1, <1>2, InitUsage, PTL DEF Spec, Usage!Safety
=============================================================================
