---------------------------- MODULE AnalysisProofs ----------------------------
(***************************************************************************)
(* Proofs about the parser and the counting engine together: the figures   *)
(* of the report are those of the log, for every lease file whose binding  *)
(* states belong to addresses, all ranges and all networks.  The theorems  *)
(* about either part are used as they are proved there; what is added is   *)
(* that the table one leaves is a list the other can begin with.           *)
(***************************************************************************)
EXTENDS Analysis, FiniteSetTheorems, TLAPS

LP == INSTANCE LeaseFileProofs
CP == INSTANCE CountingProofs WITH leases <- Listing(leases), MaxLeases <- MaxAddr + 1

-----------------------------------------------------------------------------
(* The two parts, as they are instantiated here and for their theorems, are  *)
(* the same; their definitions are compared one by one.                      *)

(* The assumptions that the theorems about the parts make of their constants. *)
LEMMA LogAssumption == LP!LeaseFileAssumption
<1>1. LP!Line = Log!Line /\ LP!Versions = Log!Versions
  BY DEF LP!Line, Log!Line, LP!States, Log!States, LP!None, Log!None, LP!Versions, Log!Versions
<1> QED
  BY <1>1, AnalysisAssumption

LEMMA CountAssumption == CP!CountingAssumption
BY AnalysisAssumption

LEMMA SameLogTypes == Log!TypeOK <=> LP!TypeOK
BY DEF LP!TypeOK, Log!TypeOK, LP!file, Log!file, LP!Line, Log!Line, LP!States, Log!States,
       LP!None, Log!None, LP!Versions, Log!Versions, LP!Entry, Log!Entry

LEMMA SameBindings ==
  /\ \A a : Log!Bindings(a) = LP!Bindings(a)
  /\ \A b, B : Log!IsLast(b, B) <=> LP!IsLast(b, B)
  /\ \A s : Log!TypeOf(s) = LP!TypeOf(s)
BY DEF Log!Bindings, LP!Bindings, Log!IsBinding, LP!IsBinding, Log!InBlock, LP!InBlock,
       Log!IsLease, LP!IsLease, Log!IsHeader, LP!IsHeader, Log!file, LP!file,
       Log!IsLast, LP!IsLast, Log!TypeOf, LP!TypeOf

LEMMA SameParsing == (Log!Init <=> LP!Init) /\ (Log!Turn <=> LP!Turn)
<1> USE DEF Log!None, LP!None, Log!file, LP!file, Log!NextLine, LP!NextLine, Log!Fetch, LP!Fetch,
            Log!IsLease, LP!IsLease, Log!IsBinding, LP!IsBinding, Log!IsEthernet, LP!IsEthernet
<1>1. Log!Init <=> LP!Init
  BY DEF Log!Init, LP!Init, Log!Blank, LP!Blank
<1>2. Log!Detect <=> LP!Detect
  BY DEF Log!Detect, LP!Detect
<1>3. Log!SaveAddress <=> LP!SaveAddress
  BY DEF Log!SaveAddress, LP!SaveAddress
<1>4. Log!SaveState <=> LP!SaveState
  BY DEF Log!SaveState, LP!SaveState, Log!TypeOf, LP!TypeOf, Log!add_lease, LP!add_lease,
         Log!delete_lease, LP!delete_lease, Log!find_lease, LP!find_lease
<1>5. Log!SaveEthernet <=> LP!SaveEthernet
  BY DEF Log!SaveEthernet, LP!SaveEthernet, Log!find_lease, LP!find_lease
<1>6. Log!SkipLine <=> LP!SkipLine
  BY DEF Log!SkipLine, LP!SkipLine
<1> QED
  BY <1>1, <1>2, <1>3, <1>4, <1>5, <1>6 DEF Log!Turn, LP!Turn

LEMMA SameCountTypes ==
  /\ Count!TypeOK <=> CP!TypeOK
  /\ Count!LeaseTypes = CP!LeaseTypes /\ Count!Closed = CP!Closed /\ Count!Default = CP!Default
BY DEF CP!TypeOK, Count!TypeOK, CP!Lease, Count!Lease, CP!RangeRec, Count!RangeRec,
       CP!LeaseTypes, Count!LeaseTypes, CP!Nets, Count!Nets, CP!Addr, Count!Addr,
       CP!Closed, Count!Closed, CP!Default, Count!Default

LEMMA SameOrder ==
  /\ \A s : Count!Rearrangements(s) = CP!Rearrangements(s)
  /\ \A s : Count!LeasesSorted(s) <=> CP!LeasesSorted(s)
BY DEF CP!Rearrangements, Count!Rearrangements, CP!LeasesSorted, Count!LeasesSorted,
       CP!Bijection, Count!Bijection, CP!Injection, Count!Injection,
       CP!Surjection, Count!Surjection, CP!IsInjective, Count!IsInjective

LEMMA SameSize ==
  /\ \A S : CP!IsFiniteSet(S) <=> IsFiniteSet(S)
  /\ \A S : CP!Cardinality(S) = Cardinality(S)
BY DEF CP!IsFiniteSet, IsFiniteSet, CP!Cardinality, Cardinality

LEMMA SamePrepare == Count!PrepareData <=> CP!PrepareData
BY DEF CP!PrepareData, Count!PrepareData, CP!SortedLeases, Count!SortedLeases,
       CP!SortedRanges, Count!SortedRanges, CP!RangesSorted, Count!RangesSorted,
       CP!Head1, Count!Head1, CP!NULL, Count!NULL,
       CP!Rearrangements, Count!Rearrangements, CP!LeasesSorted, Count!LeasesSorted,
       CP!Bijection, Count!Bijection, CP!Injection, Count!Injection,
       CP!Surjection, Count!Surjection, CP!IsInjective, Count!IsInjective

LEMMA SameCounting == (Count!Init <=> CP!Init) /\ (Count!Step <=> CP!Step)
<1> USE DEF CP!NULL, Count!NULL, CP!inputs, Count!inputs, CP!Above, Count!Above,
            CP!Reaches, Count!Reaches, CP!NextLease, Count!NextLease, CP!Default, Count!Default
<1>1. Count!Init <=> CP!Init
  BY DEF CP!Init, Count!Init, CP!Lease, Count!Lease, CP!RangeRec, Count!RangeRec,
         CP!LeaseTypes, Count!LeaseTypes, CP!Nets, Count!Nets, CP!Addr, Count!Addr,
         CP!UniqueIps, Count!UniqueIps, CP!Zero, Count!Zero
<1>2. Count!Rewind <=> CP!Rewind
  BY DEF Count!Rewind, CP!Rewind
<1>3. Count!StartScan <=> CP!StartScan
  BY DEF Count!StartScan, CP!StartScan, Count!Restart, CP!Restart, Count!Head1, CP!Head1
<1>4. Count!SkipLease <=> CP!SkipLease
  BY DEF Count!SkipLease, CP!SkipLease
<1>5. Count!CountLease <=> CP!CountLease
  BY DEF Count!CountLease, CP!CountLease
<1>6. Count!CloseRange <=> CP!CloseRange
  BY DEF Count!CloseRange, CP!CloseRange, Count!get_range_size, CP!get_range_size
<1>7. Count!ResetDefault <=> CP!ResetDefault
  BY DEF Count!ResetDefault, CP!ResetDefault, Count!Cleared, CP!Cleared,
         Count!LeaseTypes, CP!LeaseTypes
<1>8. Count!AddToTotal <=> CP!AddToTotal
  BY DEF Count!AddToTotal, CP!AddToTotal, Count!get_range_size, CP!get_range_size,
         Count!LeaseTypes, CP!LeaseTypes
<1>9. Count!Return <=> CP!Return
  BY DEF Count!Return, CP!Return
<1> QED
  BY <1>1, <1>2, <1>3, <1>4, <1>5, <1>6, <1>7, <1>8, <1>9, SamePrepare DEF Count!Step, CP!Step

-----------------------------------------------------------------------------
(* The table that is handed over *)

\* A lease table: one entry per address.
Table(s) == s \in Seq(LP!Entry) /\ \A x, y \in DOMAIN s : s[x].ip = s[y].ip => x = y

(* What do_counting sees of a lease table is a list of leases as it needs it,
   and no longer than there are addresses. *)
LEMMA TableListing ==
  ASSUME NEW s, Table(s)
  PROVE  /\ Listing(s) \in Seq(CP!Lease) /\ Len(Listing(s)) <= MaxAddr + 1
         /\ DOMAIN Listing(s) = DOMAIN s
         /\ CP!UniqueIps(Listing(s))
<1> DEFINE n == Len(s)
<1>1. n \in Nat /\ DOMAIN s = 1..n
  BY DEF Table
<1>2. \A x \in 1..n : s[x].ip \in 0..MaxAddr /\ s[x].type \in {"FREE", "ACTIVE", "BACKUP"}
  <2>1. \A x \in 1..n : s[x] \in LP!Entry
    BY <1>1 DEF Table
  <2> QED
    BY <2>1 DEF LP!Entry, Addr
<1>3. Listing(s) = [x \in 1..n |-> [ip |-> s[x].ip, type |-> s[x].type]]
  BY <1>1 DEF Listing
<1> HIDE DEF n
<1>4. \A x \in 1..n : [ip |-> s[x].ip, type |-> s[x].type] \in CP!Lease
  BY <1>2 DEF CP!Lease, CP!Addr, CP!LeaseTypes
<1>5. Listing(s) \in [1..n -> CP!Lease]
  BY <1>3, <1>4
<1>6. Listing(s) \in Seq(CP!Lease) /\ Len(Listing(s)) = n /\ DOMAIN Listing(s) = 1..n
  BY <1>1, <1>5
<1>7. CP!UniqueIps(Listing(s))
  BY <1>1, <1>3, <1>6 DEF CP!UniqueIps, Table
<1>8. n <= MaxAddr + 1
  <2> DEFINE f == [x \in 1..n |-> s[x].ip]
  <2>1. f \in Injection(1..n, 0..MaxAddr)
    BY <1>1, <1>2 DEF Injection, IsInjective, Table
  <2>2. IsFiniteSet(0..MaxAddr) /\ Cardinality(0..MaxAddr) = MaxAddr + 1
    BY FS_Interval, AnalysisAssumption
  <2>3. Cardinality(1..n) = n
    BY <1>1, FS_Interval
  <2> HIDE DEF f
  <2> QED
    BY <2>1, <2>2, <2>3, FS_Injection
<1> QED
  BY <1>1, <1>6, <1>7, <1>8

-----------------------------------------------------------------------------
(* The invariant of the composition *)

\* An address with a binding state in the lines read so far has a last one.
LastInv == \A a \in Addr : LP!Bindings(a) # {} => \E b : LP!IsLast(b, LP!Bindings(a))

LogInv == LP!TypeOK /\ LP!UniqueAddresses /\ LP!ReaderInv /\ LP!StateInv /\ LastInv

\* Nothing is counted before the file has been read.
AnalysisInv == LogInv /\ CP!CountingInv /\ (pc # "prepare" => eof)

LEMMA LogTable == LP!TypeOK /\ LP!UniqueAddresses => Table(leases)
BY DEF LP!TypeOK, LP!UniqueAddresses, Table

LEMMA InitAnalysis == Init => AnalysisInv
<1> SUFFICES ASSUME Init PROVE AnalysisInv
  OBVIOUS
<1>1. LP!Init /\ CP!Init
  BY SameParsing, SameCounting DEF Init
<1>2. LP!TypeOK /\ LP!UniqueAddresses
  BY <1>1, LogAssumption, LP!InitType
<1>3. leases = << >> /\ pos = 0 /\ pc = "prepare"
  BY <1>1 DEF LP!Init, CP!Init
<1>4. LP!ReaderInv
  BY <1>1 DEF LP!Init, LP!ReaderInv
<1>5. \A a : LP!Bindings(a) = {} /\ LP!Types(a) = {}
  BY <1>3 DEF LP!Bindings, LP!Types, LP!find_lease
<1>6. CP!CountingInv
  BY <1>1, CountAssumption, CP!InitCounting
<1> QED
  BY <1>2, <1>3, <1>4, <1>5, <1>6 DEF AnalysisInv, LogInv, LP!StateInv, LastInv

(* Parsing a line keeps what is known of the log. *)
LEMMA ParsingLog ==
  ASSUME LogInv, LP!WellFormed(LP!file), [LP!Next]_(LP!vars)
  PROVE  LogInv'
<1>1. LP!TypeOK' /\ LP!UniqueAddresses'
  BY LogAssumption, LP!NextType DEF LogInv
<1>2. LP!ReaderInv' /\ LP!StateInv'
  BY LogAssumption, LP!NextReader, LP!NextState DEF LogInv
<1>3. LastInv'
  <2>0. LP!TypeOK /\ LP!ReaderInv
    BY DEF LogInv
  <2>00. pos \in Nat
    BY <2>0, LogAssumption, LP!FileType
  <2>1. SUFFICES ASSUME NEW a \in Addr, LP!Bindings(a)' # {}
                 PROVE  (\E b : LP!IsLast(b, LP!Bindings(a)))'
    BY DEF LastInv
  <2>2. \/ LP!Bindings(a)' = LP!Bindings(a)
        \/ LP!Bindings(a)' = LP!Bindings(a) \cup {pos + 1}
    BY <2>0, LogAssumption, LP!NextBindings
  <2>3. CASE LP!Bindings(a)' = LP!Bindings(a)
    BY <2>1, <2>3 DEF LogInv, LastInv, LP!IsLast
  <2>4. CASE LP!Bindings(a)' = LP!Bindings(a) \cup {pos + 1}
    <3>1. \A b \in LP!Bindings(a) : b <= pos + 1
      BY <2>00 DEF LP!Bindings
    <3>2. pos + 1 <= pos + 1
      BY <2>00
    <3> QED
      BY <2>4, <3>1, <3>2 DEF LP!IsLast
  <2> QED
    BY <2>2, <2>3, <2>4
<1> QED
  BY <1>1, <1>2, <1>3 DEF LogInv

(* As long as nothing has been counted another table makes no difference. *)
LEMMA WaitingCounting ==
  ASSUME CP!CountingInv, pc = "prepare", Table(leases'), UNCHANGED counting
  PROVE  CP!CountingInv'
<1> DEFINE n == Len(Listing(leases'))
<1>1. CP!TypeOK /\ CP!PhaseInv /\ CP!TallyInv /\ CP!NetInv
  BY DEF CP!CountingInv
<1>2. i = 1 /\ l = 0 /\ k = 1
  BY <1>1 DEF CP!PhaseInv, CP!NULL
<1>3. /\ Listing(leases') \in Seq(CP!Lease) /\ n <= MaxAddr + 1
      /\ CP!UniqueIps(Listing(leases')) /\ n \in Nat
  BY TableListing
<1>4. CP!TypeOK'
  BY <1>1, <1>2, <1>3 DEF CP!TypeOK, counting
<1>5. CP!PhaseInv' /\ CP!SortedInv' /\ CP!TotalInv'
  BY <1>1, <1>3 DEF counting, CP!PhaseInv, CP!SortedInv, CP!TotalInv
<1>6. ASSUME NEW t \in CP!LeaseTypes
      PROVE  /\ \A j \in DOMAIN ranges : CP!Seen(j, t) = {} /\ CP!Seen(j, t)' = {}
             /\ \A m : CP!NetSeen(m, t) = {} /\ CP!NetSeen(m, t)' = {}
  <2>1. \A j \in DOMAIN ranges : ~(j < 1)
    BY <1>1 DEF CP!TypeOK
  <2>2. \A j \in DOMAIN ranges : CP!Seen(j, t) = {} /\ CP!Seen(j, t)' = {}
    BY <1>2, <2>1, pc = "prepare", UNCHANGED counting DEF CP!Seen, counting
  <2>3. \A m : CP!NetSeen(m, t) = {} /\ CP!NetSeen(m, t)' = {}
    BY <2>2 DEF CP!NetSeen, CP!OfNet, counting
  <2> QED
    BY <2>2, <2>3
<1>7. CP!TallyInv'
  BY <1>1, <1>6 DEF CP!TallyInv, counting
<1>8. CP!NetInv'
  BY <1>1, <1>6 DEF CP!NetInv, counting
<1> QED
  BY <1>4, <1>5, <1>7, <1>8 DEF CP!CountingInv

(* Sorting the table changes the order of its entries, not what they say. *)
LEMMA SortingLog ==
  ASSUME LogInv, leases' \in CP!Rearrangements(leases), UNCHANGED parsing
  PROVE  LogInv'
<1> DEFINE D == DOMAIN leases
<1>0. LP!TypeOK /\ LP!UniqueAddresses /\ LP!ReaderInv /\ LP!StateInv /\ LastInv
  BY DEF LogInv
<1>1. leases \in Seq(LP!Entry) /\ \A x, y \in D : leases[x].ip = leases[y].ip => x = y
  BY <1>0, LogTable DEF Table
<1>2. PICK p \in CP!Bijection(D, D) : leases' = [x \in D |-> leases[p[x]]]
  BY DEF CP!Rearrangements
<1>3. /\ p \in [D -> D]
      /\ \A x, y \in D : p[x] = p[y] => x = y
      /\ \A y \in D : \E x \in D : p[x] = y
  BY DEF CP!Bijection, CP!Injection, CP!Surjection, CP!IsInjective
<1>4. leases' \in Seq(LP!Entry)
  BY <1>1, CountAssumption, CP!RearrangementType
<1>5. LP!UniqueAddresses'
  BY <1>1, <1>2, <1>3 DEF LP!UniqueAddresses
<1>6. \A a : LP!Types(a)' = LP!Types(a)
  BY <1>2, <1>3 DEF LP!Types, LP!find_lease
<1>7. \A a : LP!Bindings(a)' = LP!Bindings(a)
  BY DEF LP!Bindings, LP!InBlock, LP!file, parsing
<1>8. LP!TypeOK'
  BY <1>0, <1>4 DEF LP!TypeOK, LP!file, parsing
<1>9. LP!ReaderInv'
  BY <1>0 DEF LP!ReaderInv, LP!file, parsing
<1>10. LP!StateInv' /\ LastInv'
  BY <1>0, <1>6, <1>7 DEF LP!StateInv, LastInv, LP!file, LP!IsLast, parsing
<1> QED
  BY <1>5, <1>8, <1>9, <1>10 DEF LogInv

LEMMA NextAnalysis ==
  ASSUME AnalysisInv, LP!WellFormed(LP!file), [Next]_vars
  PROVE  AnalysisInv'
<1>0. LogInv /\ CP!CountingInv /\ CP!TypeOK /\ (pc # "prepare" => eof)
  BY DEF AnalysisInv, CP!CountingInv
<1>1. CASE parse_leases
  <2>1. LP!Turn /\ UNCHANGED counting
    BY <1>1, SameParsing DEF parse_leases
  <2>2. pc = "prepare" /\ pc' = pc
    <3>1. ~eof
      BY <2>1 DEF LP!Turn, LP!Detect, LP!SaveAddress, LP!SaveState, LP!SaveEthernet, LP!SkipLine, LP!Fetch
    <3> QED
      BY <1>0, <2>1, <3>1 DEF counting
  <2>3. LogInv'
    BY <1>0, <2>1, ParsingLog DEF LP!Next
  <2>4. Table(leases')
    BY <2>3 DEF LogInv, LP!TypeOK, LP!UniqueAddresses, Table
  <2>5. CP!CountingInv'
    BY <1>0, <2>1, <2>2, <2>4, WaitingCounting
  <2> QED
    BY <2>2, <2>3, <2>5 DEF AnalysisInv
<1>2. CASE prepare_data
  <2>1. CP!PrepareData /\ eof /\ UNCHANGED parsing
    BY <1>2, SamePrepare DEF prepare_data
  <2>2. leases' \in CP!Rearrangements(leases)
    BY <1>2, SameOrder DEF prepare_data, Arranged
  <2>3. LogInv'
    BY <1>0, <2>1, <2>2, SortingLog
  <2>4. CP!Next
    BY <2>1 DEF CP!Next, CP!Step
  <2>5. CP!TypeOK'
    BY <1>0, <2>4, CountAssumption, CP!TypeStep
  <2>6. CP!CountingInv'
    BY <1>0, <2>4, <2>5, CountAssumption, CP!NextCounting
  <2>7. eof'
    BY <2>1 DEF parsing
  <2> QED
    BY <2>3, <2>6, <2>7 DEF AnalysisInv
<1>3. CASE do_counting
  <2>1. CP!Step /\ UNCHANGED <<parsing, leases>> /\ pc # "prepare"
    BY <1>3, SameCounting DEF do_counting
  <2>2. LogInv'
    BY <1>0, <2>1, ParsingLog DEF LP!vars, parsing
  <2>3. CP!Next
    BY <2>1 DEF CP!Next
  <2>4. CP!TypeOK'
    BY <1>0, <2>3, CountAssumption, CP!TypeStep
  <2>5. CP!CountingInv'
    BY <1>0, <2>3, <2>4, CountAssumption, CP!NextCounting
  <2>6. eof'
    BY <1>0, <2>1 DEF parsing
  <2> QED
    BY <2>2, <2>5, <2>6 DEF AnalysisInv
<1>4. CASE UNCHANGED vars
  <2>1. LogInv'
    BY <1>0, <1>4, ParsingLog DEF LP!vars, vars, parsing
  <2>2. UNCHANGED CP!vars
    BY <1>4 DEF CP!vars, vars, counting
  <2>3. CP!TypeOK'
    BY <1>0, <2>2, CountAssumption, CP!TypeStep
  <2>4. CP!CountingInv'
    BY <1>0, <2>2, <2>3, CountAssumption, CP!NextCounting
  <2>5. pc' = pc /\ eof' = eof
    BY <1>4 DEF vars, parsing, counting
  <2> QED
    BY <1>0, <2>1, <2>4, <2>5 DEF AnalysisInv
<1> QED
  BY <1>1, <1>2, <1>3, <1>4 DEF Next, Terminated

-----------------------------------------------------------------------------
(* The report and the log *)

(* The table has an entry of state t for exactly the addresses whose latest
   state in the log is t. *)
LEMMA LatestInTable ==
  ASSUME LogInv, NEW a \in Addr, NEW t \in CP!LeaseTypes
  PROVE  LatestState(a) = t <=> \E x \in DOMAIN leases : leases[x].ip = a /\ leases[x].type = t
<1> DEFINE B == LP!Bindings(a)
<1>0. LP!StateInv /\ LastInv
  BY DEF LogInv
<1>1. LP!Types(a) = {leases[x].type : x \in {x \in DOMAIN leases : leases[x].ip = a}}
  BY DEF LP!Types, LP!find_lease
<1>2. LatestState(a) = IF B = {} THEN "none"
                       ELSE LP!TypeOf(LP!file[CHOOSE b \in B : LP!IsLast(b, B)].arg)
  <2>1. /\ Log!Bindings(a) = B
        /\ (CHOOSE b \in Log!Bindings(a) : Log!IsLast(b, Log!Bindings(a)))
             = (CHOOSE b \in B : LP!IsLast(b, B))
    BY SameBindings
  <2>2. \A s : Log!TypeOf(s) = LP!TypeOf(s)
    BY SameBindings
  <2> DEFINE c == CHOOSE b \in Log!Bindings(a) : Log!IsLast(b, Log!Bindings(a))
             d == CHOOSE b \in B : LP!IsLast(b, B)
  <2>3. LatestState(a) = IF Log!Bindings(a) = {} THEN "none" ELSE Log!TypeOf(LP!file[c].arg)
    BY DEF LatestState, LP!file
  <2> HIDE DEF B, c, d
  <2>4. LatestState(a) = IF B = {} THEN "none" ELSE LP!TypeOf(LP!file[d].arg)
    BY <2>1, <2>2, <2>3 DEF c, d
  <2> QED
    BY <2>4 DEF B, d
<1>3. CASE B = {}
  <2>1. LP!Types(a) = {}
    BY <1>0, <1>3 DEF LP!StateInv
  <2> QED
    BY <1>1, <1>2, <1>3, <2>1 DEF CP!LeaseTypes
<1>4. CASE B # {}
  <2>1. PICK b \in B : LP!IsLast(b, B) /\ b = CHOOSE c \in B : LP!IsLast(c, B)
    BY <1>0, <1>4 DEF LastInv, LP!IsLast
  <2>2. LP!Types(a) = {LP!TypeOf(LP!file[b].arg)}
    BY <1>0, <2>1 DEF LP!StateInv
  <2>3. LatestState(a) = LP!TypeOf(LP!file[b].arg)
    BY <1>2, <1>4, <2>1
  <2> QED
    BY <1>1, <2>2, <2>3
<1> QED
  BY <1>3, <1>4

(* A lease matches a range exactly when its address is one that the log has in
   that state, and every such address has a lease. *)
LEMMA MatchingAddresses ==
  ASSUME AnalysisInv, NEW j \in DOMAIN ranges, NEW t \in CP!LeaseTypes
  PROVE  /\ CP!Matching(j, t) = {x \in DOMAIN leases : leases[x].ip \in Addresses(ranges[j], t)}
         /\ Addresses(ranges[j], t) = {leases[x].ip : x \in CP!Matching(j, t)}
<1> DEFINE r == ranges[j]
           A == Addresses(r, t)
<1>0. LogInv /\ CP!TypeOK /\ Table(leases)
  BY LogTable DEF AnalysisInv, LogInv, CP!CountingInv
<1>1. r.first \in 0..MaxAddr /\ r.last \in 0..MaxAddr
  <2>1. r \in CP!RangeRec
    BY <1>0 DEF CP!TypeOK
  <2> QED
    BY <2>1 DEF CP!RangeRec, CP!Addr
<1>2. \A x \in DOMAIN leases : leases[x].ip \in Addr
  <2>1. \A x \in DOMAIN leases : leases[x] \in LP!Entry
    BY <1>0 DEF Table
  <2> QED
    BY <2>1 DEF LP!Entry
<1>3. CP!Matching(j, t) = {x \in DOMAIN leases : /\ leases[x].ip \in r.first..r.last
                                                /\ leases[x].type = t}
  BY DEF CP!Matching, CP!InRange, Listing
<1>4. A = {a \in Addr : /\ a \in r.first..r.last
                        /\ \E x \in DOMAIN leases : leases[x].ip = a /\ leases[x].type = t}
  <2>1. \A a \in Addr : r.first <= a /\ a <= r.last <=> a \in r.first..r.last
    BY <1>1, AnalysisAssumption DEF Addr
  <2> QED
    BY <1>0, <2>1, LatestInTable DEF Addresses
<1> HIDE DEF r, A
<1>5. \A x, y \in DOMAIN leases : leases[x].ip = leases[y].ip => x = y
  BY <1>0 DEF Table
<1>6. CP!Matching(j, t) = {x \in DOMAIN leases : leases[x].ip \in A}
  BY <1>2, <1>3, <1>4, <1>5
<1>7. A = {leases[x].ip : x \in CP!Matching(j, t)}
  BY <1>2, <1>3, <1>4
<1> QED
  BY <1>6, <1>7 DEF r, A

(* One lease per address: as many leases match as there are addresses. *)
LEMMA MatchingCount ==
  ASSUME AnalysisInv, NEW j \in DOMAIN ranges, NEW t \in CP!LeaseTypes
  PROVE  Cardinality(Addresses(ranges[j], t)) = Cardinality(CP!Matching(j, t))
<1> DEFINE M == CP!Matching(j, t)
           A == Addresses(ranges[j], t)
           f == [x \in M |-> leases[x].ip]
<1>1. \A x, y \in DOMAIN leases : leases[x].ip = leases[y].ip => x = y
  BY LogTable DEF AnalysisInv, LogInv, Table
<1>2. M \subseteq DOMAIN leases /\ A = {leases[x].ip : x \in M}
  BY MatchingAddresses
<1>3. IsFiniteSet(M)
  BY CountAssumption, CP!FiniteSeen, SameSize DEF AnalysisInv, CP!CountingInv
<1> HIDE DEF M, A
<1>4. f \in Bijection(M, A)
  BY <1>1, <1>2 DEF Bijection, Injection, Surjection, IsInjective
<1> HIDE DEF f
<1>5. Cardinality(A) = Cardinality(M)
  BY <1>3, <1>4, FS_Bijection DEF ExistsBijection
<1> QED
  BY <1>5 DEF M, A

(* The same for all ranges together. *)
LEMMA PairsCount ==
  ASSUME AnalysisInv, NEW t \in CP!LeaseTypes
  PROVE  Cardinality({q \in (DOMAIN ranges) \X Addr : q[2] \in Addresses(ranges[q[1]], t)})
           = Cardinality(CP!Pairs(DOMAIN ranges, t))
<1> DEFINE P == CP!Pairs(DOMAIN ranges, t)
           Q == {q \in (DOMAIN ranges) \X Addr : q[2] \in Addresses(ranges[q[1]], t)}
           g == [x \in P |-> <<x[2], leases[x[1]].ip>>]
<1>1. \A x, y \in DOMAIN leases : leases[x].ip = leases[y].ip => x = y
  BY LogTable DEF AnalysisInv, LogInv, Table
<1>2. P = {x \in (DOMAIN leases) \X (DOMAIN ranges) :
             leases[x[1]].ip \in Addresses(ranges[x[2]], t)}
  BY MatchingAddresses DEF CP!Pairs, Listing
<1>3. \A j \in DOMAIN ranges : \A a \in Addresses(ranges[j], t) :
        a \in Addr /\ \E x \in DOMAIN leases : leases[x].ip = a
  BY MatchingAddresses DEF Addresses
<1>4. IsFiniteSet(P)
  <2>1. DOMAIN ranges \in SUBSET Int
    BY DEF AnalysisInv, CP!CountingInv, CP!TypeOK
  <2> QED
    BY <2>1, CountAssumption, CP!FiniteSeen, SameSize DEF AnalysisInv, CP!CountingInv
<1> HIDE DEF P
<1>5. g \in [P -> Q]
  BY <1>2, <1>3
<1>6. \A x, y \in P : g[x] = g[y] => x = y
  BY <1>1, <1>2
<1>7. \A q \in Q : \E x \in P : g[x] = q
  <2>1. SUFFICES ASSUME NEW q \in Q PROVE \E x \in P : g[x] = q
    OBVIOUS
  <2>2. PICK x \in DOMAIN leases : leases[x].ip = q[2]
    BY <1>3
  <2>3. <<x, q[1]>> \in P /\ g[<<x, q[1]>>] = q
    BY <1>2, <2>2
  <2> QED
    BY <2>3
<1> HIDE DEF Q, g
<1>8. g \in Bijection(P, Q)
  BY <1>5, <1>6, <1>7 DEF Bijection, Injection, Surjection, IsInjective
<1>9. Cardinality(Q) = Cardinality(P)
  BY <1>4, <1>8, FS_Bijection DEF ExistsBijection
<1> QED
  BY <1>9 DEF P, Q

LEMMA AnalysisInvTypes == AnalysisInv => TypeOK
BY SameLogTypes, SameCountTypes DEF AnalysisInv, LogInv, CP!CountingInv, TypeOK

LEMMA AnalysisInvReports == AnalysisInv => ReportOfLog /\ TotalsOfLog
<1> SUFFICES ASSUME AnalysisInv PROVE ReportOfLog /\ TotalsOfLog
  OBVIOUS
<1>0. CP!RangeCountersExact /\ CP!AllNetworksExact
  BY CountAssumption, CP!CountingInvExact DEF AnalysisInv
<1>1. CP!Closed \subseteq DOMAIN ranges
  <2>1. ranges \in Seq(CP!RangeRec) /\ i \in 1..(Len(ranges) + 1)
    BY DEF AnalysisInv, CP!CountingInv, CP!TypeOK
  <2> QED
    BY <2>1 DEF CP!Closed
<1>2. ReportOfLog
  BY <1>0, <1>1, MatchingCount, SameCountTypes, SameSize DEF ReportOfLog, CP!RangeCountersExact
<1>3. TotalsOfLog
  BY <1>0, PairsCount, SameCountTypes, SameSize DEF TotalsOfLog, CP!AllNetworksExact, CP!LeaseTypes
<1> QED
  BY <1>2, <1>3

(* A file in which every binding state belongs to an address is one for both
   readings of the definition. *)
LEMMA SameWellFormed == \A f : Log!WellFormed(f) <=> LP!WellFormed(f)
BY DEF Log!WellFormed, LP!WellFormed, Log!IsHeader, LP!IsHeader

LEMMA AnalysisAlways ==
  ASSUME \A in \in Inputs : Log!WellFormed(in.lines)
  PROVE  Spec => []AnalysisInv
<1>1. AnalysisInv => LP!WellFormed(LP!file)
  <2>1. AnalysisInv => input \in Inputs
    BY DEF AnalysisInv, LogInv, LP!TypeOK
  <2> QED
    BY <2>1, SameWellFormed DEF LP!file
<1>2. AnalysisInv /\ [Next]_vars => AnalysisInv'
  BY <1>1, NextAnalysis
<1> QED
  BY <1>2, InitAnalysis, PTL DEF Spec

(* The table that the parser leaves, and whatever becomes of it while it is
   sorted and counted, is within what both parts rely on. *)
THEOREM PartsFit ==
  ASSUME \A in \in Inputs : Log!WellFormed(in.lines)
  PROVE  Spec => []TypeOK
BY AnalysisAlways, AnalysisInvTypes, PTL

(* For every lease file whose binding states belong to addresses, all ranges
   and all networks: a range has counted the addresses that the log says are in
   each state, each of them once. *)
THEOREM ReportIsOfLog ==
  ASSUME \A in \in Inputs : Log!WellFormed(in.lines)
  PROVE  Spec => []ReportOfLog
BY AnalysisAlways, AnalysisInvReports, PTL

(* ... and so have the totals of used and touched addresses. *)
THEOREM TotalsAreOfLog ==
  ASSUME \A in \in Inputs : Log!WellFormed(in.lines)
  PROVE  Spec => []TotalsOfLog
BY AnalysisAlways, AnalysisInvReports, PTL
=============================================================================
