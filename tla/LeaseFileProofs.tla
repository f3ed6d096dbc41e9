--------------------------- MODULE LeaseFileProofs ---------------------------
(***************************************************************************)
(* Proofs about the lease file parser for every set of files: the types,   *)
(* that the table never has two entries of one address, and that in files  *)
(* whose binding states all belong to addresses the latest state wins.     *)
(***************************************************************************)
EXTENDS LeaseFile, SequenceTheorems, TLAPS

USE LeaseFileAssumption

-----------------------------------------------------------------------------
(* Reading *)

(* The lines of an input and the line that is handled next. *)
LEMMA FileType ==
  ASSUME TypeOK
  PROVE  /\ file \in Seq(Line) /\ Len(file) \in Nat /\ DOMAIN file = 1..Len(file)
         /\ input.newline \in BOOLEAN /\ input.version \in Versions
         /\ pos \in Nat
         /\ NextLine \in Line
<1>1. input \in [lines : Seq(Line), newline : BOOLEAN, version : Versions, ethernets : BOOLEAN]
  BY DEF TypeOK
<1>2. file \in Seq(Line) /\ input.newline \in BOOLEAN /\ input.version \in Versions
  BY <1>1 DEF file
<1>3. Len(file) \in Nat /\ DOMAIN file = 1..Len(file)
  BY <1>2
<1>4. pos \in 0..Len(file) /\ line \in Line
  BY DEF TypeOK
<1>5. ASSUME pos < Len(file) PROVE file[pos + 1] \in Line
  <2>1. pos + 1 \in 1..Len(file)
    BY <1>3, <1>4, <1>5
  <2> QED
    BY <1>2, <2>1
<1> QED
  BY <1>2, <1>3, <1>4, <1>5 DEF NextLine

(* Header and binding state lines carry an address and a state. *)
LEMMA LineArgs ==
  ASSUME NEW ln \in Line, NEW v
  PROVE  /\ IsLease(v, ln) => ln.arg \in Addr /\ IsHeader(ln)
         /\ IsBinding(v, ln) => /\ ~IsHeader(ln) /\ ~IsLease(v, ln)
                                /\ TypeOf(ln.arg) \in {"FREE", "ACTIVE", "BACKUP"}
         /\ IsEthernet(v, ln) => ln.arg \in Macs
BY DEF Line, IsLease, IsBinding, IsEthernet, IsHeader, TypeOf

-----------------------------------------------------------------------------
(* The lease table *)

\* The entries of a list, without their order.
Entries(s) == {s[x] : x \in DOMAIN s}
Unique(s) == \A x, y \in DOMAIN s : s[x].ip = s[y].ip => x = y

(* delete_lease removes the entries of an address and keeps the others. *)
LEMMA DeleteLease ==
  ASSUME leases \in Seq(Entry), Unique(leases), NEW a
  PROVE  /\ delete_lease(a) \in Seq(Entry)
         /\ Unique(delete_lease(a))
         /\ Entries(delete_lease(a)) = {e \in Entries(leases) : e.ip # a}
<1>0. Len(leases) \in Nat /\ DOMAIN leases = 1..Len(leases)
  OBVIOUS
<1>1. CASE find_lease(a) = {}
  <2>1. delete_lease(a) = leases
    BY <1>1 DEF delete_lease
  <2>2. \A x \in DOMAIN leases : leases[x].ip # a
    BY <1>1 DEF find_lease
  <2> QED
    BY <2>1, <2>2 DEF Entries
<1>2. CASE find_lease(a) # {}
  <2>1. PICK x \in find_lease(a) : x = CHOOSE z \in find_lease(a) : TRUE
    BY <1>2
  <2> DEFINE n == Len(leases)
             d == [y \in 1..(n - 1) |-> IF y < x THEN leases[y] ELSE leases[y + 1]]
  <2>2. delete_lease(a) = d
    BY <1>2, <2>1 DEF delete_lease
  <2>3. x \in 1..n /\ n \in Nat /\ leases[x].ip = a
    BY <1>0, <2>1 DEF find_lease
  <2>4. \A y \in 1..n : leases[y] \in Entry
    BY <1>0
  <2>5. d \in [1..(n - 1) -> Entry]
    BY <2>3, <2>4
  <2>6. d \in Seq(Entry) /\ DOMAIN d = 1..(n - 1)
    BY <2>3, <2>5
  <2>7. \A y \in 1..n : y # x => leases[y].ip # a
    BY <1>0, <2>3 DEF Unique
  <2>8. Unique(d)
    <3>1. SUFFICES ASSUME NEW y \in 1..(n - 1), NEW z \in 1..(n - 1), d[y].ip = d[z].ip
                   PROVE  y = z
      BY <2>6 DEF Unique
    <3> DEFINE up(w) == IF w < x THEN w ELSE w + 1
    <3>2. d[y] = leases[up(y)] /\ d[z] = leases[up(z)]
      OBVIOUS
    <3>3. up(y) \in 1..n /\ up(z) \in 1..n
      BY <2>3
    <3>4. up(y) = up(z)
      BY <1>0, <3>1, <3>2, <3>3 DEF Unique
    <3> QED
      BY <2>3, <3>4
  <2>9. Entries(d) \subseteq {e \in Entries(leases) : e.ip # a}
    <3>1. SUFFICES ASSUME NEW y \in 1..(n - 1)
                   PROVE  d[y] \in Entries(leases) /\ d[y].ip # a
      BY <2>6 DEF Entries
    <3> DEFINE w == IF y < x THEN y ELSE y + 1
    <3>2. w \in 1..n /\ w # x /\ d[y] = leases[w]
      BY <2>3
    <3> QED
      BY <1>0, <2>7, <3>2 DEF Entries
  <2>10. {e \in Entries(leases) : e.ip # a} \subseteq Entries(d)
    <3>1. SUFFICES ASSUME NEW w \in 1..n, leases[w].ip # a
                   PROVE  leases[w] \in Entries(d)
      BY <1>0 DEF Entries
    <3>2. w # x
      BY <2>3, <3>1
    <3> DEFINE y == IF w < x THEN w ELSE w - 1
    <3>3. y \in 1..(n - 1) /\ d[y] = leases[w]
      BY <2>3, <3>2
    <3> QED
      BY <2>6, <3>3 DEF Entries
  <2> QED
    BY <2>2, <2>6, <2>8, <2>9, <2>10
<1> QED
  BY <1>1, <1>2

(* Replacing the entry of an address leaves one entry of it, the new one, and
   no other address is touched. *)
LEMMA ReplaceLease ==
  ASSUME leases \in Seq(Entry), Unique(leases),
         NEW a \in Addr, NEW t \in {"FREE", "ACTIVE", "BACKUP"}
  PROVE  LET s == add_lease(delete_lease(a), a, t) IN
           /\ s \in Seq(Entry)
           /\ Unique(s)
           /\ Entries(s) = {e \in Entries(leases) : e.ip # a}
                             \cup {[ip |-> a, type |-> t, ethernet |-> None]}
<1> DEFINE d == delete_lease(a)
           e0 == [ip |-> a, type |-> t, ethernet |-> None]
           s == Append(d, e0)
<1>1. d \in Seq(Entry) /\ Unique(d) /\ Entries(d) = {e \in Entries(leases) : e.ip # a}
  BY DeleteLease
<1>2. e0 \in Entry /\ e0.ip = a
  BY DEF Entry
<1> HIDE DEF d, e0
<1>3. /\ s \in Seq(Entry) /\ Len(s) = Len(d) + 1 /\ Len(d) \in Nat
      /\ DOMAIN s = 1..(Len(d) + 1) /\ DOMAIN d = 1..Len(d)
      /\ \A x \in 1..Len(d) : s[x] = d[x]
      /\ s[Len(d) + 1] = e0
  BY <1>1, <1>2
<1> HIDE DEF s
<1>4. \A x \in 1..Len(d) : d[x].ip # a
  BY <1>1, <1>3 DEF Entries
<1>5. Entries(s) = Entries(d) \cup {e0}
  <2>1. \A x \in DOMAIN s : x \in DOMAIN d \/ x = Len(d) + 1
    BY <1>3
  <2>2. \A x \in DOMAIN d : x \in DOMAIN s
    BY <1>3
  <2>3. Len(d) + 1 \in DOMAIN s
    BY <1>3
  <2> QED
    BY <1>3, <2>1, <2>2, <2>3 DEF Entries
<1>6. Unique(s)
  <2>1. SUFFICES ASSUME NEW x \in 1..(Len(d) + 1), NEW y \in 1..(Len(d) + 1), s[x].ip = s[y].ip
                 PROVE  x = y
    BY <1>3 DEF Unique
  <2>2. CASE x \in 1..Len(d) /\ y \in 1..Len(d)
    BY <1>1, <1>3, <2>1, <2>2 DEF Unique
  <2>3. CASE x = Len(d) + 1 \/ y = Len(d) + 1
    BY <1>2, <1>3, <1>4, <2>1, <2>3
  <2> QED
    BY <1>3, <2>2, <2>3
<1> QED
  BY <1>1, <1>3, <1>5, <1>6 DEF s, d, e0, add_lease

(* Setting the hardware address of an entry changes no address or state. *)
LEMMA EthernetEntries ==
  ASSUME leases \in Seq(Entry), Unique(leases), NEW a, NEW m \in Macs
  PROVE  LET s == [x \in DOMAIN leases |->
                     IF x \in find_lease(a) THEN [leases[x] EXCEPT !.ethernet = m] ELSE leases[x]]
         IN  /\ s \in Seq(Entry) /\ DOMAIN s = DOMAIN leases
             /\ \A x \in DOMAIN s : s[x].ip = leases[x].ip /\ s[x].type = leases[x].type
             /\ Unique(s)
<1> DEFINE s == [x \in DOMAIN leases |->
                   IF x \in find_lease(a) THEN [leases[x] EXCEPT !.ethernet = m] ELSE leases[x]]
<1>1. \A x \in DOMAIN leases : leases[x] \in Entry
  OBVIOUS
<1>2. \A x \in DOMAIN leases : /\ s[x] \in Entry
                               /\ s[x].ip = leases[x].ip /\ s[x].type = leases[x].type
  BY <1>1 DEF Entry
<1>3. s \in [1..Len(leases) -> Entry]
  BY <1>2
<1>4. s \in Seq(Entry) /\ DOMAIN s = DOMAIN leases
  BY <1>3
<1> HIDE DEF s
<1>5. Unique(s)
  BY <1>2, <1>4 DEF Unique
<1> QED
  BY <1>2, <1>4, <1>5 DEF s

-----------------------------------------------------------------------------
(* Types *)

LEMMA InitType == Init => TypeOK /\ UniqueAddresses
<1> SUFFICES ASSUME Init PROVE TypeOK /\ UniqueAddresses
  OBVIOUS
<1>1. input \in [lines : Seq(Line), newline : BOOLEAN, version : Versions, ethernets : BOOLEAN]
  BY DEF Init
<1>2. file \in Seq(Line) /\ Len(file) \in Nat /\ version \in Versions
  BY <1>1 DEF file, Init
<1>3. Blank \in Line
  BY DEF Blank, Line
<1>4. leases \in Seq(Entry) /\ DOMAIN leases = {}
  BY DEF Init
<1>5. pos \in 0..Len(file)
  BY <1>2 DEF Init
<1> QED
  BY <1>2, <1>3, <1>4, <1>5 DEF Init, TypeOK, UniqueAddresses

LEMMA NextType == TypeOK /\ UniqueAddresses /\ [Next]_vars => TypeOK' /\ UniqueAddresses'
<1> SUFFICES ASSUME TypeOK, UniqueAddresses, [Next]_vars PROVE TypeOK' /\ UniqueAddresses'
  OBVIOUS
<1>0. leases \in Seq(Entry) /\ Unique(leases) /\ addr \in Addr
  BY DEF TypeOK, UniqueAddresses, Unique
<1>1. ASSUME Fetch, input' = input
      PROVE  /\ input' \in Inputs /\ pos' \in 0..Len(file)' /\ eof' \in BOOLEAN /\ line' \in Line
  <2>1. pos' \in 0..Len(file)
    <3>1. \A n \in Nat : \A p \in 0..n : p < n => p + 1 \in 0..n
      OBVIOUS
    <3>2. Len(file) \in Nat /\ pos \in 0..Len(file)
      BY FileType DEF TypeOK
    <3>3. pos' = IF pos < Len(file) THEN pos + 1 ELSE pos
      BY <1>1 DEF Fetch
    <3> QED
      BY <3>1, <3>2, <3>3
  <2>2. file' = file
    BY <1>1 DEF file
  <2> QED
    BY <1>1, <2>1, <2>2, FileType DEF Fetch, TypeOK
<1>2. CASE Detect
  BY <1>1, <1>2 DEF Detect, TypeOK, UniqueAddresses, Versions
<1>3. CASE SaveAddress
  <2>1. addr' \in Addr
    BY <1>3, FileType, LineArgs DEF SaveAddress
  <2> QED
    BY <1>1, <1>3, <2>1 DEF SaveAddress, TypeOK, UniqueAddresses
<1>4. CASE SaveState
  <2> DEFINE t == TypeOf(NextLine.arg)
  <2>1. t \in {"FREE", "ACTIVE", "BACKUP"}
    BY <1>4, FileType, LineArgs DEF SaveState
  <2>2. leases' = add_lease(delete_lease(addr), addr, t)
    BY <1>4 DEF SaveState
  <2> HIDE DEF t
  <2>3. leases' \in Seq(Entry) /\ Unique(leases')
    BY <1>0, <2>1, <2>2, ReplaceLease
  <2>4. backups_found' \in BOOLEAN
    BY <1>4 DEF SaveState, TypeOK
  <2> QED
    BY <1>1, <1>4, <2>3, <2>4 DEF SaveState, TypeOK, UniqueAddresses, Unique
<1>5. CASE SaveEthernet
  <2>1. NextLine.arg \in Macs
    BY <1>5, FileType, LineArgs DEF SaveEthernet
  <2>2. leases' \in Seq(Entry) /\ Unique(leases')
    BY <1>0, <1>5, <2>1, EthernetEntries DEF SaveEthernet
  <2> QED
    BY <1>1, <1>5, <2>2 DEF SaveEthernet, TypeOK, UniqueAddresses, Unique
<1>6. CASE SkipLine
  BY <1>1, <1>6 DEF SkipLine, TypeOK, UniqueAddresses
<1>7. CASE UNCHANGED vars
  BY <1>7 DEF vars, TypeOK, UniqueAddresses, file
<1> QED
  BY <1>2, <1>3, <1>4, <1>5, <1>6, <1>7 DEF Next, Turn, Terminated

LEMMA TableAlways == Spec => [](TypeOK /\ UniqueAddresses)
BY InitType, NextType, PTL DEF Spec

(* The parser's variables keep their types, the line buffer at the end of the
   file and the address of a block that has none included. *)
THEOREM TableTypes == Spec => []TypeOK
BY TableAlways, PTL

(* The lease table never has two entries of one address, whatever the file
   says in whatever order. *)
THEOREM TableCorrect == Spec => []UniqueAddresses
BY TableAlways, PTL

-----------------------------------------------------------------------------
(* Backups *)

LEMMA NextBackups ==
  TypeOK /\ UniqueAddresses /\ BackupsReported /\ [Next]_vars => BackupsReported'
<1> SUFFICES ASSUME TypeOK, UniqueAddresses, BackupsReported, [Next]_vars,
                    NEW x \in DOMAIN leases', leases'[x].type = "BACKUP"
             PROVE  backups_found'
  BY DEF BackupsReported
<1>0. leases \in Seq(Entry) /\ Unique(leases) /\ addr \in Addr
  BY DEF TypeOK, UniqueAddresses, Unique
<1>1. CASE SaveState
  <2> DEFINE t == TypeOf(NextLine.arg)
             e0 == [ip |-> addr, type |-> t, ethernet |-> None]
  <2>1. t \in {"FREE", "ACTIVE", "BACKUP"} /\ leases' = add_lease(delete_lease(addr), addr, t)
        /\ backups_found' = (backups_found \/ t = "BACKUP")
    BY <1>1, FileType, LineArgs DEF SaveState
  <2> HIDE DEF t
  <2>2. Entries(leases') = {e \in Entries(leases) : e.ip # addr} \cup {e0}
    BY <1>0, <2>1, ReplaceLease
  <2>3. leases'[x] \in Entries(leases) \/ leases'[x] = e0
    BY <2>2 DEF Entries
  <2>4. CASE leases'[x] \in Entries(leases)
    BY <2>1, <2>4 DEF Entries, BackupsReported
  <2>5. CASE leases'[x] = e0
    <3>1. e0.type = t
      OBVIOUS
    <3>2. t = "BACKUP"
      BY <2>5, <3>1
    <3> QED
      BY <2>1, <3>2
  <2> QED
    BY <2>3, <2>4, <2>5
<1>2. CASE SaveEthernet
  <2>1. NextLine.arg \in Macs
    BY <1>2, FileType, LineArgs DEF SaveEthernet
  <2>2. DOMAIN leases' = DOMAIN leases /\ leases'[x].type = leases[x].type
    BY <1>0, <1>2, <2>1, EthernetEntries DEF SaveEthernet
  <2> QED
    BY <1>2, <2>2 DEF SaveEthernet, BackupsReported
<1>3. CASE Detect \/ SaveAddress \/ SkipLine \/ UNCHANGED vars
  BY <1>3 DEF Detect, SaveAddress, SkipLine, vars, BackupsReported
<1> QED
  BY <1>1, <1>2, <1>3 DEF Next, Turn, Terminated

(* A lease in failover backup that is in the table has set the flag that makes
   the reports print their backup columns. *)
THEOREM BackupsShown == Spec => []BackupsReported
<1>1. Init => BackupsReported
  BY DEF Init, BackupsReported
<1> QED
  BY <1>1, TableAlways, NextBackups, PTL DEF Spec

-----------------------------------------------------------------------------
(* The latest state *)

\* What the parser remembers between lines: the buffer is the last line read,
\* and addr the address of the block it is in.
ReaderInv ==
  /\ line = IF pos = 0 THEN Blank ELSE file[pos]
  /\ version = "unknown" => pos = 0
  /\ \A h \in 1..pos :
       IsLease(version, file[h]) /\ (\A m \in (h + 1)..pos : ~IsHeader(file[m]))
         => addr = file[h].arg

\* The states the table has for address a, one or none.
Types(a) == {leases[x].type : x \in find_lease(a)}

\* LatestStateWins, said of the set of states.
StateInv ==
  \A a \in Addr :
    /\ Bindings(a) = {} => Types(a) = {}
    /\ \A b \in Bindings(a) :
         IsLast(b, Bindings(a)) => Types(a) = {TypeOf(file[b].arg)}

(* A block belongs to one address. *)
LEMMA BlockAddress ==
  ASSUME TypeOK, NEW b \in Nat, NEW a, NEW c, InBlock(b, a), InBlock(b, c), b <= Len(file) + 1
  PROVE  a = c
<1>1. PICK h \in 1..(b - 1) : /\ IsLease(version, file[h]) /\ file[h].arg = a
                              /\ \A m \in (h + 1)..(b - 1) : ~IsHeader(file[m])
  BY DEF InBlock
<1>2. PICK g \in 1..(b - 1) : /\ IsLease(version, file[g]) /\ file[g].arg = c
                              /\ \A m \in (g + 1)..(b - 1) : ~IsHeader(file[m])
  BY DEF InBlock
<1>3. h \in 1..Len(file) /\ g \in 1..Len(file)
  BY FileType
<1>4. IsHeader(file[h]) /\ IsHeader(file[g])
  BY <1>1, <1>2, <1>3, FileType, LineArgs
<1>5. h = g
  BY <1>1, <1>2, <1>4
<1> QED
  BY <1>1, <1>2, <1>5

(* Where a binding state line is handled, addr is the address of its block. *)
LEMMA BindingAddress ==
  ASSUME TypeOK, ReaderInv, WellFormed(file), version # "unknown",
         pos < Len(file), IsBinding(version, file[pos + 1])
  PROVE  InBlock(pos + 1, addr)
<1>1. pos \in Nat /\ pos + 1 \in DOMAIN file /\ version \in {"v4", "v6"}
  BY FileType DEF TypeOK, Versions
<1>2. PICK h \in 1..pos :
        /\ file[h].text = IF file[pos + 1].text = "binding4" THEN "lease" ELSE "iaaddr"
        /\ \A m \in (h + 1)..pos : ~IsHeader(file[m])
  BY <1>1 DEF WellFormed, IsBinding
<1>3. IsLease(version, file[h])
  BY <1>1, <1>2 DEF IsLease, IsBinding
<1>4. addr = file[h].arg
  BY <1>2, <1>3 DEF ReaderInv
<1> QED
  BY <1>1, <1>2, <1>3, <1>4 DEF InBlock

(* A turn of the loop reads the next line, or at the end the last one again. *)
LEMMA FetchCases ==
  ASSUME TypeOK, Fetch
  PROVE  /\ line' = NextLine
         /\ \/ pos < Len(file) /\ pos' = pos + 1 /\ NextLine = file[pos + 1]
            \/ pos = Len(file) /\ pos' = pos /\ NextLine = line
<1> DEFINE n == Len(file)
<1>1. n \in Nat /\ pos \in 0..n
  BY FileType DEF TypeOK
<1>2. /\ line' = NextLine
      /\ pos' = IF pos < n THEN pos + 1 ELSE pos
      /\ NextLine = IF pos < n THEN file[pos + 1] ELSE line
  BY DEF Fetch, NextLine
<1> HIDE DEF n
<1>3. pos < n \/ (pos = n /\ ~(pos < n))
  BY <1>1
<1> QED
  BY <1>2, <1>3 DEF n

(* The header that addr stands for stays the last one until another comes. *)
LEMMA ReaderStep ==
  ASSUME TypeOK, ReaderInv, Fetch, file' = file, version' = version, version # "unknown",
         \/ IsLease(version, NextLine) /\ addr' = NextLine.arg
         \/ ~IsLease(version, NextLine) /\ addr' = addr
  PROVE  ReaderInv'
<1> DEFINE n == Len(file)
<1>1. n \in Nat /\ pos \in 0..n /\ DOMAIN file = 1..n
  BY FileType DEF TypeOK
<1> HIDE DEF n
<1>2. CASE pos < n /\ pos' = pos + 1 /\ NextLine = file[pos + 1] /\ line' = file[pos + 1]
  <2>1. line' = IF pos' = 0 THEN Blank ELSE file[pos']
    BY <1>1, <1>2
  <2>2. SUFFICES ASSUME NEW h \in 1..(pos + 1), IsLease(version, file[h]),
                        \A m \in (h + 1)..(pos + 1) : ~IsHeader(file[m])
                 PROVE  addr' = file[h].arg
    BY <1>2, <2>1 DEF ReaderInv
  <2>3. CASE h = pos + 1
    BY <1>2, <2>2, <2>3
  <2>4. CASE h \in 1..pos
    <3>1. ~IsHeader(file[pos + 1])
      BY <1>1, <2>2, <2>4
    <3>2. ~IsLease(version, NextLine)
      BY <1>2, <3>1, FileType, LineArgs
    <3>3. \A m \in (h + 1)..pos : ~IsHeader(file[m])
      BY <1>1, <2>2
    <3> QED
      BY <2>2, <2>4, <3>2, <3>3 DEF ReaderInv
  <2> QED
    BY <1>1, <2>3, <2>4
<1>3. CASE pos = n /\ pos' = pos /\ NextLine = line /\ line' = line
  <2>1. SUFFICES ASSUME NEW h \in 1..pos, IsLease(version, file[h]),
                        \A m \in (h + 1)..pos : ~IsHeader(file[m])
                 PROVE  addr' = file[h].arg
    BY <1>3 DEF ReaderInv
  <2>2. addr = file[h].arg
    BY <2>1 DEF ReaderInv
  <2>3. line = file[pos] /\ pos \in 1..n
    BY <1>1, <2>1 DEF ReaderInv
  <2>4. CASE IsLease(version, line)
    <3>1. IsHeader(file[pos])
      BY <1>3, <2>3, <2>4, FileType, LineArgs
    <3>2. h = pos
      BY <1>1, <2>1, <2>3, <3>1
    <3> QED
      BY <1>3, <2>3, <2>4, <3>2
  <2>5. CASE ~IsLease(version, line)
    BY <1>3, <2>2, <2>5
  <2> QED
    BY <2>4, <2>5
<1> QED
  BY <1>2, <1>3, FetchCases DEF n

LEMMA FileKept == [Next]_vars => file' = file /\ input' = input
BY DEF Next, Turn, Detect, SaveAddress, SaveState, SaveEthernet, SkipLine, Terminated, vars, file

(* A step keeps the reader's memory right. *)
LEMMA NextReader ==
  ASSUME TypeOK, ReaderInv, [Next]_vars
  PROVE  ReaderInv'
<1>0. file' = file
  BY FileKept
<1>1. CASE UNCHANGED vars
  BY <1>0, <1>1 DEF vars, ReaderInv
<1>2. CASE Detect
  <2> DEFINE n == Len(file)
  <2>1. pos = 0 /\ line = Blank /\ n \in Nat
    BY <1>2, FileType DEF Detect, ReaderInv
  <2>2. line' = NextLine /\ ((pos' = 0 /\ NextLine = line) \/ (pos' = 1 /\ NextLine = file[1]))
    BY <1>2, <2>1, FetchCases DEF Detect
  <2>3. version' # "unknown" /\ ~IsLease(version', NextLine)
    BY <1>2 DEF Detect, IsLease
  <2> QED
    BY <1>0, <2>1, <2>2, <2>3 DEF ReaderInv
<1>3. CASE SaveAddress
  BY <1>0, <1>3, ReaderStep DEF SaveAddress, IsLease
<1>4. CASE SaveState
  BY <1>0, <1>4, ReaderStep DEF SaveState, IsLease, IsBinding
<1>5. CASE SaveEthernet
  BY <1>0, <1>5, ReaderStep DEF SaveEthernet, IsLease, IsEthernet
<1>6. CASE SkipLine
  BY <1>0, <1>6, ReaderStep DEF SkipLine
<1> QED
  BY <1>1, <1>2, <1>3, <1>4, <1>5, <1>6 DEF Next, Turn, Terminated

(* The binding states known after a step: a line that was read for the first
   time and gives a binding state is added to those of its address. *)
LEMMA NextBindings ==
  ASSUME TypeOK, ReaderInv, WellFormed(file), [Next]_vars, NEW a \in Addr
  PROVE  Bindings(a)' = IF pos < Len(file) /\ SaveState /\ a = addr
                        THEN Bindings(a) \cup {pos + 1} ELSE Bindings(a)
<1> DEFINE n == Len(file)
<1>0. n \in Nat /\ pos \in 0..n /\ DOMAIN file = 1..n /\ file' = file
  BY FileKept, FileType DEF TypeOK
<1>1. CASE version = "unknown"
  <2>1. Bindings(a) = {}
    BY <1>1 DEF Bindings, IsBinding
  <2>2. pos = 0
    BY <1>1 DEF ReaderInv
  <2>3. pos' \in {0, 1}
    <3>1. CASE Fetch
      BY <2>2, <3>1, FetchCases
    <3>2. CASE UNCHANGED vars
      BY <2>2, <3>2 DEF vars
    <3> QED
      BY <3>1, <3>2 DEF Next, Turn, Detect, SaveAddress, SaveState, SaveEthernet, SkipLine, Terminated
  <2>4. Bindings(a)' = {}
    BY <2>3 DEF Bindings, InBlock
  <2>5. ~SaveState
    BY <1>1 DEF SaveState, IsBinding
  <2> QED
    BY <2>1, <2>4, <2>5
<1>2. CASE version # "unknown" /\ UNCHANGED vars
  <2>1. Bindings(a)' = Bindings(a)
    BY <1>0, <1>2 DEF vars, Bindings, InBlock
  <2>2. ASSUME SaveState, pos < n PROVE FALSE
    <3>1. pos' = pos /\ pos \in Nat
      BY <1>2, FileType DEF vars
    <3>2. Fetch
      BY <2>2 DEF SaveState
    <3>3. pos' = pos + 1 \/ pos = n
      BY <3>2, FetchCases
    <3>4. \A q \in Nat : q # q + 1 /\ ~(q < q)
      OBVIOUS
    <3> QED
      BY <2>2, <3>1, <3>3, <3>4
  <2> QED
    BY <2>1, <2>2
<1>3. CASE version # "unknown" /\ Fetch
  <2>1. version' = version
    BY <1>3 DEF Next, Turn, Detect, SaveAddress, SaveState, SaveEthernet, SkipLine, Terminated, vars
  <2>2. \A b : InBlock(b, a)' <=> InBlock(b, a)
    BY <1>0, <2>1 DEF InBlock
  <2>3. Bindings(a)' = {b \in 1..pos' : IsBinding(version, file[b]) /\ InBlock(b, a)}
    BY <1>0, <2>1, <2>2 DEF Bindings
  <2>4. CASE pos = n /\ pos' = pos
    BY <1>0, <2>3, <2>4 DEF Bindings
  <2>5. CASE pos < n /\ pos' = pos + 1 /\ NextLine = file[pos + 1]
    <3>1. 1..pos' = 1..pos \cup {pos + 1}
      BY <1>0, <2>5
    <3>2. CASE ~IsBinding(version, NextLine)
      <4>1. ~SaveState
        BY <3>2 DEF SaveState
      <4> QED
        BY <2>3, <2>5, <3>1, <3>2, <4>1 DEF Bindings
    <3>3. CASE IsBinding(version, NextLine)
      <4>1. SaveState
        <5>1. ~IsLease(version, NextLine) /\ ~IsEthernet(version, NextLine)
          BY <3>3 DEF IsBinding, IsLease, IsEthernet
        <5>2. ~Detect /\ ~SaveAddress /\ ~SaveEthernet /\ ~SkipLine
          BY <1>3, <3>3, <5>1 DEF Detect, SaveAddress, SaveEthernet, SkipLine
        <5>3. ~UNCHANGED vars
          BY <1>0, <2>5 DEF vars
        <5> QED
          BY <5>2, <5>3 DEF Next, Turn, Terminated
      <4>2. InBlock(pos + 1, addr)
        BY <1>3, <2>5, <3>3, BindingAddress
      <4>3. InBlock(pos + 1, a) <=> a = addr
        <5>1. pos + 1 \in Nat /\ pos + 1 <= Len(file) + 1
          BY <1>0
        <5> QED
          BY <4>2, <5>1, BlockAddress
      <4> QED
        BY <2>3, <2>5, <3>1, <3>3, <4>1, <4>3 DEF Bindings
    <3> QED
      BY <3>2, <3>3
  <2> QED
    BY <1>3, <2>4, <2>5, FetchCases
<1> QED
  BY <1>1, <1>2, <1>3 DEF Next, Turn, Detect, SaveAddress, SaveState, SaveEthernet, SkipLine, Terminated

(* The states known after a step: handling a binding state line sets the
   state of addr, and nothing else changes a state. *)
LEMMA NextTypes ==
  ASSUME TypeOK, UniqueAddresses, [Next]_vars, NEW a \in Addr
  PROVE  Types(a)' = IF SaveState /\ a = addr THEN {TypeOf(NextLine.arg)} ELSE Types(a)
<1>0. leases \in Seq(Entry) /\ Unique(leases) /\ addr \in Addr
  BY DEF TypeOK, UniqueAddresses, Unique
<1>1. \A b : Types(b) = {e.type : e \in {e \in Entries(leases) : e.ip = b}}
  BY DEF Types, find_lease, Entries
<1>2. \A b : Types(b)' = {e.type : e \in {e \in Entries(leases') : e.ip = b}}
  BY DEF Types, find_lease, Entries
<1>3. CASE SaveState
  <2> DEFINE t == TypeOf(NextLine.arg)
  <2>1. t \in {"FREE", "ACTIVE", "BACKUP"} /\ leases' = add_lease(delete_lease(addr), addr, t)
    BY <1>3, FileType, LineArgs DEF SaveState
  <2> HIDE DEF t
  <2> DEFINE e0 == [ip |-> addr, type |-> t, ethernet |-> None]
  <2>2. Entries(leases') = {e \in Entries(leases) : e.ip # addr} \cup {e0}
    BY <1>0, <2>1, ReplaceLease
  <2>3. e0.ip = addr /\ e0.type = t
    OBVIOUS
  <2> HIDE DEF e0
  <2>4. CASE a = addr
    <3>1. {e \in Entries(leases') : e.ip = a} = {e0}
      BY <2>2, <2>3, <2>4
    <3> QED
      BY <1>2, <1>3, <2>3, <2>4, <3>1 DEF t
  <2>5. CASE a # addr
    <3>1. {e \in Entries(leases') : e.ip = a} = {e \in Entries(leases) : e.ip = a}
      BY <2>2, <2>3, <2>5
    <3> QED
      BY <1>1, <1>2, <2>5, <3>1
  <2> QED
    BY <2>4, <2>5
<1>4. CASE SaveEthernet /\ ~SaveState
  <2>1. NextLine.arg \in Macs
    BY <1>4, FileType, LineArgs DEF SaveEthernet
  <2>2. DOMAIN leases' = DOMAIN leases
        /\ \A x \in DOMAIN leases : leases'[x].ip = leases[x].ip /\ leases'[x].type = leases[x].type
    BY <1>0, <1>4, <2>1, EthernetEntries DEF SaveEthernet
  <2> QED
    BY <1>4, <2>2 DEF Types, find_lease
<1>5. CASE (Detect \/ SaveAddress \/ SkipLine \/ UNCHANGED vars) /\ ~SaveState
  <2>1. leases' = leases
    BY <1>5 DEF Detect, SaveAddress, SkipLine, vars
  <2> QED
    BY <1>5, <2>1 DEF Types, find_lease
<1> QED
  BY <1>3, <1>4, <1>5 DEF Next, Turn, Terminated

(* Handling the last line a second time sets the state it already set. *)
LEMMA LastLineAgain ==
  ASSUME TypeOK, ReaderInv, WellFormed(file), SaveState, pos = Len(file)
  PROVE  pos \in Bindings(addr) /\ NextLine = file[pos]
<1> DEFINE n == Len(file)
<1>1. n \in Nat /\ pos \in 0..n /\ DOMAIN file = 1..n
  BY FileType DEF TypeOK
<1>2. NextLine = line /\ IsBinding(version, line)
  BY <1>1, FetchCases DEF SaveState
<1>3. line # Blank
  BY <1>2 DEF Blank, IsBinding
<1>4. pos \in 1..n /\ line = file[pos]
  BY <1>1, <1>3 DEF ReaderInv
<1>5. version \in {"v4", "v6"}
  BY <1>2 DEF IsBinding, TypeOK, Versions
<1>6. PICK h \in 1..(pos - 1) :
        /\ file[h].text = IF file[pos].text = "binding4" THEN "lease" ELSE "iaaddr"
        /\ \A m \in (h + 1)..(pos - 1) : ~IsHeader(file[m])
  BY <1>1, <1>2, <1>4, <1>5 DEF WellFormed, IsBinding
<1>7. IsLease(version, file[h])
  BY <1>2, <1>4, <1>5, <1>6 DEF IsLease, IsBinding
<1>8. ~IsHeader(file[pos])
  BY <1>2, <1>4 DEF IsBinding, IsHeader
<1>9. \A m \in (h + 1)..pos : ~IsHeader(file[m])
  BY <1>1, <1>4, <1>6, <1>8
<1>10. addr = file[h].arg
  BY <1>1, <1>4, <1>6, <1>7, <1>9 DEF ReaderInv
<1>11. InBlock(pos, addr)
  BY <1>6, <1>7, <1>10 DEF InBlock
<1> QED
  BY <1>1, <1>2, <1>4, <1>11 DEF Bindings

LEMMA NextState ==
  ASSUME TypeOK, UniqueAddresses, ReaderInv, StateInv, WellFormed(file), [Next]_vars
  PROVE  StateInv'
<1> DEFINE n == Len(file)
<1>0. n \in Nat /\ pos \in 0..n /\ file' = file
  BY FileKept, FileType DEF TypeOK
<1>1. SUFFICES ASSUME NEW a \in Addr
               PROVE  /\ Bindings(a)' = {} => Types(a)' = {}
                      /\ \A b \in Bindings(a)' :
                           IsLast(b, Bindings(a)') => Types(a)' = {TypeOf(file[b].arg)}
  BY <1>0 DEF StateInv, IsLast
<1>2. Bindings(a) \subseteq 1..pos
  BY DEF Bindings
<1>3. CASE ~(SaveState /\ a = addr)
  <2>1. Bindings(a)' = Bindings(a) /\ Types(a)' = Types(a)
    BY <1>3, NextBindings, NextTypes
  <2> QED
    BY <2>1 DEF StateInv
<1>4. CASE SaveState /\ a = addr /\ pos < n
  <2>1. Bindings(a)' = Bindings(a) \cup {pos + 1}
    BY <1>4, NextBindings
  <2>2. Types(a)' = {TypeOf(file[pos + 1].arg)}
    <3>1. NextLine = file[pos + 1]
      BY <1>4 DEF NextLine
    <3> QED
      BY <1>4, <3>1, NextTypes
  <2>3. \A b : IsLast(b, Bindings(a)') => b = pos + 1
    <3>1. SUFFICES ASSUME NEW b, IsLast(b, Bindings(a) \cup {pos + 1}) PROVE b = pos + 1
      BY <2>1
    <3>2. pos \in Nat /\ (b \in 1..pos \/ b = pos + 1) /\ pos + 1 <= b
      BY <1>2, <3>1, FileType DEF IsLast
    <3> QED
      BY <3>2
  <2> QED
    BY <2>1, <2>2, <2>3
<1>5. CASE SaveState /\ a = addr /\ pos = n
  <2>1. Bindings(a)' = Bindings(a)
    BY <1>0, <1>5, NextBindings
  <2>2. pos \in Bindings(a) /\ NextLine = file[pos]
    BY <1>5, LastLineAgain
  <2>3. Types(a)' = {TypeOf(file[pos].arg)}
    BY <1>5, <2>2, NextTypes
  <2>4. \A b : IsLast(b, Bindings(a)) => b = pos
    BY <1>0, <1>2, <2>2 DEF IsLast
  <2> QED
    BY <2>1, <2>2, <2>3, <2>4
<1> QED
  BY <1>0, <1>3, <1>4, <1>5

(* In files whose binding states all belong to addresses the table has, at
   every moment, the latest state that was read of every address. *)
THEOREM LatestState ==
  ASSUME \A in \in Inputs : WellFormed(in.lines)
  PROVE  Spec => []LatestStateWins
<1> DEFINE Inv == TypeOK /\ UniqueAddresses /\ ReaderInv /\ StateInv
<1>1. TypeOK => WellFormed(file)
  BY DEF TypeOK, file
<1>2. Init => Inv
  <2> SUFFICES ASSUME Init PROVE ReaderInv /\ StateInv
    BY InitType
  <2>1. ReaderInv
    BY DEF Init, ReaderInv
  <2>2. leases = << >> /\ pos = 0
    BY DEF Init
  <2>3. \A a : Bindings(a) = {} /\ Types(a) = {}
    BY <2>2 DEF Bindings, Types, find_lease
  <2> QED
    BY <2>1, <2>3 DEF StateInv
<1>3. Inv /\ [Next]_vars => Inv'
  BY <1>1, NextType, NextReader, NextState
<1>4. Inv => LatestStateWins
  BY DEF StateInv, LatestStateWins, Types
<1>5. Spec => []Inv
  BY <1>2, <1>3, PTL DEF Spec
<1> QED
  BY <1>4, <1>5, PTL

-----------------------------------------------------------------------------
(* The hardware addresses *)

\* Every hardware line is in the block of an address.
HardwareInBlocks(f) ==
  \A e \in DOMAIN f :
    f[e].text = "hardware" =>
      \E h \in 1..(e - 1) : /\ f[h].text = "lease"
                            /\ \A m \in (h + 1)..(e - 1) : ~IsHeader(f[m])

\* The hardware addresses the table has for address a, one or none.
Shown(a) == {leases[x].ethernet : x \in find_lease(a)}

\* The hardware lines since the latest state of address a.
FreshLines(a) == {h \in Ethernets(a) : \A b \in Bindings(a) : b < h}

\* EthernetOfLatestState, said of the set of hardware addresses.
EthernetInv ==
  input.ethernets =>
    \A a \in Addr : \A m \in Shown(a) :
      /\ FreshLines(a) = {} => m = None
      /\ \A h \in FreshLines(a) : IsLast(h, FreshLines(a)) => m = file[h].arg

(* A hardware line that is handled, for the first time or again at the end of
   the file, has been read in a block of addr. *)
LEMMA EthernetAddress ==
  ASSUME TypeOK, ReaderInv, version = "v4" => HardwareInBlocks(file), Fetch, IsEthernet(version, NextLine)
  PROVE  \/ pos < Len(file) /\ pos' = pos + 1 /\ NextLine = file[pos + 1]
              /\ InBlock(pos + 1, addr)
         \/ pos = Len(file) /\ pos' = pos /\ NextLine = file[pos] /\ pos \in Ethernets(addr)
<1> DEFINE n == Len(file)
<1>1. n \in Nat /\ pos \in 0..n /\ DOMAIN file = 1..n
  BY FileType DEF TypeOK
<1>2. version = "v4" /\ NextLine.text = "hardware"
  BY DEF IsEthernet
<1>3. CASE pos < n /\ pos' = pos + 1 /\ NextLine = file[pos + 1]
  <2>1. pos + 1 \in DOMAIN file
    BY <1>1, <1>3
  <2>2. PICK h \in 1..pos : /\ file[h].text = "lease"
                            /\ \A m \in (h + 1)..pos : ~IsHeader(file[m])
    BY <1>1, <1>2, <1>3, <2>1 DEF HardwareInBlocks
  <2>3. IsLease(version, file[h]) /\ addr = file[h].arg
    BY <1>2, <2>2 DEF IsLease, ReaderInv
  <2>4. InBlock(pos + 1, addr)
    BY <1>1, <2>2, <2>3 DEF InBlock
  <2> QED
    BY <1>3, <2>4
<1>4. CASE pos = n /\ pos' = pos /\ NextLine = line
  <2>1. pos \in 1..n /\ line = file[pos]
    BY <1>1, <1>2, <1>4 DEF ReaderInv, Blank
  <2>2. PICK h \in 1..(pos - 1) : /\ file[h].text = "lease"
                                  /\ \A m \in (h + 1)..(pos - 1) : ~IsHeader(file[m])
    BY <1>1, <1>2, <1>4, <2>1 DEF HardwareInBlocks
  <2>3. IsLease(version, file[h]) /\ ~IsHeader(file[pos])
    BY <1>2, <1>4, <2>1, <2>2 DEF IsLease, IsHeader
  <2>4. \A m \in (h + 1)..pos : ~IsHeader(file[m])
    BY <1>1, <2>1, <2>2, <2>3
  <2>5. addr = file[h].arg
    BY <1>1, <2>1, <2>2, <2>3, <2>4 DEF ReaderInv
  <2>6. pos \in Ethernets(addr)
    BY <1>1, <1>2, <1>4, <2>1, <2>2, <2>3, <2>5 DEF Ethernets, InBlock, IsEthernet
  <2> QED
    BY <1>4, <2>1, <2>6
<1> QED
  BY <1>3, <1>4, FetchCases

(* The hardware lines known after a step. *)
LEMMA NextEthernets ==
  ASSUME TypeOK, ReaderInv, version = "v4" => HardwareInBlocks(file),
         input.ethernets, [Next]_vars, NEW a \in Addr
  PROVE  Ethernets(a)' = IF pos < Len(file) /\ SaveEthernet /\ a = addr
                         THEN Ethernets(a) \cup {pos + 1} ELSE Ethernets(a)
<1> DEFINE n == Len(file)
<1>0. n \in Nat /\ pos \in 0..n /\ DOMAIN file = 1..n /\ file' = file
  BY FileKept, FileType DEF TypeOK
<1>1. CASE version = "unknown"
  <2>1. Ethernets(a) = {} /\ ~SaveEthernet
    BY <1>1 DEF Ethernets, SaveEthernet, IsEthernet
  <2>2. pos = 0
    BY <1>1 DEF ReaderInv
  <2>3. pos' \in {0, 1}
    <3>1. CASE Fetch
      BY <2>2, <3>1, FetchCases
    <3>2. CASE UNCHANGED vars
      BY <2>2, <3>2 DEF vars
    <3> QED
      BY <3>1, <3>2 DEF Next, Turn, Detect, SaveAddress, SaveState, SaveEthernet, SkipLine, Terminated
  <2>4. Ethernets(a)' = {}
    BY <2>3 DEF Ethernets, InBlock
  <2> QED
    BY <2>1, <2>4
<1>2. CASE version # "unknown" /\ UNCHANGED vars
  <2>1. Ethernets(a)' = Ethernets(a)
    BY <1>0, <1>2 DEF vars, Ethernets, InBlock
  <2>2. ASSUME SaveEthernet, pos < n PROVE FALSE
    <3>1. pos' = pos + 1
      BY <1>0, <2>2 DEF SaveEthernet, Fetch
    <3> QED
      BY <1>0, <1>2, <3>1 DEF vars
  <2> QED
    BY <2>1, <2>2
<1>3. CASE version # "unknown" /\ Fetch
  <2>1. version' = version
    BY <1>3 DEF Next, Turn, Detect, SaveAddress, SaveState, SaveEthernet, SkipLine, Terminated, vars
  <2>2. \A b : InBlock(b, a)' <=> InBlock(b, a)
    BY <1>0, <2>1 DEF InBlock
  <2>3. Ethernets(a)' = {b \in 1..pos' : IsEthernet(version, file[b]) /\ InBlock(b, a)}
    BY <1>0, <2>1, <2>2 DEF Ethernets
  <2>4. CASE pos = n /\ pos' = pos
    BY <1>0, <2>3, <2>4 DEF Ethernets
  <2>5. CASE pos < n /\ pos' = pos + 1 /\ NextLine = file[pos + 1]
    <3>1. 1..pos' = 1..pos \cup {pos + 1}
      BY <1>0, <2>5
    <3>2. CASE ~IsEthernet(version, NextLine)
      <4>1. ~SaveEthernet
        BY <3>2 DEF SaveEthernet
      <4> QED
        BY <2>3, <2>5, <3>1, <3>2, <4>1 DEF Ethernets
    <3>3. CASE IsEthernet(version, NextLine)
      <4>1. SaveEthernet
        <5>1. ~IsLease(version, NextLine) /\ ~IsBinding(version, NextLine)
          BY <3>3 DEF IsBinding, IsLease, IsEthernet
        <5>2. ~Detect /\ ~SaveAddress /\ ~SaveState /\ ~SkipLine
          BY <1>3, <3>3, <5>1 DEF Detect, SaveAddress, SaveState, SkipLine
        <5>3. ~UNCHANGED vars
          BY <1>0, <2>5 DEF vars
        <5> QED
          BY <5>2, <5>3 DEF Next, Turn, Terminated
      <4>2. InBlock(pos + 1, addr)
        <5> HIDE DEF n
        <5>1. pos # n
          BY <1>0, <2>5
        <5> QED
          BY <1>3, <3>3, <5>1, EthernetAddress DEF n
      <4>3. InBlock(pos + 1, a) <=> a = addr
        <5>1. pos + 1 \in Nat /\ pos + 1 <= Len(file) + 1
          BY <1>0
        <5> QED
          BY <4>2, <5>1, BlockAddress
      <4> QED
        BY <2>3, <2>5, <3>1, <3>3, <4>1, <4>3 DEF Ethernets
    <3> QED
      BY <3>2, <3>3
  <2> QED
    BY <1>3, <2>4, <2>5, FetchCases
<1> QED
  BY <1>1, <1>2, <1>3 DEF Next, Turn, Detect, SaveAddress, SaveState, SaveEthernet, SkipLine, Terminated

(* The hardware addresses shown after a step: a new state forgets the one of
   addr, a hardware line sets it. *)
LEMMA NextShown ==
  ASSUME TypeOK, UniqueAddresses, [Next]_vars, NEW a \in Addr
  PROVE  Shown(a)' \subseteq IF SaveState /\ a = addr THEN {None}
                            ELSE IF SaveEthernet /\ a = addr THEN {NextLine.arg}
                            ELSE Shown(a)
<1>0. leases \in Seq(Entry) /\ Unique(leases) /\ addr \in Addr
  BY DEF TypeOK, UniqueAddresses, Unique
<1>1. \A b : Shown(b) = {e.ethernet : e \in {e \in Entries(leases) : e.ip = b}}
  BY DEF Shown, find_lease, Entries
<1>2. \A b : Shown(b)' = {e.ethernet : e \in {e \in Entries(leases') : e.ip = b}}
  BY DEF Shown, find_lease, Entries
<1>3. CASE SaveState
  <2> DEFINE t == TypeOf(NextLine.arg)
  <2>1. t \in {"FREE", "ACTIVE", "BACKUP"} /\ leases' = add_lease(delete_lease(addr), addr, t)
    BY <1>3, FileType, LineArgs DEF SaveState
  <2> HIDE DEF t
  <2> DEFINE e0 == [ip |-> addr, type |-> t, ethernet |-> None]
  <2>2. Entries(leases') = {e \in Entries(leases) : e.ip # addr} \cup {e0}
    BY <1>0, <2>1, ReplaceLease
  <2>3. e0.ip = addr /\ e0.ethernet = None
    OBVIOUS
  <2> HIDE DEF e0
  <2>4. CASE a = addr
    <3>1. {e \in Entries(leases') : e.ip = a} = {e0}
      BY <2>2, <2>3, <2>4
    <3> QED
      BY <1>2, <1>3, <2>3, <2>4, <3>1
  <2>5. CASE a # addr
    <3>1. {e \in Entries(leases') : e.ip = a} = {e \in Entries(leases) : e.ip = a}
      BY <2>2, <2>3, <2>5
    <3> QED
      BY <1>1, <1>2, <2>5, <3>1
  <2> QED
    BY <2>4, <2>5
<1>4. CASE SaveEthernet /\ ~SaveState
  <2>1. NextLine.arg \in Macs
    BY <1>4, FileType, LineArgs DEF SaveEthernet
  <2>2. DOMAIN leases' = DOMAIN leases
        /\ \A x \in DOMAIN leases : leases'[x].ip = leases[x].ip
    BY <1>0, <1>4, <2>1, EthernetEntries DEF SaveEthernet
  <2>3. \A x \in DOMAIN leases : leases[x] \in Entry
    BY <1>0
  <2>4. \A x \in DOMAIN leases :
          leases'[x].ethernet = IF leases[x].ip = addr THEN NextLine.arg ELSE leases[x].ethernet
    BY <1>4, <2>3 DEF SaveEthernet, find_lease, Entry
  <2> QED
    BY <1>4, <2>2, <2>4 DEF Shown, find_lease
<1>5. CASE (Detect \/ SaveAddress \/ SkipLine \/ UNCHANGED vars) /\ ~SaveState /\ ~SaveEthernet
  <2>1. leases' = leases
    BY <1>5 DEF Detect, SaveAddress, SkipLine, vars
  <2> QED
    BY <1>5, <2>1 DEF Shown, find_lease
<1> QED
  BY <1>3, <1>4, <1>5 DEF Next, Turn, Terminated

LEMMA NextEthernet ==
  ASSUME TypeOK, UniqueAddresses, ReaderInv, EthernetInv,
         WellFormed(file), version = "v4" => HardwareInBlocks(file), [Next]_vars
  PROVE  EthernetInv'
<1> DEFINE n == Len(file)
<1>0. n \in Nat /\ pos \in 0..n /\ file' = file /\ input' = input
  BY FileKept, FileType DEF TypeOK
<1>1. SUFFICES ASSUME input.ethernets, NEW a \in Addr, NEW m \in Shown(a)'
               PROVE  /\ FreshLines(a)' = {} => m = None
                      /\ \A h \in FreshLines(a)' : IsLast(h, FreshLines(a)') => m = file[h].arg
  BY <1>0 DEF EthernetInv, IsLast
<1>2. Bindings(a) \subseteq 1..pos /\ Ethernets(a) \subseteq 1..pos
  BY DEF Bindings, Ethernets
<1>3. FreshLines(a)' = {h \in Ethernets(a)' : \A b \in Bindings(a)' : b < h}
  BY DEF FreshLines
<1>4. ~(SaveState /\ SaveEthernet)
  BY DEF SaveState, SaveEthernet, IsBinding, IsEthernet
<1>5. CASE ~(SaveState /\ a = addr) /\ ~(SaveEthernet /\ a = addr)
  <2>1. Bindings(a)' = Bindings(a) /\ Ethernets(a)' = Ethernets(a) /\ m \in Shown(a)
    BY <1>1, <1>5, NextBindings, NextEthernets, NextShown
  <2>2. FreshLines(a)' = FreshLines(a)
    BY <1>3, <2>1 DEF FreshLines
  <2> QED
    BY <1>1, <2>1, <2>2 DEF EthernetInv
<1>6. CASE SaveState /\ a = addr
  <2>1. m = None /\ Ethernets(a)' = Ethernets(a)
    BY <1>1, <1>4, <1>6, NextShown, NextEthernets
  <2>2. \E b \in Bindings(a)' : b >= pos
    <3>1. CASE pos < n
      <4>1. pos + 1 \in Bindings(a)'
        BY <1>6, <3>1, NextBindings
      <4> QED
        BY <1>0, <4>1
    <3>2. CASE pos = n
      <4>1. pos \in Bindings(a)
        BY <1>6, <3>2, LastLineAgain
      <4>2. Bindings(a)' = Bindings(a)
        BY <1>0, <1>6, <3>2, NextBindings
      <4> QED
        BY <1>0, <4>1, <4>2
    <3> QED
      BY <1>0, <3>1, <3>2
  <2>3. \A b \in Bindings(a)' : b \in Int
    BY <1>0, <1>2, <1>6, NextBindings
  <2>4. FreshLines(a)' = {}
    BY <1>0, <1>2, <1>3, <2>1, <2>2, <2>3
  <2> QED
    BY <2>1, <2>4
<1>7. CASE SaveEthernet /\ a = addr
  <2>1. m = NextLine.arg /\ Bindings(a)' = Bindings(a)
    BY <1>1, <1>4, <1>7, NextShown, NextBindings
  <2>2. Fetch /\ IsEthernet(version, NextLine)
    BY <1>7 DEF SaveEthernet
  <2>3. CASE pos < n /\ NextLine = file[pos + 1]
    <3>1. Ethernets(a)' = Ethernets(a) \cup {pos + 1}
      BY <1>1, <1>7, <2>3, NextEthernets
    <3>2. pos + 1 \in FreshLines(a)'
      BY <1>0, <1>2, <1>3, <2>1, <3>1
    <3>3. \A h \in FreshLines(a)' : IsLast(h, FreshLines(a)') => h = pos + 1
      BY <1>0, <1>2, <1>3, <3>1, <3>2 DEF IsLast
    <3> QED
      BY <2>1, <2>3, <3>2, <3>3
  <2>4. CASE pos = n /\ NextLine = file[pos] /\ pos \in Ethernets(addr)
    <3>1. Ethernets(a)' = Ethernets(a)
      BY <1>0, <1>1, <1>7, <2>4, NextEthernets
    <3>2. pos \notin Bindings(a)
      BY <2>2, <2>4 DEF Bindings, IsBinding, IsEthernet
    <3>3. pos \in FreshLines(a)'
      BY <1>0, <1>2, <1>3, <1>7, <2>1, <2>4, <3>1, <3>2
    <3>4. \A h \in FreshLines(a)' : IsLast(h, FreshLines(a)') => h = pos
      BY <1>0, <1>2, <1>3, <3>1, <3>3 DEF IsLast
    <3> QED
      BY <2>1, <2>4, <3>3, <3>4
  <2> QED
    BY <2>2, <2>3, <2>4, EthernetAddress
<1> QED
  BY <1>5, <1>6, <1>7

\* A file is read as IPv6 when the configuration was.
VersionInv == version # "v6" => input.version # "v6"

(* In files whose binding states and hardware lines all belong to addresses, a
   hardware address in the table was given after the latest state; of the IPv6
   files the hardware lines are never read. *)
THEOREM LatestEthernet ==
  ASSUME \A in \in Inputs : /\ WellFormed(in.lines)
                            /\ in.version = "v6" \/ HardwareInBlocks(in.lines)
  PROVE  Spec => []EthernetOfLatestState
<1> DEFINE Inv == TypeOK /\ UniqueAddresses /\ ReaderInv /\ VersionInv /\ EthernetInv
<1>1. TypeOK /\ VersionInv => WellFormed(file) /\ (version = "v4" => HardwareInBlocks(file))
  BY DEF TypeOK, VersionInv, file
<1>2. Init => Inv
  <2> SUFFICES ASSUME Init PROVE ReaderInv /\ VersionInv /\ EthernetInv
    BY InitType
  <2>1. ReaderInv /\ VersionInv
    BY DEF Init, ReaderInv, VersionInv
  <2>2. \A a : Shown(a) = {}
    BY DEF Init, Shown, find_lease
  <2> QED
    BY <2>1, <2>2 DEF EthernetInv
<1>3. Inv /\ [Next]_vars => Inv'
  <2>1. VersionInv /\ [Next]_vars => VersionInv'
    BY FileKept DEF VersionInv, Next, Turn, Detect, SaveAddress, SaveState, SaveEthernet, SkipLine,
                    Terminated, vars
  <2> QED
    BY <1>1, <2>1, NextType, NextReader, NextEthernet
<1>4. Inv => EthernetOfLatestState
  <2> SUFFICES ASSUME Inv, input.ethernets, NEW a \in Addr, NEW x \in DOMAIN leases, leases[x].ip = a
               PROVE  LET fresh == {h \in Ethernets(a) : \A b \in Bindings(a) : b < h} IN
                      /\ fresh = {} => leases[x].ethernet = None
                      /\ \A h \in fresh : IsLast(h, fresh) => leases[x].ethernet = file[h].arg
    BY DEF EthernetOfLatestState
  <2>1. leases[x].ethernet \in Shown(a)
    BY DEF Shown, find_lease
  <2> QED
    BY <2>1 DEF EthernetInv, FreshLines
<1>5. Spec => []Inv
  BY <1>2, <1>3, PTL DEF Spec
<1> QED
  BY <1>4, <1>5, PTL
=============================================================================
