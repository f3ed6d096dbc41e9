------------------------------ MODULE LeaseFile ------------------------------
(***************************************************************************)
(* parse_leases of getdata.c with the lease table of hash.c and the line   *)
(* classification of other.c.  dhcpd appends a block to dhcpd.leases every *)
(* time a lease changes, so an address has many blocks and the last one    *)
(* tells the truth; a file may end anywhere, dhcpd may be writing it.  The *)
(* parser keeps the address of the last header line it saw, and lets every *)
(* binding state line replace the entry of that address: it is deleted and *)
(* added again at the end of the list.                                     *)
(*                                                                         *)
(* A line is reduced to what xstrstr tells apart: which keyword it starts  *)
(* with, in the columns of the IPv4 or of the IPv6 format, and its         *)
(* argument.  One action is one turn of the while loop.                    *)
(***************************************************************************)
EXTENDS Integers, Sequences

CONSTANTS
  Addr,    \* addresses
  Macs,    \* hardware addresses
  Inputs   \* the lease files, with the IP version the configuration set

None == "none"

\* "reset" stands for the binding states the parser does not know.
States == {"free", "abandoned", "expired", "released", "active", "backup", "reset"}

Line ==
  [text : {"lease", "iaaddr"}, arg : Addr]
    \cup [text : {"binding4", "binding6"}, arg : States]
    \cup [text : {"hardware"}, arg : Macs]
    \cup [text : {"iaprefix", "other"}, arg : {None}]

\* line[0] = 0 before anything has been read.
Blank == [text |-> "other", arg |-> None]

Versions == {"unknown", "v4", "v6"}

ASSUME LeaseFileAssumption ==
  Inputs \subseteq [lines : Seq(Line), newline : BOOLEAN, version : Versions, ethernets : BOOLEAN]

VARIABLES
  input,     \* the file: lines, whether it ends with a newline; and options
  pos, eof,  \* the lines read, and feof()
  line,      \* the line buffer, which keeps the last line at end of file
  addr,      \* the address of the last header line
  version,   \* config.ip_version, and with it the xstrstr in use
  leases,    \* the lease table, in the order of its list
  backups_found

vars == <<input, pos, eof, line, addr, version, leases, backups_found>>

file == input.lines

\* addr is an uninitialised variable of parse_leases.
Init ==
  /\ input \in Inputs
  /\ pos = 0 /\ eof = FALSE /\ line = Blank
  /\ addr \in Addr
  /\ version = input.version
  /\ leases = << >>
  /\ backups_found = FALSE

-----------------------------------------------------------------------------
(* Reading a line and telling what it is *)

\* fgets leaves the buffer alone when there is nothing left to read.
NextLine == IF pos < Len(file) THEN file[pos + 1] ELSE line

\* Wrong variant of Fetch.
Fetch_Counting ==
  /\ ~eof
  /\ line' = NextLine
  /\ pos' = pos + 1
  /\ eof' = (pos = Len(file) \/ (pos + 1 = Len(file) /\ ~input.newline))
\* Wrong variant of Fetch.
Fetch_NoEnd ==
  /\ ~eof
  /\ line' = NextLine
  /\ pos' = IF pos < Len(file) THEN pos + 1 ELSE pos
  /\ eof' = (pos + 1 = Len(file) /\ ~input.newline)

Fetch ==
  /\ ~eof
  /\ line' = NextLine
  /\ pos' = IF pos < Len(file) THEN pos + 1 ELSE pos
  /\ eof' = (pos = Len(file) \/ (pos + 1 = Len(file) /\ ~input.newline))

\* PREFIX_LEASE of xstrstr_v4 and xstrstr_v6.
IsLease(v, ln) == v # "unknown" /\ ln.text = IF v = "v4" THEN "lease" ELSE "iaaddr"

\* PREFIX_BINDING_STATE_*; the two formats indent the line differently.
IsBinding(v, ln) ==
  /\ v # "unknown"
  /\ ln.text = IF v = "v4" THEN "binding4" ELSE "binding6"
  /\ ln.arg # "reset"

\* PREFIX_HARDWARE_ETHERNET: the column xstrstr_v6 looks at cannot match.
IsEthernet(v, ln) == v = "v4" /\ ln.text = "hardware"

TypeOf(state) == CASE state = "active" -> "ACTIVE"
                   [] state = "backup" -> "BACKUP"
                   [] OTHER            -> "FREE"

-----------------------------------------------------------------------------
(* The lease table *)

find_lease(a) == {x \in DOMAIN leases : leases[x].ip = a}

\* Wrong variant of delete_lease.
delete_lease_Skipped(a) == leases

\* delete_lease of the entry of address a, if find_lease finds it.
delete_lease(a) ==
  IF find_lease(a) = {} THEN leases
  ELSE LET x == CHOOSE x \in find_lease(a) : TRUE
       IN  [y \in 1..(Len(leases) - 1) |-> IF y < x THEN leases[y] ELSE leases[y + 1]]

\* Wrong variant of add_lease.
add_lease_Keep(s, a, t) ==
  Append(s, [ip |-> a, type |-> t,
             ethernet |-> IF find_lease(a) = {} THEN None
                          ELSE leases[CHOOSE x \in find_lease(a) : TRUE].ethernet])
add_lease(s, a, t) == Append(s, [ip |-> a, type |-> t, ethernet |-> None])

-----------------------------------------------------------------------------
(* The turns of the loop *)

\* xstrstr_init: the first line decides the version, memcmp being true of
\* lines that differ, and counts as a header.  Its address cannot be parsed,
\* which leaves addr with whatever was on the stack.
Detect ==
  /\ version = "unknown"
  /\ Fetch
  /\ version' = IF NextLine.text = "lease" THEN "v6" ELSE "v4"
  /\ addr' \in Addr
  /\ UNCHANGED <<input, leases, backups_found>>

SaveAddress ==
  /\ Fetch
  /\ IsLease(version, NextLine)
  /\ addr' = NextLine.arg
  /\ UNCHANGED <<input, version, leases, backups_found>>

\* Wrong variant of SaveState.
SaveState_Unflagged ==
  /\ Fetch
  /\ IsBinding(version, NextLine)
  /\ leases' = add_lease(delete_lease(addr), addr, TypeOf(NextLine.arg))
  /\ UNCHANGED <<input, addr, version, backups_found>>
\* Wrong variant of SaveState.
SaveState_First ==
  /\ Fetch
  /\ IsBinding(version, NextLine)
  /\ LET t == TypeOf(NextLine.arg) IN
       /\ leases' = IF find_lease(addr) = {} THEN add_lease(leases, addr, t) ELSE leases
       /\ backups_found' = (backups_found \/ t = "BACKUP")
  /\ UNCHANGED <<input, addr, version>>

SaveState ==
  /\ Fetch
  /\ IsBinding(version, NextLine)
  /\ LET t == TypeOf(NextLine.arg) IN
       /\ leases' = add_lease(delete_lease(addr), addr, t)
       /\ backups_found' = (backups_found \/ t = "BACKUP")
  /\ UNCHANGED <<input, addr, version>>

SaveEthernet ==
  /\ Fetch
  /\ IsEthernet(version, NextLine)
  /\ input.ethernets
  /\ leases' = [x \in DOMAIN leases |->
                  IF x \in find_lease(addr) THEN [leases[x] EXCEPT !.ethernet = NextLine.arg]
                  ELSE leases[x]]
  /\ UNCHANGED <<input, addr, version, backups_found>>

SkipLine ==
  /\ version # "unknown"
  /\ Fetch
  /\ ~IsLease(version, NextLine)
  /\ ~IsBinding(version, NextLine)
  /\ ~(IsEthernet(version, NextLine) /\ input.ethernets)
  /\ UNCHANGED <<input, addr, version, leases, backups_found>>

\* feof() ends the loop.
Terminated == eof /\ UNCHANGED vars

Turn == Detect \/ SaveAddress \/ SaveState \/ SaveEthernet \/ SkipLine
Next == Turn \/ Terminated

\* A sequential program reading a file that does not grow for ever.
Spec == Init /\ [][Next]_vars /\ WF_vars(Turn)

-----------------------------------------------------------------------------
(* Properties *)

Entry == [ip : Addr, type : {"FREE", "ACTIVE", "BACKUP"}, ethernet : Macs \cup {None}]

(* The type invariant: the parser's variables hold values of their types. *)
TypeOK ==
  /\ input \in Inputs
  /\ pos \in 0..Len(file) /\ eof \in BOOLEAN
  /\ line \in Line
  /\ addr \in Addr
  /\ version \in Versions
  /\ leases \in Seq(Entry)
  /\ backups_found \in BOOLEAN

(* The table has one entry per address: do_counting, which walks over the
   sorted list, counts an address twice otherwise. *)
UniqueAddresses ==
  \A x, y \in DOMAIN leases : leases[x].ip = leases[y].ip => x = y

\* The lines that open a block.
IsHeader(ln) == ln.text \in {"lease", "iaaddr", "iaprefix"}

\* Every binding state line belongs to a block of an address, which dhcpd's
\* IPv6 files do not promise: a delegated prefix has a binding state, too.
WellFormed(f) ==
  \A b \in DOMAIN f :
    f[b].text \in {"binding4", "binding6"} =>
      \E h \in 1..(b - 1) : /\ f[h].text = IF f[b].text = "binding4" THEN "lease" ELSE "iaaddr"
                            /\ \A m \in (h + 1)..(b - 1) : ~IsHeader(f[m])

\* Line b lies in a block of address a: the last header before it has a.
InBlock(b, a) ==
  \E h \in 1..(b - 1) : /\ IsLease(version, file[h]) /\ file[h].arg = a
                        /\ \A m \in (h + 1)..(b - 1) : ~IsHeader(file[m])

\* The lines read so far that give a binding state of address a.
Bindings(a) == {b \in 1..pos : IsBinding(version, file[b]) /\ InBlock(b, a)}
Ethernets(a) == {h \in 1..pos : IsEthernet(version, file[h]) /\ InBlock(h, a)}

IsLast(b, B) == b \in B /\ \A c \in B : c <= b

(* An address has an entry exactly when a block of it gave its state, and the
   entry has the state of the last such block, whatever older blocks said,
   and whatever follows in the file; the last line may be handled twice. *)
LatestStateWins ==
  \A a \in Addr :
    /\ Bindings(a) = {} => find_lease(a) = {}
    /\ \A b \in Bindings(a) :
         IsLast(b, Bindings(a)) =>
           \E x \in find_lease(a) : leases[x].type = TypeOf(file[b].arg)

(* The hardware address shown with a lease was given after its latest state:
   the address of the client that had the lease before is forgotten. *)
EthernetOfLatestState ==
  input.ethernets =>
    \A a \in Addr, x \in DOMAIN leases :
      leases[x].ip = a =>
        LET fresh == {h \in Ethernets(a) : \A b \in Bindings(a) : b < h} IN
        /\ fresh = {} => leases[x].ethernet = None
        /\ \A h \in fresh : IsLast(h, fresh) => leases[x].ethernet = file[h].arg

(* The backup columns of the reports are printed when a lease in failover
   backup is in the table. *)
BackupsReported ==
  (\E x \in DOMAIN leases : leases[x].type = "BACKUP") => backups_found

(* parse_leases comes to the end of the file. *)
ParsingEnds == <>eof
=============================================================================
