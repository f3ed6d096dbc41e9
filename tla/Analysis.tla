------------------------------- MODULE Analysis -------------------------------
(***************************************************************************)
(* The lease file parser and the counting engine, composed as main         *)
(* composes them: parse_leases fills the lease table from the log that     *)
(* dhcpd writes, prepare_data sorts that same table, and do_counting walks *)
(* over it.  Neither part is changed, LeaseFile and Counting are           *)
(* instantiated, and they share the table.                                 *)
(*                                                                         *)
(* What each part assumes of the other is checked here: the counting       *)
(* engine starts with any list that has one lease per address, and says    *)
(* nothing of the file that the list came from.                            *)
(***************************************************************************)
EXTENDS Integers, Sequences, FiniteSets

CONSTANTS
  MaxAddr,    \* addresses are 0..MaxAddr
  Word,       \* how many numbers an address is wide
  Macs,       \* hardware addresses
  Inputs,     \* the lease files
  NumNets,    \* num_shared_networks
  MaxRanges   \* bound on the number of ranges

Addr == 0..MaxAddr

VARIABLES
  input, pos, eof, line, addr, version, backups_found,  \* of parse_leases
  leases,                                               \* the lease table
  ranges, l, i, k, tally, net, available, pc            \* of do_counting

parsing == <<input, pos, eof, line, addr, version, backups_found>>
counting == <<ranges, l, i, k, tally, net, available, pc>>
vars == <<parsing, leases, counting>>

\* What do_counting looks at of a table of leases: it never needs the
\* hardware addresses, and the table has at most one lease per address.
Listing(table) == [x \in DOMAIN table |-> [ip |-> table[x].ip, type |-> table[x].type]]

Log == INSTANCE LeaseFile

ASSUME AnalysisAssumption ==
  /\ MaxAddr \in Nat
  /\ Word \in Nat /\ MaxAddr < Word
  /\ NumNets \in Nat
  /\ MaxRanges \in Nat
  /\ Inputs \subseteq [lines : Seq(Log!Line), newline : BOOLEAN,
                       version : Log!Versions, ethernets : BOOLEAN]

Count == INSTANCE Counting WITH leases <- Listing(leases), MaxLeases <- MaxAddr + 1

\* The ranges are those of the configuration, which has been parsed before.
Init == Log!Init /\ Count!Init

parse_leases == Log!Turn /\ UNCHANGED counting

\* HASH_SORT moves the entries of the table, with all that is in them.
Arranged(table) == {s \in Count!Rearrangements(table) : Count!LeasesSorted(s)}

prepare_data ==
  /\ eof
  /\ leases' \in Arranged(leases)
  /\ Count!PrepareData
  /\ UNCHANGED parsing

do_counting ==
  /\ pc # "prepare"
  /\ UNCHANGED <<parsing, leases>>
  /\ Count!Step

Terminated == pc = "done" /\ UNCHANGED vars

Next == parse_leases \/ prepare_data \/ do_counting \/ Terminated
Spec == Init /\ [][Next]_vars

-----------------------------------------------------------------------------
(* Properties *)

(* The type invariant of both parts at once: the table that the parser leaves
   is one that do_counting can work on. *)
TypeOK == Log!TypeOK /\ Count!TypeOK

\* The state that the log gives address a: that of the last block of it.
LatestState(a) ==
  IF Log!Bindings(a) = {} THEN "none"
  ELSE LET b == CHOOSE b \in Log!Bindings(a) : Log!IsLast(b, Log!Bindings(a))
       IN  Log!TypeOf(input.lines[b].arg)

\* The addresses of range r that the log says are in state t.
Addresses(r, t) == {a \in Addr : r.first <= a /\ a <= r.last /\ LatestState(a) = t}

(* The figures of a range are those of the log: an address of the range is
   counted once, in the state that the last block about it in the file gave
   it, however often it was renewed, and whatever came after it in the file. *)
ReportOfLog ==
  \A j \in Count!Closed, t \in Count!LeaseTypes :
    tally[j][t] = Cardinality(Addresses(ranges[j], t))

(* The total line, too: used and touched addresses of "All networks" are the
   addresses that the log has in that state, once for every range they are in. *)
TotalsOfLog ==
  pc = "done" =>
    \A t \in {"ACTIVE", "FREE"} :
      net[Count!Default][t]
        = Cardinality({q \in (DOMAIN ranges) \X Addr : q[2] \in Addresses(ranges[q[1]], t)})
=============================================================================
