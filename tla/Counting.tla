------------------------------- MODULE Counting -------------------------------
(***************************************************************************)
(* prepare_data and do_counting of analyze.c: the leases and the ranges    *)
(* are sorted, then one cursor walks over the sorted leases while the      *)
(* ranges are visited in order.  Ranges may overlap, nest, repeat or leave *)
(* gaps, so before every range the cursor is moved back to a lease that is *)
(* not above the range's first address; a cursor that fell off either end  *)
(* of the list restarts at its head.  Every lease found in a range is      *)
(* added to the counters of the range and of its shared network, and a     *)
(* last loop computes the counters of "All networks" (shared_networks[0],  *)
(* which is also the network of the ranges outside every shared network).  *)
(*                                                                         *)
(* The three counters of a range or a network are one function of the      *)
(* lease state: FREE is `touched', ACTIVE is `count' or `used', BACKUP is  *)
(* `backups'.  A pointer into the lease list is a position, NULL is 0.     *)
(***************************************************************************)
EXTENDS Integers, Sequences, FiniteSets, FiniteSetsExt, Functions

CONSTANTS
  MaxAddr,    \* addresses are 0..MaxAddr
  Word,       \* how many numbers an address is wide, 2^32 in the source
  NumNets,    \* num_shared_networks: the networks are 0..NumNets
  MaxLeases,  \* bound on the number of leases
  MaxRanges   \* bound on the number of ranges

ASSUME CountingAssumption ==
  /\ MaxAddr \in Nat
  /\ Word \in Nat /\ MaxAddr < Word
  /\ NumNets \in Nat
  /\ MaxLeases \in Nat
  /\ MaxRanges \in Nat

LeaseTypes == {"FREE", "ACTIVE", "BACKUP"}
Addr == 0..MaxAddr
Nets == 0..NumNets
Default == 0
NULL == 0

Lease == [ip : Addr, type : LeaseTypes]

\* parse_config leaves first_ip <= last_ip in every range (reorder_last_first).
RangeRec == {r \in [first : Addr, last : Addr, net : Nets] : r.first <= r.last}

VARIABLES
  leases,     \* the lease list, in the order of the hash table's list
  ranges,     \* the range array
  l, i, k,    \* lease cursor and the two loop counters (i, k from 1)
  tally,      \* the counters of the ranges
  net,        \* the counters of the networks
  available,  \* the sizes of the networks
  pc          \* the loop do_counting is in

vars == <<leases, ranges, l, i, k, tally, net, available, pc>>
inputs == <<leases, ranges>>

Zero == [t \in LeaseTypes |-> 0]

UniqueIps(s) == \A x, y \in DOMAIN s : s[x].ip = s[y].ip => x = y

\* The lease table holds one lease per address, in the order they were added.
Init ==
  /\ leases \in {s \in UNION {[1..n -> Lease] : n \in 0..MaxLeases} : UniqueIps(s)}
  /\ ranges \in UNION {[1..n -> RangeRec] : n \in 0..MaxRanges}
  /\ l = NULL /\ i = 1 /\ k = 1
  /\ tally = [x \in DOMAIN ranges |-> Zero]
  /\ net = [n \in Nets |-> Zero]
  /\ available = [n \in Nets |-> 0]
  /\ pc = "prepare"

-----------------------------------------------------------------------------
\* The orders HASH_SORT and qsort may put a list in, before comparing keys.
Rearrangements(s) ==
  {[x \in DOMAIN s |-> s[p[x]]] : p \in Bijection(DOMAIN s, DOMAIN s)}

\* leasecomp orders leases by address ...
LeasesSorted(s) == \A x, y \in DOMAIN s : x < y => s[x].ip <= s[y].ip
\* ... and rangecomp orders ranges by their first address only.
RangesSorted(s) == \A x, y \in DOMAIN s : x < y => s[x].first <= s[y].first

Head1(s) == IF s = << >> THEN NULL ELSE 1

SortedLeases == {s \in Rearrangements(leases) : LeasesSorted(s)}
SortedRanges == {s \in Rearrangements(ranges) : RangesSorted(s)}

\* prepare_data, and the entry of do_counting: l = leases, range_p = ranges.
PrepareData ==
  /\ pc = "prepare"
  /\ leases' \in SortedLeases
  /\ ranges' \in SortedRanges
  /\ l' = Head1(leases')
  /\ pc' = "rewind"
  /\ UNCHANGED <<i, k, tally, net, available>>

\* Wrong variant of get_range_size.
get_range_size_Open(r) == (r.last - r.first) % Word

\* get_range_size_v4 computes in 32 bit arithmetic: a range of all the numbers
\* there are has size zero.
get_range_size(r) == (r.last - r.first + 1) % Word

\* Wrong variant of Above.
Above_Last(r) == l # NULL /\ leases[l].ip > r.last

\* The cursor is on a lease above the first address of the range.
Above(r) == l # NULL /\ leases[l].ip > r.first

\* The cursor is on a lease that is not above the last address of the range.
Reaches(r) == l # NULL /\ leases[l].ip <= r.last

\* Wrong variant of Restart.
Restart_Stay == l

\* The head of the list is reached again when the cursor is NULL.
Restart == IF l = NULL THEN Head1(leases) ELSE l

\* Wrong variant of NextLease.
NextLease_PastEnd == l + 1
NextLease == IF l = Len(leases) THEN NULL ELSE l + 1

Rewind ==
  /\ pc = "rewind" /\ i <= Len(ranges)
  /\ Above(ranges[i])
  /\ l' = l - 1
  /\ UNCHANGED <<inputs, i, k, tally, net, available, pc>>

StartScan ==
  /\ pc = "rewind" /\ i <= Len(ranges)
  /\ ~Above(ranges[i])
  /\ l' = Restart
  /\ pc' = "scan"
  /\ UNCHANGED <<inputs, i, k, tally, net, available>>

\* Wrong variant of SkipLease.
SkipLease_Stuck ==
  /\ pc = "scan"
  /\ Reaches(ranges[i]) /\ leases[l].ip < ranges[i].first
  /\ UNCHANGED vars

\* A lease below the range, which the source expects never to meet.
SkipLease ==
  /\ pc = "scan"
  /\ Reaches(ranges[i]) /\ leases[l].ip < ranges[i].first
  /\ l' = NextLease
  /\ UNCHANGED <<inputs, i, k, tally, net, available, pc>>

CountLease ==
  /\ pc = "scan"
  /\ Reaches(ranges[i]) /\ leases[l].ip >= ranges[i].first
  /\ LET t == leases[l].type IN
       /\ tally' = [tally EXCEPT ![i][t] = @ + 1]
       /\ net' = [net EXCEPT ![ranges[i].net][t] = @ + 1]
  /\ l' = NextLease
  /\ UNCHANGED <<inputs, i, k, available, pc>>

CloseRange ==
  /\ pc = "scan"
  /\ ~Reaches(ranges[i])
  /\ available' = [available EXCEPT ![ranges[i].net] = @ + get_range_size(ranges[i])]
  /\ i' = i + 1
  /\ pc' = "rewind"
  /\ UNCHANGED <<inputs, l, k, tally, net>>

\* Wrong variant of Cleared.
Cleared_None == {}

\* The counters of the default network that are cleared before the last loop.
Cleared == {"ACTIVE", "FREE"}

ResetDefault ==
  /\ pc = "rewind" /\ i > Len(ranges)
  /\ available' = [available EXCEPT ![Default] = 0]
  /\ net' = [net EXCEPT ![Default] = [t \in LeaseTypes |-> IF t \in Cleared THEN 0 ELSE @[t]]]
  /\ pc' = "total"
  /\ UNCHANGED <<inputs, l, i, k, tally>>

AddToTotal ==
  /\ pc = "total" /\ k <= Len(ranges)
  /\ available' = [available EXCEPT ![Default] = @ + get_range_size(ranges[k])]
  /\ net' = [net EXCEPT ![Default] = [t \in LeaseTypes |-> @[t] + tally[k][t]]]
  /\ k' = k + 1
  /\ UNCHANGED <<inputs, l, i, tally, pc>>

Return ==
  /\ pc = "total" /\ k > Len(ranges)
  /\ pc' = "done"
  /\ UNCHANGED <<inputs, l, i, k, tally, net, available>>

\* do_counting has returned.
Terminated == pc = "done" /\ UNCHANGED vars

Step == PrepareData \/ Rewind \/ StartScan \/ SkipLease \/ CountLease
          \/ CloseRange \/ ResetDefault \/ AddToTotal \/ Return
Next == Step \/ Terminated

\* The program is sequential and has nothing to wait for.
Spec == Init /\ [][Next]_vars /\ WF_vars(Step)

-----------------------------------------------------------------------------
(* Properties *)

InRange(x, j) == leases[x].ip \in ranges[j].first..ranges[j].last

\* The leases of state t in range j, and the same as <<lease, range>> pairs.
Matching(j, t) == {x \in DOMAIN leases : InRange(x, j) /\ leases[x].type = t}
Pairs(J, t) == {p \in (DOMAIN leases) \X J : p[1] \in Matching(p[2], t)}

Closed == 1..(i - 1)
OfNet(n) == {j \in DOMAIN ranges : ranges[j].net = n}

(* The type invariant: the variables of do_counting hold values of their
   types, and the cursor is NULL or points at a lease of the list. *)
TypeOK ==
  /\ leases \in Seq(Lease) /\ Len(leases) <= MaxLeases
  /\ ranges \in Seq(RangeRec) /\ Len(ranges) <= MaxRanges
  /\ l \in 0..Len(leases)
  /\ i \in 1..(Len(ranges) + 1)
  /\ k \in 1..(Len(ranges) + 1)
  /\ tally \in [DOMAIN ranges -> [LeaseTypes -> Nat]]
  /\ net \in [Nets -> [LeaseTypes -> Nat]]
  /\ available \in [Nets -> Nat]
  /\ pc \in {"prepare", "rewind", "scan", "total", "done"}
  /\ pc = "scan" => i <= Len(ranges)

(* A range that do_counting has left has each of its counters equal to the
   number of leases of that state in it, wherever the previous range, which
   may overlap it or contain it, left the cursor. *)
RangeCountersExact ==
  \A j \in Closed, t \in LeaseTypes : tally[j][t] = Cardinality(Matching(j, t))

(* A shared network has counted exactly the leases of the ranges of that
   network which are done, a lease of two overlapping ranges twice. *)
NetCountersExact ==
  pc \in {"rewind", "total", "done"} =>
    \A n \in Nets \ {Default}, t \in LeaseTypes :
      net[n][t] = Cardinality(Pairs(Closed \cap OfNet(n), t))

(* In the end "All networks" has the used and touched addresses of every
   range, although the ranges outside the shared networks were already
   counted into the same structure while the ranges were walked. *)
AllNetworksExact ==
  pc = "done" =>
    \A t \in {"ACTIVE", "FREE"} :
      net[Default][t] = Cardinality(Pairs(DOMAIN ranges, t))

(* The same of the leases in failover backup.  The comment above the final
   loop says that the loop separates "All networks" from the default network
   it got mixed with, and the reports label it the sum of all ranges. *)
AllNetworksBackupsExact ==
  pc = "done" => net[Default]["BACKUP"] = Cardinality(Pairs(DOMAIN ranges, "BACKUP"))

\* What the report shows: the states of the leases, the figures of a range as
\* soon as it has been left, and the totals in the end.
leased == [a \in {leases[x].ip : x \in DOMAIN leases} |->
             leases[CHOOSE x \in DOMAIN leases : leases[x].ip = a].type]
usage == [j \in Closed |-> tally[j]]
totals ==
  IF pc # "done" THEN [reported |-> FALSE]
  ELSE [reported |-> TRUE,
        total    |-> [n \in Nets |-> [available |-> available[n],
                                      used      |-> net[n]["ACTIVE"],
                                      touched   |-> net[n]["FREE"]]],
        backups  |-> [n \in 1..NumNets |-> net[n]["BACKUP"]]]

Usage == INSTANCE PoolUsage WITH
  leased <- leased, pools <- ranges, usage <- usage, totals <- totals

\* The number of the addresses of every range is below 2^32.
SizesFit == \A x \in DOMAIN ranges : ranges[x].last - ranges[x].first + 1 < Word

(* do_counting implements the abstract report: every range gets its figures
   as if counted in one step, and the totals are the sums of the figures and
   the numbers of the addresses, as get_range_size promises them.  It is so
   where SizesFit: of 0.0.0.0 to 255.255.255.255 get_range_size finds no
   address. *)
ReportsPoolUsage == Usage!Spec

(* do_counting returns: the cursor cannot go back and forth for ever. *)
CountingReturns == <>(pc = "done")

-----------------------------------------------------------------------------
(* The inductive invariant behind the exactness of the counters. *)

\* The leases of state t that have been counted for range j.
Seen(j, t) == {x \in Matching(j, t) :
                 j < i \/ (j = i /\ pc = "scan" /\ (l = NULL \/ x < l))}

\* The <<lease, range>> pairs that network n has counted.
NetSeen(n, t) == {p \in (DOMAIN leases) \X OfNet(n) : p[1] \in Seen(p[2], t)}

PhaseInv ==
  /\ pc = "prepare" => i = 1 /\ l = NULL
  /\ pc \in {"prepare", "rewind", "scan"} => k = 1
  /\ pc \in {"total", "done"} => i = Len(ranges) + 1
  /\ pc = "done" => k = Len(ranges) + 1

SortedInv ==
  /\ UniqueIps(leases)
  /\ pc # "prepare" => LeasesSorted(leases)

TallyInv == \A j \in DOMAIN ranges, t \in LeaseTypes : tally[j][t] = Cardinality(Seen(j, t))

NetInv == \A n \in Nets \ {Default}, t \in LeaseTypes : net[n][t] = Cardinality(NetSeen(n, t))

TotalInv == pc \in {"total", "done"} =>
              \A t \in {"ACTIVE", "FREE"} : net[Default][t] = Cardinality(Pairs(1..(k - 1), t))

CountingInv == TypeOK /\ PhaseInv /\ SortedInv /\ TallyInv /\ NetInv /\ TotalInv
=============================================================================
