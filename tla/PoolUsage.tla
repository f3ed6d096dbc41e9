------------------------------ MODULE PoolUsage ------------------------------
(***************************************************************************)
(* What dhcpd-pools promises about its figures, without saying how they    *)
(* are computed: a set of leases and a list of address pools go in, and    *)
(* every pool is reported with the number of its addresses that are in     *)
(* each lease state.  A pool is tallied in one step, by counting a set;    *)
(* the totals of the shared networks, and of "All networks" (network 0),   *)
(* count the addresses and the leases of all pools they are made of.       *)
(*                                                                         *)
(* Counting.tla (do_counting of analyze.c) implements this specification.  *)
(***************************************************************************)
EXTENDS Integers, Sequences, FiniteSets

CONSTANTS
  MaxAddr,    \* addresses are 0..MaxAddr
  NumNets,    \* shared networks are 1..NumNets, 0 is "All networks"
  MaxLeases,  \* bound on the number of leases
  MaxRanges   \* bound on the number of ranges

LeaseTypes == {"FREE", "ACTIVE", "BACKUP"}
Addr == 0..MaxAddr
Nets == 0..NumNets
Pool == {p \in [first : Addr, last : Addr, net : Nets] : p.first <= p.last}

\* Before the totals have been computed.
NoTotals == [reported |-> FALSE]

VARIABLES
  leased,   \* address -> lease state, for the addresses that have a lease
  pools,    \* the pools, in the order they are reported
  usage,    \* the tallies of the pools reported so far
  totals    \* NoTotals, and the totals at the end

vars == <<leased, pools, usage, totals>>

\* The number of addresses of pool p whose lease is in state t.
Tally(p, t) ==
  Cardinality({a \in DOMAIN leased : a \in p.first..p.last /\ leased[a] = t})

\* The pools a total is made of: every pool for "All networks".
Members(n) == {x \in DOMAIN pools : n = 0 \/ pools[x].net = n}

\* The addresses a pool is sized by: all that there are in it.
Sized(p) == p.first..p.last

\* What a network has, as pairs of an address and a pool: an address of two
\* pools is in the total twice.
Offered(n) == {o \in Addr \X Members(n) : o[1] \in Sized(pools[o[2]])}
Found(n, t) == {o \in (DOMAIN leased) \X Members(n) :
                  o[1] \in pools[o[2]].first..pools[o[2]].last /\ leased[o[1]] = t}

Total(n) ==
  [available |-> Cardinality(Offered(n)),
   used      |-> Cardinality(Found(n, "ACTIVE")),
   touched   |-> Cardinality(Found(n, "FREE"))]

\* The number of leases in failover backup, for the shared networks.
Backups(n) == Cardinality(Found(n, "BACKUP"))

Init ==
  /\ leased \in UNION {[A -> LeaseTypes] :
                          A \in {S \in SUBSET Addr : Cardinality(S) <= MaxLeases}}
  /\ pools \in UNION {[1..n -> Pool] : n \in 0..MaxRanges}
  /\ usage = << >>
  /\ totals = NoTotals

\* The pools may be put in another order before the first one is reported.
Arrange ==
  /\ usage = << >> /\ totals = NoTotals
  /\ pools' \in [DOMAIN pools -> {pools[x] : x \in DOMAIN pools}]
  /\ \A p \in Pool : Cardinality({x \in DOMAIN pools : pools[x] = p})
                       = Cardinality({x \in DOMAIN pools : pools'[x] = p})
  /\ UNCHANGED <<leased, usage, totals>>

TallyPool ==
  /\ Len(usage) < Len(pools)
  /\ usage' = Append(usage, [t \in LeaseTypes |-> Tally(pools[Len(usage) + 1], t)])
  /\ UNCHANGED <<leased, pools, totals>>

ReportTotals ==
  /\ Len(usage) = Len(pools) /\ totals = NoTotals
  /\ totals' = [reported |-> TRUE,
                total    |-> [n \in Nets |-> Total(n)],
                backups  |-> [n \in 1..NumNets |-> Backups(n)]]
  /\ UNCHANGED <<leased, pools, usage>>

Next == Arrange \/ TallyPool \/ ReportTotals

\* What a report may be, and that there is one.
Safety == Init /\ [][Next]_vars
Spec == Safety /\ WF_vars(TallyPool \/ ReportTotals)
=============================================================================
