------------------------------ MODULE MCAlarming ------------------------------
(***************************************************************************)
(* Options and ranges for Alarming.  The sizes are a few addresses, and so *)
(* the percentages are few: the limits tell 1/3, 1/2, 2/3 and all apart.   *)
(***************************************************************************)
EXTENDS Alarming, FiniteSetsExt

CONSTANTS
  DefaultCount,       \* warn_count and crit_count by default: 2^32 in the source
  MaxSize, MaxRanges

Range_ == {x \in [size : 1..MaxSize, count : 0..MaxSize, net : 0..NumNets] : x.count <= x.size}
MCPools == UNION {[1..n -> Range_] : n \in 0..MaxRanges}

Defaults ==
  [number_limit |-> Limits, header_limit |-> Limits, snet_alarms |-> FALSE, perfdata |-> FALSE,
   warning |-> 40, critical |-> 60, warn_count |-> DefaultCount, crit_count |-> DefaultCount,
   minsize |-> 0]

\* Limits for the scoping of ranges and networks, without counts.
Scopes == {[Defaults EXCEPT !.number_limit = number, !.header_limit = header] :
             number \in SUBSET Limits, header \in {Limits, {"A"}}}
Sizes == {[Defaults EXCEPT !.minsize = 1, !.perfdata = perf] : perf \in BOOLEAN}
\* Performance data where the networks are judged, the last one being -L22.
\* (Where they are not, as in -L35, what is read below their array is printed.)
Perf == {[Defaults EXCEPT !.perfdata = TRUE, !.number_limit = number] :
           number \in {{"S", "A"}, {"R", "S"}}}
        \cup {[Defaults EXCEPT !.perfdata = TRUE, !.number_limit = {"S"}, !.header_limit = {"S"}]}
\* Counts, for ranges and networks.
Counts == {[Defaults EXCEPT !.warn_count = w, !.crit_count = n, !.number_limit = {"R", "S"}] :
             w \in {1, 2}, n \in {0, 1, DefaultCount}}
ConfigsOrdinary == Scopes \cup Sizes \cup Perf \cup Counts

\* The ranges of the shared networks come after the others.
PoolsSharedLast ==
  {p \in MCPools : \A x, y \in DOMAIN p : x < y /\ p[x].net # 0 => p[y].net # 0}

ConfigsSnet == {[Defaults EXCEPT !.snet_alarms = TRUE]}

\* A network has what its ranges have, and "All networks" has all of it.
Nets(pools) ==
  [n \in 0..NumNets |->
     LET of == {x \in DOMAIN pools : n = 0 \/ pools[x].net = n}
     IN  [available |-> MapThenSumSet(LAMBDA x : pools[x].size, of),
          used |-> MapThenSumSet(LAMBDA x : pools[x].count, of)]]
With(configs, pools) ==
  {[config |-> c, ranges |-> p, nets |-> Nets(p)] : c \in configs, p \in pools}

\* --snet-alarms only where the ranges of the shared networks come last.
InputsOrdinary == With(ConfigsOrdinary, MCPools) \cup With(ConfigsSnet, PoolsSharedLast)
InputsSnet == With(ConfigsSnet, MCPools)
InputsCounts == With(Counts, MCPools)
=============================================================================
