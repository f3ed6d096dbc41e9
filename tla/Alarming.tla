------------------------------- MODULE Alarming -------------------------------
(***************************************************************************)
(* output_alarming of output.c: the report for a monitoring system.  Every *)
(* range and every shared network is judged by its percentage and by a     *)
(* count of addresses; the worst judgement is the exit status, and the     *)
(* report has one section for the ranges and one for the shared networks,  *)
(* each with optional performance data.                                    *)
(*                                                                         *)
(* The four arrays and pointers are kept as they are: range_p and shared_p *)
(* walk forwards while they judge and backwards while they print.          *)
(* Percentages are compared exactly; the source rounds them to a float.    *)
(***************************************************************************)
EXTENDS Integers, Sequences, FiniteSets, Functions

CONSTANTS
  NumNets,        \* the shared networks are 1..NumNets; 0 is "All networks"
  Inputs          \* the options and what do_counting leaves

Limits == {"R", "S", "A"}
Levels == {"crit", "warn", "ok", "ignored"}
STATE_OK == 0
STATE_WARNING == 1
STATE_CRITICAL == 2
Unset == -1

\* What the command line decides.
Option == [number_limit : SUBSET Limits, header_limit : SUBSET Limits,
           snet_alarms : BOOLEAN, perfdata : BOOLEAN,
           warning : Nat, critical : Nat, warn_count : Nat, crit_count : Nat, minsize : Nat]
\* What do_counting leaves of a range and of a network.
Pool == [size : Nat, count : Nat, net : 0..NumNets]
Network == [available : Nat, used : Nat]

ASSUME AlarmingAssumption ==
  /\ NumNets \in Nat
  /\ Inputs \subseteq [config : Option, ranges : Seq(Pool), nets : [0..NumNets -> Network]]

VARIABLES
  config, ranges, shared_networks,  \* the input
  range_p,         \* the range it points at, the first one being 1
  shared_p,        \* the network it points at
  i,               \* the loop counter
  r, s,            \* rc, rw, ro, ri and sc, sw, so, si: how many of each level
  ret_val,         \* the exit status
  headline,        \* what the report starts with
  perf_r, perf_s,  \* the ranges and networks with performance data printed
  pc

vars == <<config, ranges, shared_networks, range_p, shared_p, i, r, s, ret_val, headline,
          perf_r, perf_s, pc>>
input == <<config, ranges, shared_networks>>

num_ranges == Len(ranges)
num_shared_networks == NumNets
Available(n) == shared_networks[n].available
Used(n) == shared_networks[n].used

None == [level \in Levels |-> 0]

Init ==
  /\ \E in \in Inputs : config = in.config /\ ranges = in.ranges /\ shared_networks = in.nets
  /\ range_p = 1 /\ shared_p = 0 /\ i = 0
  /\ r = None /\ s = None
  /\ ret_val = Unset /\ headline = "none"
  /\ perf_r = << >> /\ perf_s = << >>
  /\ pc = "ranges"

-----------------------------------------------------------------------------
(* Judging *)

\* A percentage of `used' out of `size' above the limit p.
Above(p, used, size) == IF size = 0 THEN p < 100 ELSE p * size < 100 * used

\* `left' is what is compared with the counts.
Judged(used, size, left) ==
  IF size <= config.minsize THEN "ignored"
  ELSE IF Above(config.critical, used, size) /\ left < config.crit_count THEN "crit"
  ELSE IF Above(config.warning, used, size) /\ left < config.warn_count THEN "warn"
  ELSE "ok"

\* Wrong variant of JudgedRange.
JudgedRange_Used(x) == Judged(ranges[x].count, ranges[x].size, ranges[x].count)

JudgedRange(x) == Judged(ranges[x].count, ranges[x].size, ranges[x].size - ranges[x].count)

\* Wrong variant of JudgedNet.
JudgedNet_Previous(n) == Judged(Used(n - 1), Available(n - 1), Used(n - 1))

JudgedNet(n) == Judged(Used(n), Available(n), Used(n))

Suppressed(x) == config.snet_alarms /\ ranges[x].net # 0
InRanges == pc = "ranges" /\ "R" \in config.number_limit /\ i < num_ranges

\* `continue' leaves out range_p++ as well.
SuppressRange ==
  /\ InRanges /\ Suppressed(range_p)
  /\ i' = i + 1
  /\ UNCHANGED <<input, range_p, shared_p, r, s, ret_val, headline, perf_r, perf_s, pc>>

JudgeRange ==
  /\ InRanges /\ ~Suppressed(range_p)
  /\ r' = [r EXCEPT ![JudgedRange(range_p)] = @ + 1]
  /\ range_p' = range_p + 1 /\ i' = i + 1
  /\ UNCHANGED <<input, shared_p, s, ret_val, headline, perf_r, perf_s, pc>>

RangesJudged ==
  /\ pc = "ranges" /\ ("R" \notin config.number_limit \/ i = num_ranges)
  /\ i' = 0 /\ pc' = "nets"
  /\ UNCHANGED <<input, range_p, shared_p, r, s, ret_val, headline, perf_r, perf_s>>

JudgeNet ==
  /\ pc = "nets" /\ "S" \in config.number_limit /\ i < num_shared_networks
  /\ s' = [s EXCEPT ![JudgedNet(shared_p + 1)] = @ + 1]
  /\ shared_p' = shared_p + 1 /\ i' = i + 1
  /\ UNCHANGED <<input, range_p, r, ret_val, headline, perf_r, perf_s, pc>>

-----------------------------------------------------------------------------
(* The exit status and the report *)

\* Wrong variant of Status.
Status_Overwritten ==
  IF s["warn"] > 0 \/ r["warn"] > 0 THEN STATE_WARNING
  ELSE IF s["crit"] > 0 \/ r["crit"] > 0 THEN STATE_CRITICAL
  ELSE STATE_OK

Status ==
  IF s["crit"] > 0 \/ r["crit"] > 0 THEN STATE_CRITICAL
  ELSE IF s["warn"] > 0 \/ r["warn"] > 0 THEN STATE_WARNING
  ELSE STATE_OK

Any(level) == \/ r[level] > 0 /\ "R" \in config.number_limit
              \/ s[level] > 0 /\ "S" \in config.number_limit

\* Wrong variant of Headline.
Headline_Either ==
  IF r["crit"] > 0 /\ s["crit"] > 0 THEN "CRITICAL"
  ELSE IF Any("warn") THEN "WARNING"
  ELSE IF "A" \in config.number_limit THEN "OK"
  ELSE "none"

Headline ==
  IF Any("crit") THEN "CRITICAL"
  ELSE IF Any("warn") THEN "WARNING"
  ELSE IF "A" \in config.number_limit THEN "OK"
  ELSE "none"

\* An alarm that is all right returns here when the totals are not wanted.
Report ==
  /\ pc = "nets" /\ ("S" \notin config.number_limit \/ i = num_shared_networks)
  /\ ret_val' = Status
  /\ headline' = Headline
  /\ i' = 0
  /\ pc' = IF Headline = "none" THEN "done" ELSE "perf_r"
  /\ UNCHANGED <<input, range_p, shared_p, r, s, perf_r, perf_s>>

Shown(size) == config.minsize < size
ShownRange(x) == Shown(ranges[x].size)
ShownNet(n) == Shown(Available(n))

\* What is read below an array may be anything.
PerfRanges == config.perfdata /\ {"R"} \subseteq config.header_limit \cap config.number_limit
PrintRange ==
  /\ pc = "perf_r" /\ PerfRanges /\ i < num_ranges
  /\ range_p' = range_p - 1 /\ i' = i + 1
  /\ \E shown \in IF range_p' > 0 THEN {ShownRange(range_p')} ELSE BOOLEAN :
       perf_r' = IF shown THEN Append(perf_r, range_p') ELSE perf_r
  /\ UNCHANGED <<input, shared_p, r, s, ret_val, headline, perf_s, pc>>

RangesPrinted ==
  /\ pc = "perf_r" /\ (~PerfRanges \/ i = num_ranges)
  /\ i' = 0 /\ pc' = "perf_s"
  /\ UNCHANGED <<input, range_p, shared_p, r, s, ret_val, headline, perf_r, perf_s>>

\* The bits that are compared with are those of the ranges.
PerfNets == config.perfdata /\ {"R", "S"} \subseteq config.header_limit

\* Wrong variant of Below.
Below_Stay == shared_p

Below == shared_p - 1

\* Wrong variant of MoreNets.
MoreNets_Past == i <= num_shared_networks

MoreNets == i < num_shared_networks
PrintNet ==
  /\ pc = "perf_s" /\ PerfNets /\ MoreNets
  /\ \E shown \in IF shared_p >= 0 THEN {ShownNet(shared_p)} ELSE BOOLEAN :
       perf_s' = IF shown THEN Append(perf_s, shared_p) ELSE perf_s
  /\ shared_p' = Below /\ i' = i + 1
  /\ UNCHANGED <<input, range_p, r, s, ret_val, headline, perf_r, pc>>

Return ==
  /\ pc = "perf_s" /\ (~PerfNets \/ i = num_shared_networks)
  /\ pc' = "done"
  /\ UNCHANGED <<input, range_p, shared_p, i, r, s, ret_val, headline, perf_r, perf_s>>

Terminated == pc = "done" /\ UNCHANGED vars

Step ==
  \/ SuppressRange \/ JudgeRange \/ RangesJudged \/ JudgeNet
  \/ Report \/ PrintRange \/ RangesPrinted \/ PrintNet \/ Return
Next == Step \/ Terminated

Spec == Init /\ [][Next]_vars /\ WF_vars(Step)

-----------------------------------------------------------------------------
(* Properties *)

(* The type invariant: counters, status and text are of their types, and the
   two pointers stay on the arrays or one past a range. *)
TypeOK ==
  /\ config \in Option
  /\ range_p \in 1..(num_ranges + 1)
  /\ shared_p \in 0..num_shared_networks
  /\ i \in Nat
  /\ r \in [Levels -> Nat] /\ s \in [Levels -> Nat]
  /\ ret_val \in {Unset, STATE_OK, STATE_WARNING, STATE_CRITICAL}
  /\ headline \in {"none", "OK", "WARNING", "CRITICAL"}

\* The percentage p is exceeded and fewer than `number' of the leases that
\* count are there, `left' of them.
Exceeds(p, number, used, size, left) ==
  /\ config.minsize < size
  /\ 100 * used > p * size
  /\ left < number
Critical(used, size, left) == Exceeds(config.critical, config.crit_count, used, size, left)
Warning(used, size, left) == Exceeds(config.warning, config.warn_count, used, size, left)

\* The free leases of a range and of a network.
RangeFree(x) == ranges[x].size - ranges[x].count
NetFree(n) == Available(n) - Used(n)

\* --snet-alarms leaves the ranges of the shared networks out.
Watched == {x \in DOMAIN ranges : config.snet_alarms => ranges[x].net = 0}
CriticalRanges == {x \in Watched : Critical(ranges[x].count, ranges[x].size, RangeFree(x))}
WarningRanges ==
  {x \in Watched : Warning(ranges[x].count, ranges[x].size, RangeFree(x))} \ CriticalRanges
\* The counts are held against what is in use in a network, not what is free.
CriticalNets == {n \in 1..NumNets : Critical(Used(n), Available(n), Used(n))}
WarningNets == {n \in 1..NumNets : Warning(Used(n), Available(n), Used(n))} \ CriticalNets

(* Every range that is not suppressed is judged, once, by its percentage and
   by the addresses free in it: the pointer has passed exactly the ranges that
   were to be judged when the loop counter has come to the end. *)
RangeAlarmsExact ==
  pc \notin {"ranges"} /\ "R" \in config.number_limit =>
    /\ r["crit"] = Cardinality(CriticalRanges)
    /\ r["warn"] = Cardinality(WarningRanges)

(* Every shared network is judged, once, and "All networks" never, by its own
   percentage and by its own leases.  What a count is compared with is what
   output.c compares it with, the leases in use; the manual page says it is
   the free ones, see NetAlarmsByFreeLeases. *)
NetAlarmsExact ==
  pc \notin {"ranges", "nets"} /\ "S" \in config.number_limit =>
    /\ s["crit"] = Cardinality(CriticalNets)
    /\ s["warn"] = Cardinality(WarningNets)

(* The manual page on --warn-count and --crit-count: a shared network raises
   an alarm when its percentage is exceeded and fewer than the given number of
   its leases are free. *)
NetAlarmsByFreeLeases ==
  pc \notin {"ranges", "nets"} /\ "S" \in config.number_limit =>
    LET critical == {n \in 1..NumNets : Critical(Used(n), Available(n), NetFree(n))}
        warning == {n \in 1..NumNets : Warning(Used(n), Available(n), NetFree(n))}
    IN  /\ s["crit"] = Cardinality(critical)
        /\ s["warn"] = Cardinality(warning \ critical)

(* The exit status is that of the worst of the ranges and networks whose
   numbers are asked for, whichever of the two loops met it.  The second digit
   of -L decides: with a second digit of 0 nothing is judged and the status is
   0, also for the -L10 and -L20 the manual page suggests. *)
StatusIsWorst ==
  ret_val # Unset =>
    LET Worst(R, S) == ("R" \in config.number_limit /\ R # {}) \/ ("S" \in config.number_limit /\ S # {})
        status == IF Worst(CriticalRanges, CriticalNets) THEN 2
                  ELSE IF Worst(WarningRanges, WarningNets) THEN 1 ELSE 0
    IN ret_val = status

(* The headline of the report, which people read, agrees with the exit status,
   which the monitoring system reads; and the report is empty only when all is
   right and the totals are not wanted. *)
HeadlineAgrees ==
  ret_val # Unset =>
    CASE ret_val = STATE_CRITICAL -> headline = "CRITICAL"
      [] ret_val = STATE_WARNING -> headline = "WARNING"
      [] OTHER -> headline = IF "A" \in config.number_limit THEN "OK" ELSE "none"

(* With --perfdata the data printed is that of ranges and networks, and every
   one that is not ignored has its data printed, once: of the ranges, when
   their header and their numbers are asked for; of the networks, when both
   headers and the networks' numbers are.  (With the networks' header alone
   none of their data is printed: the bits tested are those of the ranges.) *)
PerfdataPrinted ==
  /\ Range(perf_r) \subseteq DOMAIN ranges
  /\ Range(perf_s) \subseteq 1..NumNets
  /\ pc = "done" /\ headline # "none" /\ config.perfdata =>
       /\ "R" \in config.header_limit \cap config.number_limit =>
            /\ Range(perf_r) = {x \in DOMAIN ranges : ShownRange(x)}
            /\ Len(perf_r) = Cardinality(Range(perf_r))
       /\ {"R", "S"} \subseteq config.header_limit /\ "S" \in config.number_limit =>
            /\ Range(perf_s) = {n \in 1..NumNets : ShownNet(n)}
            /\ Len(perf_s) = Cardinality(Range(perf_s))
=============================================================================
