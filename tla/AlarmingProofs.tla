---------------------------- MODULE AlarmingProofs ----------------------------
(***************************************************************************)
(* Proofs about output_alarming, for all options and every number of       *)
(* ranges and networks: the headline agrees with the exit status, which is *)
(* that of the worst range or network, the ranges and the networks are     *)
(* judged exactly, and the performance data is complete.  Two conditions   *)
(* on the inputs keep out where the code does something else: SharedLast   *)
(* and PerfInScope.                                                        *)
(***************************************************************************)
EXTENDS Alarming, FiniteSetTheorems, SequenceTheorems, TLAPS

USE AlarmingAssumption

\* Counting a judgement changes one of the counters.
LEMMA Increment ==
  ASSUME NEW f \in [Levels -> Nat], NEW a \in Levels
  PROVE  LET g == [f EXCEPT ![a] = @ + 1] IN
           /\ g \in [Levels -> Nat]
           /\ \A x \in Levels : g[x] = IF x = a THEN f[x] + 1 ELSE f[x]
OBVIOUS

LEMMA JudgedType == \A used, size, left : Judged(used, size, left) \in Levels
BY DEF Judged, Levels

-----------------------------------------------------------------------------
(* The headline and the exit status *)

\* A limit that leaves ranges or networks out leaves their counters alone,
\* which is why two conditions that look at different things agree.
HeadlineInv ==
  /\ r \in [Levels -> Nat] /\ s \in [Levels -> Nat]
  /\ "R" \notin config.number_limit => r = None
  /\ "S" \notin config.number_limit => s = None
  /\ pc \in {"ranges", "nets"} => ret_val = Unset
  /\ HeadlineAgrees

LEMMA HeadlineInit == Init => HeadlineInv
BY DEF Init, HeadlineInv, HeadlineAgrees, None

LEMMA HeadlineReport == ASSUME HeadlineInv, Report PROVE HeadlineAgrees'
<1>1. ret_val' = Status /\ headline' = Headline /\ config' = config
  BY DEF Report, input
<1>2. "R" \notin config.number_limit => r["crit"] = 0 /\ r["warn"] = 0
  BY DEF HeadlineInv, None, Levels
<1>3. "S" \notin config.number_limit => s["crit"] = 0 /\ s["warn"] = 0
  BY DEF HeadlineInv, None, Levels
<1>4. \A l \in {"crit", "warn"} : Any(l) <=> r[l] > 0 \/ s[l] > 0
  BY <1>2, <1>3 DEF Any
<1>. QED
  BY <1>1, <1>4 DEF HeadlineAgrees, Status, Headline, STATE_OK, STATE_WARNING, STATE_CRITICAL

LEMMA HeadlineNext == HeadlineInv /\ [Next]_vars => HeadlineInv'
<1>. SUFFICES ASSUME HeadlineInv, [Next]_vars PROVE HeadlineInv'
  OBVIOUS
<1>1. CASE JudgeRange
  <2>1. r' \in [Levels -> Nat]
    BY <1>1, Increment, JudgedType DEF JudgeRange, JudgedRange, HeadlineInv
  <2>. QED
    BY <1>1, <2>1 DEF JudgeRange, InRanges, input, HeadlineInv, HeadlineAgrees
<1>2. CASE JudgeNet
  <2>1. s' \in [Levels -> Nat]
    BY <1>2, Increment, JudgedType DEF JudgeNet, JudgedNet, HeadlineInv
  <2>. QED
    BY <1>2, <2>1 DEF JudgeNet, input, HeadlineInv, HeadlineAgrees
<1>3. CASE Report
  <2>1. pc' \notin {"ranges", "nets"}
    BY <1>3 DEF Report
  <2>. QED
    BY <1>3, <2>1, HeadlineReport DEF Report, input, HeadlineInv
<1>4. CASE SuppressRange \/ RangesJudged
  BY <1>4 DEF SuppressRange, RangesJudged, InRanges, input, HeadlineInv, HeadlineAgrees
<1>5. CASE PrintRange \/ RangesPrinted \/ PrintNet \/ Return
  BY <1>5 DEF PrintRange, RangesPrinted, PrintNet, Return, input, HeadlineInv, HeadlineAgrees
<1>6. CASE UNCHANGED vars
  BY <1>6 DEF vars, HeadlineInv, HeadlineAgrees
<1>. QED  BY <1>1, <1>2, <1>3, <1>4, <1>5, <1>6 DEF Next, Step, Terminated

(* What people read in the headline is what the exit status says, and the
   report is empty only when all is right, for all limits and options. *)
THEOREM HeadlineRight == Spec => []HeadlineAgrees
<1>1. HeadlineInv => HeadlineAgrees
  BY DEF HeadlineInv
<1>. QED  BY <1>1, HeadlineInit, HeadlineNext, PTL DEF Spec

-----------------------------------------------------------------------------
(* The ranges *)

\* With --snet-alarms no range outside the shared networks comes after one
\* that is in one of them.
SharedLast(cfg, rs) ==
  cfg.snet_alarms =>
    \A x, y \in DOMAIN rs : x < y /\ rs[x].net # 0 => rs[y].net # 0

\* The ranges before position n that have been judged to be of a level.
JudgedBefore(level, n) == {x \in Watched : x < n /\ JudgedRange(x) = level}

\* The pointer is one past the loop counter, or it stays at the first range
\* that is left out, and so does every range after it.
WalkInv ==
  pc = "ranges" =>
    /\ i \in 0..num_ranges /\ range_p \in 1..(i + 1)
    /\ range_p # i + 1 => Suppressed(range_p)
    /\ \A level \in Levels : r[level] = Cardinality(JudgedBefore(level, range_p))

JudgedAll ==
  pc # "ranges" /\ "R" \in config.number_limit =>
    \A level \in Levels : r[level] = Cardinality(JudgedBefore(level, num_ranges + 1))

RangesInv ==
  /\ config \in Option /\ ranges \in Seq(Pool) /\ SharedLast(config, ranges)
  /\ r \in [Levels -> Nat]
  /\ WalkInv /\ JudgedAll

LEMMA Lengths == ASSUME RangesInv PROVE num_ranges \in Nat /\ DOMAIN ranges = 1..num_ranges
BY DEF RangesInv, num_ranges

LEMMA FiniteJudged ==
  ASSUME RangesInv, NEW level, NEW n PROVE IsFiniteSet(JudgedBefore(level, n))
<1>1. IsFiniteSet(DOMAIN ranges)
  BY Lengths, FS_Interval
<1>. QED  BY <1>1, FS_Subset DEF JudgedBefore, Watched

LEMMA RangesInit == (\A in \in Inputs : SharedLast(in.config, in.ranges)) /\ Init => RangesInv
<1>. SUFFICES ASSUME \A in \in Inputs : SharedLast(in.config, in.ranges), Init PROVE RangesInv
  OBVIOUS
<1>1. config \in Option /\ ranges \in Seq(Pool) /\ SharedLast(config, ranges)
  BY DEF Init
<1>2. r \in [Levels -> Nat] /\ \A level \in Levels : r[level] = 0
  BY DEF Init, None
<1>3. \A level : JudgedBefore(level, 1) = {}
  BY <1>1 DEF JudgedBefore, Watched
<1>4. Cardinality({}) = 0
  BY FS_EmptySet
<1>5. num_ranges \in Nat
  BY <1>1 DEF num_ranges
<1>6. pc = "ranges" /\ i = 0 /\ range_p = 1
  BY DEF Init
<1>7. \A level \in Levels : r[level] = Cardinality(JudgedBefore(level, range_p))
  BY <1>2, <1>3, <1>4, <1>6
<1>8. WalkInv /\ JudgedAll
  BY <1>5, <1>6, <1>7 DEF WalkInv, JudgedAll
<1>. QED  BY <1>1, <1>2, <1>8 DEF RangesInv

\* One more range is judged.
LEMMA RangesJudge == ASSUME RangesInv, JudgeRange PROVE RangesInv'
<1>. DEFINE j == JudgedRange(range_p)
<1>1. /\ pc = "ranges" /\ pc' = "ranges" /\ i < num_ranges /\ ~Suppressed(range_p)
      /\ config' = config /\ ranges' = ranges /\ range_p' = range_p + 1 /\ i' = i + 1
      /\ r' = [r EXCEPT ![j] = @ + 1]
  BY DEF JudgeRange, InRanges, input
<1>2. range_p = i + 1 /\ i \in Nat /\ range_p \in DOMAIN ranges
  BY <1>1, Lengths DEF RangesInv, WalkInv
<1>3. range_p \in Watched
  BY <1>1, <1>2 DEF Watched, Suppressed
<1>4. j \in Levels
  BY JudgedType DEF JudgedRange
<1>. HIDE DEF j
<1>5. r' \in [Levels -> Nat] /\ \A l \in Levels : r'[l] = IF l = j THEN r[l] + 1 ELSE r[l]
  BY <1>1, <1>4, Increment DEF RangesInv
<1>6. ASSUME NEW level \in Levels
      PROVE  r'[level] = Cardinality(JudgedBefore(level, range_p + 1))
  <2>1. r[level] = Cardinality(JudgedBefore(level, range_p))
    BY <1>1, <1>6 DEF RangesInv, WalkInv
  <2>2. \A x \in Watched : x < range_p + 1 <=> (x < range_p \/ x = range_p)
    BY <1>2, Lengths DEF Watched
  <2>3. CASE level = j
    <3>1. JudgedBefore(level, range_p + 1) = JudgedBefore(level, range_p) \cup {range_p}
      BY <1>3, <2>2, <2>3 DEF JudgedBefore, j
    <3>2. range_p \notin JudgedBefore(level, range_p)
      BY <1>2 DEF JudgedBefore
    <3>3. Cardinality(JudgedBefore(level, range_p + 1)) = Cardinality(JudgedBefore(level, range_p)) + 1
      BY <3>1, <3>2, FiniteJudged, FS_AddElement
    <3>. QED  BY <1>5, <2>1, <2>3, <3>3
  <2>4. CASE level # j
    <3>1. JudgedBefore(level, range_p + 1) = JudgedBefore(level, range_p)
      BY <2>2, <2>4 DEF JudgedBefore, j
    <3>. QED  BY <1>5, <2>1, <2>4, <3>1
  <2>. QED  BY <2>3, <2>4
<1>7. \A level : JudgedBefore(level, range_p + 1)' = JudgedBefore(level, range_p' + 1)
  BY <1>1 DEF JudgedBefore, Watched, JudgedRange, Judged, Above
<1>8. \A level : JudgedBefore(level, range_p)' = JudgedBefore(level, range_p + 1)
  BY <1>1 DEF JudgedBefore, Watched, JudgedRange, Judged, Above
<1>9. WalkInv'
  <2>1. i' \in 0..num_ranges' /\ range_p' \in 1..(i' + 1) /\ range_p' = i' + 1
    BY <1>1, <1>2, Lengths DEF num_ranges
  <2>. QED  BY <1>6, <1>8, <2>1 DEF WalkInv
<1>10. JudgedAll'
  BY <1>1 DEF JudgedAll
<1>. QED  BY <1>1, <1>5, <1>9, <1>10 DEF RangesInv

\* A range is left out, and the pointer stays at it.
LEMMA RangesSuppress == ASSUME RangesInv, SuppressRange PROVE RangesInv'
<1>1. /\ pc = "ranges" /\ pc' = "ranges" /\ i < num_ranges /\ Suppressed(range_p)
      /\ config' = config /\ ranges' = ranges /\ range_p' = range_p /\ i' = i + 1 /\ r' = r
  BY DEF SuppressRange, InRanges, input
<1>2. i \in 0..num_ranges /\ range_p \in 1..(i + 1)
  BY <1>1 DEF RangesInv, WalkInv
<1>3. i' \in 0..num_ranges' /\ range_p' \in 1..(i' + 1) /\ Suppressed(range_p)'
  BY <1>1, <1>2, Lengths DEF num_ranges, Suppressed
<1>4. \A level : JudgedBefore(level, range_p)' = JudgedBefore(level, range_p)
  BY <1>1 DEF JudgedBefore, Watched, JudgedRange, Judged, Above
<1>5. WalkInv' /\ JudgedAll'
  BY <1>1, <1>3, <1>4 DEF RangesInv, WalkInv, JudgedAll
<1>. QED  BY <1>1, <1>5 DEF RangesInv

\* At the end of the loop no range that is to be judged is left.
LEMMA RangesEnd == ASSUME RangesInv, RangesJudged PROVE RangesInv'
<1>1. /\ pc = "ranges" /\ pc' = "nets" /\ ("R" \notin config.number_limit \/ i = num_ranges)
      /\ config' = config /\ ranges' = ranges /\ range_p' = range_p /\ r' = r
  BY DEF RangesJudged, input
<1>2. \A level : JudgedBefore(level, num_ranges + 1)' = JudgedBefore(level, num_ranges + 1)
  BY <1>1 DEF JudgedBefore, Watched, JudgedRange, Judged, Above, num_ranges
<1>3. ASSUME i = num_ranges, NEW level \in Levels
      PROVE  JudgedBefore(level, range_p) = JudgedBefore(level, num_ranges + 1)
  <2>1. CASE range_p = num_ranges + 1
    BY <2>1
  <2>2. CASE range_p # num_ranges + 1
    <3>1. Suppressed(range_p) /\ range_p \in 1..num_ranges
      BY <1>1, <1>3, <2>2, Lengths DEF RangesInv, WalkInv
    <3>2. \A x \in DOMAIN ranges : ~(x < range_p) => x \notin Watched
      BY <3>1, Lengths DEF Suppressed, Watched, RangesInv, SharedLast
    <3>3. \A x \in Watched : x < range_p /\ x < num_ranges + 1
      BY <3>1, <3>2, Lengths DEF Watched
    <3>. QED  BY <3>3 DEF JudgedBefore
  <2>. QED  BY <2>1, <2>2
<1>4. JudgedAll'
  BY <1>1, <1>2, <1>3 DEF RangesInv, WalkInv, JudgedAll
<1>5. WalkInv'
  BY <1>1 DEF WalkInv
<1>. QED  BY <1>1, <1>4, <1>5 DEF RangesInv

\* After the loop its counters are left alone.
LEMMA RangesRest ==
  ASSUME RangesInv,
         (pc # "ranges" /\ pc' # "ranges" /\ UNCHANGED <<config, ranges, r>>) \/ UNCHANGED vars
  PROVE  RangesInv'
<1>1. \A level : JudgedBefore(level, num_ranges + 1)' = JudgedBefore(level, num_ranges + 1)
  BY DEF vars, JudgedBefore, Watched, JudgedRange, Judged, Above, num_ranges
<1>2. \A level : UNCHANGED vars => JudgedBefore(level, range_p)' = JudgedBefore(level, range_p)
  BY DEF vars, JudgedBefore, Watched, JudgedRange, Judged, Above
<1>3. UNCHANGED <<config, ranges, r>> /\ (pc # "ranges" => pc' # "ranges")
  BY DEF vars
<1>4. JudgedAll'
  BY <1>1, <1>3 DEF RangesInv, JudgedAll, vars
<1>5. WalkInv'
  BY <1>2, <1>3 DEF RangesInv, WalkInv, vars, num_ranges, Suppressed
<1>. QED  BY <1>3, <1>4, <1>5 DEF RangesInv

LEMMA RangesNext == RangesInv /\ [Next]_vars => RangesInv'
<1>. SUFFICES ASSUME RangesInv, [Next]_vars PROVE RangesInv'
  OBVIOUS
<1>1. CASE JudgeNet \/ Report \/ PrintRange \/ RangesPrinted \/ PrintNet \/ Return
  <2>1. pc # "ranges" /\ pc' # "ranges" /\ UNCHANGED <<config, ranges, r>>
    BY <1>1 DEF JudgeNet, Report, PrintRange, RangesPrinted, PrintNet, Return, input
  <2>. QED  BY <2>1, RangesRest
<1>2. CASE UNCHANGED vars
  BY <1>2, RangesRest
<1>. QED
  BY <1>1, <1>2, RangesJudge, RangesSuppress, RangesEnd DEF Next, Step, Terminated

\* The judgement is what the manual page says.
LEMMA JudgedRight ==
  ASSUME RangesInv
  PROVE  /\ JudgedBefore("crit", num_ranges + 1) = CriticalRanges
         /\ JudgedBefore("warn", num_ranges + 1) = WarningRanges
<1>1. ASSUME NEW x \in Watched
      PROVE  /\ x < num_ranges + 1
             /\ JudgedRange(x) = "crit" <=> Critical(ranges[x].count, ranges[x].size, RangeFree(x))
             /\ JudgedRange(x) = "warn" <=>
                  /\ Warning(ranges[x].count, ranges[x].size, RangeFree(x))
                  /\ ~Critical(ranges[x].count, ranges[x].size, RangeFree(x))
  <2>1. x \in 1..num_ranges /\ num_ranges \in Nat /\ ranges[x] \in Pool
    BY Lengths DEF Watched, RangesInv
  <2>2. ranges[x].count \in Nat /\ ranges[x].size \in Nat
    BY <2>1 DEF Pool
  <2>3. /\ config.critical \in Nat /\ config.warning \in Nat /\ config.minsize \in Nat
        /\ config.crit_count \in Nat /\ config.warn_count \in Nat
    BY DEF RangesInv, Option
  <2>4. ASSUME NEW p \in Nat, config.minsize < ranges[x].size
        PROVE  Above(p, ranges[x].count, ranges[x].size)
                 <=> 100 * ranges[x].count > p * ranges[x].size
    BY <2>2, <2>3, <2>4 DEF Above
  <2>5. ranges[x].size <= config.minsize <=> ~(config.minsize < ranges[x].size)
    BY <2>2, <2>3
  <2>. QED
    BY <2>1, <2>3, <2>4, <2>5 DEF JudgedRange, Judged, Critical, Warning, Exceeds, RangeFree
<1>2. JudgedBefore("crit", num_ranges + 1) = CriticalRanges
  BY <1>1 DEF JudgedBefore, CriticalRanges
<1>3. JudgedBefore("warn", num_ranges + 1) = WarningRanges
  BY <1>1 DEF JudgedBefore, CriticalRanges, WarningRanges
<1>. QED  BY <1>2, <1>3

(* The numbers of ranges in a critical state and in a warning state are those
   the manual page describes, for every array of ranges and all options, as
   long as the ranges of shared networks come last when --snet-alarms leaves
   them out. *)
THEOREM RangesJudgedExactly ==
  ASSUME \A in \in Inputs : SharedLast(in.config, in.ranges)
  PROVE  Spec => []RangeAlarmsExact
<1>1. RangesInv => RangeAlarmsExact
  BY JudgedRight DEF RangesInv, JudgedAll, RangeAlarmsExact, Levels
<1>2. Init => RangesInv
  BY RangesInit
<1>. QED  BY <1>1, <1>2, RangesNext, PTL DEF Spec

-----------------------------------------------------------------------------
(* The shared networks *)

\* The networks up to n that have been judged to be of a level.
NetsUpTo(level, n) == {m \in 1..NumNets : m <= n /\ JudgedNet(m) = level}
NetsCounted(n) == \A level \in Levels : s[level] = Cardinality(NetsUpTo(level, n))

\* The pointer is at the network of the loop counter, and has judged it.
NetsInv ==
  /\ config \in Option /\ shared_networks \in [0..NumNets -> Network]
  /\ s \in [Levels -> Nat]
  /\ pc = "ranges" => shared_p = 0 /\ NetsCounted(0)
  /\ pc = "nets" => i \in 0..NumNets /\ shared_p = i /\ NetsCounted(i)
  /\ pc \notin {"ranges", "nets"} /\ "S" \in config.number_limit => NetsCounted(NumNets)

LEMMA NetsInit == Init => NetsInv
<1>. SUFFICES ASSUME Init PROVE NetsInv
  OBVIOUS
<1>1. config \in Option /\ shared_networks \in [0..NumNets -> Network]
  BY DEF Init
<1>2. s \in [Levels -> Nat] /\ \A level \in Levels : s[level] = 0
  BY DEF Init, None
<1>3. \A level : NetsUpTo(level, 0) = {}
  BY DEF NetsUpTo
<1>4. NetsCounted(0)
  BY <1>2, <1>3, FS_EmptySet DEF NetsCounted
<1>. QED  BY <1>1, <1>2, <1>4 DEF Init, NetsInv

\* One more network is judged.
LEMMA NetsJudge == ASSUME NetsInv, JudgeNet PROVE NetsInv'
<1>. DEFINE n == shared_p + 1
            j == JudgedNet(n)
<1>1. /\ pc = "nets" /\ pc' = "nets" /\ i < NumNets /\ i' = i + 1 /\ shared_p' = n
      /\ UNCHANGED input /\ s' = [s EXCEPT ![j] = @ + 1]
  BY DEF JudgeNet, num_shared_networks
<1>2. shared_p = i /\ i \in Nat /\ n \in 1..NumNets /\ NetsCounted(i)
  BY <1>1 DEF NetsInv
<1>3. j \in Levels
  BY JudgedType DEF JudgedNet
<1>. HIDE DEF j
<1>4. s' \in [Levels -> Nat] /\ \A l \in Levels : s'[l] = IF l = j THEN s[l] + 1 ELSE s[l]
  BY <1>1, <1>3, Increment DEF NetsInv
<1>5. \A level, m : NetsUpTo(level, m)' = NetsUpTo(level, m')
  BY <1>1 DEF input, NetsUpTo, JudgedNet, Judged, Above, Used, Available
<1>6. ASSUME NEW level \in Levels PROVE s'[level] = Cardinality(NetsUpTo(level, n))
  <2>1. s[level] = Cardinality(NetsUpTo(level, i))
    BY <1>2 DEF NetsCounted
  <2>2. \A m \in 1..NumNets : m <= n <=> (m <= i \/ m = n)
    BY <1>2
  <2>3. CASE level = j
    <3>1. NetsUpTo(level, n) = NetsUpTo(level, i) \cup {n}
      BY <1>2, <2>2, <2>3 DEF NetsUpTo, j
    <3>2. n \notin NetsUpTo(level, i)
      BY <1>2 DEF NetsUpTo
    <3>3. IsFiniteSet(NetsUpTo(level, i))
      <4>1. IsFiniteSet(1..NumNets) /\ NetsUpTo(level, i) \subseteq 1..NumNets
        BY FS_Interval DEF NetsUpTo
      <4>. QED  BY <4>1, FS_Subset
    <3>4. Cardinality(NetsUpTo(level, n)) = Cardinality(NetsUpTo(level, i)) + 1
      BY <3>1, <3>2, <3>3, FS_AddElement
    <3>. QED  BY <1>4, <2>1, <2>3, <3>4
  <2>4. CASE level # j
    <3>1. NetsUpTo(level, n) = NetsUpTo(level, i)
      BY <1>2, <2>2, <2>4 DEF NetsUpTo, j
    <3>. QED  BY <1>4, <2>1, <2>4, <3>1
  <2>. QED  BY <2>3, <2>4
<1>7. NetsCounted(i)'
  <2>1. \A level : NetsUpTo(level, i)' = NetsUpTo(level, n)
    BY <1>1, <1>2 DEF input, NetsUpTo, JudgedNet, Judged, Above, Used, Available
  <2>. QED  BY <1>6, <2>1 DEF NetsCounted
<1>8. /\ config' = config /\ shared_networks' = shared_networks
      /\ i' \in 0..NumNets /\ shared_p' = i'
  BY <1>1, <1>2 DEF input
<1>. QED  BY <1>1, <1>4, <1>7, <1>8 DEF NetsInv

\* The other steps leave what has been counted, and the last one of the loop
\* leaves nothing out.
LEMMA NetsRest ==
  ASSUME NetsInv, UNCHANGED <<input, s>>,
         \/ pc = "ranges" /\ pc' = "ranges" /\ UNCHANGED shared_p
         \/ pc = "ranges" /\ pc' = "nets" /\ UNCHANGED shared_p /\ i' = 0
         \/ /\ pc = "nets" /\ pc' \notin {"ranges", "nets"}
            /\ "S" \in config.number_limit => i = NumNets
         \/ pc \notin {"ranges", "nets"} /\ pc' \notin {"ranges", "nets"}
         \/ UNCHANGED vars
  PROVE  NetsInv'
<1>1. config' = config /\ shared_networks' = shared_networks /\ s' = s
  BY DEF input, NetsInv
<1>2. \A n \in {0, NumNets} : NetsCounted(n)' = NetsCounted(n)
  BY <1>1 DEF NetsCounted, NetsUpTo, JudgedNet, Judged, Above, Used, Available
<1>3. i' = i => NetsCounted(i)' = NetsCounted(i)
  BY <1>1 DEF NetsCounted, NetsUpTo, JudgedNet, Judged, Above, Used, Available
<1>4. i' = 0 => NetsCounted(i)' = NetsCounted(0)
  BY <1>1 DEF NetsCounted, NetsUpTo, JudgedNet, Judged, Above, Used, Available
<1>. QED  BY <1>1, <1>2, <1>3, <1>4 DEF NetsInv, vars

LEMMA NetsNext == NetsInv /\ [Next]_vars => NetsInv'
<1>. SUFFICES ASSUME NetsInv, [Next]_vars PROVE NetsInv'
  OBVIOUS
<1>1. CASE SuppressRange \/ JudgeRange
  BY <1>1, NetsRest DEF SuppressRange, JudgeRange, InRanges
<1>2. CASE RangesJudged
  BY <1>2, NetsRest DEF RangesJudged
<1>3. CASE Report
  BY <1>3, NetsRest DEF Report, num_shared_networks
<1>4. CASE PrintRange \/ RangesPrinted \/ PrintNet \/ Return
  BY <1>4, NetsRest DEF PrintRange, RangesPrinted, PrintNet, Return
<1>5. CASE UNCHANGED vars
  BY <1>5, NetsRest DEF vars, input
<1>. QED  BY <1>1, <1>2, <1>3, <1>4, <1>5, NetsJudge DEF Next, Step, Terminated

\* The judgement is that of the network's own figures.
LEMMA NetJudgedRight ==
  ASSUME NetsInv
  PROVE  /\ NetsUpTo("crit", NumNets) = CriticalNets
         /\ NetsUpTo("warn", NumNets) = WarningNets
<1>1. ASSUME NEW n \in 1..NumNets
      PROVE  /\ JudgedNet(n) = "crit" <=> Critical(Used(n), Available(n), Used(n))
             /\ JudgedNet(n) = "warn" <=> /\ Warning(Used(n), Available(n), Used(n))
                                          /\ ~Critical(Used(n), Available(n), Used(n))
  <2>1. Used(n) \in Nat /\ Available(n) \in Nat
    BY DEF NetsInv, Network, Used, Available
  <2>2. /\ config.critical \in Nat /\ config.warning \in Nat /\ config.minsize \in Nat
    BY DEF NetsInv, Option
  <2>3. ASSUME NEW p \in Nat, config.minsize < Available(n)
        PROVE  Above(p, Used(n), Available(n)) <=> 100 * Used(n) > p * Available(n)
    BY <2>1, <2>2, <2>3 DEF Above
  <2>4. Available(n) <= config.minsize <=> ~(config.minsize < Available(n))
    BY <2>1, <2>2
  <2>. QED
    BY <2>2, <2>3, <2>4 DEF JudgedNet, Judged, Critical, Warning, Exceeds
<1>2. \A n \in 1..NumNets : n <= NumNets
  OBVIOUS
<1>3. NetsUpTo("crit", NumNets) = CriticalNets
  BY <1>1, <1>2 DEF NetsUpTo, CriticalNets
<1>4. NetsUpTo("warn", NumNets) = WarningNets
  BY <1>1, <1>2 DEF NetsUpTo, CriticalNets, WarningNets
<1>. QED  BY <1>3, <1>4

LEMMA NetsExact == NetsInv => NetAlarmsExact
BY NetJudgedRight DEF NetsInv, NetsCounted, NetAlarmsExact, Levels

(* Every shared network is judged, once, by its percentage and by a count of
   its leases in use: the numbers of networks in a critical state and in a
   warning state are the numbers of such networks, for all networks and all
   options, the counts included. *)
THEOREM NetworksJudgedExactly == Spec => []NetAlarmsExact
BY NetsInit, NetsNext, NetsExact, PTL DEF Spec

-----------------------------------------------------------------------------
(* The exit status *)

\* The exit status is decided after both loops.
JudgedInv == ret_val # Unset => pc \notin {"ranges", "nets"} /\ ret_val = Status

LEMMA JudgedNext == JudgedInv /\ [Next]_vars => JudgedInv'
<1>. SUFFICES ASSUME JudgedInv, [Next]_vars PROVE JudgedInv'
  OBVIOUS
<1>1. CASE SuppressRange \/ JudgeRange \/ RangesJudged \/ JudgeNet
  BY <1>1 DEF SuppressRange, JudgeRange, RangesJudged, JudgeNet, InRanges, JudgedInv
<1>2. CASE Report
  BY <1>2 DEF Report, JudgedInv, Status
<1>3. CASE PrintRange \/ RangesPrinted \/ PrintNet \/ Return
  BY <1>3 DEF PrintRange, RangesPrinted, PrintNet, Return, JudgedInv, Status
<1>4. CASE UNCHANGED vars
  BY <1>4 DEF vars, JudgedInv, Status
<1>. QED  BY <1>1, <1>2, <1>3, <1>4 DEF Next, Step, Terminated

LEMMA NoneOf == ASSUME NEW S, IsFiniteSet(S) PROVE Cardinality(S) > 0 <=> S # {}
BY FS_EmptySet, FS_CardinalityType

LEMMA StatusRight ==
  ASSUME HeadlineInv, RangesInv, NetsInv, JudgedInv PROVE StatusIsWorst
<1>. SUFFICES ASSUME ret_val # Unset PROVE StatusIsWorst
  BY DEF StatusIsWorst
<1>1. pc \notin {"ranges", "nets"} /\ ret_val = Status
  BY DEF JudgedInv
<1>2. RangeAlarmsExact /\ NetAlarmsExact
  BY JudgedRight, NetsExact DEF RangesInv, JudgedAll, RangeAlarmsExact, Levels
<1>3. /\ IsFiniteSet(CriticalRanges) /\ IsFiniteSet(WarningRanges)
      /\ IsFiniteSet(CriticalNets) /\ IsFiniteSet(WarningNets)
  <2>1. IsFiniteSet(DOMAIN ranges) /\ IsFiniteSet(1..NumNets)
    BY Lengths, FS_Interval
  <2>2. CriticalRanges \subseteq DOMAIN ranges /\ WarningRanges \subseteq DOMAIN ranges
    BY DEF CriticalRanges, WarningRanges, Watched
  <2>3. CriticalNets \subseteq 1..NumNets /\ WarningNets \subseteq 1..NumNets
    BY DEF CriticalNets, WarningNets
  <2>. QED  BY <2>1, <2>2, <2>3, FS_Subset
<1>4. /\ r["crit"] > 0 <=> "R" \in config.number_limit /\ CriticalRanges # {}
      /\ r["warn"] > 0 <=> "R" \in config.number_limit /\ WarningRanges # {}
  <2>1. "R" \notin config.number_limit => r["crit"] = 0 /\ r["warn"] = 0
    BY DEF HeadlineInv, None, Levels
  <2>. QED  BY <1>1, <1>2, <1>3, <2>1, NoneOf DEF RangeAlarmsExact
<1>5. /\ s["crit"] > 0 <=> "S" \in config.number_limit /\ CriticalNets # {}
      /\ s["warn"] > 0 <=> "S" \in config.number_limit /\ WarningNets # {}
  <2>1. "S" \notin config.number_limit => s["crit"] = 0 /\ s["warn"] = 0
    BY DEF HeadlineInv, None, Levels
  <2>. QED  BY <1>1, <1>2, <1>3, <2>1, NoneOf DEF NetAlarmsExact
<1>. QED
  BY <1>1, <1>4, <1>5 DEF StatusIsWorst, Status, STATE_OK, STATE_WARNING, STATE_CRITICAL

(* The exit status is that of the worst of the ranges and networks whose
   numbers are asked for, for all options and counts, as long as the ranges of
   shared networks come last when --snet-alarms leaves them out. *)
THEOREM WorstIsReported ==
  ASSUME \A in \in Inputs : SharedLast(in.config, in.ranges)
  PROVE  Spec => []StatusIsWorst
<1>1. Init => RangesInv /\ NetsInv
  BY RangesInit, NetsInit
<1>2. Init => JudgedInv
  BY DEF Init, JudgedInv
<1>. QED
  BY <1>1, <1>2, HeadlineInit, HeadlineNext, RangesNext, NetsNext, JudgedNext, StatusRight, PTL
     DEF Spec

-----------------------------------------------------------------------------
(* The pointers and the performance data *)

\* The pointers come back over what they have passed: no range was left out
\* on the way where the ranges' data is printed, and the networks were judged
\* where theirs is.
PerfInScope(cfg) ==
  cfg.perfdata =>
    /\ "R" \in cfg.header_limit \cap cfg.number_limit => ~cfg.snet_alarms
    /\ {"R", "S"} \subseteq cfg.header_limit => "S" \in cfg.number_limit

\* The pointers, on their way up and on their way down.
PointerInv ==
  /\ i \in Nat
  /\ range_p \in 1..(num_ranges + 1) /\ shared_p \in 0..NumNets
  /\ pc = "ranges" =>
       /\ i \in 0..num_ranges /\ range_p \in 1..(i + 1) /\ shared_p = 0
       /\ ~config.snet_alarms => range_p = i + 1
  /\ pc = "nets" => shared_p = i /\ (PerfRanges => range_p = num_ranges + 1)
  /\ pc = "perf_r" => /\ PerfRanges => i \in 0..num_ranges /\ range_p = num_ranges + 1 - i
                      /\ PerfNets => shared_p = NumNets
  /\ pc = "perf_s" /\ PerfNets => i \in 0..NumNets /\ shared_p = NumNets - i

\* The data printed so far is that of the entries from n on.
Printed(perf, shown, n) ==
  /\ perf \in Seq(Int)
  /\ Range(perf) = {x \in shown : x >= n}
  /\ Len(perf) = Cardinality(Range(perf))
RangesShown == {x \in DOMAIN ranges : ShownRange(x)}
NetsShown == {n \in 1..NumNets : ShownNet(n)}

PrintedInv ==
  /\ pc \in {"ranges", "nets"} => perf_r = << >>
  /\ pc \in {"ranges", "nets", "perf_r"} => perf_s = << >>
  /\ pc = "perf_r" => IF PerfRanges THEN Printed(perf_r, RangesShown, range_p) ELSE perf_r = << >>
  /\ pc \in {"perf_s", "done"} /\ headline # "none" =>
       IF PerfRanges THEN Printed(perf_r, RangesShown, 1) ELSE perf_r = << >>
  /\ pc = "perf_s" =>
       headline # "none" /\ IF PerfNets THEN Printed(perf_s, NetsShown, shared_p + 1) ELSE perf_s = << >>
  /\ pc = "done" =>
       IF headline = "none" THEN perf_r = << >> /\ perf_s = << >>
       ELSE IF PerfNets THEN Printed(perf_s, NetsShown, 1) ELSE perf_s = << >>
  /\ pc = "perf_r" => headline # "none"

PerfInv ==
  /\ config \in Option /\ ranges \in Seq(Pool) /\ shared_networks \in [0..NumNets -> Network]
  /\ PerfInScope(config)
  /\ PointerInv /\ PrintedInv

LEMMA NothingPrinted == ASSUME NEW S, NEW n, \A x \in S : ~(x >= n) PROVE Printed(<< >>, S, n)
<1>1. Range(<< >>) = {} /\ {x \in S : x >= n} = {}
  BY DEF Range
<1>. QED  BY <1>1, FS_EmptySet DEF Printed

\* One entry further down.
LEMMA PrintOne ==
  ASSUME NEW perf, NEW S \in SUBSET Int, IsFiniteSet(S), NEW n \in Int, Printed(perf, S, n + 1)
  PROVE  Printed(IF n \in S THEN Append(perf, n) ELSE perf, S, n)
<1>1. perf \in Seq(Int) /\ Range(perf) = {x \in S : x >= n + 1} /\ Len(perf) = Cardinality(Range(perf))
  BY DEF Printed
<1>2. \A x \in S : x >= n <=> (x >= n + 1 \/ x = n)
  OBVIOUS
<1>3. CASE n \in S
  <2>1. Append(perf, n) \in Seq(Int) /\ Len(Append(perf, n)) = Len(perf) + 1
    BY <1>1
  <2>2. Range(Append(perf, n)) = Range(perf) \cup {n}
    <3>. DEFINE app == Append(perf, n)
    <3>1. /\ DOMAIN app = 1..(Len(perf) + 1) /\ DOMAIN perf = 1..Len(perf) /\ Len(perf) \in Nat
          /\ app[Len(perf) + 1] = n /\ \A x \in 1..Len(perf) : app[x] = perf[x]
      <4>1. app \in Seq(Int) /\ Len(app) = Len(perf) + 1
        BY <2>1
      <4>2. app[Len(perf) + 1] = n
        BY <1>1, AppendProperties
      <4>3. \A x \in 1..Len(perf) : app[x] = perf[x]
        BY <1>1
      <4>. HIDE DEF app
      <4>4. DOMAIN app = 1..Len(app) /\ DOMAIN perf = 1..Len(perf) /\ Len(perf) \in Nat
        BY <1>1, <4>1, LenProperties
      <4>. QED  BY <4>1, <4>2, <4>3, <4>4
    <3>. HIDE DEF app
    <3>2. \A x \in 1..(Len(perf) + 1) : x \in 1..Len(perf) \/ x = Len(perf) + 1
      BY <3>1
    <3>3. \A x \in 1..Len(perf) : x \in 1..(Len(perf) + 1)
      BY <3>1
    <3>4. Len(perf) + 1 \in 1..(Len(perf) + 1)
      BY <3>1
    <3>5. Range(app) = Range(perf) \cup {n}
      BY <3>1, <3>2, <3>3, <3>4 DEF Range
    <3>. QED  BY <3>5 DEF app
  <2>3. Range(perf) \cup {n} = {x \in S : x >= n}
    BY <1>1, <1>2, <1>3
  <2>4. IsFiniteSet(Range(perf)) /\ n \notin Range(perf)
    <3>1. Range(perf) \subseteq S
      BY <1>1
    <3>. QED  BY <1>1, <3>1, FS_Subset
  <2>5. Cardinality(Range(perf) \cup {n}) = Cardinality(Range(perf)) + 1
    BY <2>4, FS_AddElement
  <2>. QED  BY <1>1, <1>3, <2>1, <2>2, <2>3, <2>5 DEF Printed
<1>4. CASE n \notin S
  <2>1. {x \in S : x >= n} = {x \in S : x >= n + 1}
    BY <1>2, <1>4
  <2>. QED  BY <1>1, <1>4, <2>1 DEF Printed
<1>. QED  BY <1>3, <1>4

LEMMA ShownSets ==
  ASSUME PerfInv
  PROVE  /\ num_ranges \in Nat /\ DOMAIN ranges = 1..num_ranges
         /\ RangesShown \in SUBSET Int /\ IsFiniteSet(RangesShown)
         /\ NetsShown \in SUBSET Int /\ IsFiniteSet(NetsShown)
<1>1. num_ranges \in Nat /\ DOMAIN ranges = 1..num_ranges
  BY DEF PerfInv, num_ranges
<1>2. RangesShown \subseteq 1..num_ranges /\ NetsShown \subseteq 1..NumNets
  BY <1>1 DEF RangesShown, NetsShown
<1>3. IsFiniteSet(1..num_ranges) /\ IsFiniteSet(1..NumNets)
  BY <1>1, FS_Interval
<1>4. IsFiniteSet(RangesShown) /\ IsFiniteSet(NetsShown)
  BY <1>2, <1>3, FS_Subset
<1>5. RangesShown \subseteq Int /\ NetsShown \subseteq Int
  BY <1>2
<1>. QED  BY <1>1, <1>4, <1>5

\* What the invariant says depends on the input by these only.
LEMMA SameInput ==
  ASSUME UNCHANGED input
  PROVE  /\ PerfRanges' = PerfRanges /\ PerfNets' = PerfNets /\ num_ranges' = num_ranges
         /\ RangesShown' = RangesShown /\ NetsShown' = NetsShown
BY DEF input, PerfRanges, PerfNets, num_ranges, RangesShown, NetsShown, ShownRange, ShownNet,
       Shown, Available

LEMMA PerfInit == (\A in \in Inputs : PerfInScope(in.config)) /\ Init => PerfInv
<1>. SUFFICES ASSUME \A in \in Inputs : PerfInScope(in.config), Init PROVE PerfInv
  OBVIOUS
<1>1. /\ config \in Option /\ ranges \in Seq(Pool) /\ shared_networks \in [0..NumNets -> Network]
      /\ PerfInScope(config)
  BY DEF Init
<1>2. num_ranges \in Nat
  BY <1>1 DEF num_ranges
<1>. QED  BY <1>1, <1>2 DEF Init, PerfInv, PointerInv, PrintedInv

\* The loops that judge walk to the end of both arrays.
LEMMA PerfJudging ==
  ASSUME PerfInv, SuppressRange \/ JudgeRange \/ RangesJudged \/ JudgeNet
  PROVE  PerfInv'
<1>1. UNCHANGED <<input, headline, perf_r, perf_s>> /\ pc' \in {"ranges", "nets"}
  BY DEF SuppressRange, JudgeRange, RangesJudged, JudgeNet, InRanges
<1>2. pc \in {"ranges", "nets"}
  BY DEF SuppressRange, JudgeRange, RangesJudged, JudgeNet, InRanges
<1>3. num_ranges \in Nat /\ num_ranges' = num_ranges /\ PerfRanges' = PerfRanges /\ config' = config
  BY <1>1, ShownSets, SameInput DEF input
<1>4. PrintedInv'
  BY <1>1, <1>2 DEF PerfInv, PrintedInv
<1>5. PerfRanges => "R" \in config.number_limit /\ ~config.snet_alarms
  BY DEF PerfRanges, PerfInv, PerfInScope
<1>6. PointerInv'
  <2>1. CASE SuppressRange
    BY <1>3, <2>1 DEF SuppressRange, InRanges, Suppressed, PerfInv, PointerInv
  <2>2. CASE JudgeRange
    BY <1>3, <2>2 DEF JudgeRange, InRanges, PerfInv, PointerInv
  <2>3. CASE RangesJudged
    BY <1>3, <1>5, <2>3 DEF RangesJudged, PerfInv, PointerInv
  <2>4. CASE JudgeNet
    BY <1>3, <2>4 DEF JudgeNet, num_shared_networks, PerfInv, PointerInv
  <2>. QED  BY <2>1, <2>2, <2>3, <2>4
<1>. QED  BY <1>1, <1>4, <1>6 DEF PerfInv, input

LEMMA PerfReport == ASSUME PerfInv, Report PROVE PerfInv'
<1>1. UNCHANGED <<input, range_p, shared_p, perf_r, perf_s>> /\ i' = 0 /\ pc = "nets"
  BY DEF Report
<1>2. /\ headline' = Headline /\ pc' = IF Headline = "none" THEN "done" ELSE "perf_r"
      /\ "S" \notin config.number_limit \/ i = NumNets
  BY DEF Report, num_shared_networks
<1>3. /\ num_ranges' = num_ranges /\ PerfRanges' = PerfRanges /\ PerfNets' = PerfNets
      /\ RangesShown' = RangesShown /\ config' = config
  BY <1>1, SameInput DEF input
<1>4. num_ranges \in Nat /\ \A x \in RangesShown : ~(x >= num_ranges + 1)
  BY ShownSets DEF RangesShown
<1>5. perf_r = << >> /\ perf_s = << >>
  BY <1>1 DEF PerfInv, PrintedInv
<1>6. PerfRanges => range_p = num_ranges + 1
  BY <1>1 DEF PerfInv, PointerInv
<1>7. PerfNets => shared_p = NumNets
  BY <1>1, <1>2 DEF PerfNets, PerfInv, PerfInScope, PointerInv
<1>8. PointerInv'
  BY <1>1, <1>2, <1>3, <1>4, <1>6, <1>7 DEF PerfInv, PointerInv
<1>9. Printed(<< >>, RangesShown, num_ranges + 1)
  BY <1>4, NothingPrinted
<1>10. PrintedInv'
  <2>1. CASE Headline = "none"
    BY <1>1, <1>2, <1>5, <2>1 DEF PrintedInv
  <2>2. CASE Headline # "none"
    BY <1>1, <1>2, <1>3, <1>5, <1>6, <1>9, <2>2 DEF PrintedInv, Printed
  <2>. QED  BY <2>1, <2>2
<1>. QED  BY <1>1, <1>8, <1>10 DEF PerfInv, input

LEMMA PerfPrintRange == ASSUME PerfInv, PrintRange PROVE PerfInv'
<1>1. /\ pc = "perf_r" /\ PerfRanges /\ i < num_ranges /\ range_p' = range_p - 1 /\ i' = i + 1
      /\ UNCHANGED <<input, shared_p, headline, perf_s>> /\ pc' = "perf_r"
  BY DEF PrintRange
<1>2. /\ num_ranges' = num_ranges /\ PerfRanges' = PerfRanges /\ PerfNets' = PerfNets
      /\ RangesShown' = RangesShown
  BY <1>1, SameInput
<1>3. num_ranges \in Nat /\ DOMAIN ranges = 1..num_ranges
  BY ShownSets
<1>4. i \in 0..num_ranges /\ range_p = num_ranges + 1 - i /\ (PerfNets => shared_p = NumNets)
      /\ shared_p \in 0..NumNets
  BY <1>1 DEF PerfInv, PointerInv
<1>5. range_p' \in DOMAIN ranges /\ range_p' > 0 /\ range_p = range_p' + 1 /\ range_p' \in Int
  BY <1>1, <1>3, <1>4
<1>6. perf_r' = IF range_p' \in RangesShown THEN Append(perf_r, range_p') ELSE perf_r
  BY <1>5 DEF PrintRange, RangesShown
<1>7. Printed(perf_r, RangesShown, range_p' + 1)
  BY <1>1, <1>5 DEF PerfInv, PrintedInv
<1>8. Printed(perf_r', RangesShown, range_p')
  BY <1>5, <1>6, <1>7, ShownSets, PrintOne
<1>9. PrintedInv'
  BY <1>1, <1>2, <1>8 DEF PerfInv, PrintedInv, Printed
<1>10. PointerInv'
  BY <1>1, <1>2, <1>3, <1>4 DEF PointerInv
<1>. QED  BY <1>1, <1>9, <1>10 DEF PerfInv, input

LEMMA PerfRangesPrinted == ASSUME PerfInv, RangesPrinted PROVE PerfInv'
<1>1. /\ pc = "perf_r" /\ pc' = "perf_s" /\ (PerfRanges => i = num_ranges) /\ i' = 0
      /\ UNCHANGED <<input, range_p, shared_p, headline, perf_r, perf_s>>
  BY DEF RangesPrinted
<1>2. /\ num_ranges' = num_ranges /\ PerfRanges' = PerfRanges /\ PerfNets' = PerfNets
      /\ RangesShown' = RangesShown /\ NetsShown' = NetsShown
  BY <1>1, SameInput
<1>3. num_ranges \in Nat
  BY ShownSets
<1>4. PerfRanges => range_p = 1
  BY <1>1, <1>3 DEF PerfInv, PointerInv
<1>5. PerfNets => shared_p = NumNets
  BY <1>1 DEF PerfInv, PointerInv
<1>6. Printed(<< >>, NetsShown, NumNets + 1)
  BY NothingPrinted DEF NetsShown
<1>7. PrintedInv'
  BY <1>1, <1>2, <1>4, <1>5, <1>6 DEF PerfInv, PrintedInv, Printed
<1>8. PointerInv'
  BY <1>1, <1>2, <1>3, <1>5 DEF PerfInv, PointerInv
<1>. QED  BY <1>1, <1>7, <1>8 DEF PerfInv, input

LEMMA PerfPrintNet == ASSUME PerfInv, PrintNet PROVE PerfInv'
<1>1. /\ pc = "perf_s" /\ PerfNets /\ i < NumNets /\ shared_p' = shared_p - 1 /\ i' = i + 1
      /\ UNCHANGED <<input, range_p, headline, perf_r>> /\ pc' = "perf_s"
  BY DEF PrintNet, MoreNets, Below, num_shared_networks
<1>2. /\ num_ranges' = num_ranges /\ PerfRanges' = PerfRanges /\ PerfNets' = PerfNets
      /\ RangesShown' = RangesShown /\ NetsShown' = NetsShown
  BY <1>1, SameInput
<1>3. i \in 0..NumNets /\ shared_p = NumNets - i /\ range_p \in 1..(num_ranges + 1)
  BY <1>1 DEF PerfInv, PointerInv
<1>4. shared_p \in 1..NumNets /\ shared_p >= 0 /\ shared_p = shared_p' + 1 /\ shared_p \in Int
  BY <1>1, <1>3
<1>5. perf_s' = IF shared_p \in NetsShown THEN Append(perf_s, shared_p) ELSE perf_s
  BY <1>4 DEF PrintNet, MoreNets, NetsShown
<1>6. Printed(perf_s, NetsShown, shared_p + 1)
  BY <1>1 DEF PerfInv, PrintedInv
<1>7. Printed(perf_s', NetsShown, shared_p)
  BY <1>4, <1>5, <1>6, ShownSets, PrintOne
<1>8. PrintedInv'
  BY <1>1, <1>2, <1>4, <1>7 DEF PerfInv, PrintedInv, Printed
<1>9. PointerInv'
  BY <1>1, <1>2, <1>3 DEF PointerInv
<1>. QED  BY <1>1, <1>8, <1>9 DEF PerfInv, input

LEMMA PerfReturn == ASSUME PerfInv, Return PROVE PerfInv'
<1>1. /\ pc = "perf_s" /\ pc' = "done" /\ (PerfNets => i = NumNets)
      /\ UNCHANGED <<input, range_p, shared_p, i, headline, perf_r, perf_s>>
  BY DEF Return, num_shared_networks
<1>2. /\ num_ranges' = num_ranges /\ PerfRanges' = PerfRanges /\ PerfNets' = PerfNets
      /\ RangesShown' = RangesShown /\ NetsShown' = NetsShown
  BY <1>1, SameInput
<1>3. PerfNets => shared_p + 1 = 1
  BY <1>1 DEF PerfInv, PointerInv
<1>4. PrintedInv'
  BY <1>1, <1>2, <1>3 DEF PerfInv, PrintedInv, Printed
<1>5. PointerInv'
  BY <1>1, <1>2 DEF PerfInv, PointerInv
<1>. QED  BY <1>1, <1>4, <1>5 DEF PerfInv, input

LEMMA PerfStutter == ASSUME PerfInv, UNCHANGED vars PROVE PerfInv'
<1>1. UNCHANGED input
  BY DEF vars, input
<1>2. /\ num_ranges' = num_ranges /\ PerfRanges' = PerfRanges /\ PerfNets' = PerfNets
      /\ RangesShown' = RangesShown /\ NetsShown' = NetsShown
  BY <1>1, SameInput
<1>3. PrintedInv' /\ PointerInv'
  BY <1>2 DEF PerfInv, PrintedInv, PointerInv, Printed, vars
<1>. QED  BY <1>1, <1>3 DEF PerfInv, input

LEMMA PerfNext == PerfInv /\ [Next]_vars => PerfInv'
BY PerfJudging, PerfReport, PerfPrintRange, PerfRangesPrinted, PerfPrintNet, PerfReturn, PerfStutter
   DEF Next, Step, Terminated

LEMMA PerfPrinted == PerfInv => PerfdataPrinted
<1>. SUFFICES ASSUME PerfInv PROVE PerfdataPrinted
  OBVIOUS
<1>1. RangesShown \subseteq DOMAIN ranges /\ NetsShown \subseteq 1..NumNets
  BY DEF RangesShown, NetsShown
<1>2. Range(<< >>) = {}
  BY DEF Range
<1>3. Range(perf_r) \subseteq RangesShown /\ Range(perf_s) \subseteq NetsShown
  BY <1>2 DEF PerfInv, PrintedInv, Printed
<1>4. ASSUME pc = "done", headline # "none", config.perfdata,
             "R" \in config.header_limit \cap config.number_limit
      PROVE  Range(perf_r) = RangesShown /\ Len(perf_r) = Cardinality(Range(perf_r))
  <2>1. Printed(perf_r, RangesShown, 1)
    BY <1>4 DEF PerfInv, PrintedInv, PerfRanges
  <2>2. \A x \in RangesShown : x >= 1
    BY ShownSets DEF RangesShown
  <2>. QED  BY <2>1, <2>2 DEF Printed
<1>5. ASSUME pc = "done", headline # "none", config.perfdata,
             {"R", "S"} \subseteq config.header_limit
      PROVE  Range(perf_s) = NetsShown /\ Len(perf_s) = Cardinality(Range(perf_s))
  <2>1. Printed(perf_s, NetsShown, 1)
    BY <1>5 DEF PerfInv, PerfInScope, PrintedInv, PerfNets
  <2>2. \A x \in NetsShown : x >= 1
    BY DEF NetsShown
  <2>. QED  BY <2>1, <2>2 DEF Printed
<1>. QED  BY <1>1, <1>3, <1>4, <1>5 DEF PerfdataPrinted, RangesShown, NetsShown

(* With --perfdata the data of every range and every network that is not
   ignored is printed once, and of nothing else, for all arrays: on their way
   down the pointers come by what they have come by on their way up, if that
   was both arrays from end to end. *)
THEOREM PerfdataRight ==
  ASSUME \A in \in Inputs : PerfInScope(in.config)
  PROVE  Spec => []PerfdataPrinted
<1>1. Init => PerfInv
  BY PerfInit
<1>. QED  BY <1>1, PerfNext, PerfPrinted, PTL DEF Spec

\* The status and the headline are of their types.
VerdictTypes ==
  /\ ret_val \in {Unset, STATE_OK, STATE_WARNING, STATE_CRITICAL}
  /\ headline \in {"none", "OK", "WARNING", "CRITICAL"}

LEMMA VerdictNext == VerdictTypes /\ [Next]_vars => VerdictTypes'
<1>. SUFFICES ASSUME VerdictTypes, [Next]_vars PROVE VerdictTypes'
  OBVIOUS
<1>1. CASE Report
  BY <1>1 DEF Report, VerdictTypes, Status, Headline
<1>2. CASE UNCHANGED <<ret_val, headline>>
  BY <1>2 DEF VerdictTypes
<1>. QED
  BY <1>1, <1>2 DEF Next, Step, Terminated, SuppressRange, JudgeRange, RangesJudged, JudgeNet,
     PrintRange, RangesPrinted, PrintNet, Return, vars

(* Type correctness: above all, neither pointer leaves its array, where the
   performance data is in scope. *)
THEOREM PointersOnArrays ==
  ASSUME \A in \in Inputs : PerfInScope(in.config)
  PROVE  Spec => []TypeOK
<1>1. Init => PerfInv
  BY PerfInit
<1>2. Init => VerdictTypes
  BY DEF Init, VerdictTypes
<1>3. PerfInv /\ HeadlineInv /\ VerdictTypes => TypeOK
  BY DEF PerfInv, PointerInv, HeadlineInv, VerdictTypes, TypeOK, num_shared_networks
<1>. QED
  BY <1>1, <1>2, <1>3, PerfNext, HeadlineInit, HeadlineNext, VerdictNext, PTL DEF Spec
=============================================================================
