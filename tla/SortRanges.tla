------------------------------ MODULE SortRanges ------------------------------
(***************************************************************************)
(* The order of the report: mergesort_ranges of sort.c by the keys of -s,  *)
(* then flip_ranges of other.c for -r, both on the array that prepare_data *)
(* left in the order of the addresses.  The sort halves the array until    *)
(* the parts are shorter than MIN_MERGE_SIZE and sorts those by insertion. *)
(*                                                                         *)
(* A key is a letter of -s; a range has an integer for each of them, the   *)
(* rank of its value in the order of the comparer that the letter selects. *)
(* Two ranges may agree in all of them, addresses included, and are still  *)
(* two: "entry" is the place of a range in the configuration file.         *)
(***************************************************************************)
EXTENDS Integers, Sequences, SequencesExt

CONSTANTS
  Keys,            \* the letters of -s; "i" is the first address
  MIN_MERGE_SIZE,  \* 8 in the source
  Options,         \* records [sorts, reverse_order]: the letters given, and -r
  Tables           \* the arrays of ranges after prepare_data

Ranges == [Keys \cup {"entry"} -> Int]

ASSUME SortAssumption ==
  /\ "i" \in Keys
  /\ MIN_MERGE_SIZE \in Nat \ {0, 1}
  /\ Options \subseteq [sorts : Seq(Keys), reverse_order : BOOLEAN]
  /\ Tables \subseteq Seq(Ranges)

VARIABLES
  config,  \* the options
  orig,    \* the array
  pc

vars == <<config, orig, pc>>

\* rangecomp looks at the first addresses only.
RangesSorted(t) == \A x, y \in DOMAIN t : x < y => t[x]["i"] <= t[y]["i"]
EntriesDiffer(t) == \A x, y \in DOMAIN t : x # y => t[x]["entry"] # t[y]["entry"]

Init ==
  /\ config \in Options
  /\ orig \in Tables /\ RangesSorted(orig) /\ EntriesDiffer(orig)
  /\ pc = "sort"

\* merge(): left goes first.  A tie of every key is in favour of right.
Differing(left, right) == {x \in DOMAIN config.sorts : left[config.sorts[x]] # right[config.sorts[x]]}

\* Wrong variant of merge.
merge_Last(left, right) ==
  /\ Differing(left, right) # {}
  /\ LET key == config.sorts[CHOOSE x \in Differing(left, right) :
                               \A y \in Differing(left, right) : x >= y]
     IN left[key] < right[key]

merge(left, right) ==
  /\ Differing(left, right) # {}
  /\ LET key == config.sorts[CHOOSE x \in Differing(left, right) :
                               \A y \in Differing(left, right) : x <= y]
     IN left[key] < right[key]

\* Wrong variant of Insert.
Insert_Over(t, hold) ==
  LET stop == CHOOSE x \in 0..Len(t) :
                /\ x = 0 \/ merge(t[x], hold)
                /\ \A y \in (x + 1)..Len(t) : ~merge(t[y], hold)
  IN IF stop < Len(t) THEN ReplaceAt(t, stop + 1, hold) ELSE Append(t, hold)

\* hold is moved to the left, past every range that does not go before it.
Insert(t, hold) ==
  LET stop == CHOOSE x \in 0..Len(t) :
                /\ x = 0 \/ merge(t[x], hold)
                /\ \A y \in (x + 1)..Len(t) : ~merge(t[y], hold)
  IN InsertAt(t, stop + 1, hold)

\* The ranges are held and inserted from left to right.
inserted(t) ==
  LET done[n \in 0..Len(t)] == IF n = 0 THEN << >> ELSE Insert(done[n - 1], t[n])
  IN  done[Len(t)]

\* One more range for temp: of the first half while it goes before the other
\* one, or is all that there is.
Take(a, b, s) ==
  IF s.left < Len(a) /\ (s.right = Len(b) \/ merge(a[s.left + 1], b[s.right + 1]))
  THEN [left |-> s.left + 1, right |-> s.right, temp |-> Append(s.temp, a[s.left + 1])]
  ELSE [left |-> s.left, right |-> s.right + 1, temp |-> Append(s.temp, b[s.right + 1])]

Merged(a, b) ==
  LET loop[k \in 0..(Len(a) + Len(b))] ==
        IF k = 0 THEN [left |-> 0, right |-> 0, temp |-> << >>] ELSE Take(a, b, loop[k - 1])
  IN  loop[Len(a) + Len(b)].temp

mergesort_ranges[t \in Seq(Ranges)] ==
  IF Len(t) < MIN_MERGE_SIZE THEN inserted(t)
  ELSE Merged(mergesort_ranges[SubSeq(t, 1, Len(t) \div 2)],
              mergesort_ranges[SubSeq(t, Len(t) \div 2 + 1, Len(t))])

\* Wrong variant of flip_ranges.
flip_ranges_Short(t) == [x \in DOMAIN t |-> t[IF x = Len(t) THEN 1 ELSE Len(t) - x]]

\* num_ranges - 1 wraps for an empty array, which is then not read.
flip_ranges(t) == [x \in DOMAIN t |-> t[Len(t) - x + 1]]

Sort ==
  /\ pc = "sort"
  /\ orig' = IF config.sorts # << >> THEN mergesort_ranges[orig] ELSE orig
  /\ pc' = "flip"
  /\ UNCHANGED config

Flip ==
  /\ pc = "flip"
  /\ orig' = IF config.reverse_order THEN flip_ranges(orig) ELSE orig
  /\ pc' = "output"
  /\ UNCHANGED config

\* The output functions only read the array.
Terminated == pc = "output" /\ UNCHANGED vars

Next == Sort \/ Flip \/ Terminated
Spec == Init /\ [][Next]_vars /\ WF_vars(Sort \/ Flip)

-----------------------------------------------------------------------------
(* Properties *)

(* The type invariant: the array holds ranges, each of them once. *)
TypeOK ==
  /\ config \in Options
  /\ pc \in {"sort", "flip", "output"}
  /\ \A x \in DOMAIN orig : orig[x] \in Ranges
  /\ IsInjective(orig)

\* Left goes before right by the keys from left to right; ~Precedes both ways
\* for a tie.
Precedes(left, right) ==
  \E x \in DOMAIN config.sorts :
    /\ left[config.sorts[x]] < right[config.sorts[x]]
    /\ \A y \in 1..(x - 1) : left[config.sorts[y]] = right[config.sorts[y]]

(* The report is sorted by the keys, the next one deciding where the ones on
   its left are equal, and backwards with -r: no two ranges are out of order,
   whatever the halves they came from. *)
ReportSorted ==
  pc = "output" =>
    \A x, y \in DOMAIN orig : x < y =>
      IF config.reverse_order THEN ~Precedes(orig[x], orig[y]) ELSE ~Precedes(orig[y], orig[x])

(* No step loses a range of the array or puts it there twice. *)
RangesKept == [][ToSet(orig') = ToSet(orig) /\ Len(orig') = Len(orig)]_vars

=============================================================================
