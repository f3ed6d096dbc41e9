---------------------------- MODULE PipelineProofs ----------------------------
(***************************************************************************)
(* Proofs about main for every command line and every length of the        *)
(* report: what the exit status tells of the report and the report file,   *)
(* that all that is allocated is released once and not used afterwards,    *)
(* and that the options given are the ones main works with.                *)
(***************************************************************************)
EXTENDS Pipeline, FiniteSetTheorems, SequenceTheorems, WellFoundedInduction, TLAPS

Stream == [is : {"unopened", "open", "closed"}, buffered : BOOLEAN, ferror : BOOLEAN]
Fresh(is) == [is |-> is, buffered |-> FALSE, ferror |-> FALSE]

Before == {"options", "keys", "config", "leases", "count", "sort", "open"}

\* Nothing has been printed before the report, or the help, is begun.
BeforeInv == phase \in Before => out["stdout"] = Fresh("open") /\ out["file"] = Fresh("unopened")

\* The help and the version go to stdout.
TextInv == phase = "text" => out["file"] = Fresh("unopened") /\ out["stdout"].is = "open"

\* The report goes to its destination and nowhere else.
PrintInv ==
  phase = "print" =>
    /\ out[Destination].is = "open"
    /\ Destination = "file" => out["stdout"] = Fresh("open")
    /\ Destination = "stdout" => out["file"] = Fresh("unopened")

\* A report file has been closed without loss; of stdout that is not known yet.
ReturnInv ==
  phase \in {"clean_up", "return"} =>
    /\ ended
    /\ Destination = "file" => out["stdout"] = Fresh("open") /\ out["file"] = Fresh("closed")
    /\ Destination = "stdout" =>
         /\ out["file"] = Fresh("unopened")
         /\ out["stdout"] = Fresh("closed") \/ out["stdout"].is = "open"
    /\ FormatChar # "a" => status = EXIT_SUCCESS

\* exit() is success after the help only, and a failure has not opened the
\* report file, could not write it, or is that of html_header.
ExitInv ==
  phase = "exit" =>
    /\ status # EXIT_FAILURE =>
         ended /\ out["file"] = Fresh("unopened") /\ out["stdout"].is = "open"
    /\ status = EXIT_FAILURE =>
         \/ out["file"].is = "unopened" \/ out["file"].ferror
         \/ FormatChar = "H" /\ lines = 0

PipelineInv ==
  /\ out \in [Streams -> Stream]
  /\ BeforeInv /\ TextInv /\ PrintInv /\ ReturnInv /\ ExitInv
  /\ StatusTellsReport /\ OldReportKept

USE DEF EXIT_SUCCESS, EXIT_FAILURE, Streams

LEMMA InitPipeline == Init => PipelineInv
BY DEF Init, PipelineInv, BeforeInv, TextInv, PrintInv, ReturnInv, ExitInv, StatusTellsReport,
       OldReportKept, Stream, Fresh, Before

\* A step of the options or of a phase before the report prints nothing, and
\* goes on, prints a text, or is an error exit.
LEMMA EarlyStep ==
  ASSUME PipelineInv, phase \in Before, UNCHANGED printed,
         phase' \in Before \cup {"text"} \/ (phase' = "exit" /\ status' = EXIT_FAILURE)
  PROVE  PipelineInv'
<1>1. out' = out /\ out["stdout"] = Fresh("open") /\ out["file"] = Fresh("unopened")
  BY DEF PipelineInv, BeforeInv, printed
<1>2. out["stdout"].is = "open" /\ out["file"].is = "unopened"
  BY <1>1 DEF Fresh
<1>3. phase' \notin {"print", "clean_up", "return", "gone"}
  BY DEF Before
<1>4. (out \in [Streams -> Stream])'
  BY <1>1 DEF PipelineInv
<1>5. BeforeInv' /\ TextInv'
  BY <1>1, <1>2 DEF BeforeInv, TextInv
<1>6. PrintInv' /\ ReturnInv' /\ StatusTellsReport' /\ OldReportKept'
  BY <1>3 DEF PrintInv, ReturnInv, StatusTellsReport, OldReportKept
<1>7. ExitInv'
  BY <1>1, <1>2 DEF ExitInv, Before
<1>. QED  BY <1>4, <1>5, <1>6, <1>7 DEF PipelineInv

\* The steps of EarlyStep.
EarlyActions ==
  \/ SetFile \/ SetFlag \/ SetFormat \/ SetNumber \/ SetLimit \/ ShowText \/ UnknownOption
  \/ StartKeys \/ AddKey \/ EndKeys \/ SelectFormat
  \/ parse_config \/ parse_leases \/ do_counting \/ SortAndFlip

LEMMA EarlyActionsAre ==
  ASSUME EarlyActions
  PROVE  /\ phase \in Before /\ UNCHANGED printed
         /\ phase' \in Before \cup {"text"} \/ (phase' = "exit" /\ status' = EXIT_FAILURE)
<1>1. CASE SetFile \/ SetFlag \/ SetFormat \/ ShowText \/ UnknownOption
  BY <1>1 DEF SetFile, SetFlag, SetFormat, ShowText, UnknownOption, AtOption, NextOption,
              PlainError, Exit, Before
<1>2. CASE SetNumber \/ SetLimit
  BY <1>2 DEF SetNumber, SetLimit, AtOption, NextOption, PlainError, CleanError, Exit, Before
<1>3. CASE StartKeys \/ AddKey \/ EndKeys
  BY <1>3 DEF StartKeys, AddKey, EndKeys, AtOption, CleanError, Exit, Before
<1>4. CASE SelectFormat
  BY <1>4 DEF SelectFormat, PlainError, CleanError, Exit, Before
<1>5. CASE parse_config \/ parse_leases \/ do_counting \/ SortAndFlip
  BY <1>5 DEF parse_config, parse_leases, do_counting, SortAndFlip, Phase, PlainError, Exit, Before
<1>. QED  BY <1>1, <1>2, <1>3, <1>4, <1>5 DEF EarlyActions

\* From here on the options do not change.
LEMMA SameOptions ==
  ASSUME UNCHANGED options
  PROVE  Destination' = Destination /\ FormatChar' = FormatChar
BY DEF options, config, Destination, FormatChar

LEMMA TwoDestinations == Destination \in Streams
BY DEF Destination

LEMMA OpenStep == ASSUME PipelineInv, OpenReport PROVE PipelineInv'
<1>1. out \in [Streams -> Stream] /\ out["stdout"] = Fresh("open") /\ out["file"] = Fresh("unopened")
  BY DEF PipelineInv, BeforeInv, OpenReport, Before
<1>2. Destination' = Destination /\ Destination \in Streams
  BY SameOptions, TwoDestinations DEF OpenReport
<1>3. CASE phase' = "print"
  <2>1. out' = [out EXCEPT ![Destination].is = "open"]
    BY <1>3 DEF OpenReport, Exit
  <2>2. (out \in [Streams -> Stream])'
    BY <1>1, <1>2, <2>1 DEF Stream
  <2>3. PrintInv'
    BY <1>1, <1>2, <2>1 DEF PrintInv, Fresh, Stream
  <2>. QED
    BY <1>3, <2>2, <2>3 DEF PipelineInv, BeforeInv, TextInv, ReturnInv, ExitInv,
                            StatusTellsReport, OldReportKept, Before
<1>4. CASE phase' # "print"
  <2>1. phase' = "exit" /\ status' = EXIT_FAILURE /\ out' = out
    BY <1>4 DEF OpenReport, Exit
  <2>2. ExitInv'
    BY <1>1, <2>1 DEF ExitInv, Fresh
  <2>. QED
    BY <1>1, <2>1, <2>2 DEF PipelineInv, BeforeInv, TextInv, PrintInv, ReturnInv,
                            StatusTellsReport, OldReportKept, Before
<1>. QED  BY <1>3, <1>4

-----------------------------------------------------------------------------
(* Printing *)

LEMMA PrintStep == ASSUME PipelineInv, PrintLine PROVE PipelineInv'
<1>. DEFINE s == IF phase = "text" THEN "stdout" ELSE Destination
<1>1. Destination' = Destination /\ Destination \in Streams
  BY SameOptions, TwoDestinations DEF PrintLine
<1>2. phase' = phase /\ phase \in {"print", "text"}
  BY DEF PrintLine
<1>3. PICK buffered, lost \in BOOLEAN :
        out' = [out EXCEPT ![s].buffered = buffered, ![s].ferror = @ \/ lost]
  BY DEF PrintLine
<1>4. out \in [Streams -> Stream] /\ s \in Streams
  BY <1>1 DEF PipelineInv
<1>5. out'[s].is = out[s].is /\ \A r \in Streams \ {s} : out'[r] = out[r]
  BY <1>3, <1>4 DEF Stream
<1>6. (out \in [Streams -> Stream])'
  BY <1>3, <1>4 DEF Stream
<1>7. TextInv' /\ PrintInv'
  BY <1>1, <1>2, <1>5 DEF PipelineInv, TextInv, PrintInv
<1>. QED
  BY <1>2, <1>6, <1>7 DEF PipelineInv, BeforeInv, ReturnInv, ExitInv, StatusTellsReport,
                          OldReportKept, Before

LEMMA HeaderStep == ASSUME PipelineInv, html_header PROVE PipelineInv'
<1>1. /\ phase = "print" /\ phase' = "exit" /\ status' = EXIT_FAILURE
      /\ FormatChar = "H" /\ lines = 0 /\ out' = out /\ lines' = lines
  BY DEF html_header, Exit, printed
<1>2. FormatChar' = FormatChar
  BY SameOptions DEF html_header
<1>. QED
  BY <1>1, <1>2 DEF PipelineInv, BeforeInv, TextInv, PrintInv, ReturnInv, ExitInv,
                    StatusTellsReport, OldReportKept, Before

LEMMA EndTextStep == ASSUME PipelineInv, EndText PROVE PipelineInv'
<1>1. out' = out /\ ended' /\ phase \in {"print", "text"}
  BY DEF EndText
<1>2. Destination' = Destination
  BY SameOptions DEF EndText
<1>3. CASE phase = "text"
  <2>1. phase' = "exit" /\ status' = EXIT_SUCCESS
    BY <1>3 DEF EndText, Exit
  <2>. QED
    BY <1>1, <1>3, <2>1 DEF PipelineInv, BeforeInv, TextInv, PrintInv, ReturnInv, ExitInv,
                            StatusTellsReport, OldReportKept, Before
<1>4. CASE phase = "print"
  <2>1. phase' = "print"
    BY <1>4 DEF EndText
  <2>. QED
    BY <1>1, <1>2, <1>4, <2>1 DEF PipelineInv, BeforeInv, TextInv, PrintInv, ReturnInv, ExitInv,
                                  StatusTellsReport, OldReportKept, Before
<1>. QED  BY <1>1, <1>3, <1>4

-----------------------------------------------------------------------------
(* Closing *)

\* What close_stream leaves of an open stream, and what it tells.
LEMMA Closing ==
  ASSUME NEW s \in Streams, NEW failed \in BOOLEAN,
         out \in [Streams -> Stream], out[s].is = "open", close_stream(s, failed)
  PROVE  /\ (out \in [Streams -> Stream])'
         /\ \A r \in Streams \ {s} : out'[r] = out[r]
         /\ out'[s] = [is |-> "closed", buffered |-> FALSE, ferror |-> failed]
         /\ out[s] = Fresh("open") => ~failed
<1>1. PICK lost \in BOOLEAN :
        /\ lost => out[s].buffered
        /\ out' = [out EXCEPT ![s] = [is |-> "closed", buffered |-> FALSE,
                                      ferror |-> @.ferror \/ lost]]
        /\ failed = (out[s].ferror \/ lost)
  BY DEF close_stream, Written
<1>2. out'[s] = [is |-> "closed", buffered |-> FALSE, ferror |-> failed]
  BY <1>1
<1>3. \A r \in Streams \ {s} : out'[r] = out[r]
  BY <1>1
<1>4. (out \in [Streams -> Stream])'
  BY <1>1, <1>2, <1>3 DEF Stream
<1>5. out[s] = Fresh("open") => ~failed
  BY <1>1 DEF Fresh
<1>. QED  BY <1>2, <1>3, <1>4, <1>5

\* fflush leaves stdout open and empty.
LEMMA Flushing ==
  ASSUME NEW s \in Streams, NEW failed \in BOOLEAN,
         out \in [Streams -> Stream], fflush(s, failed)
  PROVE  /\ (out \in [Streams -> Stream])'
         /\ \A r \in Streams \ {s} : out'[r] = out[r]
         /\ out'[s].is = "open"
<1>1. out' = [out EXCEPT ![s] = [is |-> "open", buffered |-> FALSE,
                                 ferror |-> @.ferror \/ failed]]
  BY DEF fflush, Written
<1>. QED  BY <1>1 DEF Stream

LEMMA EndReportStep == ASSUME PipelineInv, EndReport PROVE PipelineInv'
<1>1. /\ out \in [Streams -> Stream] /\ phase = "print" /\ ended /\ ended' = ended
      /\ Destination' = Destination /\ FormatChar' = FormatChar /\ Destination \in Streams
  BY SameOptions, TwoDestinations DEF EndReport, PipelineInv
<1>2. /\ out[Destination].is = "open"
      /\ Destination = "file" => out["stdout"] = Fresh("open")
      /\ Destination = "stdout" => out["file"] = Fresh("unopened")
  BY <1>1 DEF PipelineInv, PrintInv
<1>3. PICK failed \in BOOLEAN :
        /\ IF Destination = "file" \/ Silent THEN close_stream(Destination, failed)
           ELSE fflush(Destination, failed)
        /\ IF failed THEN Exit(EXIT_FAILURE)
           ELSE /\ phase' = "clean_up"
                /\ status' \in IF FormatChar # "a" THEN {EXIT_SUCCESS}
                             ELSE IF Silent THEN {STATE_OK} ELSE Verdicts
  BY DEF EndReport
<1>4. /\ (out \in [Streams -> Stream])'
      /\ \A r \in Streams \ {Destination} : out'[r] = out[r]
  BY <1>1, <1>2, <1>3, Closing, Flushing
<1>5. Destination = "file" =>
        out'["file"] = [is |-> "closed", buffered |-> FALSE, ferror |-> failed]
  BY <1>1, <1>2, <1>3, Closing
<1>6. Destination = "stdout" =>
        \/ out'["stdout"] = [is |-> "closed", buffered |-> FALSE, ferror |-> failed]
        \/ out'["stdout"].is = "open"
  BY <1>1, <1>2, <1>3, Closing, Flushing
<1>7. CASE failed
  <2>1. phase' = "exit" /\ status' = EXIT_FAILURE
    BY <1>3, <1>7 DEF Exit
  <2>2. Destination = "file" => out'["file"].ferror
    BY <1>5, <1>7
  <2>3. Destination = "stdout" => out'["file"].is = "unopened"
    BY <1>2, <1>4 DEF Fresh
  <2>4. ExitInv'
    BY <1>1, <2>1, <2>2, <2>3 DEF ExitInv
  <2>. QED
    BY <1>4, <2>1, <2>4 DEF PipelineInv, BeforeInv, TextInv, PrintInv, ReturnInv,
                            StatusTellsReport, OldReportKept, Before
<1>8. CASE ~failed
  <2>1. phase' = "clean_up" /\ (FormatChar # "a" => status' = EXIT_SUCCESS)
    BY <1>3, <1>8
  <2>2. Destination = "file" => out'["stdout"] = Fresh("open") /\ out'["file"] = Fresh("closed")
    BY <1>2, <1>4, <1>5, <1>8 DEF Fresh
  <2>3. Destination = "stdout" =>
          /\ out'["file"] = Fresh("unopened")
          /\ out'["stdout"] = Fresh("closed") \/ out'["stdout"].is = "open"
    BY <1>2, <1>4, <1>6, <1>8 DEF Fresh
  <2>4. ReturnInv'
    BY <1>1, <2>1, <2>2, <2>3 DEF ReturnInv
  <2>. QED
    BY <1>4, <2>1, <2>4 DEF PipelineInv, BeforeInv, TextInv, PrintInv, ExitInv,
                            StatusTellsReport, OldReportKept, Before
<1>. QED  BY <1>7, <1>8

LEMMA CleanUpStep == ASSUME PipelineInv, CleanUp PROVE PipelineInv'
<1>1. /\ phase = "clean_up" /\ phase' = "return" /\ status' = status /\ out' = out /\ ended' = ended
      /\ Destination' = Destination /\ FormatChar' = FormatChar
  BY SameOptions DEF CleanUp, printed
<1>. QED
  BY <1>1 DEF PipelineInv, BeforeInv, TextInv, PrintInv, ReturnInv, ExitInv, StatusTellsReport,
              OldReportKept, Before

\* What was lost of stdout is found out here, if not before, and the report
\* file is not touched any more.
LEMMA CloseStep == ASSUME PipelineInv, close_stdout PROVE PipelineInv'
<1>1. /\ out \in [Streams -> Stream] /\ phase \in {"exit", "return"} /\ phase' = "gone"
      /\ ended' = ended /\ lines' = lines
      /\ FormatChar' = FormatChar /\ Destination \in Streams
  BY SameOptions, TwoDestinations DEF close_stdout, PipelineInv
<1>2. PICK failed \in BOOLEAN : /\ close_stream("stdout", failed)
                                /\ status' = IF failed THEN EXIT_FAILURE ELSE status
  BY DEF close_stdout
<1>3. /\ (out \in [Streams -> Stream])' /\ out'["file"] = out["file"]
      /\ out["stdout"].is = "open" =>
           out'["stdout"] = [is |-> "closed", buffered |-> FALSE, ferror |-> failed]
      /\ out["stdout"].is # "open" => out'["stdout"] = out["stdout"] /\ ~failed
      /\ out["stdout"] = Fresh("open") => ~failed
  <2>1. CASE out["stdout"].is = "open"
    BY <1>1, <1>2, <2>1, Closing
  <2>2. CASE out["stdout"].is # "open"
    BY <1>1, <1>2, <2>2 DEF close_stream, Fresh
  <2>. QED  BY <2>1, <2>2
<1>4. StatusTellsReport'
  <2>. SUFFICES ASSUME status' # EXIT_FAILURE
                PROVE  ended' /\ \A s \in Streams : ~out'[s].buffered /\ ~out'[s].ferror
    BY DEF StatusTellsReport
  <2>1. ~failed /\ status # EXIT_FAILURE
    BY <1>2
  <2>2. ended /\ ~out["file"].buffered /\ ~out["file"].ferror
    BY <1>1, <2>1 DEF PipelineInv, ReturnInv, ExitInv, Fresh
  <2>3. out["stdout"].is = "open" \/ out["stdout"] = Fresh("closed")
    BY <1>1, <2>1 DEF PipelineInv, ReturnInv, ExitInv, Fresh
  <2>4. ~out'["stdout"].buffered /\ ~out'["stdout"].ferror
    BY <1>3, <2>1, <2>3 DEF Fresh
  <2>. QED  BY <1>1, <1>3, <2>2, <2>4
<1>5. OldReportKept'
  <2>. SUFFICES ASSUME status' = EXIT_FAILURE, out["file"].is # "unopened", FormatChar # "a"
                PROVE  out["file"].ferror \/ (FormatChar = "H" /\ lines = 0)
    BY <1>1, <1>3 DEF OldReportKept
  <2>1. CASE phase = "exit"
    BY <2>1 DEF PipelineInv, ExitInv, Fresh
  <2>2. CASE phase = "return"
    <3>1. Destination = "file" /\ status = EXIT_SUCCESS
      BY <1>1, <2>2 DEF PipelineInv, ReturnInv, Fresh
    <3>2. out["stdout"] = Fresh("open")
      BY <2>2, <3>1 DEF PipelineInv, ReturnInv
    <3>. QED  BY <1>2, <1>3, <3>1, <3>2
  <2>. QED  BY <1>1, <2>1, <2>2
<1>. QED
  BY <1>1, <1>3, <1>4, <1>5 DEF PipelineInv, BeforeInv, TextInv, PrintInv, ReturnInv, ExitInv, Before

-----------------------------------------------------------------------------
(* Theorems *)

LEMMA StepPipeline == PipelineInv /\ [Next]_vars => PipelineInv'
<1>. SUFFICES ASSUME PipelineInv, [Next]_vars PROVE PipelineInv'
  OBVIOUS
<1>1. CASE EarlyActions
  BY <1>1, EarlyActionsAre, EarlyStep
<1>2. CASE UNCHANGED vars
  BY <1>2, SameOptions DEF vars, options, config, list, PipelineInv, BeforeInv, TextInv, PrintInv,
                           ReturnInv, ExitInv, StatusTellsReport, OldReportKept
<1>3. CASE \/ OpenReport \/ html_header \/ PrintLine \/ EndText \/ EndReport \/ CleanUp
             \/ close_stdout
  BY <1>3, OpenStep, HeaderStep, PrintStep, EndTextStep, EndReportStep, CleanUpStep, CloseStep
<1>. QED  BY <1>1, <1>2, <1>3 DEF Next, Step, Terminated, EarlyActions

LEMMA PipelineAlways == Spec => []PipelineInv
BY InitPipeline, StepPipeline, PTL DEF Spec

(* The exit status tells whether everything that was printed is where it was
   to be printed, for every command line and every write that fails. *)
THEOREM StatusReliable == Spec => []StatusTellsReport
<1>1. PipelineInv => StatusTellsReport
  BY DEF PipelineInv
<1>. QED  BY <1>1, PipelineAlways, PTL

(* A run that fails for another reason than a failed write of the report, or
   the header of html, has not emptied the report file. *)
THEOREM ReportKept == Spec => []OldReportKept
<1>1. PipelineInv => OldReportKept
  BY DEF PipelineInv
<1>. QED  BY <1>1, PipelineAlways, PTL

-----------------------------------------------------------------------------
(* The list of sort keys *)

(* Induction on natural numbers for a set of them: the library has it for an
   operator, of which the provers can make no use, but it also has that < is
   well-founded, and a smallest element outside the set contradicts the step. *)
LEMMA Smallest == ASSUME NEW T \in SUBSET Nat, T # {} PROVE \E x \in T : \A y \in T : x <= y
<1>. DEFINE Less == OpToRel(<, Nat)
<1>1. IsWellFoundedOn(Less, Nat)
  BY NatLessThanWellFounded
<1>2. \A x, y \in Nat : y < x => <<y, x>> \in Less
  BY DEF OpToRel
<1>. HIDE DEF Less
<1>3. PICK x \in T : \A y \in T : ~ (<<y, x>> \in Less)
  BY <1>1, WFMin
<1>4. ASSUME NEW y \in T PROVE ~(y < x)
  BY <1>2, <1>3
<1>5. ASSUME NEW y \in T PROVE x <= y
  <2>1. x \in Nat /\ y \in Nat
    OBVIOUS
  <2>. HIDE <1>2
  <2>. QED  BY <1>4, <2>1
<1>. QED  BY <1>5

LEMMA Inductive ==
  ASSUME NEW T, 0 \in T, \A n \in Nat : n \in T => n + 1 \in T PROVE Nat \subseteq T
<1>. SUFFICES ASSUME Nat \ T # {} PROVE FALSE
  OBVIOUS
<1>1. PICK x \in Nat \ T : \A y \in Nat \ T : x <= y
  BY Smallest, Nat \ T \in SUBSET Nat
<1>2. x # 0 /\ x - 1 \in Nat
  BY <1>1
<1>3. x - 1 \in T
  BY <1>1, <1>2
<1>. QED  BY <1>1, <1>2, <1>3

\* A walk along n nodes, each linked to the next one.
InOrder(links, n) ==
  \A x \in 1..n : links[x].next = IF x = n THEN 0 ELSE x + 1
IsWalk(w, links, n) ==
  w = [x \in 0..n |-> IF x = NULL THEN << >> ELSE <<x>> \o w[links[x].next]]
From(x, n) == [k \in 1..(n - x + 1) |-> x + k - 1]

LEMMA FromNext ==
  ASSUME NEW n \in Nat, NEW x \in 1..n
  PROVE  From(x, n) = <<x>> \o IF x = n THEN << >> ELSE From(x + 1, n)
<1>1. CASE x = n
  BY <1>1 DEF From
<1>2. CASE x # n
  <2>1. From(x + 1, n) \in Seq(Int) /\ Len(From(x + 1, n)) = n - x
    BY <1>2 DEF From
  <2>2. \A k \in 1..(n - x) : From(x + 1, n)[k] = x + k
    BY <1>2 DEF From
  <2>. QED  BY <1>2, <2>1, <2>2 DEF From
<1>. QED  BY <1>1, <1>2

LEMMA WalkExists ==
  ASSUME NEW links, NEW n \in Nat, InOrder(links, n) PROVE \E w : IsWalk(w, links, n)
<1>. DEFINE g == [x \in 0..n |-> IF x = NULL THEN << >> ELSE From(x, n)]
<1>1. \A x \in 1..n : g[links[x].next] = IF x = n THEN << >> ELSE From(x + 1, n)
  BY DEF InOrder, NULL
<1>. HIDE DEF g
<1>2. ASSUME NEW x \in 1..n PROVE From(x, n) = <<x>> \o g[links[x].next]
  BY <1>1, FromNext
<1>3. \A x \in 0..n : x # NULL => x \in 1..n
  BY DEF NULL
<1>4. [x \in 0..n |-> IF x = NULL THEN << >> ELSE From(x, n)]
        = [x \in 0..n |-> IF x = NULL THEN << >> ELSE <<x>> \o g[links[x].next]]
  BY <1>2, <1>3
<1>5. IsWalk(g, links, n)
  BY <1>4 DEF IsWalk, g
<1>. QED  BY <1>5

LEMMA WalkIs ==
  ASSUME NEW links, NEW n \in Nat \ {0}, InOrder(links, n), NEW w, IsWalk(w, links, n)
  PROVE  w[1] = [k \in 1..n |-> k]
<1>1. w[0] = << >>
  BY DEF IsWalk, NULL
<1>2. ASSUME NEW x \in 1..n
      PROVE  w[x] = <<x>> \o IF x = n THEN << >> ELSE w[x + 1]
  <2>1. x \in 0..n /\ x # NULL
    BY DEF NULL
  <2>2. w[x] = <<x>> \o w[links[x].next]
    BY <2>1, Zenon DEF IsWalk
  <2>3. links[x].next = IF x = n THEN 0 ELSE x + 1
    BY DEF InOrder
  <2>. QED  BY <1>1, <2>2, <2>3
<1>. DEFINE T == {k \in Nat : k < n => w[n - k] = From(n - k, n)}
<1>3. 0 \in T
  <2>1. n - 0 = n /\ n \in 1..n
    OBVIOUS
  <2>2. w[n] = From(n, n)
    BY <1>2, <2>1, FromNext
  <2>. QED  BY <2>1, <2>2
<1>4. ASSUME NEW k \in Nat, k \in T PROVE k + 1 \in T
  <2>. SUFFICES ASSUME k + 1 < n PROVE w[n - (k + 1)] = From(n - (k + 1), n)
    OBVIOUS
  <2>. DEFINE x == n - (k + 1)
  <2>1. x \in 1..n /\ x # n /\ x + 1 = n - k
    OBVIOUS
  <2>2. w[x + 1] = From(x + 1, n)
    BY <1>4, <2>1
  <2>. HIDE DEF x
  <2>3. w[x] = From(x, n)
    BY <1>2, <2>1, <2>2, FromNext
  <2>. QED  BY <2>3 DEF x
<1>. HIDE DEF T
<1>5. n - 1 \in T /\ n - (n - 1) = 1
  BY <1>3, <1>4, Inductive
<1>6. w[1] = From(1, n)
  BY <1>5 DEF T
<1>7. From(1, n) = [k \in 1..n |-> k]
  BY DEF From
<1>. QED  BY <1>6, <1>7

\* Every node is linked to the next one, and the head is the first one.
Linked ==
  /\ nodes \in Seq([func : Chars, next : Nat])
  /\ sorts = IF nodes = << >> THEN NULL ELSE 1
  /\ InOrder(nodes, Len(nodes))

\* The walk along the list finds every node, in the order in which they have
\* been made.
LEMMA ChainIs == ASSUME Linked PROVE Chain = [x \in 1..Len(nodes) |-> x]
<1>. DEFINE n == Len(nodes)
            w == CHOOSE f : IsWalk(f, nodes, n)
<1>1. n \in Nat /\ (nodes = << >> <=> n = 0)
  BY DEF Linked
<1>2. Chain = w[sorts]
  BY DEF Chain, IsWalk
<1>3. IsWalk(w, nodes, n)
  BY <1>1, WalkExists DEF Linked
<1>. HIDE DEF w
<1>4. CASE n = 0
  <2>1. w[0] = << >>
    BY <1>1, <1>3 DEF IsWalk, NULL
  <2>. QED  BY <1>1, <1>2, <1>4, <2>1 DEF Linked, NULL
<1>5. CASE n # 0
  <2>1. w[1] = [k \in 1..n |-> k]
    BY <1>1, <1>3, <1>5, WalkIs DEF Linked
  <2>. QED  BY <1>1, <1>2, <1>5, <2>1 DEF Linked
<1>. QED  BY <1>4, <1>5

\* The option loop, and the list it makes: p is at the last node.
ListInv ==
  /\ argv \in Argvs /\ optind \in 1..(Len(argv) + 1)
  /\ Linked
  /\ p \in 0..Len(nodes) /\ len \in Nat
  /\ phase = "keys" =>
       /\ optind \in 1..Len(argv) /\ Opt = "s"
       /\ p = Len(nodes) /\ len \in 1..(Len(Arg) + 1)

LEMMA Arguments ==
  ASSUME ListInv
  PROVE  /\ Len(argv) \in Nat /\ DOMAIN argv = 1..Len(argv)
         /\ \A x \in 1..Len(argv) : argv[x].opt \in Options /\ argv[x].arg \in Seq(Chars)
<1>1. argv \in Seq([opt : Options, arg : Seq(Chars)])
  BY PipelineAssumption DEF ListInv
<1>2. Len(argv) \in Nat /\ DOMAIN argv = 1..Len(argv)
  BY <1>1
<1>3. \A x \in 1..Len(argv) : argv[x] \in [opt : Options, arg : Seq(Chars)]
  BY <1>1, ElementOfSeq
<1>. HIDE DEF Options, Chars
<1>. QED  BY <1>2, <1>3

LEMMA ListInit == Init => ListInv
<1>. SUFFICES ASSUME Init PROVE ListInv
  OBVIOUS
<1>1. argv \in Argvs /\ optind = 1 /\ nodes = << >> /\ sorts = NULL /\ p = NULL /\ len = 0
      /\ phase = "options"
  BY DEF Init
<1>2. Len(argv) \in Nat
  BY <1>1, PipelineAssumption
<1>. QED  BY <1>1, <1>2 DEF ListInv, Linked, InOrder, NULL

\* A step that makes no sort key.
LEMMA ListSame ==
  ASSUME ListInv, UNCHANGED <<argv, sorts, nodes>>, phase' # "keys",
         UNCHANGED <<p, len>>,
         optind' \in {optind, optind + 1}, optind' # optind => optind <= Len(argv)
  PROVE  ListInv'
<1>1. optind' \in 1..(Len(argv') + 1)
  BY Arguments DEF ListInv
<1>. QED  BY <1>1 DEF ListInv, Linked, InOrder

\* The steps that make no sort key.
OtherActions ==
  \/ SetFile \/ SetFlag \/ SetFormat \/ SetNumber \/ SetLimit \/ ShowText \/ UnknownOption
  \/ EndKeys \/ SelectFormat \/ parse_config \/ parse_leases \/ do_counting \/ SortAndFlip
  \/ OpenReport \/ html_header \/ PrintLine \/ EndText \/ EndReport \/ CleanUp \/ close_stdout

LEMMA OtherActionsAre ==
  ASSUME OtherActions, ListInv
  PROVE  /\ UNCHANGED <<argv, list>> /\ phase' # "keys"
         /\ optind' \in {optind, optind + 1} /\ (optind' # optind => optind <= Len(argv))
<1>1. CASE SetFile \/ SetFlag \/ SetFormat \/ ShowText \/ UnknownOption
  BY <1>1 DEF SetFile, SetFlag, SetFormat, ShowText, UnknownOption, AtOption, NextOption, Stop,
              PlainError, Exit
<1>2. CASE SetNumber \/ SetLimit
  BY <1>2 DEF SetNumber, SetLimit, AtOption, NextOption, Stop, PlainError, CleanError, Exit
<1>3. CASE EndKeys
  BY <1>3, Arguments DEF EndKeys, ListInv
<1>4. CASE SelectFormat
  BY <1>4 DEF SelectFormat, PlainError, CleanError, Exit, options
<1>5. CASE parse_config \/ parse_leases \/ do_counting \/ SortAndFlip
  BY <1>5 DEF parse_config, parse_leases, do_counting, SortAndFlip, Phase, PlainError, Exit, options
<1>6. CASE OpenReport \/ html_header \/ PrintLine \/ EndText
  BY <1>6 DEF OpenReport, html_header, PrintLine, EndText, Exit, options
<1>7. CASE EndReport \/ CleanUp \/ close_stdout
  BY <1>7 DEF EndReport, CleanUp, close_stdout, Exit, options
<1>. QED  BY <1>1, <1>2, <1>3, <1>4, <1>5, <1>6, <1>7 DEF OtherActions

LEMMA LastNodeIs == ASSUME Linked PROVE LastNode = Len(nodes)
<1>1. Len(nodes) \in Nat /\ (nodes = << >> <=> Len(nodes) = 0)
  BY DEF Linked
<1>2. CASE sorts = NULL
  BY <1>1, <1>2 DEF LastNode, Linked, NULL
<1>3. CASE sorts # NULL
  <2>1. Len(nodes) > 0
    BY <1>1, <1>3 DEF Linked
  <2>2. Len(Chain) = Len(nodes) /\ Chain[Len(nodes)] = Len(nodes)
    BY <1>1, <2>1, ChainIs
  <2>. QED  BY <1>3, <2>2 DEF LastNode, Last
<1>. QED  BY <1>2, <1>3

LEMMA ListStart == ASSUME ListInv, StartKeys PROVE ListInv'
<1>1. /\ phase = "options" /\ optind <= Len(argv) /\ Opt = "s" /\ p' = LastNode /\ len' = 1
      /\ phase' = "keys" /\ UNCHANGED <<argv, optind, sorts, nodes>>
  BY DEF StartKeys, AtOption, Opt, Stop
<1>2. optind \in 1..Len(argv) /\ Arg \in Seq(Chars)
  BY <1>1, Arguments DEF ListInv, Arg
<1>3. p' = Len(nodes) /\ Len(nodes) \in Nat
  BY <1>1, LastNodeIs DEF ListInv, Linked
<1>4. 1 \in 1..(Len(Arg) + 1)
  BY <1>2
<1>5. Opt' = Opt /\ Arg' = Arg
  BY <1>1 DEF Opt, Arg
<1>. QED  BY <1>1, <1>2, <1>3, <1>4, <1>5 DEF ListInv, Linked, InOrder

\* The new node is the last one, and the one before it is linked to it.
LEMMA ListAdd ==
  ASSUME ListInv, AddKey
  PROVE  /\ ListInv' /\ Len(nodes') = Len(nodes) + 1
         /\ \A x \in 1..Len(nodes) : nodes'[x].func = nodes[x].func
         /\ nodes'[Len(nodes) + 1].func = Arg[len]
<1>. DEFINE n == Len(nodes)
            new == [func |-> Arg[len], next |-> NULL]
<1>1. /\ phase = "keys" /\ len <= Len(Arg) /\ p' = n + 1 /\ len' = len + 1
      /\ IF sorts = NULL
         THEN sorts' = n + 1 /\ nodes' = Append(nodes, new)
         ELSE sorts' = sorts /\ nodes' = Append([nodes EXCEPT ![p].next = n + 1], new)
      /\ UNCHANGED <<argv, optind>> /\ phase' \in {"keys", "exit"}
  BY DEF AddKey, Stop, CleanError, Exit
<1>2. /\ optind \in 1..Len(argv) /\ Opt = "s" /\ p = n /\ len \in 1..(Len(Arg) + 1)
      /\ Arg \in Seq(Chars)
  BY <1>1, Arguments DEF ListInv, Arg
<1>3. len \in 1..Len(Arg) /\ Arg[len] \in Chars
  BY <1>1, <1>2
<1>4. new \in [func : Chars, next : Nat]
  BY <1>3 DEF NULL
<1>. HIDE DEF new
<1>5. nodes \in Seq([func : Chars, next : Nat]) /\ n \in Nat /\ (nodes = << >> <=> n = 0)
  BY DEF ListInv, Linked
<1>6. CASE n = 0
  <2>1. nodes = << >> /\ sorts' = 1 /\ nodes' = <<new>>
    BY <1>1, <1>5, <1>6 DEF ListInv, Linked
  <2>2. new.next = 0
    BY DEF new, NULL
  <2>3. Linked' /\ Len(nodes') = 1 /\ nodes'[1] = new
    BY <1>4, <2>1, <2>2 DEF Linked, InOrder
  <2>4. ListInv'
    BY <1>1, <1>2, <1>3, <1>6, <2>1, <2>3 DEF ListInv, Opt, Arg
  <2>. QED  BY <1>6, <2>3, <2>4 DEF new
<1>7. CASE n # 0
  <2>. DEFINE old == [nodes EXCEPT ![p].next = n + 1]
  <2>1. sorts = 1 /\ sorts' = 1 /\ nodes' = Append(old, new)
    <3>1. sorts = 1 /\ sorts # NULL
      BY <1>5, <1>7 DEF ListInv, Linked, NULL
    <3>. QED  BY <1>1, <3>1, Zenon
  <2>2. /\ old \in Seq([func : Chars, next : Nat]) /\ Len(old) = n
        /\ \A x \in 1..n : old[x].next = x + 1 /\ old[x].func = nodes[x].func
    <3>1. p \in 1..n /\ DOMAIN nodes = 1..n
      BY <1>2, <1>5, <1>7
    <3>2. \A x \in 1..n : nodes[x] \in [func : Chars, next : Nat]
      BY <1>5, ElementOfSeq
    <3>3. \A x \in 1..n : nodes[x].next = IF x = n THEN 0 ELSE x + 1
      BY DEF ListInv, Linked, InOrder
    <3>4. old \in [1..n -> [func : Chars, next : Nat]]
      BY <1>5, <3>1, <3>2
    <3>5. old \in Seq([func : Chars, next : Nat]) /\ Len(old) = n
      BY <1>5, <3>4
    <3>6. ASSUME NEW x \in 1..n PROVE old[x].next = x + 1 /\ old[x].func = nodes[x].func
      BY <1>2, <3>1, <3>2, <3>3
    <3>. QED  BY <3>5, <3>6
  <2>. HIDE DEF old
  <2>3. /\ nodes' \in Seq([func : Chars, next : Nat]) /\ Len(nodes') = n + 1
        /\ \A x \in 1..n : nodes'[x] = old[x]
        /\ nodes'[n + 1] = new
    BY <1>4, <1>5, <2>1, <2>2, AppendProperties
  <2>4. new.next = 0
    BY DEF new, NULL
  <2>5. InOrder(nodes', n + 1)
    <3>1. \A x \in 1..(n + 1) : x \in 1..n \/ x = n + 1
      BY <1>5
    <3>. QED  BY <1>5, <2>2, <2>3, <2>4, <3>1 DEF InOrder
  <2>6. Linked'
    BY <1>5, <2>1, <2>3, <2>5 DEF Linked, InOrder
  <2>7. ListInv'
    BY <1>1, <1>2, <1>3, <1>5, <2>3, <2>6 DEF ListInv, Opt, Arg
  <2>8. \A x \in 1..n : nodes'[x].func = nodes[x].func
    BY <2>2, <2>3
  <2>9. nodes'[n + 1].func = Arg[len]
    BY <2>3 DEF new
  <2>. QED  BY <2>3, <2>7, <2>8, <2>9
<1>. QED  BY <1>6, <1>7

LEMMA ListNext == ListInv /\ [Next]_vars => ListInv'
<1>. SUFFICES ASSUME ListInv, [Next]_vars PROVE ListInv'
  OBVIOUS
<1>1. CASE OtherActions
  BY <1>1, OtherActionsAre, ListSame DEF list
<1>2. CASE UNCHANGED vars
  BY <1>2 DEF vars, ListInv, Linked, InOrder, Opt, Arg
<1>. QED  BY <1>1, <1>2, ListStart, ListAdd DEF Next, Step, Terminated, OtherActions

LEMMA ListAlways == Spec => []ListInv
BY ListInit, ListNext, PTL DEF Spec

-----------------------------------------------------------------------------
(* The memory *)

Reserved == Blocks \ Block({"leases"})
KeyNodes == {Node(x) : x \in 1..Len(nodes)}

\* Where main may still use the memory.
Live == {"options", "keys", "text", "config", "leases", "count", "sort", "open", "print", "clean_up"}

\* All that there is: what has been reserved, the leases, and the nodes made.
Whole == heap = Reserved \cup delete_all_leases \cup KeyNodes
MemoryInv ==
  /\ heap \subseteq Blocks \cup KeyNodes
  /\ phase \in Live => Whole
  /\ phase = "return" => heap = {}

LEMMA NodesOfChain == ASSUME Linked PROVE {Node(x) : x \in Range(Chain)} = KeyNodes
<1>1. Len(nodes) \in Nat
  BY DEF Linked
<1>2. Range([x \in 1..Len(nodes) |-> x]) = 1..Len(nodes)
  BY <1>1 DEF Range
<1>. QED  BY <1>2, ChainIs DEF KeyNodes

LEMMA ReleasedIs == ASSUME Linked PROVE Released = Reserved \cup delete_all_leases \cup KeyNodes
BY NodesOfChain DEF Released, Reserved

LEMMA MemoryInit == Init => MemoryInv
<1>. SUFFICES ASSUME Init PROVE MemoryInv
  OBVIOUS
<1>1. heap = Reserved /\ nodes = << >> /\ phase = "options"
  BY DEF Init, Reserved
<1>2. KeyNodes = {}
  BY <1>1 DEF KeyNodes
<1>3. delete_all_leases = {}
  BY <1>1 DEF delete_all_leases, Reserved
<1>. QED  BY <1>1, <1>2, <1>3 DEF MemoryInv, Whole, Reserved

\* clean_up leaves nothing where all was there.
LEMMA CleanUpAll ==
  ASSUME Linked, Whole, clean_up PROVE heap' = {} /\ touched' = heap
BY ReleasedIs DEF clean_up, Whole

\* A step that leaves the memory and the list of sort keys as they are.
LEMMA MemorySame ==
  ASSUME MemoryInv, UNCHANGED <<nodes, heap>>, phase' \in Live => phase \in Live, phase' # "return"
  PROVE  MemoryInv'
BY DEF MemoryInv, Whole, KeyNodes, delete_all_leases

\* A step that goes from a live phase to exit() and leaves what is there.
SetAction == SetFile \/ SetFlag \/ SetFormat \/ SetNumber \/ ShowText \/ UnknownOption
PrintAction == OpenReport \/ html_header \/ PrintLine \/ EndText \/ EndReport

LEMMA KeepsMemory ==
  ASSUME SetAction \/ StartKeys \/ EndKeys \/ SortAndFlip \/ PrintAction
  PROVE  UNCHANGED <<nodes, heap>> /\ phase \in Live /\ phase' # "return"
<1>1. CASE SetAction
  BY <1>1 DEF SetAction, SetFile, SetFlag, SetFormat, SetNumber, ShowText, UnknownOption, AtOption,
              NextOption, Stop, PlainError, Exit, list, Live
<1>2. CASE StartKeys \/ EndKeys \/ SortAndFlip
  BY <1>2 DEF StartKeys, EndKeys, SortAndFlip, AtOption, list, options, Live
<1>3. CASE PrintAction
  BY <1>3 DEF PrintAction, OpenReport, html_header, PrintLine, EndText, EndReport, Exit, list,
              options, Live
<1>. QED  BY <1>1, <1>2, <1>3

LEMMA TouchSet ==
  ASSUME SetAction, Whole PROVE touched' \subseteq heap
<1>1. CASE SetFile
  <2>1. touched' = Block({BufferOf(Opt)}) /\ Opt \in FileOptions
    BY <1>1 DEF SetFile, AtOption, Opt
  <2>2. BufferOf(Opt) \in {"dhcpdconf_file", "dhcpdlease_file", "output_file"}
    BY <2>1 DEF BufferOf, FileOptions
  <2>. QED  BY <2>1, <2>2 DEF Whole, Reserved, Blocks, Block
<1>2. CASE SetFlag \/ SetFormat \/ SetNumber \/ ShowText \/ UnknownOption
  BY <1>2 DEF SetFlag, SetFormat, SetNumber, ShowText, UnknownOption, PlainError
<1>. QED  BY <1>1, <1>2 DEF SetAction

LEMMA ReadingIsThere == ASSUME Whole PROVE Reading \subseteq heap
<1>1. Block(Leases) \subseteq heap
  BY DEF Block, Leases
<1>2. Block({"output_file", "ranges", "shared_networks", "names"}) \subseteq heap
  BY DEF Whole, Reserved, Blocks, Block
<1>. QED  BY <1>1, <1>2 DEF Reading, Block

LEMMA TouchPrint ==
  ASSUME PrintAction, Whole PROVE touched' \subseteq heap
<1>1. CASE OpenReport
  <2>1. touched' = Block({"output_file"})
    BY <1>1 DEF OpenReport
  <2>. QED  BY <2>1 DEF Whole, Reserved, Blocks, Block
<1>2. CASE PrintLine
  BY <1>2, ReadingIsThere DEF PrintLine
<1>3. CASE EndText \/ EndReport
  BY <1>3 DEF EndText, EndReport
<1>4. CASE html_header
  <2>1. touched' = Block({"output_file", "ranges", "dhcpdlease_file"})
    BY <1>4 DEF html_header
  <2>. QED  BY <2>1 DEF Whole, Reserved, Blocks, Block
<1>. QED  BY <1>1, <1>2, <1>3, <1>4 DEF PrintAction

\* A phase adds the leases or nothing.
LEMMA LeasesAdded ==
  ASSUME MemoryInv, phase \in Live, phase' \in Live \cup {"exit"}, UNCHANGED nodes,
         NEW S \in SUBSET {"leases"}, heap' = heap \cup Block(S)
  PROVE  MemoryInv'
<1>1. KeyNodes' = KeyNodes /\ Whole
  BY DEF KeyNodes, MemoryInv
<1>2. Block(S) \subseteq Block({"leases"})
  BY DEF Block
<1>3. heap' = Reserved \cup delete_all_leases' \cup KeyNodes'
  BY <1>1, <1>2 DEF Whole, delete_all_leases
<1>4. heap' \subseteq Blocks \cup KeyNodes'
  BY <1>3 DEF Reserved, delete_all_leases, Blocks, Block
<1>. QED  BY <1>3, <1>4 DEF MemoryInv, Whole, Live

LEMMA PhasesAre ==
  ASSUME parse_config \/ parse_leases \/ do_counting
  PROVE  /\ phase \in Live /\ phase' \in Live \cup {"exit"} /\ UNCHANGED nodes
         /\ \E S \in SUBSET {"leases"} : heap' = heap \cup Block(S)
         /\ touched' \in {{}, Block({"dhcpdconf_file", "ranges", "shared_networks", "names"}),
                          Block({"dhcpdlease_file"}),
                          Block({"ranges", "shared_networks"} \cup Leases)}
<1>1. heap = heap \cup Block({})
  BY DEF Block
<1>2. CASE parse_config
  BY <1>1, <1>2 DEF parse_config, Phase, PlainError, Exit, Live, options, list
<1>3. CASE parse_leases
  BY <1>1, <1>3 DEF parse_leases, Phase, PlainError, Exit, Live, options, list
<1>4. CASE do_counting
  BY <1>1, <1>4 DEF do_counting, Phase, PlainError, Exit, Live, options, list
<1>. QED  BY <1>2, <1>3, <1>4

LEMMA PhasesKeep ==
  ASSUME MemoryInv, parse_config \/ parse_leases \/ do_counting
  PROVE  MemoryInv' /\ touched' \subseteq heap
<1>1. Whole
  BY PhasesAre DEF MemoryInv
<1>2. Block(Leases) \subseteq heap
  BY DEF Block, Leases
<1>3. \A S \in SUBSET {"dhcpdconf_file", "dhcpdlease_file", "ranges", "shared_networks", "names"} :
        Block(S) \subseteq heap
  BY <1>1 DEF Whole, Reserved, Blocks, Block
<1>4. Block({"ranges", "shared_networks"} \cup Leases) \subseteq heap
  BY <1>2, <1>3 DEF Block
<1>5. touched' \subseteq heap
  BY <1>3, <1>4, PhasesAre
<1>. QED  BY <1>5, PhasesAre, LeasesAdded

\* The node that the last one is linked to is the new one, and it is freed
\* with the others if it is for nothing.
LEMMA AddKeyKeeps ==
  ASSUME ListInv, MemoryInv, AddKey PROVE MemoryInv' /\ touched' \subseteq heap
<1>. DEFINE n == Len(nodes)
<1>1. Linked /\ n \in Nat /\ p = n /\ phase = "keys" /\ Whole
  BY DEF ListInv, Linked, AddKey, MemoryInv, Live
<1>2. Len(nodes') = n + 1
  BY ListAdd
<1>3. KeyNodes' = KeyNodes \cup {Node(n + 1)}
  BY <1>1, <1>2 DEF KeyNodes
<1>4. CASE Arg[len] \in SortFields
  <2>1. heap' = heap \cup {Node(n + 1)} /\ touched' = (IF sorts = NULL THEN {} ELSE {Node(p)})
    BY <1>4 DEF AddKey
  <2>2. Node(n + 1) \notin Block({"leases"})
    BY DEF Node, Block
  <2>3. delete_all_leases' = delete_all_leases
    BY <2>1, <2>2 DEF delete_all_leases
  <2>4. sorts # NULL => p \in 1..n
    BY <1>1 DEF Linked, NULL
  <2>5. touched' \subseteq heap
    BY <1>1, <2>1, <2>4 DEF Whole, KeyNodes
  <2>6. Whole' /\ heap' \subseteq Blocks \cup KeyNodes'
    BY <1>1, <1>3, <2>1, <2>3 DEF Whole, MemoryInv
  <2>. QED  BY <1>1, <1>4, <2>5, <2>6 DEF MemoryInv, AddKey
<1>5. CASE Arg[len] \notin SortFields
  <2>1. clean_up /\ phase' = "exit"
    BY <1>5 DEF AddKey, CleanError, Exit
  <2>. QED  BY <1>1, <2>1, CleanUpAll DEF MemoryInv, Live
<1>. QED  BY <1>4, <1>5

LEMMA CleanKeeps ==
  ASSUME ListInv, MemoryInv, SetLimit \/ SelectFormat \/ CleanUp
  PROVE  MemoryInv' /\ touched' \subseteq heap
<1>1. Linked /\ phase \in {"options", "clean_up"} /\ UNCHANGED nodes
  BY DEF ListInv, SetLimit, SelectFormat, CleanUp, AtOption, list, options
<1>2. Whole
  BY <1>1 DEF MemoryInv, Live
<1>3. CASE clean_up /\ phase' \notin Live
  BY <1>1, <1>2, <1>3, CleanUpAll DEF MemoryInv
<1>4. CASE UNCHANGED heap /\ touched' = {} /\ phase' # "return"
  BY <1>1, <1>4, MemorySame DEF Live
<1>5. CASE SetLimit
  BY <1>3, <1>4, <1>5, <1>1 DEF SetLimit, NextOption, CleanError, Exit, Live, AtOption
<1>6. CASE SelectFormat
  BY <1>3, <1>4, <1>6 DEF SelectFormat, CleanError, PlainError, Exit, Live
<1>7. CASE CleanUp
  BY <1>3, <1>7 DEF CleanUp, Live
<1>. QED  BY <1>5, <1>6, <1>7

LEMMA MemoryNext ==
  ASSUME ListInv, MemoryInv, [Next]_vars
  PROVE  MemoryInv' /\ (UNCHANGED vars \/ touched' \subseteq heap)
<1>1. CASE SetAction \/ StartKeys \/ EndKeys \/ SortAndFlip \/ PrintAction
  <2>1. UNCHANGED <<nodes, heap>> /\ phase \in Live /\ phase' # "return"
    BY <1>1, KeepsMemory
  <2>2. Whole /\ Linked
    BY <2>1 DEF MemoryInv, ListInv
  <2>3. touched' \subseteq heap
    <3>1. CASE SetAction \/ PrintAction
      BY <2>2, <3>1, TouchSet, TouchPrint
    <3>2. CASE StartKeys
      BY <2>2, <3>2, NodesOfChain DEF StartKeys, Whole
    <3>3. CASE EndKeys
      BY <3>3 DEF EndKeys
    <3>4. CASE SortAndFlip
      <4>1. touched' = Block({"ranges", "shared_networks", "names"}) \cup KeyNodes
        BY <2>2, <3>4, NodesOfChain DEF SortAndFlip
      <4>. QED  BY <2>2, <4>1 DEF Whole, Reserved, Blocks, Block
    <3>. QED  BY <1>1, <3>1, <3>2, <3>3, <3>4
  <2>. QED  BY <2>1, <2>3, MemorySame
<1>2. CASE close_stdout
  <2>1. UNCHANGED <<nodes, heap>> /\ touched' = {} /\ phase' = "gone"
    BY <1>2 DEF close_stdout, options, list
  <2>. QED  BY <2>1, MemorySame DEF Live
<1>3. CASE UNCHANGED vars
  <2>1. UNCHANGED <<nodes, heap, phase>>
    BY <1>3 DEF vars
  <2>2. MemoryInv'
    BY <2>1 DEF MemoryInv, Whole, KeyNodes, delete_all_leases
  <2>. QED  BY <1>3, <2>2
<1>. QED  BY <1>1, <1>2, <1>3, PhasesKeep, AddKeyKeeps, CleanKeeps
          DEF Next, Step, Terminated, SetAction, PrintAction

LEMMA MemoryAlways == Spec => [](ListInv /\ MemoryInv)
<1>1. Init => ListInv /\ MemoryInv
  BY ListInit, MemoryInit
<1>2. ListInv /\ MemoryInv /\ [Next]_vars => (ListInv /\ MemoryInv)'
  BY ListNext, MemoryNext
<1>. QED  BY <1>1, <1>2, PTL DEF Spec

(* When main returns there is nothing left on the heap: whatever the command
   line, every node of the list of sort keys is found on the walk along it. *)
THEOREM EverythingReleased == Spec => []AllReleased
<1>1. MemoryInv => AllReleased
  BY DEF MemoryInv, AllReleased
<1>. QED  BY <1>1, MemoryAlways, PTL

(* No step uses what has been released. *)
THEOREM ReleasedIsNotUsed == Spec => NothingUsedAfterRelease
<1>1. ListInv /\ MemoryInv /\ [Next]_vars => [touched' \subseteq heap]_vars
  BY MemoryNext
<1>. QED  BY <1>1, MemoryAlways, PTL DEF Spec, NothingUsedAfterRelease

-----------------------------------------------------------------------------
(* The options *)

IsFlat(f, seqs, n) == f = [i \in 1..n |-> IF i = 1 THEN seqs[i] ELSE f[i - 1] \o seqs[i]]

LEMMA FlatExists == ASSUME NEW seqs PROVE \A n \in Nat : \E f : IsFlat(f, seqs, n)
<1>. DEFINE T == {n \in Nat : \E f : IsFlat(f, seqs, n)}
<1>1. 0 \in T
  <2>1. IsFlat([i \in 1..0 |-> 0], seqs, 0)
    BY DEF IsFlat
  <2>. QED  BY <2>1
<1>2. ASSUME NEW n \in Nat, n \in T PROVE n + 1 \in T
  <2>1. PICK f : IsFlat(f, seqs, n)
    BY <1>2
  <2>. DEFINE g == [i \in 1..(n + 1) |->
                      IF i <= n THEN f[i] ELSE IF i = 1 THEN seqs[i] ELSE f[i - 1] \o seqs[i]]
  <2>2. \A i \in 1..n : g[i] = f[i]
    OBVIOUS
  <2>3. \A i \in 1..n : f[i] = IF i = 1 THEN seqs[i] ELSE f[i - 1] \o seqs[i]
    BY <2>1, Zenon DEF IsFlat
  <2>4. \A i \in 1..(n + 1) : i # 1 => i - 1 \in 1..n
    OBVIOUS
  <2>5. \A i \in 1..(n + 1) : g[i] = IF i = 1 THEN seqs[i] ELSE f[i - 1] \o seqs[i]
    BY <2>3
  <2>6. \A i \in 1..(n + 1) : g[i] = IF i = 1 THEN seqs[i] ELSE g[i - 1] \o seqs[i]
    <3>. HIDE DEF g
    <3>. QED  BY <2>2, <2>4, <2>5
  <2>7. g = [i \in 1..(n + 1) |-> g[i]]
    OBVIOUS
  <2>. HIDE DEF g
  <2>8. [i \in 1..(n + 1) |-> g[i]]
          = [i \in 1..(n + 1) |-> IF i = 1 THEN seqs[i] ELSE g[i - 1] \o seqs[i]]
    BY <2>6
  <2>9. IsFlat(g, seqs, n + 1)
    BY <2>7, <2>8 DEF IsFlat
  <2>. QED  BY <2>9
<1>. HIDE DEF T
<1>3. Nat \subseteq T
  BY <1>1, <1>2, Inductive
<1>. QED  BY <1>3 DEF T

\* What the -s among the first n arguments ask for.
KeySeqs == [x \in DOMAIN argv |-> IF argv[x].opt = "s" THEN argv[x].arg ELSE << >>]
Flat == CHOOSE f : IsFlat(f, KeySeqs, Len(KeySeqs))
KeysTo(n) == IF n = 0 THEN << >> ELSE Flat[n]

LEMMA KeySeqsAre ==
  ASSUME ListInv PROVE Len(argv) \in Nat /\ KeySeqs \in Seq(Seq(Chars)) /\ Len(KeySeqs) = Len(argv)
<1>1. \A x \in 1..Len(argv) : (IF argv[x].opt = "s" THEN argv[x].arg ELSE << >>) \in Seq(Chars)
  BY Arguments
<1>2. KeySeqs \in [1..Len(argv) -> Seq(Chars)]
  BY <1>1, Arguments DEF KeySeqs
<1>. QED  BY <1>2, Arguments

LEMMA KeysOfNext ==
  ASSUME ListInv, NEW n \in 1..Len(argv) PROVE KeysTo(n) = KeysTo(n - 1) \o KeySeqs[n]
<1>1. Len(argv) \in Nat /\ KeySeqs[n] \in Seq(Chars)
  BY KeySeqsAre, ElementOfSeq
<1>2. IsFlat(Flat, KeySeqs, Len(argv))
  BY <1>1, KeySeqsAre, FlatExists DEF Flat
<1>3. Flat[n] = IF n = 1 THEN KeySeqs[n] ELSE Flat[n - 1] \o KeySeqs[n]
  BY <1>2, Zenon DEF IsFlat
<1>4. CASE n = 1
  BY <1>1, <1>3, <1>4, ConcatEmptySeq DEF KeysTo
<1>5. CASE n # 1
  <2>1. n # 0 /\ n - 1 # 0
    BY <1>5
  <2>. QED  BY <1>3, <1>5, <2>1, Zenon DEF KeysTo
<1>. QED  BY <1>4, <1>5

LEMMA KeysAreSeqs == ASSUME ListInv PROVE \A n \in 0..Len(argv) : KeysTo(n) \in Seq(Chars)
<1>. DEFINE T == {n \in Nat : n <= Len(argv) => KeysTo(n) \in Seq(Chars)}
<1>1. 0 \in T
  BY DEF KeysTo
<1>2. ASSUME NEW n \in Nat, n \in T PROVE n + 1 \in T
  <2>. SUFFICES ASSUME n + 1 <= Len(argv) PROVE KeysTo(n + 1) \in Seq(Chars)
    OBVIOUS
  <2>1. n + 1 \in 1..Len(argv) /\ (n + 1) - 1 = n /\ KeysTo(n) \in Seq(Chars)
    BY <1>2, KeySeqsAre
  <2>2. KeySeqs[n + 1] \in Seq(Chars)
    BY <2>1, KeySeqsAre, ElementOfSeq
  <2>3. KeysTo(n + 1) = KeysTo(n) \o KeySeqs[n + 1]
    BY <2>1, KeysOfNext
  <2>. QED  BY <2>1, <2>2, <2>3, ConcatProperties
<1>. HIDE DEF T
<1>3. Nat \subseteq T
  BY <1>1, <1>2, Inductive
<1>. QED  BY <1>3, KeySeqsAre DEF T

LEMMA AllKeysAre == ASSUME ListInv PROVE KeysTo(Len(argv)) = FlattenSeq(KeySeqs)
<1>1. CASE Len(argv) = 0
  BY <1>1, KeySeqsAre DEF KeysTo, FlattenSeq
<1>2. CASE Len(argv) # 0
  <2>1. Len(KeySeqs) # 0 /\ Len(KeySeqs) = Len(argv)
    BY <1>2, KeySeqsAre
  <2>2. FlattenSeq(KeySeqs) = Flat[Len(KeySeqs)]
    BY <2>1, Zenon DEF FlattenSeq, Flat, IsFlat
  <2>. QED  BY <2>1, <2>2 DEF KeysTo
<1>. QED  BY <1>1, <1>2

\* What the first n arguments a say of the options O: nothing, or what the
\* last one of them says.
NoneOf(a, O, n) == \A x \in 1..n : a[x].opt \notin O
IsLast(a, O, n, x) ==
  x \in 1..n /\ a[x].opt \in O /\ \A y \in 1..n : a[y].opt \in O => y <= x
IsGiven(a, O, n, value, default) ==
  \/ NoneOf(a, O, n) /\ value = default
  \/ \E x : IsLast(a, O, n, x) /\ value = a[x].arg

TableIs(a, S, table, n) ==
  DOMAIN table = S /\ \A o \in S : IsGiven(a, {o}, n, table[o], Default)
LimitsAre(a, l, n) == \E value : IsGiven(a, {"L"}, n, value, OUTPUT_LIMIT) /\ l = SubSeq(value, 1, 2)
FlagsAre(a, f, n) == f = {a[x].opt : x \in {y \in 1..n : a[y].opt \in Flags}}
FormatIs(a, f, n) ==
  \/ NoneOf(a, FormatSetters, n) /\ f = OUTPUT_FORMAT
  \/ \E x : IsLast(a, FormatSetters, n, x)
            /\ f = IF a[x].opt = "f" THEN a[x].arg ELSE <<"a">>

LEMMA OneMore ==
  ASSUME NEW a, NEW n \in Nat, NEW O
  PROVE  /\ a[n + 1].opt \notin O =>
              /\ NoneOf(a, O, n) => NoneOf(a, O, n + 1)
              /\ \A x : IsLast(a, O, n, x) => IsLast(a, O, n + 1, x)
         /\ a[n + 1].opt \in O => IsLast(a, O, n + 1, n + 1)
<1>1. \A y \in 1..(n + 1) : y <= n + 1 /\ (y \in 1..n \/ y = n + 1)
  OBVIOUS
<1>2. n + 1 \in 1..(n + 1) /\ \A x \in 1..n : x \in 1..(n + 1)
  OBVIOUS
<1>. QED  BY <1>1, <1>2, Zenon DEF NoneOf, IsLast

LEMMA GivenMore ==
  ASSUME NEW a, NEW n \in Nat, NEW O, NEW default
  PROVE  /\ a[n + 1].opt \notin O =>
              \A value : IsGiven(a, O, n, value, default) => IsGiven(a, O, n + 1, value, default)
         /\ a[n + 1].opt \in O => IsGiven(a, O, n + 1, a[n + 1].arg, default)
BY OneMore, Zenon DEF IsGiven

LEMMA TableMore ==
  ASSUME NEW a, NEW n \in Nat, NEW S, NEW table, TableIs(a, S, table, n), NEW o, o = a[n + 1].opt
  PROVE  /\ o \notin S => TableIs(a, S, table, n + 1)
         /\ o \in S => TableIs(a, S, [table EXCEPT ![o] = a[n + 1].arg], n + 1)
<1>1. ASSUME NEW q \in S, o # q PROVE IsGiven(a, {q}, n + 1, table[q], Default)
  BY <1>1, GivenMore DEF TableIs
<1>2. IsGiven(a, {o}, n + 1, a[n + 1].arg, Default)
  BY GivenMore
<1>3. CASE o \notin S
  BY <1>1, <1>3 DEF TableIs
<1>4. CASE o \in S
  <2>. DEFINE new == [table EXCEPT ![o] = a[n + 1].arg]
  <2>1. DOMAIN new = S /\ new[o] = a[n + 1].arg /\ \A q \in S : q # o => new[q] = table[q]
    BY <1>4 DEF TableIs
  <2>. HIDE DEF new
  <2>2. \A q \in S : IsGiven(a, {q}, n + 1, new[q], Default)
    BY <1>1, <1>2, <2>1
  <2>3. TableIs(a, S, new, n + 1)
    BY <2>1, <2>2 DEF TableIs
  <2>. QED  BY <1>4, <2>3 DEF new
<1>. QED  BY <1>3, <1>4

LEMMA LimitsMore ==
  ASSUME NEW a, NEW n \in Nat, NEW l
  PROVE  /\ a[n + 1].opt # "L" => (LimitsAre(a, l, n) => LimitsAre(a, l, n + 1))
         /\ a[n + 1].opt = "L" => LimitsAre(a, SubSeq(a[n + 1].arg, 1, 2), n + 1)
<1>1. a[n + 1].opt # "L" => a[n + 1].opt \notin {"L"}
  OBVIOUS
<1>2. a[n + 1].opt = "L" => a[n + 1].opt \in {"L"}
  OBVIOUS
<1>. QED  BY <1>1, <1>2, GivenMore, Zenon DEF LimitsAre

LEMMA FlagsMore ==
  ASSUME NEW a, NEW n \in Nat, NEW f, FlagsAre(a, f, n)
  PROVE  /\ a[n + 1].opt \notin Flags => FlagsAre(a, f, n + 1)
         /\ a[n + 1].opt \in Flags => FlagsAre(a, f \cup {a[n + 1].opt}, n + 1)
<1>1. 1..(n + 1) = 1..n \cup {n + 1}
  OBVIOUS
<1>. HIDE DEF Flags
<1>. QED  BY <1>1, Zenon DEF FlagsAre

LEMMA FormatMore ==
  ASSUME NEW a, NEW n \in Nat, NEW f
  PROVE  /\ a[n + 1].opt \notin FormatSetters => (FormatIs(a, f, n) => FormatIs(a, f, n + 1))
         /\ a[n + 1].opt \in FormatSetters =>
              FormatIs(a, IF a[n + 1].opt = "f" THEN a[n + 1].arg ELSE <<"a">>, n + 1)
BY OneMore, Zenon DEF FormatIs

LEMMA OccurrencesAre ==
  ASSUME ListInv, NEW O
  PROVE  /\ NoneOf(argv, O, Len(argv)) => Occurrences(O) = {}
         /\ \A x : IsLast(argv, O, Len(argv), x) => Occurrences(O) # {} /\ LastOf(O) = x
<1>1. Occurrences(O) = {x \in 1..Len(argv) : argv[x].opt \in O} /\ Len(argv) \in Nat
  BY Arguments DEF Occurrences
<1>2. ASSUME NEW x, IsLast(argv, O, Len(argv), x) PROVE Occurrences(O) # {} /\ LastOf(O) = x
  <2>1. x \in Occurrences(O) /\ \A y \in Occurrences(O) : y <= x
    BY <1>1, <1>2 DEF IsLast
  <2>2. \A z \in Occurrences(O) : (\A y \in Occurrences(O) : y <= z) => z = x
    <3>1. \A y, z \in Occurrences(O) : y <= z /\ z <= y => y = z
      BY <1>1
    <3>. QED  BY <2>1, <3>1
  <2>. HIDE DEF Occurrences
  <2>. QED  BY <2>1, <2>2 DEF LastOf
<1>. QED  BY <1>1, <1>2 DEF NoneOf

LEMMA GivenIs ==
  ASSUME ListInv, NEW O, NEW value, NEW default, IsGiven(argv, O, Len(argv), value, default)
  PROVE  value = Given(O, default)
BY OccurrencesAre, Zenon DEF IsGiven, Given

\* The settings are what the first n arguments say.
SettingsAre(n) ==
  /\ TableIs(argv, FileOptions, files, n)
  /\ TableIs(argv, NumberOptions, numbers, n)
  /\ LimitsAre(argv, limits, n)
  /\ FlagsAre(argv, flags, n)
  /\ FormatIs(argv, format, n)

\* The options taken so far have done what they say, and after the last one
\* nothing changes the settings; len is at the next field of a -s.
Funcs == [x \in 1..Len(nodes) |-> nodes[x].func]
After == {"config", "leases", "count", "sort", "open", "print", "clean_up"}
OptionInv ==
  /\ phase \in {"options", "keys"} \cup After => SettingsAre(optind - 1)
  /\ phase \in {"options"} \cup After => Funcs = KeysTo(optind - 1)
  /\ phase = "keys" => Funcs = KeysTo(optind - 1) \o SubSeq(Arg, 1, len - 1)
  /\ phase \in After => optind = Len(argv) + 1

LEMMA FirstTwo ==
  ASSUME NEW S, NEW s \in Seq(S), Len(s) >= 2 PROVE SubSeq(s, 1, 2) = <<s[1], s[2]>>
<1>1. \A i \in 1..2 : s[i] \in S
  BY ElementOfSeq
<1>2. /\ SubSeq(s, 1, 2) \in Seq(S) /\ Len(SubSeq(s, 1, 2)) = 2
      /\ \A i \in 1..2 : SubSeq(s, 1, 2)[i] = s[i]
  BY <1>1, SubSeqProperties
<1>3. <<s[1], s[2]>> \in Seq(S) /\ Len(<<s[1], s[2]>>) = 2
  BY <1>1
<1>4. SubSeq(s, 1, 2)[1] = s[1] /\ SubSeq(s, 1, 2)[2] = s[2]
  BY <1>2
<1>5. \A i \in 1..2 : SubSeq(s, 1, 2)[i] = <<s[1], s[2]>>[i]
  BY <1>4
<1>. QED  BY <1>2, <1>3, <1>5, SeqEqual

LEMMA OptionInit == ASSUME Init PROVE OptionInv
<1>1. optind - 1 = 0 /\ phase = "options" /\ nodes = << >> /\ Funcs = << >>
  BY DEF Init, Funcs
<1>2. \A a, O : NoneOf(a, O, 0)
  BY DEF NoneOf
<1>3. TableIs(argv, FileOptions, files, 0) /\ TableIs(argv, NumberOptions, numbers, 0)
  BY <1>2 DEF Init, TableIs, IsGiven
<1>4. LimitsAre(argv, limits, 0)
  <2>1. SubSeq(OUTPUT_LIMIT, 1, 2) = OUTPUT_LIMIT
    <3>1. OUTPUT_LIMIT \in Seq({"7"}) /\ Len(OUTPUT_LIMIT) = 2
      BY DEF OUTPUT_LIMIT
    <3>2. SubSeq(OUTPUT_LIMIT, 1, 2) = <<OUTPUT_LIMIT[1], OUTPUT_LIMIT[2]>>
      BY <3>1, FirstTwo
    <3>. QED  BY <3>2 DEF OUTPUT_LIMIT
  <2>. QED  BY <1>2, <2>1 DEF Init, LimitsAre, IsGiven
<1>5. FlagsAre(argv, flags, 0) /\ FormatIs(argv, format, 0)
  BY <1>2 DEF Init, FlagsAre, FormatIs
<1>. QED  BY <1>1, <1>3, <1>4, <1>5 DEF OptionInv, SettingsAre, KeysTo, After

\* What one option does to the settings.
Taken(o, arg) ==
  /\ files' = IF o \in FileOptions THEN [files EXCEPT ![o] = arg] ELSE files
  /\ numbers' = IF o \in NumberOptions THEN [numbers EXCEPT ![o] = arg] ELSE numbers
  /\ limits' = IF o = "L" THEN SubSeq(arg, 1, 2) ELSE limits
  /\ flags' = IF o \in Flags THEN flags \cup {o} ELSE flags
  /\ format' = IF o \in FormatSetters THEN IF o = "f" THEN arg ELSE <<"a">> ELSE format

LEMMA SettingsNext ==
  ASSUME optind \in Nat \ {0}, SettingsAre(optind - 1), Taken(Opt, Arg),
         argv' = argv, optind' = optind + 1
  PROVE  SettingsAre(optind - 1)'
<1>. DEFINE n == optind - 1
<1>1. n \in Nat /\ n + 1 = optind /\ (optind - 1)' = n + 1
  OBVIOUS
<1>2. Opt = argv[n + 1].opt /\ Arg = argv[n + 1].arg
  BY DEF Opt, Arg
<1>3. TableIs(argv, FileOptions, files', n + 1) /\ TableIs(argv, NumberOptions, numbers', n + 1)
  BY <1>1, <1>2, TableMore DEF SettingsAre, Taken
<1>4. LimitsAre(argv, limits', n + 1) /\ FlagsAre(argv, flags', n + 1) /\ FormatIs(argv, format', n + 1)
  BY <1>1, <1>2, LimitsMore, FlagsMore, FormatMore DEF SettingsAre, Taken
<1>. QED  BY <1>1, <1>3, <1>4 DEF SettingsAre

LEMMA SettingsSame ==
  ASSUME UNCHANGED <<argv, optind, config>> PROVE SettingsAre(optind - 1)' = SettingsAre(optind - 1)
BY DEF SettingsAre, config

LEMMA KeysSame ==
  ASSUME argv' = argv PROVE \A n : KeysTo(n)' = KeysTo(n)
BY DEF KeysTo, Flat, KeySeqs

\* The options that are done in one step.
LEMMA OptionTaken ==
  ASSUME ListInv, OptionInv, AtOption(Options \ {"s"}), Taken(Opt, Arg), argv' = argv,
         optind' = optind + 1, phase' = phase, UNCHANGED nodes
  PROVE  OptionInv'
<1>1. optind \in 1..Len(argv) /\ Len(argv) \in Nat /\ phase = "options" /\ Opt # "s"
  BY Arguments DEF AtOption, ListInv, Opt
<1>2. SettingsAre(optind - 1)'
  BY <1>1, SettingsNext DEF OptionInv
<1>3. KeySeqs[optind] = << >>
  BY <1>1, Arguments DEF KeySeqs, Opt
<1>4. KeysTo(optind) = KeysTo(optind - 1) /\ optind' - 1 = optind
  <2>1. KeysTo(optind) = KeysTo(optind - 1) \o << >>
    BY <1>1, <1>3, KeysOfNext
  <2>2. optind - 1 \in 0..Len(argv)
    BY <1>1
  <2>3. KeysTo(optind - 1) \in Seq(Chars)
    BY <2>2, KeysAreSeqs
  <2>. QED  BY <1>1, <2>1, <2>3, ConcatEmptySeq
<1>5. Funcs' = KeysTo(optind - 1)'
  BY <1>1, <1>4, KeysSame DEF OptionInv, Funcs
<1>. QED  BY <1>1, <1>2, <1>5 DEF OptionInv, After

LEMMA OptionActions ==
  ASSUME ListInv, OptionInv, SetFile \/ SetFlag \/ SetFormat \/ SetNumber \/ SetLimit
  PROVE  OptionInv'
<1>1. CASE phase' = "exit"
  BY <1>1 DEF OptionInv, After
<1>2. CASE SetFile
  <2>1. AtOption(FileOptions) /\ NextOption /\ UNCHANGED <<numbers, flags, limits, format, nodes>>
        /\ files' = [files EXCEPT ![Opt] = Arg]
    BY <1>2 DEF SetFile, list
  <2>2. Opt \in FileOptions
    BY <2>1 DEF AtOption, Opt
  <2>3. Taken(Opt, Arg)
    BY <2>1, <2>2 DEF Taken, FileOptions, NumberOptions, AlarmLimits, Flags, FormatSetters
  <2>4. AtOption(Options \ {"s"})
    BY <2>1 DEF AtOption, Options, FileOptions
  <2>. QED  BY <2>1, <2>3, <2>4, OptionTaken DEF NextOption
<1>3. CASE SetFlag
  <2>1. AtOption(Flags) /\ NextOption /\ UNCHANGED <<files, numbers, limits, format, nodes>>
        /\ flags' = flags \cup {Opt}
    BY <1>3 DEF SetFlag, list
  <2>2. Opt \in Flags
    BY <2>1 DEF AtOption, Opt
  <2>3. Taken(Opt, Arg)
    BY <2>1, <2>2 DEF Taken, FileOptions, NumberOptions, AlarmLimits, Flags, FormatSetters
  <2>4. AtOption(Options \ {"s"})
    BY <2>1 DEF AtOption, Options, Flags
  <2>. QED  BY <2>1, <2>3, <2>4, OptionTaken DEF NextOption
<1>4. CASE SetFormat
  <2>1. AtOption({"f"}) /\ NextOption /\ UNCHANGED <<files, numbers, flags, limits, nodes>>
        /\ format' = Arg
    BY <1>4 DEF SetFormat, list
  <2>2. Opt = "f"
    BY <2>1 DEF AtOption, Opt
  <2>3. Taken(Opt, Arg)
    BY <2>1, <2>2 DEF Taken, FileOptions, NumberOptions, AlarmLimits, Flags, FormatSetters
  <2>4. AtOption(Options \ {"s"})
    BY <2>1 DEF AtOption, Options
  <2>. QED  BY <2>1, <2>3, <2>4, OptionTaken DEF NextOption
<1>5. CASE SetNumber /\ phase' # "exit"
  <2>1. AtOption(NumberOptions) /\ NextOption /\ UNCHANGED <<files, flags, limits, nodes>>
        /\ numbers' = [numbers EXCEPT ![Opt] = Arg]
        /\ format' = IF Opt \in AlarmLimits THEN <<"a">> ELSE format
    BY <1>5 DEF SetNumber, PlainError, Exit, list
  <2>2. Opt \in NumberOptions
    BY <2>1 DEF AtOption, Opt
  <2>3. Taken(Opt, Arg)
    BY <2>1, <2>2 DEF Taken, FileOptions, NumberOptions, AlarmLimits, Flags, FormatSetters
  <2>4. AtOption(Options \ {"s"})
    BY <2>1 DEF AtOption, Options, NumberOptions, AlarmLimits
  <2>. QED  BY <2>1, <2>3, <2>4, OptionTaken DEF NextOption
<1>6. CASE SetLimit /\ phase' # "exit"
  <2>1. AtOption({"L"}) /\ NextOption /\ UNCHANGED <<files, numbers, flags, format, nodes>>
        /\ Len(Arg) >= 2 /\ limits' = <<Arg[1], Arg[2]>>
    BY <1>6 DEF SetLimit, CleanError, Exit, list
  <2>2. Opt = "L" /\ Arg \in Seq(Chars)
    BY <2>1, Arguments DEF AtOption, Opt, Arg, ListInv
  <2>3. SubSeq(Arg, 1, 2) = <<Arg[1], Arg[2]>>
    BY <2>1, <2>2, FirstTwo
  <2>4. Taken(Opt, Arg)
    BY <2>1, <2>2, <2>3 DEF Taken, FileOptions, NumberOptions, AlarmLimits, Flags, FormatSetters
  <2>5. AtOption(Options \ {"s"})
    BY <2>1 DEF AtOption, Options
  <2>. QED  BY <2>1, <2>4, <2>5, OptionTaken DEF NextOption
<1>. QED  BY <1>1, <1>2, <1>3, <1>4, <1>5, <1>6

LEMMA StartKeysOptions == ASSUME ListInv, OptionInv, StartKeys PROVE OptionInv'
<1>1. /\ phase = "options" /\ phase' = "keys" /\ len' = 1 /\ UNCHANGED <<argv, optind, config, nodes>>
      /\ optind \in 1..Len(argv)
  BY Arguments DEF StartKeys, AtOption, Stop, ListInv
<1>2. KeysTo(optind - 1) \in Seq(Chars)
  <2>1. optind - 1 \in 0..Len(argv)
    BY <1>1, Arguments
  <2>. QED  BY <2>1, KeysAreSeqs
<1>3. SubSeq(Arg, 1, 0) = << >> /\ len' - 1 = 0
  BY <1>1, SubSeqEmpty
<1>4. Funcs' = KeysTo(optind - 1)' \o SubSeq(Arg', 1, len' - 1)
  BY <1>1, <1>2, <1>3, KeysSame, ConcatEmptySeq DEF OptionInv, Funcs, Arg
<1>5. SettingsAre(optind - 1)'
  BY <1>1, SettingsSame DEF OptionInv
<1>. QED  BY <1>1, <1>4, <1>5 DEF OptionInv, After

\* A key is added where its field stands in the argument.
LEMMA AddKeyOptions == ASSUME ListInv, OptionInv, AddKey PROVE OptionInv'
<1>. DEFINE n == Len(nodes)
<1>1. /\ phase = "keys" /\ len <= Len(Arg) /\ len' = len + 1 /\ phase' \in {"keys", "exit"}
      /\ UNCHANGED <<argv, optind, config>>
  BY DEF AddKey, Stop, CleanError, Exit
<1>2. optind \in 1..Len(argv) /\ Arg \in Seq(Chars) /\ len \in 1..Len(Arg) /\ n \in Nat
  BY <1>1, Arguments DEF ListInv, Arg, Linked
<1>3. /\ n' = n + 1
      /\ \A x \in 1..n : nodes'[x].func = nodes[x].func
      /\ nodes'[n + 1].func = Arg[len]
  BY ListAdd
<1>4. KeysTo(optind - 1) \in Seq(Chars)
  <2>1. optind - 1 \in 0..Len(argv)
    BY <1>2, Arguments
  <2>. QED  BY <2>1, KeysAreSeqs
<1>5. Arg[len] \in Chars
  BY <1>2, ElementOfSeq
<1>6. Funcs \in Seq(Chars) /\ Len(Funcs) = n
  <2>1. \A x \in 1..n : nodes[x].func \in Chars
    <3>1. nodes \in Seq([func : Chars, next : Nat])
      BY DEF ListInv, Linked
    <3>2. \A x \in 1..n : nodes[x] \in [func : Chars, next : Nat]
      BY <3>1, ElementOfSeq
    <3>. HIDE DEF Chars
    <3>. QED  BY <3>2
  <2>2. Funcs \in [1..n -> Chars]
    BY <2>1 DEF Funcs
  <2>. QED  BY <1>2, <2>2
<1>7. Funcs' = Append(Funcs, Arg[len])
  <2>1. Funcs' = [x \in 1..(n + 1) |-> nodes'[x].func]
    BY <1>3 DEF Funcs
  <2>2. \A x \in 1..(n + 1) : nodes'[x].func = IF x \in 1..n THEN Funcs[x] ELSE Arg[len]
    <3>1. \A x \in 1..(n + 1) : x \in 1..n \/ x = n + 1
      BY <1>2
    <3>2. \A x \in 1..n : Funcs[x] = nodes[x].func
      BY DEF Funcs
    <3>3. n + 1 \notin 1..n
      BY <1>2
    <3>. QED  BY <1>3, <3>1, <3>2, <3>3
  <2>. HIDE DEF Funcs
  <2>3. Funcs' \in [1..(n + 1) -> Chars]
    <3>1. \A x \in 1..(n + 1) : nodes'[x].func \in Chars
      BY <1>5, <1>6, <2>2, ElementOfSeq
    <3>. QED  BY <2>1, <3>1
  <2>4. Funcs' \in Seq(Chars) /\ Len(Funcs') = n + 1
    BY <1>2, <2>3
  <2>5. /\ Append(Funcs, Arg[len]) \in Seq(Chars) /\ Len(Append(Funcs, Arg[len])) = n + 1
        /\ \A x \in 1..n : Append(Funcs, Arg[len])[x] = Funcs[x]
        /\ Append(Funcs, Arg[len])[n + 1] = Arg[len]
    BY <1>5, <1>6, AppendProperties
  <2>6. ASSUME NEW x \in 1..(n + 1) PROVE Funcs'[x] = Append(Funcs, Arg[len])[x]
    <3>1. x \in 1..n \/ (x = n + 1 /\ x \notin 1..n)
      BY <1>2
    <3>2. Funcs'[x] = IF x \in 1..n THEN Funcs[x] ELSE Arg[len]
      BY <2>1, <2>2
    <3>. QED  BY <2>5, <3>1, <3>2
  <2>. QED  BY <2>4, <2>5, <2>6, SeqEqual
<1>8. SubSeq(Arg, 1, len) = Append(SubSeq(Arg, 1, len - 1), Arg[len])
      /\ SubSeq(Arg, 1, len - 1) \in Seq(Chars)
  <2>1. SubSeq(Arg, 1, len) = SubSeq(Arg, 1, len - 1) \o <<Arg[len]>>
    BY <1>2, SubSeqRecursiveSecond
  <2>2. \A i \in 1..(len - 1) : Arg[i] \in Chars
    BY <1>2, ElementOfSeq
  <2>3. SubSeq(Arg, 1, len - 1) \in Seq(Chars)
    BY <1>2, <2>2, SubSeqProperties
  <2>. QED  BY <1>5, <2>1, <2>3, AppendIsConcat
<1>9. Funcs' = KeysTo(optind - 1) \o SubSeq(Arg, 1, len)
  <2>. DEFINE K == KeysTo(optind - 1)
              s == SubSeq(Arg, 1, len - 1)
  <2>1. Funcs = K \o s
    BY <1>1 DEF OptionInv
  <2>2. K \in Seq(Chars) /\ s \in Seq(Chars) /\ <<Arg[len]>> \in Seq(Chars)
    BY <1>4, <1>5, <1>8
  <2>. HIDE DEF K, s
  <2>3. Funcs' = (K \o s) \o <<Arg[len]>>
    BY <1>5, <1>6, <1>7, <2>1, AppendIsConcat
  <2>4. Append(s, Arg[len]) = s \o <<Arg[len]>>
    BY <1>5, <2>2, AppendIsConcat
  <2>5. Funcs' = K \o Append(s, Arg[len])
    BY <2>2, <2>3, <2>4, ConcatAssociative
  <2>. QED  BY <1>8, <2>5 DEF K, s
<1>10. len' - 1 = len /\ Arg' = Arg
  BY <1>1, <1>2 DEF Arg
<1>11. Funcs' = KeysTo(optind - 1)' \o SubSeq(Arg', 1, len' - 1)
  BY <1>1, <1>9, <1>10, KeysSame
<1>12. SettingsAre(optind - 1)'
  BY <1>1, SettingsSame DEF OptionInv
<1>. QED  BY <1>1, <1>11, <1>12 DEF OptionInv, After

LEMMA EndKeysOptions == ASSUME ListInv, OptionInv, EndKeys PROVE OptionInv'
<1>1. /\ phase = "keys" /\ phase' = "options" /\ len > Len(Arg) /\ optind' = optind + 1
      /\ UNCHANGED <<argv, config, nodes>>
  BY DEF EndKeys, list
<1>2. /\ optind \in 1..Len(argv) /\ Opt = "s" /\ Arg \in Seq(Chars) /\ len \in 1..(Len(Arg) + 1)
      /\ Len(argv) \in Nat
  BY <1>1, Arguments DEF ListInv, Arg
<1>3. len - 1 = Len(Arg)
  BY <1>1, <1>2
<1>4. SubSeq(Arg, 1, len - 1) = Arg
  BY <1>2, <1>3, SubSeqFull
<1>5. KeySeqs[optind] = Arg
  BY <1>2, Arguments DEF KeySeqs, Opt, Arg
<1>6. Funcs = KeysTo(optind)
  <2>1. KeysTo(optind) = KeysTo(optind - 1) \o KeySeqs[optind]
    BY <1>2, KeysOfNext
  <2>. QED  BY <1>1, <1>4, <1>5, <2>1 DEF OptionInv
<1>7. optind' - 1 = optind
  BY <1>1, <1>2
<1>8. Funcs' = KeysTo(optind - 1)'
  BY <1>1, <1>6, <1>7, KeysSame DEF Funcs
<1>9. Taken(Opt, Arg)
  BY <1>1, <1>2 DEF Taken, config, FileOptions, NumberOptions, AlarmLimits, Flags, FormatSetters
<1>10. SettingsAre(optind - 1)'
  BY <1>1, <1>2, <1>9, SettingsNext DEF OptionInv
<1>. QED  BY <1>1, <1>8, <1>10 DEF OptionInv, After

\* The steps that take no option.
Onward ==
  \/ ShowText \/ UnknownOption \/ SelectFormat \/ parse_config \/ parse_leases \/ do_counting
  \/ SortAndFlip \/ OpenReport \/ html_header \/ PrintLine \/ EndText \/ EndReport \/ CleanUp
  \/ close_stdout

LEMMA OnwardKeeps ==
  ASSUME ListInv, OptionInv, Onward PROVE OptionInv'
<1>1. /\ UNCHANGED <<argv, optind, config, nodes>>
      /\ phase' \in After => phase \in After \/ (phase = "options" /\ optind > Len(argv))
      /\ phase' \notin {"options", "keys"}
  <2>1. CASE ShowText \/ UnknownOption \/ SelectFormat
    BY <2>1 DEF ShowText, UnknownOption, SelectFormat, PlainError, CleanError, Exit, Stop, options,
                list, After
  <2>2. CASE parse_config \/ parse_leases \/ do_counting \/ SortAndFlip
    BY <2>2 DEF parse_config, parse_leases, do_counting, SortAndFlip, Phase, PlainError, Exit,
                options, list, After
  <2>3. CASE OpenReport \/ html_header \/ PrintLine \/ EndText
    BY <2>3 DEF OpenReport, html_header, PrintLine, EndText, Exit, options, list, After
  <2>4. CASE EndReport \/ CleanUp \/ close_stdout
    BY <2>4 DEF EndReport, CleanUp, close_stdout, Exit, options, list, After
  <2>. QED  BY <2>1, <2>2, <2>3, <2>4 DEF Onward
<1>2. CASE phase' \notin After
  BY <1>1, <1>2 DEF OptionInv
<1>3. CASE phase' \in After
  <2>1. phase \in {"options"} \cup After /\ optind = Len(argv) + 1
    <3>1. optind \in 1..(Len(argv) + 1) /\ Len(argv) \in Nat
      BY Arguments DEF ListInv
    <3>. QED  BY <1>1, <1>3, <3>1 DEF OptionInv
  <2>2. SettingsAre(optind - 1)'
    BY <1>1, <2>1, SettingsSame DEF OptionInv
  <2>3. Funcs' = KeysTo(optind - 1)'
    BY <1>1, <2>1, KeysSame DEF OptionInv, Funcs
  <2>. QED  BY <1>1, <1>3, <2>1, <2>2, <2>3 DEF OptionInv, After
<1>. QED  BY <1>2, <1>3

LEMMA OptionNext == ASSUME ListInv, OptionInv, [Next]_vars PROVE OptionInv'
<1>1. CASE UNCHANGED vars
  <2>1. UNCHANGED <<argv, optind, config, nodes, phase, len>>
    BY <1>1 DEF vars, config
  <2>2. Funcs' = Funcs /\ Arg' = Arg /\ (\A n : KeysTo(n)' = KeysTo(n))
    BY <2>1, KeysSame DEF Funcs, Arg
  <2>. QED  BY <2>1, <2>2, SettingsSame DEF OptionInv
<1>. QED  BY <1>1, OptionActions, StartKeysOptions, AddKeyOptions, EndKeysOptions, OnwardKeeps
          DEF Next, Step, Terminated, Onward

LEMMA OptionAlways == Spec => [](ListInv /\ OptionInv)
<1>1. Init => ListInv /\ OptionInv
  BY ListInit, OptionInit
<1>2. ListInv /\ OptionInv /\ [Next]_vars => (ListInv /\ OptionInv)'
  BY ListNext, OptionNext
<1>. QED  BY <1>1, <1>2, PTL DEF Spec

(* What main goes to work with is what the command line says, for every
   command line: the fields of all -s in the order in which they are given, and
   of everything else what was said last. *)
THEOREM ArgumentsHonoured == Spec => []OptionsAsGiven
<1>1. ASSUME ListInv, OptionInv, phase \in After
      PROVE  /\ [x \in DOMAIN Chain |-> nodes[Chain[x]].func] = FlattenSeq(KeySeqs)
             /\ \A o \in FileOptions : files[o] = Given({o}, Default)
             /\ \A o \in NumberOptions : numbers[o] = Given({o}, Default)
             /\ limits = SubSeq(Given({"L"}, OUTPUT_LIMIT), 1, 2)
             /\ flags = {argv[x].opt : x \in Occurrences(Flags)}
             /\ format = IF Occurrences(FormatSetters) = {} \/ argv[LastOf(FormatSetters)].opt = "f"
                         THEN Given(FormatSetters, OUTPUT_FORMAT) ELSE <<"a">>
  <2>1. optind - 1 = Len(argv) /\ SettingsAre(Len(argv)) /\ Funcs = KeysTo(Len(argv))
    BY <1>1, Arguments DEF OptionInv
  <2>2. [x \in DOMAIN Chain |-> nodes[Chain[x]].func] = Funcs
    BY <1>1, ChainIs DEF ListInv, Funcs
  <2>3. Funcs = FlattenSeq(KeySeqs)
    BY <1>1, <2>1, AllKeysAre
  <2>4. /\ \A o \in FileOptions : files[o] = Given({o}, Default)
        /\ \A o \in NumberOptions : numbers[o] = Given({o}, Default)
    BY <1>1, <2>1, GivenIs, Zenon DEF SettingsAre, TableIs
  <2>5. limits = SubSeq(Given({"L"}, OUTPUT_LIMIT), 1, 2)
    BY <1>1, <2>1, GivenIs, Zenon DEF SettingsAre, LimitsAre
  <2>6. flags = {argv[x].opt : x \in Occurrences(Flags)}
    BY <1>1, <2>1, Arguments DEF SettingsAre, FlagsAre, Occurrences
  <2>7. format = IF Occurrences(FormatSetters) = {} \/ argv[LastOf(FormatSetters)].opt = "f"
                 THEN Given(FormatSetters, OUTPUT_FORMAT) ELSE <<"a">>
    <3>1. CASE NoneOf(argv, FormatSetters, Len(argv)) /\ format = OUTPUT_FORMAT
      BY <1>1, <3>1, OccurrencesAre, Zenon DEF Given
    <3>2. ASSUME NEW x, IsLast(argv, FormatSetters, Len(argv), x),
                 format = IF argv[x].opt = "f" THEN argv[x].arg ELSE <<"a">>
          PROVE  format = IF Occurrences(FormatSetters) = {} \/ argv[LastOf(FormatSetters)].opt = "f"
                          THEN Given(FormatSetters, OUTPUT_FORMAT) ELSE <<"a">>
      BY <1>1, <3>2, OccurrencesAre, Zenon DEF Given
    <3>. QED  BY <2>1, <3>1, <3>2, Zenon DEF SettingsAre, FormatIs
  <2>. QED  BY <2>2, <2>3, <2>4, <2>5, <2>6, <2>7
<1>2. ListInv /\ OptionInv => OptionsAsGiven
  BY <1>1 DEF OptionsAsGiven, KeySeqs, After
<1>. QED  BY <1>2, OptionAlways, PTL

-----------------------------------------------------------------------------
(* The types *)

\* What the other invariants say nothing of.
RestInv ==
  /\ flags \subseteq Flags
  /\ phase \in Phases
  /\ lines \in 0..MaxLines /\ ended \in BOOLEAN
  /\ status \in {Running} \cup Verdicts

LEMMA RestNext == ASSUME RestInv, [Next]_vars PROVE RestInv'
<1>. USE DEF RestInv, Phases, Verdicts, STATE_OK, STATE_CRITICAL, Running
<1>1. CASE SetFile \/ SetFlag \/ SetFormat \/ SetNumber
  BY <1>1 DEF SetFile, SetFlag, SetFormat, SetNumber, AtOption, Opt, NextOption, PlainError, Exit,
              printed
<1>2. CASE SetLimit \/ ShowText \/ UnknownOption \/ StartKeys \/ AddKey \/ EndKeys
  BY <1>2 DEF SetLimit, ShowText, UnknownOption, StartKeys, AddKey, EndKeys, AtOption, NextOption,
              PlainError, CleanError, Exit, config, printed
<1>3. CASE SelectFormat \/ parse_config \/ parse_leases \/ do_counting \/ SortAndFlip
  BY <1>3 DEF SelectFormat, parse_config, parse_leases, do_counting, SortAndFlip, Phase, PlainError,
              CleanError, Exit, options, config, printed
<1>4. CASE OpenReport \/ html_header \/ EndText \/ CleanUp
  <2>1. CASE OpenReport
    BY <2>1 DEF OpenReport, Exit, options, config
  <2>2. CASE EndText
    BY <2>2 DEF EndText, Exit, options, config
  <2>3. CASE CleanUp
    BY <2>3 DEF CleanUp, options, config, printed
  <2>4. CASE html_header
    BY <2>4 DEF html_header, Exit, options, config, printed
  <2>. QED  BY <1>4, <2>1, <2>2, <2>3, <2>4
<1>5. CASE PrintLine
  <2>1. MaxLines \in Nat
    BY PipelineAssumption
  <2>2. /\ lines < MaxLines /\ lines' = lines + 1
        /\ UNCHANGED <<flags, phase, ended, status>>
    BY <1>5 DEF PrintLine, options, config
  <2>3. lines' \in 0..MaxLines
    BY <2>1, <2>2
  <2>. QED  BY <2>2, <2>3
<1>6. CASE EndReport \/ close_stdout
  BY <1>6 DEF EndReport, close_stdout, Exit, options, config
<1>7. CASE UNCHANGED vars
  BY <1>7 DEF vars
<1>. QED  BY <1>1, <1>2, <1>3, <1>4, <1>5, <1>6, <1>7 DEF Next, Step, Terminated

LEMMA RestAlways == Spec => []RestInv
<1>1. Init => RestInv
  <2>1. MaxLines \in Nat
    BY PipelineAssumption
  <2>2. 0 \in 0..MaxLines
    BY <2>1
  <2>. QED  BY <2>2 DEF Init, RestInv, Phases
<1>2. RestInv /\ [Next]_vars => RestInv'
  BY RestNext
<1>. QED  BY <1>1, <1>2, PTL DEF Spec

(* The options, the list of sort keys, the memory and the streams are what
   main can make of them, for every command line. *)
THEOREM PipelineTyped == Spec => []TypeOK
<1>1. ASSUME PipelineInv, ListInv, MemoryInv, RestInv PROVE TypeOK
  <2>1. argv \in Argvs /\ optind \in 1..(Len(argv) + 1) /\ p \in 0..Len(nodes) /\ len \in Nat
    BY <1>1 DEF ListInv
  <2>2. Len(nodes) \in Nat /\ DOMAIN nodes = 1..Len(nodes)
    BY <1>1 DEF ListInv, Linked
  <2>3. \A x \in DOMAIN nodes : nodes[x].next \in {NULL} \cup (x + 1)..Len(nodes)
    <3>1. \A x \in 1..Len(nodes) : nodes[x].next = IF x = Len(nodes) THEN 0 ELSE x + 1
      BY <1>1 DEF ListInv, Linked, InOrder
    <3>2. \A n \in Nat : \A x \in 1..n : x # n => x + 1 \in (x + 1)..n
      OBVIOUS
    <3>. QED  BY <2>2, <3>1, <3>2 DEF NULL
  <2>4. sorts \in 0..Len(nodes)
    <3>1. nodes # << >> => Len(nodes) > 0
      BY <1>1 DEF ListInv, Linked
    <3>2. sorts = 0 \/ (sorts = 1 /\ Len(nodes) > 0)
      BY <1>1, <3>1 DEF ListInv, Linked, NULL
    <3>. QED  BY <2>2, <3>2
  <2>5. heap \subseteq Blocks \cup {Node(x) : x \in DOMAIN nodes}
    BY <1>1, <2>2 DEF MemoryInv, KeyNodes
  <2>6. out \in [Streams -> [is : {"unopened", "open", "closed"}, buffered : BOOLEAN,
                             ferror : BOOLEAN]]
    BY <1>1 DEF PipelineInv, Stream
  <2>. QED  BY <1>1, <2>1, <2>3, <2>4, <2>5, <2>6 DEF RestInv, TypeOK
<1>. QED  BY <1>1, PipelineAlways, MemoryAlways, RestAlways, PTL
=============================================================================
