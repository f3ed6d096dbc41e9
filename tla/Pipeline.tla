------------------------------- MODULE Pipeline -------------------------------
(***************************************************************************)
(* main of dhcpd-pools.c: the options, the phases of the analysis in their *)
(* order, the report file, and every way out.  A phase is one step here    *)
(* with the outcomes it can have; ConfigParser, LeaseFile, Counting,       *)
(* SortRanges, Alarming and Report are about what happens inside.          *)
(*                                                                         *)
(* Memory is a set of named blocks and the nodes of the list of sort keys; *)
(* a step notes which blocks it touched.  A stream buffers what is         *)
(* printed, and a write that fails leaves its mark on the stream, which is *)
(* all that the program later knows of it.                                 *)
(***************************************************************************)
EXTENDS Integers, Sequences, SequencesExt

CONSTANTS
  Argvs,     \* the command lines
  MaxLines   \* bound on the lines of a report

FileOptions == {"c", "l", "o"}
Flags == {"r", "p", "A", "snet-alarms"}
AlarmLimits == {"warning", "critical", "warn-count", "crit-count"}
NumberOptions == AlarmLimits \cup {"minsize"}

SortFields == {"n", "i", "m", "c", "p", "t", "T", "e"}
Formats == {"t", "a", "H", "x", "X", "j", "J", "c"}
LimitDigits == {"0", "1", "2", "3", "4", "5", "6", "7"}
Digits == LimitDigits \cup {"8", "9"}

\* The argument of an option is a sequence of characters; "?" stands for all
\* options and characters that mean nothing to the program.
Options == FileOptions \cup NumberOptions \cup Flags \cup {"f", "s", "L", "v", "h", "?"}
Chars == SortFields \cup Formats \cup Digits \cup {"h", "?"}

ASSUME PipelineAssumption ==
  /\ Argvs \subseteq Seq([opt : Options, arg : Seq(Chars)])
  /\ MaxLines \in Nat

\* The files and numbers of an option that is not given, and OUTPUT_LIMIT and
\* OUTPUT_FORMAT of configure.
Default == <<"?">>
OUTPUT_LIMIT == <<"7", "7">>
OUTPUT_FORMAT == <<"t">>

NULL == 0
EXIT_SUCCESS == 0
EXIT_FAILURE == 1         \* the same as STATE_WARNING
STATE_OK == 0
STATE_CRITICAL == 2
Verdicts == STATE_OK..STATE_CRITICAL
Running == -1             \* no exit status yet

Streams == {"stdout", "file"}
\* What main and the phases allocate; "leases" and "names" are many blocks.
\* A block is <<name, 0>>, a node of the list of sort keys <<"node", number>>.
Block(names) == names \X {0}
Node(n) == <<"node", n>>
Blocks == Block({"dhcpdconf_file", "dhcpdlease_file", "output_file",
           "shared_networks", "names", "ranges", "leases"})

VARIABLES
  argv, optind,    \* the command line and the next option of it
  files, numbers, flags, limits, format,   \* config, as the options set it
  sorts, nodes,    \* the list of sort keys: its head, and all nodes made
  p, len,          \* the local variables of the -s option
  phase,           \* where main is
  heap, touched,   \* the memory that is allocated, and that the last step used
  out,             \* the streams
  lines, ended,    \* how much has been printed
  status           \* the exit status

vars == <<argv, optind, files, numbers, flags, limits, format, sorts, nodes, p, len, phase,
          heap, touched, out, lines, ended, status>>
config == <<files, numbers, flags, limits, format>>
list == <<sorts, nodes, p, len>>
printed == <<out, lines, ended>>

\* prepare_memory: what is there before the first option.  There are no
\* leases yet, and no name of a network but "All networks".
Init ==
  /\ argv \in Argvs /\ optind = 1
  /\ files = [o \in FileOptions |-> Default]
  /\ numbers = [o \in NumberOptions |-> Default]
  /\ flags = {} /\ limits = OUTPUT_LIMIT /\ format = OUTPUT_FORMAT
  /\ sorts = NULL /\ nodes = << >> /\ p = NULL /\ len = 0
  /\ phase = "options"
  /\ heap = Blocks \ Block({"leases"}) /\ touched = {}
  /\ out = [s \in Streams |-> [is |-> IF s = "stdout" THEN "open" ELSE "unopened",
                               buffered |-> FALSE, ferror |-> FALSE]]
  /\ lines = 0 /\ ended = FALSE
  /\ status = Running

-----------------------------------------------------------------------------
(* Ways out *)

\* exit(): what is left is up to close_stdout.
Exit(s) == phase' = "exit" /\ status' = s

\* The nodes of the list of sort keys, in order.
Chain ==
  LET walk[x \in 0..Len(nodes)] == IF x = NULL THEN << >> ELSE <<x>> \o walk[nodes[x].next]
  IN  walk[sorts]

\* It goes over the leases there are; the other blocks are always there.
delete_all_leases == Block({"leases"}) \cap heap

\* Wrong variant of Released.
Released_Head ==
  (Blocks \ Block({"leases"})) \cup delete_all_leases \cup ({Node(sorts)} \ {Node(NULL)})

Released ==
  (Blocks \ Block({"leases"})) \cup delete_all_leases \cup {Node(x) : x \in Range(Chain)}
clean_up == heap' = heap \ Released /\ touched' = Released

\* Wrong variant of CleanError.
CleanError_GoOn == clean_up /\ UNCHANGED <<phase, status>>

\* An error that is reported after releasing the memory ...
CleanError == clean_up /\ Exit(EXIT_FAILURE)
\* ... and one that is reported right away.
PlainError == Exit(EXIT_FAILURE) /\ touched' = {} /\ UNCHANGED heap

-----------------------------------------------------------------------------
(* The options *)

AtOption(S) == phase = "options" /\ optind <= Len(argv) /\ argv[optind].opt \in S
Opt == argv[optind].opt
Arg == argv[optind].arg
\* Wrong variant of NextOption.
NextOption_Skip == optind' = optind + 2 /\ UNCHANGED <<argv, phase, status>>

NextOption == optind' = optind + 1 /\ UNCHANGED <<argv, phase, status>>
Stop == UNCHANGED <<argv, optind>>

BufferOf(o) == CASE o = "c" -> "dhcpdconf_file"
                 [] o = "l" -> "dhcpdlease_file"
                 [] o = "o" -> "output_file"

\* Wrong variant of SetFile.
SetFile_Open ==
  /\ AtOption(FileOptions)
  /\ files' = [files EXCEPT ![Opt] = Arg]
  /\ touched' = Block({BufferOf(Opt)})
  /\ out' = IF Opt = "o" /\ Arg # << >> THEN [out EXCEPT !["file"].is = "open"] ELSE out
  /\ NextOption /\ UNCHANGED <<numbers, flags, limits, format, list, heap, lines, ended>>

SetFile ==
  /\ AtOption(FileOptions)
  /\ files' = [files EXCEPT ![Opt] = Arg]
  /\ touched' = Block({BufferOf(Opt)})
  /\ NextOption /\ UNCHANGED <<numbers, flags, limits, format, list, heap, printed>>

SetFlag ==
  /\ AtOption(Flags)
  /\ flags' = flags \cup {Opt}
  /\ touched' = {}
  /\ NextOption /\ UNCHANGED <<files, numbers, limits, format, list, heap, printed>>

SetFormat ==
  /\ AtOption({"f"})
  /\ format' = Arg
  /\ touched' = {}
  /\ NextOption /\ UNCHANGED <<files, numbers, flags, limits, list, heap, printed>>

\* strtod_or_err takes a number without anything after it.
IsNumber(arg) == arg # << >> /\ Range(arg) \subseteq Digits

\* An alarm limit selects the alarm format before the number is looked at.
SetNumber ==
  /\ AtOption(NumberOptions)
  /\ format' = IF Opt \in AlarmLimits THEN <<"a">> ELSE format
  /\ IF IsNumber(Arg)
     THEN /\ numbers' = [numbers EXCEPT ![Opt] = Arg]
          /\ touched' = {}
          /\ NextOption /\ UNCHANGED heap
     ELSE PlainError /\ Stop /\ UNCHANGED numbers
  /\ UNCHANGED <<files, flags, limits, list, printed>>

\* return_limit of the first two characters; the byte after an argument is
\* not a digit.
SetLimit ==
  /\ AtOption({"L"})
  /\ IF Len(Arg) >= 2 /\ {Arg[1], Arg[2]} \subseteq LimitDigits
     THEN limits' = <<Arg[1], Arg[2]>> /\ touched' = {} /\ NextOption /\ UNCHANGED heap
     ELSE CleanError /\ Stop /\ UNCHANGED limits
  /\ UNCHANGED <<files, numbers, flags, format, list, printed>>

\* print_version and usage.
ShowText ==
  /\ AtOption({"v", "h"})
  /\ phase' = "text"
  /\ touched' = {} /\ Stop /\ UNCHANGED <<config, list, heap, printed, status>>

UnknownOption ==
  /\ AtOption({"?"})
  /\ PlainError
  /\ Stop /\ UNCHANGED <<config, list, printed>>

-----------------------------------------------------------------------------
(* The sort keys: every -s adds its fields to the end of the list *)

\* Wrong variant of LastNode.
LastNode_Head == sorts

\* while (p && p->next) p = p->next
LastNode == IF sorts = NULL THEN NULL ELSE Last(Chain)

StartKeys ==
  /\ AtOption({"s"})
  /\ p' = LastNode /\ len' = 1
  /\ touched' = {Node(x) : x \in Range(Chain)}
  /\ phase' = "keys"
  /\ Stop /\ UNCHANGED <<config, sorts, nodes, heap, printed, status>>

\* A node is linked before field_selector is asked what it is to compare.
AddKey ==
  /\ phase = "keys" /\ len <= Len(Arg)
  /\ LET x == Len(nodes) + 1
         new == [func |-> Arg[len], next |-> NULL]
     IN
       /\ IF sorts = NULL
          THEN sorts' = x /\ nodes' = Append(nodes, new)
          ELSE UNCHANGED sorts /\ nodes' = Append([nodes EXCEPT ![p].next = x], new)
       /\ p' = x /\ len' = len + 1
       /\ IF Arg[len] \in SortFields
          THEN /\ heap' = heap \cup {Node(x)}
               /\ touched' = IF sorts = NULL THEN {} ELSE {Node(p)}
               /\ UNCHANGED <<phase, status>>
          ELSE CleanError
  /\ Stop /\ UNCHANGED <<config, printed>>

EndKeys ==
  /\ phase = "keys" /\ len > Len(Arg)
  /\ phase' = "options" /\ optind' = optind + 1
  /\ touched' = {}
  /\ UNCHANGED <<argv, config, list, heap, printed, status>>

-----------------------------------------------------------------------------
(* The phases *)

options == <<argv, optind, config, list>>

FormatChar == IF format = << >> THEN "?" ELSE format[1]

\* The output function: an unknown format is an error, and so is the one that
\* was there once.
SelectFormat ==
  /\ phase = "options" /\ optind > Len(argv)
  /\ IF FormatChar \in Formats
     THEN phase' = "config" /\ touched' = {} /\ UNCHANGED <<heap, status>>
     ELSE IF FormatChar = "h" THEN PlainError ELSE CleanError
  /\ UNCHANGED <<options, printed>>

\* The leases, if there are any.
Leases == {b \in {"leases"} : <<b, 0>> \in heap}

\* What a phase uses, what it may add, and where it goes on; or an error exit.
Phase(from, to, uses, adds) ==
  /\ phase = from
  /\ \/ /\ phase' = to
        /\ \E new \in SUBSET adds : heap' = heap \cup Block(new)
        /\ touched' = Block(uses)
        /\ UNCHANGED status
     \/ from \in {"config", "leases"} /\ PlainError
  /\ UNCHANGED <<options, printed>>

parse_config == Phase("config", "leases", {"dhcpdconf_file", "ranges", "shared_networks", "names"}, {})
parse_leases == Phase("leases", "count", {"dhcpdlease_file"}, {"leases"})
do_counting == Phase("count", "sort", {"ranges", "shared_networks"} \cup Leases, {})

\* The scratch array lives within this step.
SortAndFlip ==
  /\ phase = "sort"
  /\ phase' = "open"
  /\ touched' = Block({"ranges", "shared_networks", "names"}) \cup {Node(x) : x \in Range(Chain)}
  /\ UNCHANGED <<options, printed, heap, status>>

-----------------------------------------------------------------------------
(* The report *)

\* An empty name is no name.
Destination == IF files["o"] \in {Default, << >>} THEN "stdout" ELSE "file"
Reading == Block({"output_file", "ranges", "shared_networks", "names"} \cup Leases)

\* fopen with "w+": what was in the file is gone.
OpenReport ==
  /\ phase = "open"
  /\ touched' = Block({"output_file"})
  /\ \/ /\ phase' = "print"
        /\ out' = [out EXCEPT ![Destination].is = "open"]
        /\ UNCHANGED status
     \/ /\ Destination = "file"
        /\ Exit(EXIT_FAILURE)
        /\ UNCHANGED out
  /\ UNCHANGED <<options, heap, lines, ended>>

\* A line is kept in the buffer, or the buffer is written, which may fail.
PrintLine ==
  /\ phase \in {"print", "text"} /\ ~ended /\ lines < MaxLines
  /\ \E s \in Streams, buffered, lost \in BOOLEAN :
       /\ s = IF phase = "text" THEN "stdout" ELSE Destination
       /\ buffered => ~lost
       /\ out' = [out EXCEPT ![s].buffered = buffered, ![s].ferror = @ \/ lost]
  /\ lines' = lines + 1
  /\ touched' = IF phase = "text" THEN {} ELSE Reading
  /\ UNCHANGED <<options, phase, heap, ended, status>>

\* html_header asks for the time of the lease file before its first line, and
\* exits if that time cannot be told: the report is open by then, and empty.
html_header ==
  /\ phase = "print" /\ FormatChar = "H" /\ lines = 0 /\ ~ended
  /\ Exit(EXIT_FAILURE)
  /\ touched' = Block({"output_file", "ranges", "dhcpdlease_file"})
  /\ UNCHANGED <<options, printed, heap>>

\* The last line; an alarm may print none.  usage and print_version exit.
EndText ==
  /\ phase \in {"print", "text"} /\ ~ended
  /\ ended' = TRUE
  /\ IF phase = "text" THEN Exit(EXIT_SUCCESS) ELSE UNCHANGED <<phase, status>>
  /\ touched' = {} /\ UNCHANGED <<options, heap, out, lines>>

\* What is still in the buffer is written, which may fail; what was lost
\* before is known from the mark on the stream.
Written(s, lost, is) ==
  /\ lost => out[s].buffered
  /\ out' = [out EXCEPT ![s] = [is |-> is, buffered |-> FALSE, ferror |-> @.ferror \/ lost]]

\* fflush tells only of the lines it writes itself.
fflush(s, failed) == Written(s, failed, "open")

\* Wrong variant of close_stream.
close_stream_Close(s, failed) ==
  IF out[s].is = "open" THEN Written(s, failed, "closed") ELSE ~failed /\ UNCHANGED out

\* close_stream of gnulib tells of all; a stream closed before is passed over.
close_stream(s, failed) ==
  IF out[s].is = "open"
  THEN \E lost \in BOOLEAN : Written(s, lost, "closed") /\ failed = (out[s].ferror \/ lost)
  ELSE ~failed /\ UNCHANGED out

\* The end of an output function.  An alarm that has printed nothing closes
\* stdout, too; the verdict is that of alarming.
Silent == FormatChar = "a" /\ lines = 0
EndReport ==
  /\ phase = "print" /\ ended
  /\ \E failed \in BOOLEAN :
       /\ IF Destination = "file" \/ Silent
          THEN close_stream(Destination, failed)
          ELSE fflush(Destination, failed)
       /\ IF failed THEN Exit(EXIT_FAILURE)
          ELSE /\ phase' = "clean_up"
               /\ status' \in IF FormatChar # "a" THEN {EXIT_SUCCESS}
                            ELSE IF Silent THEN {STATE_OK} ELSE Verdicts
  /\ touched' = {} /\ UNCHANGED <<options, heap, lines, ended>>

\* clean_up finds nothing in the buffers, and main returns.
CleanUp ==
  /\ phase = "clean_up"
  /\ clean_up
  /\ phase' = "return"
  /\ UNCHANGED <<options, printed, status>>

\* close_stdout, which main has registered with atexit.
close_stdout ==
  /\ phase \in {"exit", "return"}
  /\ \E failed \in BOOLEAN :
       /\ close_stream("stdout", failed)
       /\ status' = IF failed THEN EXIT_FAILURE ELSE status
  /\ phase' = "gone"
  /\ touched' = {} /\ UNCHANGED <<options, heap, lines, ended>>

Terminated == phase = "gone" /\ UNCHANGED vars

Step == \/ SetFile \/ SetFlag \/ SetFormat \/ SetNumber \/ SetLimit \/ ShowText \/ UnknownOption
        \/ StartKeys \/ AddKey \/ EndKeys \/ SelectFormat
        \/ parse_config \/ parse_leases \/ do_counting \/ SortAndFlip
        \/ OpenReport \/ html_header \/ PrintLine \/ EndText \/ EndReport \/ CleanUp \/ close_stdout
Next == Step \/ Terminated

Spec == Init /\ [][Next]_vars

-----------------------------------------------------------------------------
(* Properties *)

Phases == {"options", "keys", "text", "config", "leases", "count", "sort", "open", "print",
           "clean_up", "return", "exit", "gone"}

(* The type invariant: the options, the list of sort keys, the memory and the
   streams are what main can make of them. *)
TypeOK ==
  /\ argv \in Argvs /\ optind \in 1..(Len(argv) + 1)
  /\ flags \subseteq Flags
  /\ \A x \in DOMAIN nodes : nodes[x].next \in {NULL} \cup (x + 1)..Len(nodes)
  /\ sorts \in 0..Len(nodes) /\ p \in 0..Len(nodes) /\ len \in Nat
  /\ phase \in Phases
  /\ heap \subseteq Blocks \cup {Node(x) : x \in DOMAIN nodes}
  /\ out \in [Streams -> [is : {"unopened", "open", "closed"}, buffered : BOOLEAN, ferror : BOOLEAN]]
  /\ lines \in 0..MaxLines /\ ended \in BOOLEAN
  /\ status \in {Running} \cup Verdicts

Occurrences(O) == {x \in DOMAIN argv : argv[x].opt \in O}
LastOf(O) == CHOOSE x \in Occurrences(O) : \A y \in Occurrences(O) : y <= x
Given(O, default) == IF Occurrences(O) = {} THEN default ELSE argv[LastOf(O)].arg
FormatSetters == {"f"} \cup AlarmLimits

(* What main goes to work with is what the command line says, wherever the
   options stand in it: the sort keys of all -s one after another, "Keys weight
   from left to right", and of everything else what was said last, be it by -f
   or by an alarm limit. *)
OptionsAsGiven ==
  phase \in {"config", "leases", "count", "sort", "open", "print", "clean_up"} =>
    /\ [x \in DOMAIN Chain |-> nodes[Chain[x]].func]
         = FlattenSeq([x \in DOMAIN argv |-> IF argv[x].opt = "s" THEN argv[x].arg ELSE << >>])
    /\ \A o \in FileOptions : files[o] = Given({o}, Default)
    /\ \A o \in NumberOptions : numbers[o] = Given({o}, Default)
    /\ limits = SubSeq(Given({"L"}, OUTPUT_LIMIT), 1, 2)
    /\ flags = {argv[x].opt : x \in Occurrences(Flags)}
    /\ format = IF Occurrences(FormatSetters) = {} \/ argv[LastOf(FormatSetters)].opt = "f"
                THEN Given(FormatSetters, OUTPUT_FORMAT) ELSE <<"a">>

(* No step uses memory that an earlier one has released, or releases it again:
   clean_up is called from inside the option loop, with the list of sort keys
   half made, and there is no way back from there. *)
NothingUsedAfterRelease == [][touched' \subseteq heap]_vars

(* When main returns it has released everything that was allocated: each sort
   key, wherever its option stood, and each lease. *)
AllReleased == phase = "return" => heap = {}

(* The exit status tells whether the report, the help or the version is where
   it was asked for: with success, or with the verdict critical, every line of
   it has been written, although a line may be lost long before the stream is
   closed, and fflush no longer knows. *)
StatusTellsReport ==
  phase = "gone" /\ status # EXIT_FAILURE =>
    /\ ended
    /\ \A s \in Streams : ~out[s].buffered /\ ~out[s].ferror

(* The report of an earlier run is not lost to a mistake in the options, the
   configuration or the leases: a run that fails after it has emptied the file
   fails because the report could not be written, or, of html, because
   html_header gave up before the first line of it.  The alarm format is left
   out, a warning has the status of a failure. *)
OldReportKept ==
  phase = "gone" /\ status = EXIT_FAILURE /\ out["file"].is # "unopened" /\ FormatChar # "a" =>
    out["file"].ferror \/ (FormatChar = "H" /\ lines = 0)
=============================================================================
