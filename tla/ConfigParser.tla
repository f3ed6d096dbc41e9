----------------------------- MODULE ConfigParser -----------------------------
(***************************************************************************)
(* parse_config of getdata.c, the dhcpd.conf parser.  It handles one       *)
(* character at a time and keeps what it knows in a handful of flags; the  *)
(* special characters come first, and what they do not consume is built    *)
(* into a word, which is looked up as a keyword at the start of a clause   *)
(* and used as an argument after one.  An include statement parses another *)
(* file with flags of its own and the caller's shared network.             *)
(*                                                                         *)
(* A run of ordinary characters is one symbol: the parser treats every     *)
(* character of the run alike.  Keywords, addresses and other words are    *)
(* distinct symbols, and the word buffer is a sequence of symbols, so that *)
(* a word glued to another or to a brace is a longer sequence.  One action *)
(* is one turn of the while loop.  The size of the word buffer is counted  *)
(* in symbols.                                                             *)
(***************************************************************************)
EXTENDS Integers, Sequences, SequencesExt

CONSTANTS
  IPs,             \* the addresses, a sequence in increasing order
  Masks,           \* symbol -> prefix length, for the netmasks; 0 for 0.0.0.0
  Configs,         \* the configurations: records of the files, "main" the first
                   \* of them, of the option all_as_shared, of the ranges and
                   \* nets that the files declare, and whether they are refused
  InitialRANGES,   \* RANGES before any range: 64 in the source
  SHARED_NETWORKS, \* the number of shared networks there is room for
  MAXLEN,          \* the size of the word buffer: 1024 characters in the source
  MaxFiles         \* the number of files the system lets the process open

EOF == "EOF"          \* fgetc's EOF is an ordinary character to the parser
Garbage == "garbage"  \* an uninitialised address

\* The symbols that words are made of.
Symbol == {EOF, " "} \cup
            UNION {UNION {Range(cfg.files[x]) : x \in DOMAIN cfg.files} : cfg \in Configs}

ASSUME ConfigAssumption ==
  /\ \A cfg \in Configs :
       /\ "main" \in DOMAIN cfg.files
       /\ \A x \in DOMAIN cfg.files : cfg.files[x] \in Seq(Symbol)
  /\ DOMAIN IPs \subseteq Nat /\ Garbage \notin {IPs[x] : x \in DOMAIN IPs}
  /\ InitialRANGES \in Nat /\ InitialRANGES > 0
  /\ SHARED_NETWORKS \in Nat /\ SHARED_NETWORKS > 1
  /\ MAXLEN \in Nat /\ MAXLEN > 1
  /\ MaxFiles \in Nat /\ MaxFiles > 0

Addresses == {IPs[x] : x \in DOMAIN IPs}
Special == {"#", "\"", ";", "{", "}", " ", "\n"}
\* What a word that was looked up announces.
Arguments == {"nothing", "first_ip", "second_ip", "sharednet", "subnet", "netmask", "include"}

NoScope == 1000

VARIABLES
  config,      \* one of Configs
  stack,       \* a record per active call of parse_config, the last one runs
  ranges,      \* the array of ranges: num_ranges complete ones
  slot,        \* the contents of ranges[num_ranges], which is being filled
  RANGES,      \* the number of ranges there is room for
  nets,        \* shared_networks[1..num_shared_networks]
  phase        \* "parse", "done", or "error" after an error exit

vars == <<config, stack, ranges, slot, RANGES, nets, phase>>
globals == <<ranges, slot, RANGES, nets, phase>>

num_ranges == Len(ranges)
num_shared_networks == Len(nets)
NoNet == -1
EmptySlot == [first |-> Garbage, last |-> Garbage, net |-> NoNet]

\* A pointer at a range: the array it was taken in, told by the room in it,
\* which grows with every reallocation, and the position, counted from 1.
NullPointer == [array |-> 0, at |-> 0]
SlotPointer == [array |-> RANGES, at |-> num_ranges + 1]
\* The array has been reallocated since, in an included file.
Stale(p) == p.array # RANGES

\* The local variables of a call, on entry.
Call(file, net) ==
  [file |-> file, pos |-> 0,
   newclause |-> TRUE, comment |-> FALSE, one_ip |-> FALSE, quote |-> FALSE,
   braces |-> 0, argument |-> "nothing", word |-> << >>,
   braces_shared |-> NoScope,
   shared_p |-> net,        \* 0 is shared_networks itself
   range_p |-> NullPointer]

Init ==
  /\ config \in Configs
  /\ stack = <<Call("main", 0)>>
  /\ ranges = << >> /\ slot = EmptySlot /\ RANGES = InitialRANGES
  /\ nets = << >>
  /\ phase = "parse"

-----------------------------------------------------------------------------
(* The character and the flags *)

f == stack[Len(stack)]
Text == config.files[f.file]
Put(g) == [stack EXCEPT ![Len(stack)] = g]

\* A turn of the loop takes place, with c as the character read.
Turn == phase = "parse" /\ f.pos <= Len(Text)
c == IF f.pos < Len(Text) THEN Text[f.pos + 1] ELSE EOF
Blanks == {" ", "\n"}

\* Wrong variant of g0.
g0_Comment == [f EXCEPT !.pos = IF f.comment THEN @ ELSE @ + 1]

\* The call after reading c; a newline ends a comment, a brace is counted.
g0 == [f EXCEPT !.pos = @ + 1]
Reset(g) == [g EXCEPT !.word = << >>]

\* Wrong variant of Unquoted.
Unquoted_Always(s) == c = s

Unquoted(s) == c = s /\ ~f.quote

\* The second address of a range may end at a semicolon.
EndsSecond == Unquoted(";") /\ f.argument = "second_ip" /\ f.word # << >>

\* The special characters do not consume c, which goes on as `char'.
Ordinary ==
  /\ c \notin {"#", "\""}
  /\ f.quote \/ c \notin {";", "{", "}"} \/ EndsSecond \/ (c = "{" /\ f.word # << >>)
char == IF EndsSecond THEN " " ELSE c
g1 == [g0 EXCEPT
         !.comment = IF Unquoted("\n") THEN FALSE ELSE @,
         !.braces = IF Unquoted("{") /\ ~f.comment THEN @ + 1 ELSE @]

-----------------------------------------------------------------------------
(* The special characters *)

StartComment ==
  /\ Turn /\ c = "#"
  /\ stack' = Put([g0 EXCEPT !.comment = IF f.quote THEN @ ELSE TRUE])
  /\ UNCHANGED <<config, globals>>

ToggleQuote ==
  /\ Turn /\ c = "\""
  /\ stack' = Put([g0 EXCEPT !.quote = IF f.comment THEN @ ELSE ~@])
  /\ UNCHANGED <<config, globals>>

\* A semicolon ends the clause, unless an argument is awaited.
Awaiting == f.argument \in {"first_ip", "second_ip", "include"}
EndClause ==
  /\ Turn /\ Unquoted(";") /\ ~f.comment /\ ~Awaiting
  /\ stack' = Put([Reset(g0) EXCEPT !.newclause = TRUE])
  /\ UNCHANGED <<config, globals>>

\* range A; the address is left in the word buffer for the next turn.
EndFirst ==
  /\ Turn /\ Unquoted(";") /\ f.argument = "first_ip" /\ f.one_ip
  /\ stack' = Put([g0 EXCEPT !.argument = "second_ip"])
  /\ UNCHANGED <<config, globals>>

\* A semicolon the parser does not act on.
PassSemicolon ==
  /\ Turn /\ Unquoted(";")
  /\ f.comment \/ Awaiting
  /\ f.argument # "second_ip" /\ ~(f.argument = "first_ip" /\ f.one_ip)
  /\ stack' = Put(g0)
  /\ UNCHANGED <<config, globals>>

\* A brace after a complete word starts a clause.
OpenBrace ==
  /\ Turn /\ Unquoted("{") /\ f.word = << >>
  /\ stack' = Put([g1 EXCEPT !.newclause = TRUE])
  /\ UNCHANGED <<config, globals>>

\* Wrong variant of CloseScope.
CloseScope_Never(g) == g

CloseScope(g) ==
  IF g.braces_shared = g.braces THEN [g EXCEPT !.braces_shared = NoScope, !.shared_p = 0] ELSE g

CloseBrace ==
  /\ Turn /\ Unquoted("}")
  /\ stack' = Put(IF f.comment THEN g0
                  ELSE CloseScope([g0 EXCEPT !.braces = @ - 1, !.newclause = TRUE]))
  /\ UNCHANGED <<config, globals>>

-----------------------------------------------------------------------------
(* Words *)

Skipped(g) == g.comment \/ (~g.newclause /\ g.argument = "nothing")
Stripped(g) == char \in Blanks /\ g.word = << >> /\ ~g.one_ip
Joined(g) == char \notin Blanks \/ g.quote

\* The end of a word: neither skipped nor stripped nor another character of it.
WordEnd == Turn /\ Ordinary /\ ~Skipped(g1) /\ ~Stripped(g1) /\ ~Joined(g1)
AtKeyword == WordEnd /\ g1.newclause
AtArgument(a) == WordEnd /\ ~g1.newclause /\ g1.argument = a

SkipChar ==
  /\ Turn /\ Ordinary
  /\ Skipped(g1) \/ Stripped(g1)
  /\ stack' = Put(g1)
  /\ UNCHANGED <<config, globals>>

\* A word that fills the buffer is dropped, and is no keyword.
AddChar(g) ==
  IF Len(g.word) + 1 = MAXLEN THEN [Reset(g) EXCEPT !.newclause = FALSE]
  ELSE [g EXCEPT !.word = Append(@, char)]

AppendChar ==
  /\ Turn /\ Ordinary /\ ~Skipped(g1) /\ ~Stripped(g1) /\ Joined(g1)
  /\ stack' = Put(AddChar(g1))
  /\ UNCHANGED <<config, globals>>

\* is_interesting_config_clause: the keywords the word contains, in order.
KeywordOf(w) ==
  IF Contains(w, "range") THEN "first_ip"
  ELSE IF Contains(w, "shared-network") THEN "sharednet"
  ELSE IF config.all_as_shared /\ Contains(w, "subnet") THEN "subnet"
  ELSE IF config.all_as_shared /\ Contains(w, "netmask") THEN "netmask"
  ELSE IF Contains(w, "include") THEN "include"
  ELSE "nothing"

\* word[i - 1] of an empty word is a byte before the buffer, not a brace in
\* every build, so that newclause may have either value.
Keyword ==
  /\ AtKeyword
  /\ \E ends_in_brace \in IF g1.word = << >> THEN BOOLEAN ELSE {g1.word[Len(g1.word)] = "{"} :
       stack' = Put([Reset(g1) EXCEPT
                       !.newclause = ends_in_brace,
                       !.argument = KeywordOf(g1.word),
                       !.one_ip = (KeywordOf(g1.word) = "first_ip") \/ @])
  /\ UNCHANGED <<config, globals>>

-----------------------------------------------------------------------------
(* Ranges *)

\* parse_ipaddr; what it leaves behind when it fails is uninitialised.
IsIp(w) == Len(w) = 1 /\ w[1] \in Addresses
IpOf(w) == IF IsIp(w) THEN w[1] ELSE Garbage

\* Wrong variant of reorder_last_first.
reorder_last_first_Never(r) == {r}

\* What comes of comparing with an uninitialised address is not known.
IpNumber(a) == CHOOSE x \in DOMAIN IPs : IPs[x] = a
Flip(r) == [r EXCEPT !.first = r.last, !.last = r.first]
reorder_last_first(r) ==
  IF {r.first, r.last} \subseteq Addresses
  THEN {IF IpNumber(r.first) > IpNumber(r.last) THEN Flip(r) ELSE r}
  ELSE {r, Flip(r)}

\* The array is full: one more slot must stay free after the last range.
Full(n) == RANGES < n + 1

\* The array with r written through the pointer p, and the slot in it.
Written(p, r) == [Append(ranges, slot) EXCEPT ![p.at] = [r EXCEPT !.net = f.shared_p]]

\* newrange: the slot becomes a range.  Only the running call's pointer is
\* moved when the array is reallocated; its callers keep theirs.
newrange(array, p, g) ==
  /\ ranges' = array
  /\ slot' = EmptySlot
  /\ RANGES' = IF Full(num_ranges + 1) THEN 2 * RANGES ELSE RANGES
  /\ stack' = Put([g EXCEPT !.newclause = TRUE,
                            !.range_p = IF Full(num_ranges + 1)
                                        THEN [array |-> 2 * RANGES, at |-> num_ranges + 2] ELSE p])
  /\ UNCHANGED <<config, nets>>

\* Wrong variant of FirstIp.
FirstIp_Once ==
  /\ AtArgument("first_ip")
  /\ slot' = [slot EXCEPT !.first = IF IsIp(g1.word) THEN IpOf(g1.word) ELSE @]
  /\ stack' = Put(IF IsIp(g1.word)
                  THEN [Reset(g1) EXCEPT !.one_ip = FALSE, !.argument = "second_ip",
                                         !.range_p = IF @ = NullPointer THEN SlotPointer ELSE @]
                  ELSE Reset(g1))
  /\ UNCHANGED <<config, ranges, RANGES, nets, phase>>

FirstIp ==
  /\ AtArgument("first_ip")
  /\ IF IsIp(g1.word)
     THEN /\ slot' = [slot EXCEPT !.first = IpOf(g1.word)]
          /\ stack' = Put([Reset(g1) EXCEPT !.one_ip = FALSE, !.argument = "second_ip",
                                            !.range_p = SlotPointer])
     ELSE /\ stack' = Put([Reset(g1) EXCEPT !.range_p = SlotPointer])
          /\ UNCHANGED slot
  /\ UNCHANGED <<config, ranges, RANGES, nets, phase>>

SecondIp ==
  /\ AtArgument("second_ip")
  /\ \E r \in reorder_last_first(
              [slot EXCEPT !.first = IF g1.one_ip THEN IpOf(g1.word) ELSE @,
                           !.last = IpOf(g1.word)]) :
       newrange(Written(SlotPointer, r), SlotPointer,
                [Reset(g1) EXCEPT !.argument = "nothing", !.one_ip = FALSE])
  /\ UNCHANGED phase

\* A semicolon that is the end of a range, with no address before it.
EndsRange == Turn /\ Unquoted(";") /\ f.argument = "second_ip" /\ f.word = << >>

\* Through a stale pointer the write may hit the array, if that has not moved,
\* or freed memory: the slot is added as it is, or the process is stopped.
CloseRange ==
  /\ EndsRange /\ f.range_p # NullPointer
  /\ LET p == f.range_p
         array == Append(ranges, slot)
     IN \E after \in {Written(p, [array[p.at] EXCEPT !.last = array[p.at].first])}
                       \cup IF Stale(p) THEN {array} ELSE {} :
          newrange(after, p, g0)
  /\ phase' \in {phase} \cup IF Stale(f.range_p) THEN {"error"} ELSE {}

\* The same without a range to complete is an error exit.
NoRange ==
  /\ EndsRange /\ f.range_p = NullPointer
  /\ phase' = "error"
  /\ UNCHANGED <<config, stack, ranges, slot, RANGES, nets>>

-----------------------------------------------------------------------------
(* Shared networks *)

\* Wrong variant of OpenNet.
OpenNet_Always == AtArgument("sharednet") \/ AtArgument("subnet")

\* The word is the name of a new network; with all_as_shared, a subnet that
\* is not inside a shared network is one, and its netmask is to be recorded.
OpenNet ==
  \/ AtArgument("sharednet")
  \/ AtArgument("subnet") /\ f.shared_p = 0

\* Wrong variant of NewNet.
NewNet_After == num_shared_networks + 2

NewNet == num_shared_networks + 1
NoRoom(n) == SHARED_NETWORKS < n + 2

SharedNet ==
  /\ OpenNet
  /\ nets' = Append(nets, [name |-> g1.word, masked |-> g1.argument = "subnet"])
  /\ phase' = IF NoRoom(NewNet) THEN "error" ELSE phase
  /\ stack' = Put([Reset(g1) EXCEPT !.newclause = (g1.argument = "subnet"),
                                    !.argument = "nothing",
                                    !.shared_p = NewNet,
                                    !.braces_shared = g1.braces])
  /\ UNCHANGED <<config, ranges, slot, RANGES>>

\* A subnet inside a shared network is not a network of its own.
InnerSubnet ==
  /\ AtArgument("subnet") /\ f.shared_p # 0
  /\ stack' = Put([Reset(g1) EXCEPT !.argument = "nothing"])
  /\ UNCHANGED <<config, globals>>

\* The prefix length is added to the name; a word that is no address is
\* passed over, and the mask 0.0.0.0 is shifted for ever: there is no step.
\* (A netmask outside every network would read the uninitialised netmask of
\* the first entry; dhcpd has no such configuration.)
Netmask ==
  /\ AtArgument("netmask")
  /\ f.shared_p # 0
  /\ LET w == g1.word
         masked == nets[f.shared_p].masked
         parsed == Len(w) = 1 /\ w[1] \in DOMAIN Masks
     IN
       /\ masked /\ parsed => Masks[w[1]] # 0
       /\ nets' = IF masked /\ parsed
                  THEN [nets EXCEPT ![f.shared_p].name = Append(@, w[1])]
                  ELSE nets
       /\ stack' = Put(IF masked /\ ~parsed THEN Reset(g1)
                       ELSE [Reset(g1) EXCEPT !.argument = "nothing", !.braces_shared = g1.braces])
  /\ UNCHANGED <<config, ranges, slot, RANGES, phase>>

-----------------------------------------------------------------------------
(* Include files *)

\* fopen of an included file: every caller up to main keeps its file open, so
\* that a file which includes itself runs out of files and not of stack.
CanOpen(w) == Len(w) = 1 /\ w[1] \in DOMAIN config.files /\ Len(stack) < MaxFiles

Include ==
  /\ AtArgument("include")
  /\ IF CanOpen(g1.word)
     THEN /\ stack' = Append(Put([Reset(g1) EXCEPT !.argument = "nothing", !.newclause = TRUE]),
                             Call(g1.word[1], f.shared_p))
          /\ UNCHANGED phase
     ELSE /\ phase' = "error"
          /\ UNCHANGED stack
  /\ UNCHANGED <<config, ranges, slot, RANGES, nets>>

\* feof(): the call returns, to its caller or to main.
Return ==
  /\ phase = "parse" /\ f.pos > Len(Text)
  /\ IF Len(stack) > 1
     THEN stack' = SubSeq(stack, 1, Len(stack) - 1) /\ UNCHANGED phase
     ELSE phase' = "done" /\ UNCHANGED stack
  /\ UNCHANGED <<config, ranges, slot, RANGES, nets>>

Terminated == phase \in {"done", "error"} /\ UNCHANGED vars

Character ==
  \/ StartComment \/ ToggleQuote \/ EndClause \/ EndFirst \/ PassSemicolon
  \/ OpenBrace \/ CloseBrace
  \/ SkipChar \/ AppendChar \/ Keyword
  \/ FirstIp \/ SecondIp \/ CloseRange \/ NoRange
  \/ SharedNet \/ InnerSubnet \/ Netmask \/ Include
Next == Character \/ Return \/ Terminated

\* The program is sequential; a regular file always has its next character.
Spec == Init /\ [][Next]_vars /\ WF_vars(Character \/ Return)

-----------------------------------------------------------------------------
(* Properties *)

NetNumbers == 0..num_shared_networks
Pointer == [array : Nat, at : 1..(num_ranges + 1)]
Ip == Addresses \cup {Garbage}
RangeEntry == [first : Ip, last : Ip, net : NetNumbers \cup {NoNet}]

\* The local variables of an active call.
Frame ==
  [file : DOMAIN config.files, pos : Nat,
   newclause : BOOLEAN, comment : BOOLEAN, one_ip : BOOLEAN, quote : BOOLEAN,
   braces : Int, argument : Arguments, word : Seq(Symbol),
   braces_shared : Int, shared_p : NetNumbers,
   range_p : Pointer \cup {NullPointer}]

(* The type invariant: the flags, the counters and the two arrays of
   parse_config hold values of their types, a pointer at a network is at one
   there is, a pointer at a range has the position of one or of the slot, and
   no more files are open than may be. *)
TypeOK ==
  /\ config \in Configs
  /\ stack \in Seq(Frame) /\ Len(stack) \in 1..MaxFiles
  /\ ranges \in Seq(RangeEntry) /\ slot \in RangeEntry
  /\ nets \in Seq([name : Seq(Symbol), masked : BOOLEAN])
  /\ RANGES \in Nat
  /\ phase \in {"parse", "done", "error"}

\* There is always a slot to fill after the last range, which is what a range
\* statement assumes; no network is put past the fixed array of networks, whose
\* limit is compared with only after the entry has been written; and a word
\* leaves room for the zero that ends it.
WithinArrays ==
  /\ num_ranges < RANGES
  /\ num_shared_networks < SHARED_NETWORKS
  /\ \A x \in DOMAIN stack : Len(stack[x].word) < MAXLEN

\* A range is completed in the array there is.
PointerCurrent == EndsRange /\ f.range_p # NullPointer => ~Stale(f.range_p)

(* What the parser writes stays inside its two arrays and the word buffer,
   also after an included file has had the array of ranges reallocated, which
   leaves the including call with a pointer into memory that has been freed:
   the pointer that a semicolon completes a range through is never that one. *)
SlotsInBounds == WithinArrays /\ PointerCurrent

\* A range both of whose addresses are known has them in order.
Ordered(r) ==
  {r.first, r.last} \subseteq Addresses => IpNumber(r.first) <= IpNumber(r.last)

(* The counting relies on the first address of a range not being above the
   last one: whatever the configuration is, a range is never left in the array
   with the addresses of its statement the other way round. *)
RangesOrdered == \A x \in DOMAIN ranges : Ordered(ranges[x])

(* The ranges are those the configuration declares, in order, each in its
   shared network and with its addresses in order: comments, quotes, braces,
   include files and line ends between and inside the statements do not make
   one up, lose one or put it elsewhere.  Where `range A' and its semicolon are
   apart, as in `range A ;', no other semicolon is in a comment before the next
   clause; where they are not, a blank or a line end follows. *)
RangesDeclared ==
  /\ IsPrefix(ranges, config.ranges)
  /\ phase = "done" => ranges = config.ranges

(* The same of the networks and their names, with the prefix length of the
   netmask when every subnet is a network. *)
NetworksDeclared ==
  phase = "done" => [x \in DOMAIN nets |-> nets[x].name] = config.nets

(* The parser comes to the end of the file and of every file included, or to
   an error exit if, and only if, the configuration is one to be refused: a
   file that is not there, no address, too many networks, or a file that
   includes itself, directly or through another one. *)
ParserReturns == <>(phase = IF config.refused THEN "error" ELSE "done")
=============================================================================
