----------------------------- MODULE ConfigLayout -----------------------------
(***************************************************************************)
(* What a dhcpd.conf declares, said without a parser.  The layout of a     *)
(* configuration divides its files into phrases: a comment, the first word *)
(* of a clause, a range statement, a brace.  Each phrase stands in an      *)
(* environment: how many braces are open, which shared network it is in    *)
(* and where that began, and how many ranges and networks have been        *)
(* declared before it.  A production says what a phrase looks like, what   *)
(* it declares, and the environment of the phrase after it.                *)
(*                                                                         *)
(* There is a reading for every time a file is read: an include phrase     *)
(* names the one of its file, which begins in the network of the phrase.   *)
(* A configuration has them in a field `layout', which is empty when it    *)
(* has no layout.                                                          *)
(***************************************************************************)
EXTENDS ConfigParser

\* A word that is no special character; it may be a keyword.
Word == Symbol \ Special
Address == Addresses \cap Word

\* At the start of a clause; the same while `range A ;' waits for the next
\* keyword; or in a clause that declares nothing, up to its end.
Modes == {"clause", "pending", "rest"}

\* scope is the number of braces outside the shared network; NoScope is none.
Env == [mode : Modes, braces : Nat, scope : Nat, net : Nat, ranges : Nat, nets : Nat]
Phrase == [kind : STRING, text : Seq(Symbol), at : Nat, env : Env, callee : Nat]
Reading(cfg) == [file : DOMAIN cfg.files, phrases : Seq(Phrase)]

\* The text of a phrase is of a form: one symbol of each of the sets.
Form(s, sets) == Len(s.text) = Len(sets) /\ \A x \in DOMAIN sets : s.text[x] \in sets[x]

AtClause(s) == s.env.mode # "rest"

-----------------------------------------------------------------------------
(* Layout, comments, and clauses that declare nothing *)

Space(s, t) == s.kind = "space" /\ Form(s, <<Blanks>>) /\ t.env = s.env

\* A semicolon after `range A ;' would be another end of it, and a brace would
\* begin a clause.
Comment(s, t) ==
  /\ s.kind = "comment" /\ Len(s.text) > 1
  /\ s.text[1] = "#" /\ s.text[Len(s.text)] = "\n"
  /\ \A x \in 2..(Len(s.text) - 1) :
       s.text[x] \notin {"\n"} \cup (CASE s.env.mode = "pending" -> {";"}
                                       [] s.env.mode = "rest" -> {"{"}
                                       [] OTHER -> {})
  /\ t.env = s.env

Semicolon(s, t) ==
  /\ s.kind = "semicolon" /\ Form(s, <<{";"}>>) /\ s.env.mode # "pending"
  /\ t.env = [s.env EXCEPT !.mode = "clause"]

\* The parser looks at the words of this set.
Keywords(cfg) ==
  {"range", "shared-network", "include"} \cup IF cfg.all_as_shared THEN {"subnet", "netmask"} ELSE {}

FirstWord(cfg, s, t) ==
  /\ s.kind = "head" /\ Form(s, <<Word \ Keywords(cfg), Blanks>>) /\ AtClause(s)
  /\ t.env = [s.env EXCEPT !.mode = "rest"]

\* A clause of one word, such as `authoritative;'.
Bare(s, t) ==
  /\ s.kind = "bare" /\ Form(s, <<Word, {";"}>>) /\ s.env.mode = "clause"
  /\ t.env = s.env

\* A block of one word with its brace, such as `group{'.
Glued(cfg, s, t) ==
  /\ s.kind = "glued" /\ Form(s, <<Word \ Keywords(cfg), {"{"}, Blanks>>) /\ AtClause(s)
  /\ MAXLEN > 2
  /\ t.env = [s.env EXCEPT !.mode = "clause", !.braces = @ + 1]

NextWord(s, t) ==
  /\ s.kind = "word" /\ Form(s, <<Word>>) /\ s.env.mode = "rest"
  /\ t.env = s.env

\* Anything but a quote may be in a string.
Quotation(s, t) ==
  /\ s.kind = "string" /\ s.env.mode = "rest" /\ Len(s.text) > 1
  /\ s.text[1] = "\"" /\ s.text[Len(s.text)] = "\""
  /\ \A x \in 2..(Len(s.text) - 1) : s.text[x] # "\""
  /\ t.env = s.env

-----------------------------------------------------------------------------
(* Blocks and shared networks *)

Open(s, t) ==
  /\ s.kind = "open" /\ Form(s, <<{"{"}>>) /\ s.env.mode = "rest"
  /\ t.env = [s.env EXCEPT !.mode = "clause", !.braces = @ + 1]

\* The brace of a shared network ends it.  Blocks are less than NoScope deep.
Close(s, t) ==
  LET outside == s.env.braces - 1
      ends == s.env.scope = outside
  IN /\ s.kind = "close" /\ Form(s, <<{"}"}>>) /\ AtClause(s)
     /\ s.env.braces \in 1..NoScope
     /\ t.env = [s.env EXCEPT !.braces = outside,
                              !.net = IF ends THEN 0 ELSE @,
                              !.scope = IF ends THEN NoScope ELSE @]

\* A network called name begins.
Begins(cfg, s, t, name) ==
  /\ s.env.net = 0
  /\ s.env.nets < Len(cfg.nets) /\ cfg.nets[s.env.nets + 1] = name
  /\ t.env = [s.env EXCEPT !.mode = "rest", !.nets = @ + 1, !.net = s.env.nets + 1,
                           !.scope = s.env.braces]

Shared(cfg, s, t) ==
  /\ s.kind = "shared" /\ Form(s, <<{"shared-network"}, Blanks, Word, Blanks>>) /\ AtClause(s)
  /\ Begins(cfg, s, t, <<s.text[3]>>)

\* A name in quotes does not begin with a blank and has no #.
QuotedName(s) == SubSeq(s.text, 4, Len(s.text) - 2)
Quoted(cfg, s, t) ==
  /\ s.kind = "quoted" /\ AtClause(s)
  /\ Len(s.text) \in 6..(MAXLEN + 4)
  /\ s.text[1] = "shared-network" /\ s.text[2] \in Blanks /\ s.text[3] = "\""
  /\ \A x \in 4..(Len(s.text) - 2) : s.text[x] \notin {"\"", "#"}
  /\ s.text[4] \notin Blanks
  /\ s.text[Len(s.text) - 1] = "\"" /\ s.text[Len(s.text)] \in Blanks
  /\ Begins(cfg, s, t, QuotedName(s))

\* With all_as_shared every subnet outside them is a shared network.
Subnet(cfg, s, t) ==
  /\ s.kind = "subnet" /\ cfg.all_as_shared /\ AtClause(s)
  /\ Form(s, <<{"subnet"}, Blanks, Word, Blanks, {"netmask"}, Blanks, Word \cap DOMAIN Masks, Blanks>>)
  /\ Begins(cfg, s, t, <<s.text[3], s.text[7]>>)

Inner(cfg, s, t) ==
  /\ s.kind = "inner" /\ cfg.all_as_shared /\ AtClause(s) /\ s.env.net # 0
  /\ Form(s, <<{"subnet"}, Blanks, Word, Blanks>>)
  /\ t.env = [s.env EXCEPT !.mode = "rest"]

-----------------------------------------------------------------------------
(* Ranges *)

\* The range declared by a statement with the addresses a and b.
Declared(cfg, s, a, b) ==
  LET r == cfg.ranges[s.env.ranges + 1] IN
  /\ s.env.ranges < Len(cfg.ranges)
  /\ {r.first, r.last} = {a, b} /\ IpNumber(r.first) <= IpNumber(r.last)
  /\ r.net = s.env.net

\* The first address, perhaps after `dynamic-bootp'.
First(s) == IF s.text[3] \in Addresses THEN 3 ELSE 5
RangeOf(s, rest) ==
  /\ AtClause(s)
  /\ IF First(s) = 3
     THEN Form(s, <<{"range"}, Blanks, Address>> \o rest)
     ELSE Form(s, <<{"range"}, Blanks, Word \ Addresses, Blanks, Address>> \o rest)
Added(s, t, mode) == t.env = [s.env EXCEPT !.mode = mode, !.ranges = @ + 1]

\* range A B; or range A B with a semicolon later.
Two(cfg, s, t) ==
  /\ s.kind = "two" /\ RangeOf(s, <<Blanks, Address, Blanks \cup {";"}>>)
  /\ Declared(cfg, s, s.text[First(s)], s.text[First(s) + 2])
  /\ Added(s, t, "clause")

\* range A; with a blank behind it.
One(cfg, s, t) ==
  /\ s.kind = "one" /\ RangeOf(s, <<{";"}, Blanks>>)
  /\ Declared(cfg, s, s.text[First(s)], s.text[First(s)])
  /\ Added(s, t, "clause")

\* range A ;
Spaced(cfg, s, t) ==
  /\ s.kind = "spaced" /\ RangeOf(s, <<Blanks, {";"}>>)
  /\ Declared(cfg, s, s.text[First(s)], s.text[First(s)])
  /\ Added(s, t, "pending")

-----------------------------------------------------------------------------
(* Files *)

LastOf(reading) == reading.phrases[Len(reading.phrases)]

\* The file is read in the network of the phrase, with its own braces.
Inclusion(cfg, s, t) ==
  /\ s.kind = "include" /\ AtClause(s)
  /\ Form(s, <<{"include"}, Blanks, {"\""}, Word, {"\""}, {";"}, Blanks>>)
  /\ s.callee \in DOMAIN cfg.layout
  /\ LET callee == cfg.layout[s.callee] IN
       /\ callee.file = s.text[4]
       /\ callee.phrases[1].env = [s.env EXCEPT !.mode = "clause", !.braces = 0, !.scope = NoScope]
       /\ t.env = [s.env EXCEPT !.mode = "clause", !.ranges = LastOf(callee).env.ranges,
                                                   !.nets = LastOf(callee).env.nets]

Production(cfg, s, t) ==
  \/ Space(s, t) \/ Comment(s, t) \/ Semicolon(s, t)
  \/ FirstWord(cfg, s, t) \/ Bare(s, t) \/ Glued(cfg, s, t) \/ NextWord(s, t) \/ Quotation(s, t)
  \/ Open(s, t) \/ Close(s, t)
  \/ Shared(cfg, s, t) \/ Quoted(cfg, s, t) \/ Subnet(cfg, s, t) \/ Inner(cfg, s, t)
  \/ Two(cfg, s, t) \/ One(cfg, s, t) \/ Spaced(cfg, s, t)
  \/ Inclusion(cfg, s, t)

\* fgetc's EOF is the last phrase.
IsReading(cfg, reading) ==
  LET text == cfg.files[reading.file]
      phrases == reading.phrases
      n == Len(phrases)
  IN /\ n > 0
     /\ phrases[1].at = 0
     /\ phrases[1].env.mode = "clause" /\ phrases[1].env.braces = 0
     /\ phrases[1].env.scope = NoScope
     /\ phrases[n].kind = "end" /\ phrases[n].text = <<EOF>> /\ phrases[n].at = Len(text)
     /\ \A k \in 1..(n - 1) :
          /\ phrases[k + 1].at = phrases[k].at + Len(phrases[k].text)
          /\ phrases[k + 1].at <= Len(text)
          /\ \A x \in 1..Len(phrases[k].text) : text[phrases[k].at + x] = phrases[k].text[x]
          /\ Production(cfg, phrases[k], phrases[k + 1])

\* The layout is one of the files, and all that they declare is in ranges and
\* nets.
IsLayout(cfg) ==
  /\ cfg.ranges \in Seq([first : Addresses, last : Addresses, net : Nat])
  /\ cfg.nets \in Seq(Seq(Symbol))
  /\ cfg.layout \in Seq(Reading(cfg)) /\ cfg.layout # << >>
  /\ \A r \in DOMAIN cfg.layout : IsReading(cfg, cfg.layout[r])
  /\ LET main == cfg.layout[1] IN
       /\ main.file = "main"
       /\ main.phrases[1].env.net = 0
       /\ main.phrases[1].env.ranges = 0 /\ main.phrases[1].env.nets = 0
       /\ LastOf(main).env.ranges = Len(cfg.ranges) /\ LastOf(main).env.nets = Len(cfg.nets)

\* The configuration that is parsed has a layout.
LaidOut == IsLayout(config)

-----------------------------------------------------------------------------
(* Where the parser is *)

Flags(g, newclause, argument, one_ip, word) ==
  g.newclause = newclause /\ g.argument = argument /\ g.one_ip = one_ip /\ g.word = word
Unmarked(g) == ~g.comment /\ ~g.quote
Scoped(g, env) == g.braces = env.braces /\ g.braces_shared = env.scope /\ g.shared_p = env.net

\* The call g is between two phrases, in the environment env.
Idle(g, env) ==
  Flags(g, env.mode # "rest", IF env.mode = "pending" THEN "second_ip" ELSE "nothing", FALSE, << >>)
Between(g, env) == Idle(g, env) /\ Unmarked(g) /\ Scoped(g, env)

\* The call g has read the first word of the phrase s, or the first o symbols.
HasWord(g, s) == g.newclause /\ ~g.one_ip /\ g.word = <<s.text[1]>>
Awaits(g, argument, one_ip, word) == Flags(g, FALSE, argument, one_ip, word)

InGroup(g, s, o) ==
  /\ o = 1 => HasWord(g, s)
  /\ o = 2 => g.newclause /\ ~g.one_ip /\ g.word = <<s.text[1], "{">>

\* free is the slot behind the ranges, and p the pointer at it.
InRange(g, s, o, p, free) ==
  LET a == First(s) IN
  /\ o = 1 => HasWord(g, s)
  /\ o = 2 \/ (o = 4 /\ a = 5) => Awaits(g, "first_ip", TRUE, << >>)
  /\ o = 3 => Awaits(g, "first_ip", TRUE, <<s.text[3]>>)
  /\ o = 5 /\ a = 5 => Awaits(g, "first_ip", TRUE, <<s.text[5]>>)
  /\ o = a + 1 => IF s.kind = "one" THEN Awaits(g, "second_ip", TRUE, <<s.text[a]>>)
                  ELSE Awaits(g, "second_ip", FALSE, << >>)
  /\ o = a + 2 => Awaits(g, "second_ip", FALSE, <<s.text[a + 2]>>)
  /\ o > a /\ s.kind # "one" => free.first = s.text[a] /\ g.range_p = p

InNetwork(g, s, o) ==
  /\ o = 1 => HasWord(g, s)
  /\ o = 2 => Awaits(g, "sharednet", FALSE, << >>)
  /\ o = 3 => Awaits(g, "sharednet", FALSE, IF s.kind = "shared" THEN <<s.text[3]>> ELSE << >>)
  /\ o > 3 => Awaits(g, "sharednet", FALSE, SubSeq(s.text, 4, IF o < Len(s.text) - 1 THEN o ELSE o - 1))

InSubnet(g, s, o) ==
  /\ o = 1 => HasWord(g, s)
  /\ o = 2 => Awaits(g, "subnet", FALSE, << >>)
  /\ o = 3 => Awaits(g, "subnet", FALSE, <<s.text[3]>>)
  /\ o = 4 => Flags(g, TRUE, "nothing", FALSE, << >>)
  /\ o = 5 => Flags(g, TRUE, "nothing", FALSE, <<s.text[5]>>)
  /\ o = 6 => Awaits(g, "netmask", FALSE, << >>)
  /\ o = 7 => Awaits(g, "netmask", FALSE, <<s.text[7]>>)
Named(s, o) == s.kind = "subnet" /\ o > 3

InInclude(g, s, o) ==
  /\ o = 1 => HasWord(g, s)
  /\ o \in 2..3 => Awaits(g, "include", FALSE, << >>)
  /\ o > 3 => Awaits(g, "include", FALSE, <<s.text[4]>>)

InQuotes(s, o) ==
  \/ s.kind = "string"
  \/ s.kind = "include" /\ o \in 3..4
  \/ s.kind = "quoted" /\ o \in 3..(Len(s.text) - 2)

\* The call g has read the first o symbols of the phrase s.
Inside(g, s, o, p, free) ==
  /\ g.comment = (s.kind = "comment") /\ g.quote = InQuotes(s, o)
  /\ Scoped(g, CASE s.kind = "glued" /\ o > 1 -> [s.env EXCEPT !.braces = @ + 1]
                 [] Named(s, o) -> [s.env EXCEPT !.net = s.env.nets + 1, !.scope = s.env.braces]
                 [] OTHER -> s.env)
  /\ s.kind \in {"comment", "string"} => Idle(g, s.env)
  /\ s.kind \in {"head", "bare"} => HasWord(g, s)
  /\ s.kind = "bare" => g.argument = "nothing"
  /\ s.kind = "glued" => InGroup(g, s, o)
  /\ s.kind \in {"two", "one", "spaced"} => InRange(g, s, o, p, free)
  /\ s.kind \in {"shared", "quoted"} => InNetwork(g, s, o)
  /\ s.kind \in {"subnet", "inner"} => InSubnet(g, s, o)
  /\ s.kind = "include" => InInclude(g, s, o)

\* The call g has read o symbols of the phrase s, or all of its file.
At(g, s, o) ==
  /\ g.pos = s.at + o
  /\ o = 0 => Between(g, s.env)
  /\ o > 0 /\ s.kind # "end" => Inside(g, s, o, SlotPointer, slot)

\* What has been declared so far, and no more, is in the arrays.
Known(s, o) ==
  /\ IsPrefix(ranges, config.ranges) /\ num_ranges = s.env.ranges
  /\ num_shared_networks = s.env.nets + IF Named(s, o) THEN 1 ELSE 0
  /\ \A x \in 1..s.env.nets : nets[x].name = config.nets[x]
  /\ Named(s, o) => nets[num_shared_networks] = [name |-> <<s.text[3]>>, masked |-> TRUE]

Offsets(s) == IF s.kind = "end" THEN 0..1 ELSE 0..(Len(s.text) - 1)

(* The parser never loses its place: at every character it is somewhere in the
   layout, with as many open braces, in the shared network and with the ranges
   and networks of that place, however comments, quotes and included files are
   mixed. *)
LayoutFollowed ==
  phase = "parse" /\ config.layout # << >> =>
    \E r \in DOMAIN config.layout :
      /\ f.file = config.layout[r].file
      /\ \E k \in DOMAIN config.layout[r].phrases :
           LET s == config.layout[r].phrases[k] IN
           \E o \in Offsets(s) : At(f, s, o) /\ Known(s, o)
=============================================================================
