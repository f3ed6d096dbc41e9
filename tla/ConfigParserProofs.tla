-------------------------- MODULE ConfigParserProofs --------------------------
(***************************************************************************)
(* Proofs about parse_config.  For every configuration, legal or not: the  *)
(* types of its variables, that there is room for what it writes in the    *)
(* array of ranges, the array of shared networks and the word buffer, and  *)
(* that the addresses of a range are in order.  For every one that has a   *)
(* layout: that the parser follows it, that the ranges and the networks it *)
(* collects are those that the layout declares, and that it never writes   *)
(* through the pointer at a range that an included file has left behind.   *)
(***************************************************************************)
EXTENDS ConfigLayout, SequenceTheorems, TLAPS

USE ConfigAssumption

\* The limit of the networks is looked at after a network has been added, so
\* that a parser that goes on has room for one more.
RoomForNet == phase = "parse" => num_shared_networks + 2 <= SHARED_NETWORKS
ParserInv == TypeOK /\ WithinArrays /\ RoomForNet

\* The frames of the calls between two characters.
Fitting(g) == g \in Frame /\ Len(g.word) < MAXLEN

-----------------------------------------------------------------------------
(* The call that runs *)

(* The call at the end of the stack reads a sequence of symbols. *)
LEMMA CurrentCall ==
  ASSUME ParserInv
  PROVE  /\ Len(stack) \in Nat /\ Len(stack) > 0 /\ DOMAIN stack = 1..Len(stack)
         /\ Fitting(f)
         /\ Text \in Seq(Symbol)
         /\ c \in Symbol /\ char \in Symbol
<1>1. stack \in Seq(Frame) /\ Len(stack) \in 1..MaxFiles
  BY DEF ParserInv, TypeOK
<1>0. /\ Len(stack) \in Nat /\ Len(stack) > 0 /\ DOMAIN stack = 1..Len(stack)
      /\ Len(stack) \in DOMAIN stack
  BY <1>1
<1>2. Fitting(f)
  BY <1>0, <1>1 DEF ParserInv, WithinArrays, f, Fitting
<1>3. f.file \in DOMAIN config.files /\ f.pos \in Nat
  BY <1>2 DEF Fitting, Frame
<1>4. Text \in Seq(Symbol)
  BY <1>3 DEF Text, ParserInv, TypeOK
<1>5. EOF \in Symbol /\ " " \in Symbol
  BY DEF Symbol
<1>6. c \in Symbol
  <2>1. CASE f.pos < Len(Text)
    <3>1. f.pos + 1 \in 1..Len(Text)
      BY <1>3, <1>4, <2>1
    <3> QED
      BY <1>4, <2>1, <3>1 DEF c
  <2> QED
    BY <1>5, <2>1 DEF c
<1> QED
  BY <1>0, <1>2, <1>4, <1>5, <1>6 DEF char

(* Reading a character moves the position, and may end a comment or count a
   brace; the word is as it was. *)
LEMMA AfterReading ==
  ASSUME ParserInv
  PROVE  /\ Fitting(g0) /\ Fitting(g1)
         /\ g0.word = f.word /\ g1.word = f.word
<1>1. Fitting(f)
  BY CurrentCall
<1>2. /\ f \in Frame /\ f.pos \in Nat /\ f.braces \in Int /\ Len(f.word) < MAXLEN
  BY <1>1 DEF Fitting, Frame
<1>3. g0 \in Frame /\ g0.word = f.word /\ g0.braces \in Int
  <2> DEFINE n == f.pos + 1
  <2>1. n \in Nat /\ g0 = [f EXCEPT !.pos = n]
    BY <1>2 DEF g0
  <2> HIDE DEF n
  <2> QED
    BY <1>2, <2>1 DEF Frame
<1>4. g1 \in Frame /\ g1.word = f.word
  <2> DEFINE C == IF Unquoted("\n") THEN FALSE ELSE g0.comment
             B == IF Unquoted("{") /\ ~f.comment THEN g0.braces + 1 ELSE g0.braces
  <2>1. C \in BOOLEAN
    <3>1. g0.comment \in BOOLEAN
      BY <1>3 DEF Frame
    <3> QED
      BY <3>1, Zenon
  <2>2. B \in Int
    <3>1. g0.braces \in Int /\ g0.braces + 1 \in Int
      BY <1>3
    <3> QED
      BY <3>1, Zenon
  <2>3. g1 = [g0 EXCEPT !.comment = C, !.braces = B]
    BY DEF g1
  <2> HIDE DEF C, B
  <2> QED
    BY <1>3, <2>1, <2>2, <2>3 DEF Frame
<1> QED
  BY <1>2, <1>3, <1>4 DEF Fitting

(* A word that is started anew fits. *)
LEMMA ResetFits ==
  ASSUME NEW g \in Frame
  PROVE  Fitting(Reset(g)) /\ Reset(g).word = << >>
<1>0. << >> \in Seq(Symbol)
  OBVIOUS
<1>1. Reset(g) \in Frame /\ Reset(g).word = << >>
  BY <1>0 DEF Reset, Frame
<1> QED
  BY <1>1 DEF Fitting

(* The running call may be replaced by any other of the type F of the calls
   after the step, if the calls before it are of that type, too. *)
LEMMA PutFits ==
  ASSUME ParserInv, NEW F, Frame \subseteq F, NEW g \in F, Len(g.word) < MAXLEN
  PROVE  /\ Put(g) \in Seq(F) /\ Len(Put(g)) = Len(stack)
         /\ DOMAIN Put(g) = 1..Len(stack)
         /\ \A x \in DOMAIN Put(g) : Len(Put(g)[x].word) < MAXLEN
<1>1. stack \in Seq(F) /\ Len(stack) \in Nat /\ Len(stack) > 0
  <2>1. stack \in Seq(Frame) /\ Len(stack) \in 1..MaxFiles
    BY DEF ParserInv, TypeOK
  <2> HIDE DEF Frame
  <2> QED
    BY <2>1
<1>2. Put(g) \in Seq(F) /\ Len(Put(g)) = Len(stack) /\ DOMAIN Put(g) = 1..Len(stack)
  BY <1>1 DEF Put
<1>3. ASSUME NEW x \in 1..Len(stack) PROVE Len(Put(g)[x].word) < MAXLEN
  <2>1. Put(g)[x] = IF x = Len(stack) THEN g ELSE stack[x]
    BY <1>1, <1>3 DEF Put
  <2>2. x \in DOMAIN stack
    BY <1>1, <1>3
  <2> QED
    BY <2>1, <2>2 DEF ParserInv, WithinArrays
<1> QED
  BY <1>2, <1>3

(* Pointers at ranges and networks stay good when these become more. *)
LEMMA FramesGrow ==
  ASSUME ParserInv, config' = config,
         num_ranges' \in Nat, num_ranges <= num_ranges',
         num_shared_networks' \in Nat, num_shared_networks <= num_shared_networks'
  PROVE  /\ Frame \subseteq Frame' /\ RangeEntry \subseteq RangeEntry'
         /\ NetNumbers \subseteq NetNumbers' /\ Pointer \subseteq Pointer'
<1>1. num_ranges \in Nat /\ num_shared_networks \in Nat
  BY DEF ParserInv, TypeOK, num_ranges, num_shared_networks
<1>2. NetNumbers \subseteq NetNumbers'
  BY <1>1 DEF NetNumbers
<1>3. Pointer \subseteq Pointer'
  <2>1. \A a, b \in Nat : a <= b => 1..(a + 1) \subseteq 1..(b + 1)
    OBVIOUS
  <2>2. 1..(num_ranges + 1) \subseteq 1..(num_ranges' + 1)
    BY <1>1, <2>1
  <2> QED
    BY <2>2 DEF Pointer
<1>4. Frame \subseteq Frame'
  <2>1. \A P, Q, N, M : P \subseteq Q /\ N \subseteq M =>
          [file : DOMAIN config.files, pos : Nat,
           newclause : BOOLEAN, comment : BOOLEAN, one_ip : BOOLEAN, quote : BOOLEAN,
           braces : Int, argument : Arguments, word : Seq(Symbol),
           braces_shared : Int, shared_p : N, range_p : P \cup {NullPointer}]
          \subseteq
          [file : DOMAIN config.files, pos : Nat,
           newclause : BOOLEAN, comment : BOOLEAN, one_ip : BOOLEAN, quote : BOOLEAN,
           braces : Int, argument : Arguments, word : Seq(Symbol),
           braces_shared : Int, shared_p : M, range_p : Q \cup {NullPointer}]
    OBVIOUS
  <2> QED
    BY <1>2, <1>3, <2>1 DEF Frame
<1>5. RangeEntry \subseteq RangeEntry'
  BY <1>2 DEF RangeEntry
<1> QED
  BY <1>2, <1>3, <1>4, <1>5

(* A turn of the loop that changes only the running call. *)
LEMMA LocalStep ==
  ASSUME ParserInv, NEW g, Fitting(g), stack' = Put(g), UNCHANGED <<config, globals>>
  PROVE  ParserInv'
<1>1. UNCHANGED <<config, ranges, slot, RANGES, nets, phase>>
  BY DEF globals
<1>2. /\ num_ranges' = num_ranges /\ num_shared_networks' = num_shared_networks
      /\ Frame' = Frame /\ RangeEntry' = RangeEntry
  BY <1>1 DEF num_ranges, num_shared_networks, Frame, RangeEntry, NetNumbers, Pointer
<1>3. /\ Put(g) \in Seq(Frame) /\ Len(Put(g)) = Len(stack)
      /\ \A x \in DOMAIN Put(g) : Len(Put(g)[x].word) < MAXLEN
  BY PutFits DEF Fitting
<1>4. TypeOK'
  BY <1>1, <1>2, <1>3 DEF ParserInv, TypeOK
<1>5. WithinArrays'
  BY <1>1, <1>2, <1>3 DEF ParserInv, WithinArrays
<1> QED
  BY <1>1, <1>2, <1>4, <1>5 DEF ParserInv, RoomForNet

-----------------------------------------------------------------------------
(* The turns that change flags or the word *)

(* The special characters: a flag, the number of braces or the clause. *)
LEMMA SpecialStep ==
  ASSUME ParserInv,
         StartComment \/ ToggleQuote \/ EndClause \/ EndFirst \/ PassSemicolon
           \/ OpenBrace \/ CloseBrace
  PROVE  ParserInv'
<1>1. Fitting(f) /\ Fitting(g0) /\ Fitting(g1)
  BY CurrentCall, AfterReading
<1>2. /\ f \in Frame /\ {f.quote, f.comment} \subseteq BOOLEAN
      /\ g0 \in Frame /\ {g0.quote, g0.comment} \subseteq BOOLEAN /\ g0.braces \in Int
      /\ Len(g0.word) < MAXLEN
  BY <1>1 DEF Fitting, Frame
<1>3. CASE StartComment
  <2> DEFINE C == IF f.quote THEN g0.comment ELSE TRUE
             g == [g0 EXCEPT !.comment = C]
  <2>1. C \in BOOLEAN
    BY <1>2, Zenon
  <2>2. stack' = Put(g) /\ UNCHANGED <<config, globals>>
    BY <1>3 DEF StartComment
  <2> HIDE DEF C
  <2>3. Fitting(g)
    BY <1>2, <2>1 DEF Fitting, Frame
  <2> QED
    BY <2>2, <2>3, LocalStep
<1>4. CASE ToggleQuote
  <2> DEFINE Q == IF f.comment THEN g0.quote ELSE ~g0.quote
             g == [g0 EXCEPT !.quote = Q]
  <2>1. Q \in BOOLEAN
    BY <1>2, Zenon
  <2>2. stack' = Put(g) /\ UNCHANGED <<config, globals>>
    BY <1>4 DEF ToggleQuote
  <2> HIDE DEF Q
  <2>3. Fitting(g)
    BY <1>2, <2>1 DEF Fitting, Frame
  <2> QED
    BY <2>2, <2>3, LocalStep
<1>5. CASE EndClause
  <2> DEFINE g == [Reset(g0) EXCEPT !.newclause = TRUE]
  <2>1. stack' = Put(g) /\ UNCHANGED <<config, globals>>
    BY <1>5 DEF EndClause
  <2>2. Fitting(Reset(g0))
    BY <1>2, ResetFits
  <2>3. Fitting(g)
    BY <2>2 DEF Fitting, Frame
  <2> QED
    BY <2>1, <2>3, LocalStep
<1>6. CASE EndFirst
  <2> DEFINE g == [g0 EXCEPT !.argument = "second_ip"]
  <2>1. stack' = Put(g) /\ UNCHANGED <<config, globals>>
    BY <1>6 DEF EndFirst
  <2>2. Fitting(g)
    BY <1>2 DEF Fitting, Frame, Arguments
  <2> QED
    BY <2>1, <2>2, LocalStep
<1>7. CASE PassSemicolon
  BY <1>1, <1>7, LocalStep DEF PassSemicolon
<1>8. CASE OpenBrace
  <2> DEFINE g == [g1 EXCEPT !.newclause = TRUE]
  <2>1. stack' = Put(g) /\ UNCHANGED <<config, globals>>
    BY <1>8 DEF OpenBrace
  <2>2. Fitting(g)
    BY <1>1 DEF Fitting, Frame
  <2> QED
    BY <2>1, <2>2, LocalStep
<1>9. CASE CloseBrace
  <2> DEFINE z == g0.braces - 1
             h == [g0 EXCEPT !.braces = z, !.newclause = TRUE]
             g == IF f.comment THEN g0 ELSE CloseScope(h)
  <2>1. stack' = Put(g) /\ UNCHANGED <<config, globals>>
    BY <1>9 DEF CloseBrace
  <2>2. z \in Int
    BY <1>2
  <2> HIDE DEF z
  <2>3. h \in Frame /\ h.word = g0.word
    BY <1>2, <2>2 DEF Frame
  <2>4. 0 \in NetNumbers /\ NoScope \in Int
    BY DEF NetNumbers, num_shared_networks, ParserInv, TypeOK, NoScope
  <2> HIDE DEF h
  <2>5. /\ [h EXCEPT !.braces_shared = NoScope, !.shared_p = 0] \in Frame
        /\ [h EXCEPT !.braces_shared = NoScope, !.shared_p = 0].word = h.word
    BY <2>3, <2>4 DEF Frame
  <2>6. Fitting(CloseScope(h))
    BY <1>2, <2>3, <2>5 DEF Fitting, CloseScope
  <2>7. Fitting(g)
    BY <1>1, <2>6, Zenon
  <2> QED
    BY <2>1, <2>7, LocalStep
<1> QED
  BY <1>3, <1>4, <1>5, <1>6, <1>7, <1>8, <1>9

(* A character of a word is skipped or added while it fits, and a keyword
   announces its argument. *)
LEMMA WordStep ==
  ASSUME ParserInv,
         SkipChar \/ AppendChar \/ Keyword \/ InnerSubnet
  PROVE  ParserInv'
<1>1. Fitting(f) /\ Fitting(g1) /\ char \in Symbol
  BY CurrentCall, AfterReading
<1>2. g1 \in Frame /\ g1.word \in Seq(Symbol) /\ Len(g1.word) < MAXLEN /\ g1.one_ip \in BOOLEAN
  BY <1>1 DEF Fitting, Frame
<1>3. Fitting(Reset(g1)) /\ Reset(g1) \in Frame /\ Reset(g1).one_ip = g1.one_ip
  BY <1>2, ResetFits DEF Fitting, Reset, Frame
<1>4. CASE SkipChar
  BY <1>1, <1>4, LocalStep DEF SkipChar
<1>5. CASE AppendChar
  <2>1. stack' = Put(AddChar(g1)) /\ UNCHANGED <<config, globals>>
    BY <1>5 DEF AppendChar
  <2>2. CASE Len(g1.word) + 1 = MAXLEN
    <3>1. AddChar(g1) = [Reset(g1) EXCEPT !.newclause = FALSE]
      BY <2>2 DEF AddChar
    <3>2. Fitting([Reset(g1) EXCEPT !.newclause = FALSE])
      BY <1>3 DEF Fitting, Frame
    <3> QED
      BY <2>1, <3>1, <3>2, LocalStep
  <2>3. CASE Len(g1.word) + 1 # MAXLEN
    <3> DEFINE w == Append(g1.word, char)
    <3>1. AddChar(g1) = [g1 EXCEPT !.word = w]
      BY <2>3 DEF AddChar
    <3>2. w \in Seq(Symbol) /\ Len(w) < MAXLEN
      BY <1>1, <1>2, <2>3
    <3> HIDE DEF w
    <3>3. Fitting([g1 EXCEPT !.word = w])
      BY <1>2, <3>2 DEF Fitting, Frame
    <3> QED
      BY <2>1, <3>1, <3>3, LocalStep
  <2> QED
    BY <2>2, <2>3
<1>6. CASE Keyword
  <2>1. PICK b \in BOOLEAN :
          stack' = Put([Reset(g1) EXCEPT
                          !.newclause = b,
                          !.argument = KeywordOf(g1.word),
                          !.one_ip = (KeywordOf(g1.word) = "first_ip") \/ @])
    <3>1. (IF g1.word = << >> THEN BOOLEAN ELSE {g1.word[Len(g1.word)] = "{"}) \subseteq BOOLEAN
      OBVIOUS
    <3> QED
      BY <1>6, <3>1 DEF Keyword
  <2>2. b \in BOOLEAN
    OBVIOUS
  <2>3. KeywordOf(g1.word) \in Arguments
    BY DEF KeywordOf, Arguments
  <2> DEFINE a == KeywordOf(g1.word)
             o == (KeywordOf(g1.word) = "first_ip") \/ Reset(g1).one_ip
  <2>4. o \in BOOLEAN
    OBVIOUS
  <2>5. stack' = Put([Reset(g1) EXCEPT !.newclause = b, !.argument = a, !.one_ip = o])
    BY <2>1
  <2>6. UNCHANGED <<config, globals>>
    BY <1>6 DEF Keyword
  <2> HIDE DEF a, o
  <2>7. a \in Arguments
    BY <2>3 DEF a
  <2>8. Fitting([Reset(g1) EXCEPT !.newclause = b, !.argument = a, !.one_ip = o])
    BY <1>3, <2>2, <2>4, <2>7 DEF Fitting, Frame
  <2> QED
    BY <2>5, <2>6, <2>8, LocalStep
<1>7. CASE InnerSubnet
  <2>1. Fitting([Reset(g1) EXCEPT !.argument = "nothing"])
    BY <1>3 DEF Fitting, Frame, Arguments
  <2> QED
    BY <1>7, <2>1, LocalStep DEF InnerSubnet
<1> QED
  BY <1>4, <1>5, <1>6, <1>7

-----------------------------------------------------------------------------
(* Ranges *)

(* Whatever a word is, what parse_ipaddr and reorder_last_first make of it is
   an address or nothing that is known, and a range. *)
LEMMA RangeTypes ==
  ASSUME NEW w, NEW r \in RangeEntry
  PROVE  /\ IpOf(w) \in Ip
         /\ reorder_last_first(r) \subseteq RangeEntry
<1>1. IpOf(w) \in Ip
  BY DEF IpOf, IsIp, Ip
<1>2. Flip(r) \in RangeEntry
  BY DEF Flip, RangeEntry
<1>3. reorder_last_first(r) \subseteq RangeEntry
  BY <1>2 DEF reorder_last_first
<1> QED
  BY <1>1, <1>3

(* The pointer at the slot, and what is written through a pointer. *)
LEMMA Pointers ==
  ASSUME ParserInv
  PROVE  /\ SlotPointer \in Pointer /\ SlotPointer # NullPointer
         /\ SlotPointer.at = num_ranges + 1 /\ SlotPointer.array = RANGES
<1>1. num_ranges \in Nat /\ RANGES \in Nat /\ num_ranges < RANGES
  BY DEF ParserInv, TypeOK, WithinArrays, num_ranges
<1>2. SlotPointer.at = num_ranges + 1 /\ SlotPointer.array = RANGES
  BY DEF SlotPointer
<1>3. SlotPointer # NullPointer
  BY <1>1, <1>2 DEF NullPointer
<1> QED
  BY <1>1, <1>2, <1>3 DEF SlotPointer, Pointer

LEMMA WriteTypes ==
  ASSUME ParserInv, NEW p \in Pointer, NEW r \in RangeEntry
  PROVE  /\ Append(ranges, slot) \in Seq(RangeEntry) /\ Len(Append(ranges, slot)) = num_ranges + 1
         /\ Append(ranges, slot)[p.at] \in RangeEntry
         /\ Written(p, r) \in Seq(RangeEntry) /\ Len(Written(p, r)) = num_ranges + 1
<1>1. /\ ranges \in Seq(RangeEntry) /\ slot \in RangeEntry /\ num_ranges = Len(ranges)
      /\ num_ranges \in Nat
  BY DEF ParserInv, TypeOK, num_ranges
<1>2. f.shared_p \in NetNumbers
  BY CurrentCall DEF Fitting, Frame
<1> DEFINE q == [r EXCEPT !.net = f.shared_p]
           s == Append(ranges, slot)
<1>3. q \in RangeEntry
  BY <1>2 DEF RangeEntry
<1>4. Written(p, r) = [s EXCEPT ![p.at] = q]
  BY DEF Written
<1>5. s \in Seq(RangeEntry) /\ Len(s) = num_ranges + 1
  BY <1>1
<1>6. p.at \in 1..(num_ranges + 1)
  BY DEF Pointer
<1> HIDE DEF q, s
<1> DEFINE n == p.at
<1>7. Written(p, r) \in Seq(RangeEntry) /\ Len(Written(p, r)) = num_ranges + 1
  <2>1. Written(p, r) = [s EXCEPT ![n] = q] /\ n \in 1..(num_ranges + 1)
    BY <1>4, <1>6
  <2> HIDE DEF n
  <2> QED
    BY <1>3, <1>5, <2>1
<1>8. s[p.at] \in RangeEntry
  BY <1>5, <1>6
<1> QED
  BY <1>5, <1>7, <1>8 DEF s

(* The slot becomes a range, and the array is doubled when no other would be
   left. *)
LEMMA NewRange ==
  ASSUME ParserInv, NEW array \in Seq(RangeEntry), Len(array) = num_ranges + 1,
         NEW p \in Pointer, NEW g, Fitting(g), newrange(array, p, g), phase' \in {phase, "error"}
  PROVE  ParserInv'
<1>1. UNCHANGED <<config, nets>> /\ slot' = EmptySlot
  BY DEF newrange
<1>2. /\ ranges \in Seq(RangeEntry) /\ slot \in RangeEntry /\ num_ranges = Len(ranges)
      /\ num_ranges \in Nat /\ RANGES \in Nat /\ num_ranges < RANGES
  BY DEF ParserInv, TypeOK, WithinArrays, num_ranges
<1>6. ranges' \in Seq(RangeEntry) /\ Len(ranges') = num_ranges + 1
  BY DEF newrange
<1>7. num_ranges' = num_ranges + 1 /\ num_shared_networks' = num_shared_networks
  BY <1>1, <1>6 DEF num_ranges, num_shared_networks
<1>8. num_shared_networks \in Nat
  BY DEF ParserInv, TypeOK, num_shared_networks
<1>9. /\ Frame \subseteq Frame' /\ RangeEntry \subseteq RangeEntry' /\ Pointer \subseteq Pointer'
      /\ NetNumbers' = NetNumbers
  BY <1>1, <1>2, <1>7, <1>8, FramesGrow DEF NetNumbers
<1>10. RANGES' \in Nat /\ num_ranges' < RANGES'
  BY <1>2, <1>7 DEF newrange, Full
<1> DEFINE n == IF Full(num_ranges + 1) THEN [array |-> 2 * RANGES, at |-> num_ranges + 2] ELSE p
           h == [g EXCEPT !.newclause = TRUE, !.range_p = n]
<1>11. h \in Frame' /\ Len(h.word) < MAXLEN
  <2>1. n \in Pointer'
    <3>1. [array |-> 2 * RANGES, at |-> num_ranges + 2] \in Pointer'
      BY <1>2, <1>7 DEF Pointer
    <3> QED
      BY <1>9, <3>1
  <2> HIDE DEF n
  <2>2. g \in Frame' /\ Len(g.word) < MAXLEN
    BY <1>9 DEF Fitting
  <2> QED
    BY <2>1, <2>2 DEF Frame
<1>12. stack' = Put(h)
  BY DEF newrange
<1> HIDE DEF h
<1>13. /\ stack' \in Seq(Frame') /\ Len(stack') = Len(stack)
       /\ \A x \in DOMAIN stack' : Len(stack'[x].word) < MAXLEN
  BY <1>9, <1>11, <1>12, PutFits
<1>14. EmptySlot \in RangeEntry
  BY DEF EmptySlot, RangeEntry, Ip
<1>15. TypeOK'
  <2>1. ranges' \in Seq(RangeEntry') /\ slot' \in RangeEntry'
    BY <1>1, <1>6, <1>9, <1>14
  <2>2. phase' \in {"parse", "done", "error"}
    BY DEF ParserInv, TypeOK
  <2> QED
    BY <1>1, <1>10, <1>13, <2>1, <2>2 DEF ParserInv, TypeOK
<1>16. WithinArrays'
  BY <1>7, <1>10, <1>13 DEF ParserInv, WithinArrays
<1> QED
  BY <1>1, <1>7, <1>15, <1>16 DEF ParserInv, RoomForNet

(* The addresses of a range statement, and the error exit. *)
LEMMA RangeStep ==
  ASSUME ParserInv,
         FirstIp \/ SecondIp \/ CloseRange \/ NoRange
  PROVE  ParserInv'
<1>1. /\ Fitting(f) /\ Fitting(g0) /\ Fitting(g1) /\ Fitting(Reset(g1))
      /\ g1 \in Frame /\ Reset(g1) \in Frame
  BY CurrentCall, AfterReading, ResetFits DEF Fitting
<1>2. /\ slot \in RangeEntry /\ ranges \in Seq(RangeEntry)
      /\ num_ranges \in Nat /\ num_ranges = Len(ranges)
  BY DEF ParserInv, TypeOK, num_ranges
<1>3. SlotPointer \in Pointer
  BY Pointers
<1>4. CASE FirstIp
  <2> DEFINE n == SlotPointer
             g == IF IsIp(g1.word)
                  THEN [Reset(g1) EXCEPT !.one_ip = FALSE, !.argument = "second_ip", !.range_p = n]
                  ELSE [Reset(g1) EXCEPT !.range_p = n]
  <2>1. n \in Pointer
    BY <1>3
  <2>2. UNCHANGED <<config, ranges, RANGES, nets, phase>>
    BY <1>4 DEF FirstIp
  <2>3. stack' = Put(g) /\ slot' \in {slot, [slot EXCEPT !.first = IpOf(g1.word)]}
    BY <1>4 DEF FirstIp
  <2> HIDE DEF n
  <2>4. Fitting(g)
    BY <1>1, <2>1 DEF Fitting, Frame, Arguments
  <2> HIDE DEF g
  <2>5. slot' \in RangeEntry
    BY <1>2, <2>3, RangeTypes DEF RangeEntry
  <2>6. /\ num_ranges' = num_ranges /\ num_shared_networks' = num_shared_networks
        /\ Frame' = Frame /\ RangeEntry' = RangeEntry
    BY <2>2 DEF num_ranges, num_shared_networks, Frame, RangeEntry, NetNumbers, Pointer
  <2>7. /\ Put(g) \in Seq(Frame) /\ Len(Put(g)) = Len(stack)
        /\ \A x \in DOMAIN Put(g) : Len(Put(g)[x].word) < MAXLEN
    BY <2>4, PutFits DEF Fitting
  <2>8. TypeOK'
    BY <2>2, <2>3, <2>5, <2>6, <2>7 DEF ParserInv, TypeOK
  <2>9. WithinArrays'
    BY <2>2, <2>3, <2>6, <2>7 DEF ParserInv, WithinArrays
  <2> QED
    BY <2>2, <2>6, <2>8, <2>9 DEF ParserInv, RoomForNet
<1>5. CASE SecondIp
  <2> DEFINE h == [Reset(g1) EXCEPT !.argument = "nothing", !.one_ip = FALSE]
             a == IF g1.one_ip THEN IpOf(g1.word) ELSE slot.first
             s == [slot EXCEPT !.first = a, !.last = IpOf(g1.word)]
  <2>1. PICK r \in reorder_last_first(s) : newrange(Written(SlotPointer, r), SlotPointer, h)
    BY <1>5 DEF SecondIp
  <2>7. phase' = phase
    BY <1>5 DEF SecondIp
  <2>2. Fitting(h)
    BY <1>1 DEF Fitting, Frame, Arguments
  <2>3. IpOf(g1.word) \in Ip /\ slot.first \in Ip
    BY <1>2, RangeTypes DEF RangeEntry
  <2>4. a \in Ip
    BY <2>3, Zenon
  <2> HIDE DEF a
  <2>5. s \in RangeEntry
    BY <1>2, <2>3, <2>4 DEF RangeEntry
  <2>6. r \in RangeEntry
    BY <2>1, <2>5, RangeTypes
  <2> HIDE DEF s, h
  <2> QED
    BY <1>3, <2>1, <2>2, <2>6, <2>7, NewRange, WriteTypes
<1>6. CASE CloseRange
  <2> DEFINE p == f.range_p
             r == Append(ranges, slot)[p.at]
             q == [r EXCEPT !.last = r.first]
  <2>1. PICK after \in {Written(p, q), Append(ranges, slot)} : newrange(after, p, g0)
    BY <1>6 DEF CloseRange
  <2>2. f.range_p # NullPointer /\ phase' \in {phase, "error"}
    BY <1>6 DEF CloseRange
  <2>3. p \in Pointer
    BY <1>1, <2>2 DEF Fitting, Frame
  <2>4. r \in RangeEntry
    BY <1>2, <2>3, WriteTypes
  <2> HIDE DEF r
  <2>5. q \in RangeEntry
    BY <2>4 DEF RangeEntry
  <2> HIDE DEF q, p
  <2>6. after \in Seq(RangeEntry) /\ Len(after) = num_ranges + 1
    BY <2>1, <2>3, <2>5, WriteTypes
  <2> QED
    BY <1>1, <2>1, <2>2, <2>3, <2>6, NewRange
<1>7. CASE NoRange
  <2>1. UNCHANGED <<config, stack, ranges, slot, RANGES, nets>> /\ phase' = "error"
    BY <1>7 DEF NoRange
  <2> QED
    BY <2>1 DEF ParserInv, TypeOK, WithinArrays, RoomForNet, Frame, RangeEntry, NetNumbers, Pointer,
                num_ranges, num_shared_networks
<1> QED
  BY <1>4, <1>5, <1>6, <1>7

-----------------------------------------------------------------------------
(* Networks and files *)

(* Adding a symbol to the name of a network keeps the other networks. *)
LEMMA NamedNet ==
  ASSUME NEW s \in Seq([name : Seq(Symbol), masked : BOOLEAN]), NEW n \in 1..Len(s),
         NEW x \in Symbol
  PROVE  LET t == [s EXCEPT ![n].name = Append(@, x)] IN
           t \in Seq([name : Seq(Symbol), masked : BOOLEAN]) /\ Len(t) = Len(s)
<1> DEFINE NetEntry == [name : Seq(Symbol), masked : BOOLEAN]
           m == Append(s[n].name, x)
           e == [s[n] EXCEPT !.name = m]
           t == [s EXCEPT ![n] = e]
<1>1. s[n] \in NetEntry
  <2>1. s \in Seq(NetEntry) /\ n \in 1..Len(s)
    OBVIOUS
  <2> HIDE DEF NetEntry
  <2> QED
    BY <2>1, ElementOfSeq
<1>2. s[n].name \in Seq(Symbol)
  BY <1>1
<1>3. m \in Seq(Symbol)
  BY <1>2
<1>4. e \in NetEntry
  <2> HIDE DEF m
  <2> QED
    BY <1>1, <1>3
<1>5. t \in Seq(NetEntry) /\ Len(t) = Len(s)
  <2> HIDE DEF e, NetEntry
  <2> QED
    BY <1>4 DEF NetEntry
<1> QED
  BY <1>5

(* A network is added while there is room for it, and its name is extended by
   the prefix length. *)
LEMMA NetStep ==
  ASSUME ParserInv, phase = "parse", SharedNet \/ Netmask
  PROVE  ParserInv'
<1> DEFINE NetEntry == [name : Seq(Symbol), masked : BOOLEAN]
<1>1. /\ Fitting(f) /\ Fitting(g1) /\ Fitting(Reset(g1))
      /\ g1 \in Frame /\ Reset(g1) \in Frame
      /\ g1.word \in Seq(Symbol) /\ g1.braces \in Int
  <2>1. Fitting(f) /\ Fitting(g1) /\ g1 \in Frame
    BY CurrentCall, AfterReading DEF Fitting
  <2> QED
    BY <2>1, ResetFits DEF Fitting, Frame
<1>2. /\ nets \in Seq(NetEntry) /\ num_shared_networks = Len(nets)
      /\ num_shared_networks \in Nat /\ num_ranges \in Nat
      /\ num_shared_networks + 2 <= SHARED_NETWORKS
  BY DEF ParserInv, TypeOK, RoomForNet, num_shared_networks, num_ranges
<1>3. CASE SharedNet
  <2>1. UNCHANGED <<config, ranges, slot, RANGES>> /\ num_ranges' = num_ranges
    BY <1>3 DEF SharedNet, num_ranges
  <2> DEFINE n == NewNet
             b == (g1.argument = "subnet")
             e == [name |-> g1.word, masked |-> b]
             h == [Reset(g1) EXCEPT !.newclause = b, !.argument = "nothing",
                                    !.shared_p = n, !.braces_shared = g1.braces]
  <2>2. nets' = Append(nets, e) /\ stack' = Put(h)
    BY <1>3 DEF SharedNet
  <2>3. e \in NetEntry
    BY <1>1
  <2> HIDE DEF e
  <2>4. nets' \in Seq(NetEntry) /\ Len(nets') = num_shared_networks + 1
    BY <1>2, <2>2, <2>3
  <2>5. num_shared_networks' = num_shared_networks + 1
    BY <2>4 DEF num_shared_networks
  <2>6. Frame \subseteq Frame' /\ RangeEntry \subseteq RangeEntry'
    BY <1>2, <2>1, <2>5, FramesGrow
  <2>7. n \in NetNumbers' /\ b \in BOOLEAN
    BY <1>2, <2>5 DEF NetNumbers, NewNet
  <2> HIDE DEF n, b
  <2>8. h \in Frame' /\ Len(h.word) < MAXLEN
    <3>1. Reset(g1) \in Frame' /\ Len(Reset(g1).word) < MAXLEN
      BY <1>1, <2>6 DEF Fitting
    <3> QED
      BY <1>1, <2>7, <3>1 DEF Frame, Arguments
  <2> HIDE DEF h
  <2>9. /\ stack' \in Seq(Frame') /\ Len(stack') = Len(stack)
        /\ \A x \in DOMAIN stack' : Len(stack'[x].word) < MAXLEN
    BY <2>2, <2>6, <2>8, PutFits
  <2>10. /\ phase' \in {"parse", "error"}
         /\ phase' = "parse" => num_shared_networks + 3 <= SHARED_NETWORKS
    BY <1>2, <1>3 DEF SharedNet, NoRoom, NewNet
  <2>11. ranges' \in Seq(RangeEntry') /\ slot' \in RangeEntry'
    <3>1. ranges \in Seq(RangeEntry) /\ slot \in RangeEntry
      BY DEF ParserInv, TypeOK
    <3> QED
      BY <2>1, <2>6, <3>1
  <2>12. TypeOK'
    BY <2>1, <2>4, <2>9, <2>10, <2>11 DEF ParserInv, TypeOK
  <2>13. WithinArrays'
    BY <1>2, <2>1, <2>5, <2>9 DEF ParserInv, WithinArrays
  <2>14. RoomForNet'
    BY <1>2, <2>5, <2>10 DEF RoomForNet
  <2> QED
    BY <2>12, <2>13, <2>14 DEF ParserInv
<1>4. CASE Netmask
  <2>1. /\ UNCHANGED <<config, ranges, slot, RANGES, phase>>
        /\ f.shared_p # 0 /\ f.shared_p \in NetNumbers
    BY <1>1, <1>4 DEF Netmask, Fitting, Frame
  <2> DEFINE w == g1.word
             n == f.shared_p
             masked == nets[n].masked
             parsed == Len(w) = 1 /\ w[1] \in DOMAIN Masks
             named == [nets EXCEPT ![n].name = Append(@, w[1])]
             h == [Reset(g1) EXCEPT !.argument = "nothing", !.braces_shared = g1.braces]
  <2>2. n \in 1..Len(nets)
    <3>1. n \in 0..num_shared_networks /\ n # 0
      BY <2>1 DEF NetNumbers
    <3> QED
      BY <1>2, <3>1
  <2>3. nets' = nets \/ (parsed /\ nets' = named)
    BY <1>4 DEF Netmask
  <2>4. stack' = Put(Reset(g1)) \/ stack' = Put(h)
    BY <1>4 DEF Netmask
  <2>5. nets' \in Seq(NetEntry) /\ Len(nets') = Len(nets)
    <3>1. ASSUME parsed PROVE named \in Seq(NetEntry) /\ Len(named) = Len(nets)
      <4>1. w[1] \in Symbol
        BY <1>1, <3>1
      <4> HIDE DEF n, w
      <4> QED
        BY <1>2, <2>2, <4>1, NamedNet
    <3> QED
      BY <1>2, <2>3, <3>1
  <2>6. /\ num_ranges' = num_ranges /\ num_shared_networks' = num_shared_networks
        /\ Frame' = Frame /\ RangeEntry' = RangeEntry
    BY <1>2, <2>1, <2>5 DEF num_ranges, num_shared_networks, Frame, RangeEntry, NetNumbers, Pointer
  <2>7. Fitting(h)
    BY <1>1 DEF Fitting, Frame, Arguments
  <2> HIDE DEF h
  <2>8. /\ stack' \in Seq(Frame) /\ Len(stack') = Len(stack)
        /\ \A x \in DOMAIN stack' : Len(stack'[x].word) < MAXLEN
    <3>1. PICK g : Fitting(g) /\ stack' = Put(g)
      BY <1>1, <2>4, <2>7
    <3> QED
      BY <3>1, PutFits DEF Fitting
  <2>9. TypeOK'
    BY <2>1, <2>5, <2>6, <2>8 DEF ParserInv, TypeOK
  <2>10. WithinArrays'
    BY <2>1, <2>6, <2>8 DEF ParserInv, WithinArrays
  <2> QED
    BY <2>1, <2>6, <2>9, <2>10 DEF ParserInv, RoomForNet
<1> QED
  BY <1>3, <1>4

(* A file is opened while that is possible; a call ends. *)
LEMMA FileStep ==
  ASSUME ParserInv, Include \/ Return
  PROVE  ParserInv'
<1>1. UNCHANGED <<config, ranges, slot, RANGES, nets>>
  BY DEF Include, Return
<1>2. /\ num_ranges' = num_ranges /\ num_shared_networks' = num_shared_networks
      /\ Frame' = Frame /\ RangeEntry' = RangeEntry
  BY <1>1 DEF num_ranges, num_shared_networks, Frame, RangeEntry, NetNumbers, Pointer
<1>3. /\ stack \in Seq(Frame) /\ Len(stack) \in 1..MaxFiles
      /\ \A x \in DOMAIN stack : Len(stack[x].word) < MAXLEN
  BY DEF ParserInv, TypeOK, WithinArrays
<1>4. SUFFICES /\ stack' \in Seq(Frame) /\ Len(stack') \in 1..MaxFiles
               /\ \A x \in DOMAIN stack' : Len(stack'[x].word) < MAXLEN
               /\ phase' \in {phase, "done", "error"}
  BY <1>1, <1>2 DEF ParserInv, TypeOK, WithinArrays, RoomForNet
<1>5. CASE Include
  <2>1. CASE ~CanOpen(g1.word)
    BY <1>3, <1>5, <2>1 DEF Include
  <2>2. CASE CanOpen(g1.word)
    <3> DEFINE h == [Reset(g1) EXCEPT !.argument = "nothing", !.newclause = TRUE]
               s == Put(h)
               e == Call(g1.word[1], f.shared_p)
    <3>1. stack' = Append(s, e) /\ phase' = phase
      BY <1>5, <2>2 DEF Include
    <3>2. Fitting(f) /\ Fitting(Reset(g1))
      BY CurrentCall, AfterReading, ResetFits DEF Fitting
    <3>3. Fitting(h)
      BY <3>2 DEF Fitting, Frame, Arguments
    <3> HIDE DEF h
    <3>4. /\ s \in Seq(Frame) /\ Len(s) = Len(stack) /\ DOMAIN s = 1..Len(stack)
          /\ \A x \in DOMAIN s : Len(s[x].word) < MAXLEN
      BY <3>3, PutFits DEF Fitting
    <3>5. f.shared_p \in NetNumbers /\ g1.word[1] \in DOMAIN config.files
      BY <2>2, <3>2 DEF Fitting, Frame, CanOpen
    <3>6. e \in Frame /\ e.word = << >>
      BY <3>5 DEF Call, Frame, Arguments, NoScope
    <3> HIDE DEF s, e
    <3>7. Len(stack) + 1 <= MaxFiles
      BY <1>3, <2>2 DEF CanOpen
    <3>8. /\ stack' \in Seq(Frame) /\ Len(stack') = Len(stack) + 1
          /\ \A x \in 1..(Len(stack) + 1) : stack'[x] = IF x <= Len(stack) THEN s[x] ELSE e
      BY <1>3, <3>1, <3>4, <3>6
    <3>9. \A x \in DOMAIN stack' : Len(stack'[x].word) < MAXLEN
      BY <1>3, <3>4, <3>6, <3>8
    <3> QED
      BY <1>3, <3>1, <3>7, <3>8, <3>9
  <2> QED
    BY <2>1, <2>2
<1>6. CASE Return
  <2>1. CASE Len(stack) > 1
    <3>1. stack' = SubSeq(stack, 1, Len(stack) - 1) /\ phase' = phase
      BY <1>6, <2>1 DEF Return
    <3>2. /\ stack' \in Seq(Frame) /\ Len(stack') = Len(stack) - 1
          /\ \A x \in 1..(Len(stack) - 1) : stack'[x] = stack[x]
      BY <1>3, <2>1, <3>1
    <3> QED
      BY <1>3, <2>1, <3>1, <3>2
  <2>2. CASE ~(Len(stack) > 1)
    BY <1>3, <1>6, <2>2 DEF Return
  <2> QED
    BY <2>1, <2>2
<1> QED
  BY <1>5, <1>6

-----------------------------------------------------------------------------
(* The theorems *)

LEMMA InitParser ==
  ASSUME Init
  PROVE  ParserInv
<1>1. /\ config \in Configs /\ stack = <<Call("main", 0)>>
      /\ ranges = << >> /\ slot = EmptySlot /\ RANGES = InitialRANGES
      /\ nets = << >> /\ phase = "parse"
  BY DEF Init
<1>2. num_ranges = 0 /\ num_shared_networks = 0
  BY <1>1 DEF num_ranges, num_shared_networks
<1> DEFINE g == Call("main", 0)
<1>3. g \in Frame /\ g.word = << >>
  <2>1. "main" \in DOMAIN config.files
    BY <1>1
  <2>2. 0 \in NetNumbers
    BY <1>2 DEF NetNumbers
  <2> QED
    BY <2>1, <2>2 DEF Call, Frame, Arguments, NoScope
<1> HIDE DEF g
<1>4. /\ stack \in Seq(Frame) /\ Len(stack) = 1
      /\ \A x \in DOMAIN stack : Len(stack[x].word) < MAXLEN
  BY <1>1, <1>3 DEF g
<1>5. EmptySlot \in RangeEntry
  BY DEF EmptySlot, RangeEntry, Ip
<1>6. TypeOK
  BY <1>1, <1>4, <1>5 DEF TypeOK
<1>7. WithinArrays
  BY <1>1, <1>2, <1>4 DEF WithinArrays
<1> QED
  BY <1>2, <1>6, <1>7 DEF ParserInv, RoomForNet

LEMMA NextParser ==
  ASSUME ParserInv, [Next]_vars
  PROVE  ParserInv'
<1>1. CASE Character
  <2>1. phase = "parse"
    BY <1>1 DEF Character, StartComment, ToggleQuote, EndClause, EndFirst, PassSemicolon,
         OpenBrace, CloseBrace, SkipChar, AppendChar, Keyword, FirstIp, SecondIp, CloseRange,
         NoRange, SharedNet, OpenNet, InnerSubnet, Netmask, Include,
         AtKeyword, AtArgument, WordEnd, EndsRange, Turn
  <2> QED
    BY <1>1, <2>1, SpecialStep, WordStep, RangeStep, NetStep, FileStep DEF Character
<1>2. CASE Return
  BY <1>2, FileStep
<1>3. CASE UNCHANGED vars
  BY <1>3 DEF vars, ParserInv, TypeOK, WithinArrays, RoomForNet, Frame, RangeEntry, NetNumbers, Pointer,
              num_ranges, num_shared_networks
<1> QED
  BY <1>1, <1>2, <1>3 DEF Next, Terminated

(* The variables of parse_config keep their types for every configuration,
   whatever is in it: a pointer at a network is at one there is, a pointer at
   a range has the position of one or of the slot, in the array it was taken
   in, and the depth of the include files is bounded. *)
THEOREM ParserTypes == Spec => []TypeOK
<1>1. Init => ParserInv
  BY InitParser
<1>2. ParserInv /\ [Next]_vars => ParserInv'
  BY NextParser
<1>3. ParserInv => TypeOK
  BY DEF ParserInv
<1> QED
  BY <1>1, <1>2, <1>3, PTL DEF Spec

(* No configuration takes the parser past the end of its arrays or of the word
   buffer: the doubling leaves a free slot after every range, and the limit of
   the networks, checked late, is checked early enough. *)
THEOREM RoomForWrites == Spec => []WithinArrays
<1>1. Init => ParserInv
  BY InitParser
<1>2. ParserInv /\ [Next]_vars => ParserInv'
  BY NextParser
<1>3. ParserInv => WithinArrays
  BY DEF ParserInv
<1> QED
  BY <1>1, <1>2, <1>3, PTL DEF Spec

-----------------------------------------------------------------------------
(* The order of the addresses of a range *)

\* A range that is being read has no last address yet.
OrderInv == RangesOrdered /\ slot.last = Garbage

(* reorder_last_first does what its name says. *)
LEMMA Reordered ==
  ASSUME NEW r \in RangeEntry, NEW q \in reorder_last_first(r)
  PROVE  Ordered(q)
<1>1. CASE ~({r.first, r.last} \subseteq Addresses)
  <2>1. q \in {r, Flip(r)}
    BY <1>1 DEF reorder_last_first
  <2>2. Flip(r).first = r.last /\ Flip(r).last = r.first
    BY DEF Flip, RangeEntry
  <2> QED
    BY <1>1, <2>1, <2>2 DEF Ordered
<1>2. CASE {r.first, r.last} \subseteq Addresses
  <2>1. \A a \in Addresses : IpNumber(a) \in Int
    <3>1. DOMAIN IPs \subseteq Int
      OBVIOUS
    <3>2. ASSUME NEW a \in Addresses PROVE IpNumber(a) \in DOMAIN IPs
      <4>1. \E x \in DOMAIN IPs : IPs[x] = a
        BY DEF Addresses
      <4> QED
        BY <4>1 DEF IpNumber
    <3> QED
      BY <3>1, <3>2
  <2>2. IpNumber(r.first) \in Int /\ IpNumber(r.last) \in Int
    BY <1>2, <2>1
  <2>3. q = IF IpNumber(r.first) > IpNumber(r.last) THEN Flip(r) ELSE r
    BY <1>2 DEF reorder_last_first
  <2>4. Flip(r).first = r.last /\ Flip(r).last = r.first
    BY DEF Flip, RangeEntry
  <2> QED
    BY <2>2, <2>3, <2>4 DEF Ordered
<1> QED
  BY <1>1, <1>2

(* A range that is written in order leaves all ranges in order; the slot is one
   of them for a moment if another range is completed in its place. *)
LEMMA WrittenOrdered ==
  ASSUME ParserInv, OrderInv
  PROVE  /\ \A x \in DOMAIN Append(ranges, slot) : Ordered(Append(ranges, slot)[x])
         /\ \A p \in Pointer, r \in RangeEntry :
              Ordered(r) => \A x \in DOMAIN Written(p, r) : Ordered(Written(p, r)[x])
<1>1. /\ ranges \in Seq(RangeEntry) /\ slot \in RangeEntry /\ num_ranges = Len(ranges)
      /\ num_ranges \in Nat
  BY DEF ParserInv, TypeOK, num_ranges
<1> DEFINE s == Append(ranges, slot)
<1>2. /\ DOMAIN s = 1..(num_ranges + 1)
      /\ \A x \in 1..(num_ranges + 1) : s[x] = IF x <= num_ranges THEN ranges[x] ELSE slot
  BY <1>1
<1>3. Ordered(slot)
  <2>1. Garbage \notin Addresses
    BY DEF Addresses
  <2> QED
    BY <2>1 DEF OrderInv, Ordered
<1>4. \A x \in DOMAIN s : Ordered(s[x])
  <2>1. \A x \in 1..num_ranges : Ordered(ranges[x])
    BY <1>1 DEF OrderInv, RangesOrdered
  <2> QED
    BY <1>1, <1>2, <1>3, <2>1
<1>5. ASSUME NEW p \in Pointer, NEW r \in RangeEntry, Ordered(r)
      PROVE  \A x \in DOMAIN Written(p, r) : Ordered(Written(p, r)[x])
  <2> DEFINE q == [r EXCEPT !.net = f.shared_p]
  <2>1. Written(p, r) = [s EXCEPT ![p.at] = q]
    BY DEF Written
  <2>2. q.first = r.first /\ q.last = r.last
    BY DEF RangeEntry
  <2>3. Ordered(q)
    BY <1>5, <2>2 DEF Ordered
  <2> HIDE DEF q, s
  <2> QED
    BY <1>2, <1>4, <2>1, <2>3
<1> QED
  BY <1>4, <1>5

LEMMA NewRangeOrdered ==
  ASSUME ParserInv, OrderInv, NEW array, \A x \in DOMAIN array : Ordered(array[x]),
         NEW p, NEW g, newrange(array, p, g)
  PROVE  OrderInv'
<1>1. ranges' = array /\ slot' = EmptySlot
  BY DEF newrange
<1>2. \A x \in DOMAIN ranges' : Ordered(ranges'[x])
  BY <1>1
<1> QED
  BY <1>1, <1>2 DEF OrderInv, RangesOrdered, EmptySlot

LEMMA NextOrdered ==
  ASSUME ParserInv, OrderInv, [Next]_vars
  PROVE  OrderInv'
<1>1. CASE UNCHANGED <<ranges, slot>>
  BY <1>1 DEF OrderInv, RangesOrdered
<1>2. slot \in RangeEntry /\ ranges \in Seq(RangeEntry) /\ num_ranges \in Nat /\ num_ranges = Len(ranges)
  BY DEF ParserInv, TypeOK, num_ranges
<1>3. CASE FirstIp
  <2>1. ranges' = ranges /\ slot' \in {slot, [slot EXCEPT !.first = IpOf(g1.word)]}
    BY <1>3 DEF FirstIp
  <2>2. slot'.last = slot.last
    BY <1>2, <2>1 DEF RangeEntry
  <2> QED
    BY <2>1, <2>2 DEF OrderInv, RangesOrdered
<1>4. CASE SecondIp
  <2> DEFINE a == IF g1.one_ip THEN IpOf(g1.word) ELSE slot.first
             s == [slot EXCEPT !.first = a, !.last = IpOf(g1.word)]
  <2>1. PICK r \in reorder_last_first(s) :
          newrange(Written(SlotPointer, r), SlotPointer,
                   [Reset(g1) EXCEPT !.argument = "nothing", !.one_ip = FALSE])
    BY <1>4 DEF SecondIp
  <2>2. IpOf(g1.word) \in Ip /\ slot.first \in Ip
    BY <1>2, RangeTypes DEF RangeEntry
  <2>3. a \in Ip
    BY <2>2, Zenon
  <2> HIDE DEF a
  <2>4. s \in RangeEntry
    BY <1>2, <2>2, <2>3 DEF RangeEntry
  <2> HIDE DEF s
  <2>5. r \in RangeEntry /\ Ordered(r)
    BY <2>1, <2>4, RangeTypes, Reordered
  <2> QED
    BY <2>1, <2>5, Pointers, WrittenOrdered, NewRangeOrdered
<1>5. CASE CloseRange
  <2> DEFINE p == f.range_p
             r == Append(ranges, slot)[p.at]
             q == [r EXCEPT !.last = r.first]
  <2>1. PICK after \in {Written(p, q), Append(ranges, slot)} : newrange(after, p, g0)
    BY <1>5 DEF CloseRange
  <2>2. p \in Pointer
    BY <1>5, CurrentCall DEF CloseRange, Fitting, Frame
  <2>3. r \in RangeEntry
    BY <2>2, <1>2, WriteTypes
  <2> HIDE DEF r
  <2>4. q \in RangeEntry /\ q.first = q.last
    BY <2>3 DEF RangeEntry
  <2> HIDE DEF q
  <2>5. Ordered(q)
    <3>1. ASSUME q.first \in Addresses PROVE IpNumber(q.first) \in Int
      <4>1. \E x \in DOMAIN IPs : IPs[x] = q.first
        BY <3>1 DEF Addresses
      <4>2. IpNumber(q.first) \in DOMAIN IPs
        BY <4>1 DEF IpNumber
      <4> QED
        BY <4>2
    <3> QED
      BY <2>4, <3>1 DEF Ordered
  <2>6. \A x \in DOMAIN after : Ordered(after[x])
    BY <2>1, <2>2, <2>4, <2>5, WrittenOrdered
  <2> QED
    BY <2>1, <2>6, NewRangeOrdered
<1>6. FirstIp \/ SecondIp \/ CloseRange \/ UNCHANGED <<ranges, slot>>
  BY DEF Next, Terminated, Character, StartComment, ToggleQuote, EndClause, EndFirst,
         PassSemicolon, OpenBrace, CloseBrace, SkipChar, AppendChar, Keyword, NoRange,
         SharedNet, InnerSubnet, Netmask, Include, Return, globals, vars
<1> QED
  BY <1>1, <1>3, <1>4, <1>5, <1>6

(* What the counting relies on: no configuration leaves a range whose first
   address is above its last one. *)
THEOREM AddressesOrdered == Spec => []RangesOrdered
<1>1. Init => ParserInv /\ OrderInv
  BY InitParser DEF Init, OrderInv, RangesOrdered, EmptySlot
<1>2. ParserInv /\ OrderInv /\ [Next]_vars => (ParserInv /\ OrderInv)'
  BY NextParser, NextOrdered
<1>3. OrderInv => RangesOrdered
  BY DEF OrderInv
<1> QED
  BY <1>1, <1>2, <1>3, PTL DEF Spec

HIDE ConfigAssumption

-----------------------------------------------------------------------------
(* What the parser reads is what the layout says *)

(* The word buffer has a size. *)
LEMMA MaxLen == MAXLEN \in Nat /\ MAXLEN > 1
  BY ConfigAssumption DEF ConfigAssumption

(* Words of one symbol and of two. *)
LEMMA ShortWords ==
  ASSUME NEW a, NEW b
  PROVE  /\ <<a, b>> # << >> /\ Len(<<a, b>>) = 2 /\ <<a, b>>[1] = a /\ <<a, b>>[2] = b
         /\ <<a>> # << >> /\ Len(<<a>>) = 1 /\ <<a>>[1] = a
         /\ Append(<<a>>, b) = <<a, b>> /\ Append(<< >>, a) = <<a>>
         /\ \A k \in 1..Len(<<a, b>>) : <<a, b>>[k] = a \/ <<a, b>>[k] = b
<1> DEFINE S == {a, b}
           u == Append(<<a>>, b)
           v == <<a, b>>
<1>1. <<a>> \in Seq(S) /\ b \in S
  OBVIOUS
<1>2. u \in Seq(S) /\ v \in Seq(S)
  BY <1>1
<1>3. Len(<<a>>) = 1 /\ Len(u) = 2 /\ Len(v) = 2 /\ u[1] = a /\ u[2] = b
  BY <1>1
<1>4. v[1] = a /\ v[2] = b
  OBVIOUS
<1>5. \A k \in 1..2 : k = 1 \/ k = 2
  OBVIOUS
<1>6. (\A k \in 1..Len(u) : u[k] = v[k]) /\ \A k \in 1..Len(v) : v[k] = a \/ v[k] = b
  BY <1>3, <1>4, <1>5
<1>7. Len(u) = Len(v)
  BY <1>3
<1>8. <<a>> # << >> /\ <<a>>[1] = a /\ v # << >> /\ Append(<< >>, a) = <<a>>
  OBVIOUS
<1> HIDE DEF u, v, S
<1>9. u = v
  BY <1>2, <1>6, <1>7, SeqEqual
<1> QED
  BY <1>3, <1>4, <1>6, <1>8, <1>9, Zenon DEF u, v

(* A word of two symbols contains no other. *)
LEMMA NotInShort ==
  ASSUME NEW a, NEW b, NEW k, k # a, k # b
  PROVE  ~Contains(<<a, b>>, k)
<1>1. \A x \in 1..Len(<<a, b>>) : <<a, b>>[x] = a \/ <<a, b>>[x] = b
  BY ShortWords
<1> QED
  BY <1>1 DEF Contains

(* There is room for another symbol of the word. *)
LEMMA RoomLeft ==
  ASSUME NEW w, NEW S, w \in Seq(S), Len(w) + 1 < MAXLEN
  PROVE  Len(w) + 1 # MAXLEN
  BY MaxLen

(* The fields of the call that runs, after a character. *)
LEMMA ReadFields ==
  ASSUME ParserInv
  PROVE  /\ f \in Frame /\ g0 \in Frame /\ g1 \in Frame
         /\ g0 = [f EXCEPT !.pos = f.pos + 1] /\ f.pos + 1 \in Nat
         /\ f.comment \in BOOLEAN /\ f.quote \in BOOLEAN /\ f.newclause \in BOOLEAN /\ f.one_ip \in BOOLEAN
         /\ f.word \in Seq(Symbol) /\ f.braces \in Int /\ f.pos \in Nat
         /\ g1.word = f.word /\ g1.argument = f.argument /\ g1.pos = f.pos + 1 /\ g1.file = f.file
         /\ g1.braces_shared = f.braces_shared /\ g1.shared_p = f.shared_p /\ g1.range_p = f.range_p
         /\ g1.newclause = f.newclause /\ g1.one_ip = f.one_ip /\ g1.quote = f.quote
         /\ ~Unquoted("\n") => g1.comment = f.comment
         /\ Unquoted("\n") => g1.comment = FALSE
         /\ Unquoted("{") /\ ~f.comment => g1.braces = f.braces + 1
         /\ ~(Unquoted("{") /\ ~f.comment) => g1.braces = f.braces
<1>1. Fitting(f) /\ Fitting(g0) /\ Fitting(g1)
  BY CurrentCall, AfterReading
<1>2. f \in Frame /\ g0 \in Frame /\ g1 \in Frame
  BY <1>1 DEF Fitting
<1>3. /\ f.comment \in BOOLEAN /\ f.quote \in BOOLEAN /\ f.newclause \in BOOLEAN /\ f.one_ip \in BOOLEAN
      /\ f.word \in Seq(Symbol) /\ f.braces \in Int /\ f.pos \in Nat
  BY <1>2 DEF Frame
<1>4. f.pos + 1 \in Nat
  BY <1>3
<1> DEFINE n == f.pos + 1
           C == IF Unquoted("\n") THEN FALSE ELSE g0.comment
           B == IF Unquoted("{") /\ ~f.comment THEN g0.braces + 1 ELSE g0.braces
<1>5. g0 = [f EXCEPT !.pos = n] /\ g1 = [g0 EXCEPT !.comment = C, !.braces = B]
  BY DEF g0, g1
<1> HIDE DEF n
<1>6. /\ g0.word = f.word /\ g0.argument = f.argument /\ g0.pos = n /\ g0.file = f.file
      /\ g0.braces_shared = f.braces_shared /\ g0.shared_p = f.shared_p /\ g0.range_p = f.range_p
      /\ g0.newclause = f.newclause /\ g0.one_ip = f.one_ip /\ g0.quote = f.quote
      /\ g0.comment = f.comment /\ g0.braces = f.braces
  BY <1>2, <1>5 DEF Frame
<1>7. ~Unquoted("\n") => C = f.comment
  BY <1>6, Zenon
<1>8. Unquoted("\n") => C = FALSE
  BY Zenon
<1>9. /\ Unquoted("{") /\ ~f.comment => B = f.braces + 1
      /\ ~(Unquoted("{") /\ ~f.comment) => B = f.braces
  BY <1>6, Zenon
<1> HIDE DEF C, B
<1>10. /\ g1.word = g0.word /\ g1.argument = g0.argument /\ g1.pos = g0.pos /\ g1.file = g0.file
       /\ g1.braces_shared = g0.braces_shared /\ g1.shared_p = g0.shared_p /\ g1.range_p = g0.range_p
       /\ g1.newclause = g0.newclause /\ g1.one_ip = g0.one_ip /\ g1.quote = g0.quote
       /\ g1.comment = C /\ g1.braces = B
  BY <1>2, <1>5 DEF Frame
<1> QED
  BY <1>2, <1>3, <1>4, <1>5, <1>6, <1>7, <1>8, <1>9, <1>10 DEF n

(* A turn of the loop is the action whose guard holds. *)
LEMMA Guards ==
  ASSUME Character
  PROVE  \/ StartComment /\ c = "#"
         \/ ToggleQuote /\ c = "\""
         \/ EndClause /\ Unquoted(";") /\ ~f.comment /\ ~Awaiting
         \/ EndFirst /\ Unquoted(";") /\ f.argument = "first_ip" /\ f.one_ip
         \/ PassSemicolon /\ Unquoted(";") /\ (f.comment \/ Awaiting)
              /\ f.argument # "second_ip" /\ ~(f.argument = "first_ip" /\ f.one_ip)
         \/ OpenBrace /\ Unquoted("{") /\ f.word = << >>
         \/ CloseBrace /\ Unquoted("}")
         \/ (CloseRange \/ NoRange) /\ Unquoted(";") /\ f.argument = "second_ip" /\ f.word = << >>
         \/ SkipChar /\ Ordinary /\ (Skipped(g1) \/ Stripped(g1))
         \/ AppendChar /\ Ordinary /\ ~Skipped(g1) /\ ~Stripped(g1) /\ Joined(g1)
         \/ Keyword /\ AtKeyword
         \/ FirstIp /\ AtArgument("first_ip")
         \/ SecondIp /\ AtArgument("second_ip")
         \/ SharedNet /\ (AtArgument("sharednet") \/ (AtArgument("subnet") /\ f.shared_p = 0))
         \/ InnerSubnet /\ AtArgument("subnet") /\ f.shared_p # 0
         \/ Netmask /\ AtArgument("netmask")
         \/ Include /\ AtArgument("include")
<1>1. \/ StartComment \/ ToggleQuote \/ EndClause \/ EndFirst \/ PassSemicolon \/ OpenBrace \/ CloseBrace \/ CloseRange \/ NoRange
      \/ SkipChar \/ AppendChar \/ Keyword \/ FirstIp \/ SecondIp \/ SharedNet \/ InnerSubnet \/ Netmask \/ Include
  BY DEF Character
<1>2. CASE StartComment
  BY <1>2 DEF StartComment
<1>3. CASE ToggleQuote
  BY <1>3 DEF ToggleQuote
<1>4. CASE EndClause
  BY <1>4 DEF EndClause
<1>5. CASE EndFirst
  BY <1>5 DEF EndFirst
<1>6. CASE PassSemicolon
  BY <1>6 DEF PassSemicolon
<1>7. CASE OpenBrace
  BY <1>7 DEF OpenBrace
<1>8. CASE CloseBrace
  BY <1>8 DEF CloseBrace
<1>9. CASE CloseRange \/ NoRange
  BY <1>9 DEF CloseRange, NoRange, EndsRange
<1>10. CASE SkipChar
  BY <1>10 DEF SkipChar
<1>11. CASE AppendChar
  BY <1>11 DEF AppendChar
<1>12. CASE Keyword
  BY <1>12 DEF Keyword
<1>13. CASE FirstIp
  BY <1>13 DEF FirstIp
<1>14. CASE SecondIp
  BY <1>14 DEF SecondIp
<1>15. CASE SharedNet
  BY <1>15 DEF SharedNet, OpenNet
<1>16. CASE InnerSubnet
  BY <1>16 DEF InnerSubnet
<1>17. CASE Netmask
  BY <1>17 DEF Netmask
<1>18. CASE Include
  BY <1>18 DEF Include
<1> QED
  BY <1>1, <1>2, <1>3, <1>4, <1>5, <1>6, <1>7, <1>8, <1>9, <1>10, <1>11, <1>12, <1>13, <1>14, <1>15, <1>16, <1>17, <1>18

\* Only the call that runs changes, into g.
Moved(g) == stack' = Put(g) /\ UNCHANGED <<config, globals>>

\* c is none of the special characters, or it is quoted.
Plain == c \notin {"#", "\""} /\ (f.quote \/ c \notin {";", "{", "}"})

(* A plain character is handled after the switch, as what it is. *)
LEMMA PlainTurn ==
  ASSUME Plain, Character
  PROVE  /\ char = c
         /\ \/ SkipChar /\ (Skipped(g1) \/ Stripped(g1))
            \/ AppendChar /\ ~Skipped(g1) /\ ~Stripped(g1) /\ Joined(g1)
            \/ Keyword /\ AtKeyword
            \/ FirstIp /\ AtArgument("first_ip")
            \/ SecondIp /\ AtArgument("second_ip")
            \/ SharedNet /\ (AtArgument("sharednet") \/ (AtArgument("subnet") /\ f.shared_p = 0))
            \/ InnerSubnet /\ AtArgument("subnet") /\ f.shared_p # 0
            \/ Netmask /\ AtArgument("netmask")
            \/ Include /\ AtArgument("include")
<1>1. ~Unquoted(";") /\ ~Unquoted("{") /\ ~Unquoted("}") /\ c # "#" /\ c # "\""
  BY DEF Plain, Unquoted
<1>2. char = c
  BY <1>1 DEF char, EndsSecond
<1> QED
  BY <1>1, <1>2, Guards

\* Nothing is skipped or stripped: the call is in a word, or about to begin one.
InWord == ~f.comment /\ (f.newclause \/ f.argument # "nothing")

(* A character of a comment or of the rest of a clause, and a blank before a
   word. *)
LEMMA Skips ==
  ASSUME ParserInv, Character, Plain,
         \/ f.comment /\ ~Unquoted("\n")
         \/ ~f.newclause /\ f.argument = "nothing"
         \/ c \in Blanks /\ f.word = << >> /\ ~f.one_ip
  PROVE  Moved(g1)
<1>1. char = c
  BY PlainTurn
<1>2. Skipped(g1) \/ Stripped(g1)
  BY <1>1, ReadFields DEF Skipped, Stripped
<1>3. SkipChar
  BY <1>2, PlainTurn DEF AtKeyword, AtArgument, WordEnd
<1> QED
  BY <1>3 DEF SkipChar, Moved

(* A character of a word. *)
LEMMA Letter ==
  ASSUME ParserInv, Character, Plain, InWord,
         c \notin Blanks \/ (f.quote /\ f.word # << >>), Len(f.word) + 1 < MAXLEN
  PROVE  Moved([g1 EXCEPT !.word = Append(f.word, c)])
<1>1. char = c
  BY PlainTurn
<1>2. g1.comment = f.comment \/ g1.comment = FALSE
  BY ReadFields
<1>3. ~Skipped(g1) /\ ~Stripped(g1) /\ Joined(g1)
  BY <1>1, <1>2, ReadFields DEF Skipped, Stripped, Joined, InWord
<1>4. AppendChar
  BY <1>3, PlainTurn DEF AtKeyword, AtArgument, WordEnd
<1>5. Len(g1.word) + 1 # MAXLEN
  <2>1. g1.word = f.word /\ f.word \in Seq(Symbol)
    BY ReadFields
  <2> QED
    BY <2>1
<1> QED
  BY <1>1, <1>4, <1>5, ReadFields DEF AppendChar, AddChar, Moved

(* A blank after a word. *)
LEMMA EndOfWord ==
  ASSUME ParserInv, Character, InWord, c \in Blanks, ~f.quote, f.word # << >> \/ f.one_ip
  PROVE  /\ f.newclause => Keyword
         /\ ~f.newclause =>
              \/ f.argument = "first_ip" /\ FirstIp
              \/ f.argument = "second_ip" /\ SecondIp
              \/ f.argument = "sharednet" /\ SharedNet
              \/ f.argument = "subnet" /\ f.shared_p = 0 /\ SharedNet
              \/ f.argument = "subnet" /\ f.shared_p # 0 /\ InnerSubnet
              \/ f.argument = "netmask" /\ Netmask
              \/ f.argument = "include" /\ Include
<1>1. Plain
  BY DEF Plain, Blanks
<1>2. char = c
  BY <1>1, PlainTurn
<1>3. g1.comment = f.comment \/ g1.comment = FALSE
  BY ReadFields
<1>4. ~Skipped(g1) /\ ~Stripped(g1) /\ ~Joined(g1)
  BY <1>2, <1>3, ReadFields DEF Skipped, Stripped, Joined, InWord
<1> QED
  BY <1>1, <1>4, PlainTurn, ReadFields DEF AtKeyword, AtArgument

(* Only the position has changed in g0. *)
LEMMA ReadPos ==
  ASSUME ParserInv
  PROVE  /\ g0.word = f.word /\ g0.argument = f.argument /\ g0.pos = f.pos + 1 /\ g0.file = f.file
         /\ g0.braces_shared = f.braces_shared /\ g0.shared_p = f.shared_p /\ g0.range_p = f.range_p
         /\ g0.newclause = f.newclause /\ g0.one_ip = f.one_ip /\ g0.quote = f.quote
         /\ g0.comment = f.comment /\ g0.braces = f.braces
<1> DEFINE n == f.pos + 1
<1>1. g0 = [f EXCEPT !.pos = n] /\ f \in Frame
  BY ReadFields
<1> HIDE DEF n
<1>2. /\ g0.word = f.word /\ g0.argument = f.argument /\ g0.pos = n /\ g0.file = f.file
      /\ g0.braces_shared = f.braces_shared /\ g0.shared_p = f.shared_p /\ g0.range_p = f.range_p
      /\ g0.newclause = f.newclause /\ g0.one_ip = f.one_ip /\ g0.quote = f.quote
      /\ g0.comment = f.comment /\ g0.braces = f.braces
  BY <1>1 DEF Frame
<1> QED
  BY <1>2 DEF n

\* The call g is f one character later; its flags, marks and word may differ.
Follows(g) ==
  /\ g.file = f.file /\ g.pos = f.pos + 1
  /\ Scoped(g, [braces |-> f.braces, scope |-> f.braces_shared, net |-> f.shared_p])
  /\ g.range_p = f.range_p
Kept(g) == Flags(g, f.newclause, f.argument, f.one_ip, f.word)
Marked(g, comment, quote) == g.comment = comment /\ g.quote = quote

(* What is skipped leaves a newline's end of a comment at most. *)
LEMMA SkipTurn ==
  ASSUME ParserInv, Character, Plain,
         \/ f.comment /\ ~Unquoted("\n")
         \/ ~f.newclause /\ f.argument = "nothing"
         \/ c \in Blanks /\ f.word = << >> /\ ~f.one_ip
  PROVE  \E g : /\ Moved(g) /\ Follows(g) /\ Kept(g)
                /\ Marked(g, f.comment /\ ~Unquoted("\n"), f.quote)
<1>1. Moved(g1)
  BY Skips
<1>2. ~Unquoted("{")
  BY DEF Plain, Unquoted
<1>3. Follows(g1) /\ Kept(g1)
  BY <1>2, ReadFields DEF Follows, Kept, Scoped, Flags
<1>4. Marked(g1, f.comment /\ ~Unquoted("\n"), f.quote)
  BY ReadFields DEF Marked
<1> QED
  BY <1>1, <1>3, <1>4

(* A letter is added to the word. *)
LEMMA LetterTurn ==
  ASSUME ParserInv, Character, Plain, InWord,
         c \notin Blanks \/ (f.quote /\ f.word # << >>), Len(f.word) + 1 < MAXLEN
  PROVE  \E g : /\ Moved(g) /\ Follows(g) /\ Marked(g, FALSE, f.quote)
                /\ Flags(g, f.newclause, f.argument, f.one_ip, Append(f.word, c))
<1> DEFINE g == [g1 EXCEPT !.word = Append(f.word, c)]
<1>1. Moved(g)
  BY Letter
<1>2. ~Unquoted("{")
  BY DEF Plain, Unquoted
<1>3. g1 \in Frame
  BY ReadFields
<1>4. /\ g.file = g1.file /\ g.pos = g1.pos /\ g.braces = g1.braces /\ g.braces_shared = g1.braces_shared
      /\ g.shared_p = g1.shared_p /\ g.range_p = g1.range_p /\ g.comment = g1.comment /\ g.quote = g1.quote
      /\ g.newclause = g1.newclause /\ g.argument = g1.argument /\ g.one_ip = g1.one_ip
      /\ g.word = Append(f.word, c)
  BY <1>3 DEF Frame
<1> HIDE DEF g
<1>5. Follows(g) /\ Flags(g, f.newclause, f.argument, f.one_ip, Append(f.word, c))
  BY <1>2, <1>4, ReadFields DEF Follows, Scoped, Flags
<1>6. Marked(g, FALSE, f.quote)
  BY <1>4, ReadFields DEF Marked, InWord
<1> QED
  BY <1>1, <1>5, <1>6

(* A blank after the first word of a clause. *)
LEMMA KeywordTurn ==
  ASSUME ParserInv, Character, Unmarked(f), f.newclause, ~f.one_ip, f.word # << >>, c \in Blanks
  PROVE  \E g : /\ Moved(g) /\ Follows(g) /\ Marked(g, FALSE, FALSE)
                /\ Flags(g, f.word[Len(f.word)] = "{", KeywordOf(f.word),
                         KeywordOf(f.word) = "first_ip", << >>)
<1>1. Keyword
  BY EndOfWord DEF InWord, Unmarked
<1>2. ~Unquoted("{")
  BY DEF Unquoted, Blanks
<1>3. g1 \in Frame /\ g1.word = f.word
  BY ReadFields
<1> DEFINE e == f.word[Len(f.word)] = "{"
           k == KeywordOf(f.word)
           o == (k = "first_ip") \/ g1.one_ip
           r == Reset(g1)
           g == [r EXCEPT !.newclause = e, !.argument = k, !.one_ip = o]
<1>4. stack' = Put(g) /\ UNCHANGED <<config, globals>>
  <2>1. PICK b \in {g1.word[Len(g1.word)] = "{"} :
          stack' = Put([Reset(g1) EXCEPT
                       !.newclause = b,
                       !.argument = KeywordOf(g1.word),
                       !.one_ip = (KeywordOf(g1.word) = "first_ip") \/ @])
    BY <1>1, <1>3 DEF Keyword
  <2>2. b = e
    BY <2>1, <1>3
  <2>3. r.one_ip = g1.one_ip
    BY <1>3 DEF Reset, Frame
  <2> QED
    BY <1>1, <1>3, <2>1, <2>2, <2>3 DEF Keyword
<1>5. r \in Frame /\ r.word = << >>
  BY <1>3, ResetFits DEF Fitting
<1>6. /\ r.file = g1.file /\ r.pos = g1.pos /\ r.braces = g1.braces /\ r.braces_shared = g1.braces_shared
      /\ r.shared_p = g1.shared_p /\ r.range_p = g1.range_p /\ r.comment = g1.comment /\ r.quote = g1.quote
  BY <1>3 DEF Reset, Frame
<1> HIDE DEF r, e, k, o
<1>7. /\ g.file = r.file /\ g.pos = r.pos /\ g.braces = r.braces /\ g.braces_shared = r.braces_shared
      /\ g.shared_p = r.shared_p /\ g.range_p = r.range_p /\ g.comment = r.comment /\ g.quote = r.quote
      /\ g.newclause = e /\ g.argument = k /\ g.one_ip = o /\ g.word = << >>
  BY <1>5 DEF Frame
<1>8. o = (k = "first_ip")
  BY ReadFields DEF o, k
<1> HIDE DEF g
<1>9. Follows(g) /\ Marked(g, FALSE, FALSE)
  BY <1>2, <1>6, <1>7, ReadFields DEF Follows, Scoped, Marked, Unmarked
<1>10. Flags(g, e, k, k = "first_ip", << >>)
  BY <1>7, <1>8 DEF Flags
<1> QED
  BY <1>4, <1>9, <1>10 DEF Moved, e, k

(* A quotation mark begins or ends a quotation. *)
LEMMA QuoteTurn ==
  ASSUME ParserInv, Character, c = "\"", ~f.comment
  PROVE  \E g : Moved(g) /\ Follows(g) /\ Kept(g) /\ Marked(g, FALSE, ~f.quote)
<1>1. ToggleQuote
  BY Guards DEF Unquoted, Ordinary, AtKeyword, AtArgument, WordEnd
<1>2. f \in Frame /\ g0 \in Frame /\ g0 = [f EXCEPT !.pos = f.pos + 1] /\ f.quote \in BOOLEAN
  BY ReadFields
<1>3. g0.quote = f.quote
  BY <1>2 DEF Frame
<1> DEFINE q == IF f.comment THEN g0.quote ELSE ~g0.quote
           g == [g0 EXCEPT !.quote = q]
<1>4. Moved(g)
  BY <1>1 DEF ToggleQuote, Moved
<1>5. q = ~f.quote
  BY <1>3
<1> HIDE DEF q
<1>6. /\ g.file = g0.file /\ g.pos = g0.pos /\ g.braces = g0.braces /\ g.braces_shared = g0.braces_shared
      /\ g.shared_p = g0.shared_p /\ g.range_p = g0.range_p /\ g.comment = g0.comment /\ g.quote = q
      /\ Flags(g, g0.newclause, g0.argument, g0.one_ip, g0.word)
  BY <1>2 DEF Frame, Flags
<1> HIDE DEF g
<1>7. Follows(g) /\ Kept(g)
  BY <1>6, ReadPos DEF Follows, Scoped, Kept, Flags
<1>8. g.comment = FALSE
  BY <1>6, ReadPos, ReadFields
<1>9. Marked(g, FALSE, ~f.quote)
  BY <1>5, <1>6, <1>8, Zenon DEF Marked
<1> QED
  BY <1>4, <1>7, <1>9

(* The call goes on as it was. *)
LEMMA PassTurn ==
  ASSUME ParserInv, Moved(g0)
  PROVE  \E g : Moved(g) /\ Follows(g) /\ Kept(g) /\ Marked(g, f.comment, f.quote)
<1>1. Follows(g0) /\ Kept(g0) /\ Marked(g0, f.comment, f.quote)
  BY ReadPos DEF Follows, Scoped, Kept, Flags, Marked
<1> QED
  BY <1>1

(* A # begins a comment, but not in a quotation. *)
LEMMA HashTurn ==
  ASSUME ParserInv, Character, c = "#"
  PROVE  \E g : /\ Moved(g) /\ Follows(g) /\ Kept(g) /\ Marked(g, g.comment, f.quote)
                /\ IF f.quote THEN g.comment = f.comment ELSE g.comment = TRUE
<1>1. StartComment
  BY Guards DEF Unquoted, Ordinary, AtKeyword, AtArgument, WordEnd
<1>2. g0 \in Frame
  BY ReadFields
<1> DEFINE q == IF f.quote THEN g0.comment ELSE TRUE
           g == [g0 EXCEPT !.comment = q]
<1>4. Moved(g)
  BY <1>1 DEF StartComment, Moved
<1>5. IF f.quote THEN q = f.comment ELSE q = TRUE
  BY ReadPos
<1> HIDE DEF q
<1>6. /\ g.file = g0.file /\ g.pos = g0.pos /\ g.braces = g0.braces /\ g.braces_shared = g0.braces_shared
      /\ g.shared_p = g0.shared_p /\ g.range_p = g0.range_p /\ g.comment = q /\ g.quote = g0.quote
      /\ Flags(g, g0.newclause, g0.argument, g0.one_ip, g0.word)
  BY <1>2 DEF Frame, Flags
<1> HIDE DEF g
<1>7. Follows(g) /\ Kept(g) /\ Marked(g, g.comment, f.quote)
  BY <1>6, ReadPos DEF Follows, Scoped, Kept, Flags, Marked
<1> QED
  BY <1>4, <1>5, <1>6, <1>7

(* A brace begins a clause; outside a comment it is counted. *)
LEMMA OpenTurn ==
  ASSUME ParserInv, Character, Unquoted("{"), f.word = << >>
  PROVE  \E g : /\ Moved(g) /\ Flags(g, TRUE, f.argument, f.one_ip, << >>)
                /\ Marked(g, f.comment, f.quote)
                /\ g.file = f.file /\ g.pos = f.pos + 1
                /\ g.braces_shared = f.braces_shared /\ g.shared_p = f.shared_p /\ g.range_p = f.range_p
                /\ g.braces = IF f.comment THEN f.braces ELSE f.braces + 1
<1>1. OpenBrace
  BY Guards DEF Unquoted, Ordinary, AtKeyword, AtArgument, WordEnd, EndsSecond
<1>2. g1 \in Frame /\ ~Unquoted("\n")
  BY ReadFields DEF Unquoted
<1> DEFINE g == [g1 EXCEPT !.newclause = TRUE]
<1>3. Moved(g)
  BY <1>1 DEF OpenBrace, Moved
<1>4. /\ g.file = g1.file /\ g.pos = g1.pos /\ g.braces = g1.braces /\ g.braces_shared = g1.braces_shared
      /\ g.shared_p = g1.shared_p /\ g.range_p = g1.range_p /\ g.comment = g1.comment /\ g.quote = g1.quote
      /\ Flags(g, TRUE, g1.argument, g1.one_ip, g1.word)
  BY <1>2 DEF Frame, Flags
<1> HIDE DEF g
<1>5. g.braces = IF f.comment THEN f.braces ELSE f.braces + 1
  BY <1>4, ReadFields
<1>6. Marked(g, f.comment, f.quote)
  BY <1>2, <1>4, ReadFields DEF Marked
<1>7. Flags(g, TRUE, f.argument, f.one_ip, << >>)
  <2>1. g1.argument = f.argument /\ g1.one_ip = f.one_ip /\ g1.word = f.word
    BY ReadFields
  <2> QED
    BY <1>4, <2>1 DEF Flags
<1>8. /\ g.file = f.file /\ g.pos = f.pos + 1
      /\ g.braces_shared = f.braces_shared /\ g.shared_p = f.shared_p /\ g.range_p = f.range_p
  BY <1>4, ReadFields
<1> QED
  BY <1>3, <1>5, <1>6, <1>7, <1>8

(* A semicolon ends a clause that awaits nothing. *)
LEMMA EndTurn ==
  ASSUME ParserInv, Character, Unquoted(";"), ~f.comment, f.argument = "nothing"
  PROVE  \E g : /\ Moved(g) /\ Follows(g) /\ Marked(g, FALSE, f.quote)
                /\ Flags(g, TRUE, "nothing", f.one_ip, << >>)
<1>1. EndClause
  BY Guards DEF Unquoted, Ordinary, AtKeyword, AtArgument, WordEnd, EndsSecond, Awaiting
<1>2. g0 \in Frame /\ f.comment = FALSE
  BY ReadFields
<1> DEFINE h == Reset(g0)
           g == [h EXCEPT !.newclause = TRUE]
<1>3. Moved(g)
  BY <1>1 DEF EndClause, Moved
<1>4. h \in Frame /\ h.word = << >>
  BY <1>2, ResetFits DEF Fitting
<1>5. /\ h.file = g0.file /\ h.pos = g0.pos /\ h.braces = g0.braces /\ h.braces_shared = g0.braces_shared
      /\ h.shared_p = g0.shared_p /\ h.range_p = g0.range_p /\ h.comment = g0.comment /\ h.quote = g0.quote
      /\ h.argument = g0.argument /\ h.one_ip = g0.one_ip
  BY <1>2 DEF Reset, Frame
<1> HIDE DEF h
<1>6. /\ g.file = h.file /\ g.pos = h.pos /\ g.braces = h.braces /\ g.braces_shared = h.braces_shared
      /\ g.shared_p = h.shared_p /\ g.range_p = h.range_p /\ g.comment = h.comment /\ g.quote = h.quote
      /\ Flags(g, TRUE, h.argument, h.one_ip, h.word)
  BY <1>4 DEF Flags, Frame
<1> HIDE DEF g
<1>7. Follows(g) /\ Flags(g, TRUE, "nothing", f.one_ip, << >>) /\ Marked(g, FALSE, f.quote)
  BY <1>2, <1>4, <1>5, <1>6, ReadPos DEF Follows, Scoped, Flags, Marked
<1> QED
  BY <1>3, <1>7

(* One brace less. *)
LEMMA LessInt == \A x \in Int : x - 1 \in Int
  OBVIOUS

(* A closing brace begins a clause; the one of a shared network ends it. *)
LEMMA CloseTurn ==
  ASSUME ParserInv, Character, Unquoted("}"), ~f.comment
  PROVE  \E g : /\ Moved(g) /\ Flags(g, TRUE, f.argument, f.one_ip, f.word) /\ Marked(g, FALSE, f.quote)
                /\ g.file = f.file /\ g.pos = f.pos + 1 /\ g.range_p = f.range_p
                /\ g.braces = f.braces - 1
                /\ IF f.braces_shared = f.braces - 1
                   THEN g.braces_shared = NoScope /\ g.shared_p = 0
                   ELSE g.braces_shared = f.braces_shared /\ g.shared_p = f.shared_p
<1>1. CloseBrace
  BY Guards DEF Unquoted, Ordinary, AtKeyword, AtArgument, WordEnd, EndsSecond
<1>2. g0 \in Frame /\ f.comment = FALSE /\ f.braces \in Int
  BY ReadFields
<1> DEFINE b == f.braces - 1
           h == [g0 EXCEPT !.braces = b, !.newclause = TRUE]
           g == CloseScope(h)
<1>3. h = [g0 EXCEPT !.braces = @ - 1, !.newclause = TRUE]
  BY ReadPos
<1>4. Moved(g)
  BY <1>1, <1>2, <1>3 DEF CloseBrace, Moved
<1>5. b \in Int
  BY <1>2, LessInt
<1> HIDE DEF b
<1>6. /\ h.file = g0.file /\ h.pos = g0.pos /\ h.braces = b /\ h.braces_shared = g0.braces_shared
      /\ h.shared_p = g0.shared_p /\ h.range_p = g0.range_p /\ h.comment = g0.comment /\ h.quote = g0.quote
      /\ h.argument = g0.argument /\ h.one_ip = g0.one_ip /\ h.word = g0.word /\ h.newclause = TRUE
      /\ h \in Frame
  BY <1>2, <1>5 DEF Frame
<1> HIDE DEF h
<1>7. CASE f.braces_shared = b
  <2>1. g = [h EXCEPT !.braces_shared = NoScope, !.shared_p = 0]
    BY <1>6, <1>7, ReadPos DEF CloseScope
  <2> HIDE DEF g
  <2>2. /\ g.file = h.file /\ g.pos = h.pos /\ g.braces = b /\ g.braces_shared = NoScope
        /\ g.shared_p = 0 /\ g.range_p = h.range_p /\ g.comment = h.comment /\ g.quote = h.quote
        /\ g.argument = h.argument /\ g.one_ip = h.one_ip /\ g.word = h.word /\ g.newclause = TRUE
    BY <1>6, <2>1 DEF Frame
  <2> QED
    BY <1>2, <1>4, <1>6, <1>7, <2>2, ReadPos DEF Flags, Marked, b
<1>8. CASE f.braces_shared # b
  <2>1. g = h
    BY <1>6, <1>8, ReadPos DEF CloseScope
  <2> QED
    BY <1>2, <1>4, <1>6, <1>8, <2>1, ReadPos DEF Flags, Marked, b
<1> QED
  BY <1>7, <1>8

(* A brace after a word belongs to it, and is counted. *)
LEMMA BraceTurn ==
  ASSUME ParserInv, Character, Unquoted("{"), ~f.comment, f.newclause, f.word # << >>,
         Len(f.word) + 1 < MAXLEN
  PROVE  \E g : /\ Moved(g) /\ Flags(g, f.newclause, f.argument, f.one_ip, Append(f.word, "{"))
                /\ Marked(g, FALSE, f.quote)
                /\ g.file = f.file /\ g.pos = f.pos + 1
                /\ g.braces_shared = f.braces_shared /\ g.shared_p = f.shared_p /\ g.range_p = f.range_p
                /\ g.braces = f.braces + 1
<1>1. c = "{" /\ ~Unquoted("\n") /\ ~Unquoted(";")
  BY DEF Unquoted
<1>2. char = "{"
  BY <1>1 DEF char, EndsSecond
<1>3. ~Skipped(g1) /\ ~Stripped(g1) /\ Joined(g1)
  BY <1>1, <1>2, ReadFields DEF Skipped, Stripped, Joined, Blanks
<1>4. AppendChar
  BY <1>1, <1>3, Guards DEF Unquoted, AtKeyword, AtArgument, WordEnd
<1>5. Len(g1.word) + 1 # MAXLEN
  <2>1. g1.word = f.word /\ f.word \in Seq(Symbol)
    BY ReadFields
  <2> QED
    BY <2>1, RoomLeft, Zenon
<1>6. g1 \in Frame /\ g1.word = f.word /\ f.comment = FALSE
  BY ReadFields
<1> DEFINE g == [g1 EXCEPT !.word = Append(f.word, "{")]
<1>7. Moved(g)
  BY <1>2, <1>4, <1>5, <1>6 DEF AppendChar, AddChar, Moved
<1>8. /\ g.file = g1.file /\ g.pos = g1.pos /\ g.braces = g1.braces /\ g.braces_shared = g1.braces_shared
      /\ g.shared_p = g1.shared_p /\ g.range_p = g1.range_p /\ g.comment = g1.comment /\ g.quote = g1.quote
      /\ Flags(g, g1.newclause, g1.argument, g1.one_ip, Append(f.word, "{"))
  BY <1>6 DEF Frame, Flags
<1> HIDE DEF g
<1>9. g.braces = f.braces + 1
  BY <1>8, ReadFields
<1>10. Marked(g, FALSE, f.quote)
  BY <1>1, <1>6, <1>8, ReadFields DEF Marked
<1>11. Flags(g, f.newclause, f.argument, f.one_ip, Append(f.word, "{"))
  BY <1>8, ReadFields DEF Flags
<1>12. /\ g.file = f.file /\ g.pos = f.pos + 1
       /\ g.braces_shared = f.braces_shared /\ g.shared_p = f.shared_p /\ g.range_p = f.range_p
  BY <1>8, ReadFields
<1> QED
  BY <1>7, <1>9, <1>10, <1>11, <1>12

(* Whatever is in a comment, the call goes on in it. *)
LEMMA CommentTurn ==
  ASSUME ParserInv, Character, f.comment, ~f.quote, c # "\n", f.word = << >>, ~f.one_ip,
         c = ";" => f.argument # "second_ip", c = "{" => f.newclause
  PROVE  \E g : Moved(g) /\ Follows(g) /\ Kept(g) /\ Marked(g, TRUE, FALSE)
<1>1. f.comment = TRUE /\ f.quote = FALSE /\ f.newclause \in BOOLEAN
  BY ReadFields
<1>2. CASE c = "#"
  BY <1>1, <1>2, HashTurn DEF Marked
<1>3. CASE c = "\""
  <2>1. ToggleQuote
    BY <1>3, Guards DEF Unquoted, Ordinary, AtKeyword, AtArgument, WordEnd
  <2>2. g0 \in Frame /\ g0.quote = f.quote
    BY ReadFields, ReadPos
  <2>3. stack' = Put([g0 EXCEPT !.quote = g0.quote])
    BY <1>1, <2>1 DEF ToggleQuote
  <2>4. [g0 EXCEPT !.quote = g0.quote] = g0
    BY <2>2 DEF Frame
  <2>5. Moved(g0)
    BY <2>1, <2>3, <2>4 DEF ToggleQuote, Moved
  <2> QED
    BY <1>1, <2>5, PassTurn DEF Marked
<1>4. CASE c = ";"
  <2>1. PassSemicolon
    BY <1>1, <1>4, Guards DEF Unquoted, Ordinary, AtKeyword, AtArgument, WordEnd, EndsSecond
  <2>2. Moved(g0)
    BY <2>1 DEF PassSemicolon, Moved
  <2> QED
    BY <1>1, <2>2, PassTurn DEF Marked
<1>5. CASE c = "{"
  <2>1. PICK g : /\ Moved(g) /\ Flags(g, TRUE, f.argument, f.one_ip, << >>)
                 /\ Marked(g, f.comment, f.quote)
                 /\ g.file = f.file /\ g.pos = f.pos + 1
                 /\ g.braces_shared = f.braces_shared /\ g.shared_p = f.shared_p /\ g.range_p = f.range_p
                 /\ g.braces = IF f.comment THEN f.braces ELSE f.braces + 1
    BY <1>1, <1>5, OpenTurn DEF Unquoted
  <2>2. f.newclause = TRUE
    BY <1>1, <1>5
  <2>3. Follows(g) /\ Kept(g) /\ Marked(g, TRUE, FALSE)
    BY <1>1, <2>1, <2>2 DEF Follows, Scoped, Kept, Flags, Marked
  <2> QED
    BY <2>1, <2>3
<1>6. CASE c = "}"
  <2>1. CloseBrace
    BY <1>1, <1>6, Guards DEF Unquoted, Ordinary, AtKeyword, AtArgument, WordEnd, EndsSecond
  <2>2. Moved(g0)
    BY <1>1, <2>1 DEF CloseBrace, Moved
  <2> QED
    BY <1>1, <2>2, PassTurn DEF Marked
<1>7. CASE c \notin {"#", "\"", ";", "{", "}"}
  <2>1. Plain /\ ~Unquoted("\n")
    BY <1>7 DEF Plain, Unquoted
  <2> QED
    BY <1>1, <2>1, SkipTurn DEF Marked
<1> QED
  BY <1>2, <1>3, <1>4, <1>5, <1>6, <1>7

-----------------------------------------------------------------------------
(* One character of a phrase *)

Declarations ==
  /\ config.ranges \in Seq([first : Addresses, last : Addresses, net : Nat])
  /\ config.nets \in Seq(Seq(Symbol))

\* The parser reads character o + 1 of the phrase s, before the phrase t.
Here(s, t, o) ==
  /\ ParserInv /\ Character
  /\ s \in Phrase /\ t \in Phrase /\ t.at = s.at + Len(s.text)
  /\ o \in Nat /\ o < Len(s.text)
  /\ c = s.text[o + 1]
  /\ At(f, s, o) /\ Known(s, o)
  /\ Declarations

\* It has read it, and is at the next one.
Goes(s, t, o) ==
  /\ config' = config
  /\ \E g : stack' = Put(g) /\ g.file = f.file
  /\ phase' = "parse" =>
       /\ o + 1 < Len(s.text) => At(f, s, o + 1)' /\ Known(s, o + 1)'
       /\ o + 1 = Len(s.text) => At(f, t, 0)' /\ Known(t, 0)'

(* The call that runs is the one that was put last. *)
LEMMA PutIs ==
  ASSUME ParserInv, NEW g, stack' = Put(g)
  PROVE  f' = g /\ Len(stack') = Len(stack) /\ \A x \in 1..(Len(stack) - 1) : stack'[x] = stack[x]
<1>1. stack \in Seq(Frame) /\ Len(stack) \in Nat /\ Len(stack) > 0
  BY DEF ParserInv, TypeOK
<1> QED
  BY <1>1 DEF Put, f

(* What holds before each character. *)
LEMMA HereFacts ==
  ASSUME NEW s, NEW t, NEW o, Here(s, t, o)
  PROVE  /\ s.at \in Nat /\ s.text \in Seq(Symbol) /\ Len(s.text) \in Nat
         /\ s.env \in Env /\ t.env \in Env
         /\ f.pos = s.at + o /\ f.pos + 1 = s.at + (o + 1)
         /\ o + 1 = Len(s.text) => f.pos + 1 = t.at
<1>1. /\ s.at \in Nat /\ s.text \in Seq(Symbol) /\ Len(s.text) \in Nat
      /\ s.env \in Env /\ t.env \in Env
  BY DEF Here, Phrase
<1>2. f.pos = s.at + o /\ o \in Nat /\ t.at = s.at + Len(s.text)
  BY DEF Here, At
<1>0. \A x, y \in Nat : (x + y) + 1 = x + (y + 1)
  OBVIOUS
<1>6. f.pos + 1 = s.at + (o + 1)
  <2>1. (s.at + o) + 1 = s.at + (o + 1)
    BY <1>0, <1>1, <1>2
  <2> QED
    BY <1>2, <2>1
<1>7. o + 1 = Len(s.text) => f.pos + 1 = t.at
  <2>1. ASSUME o + 1 = Len(s.text) PROVE s.at + (o + 1) = t.at
    BY <1>2, <2>1
  <2> QED
    BY <1>6, <2>1
<1> QED
  BY <1>1, <1>2, <1>6, <1>7

(* Within a phrase nothing is declared. *)
LEMMA Onward ==
  ASSUME NEW s, NEW t, NEW o, Here(s, t, o), NEW g, stack' = Put(g), g.file = f.file, g.pos = f.pos + 1,
         UNCHANGED <<config, ranges, RANGES, nets>>,
         o + 1 < Len(s.text), Inside(g, s, o + 1, SlotPointer, slot'), Named(s, o + 1) <=> Named(s, o)
  PROVE  Goes(s, t, o)
<1>1. /\ f' = g /\ config' = config /\ ranges' = ranges /\ RANGES' = RANGES /\ nets' = nets
      /\ g.file = f.file /\ g.pos = s.at + (o + 1)
  <2>1. f' = g
    BY PutIs DEF Here
  <2>2. g.file = f.file /\ g.pos = s.at + (o + 1)
    BY HereFacts
  <2> QED
    BY <2>1, <2>2
<1>2. /\ num_ranges' = num_ranges /\ num_shared_networks' = num_shared_networks
      /\ SlotPointer' = SlotPointer
  BY <1>1 DEF num_ranges, num_shared_networks, SlotPointer
<1>3. At(f, s, o + 1)'
  <2>1. o + 1 # 0
    BY DEF Here
  <2> QED
    BY <1>1, <1>2, <2>1 DEF At
<1>4. Known(s, o + 1)'
  BY <1>1, <1>2 DEF Known, Here
<1> QED
  BY <1>1, <1>3, <1>4 DEF Goes

(* Mostly only the flags and the word change. *)
LEMMA Stay ==
  ASSUME NEW s, NEW t, NEW o, Here(s, t, o), NEW g, Moved(g), Follows(g),
         o + 1 < Len(s.text), Inside(g, s, o + 1, SlotPointer, slot),
         Named(s, o + 1) <=> Named(s, o)
  PROVE  Goes(s, t, o)
<1>1. stack' = Put(g) /\ UNCHANGED <<config, ranges, RANGES, nets>> /\ slot' = slot
  BY DEF Moved, globals
<1> QED
  BY <1>1, Onward DEF Follows

(* The end of a phrase that declares nothing. *)
LEMMA Arrive ==
  ASSUME NEW s, NEW t, NEW o, Here(s, t, o), NEW g, Moved(g), g.file = f.file, g.pos = f.pos + 1,
         o + 1 = Len(s.text), Between(g, t.env),
         t.env.ranges = s.env.ranges, t.env.nets = s.env.nets, ~Named(s, o)
  PROVE  Goes(s, t, o)
<1>1. /\ f' = g /\ config' = config /\ ranges' = ranges /\ slot' = slot /\ nets' = nets
  BY PutIs DEF Moved, Here, globals
<1>2. num_ranges' = num_ranges /\ num_shared_networks' = num_shared_networks
  BY <1>1 DEF num_ranges, num_shared_networks
<1>3. t.at \in Nat /\ ~Named(t, 0)
  BY DEF Here, Phrase, Named
<1>6. g.pos = t.at
  BY HereFacts
<1>4. At(f, t, 0)'
  BY <1>1, <1>2, <1>3, <1>6 DEF At
<1>5. Known(t, 0)'
  BY <1>1, <1>2, <1>3 DEF Known, Here
<1> QED
  BY <1>1, <1>4, <1>5, HereFacts DEF Goes, Moved

(* A phrase of one symbol. *)
LEMMA Form1 ==
  ASSUME NEW s, NEW A, Form(s, <<A>>)
  PROVE  /\ Len(s.text) = 1
         /\ s.text[1] \in A
  BY DEF Form

(* A phrase of two symbols. *)
LEMMA Form2 ==
  ASSUME NEW s, NEW A, NEW B, Form(s, <<A, B>>)
  PROVE  /\ Len(s.text) = 2
         /\ s.text[1] \in A /\ s.text[2] \in B
  BY DEF Form

(* A phrase of three. *)
LEMMA Form3 ==
  ASSUME NEW s, NEW A, NEW B, NEW C, Form(s, <<A, B, C>>)
  PROVE  /\ Len(s.text) = 3
         /\ s.text[1] \in A /\ s.text[2] \in B /\ s.text[3] \in C
  BY DEF Form

(* A phrase of four. *)
LEMMA Form4 ==
  ASSUME NEW s, NEW A, NEW B, NEW C, NEW D, Form(s, <<A, B, C, D>>)
  PROVE  /\ Len(s.text) = 4
         /\ s.text[1] \in A /\ s.text[2] \in B /\ s.text[3] \in C /\ s.text[4] \in D
  BY DEF Form

(* A phrase of seven. *)
LEMMA Form7 ==
  ASSUME NEW s, NEW A, NEW B, NEW C, NEW D, NEW E, NEW F, NEW G, Form(s, <<A, B, C, D, E, F, G>>)
  PROVE  /\ Len(s.text) = 7
         /\ s.text[1] \in A /\ s.text[2] \in B /\ s.text[3] \in C /\ s.text[4] \in D /\ s.text[5] \in E /\ s.text[6] \in F /\ s.text[7] \in G
  BY DEF Form

(* A phrase of eight. *)
LEMMA Form8 ==
  ASSUME NEW s, NEW A, NEW B, NEW C, NEW D, NEW E, NEW F, NEW G, NEW H, Form(s, <<A, B, C, D, E, F, G, H>>)
  PROVE  /\ Len(s.text) = 8
         /\ s.text[1] \in A /\ s.text[2] \in B /\ s.text[3] \in C /\ s.text[4] \in D /\ s.text[5] \in E /\ s.text[6] \in F /\ s.text[7] \in G /\ s.text[8] \in H
  BY DEF Form

(* Where a phrase begins. *)
LEMMA Begin ==
  ASSUME NEW s, NEW t, NEW o, Here(s, t, o), o = 0
  PROVE  /\ ParserInv /\ Character /\ c = s.text[1]
         /\ s.env \in Env /\ t.env \in Env
         /\ Idle(f, s.env) /\ Scoped(f, s.env) /\ f.comment = FALSE /\ f.quote = FALSE
         /\ f.braces \in Int /\ f.word = << >> /\ f.one_ip = FALSE
         /\ f.newclause = (s.env.mode # "rest")
         /\ ~Named(s, 0)
<1>1. ParserInv /\ Character /\ c = s.text[1] /\ s.env \in Env /\ t.env \in Env /\ At(f, s, 0)
  BY HereFacts DEF Here
<1>2. Between(f, s.env)
  BY <1>1 DEF At
<1>3. f.comment \in BOOLEAN /\ f.quote \in BOOLEAN /\ f.braces \in Int /\ f.newclause \in BOOLEAN
  BY <1>1, ReadFields
<1>4. Idle(f, s.env) /\ Scoped(f, s.env) /\ f.comment = FALSE /\ f.quote = FALSE
  BY <1>2, <1>3 DEF Between, Unmarked
<1>5. f.word = << >> /\ f.one_ip = FALSE /\ f.newclause = (s.env.mode # "rest")
  BY <1>4 DEF Idle, Flags
<1> QED
  BY <1>1, <1>3, <1>4, <1>5 DEF Named

(* A phrase of one character. *)
LEMMA Single ==
  ASSUME NEW s, NEW t, NEW o, Here(s, t, o), Len(s.text) = 1
  PROVE  o = 0 /\ o + 1 = Len(s.text) /\ ~Named(s, o)
BY DEF Here, Named

(* In the middle of a phrase. *)
LEMMA Amid ==
  ASSUME NEW s, NEW t, NEW o, Here(s, t, o), o # 0, s.kind # "end"
  PROVE  /\ ParserInv /\ Character /\ s.env \in Env /\ t.env \in Env
         /\ Inside(f, s, o, SlotPointer, slot)
         /\ o \in Nat /\ o > 0 /\ o < Len(s.text) /\ Len(s.text) \in Nat
         /\ c = s.text[o + 1]
         /\ f.newclause \in BOOLEAN /\ f.comment \in BOOLEAN /\ f.quote \in BOOLEAN
<1>1. /\ ParserInv /\ Character /\ c = s.text[o + 1] /\ s.env \in Env /\ t.env \in Env /\ At(f, s, o)
      /\ o \in Nat /\ o < Len(s.text) /\ Len(s.text) \in Nat
  BY HereFacts DEF Here
<1>2. o > 0
  BY <1>1
<1>3. Inside(f, s, o, SlotPointer, slot)
  BY <1>1, <1>2 DEF At
<1> QED
  BY <1>1, <1>2, <1>3, ReadFields

(* The characters of a short phrase. *)
LEMMA Nth ==
  ASSUME NEW s, NEW t, NEW o, Here(s, t, o)
  PROVE  /\ o = 0 => c = s.text[1] /\ o + 1 = 1
         /\ o = 1 => c = s.text[2] /\ o + 1 = 2
         /\ o = 2 => c = s.text[3] /\ o + 1 = 3
         /\ o = 3 => c = s.text[4] /\ o + 1 = 4
         /\ o = 4 => c = s.text[5] /\ o + 1 = 5
         /\ o = 5 => c = s.text[6] /\ o + 1 = 6
         /\ o = 6 => c = s.text[7] /\ o + 1 = 7
         /\ o = 7 => c = s.text[8] /\ o + 1 = 8
  BY DEF Here

(* The numbers below a small one. *)
LEMMA Below ==
  \A x \in Nat :
    /\ x < 2 => x = 0 \/ x = 1
    /\ x < 3 => x = 0 \/ x = 1 \/ x = 2
    /\ x < 4 => x = 0 \/ x = 1 \/ x = 2 \/ x = 3
    /\ x < 5 => x = 0 \/ x = 1 \/ x = 2 \/ x = 3 \/ x = 4
    /\ x < 6 => x = 0 \/ x = 1 \/ x = 2 \/ x = 3 \/ x = 4 \/ x = 5
    /\ x < 7 => x = 0 \/ x = 1 \/ x = 2 \/ x = 3 \/ x = 4 \/ x = 5 \/ x = 6
    /\ x < 8 => x = 0 \/ x = 1 \/ x = 2 \/ x = 3 \/ x = 4 \/ x = 5 \/ x = 6 \/ x = 7
  OBVIOUS

(* The positions in a short phrase. *)
LEMMA Count ==
  ASSUME NEW s, NEW t, NEW o, Here(s, t, o)
  PROVE  /\ Len(s.text) = 2 => o = 0 \/ o = 1
         /\ Len(s.text) = 3 => o = 0 \/ o = 1 \/ o = 2
         /\ Len(s.text) = 4 => o = 0 \/ o = 1 \/ o = 2 \/ o = 3
         /\ Len(s.text) = 5 => o = 0 \/ o = 1 \/ o = 2 \/ o = 3 \/ o = 4
         /\ Len(s.text) = 6 => o = 0 \/ o = 1 \/ o = 2 \/ o = 3 \/ o = 4 \/ o = 5
         /\ Len(s.text) = 7 => o = 0 \/ o = 1 \/ o = 2 \/ o = 3 \/ o = 4 \/ o = 5 \/ o = 6
         /\ Len(s.text) = 8 => o = 0 \/ o = 1 \/ o = 2 \/ o = 3 \/ o = 4 \/ o = 5 \/ o = 6 \/ o = 7
<1>1. o \in Nat /\ Len(s.text) \in Nat /\ o < Len(s.text)
  BY HereFacts DEF Here
<1> QED
  BY <1>1, Below, Zenon

(* The end of a phrase is another case than its middle. *)
LEMMA Offset ==
  ASSUME NEW s, NEW t, NEW o, Here(s, t, o)
  PROVE  /\ o + 1 # Len(s.text) => o + 1 < Len(s.text)
         /\ o # 0 /\ o + 1 # Len(s.text) => o + 1 \in 2..(Len(s.text) - 1)
         /\ o = 0 /\ Len(s.text) > 1 => o + 1 < Len(s.text)
<1>1. o \in Nat /\ Len(s.text) \in Nat /\ o < Len(s.text)
  BY HereFacts DEF Here
<1> QED
  BY <1>1

(* What the position in a phrase of each kind means. *)
LEMMA InComment ==
  ASSUME NEW g, NEW s, NEW o, NEW n, NEW free, s.kind = "comment"
  PROVE  Inside(g, s, o, n, free) <=> Marked(g, TRUE, FALSE) /\ Scoped(g, s.env) /\ Idle(g, s.env)
<1>1. (s.kind = "comment") = TRUE /\ InQuotes(s, o) = FALSE /\ ~Named(s, o)
  BY DEF InQuotes, Named
<1> QED
  BY <1>1 DEF Inside, Marked

LEMMA InString ==
  ASSUME NEW g, NEW s, NEW o, NEW n, NEW free, s.kind = "string"
  PROVE  Inside(g, s, o, n, free) <=> Marked(g, FALSE, TRUE) /\ Scoped(g, s.env) /\ Idle(g, s.env)
<1>1. (s.kind = "comment") = FALSE /\ InQuotes(s, o) = TRUE /\ ~Named(s, o)
  BY DEF InQuotes, Named
<1> QED
  BY <1>1 DEF Inside, Marked

LEMMA InHead ==
  ASSUME NEW g, NEW s, NEW o, NEW n, NEW free, s.kind = "head" \/ s.kind = "bare"
  PROVE  Inside(g, s, o, n, free) <=>
           /\ Marked(g, FALSE, FALSE) /\ Scoped(g, s.env) /\ HasWord(g, s)
           /\ s.kind = "bare" => g.argument = "nothing"
<1>1. (s.kind = "comment") = FALSE /\ InQuotes(s, o) = FALSE /\ ~Named(s, o)
  BY DEF InQuotes, Named
<1> QED
  BY <1>1 DEF Inside, Marked

LEMMA InGlued ==
  ASSUME NEW g, NEW s, NEW n, NEW free, s.kind = "glued"
  PROVE  /\ Inside(g, s, 1, n, free) <=> Marked(g, FALSE, FALSE) /\ Scoped(g, s.env) /\ HasWord(g, s)
         /\ Inside(g, s, 2, n, free) <=>
              /\ Marked(g, FALSE, FALSE) /\ Scoped(g, [s.env EXCEPT !.braces = @ + 1])
              /\ g.newclause /\ ~g.one_ip /\ g.word = <<s.text[1], "{">>
<1> DEFINE e == [s.env EXCEPT !.braces = @ + 1]
<1>1. (s.kind = "comment") = FALSE /\ \A o : InQuotes(s, o) = FALSE /\ ~Named(s, o)
  BY DEF InQuotes, Named
<1>2. \A o : Inside(g, s, o, n, free) <=>
               /\ Marked(g, FALSE, FALSE)
               /\ Scoped(g, IF o > 1 THEN e ELSE s.env)
               /\ InGroup(g, s, o)
  BY <1>1 DEF Inside, Marked
<1> HIDE DEF e
<1>3. InGroup(g, s, 1) <=> HasWord(g, s)
  BY DEF InGroup
<1>4. InGroup(g, s, 2) <=> g.newclause /\ ~g.one_ip /\ g.word = <<s.text[1], "{">>
  BY DEF InGroup
<1>5. (IF 1 > 1 THEN e ELSE s.env) = s.env /\ (IF 2 > 1 THEN e ELSE s.env) = e
  OBVIOUS
<1>6. Inside(g, s, 1, n, free) <=> Marked(g, FALSE, FALSE) /\ Scoped(g, s.env) /\ HasWord(g, s)
  BY <1>2, <1>3, <1>5, Zenon
<1>7. Inside(g, s, 2, n, free) <=>
        /\ Marked(g, FALSE, FALSE) /\ Scoped(g, e)
        /\ g.newclause /\ ~g.one_ip /\ g.word = <<s.text[1], "{">>
  BY <1>2, <1>4, <1>5, Zenon
<1> QED
  BY <1>6, <1>7, Zenon DEF e

LEMMA InStatement ==
  ASSUME NEW g, NEW s, NEW o, NEW n, NEW free, s.kind = "two" \/ s.kind = "one" \/ s.kind = "spaced"
  PROVE  Inside(g, s, o, n, free) <=>
           Marked(g, FALSE, FALSE) /\ Scoped(g, s.env) /\ InRange(g, s, o, n, free)
<1>1. (s.kind = "comment") = FALSE /\ InQuotes(s, o) = FALSE /\ ~Named(s, o)
  BY DEF InQuotes, Named
<1> QED
  BY <1>1 DEF Inside, Marked

LEMMA InShared ==
  ASSUME NEW g, NEW s, NEW o, NEW n, NEW free, s.kind = "shared" \/ s.kind = "quoted"
  PROVE  Inside(g, s, o, n, free) <=>
           Marked(g, FALSE, InQuotes(s, o)) /\ Scoped(g, s.env) /\ InNetwork(g, s, o)
<1>1. (s.kind = "comment") = FALSE /\ ~Named(s, o)
  BY DEF Named
<1> QED
  BY <1>1 DEF Inside, Marked

LEMMA InBlock ==
  ASSUME NEW g, NEW s, NEW o, NEW n, NEW free, s.kind = "subnet" \/ s.kind = "inner"
  PROVE  Inside(g, s, o, n, free) <=>
           /\ Marked(g, FALSE, FALSE)
           /\ Scoped(g, IF Named(s, o) THEN [s.env EXCEPT !.net = s.env.nets + 1, !.scope = s.env.braces]
                        ELSE s.env)
           /\ InSubnet(g, s, o)
<1>1. (s.kind = "comment") = FALSE /\ InQuotes(s, o) = FALSE
  BY DEF InQuotes
<1> QED
  BY <1>1 DEF Inside, Marked

LEMMA InInclusion ==
  ASSUME NEW g, NEW s, NEW o, NEW n, NEW free, s.kind = "include"
  PROVE  Inside(g, s, o, n, free) <=>
           Marked(g, FALSE, InQuotes(s, o)) /\ Scoped(g, s.env) /\ InInclude(g, s, o)
<1>1. (s.kind = "comment") = FALSE /\ ~Named(s, o)
  BY DEF Named
<1> QED
  BY <1>1 DEF Inside, Marked

-----------------------------------------------------------------------------
(* Layout and clauses that declare nothing *)

(* A blank between two phrases, and a word in the rest of a clause. *)
LEMMA SpaceStep ==
  ASSUME NEW s, NEW t, NEW o, Here(s, t, o), Space(s, t) \/ NextWord(s, t)
  PROVE  Goes(s, t, o)
<1>1. /\ o = 0 /\ Len(s.text) = 1 /\ c \in Blanks \cup Word /\ t.env = s.env
      /\ ~Named(s, o)
      /\ c \in Blanks \/ s.env.mode = "rest"
  BY DEF Here, Space, NextWord, Form, Named
<1>2. Between(f, s.env)
  BY <1>1 DEF Here, At
<1>3. Plain
  BY <1>1 DEF Plain, Blanks, Word, Special
<1>4. PICK g : Moved(g) /\ Follows(g) /\ Kept(g) /\ Marked(g, f.comment /\ ~Unquoted("\n"), f.quote)
  BY <1>1, <1>2, <1>3, SkipTurn DEF Here, Between, Idle, Flags
<1>5. Between(g, t.env)
  BY <1>1, <1>2, <1>4 DEF Between, Idle, Flags, Unmarked, Scoped, Follows, Kept, Marked
<1>6. o + 1 = Len(s.text) /\ t.env.ranges = s.env.ranges /\ t.env.nets = s.env.nets
  BY <1>1
<1> QED
  BY <1>1, <1>4, <1>5, <1>6, Arrive DEF Follows

(* A comment leaves the parser where it was. *)
LEMMA CommentStep ==
  ASSUME NEW s, NEW t, NEW o, Here(s, t, o), Comment(s, t)
  PROVE  Goes(s, t, o)
<1>1. /\ s.kind = "comment" /\ t.env = s.env /\ s.text[1] = "#"
      /\ s.text[Len(s.text)] = "\n" /\ Len(s.text) > 1 /\ Len(s.text) \in Nat
  BY HereFacts DEF Comment
<1>2. s.kind # "end" /\ s.kind # "subnet" /\ \A x : ~Named(s, x)
  BY <1>1 DEF Named
<1>3. CASE o = 0
  <2>1. c = "#" /\ ParserInv /\ Character /\ Idle(f, s.env) /\ Scoped(f, s.env) /\ f.quote = FALSE
    BY <1>1, <1>3, Begin
  <2>2. PICK g : Moved(g) /\ Follows(g) /\ Kept(g) /\ g.quote = f.quote /\ g.comment = TRUE
    BY <2>1, HashTurn DEF Marked
  <2>3. Marked(g, TRUE, FALSE) /\ Scoped(g, s.env) /\ Idle(g, s.env)
    BY <2>1, <2>2 DEF Marked, Follows, Kept, Scoped, Idle, Flags
  <2>4. Inside(g, s, o + 1, SlotPointer, slot)
    BY <1>1, <2>3, InComment
  <2>5. o + 1 < Len(s.text)
    BY <1>1, <1>3, Offset
  <2> QED
    BY <1>2, <2>2, <2>4, <2>5, Stay
<1>4. CASE o # 0
  <2>1. /\ ParserInv /\ Character /\ Inside(f, s, o, SlotPointer, slot) /\ o \in Nat /\ o > 0
        /\ o < Len(s.text) /\ c = s.text[o + 1]
    BY <1>2, <1>4, Amid
  <2>2. f.comment = TRUE /\ f.quote = FALSE /\ Scoped(f, s.env) /\ Idle(f, s.env)
    BY <1>1, <2>1, InComment DEF Marked
  <2>3. /\ ~f.one_ip /\ f.word = << >> /\ (f.newclause <=> s.env.mode # "rest")
        /\ (f.argument = "second_ip" <=> s.env.mode = "pending")
    BY <2>2 DEF Idle, Flags
  <2>4. CASE o + 1 # Len(s.text)
    <3>1. o + 1 \in 2..(Len(s.text) - 1) /\ o + 1 < Len(s.text)
      BY <1>4, <2>4, Offset
    <3>2. c # "\n" /\ (c = ";" => f.argument # "second_ip") /\ (c = "{" => f.newclause)
      BY <2>1, <2>3, <3>1 DEF Comment
    <3>3. PICK g : Moved(g) /\ Follows(g) /\ Kept(g) /\ Marked(g, TRUE, FALSE)
      BY <2>1, <2>2, <2>3, <3>2, CommentTurn
    <3>4. Scoped(g, s.env) /\ Idle(g, s.env)
      BY <2>2, <3>3 DEF Follows, Kept, Scoped, Idle, Flags
    <3>5. Inside(g, s, o + 1, SlotPointer, slot)
      BY <1>1, <3>3, <3>4, InComment
    <3> QED
      BY <1>2, <3>1, <3>3, <3>5, Stay
  <2>5. CASE o + 1 = Len(s.text)
    <3>1. c = "\n"
      BY <1>1, <2>1, <2>5
    <3>2. c \in Blanks /\ Plain /\ Unquoted("\n")
      BY <2>2, <3>1 DEF Blanks, Plain, Unquoted
    <3>3. PICK g : Moved(g) /\ Follows(g) /\ Kept(g) /\ Marked(g, f.comment /\ ~Unquoted("\n"), f.quote)
      BY <2>1, <2>3, <3>2, SkipTurn
    <3>4. Scoped(g, t.env) /\ Idle(g, t.env) /\ Unmarked(g)
      BY <1>1, <2>2, <3>2, <3>3 DEF Unmarked, Follows, Kept, Scoped, Idle, Flags, Marked
    <3> QED
      BY <1>1, <1>2, <2>5, <3>3, <3>4, Arrive DEF Follows, Between
  <2> QED
    BY <2>4, <2>5
<1> QED
  BY <1>3, <1>4

(* A string does, too. *)
LEMMA StringStep ==
  ASSUME NEW s, NEW t, NEW o, Here(s, t, o), Quotation(s, t)
  PROVE  Goes(s, t, o)
<1>1. /\ s.kind = "string" /\ t.env = s.env /\ s.text[1] = "\"" /\ s.env.mode = "rest"
      /\ s.text[Len(s.text)] = "\"" /\ Len(s.text) > 1 /\ Len(s.text) \in Nat
  BY HereFacts DEF Quotation
<1>2. s.kind # "end" /\ s.kind # "subnet" /\ \A x : ~Named(s, x)
  BY <1>1 DEF Named
<1>3. CASE o = 0
  <2>1. /\ c = "\"" /\ ParserInv /\ Character /\ Idle(f, s.env) /\ Scoped(f, s.env)
        /\ f.quote = FALSE /\ f.comment = FALSE
    BY <1>1, <1>3, Begin
  <2>2. PICK g : Moved(g) /\ Follows(g) /\ Kept(g) /\ Marked(g, FALSE, TRUE)
    BY <2>1, QuoteTurn
  <2>3. Scoped(g, s.env) /\ Idle(g, s.env)
    BY <2>1, <2>2 DEF Follows, Kept, Scoped, Idle, Flags
  <2>4. Inside(g, s, o + 1, SlotPointer, slot)
    BY <1>1, <2>2, <2>3, InString
  <2>5. o + 1 < Len(s.text)
    BY <1>1, <1>3, Offset
  <2> QED
    BY <1>2, <2>2, <2>4, <2>5, Stay
<1>4. CASE o # 0
  <2>1. /\ ParserInv /\ Character /\ Inside(f, s, o, SlotPointer, slot) /\ o \in Nat /\ o > 0
        /\ o < Len(s.text) /\ c = s.text[o + 1]
    BY <1>2, <1>4, Amid
  <2>2. f.comment = FALSE /\ f.quote = TRUE /\ Scoped(f, s.env) /\ Idle(f, s.env)
    BY <1>1, <2>1, InString DEF Marked
  <2>3. ~f.newclause /\ f.argument = "nothing"
    BY <1>1, <2>2 DEF Idle, Flags
  <2>4. CASE o + 1 # Len(s.text)
    <3>1. o + 1 \in 2..(Len(s.text) - 1) /\ o + 1 < Len(s.text)
      BY <1>4, <2>4, Offset
    <3>2. c # "\"" /\ ~Unquoted("\n")
      BY <2>1, <2>2, <3>1 DEF Quotation, Unquoted
    <3>3. \E g : Moved(g) /\ Follows(g) /\ Kept(g) /\ Marked(g, FALSE, TRUE)
      <4>1. CASE c = "#"
        BY <2>1, <2>2, <4>1, HashTurn DEF Marked
      <4>2. CASE c # "#"
        <5>1. Plain
          BY <2>2, <3>2, <4>2 DEF Plain
        <5>2. PICK g : Moved(g) /\ Follows(g) /\ Kept(g) /\ Marked(g, f.comment /\ ~Unquoted("\n"), f.quote)
          BY <2>1, <2>3, <5>1, SkipTurn
        <5>3. Marked(g, FALSE, TRUE)
          BY <2>2, <5>2 DEF Marked
        <5> QED
          BY <5>2, <5>3
      <4> QED
        BY <4>1, <4>2
    <3>4. PICK g : Moved(g) /\ Follows(g) /\ Kept(g) /\ Marked(g, FALSE, TRUE)
      BY <3>3
    <3>5. Scoped(g, s.env) /\ Idle(g, s.env)
      BY <2>2, <3>4 DEF Follows, Kept, Scoped, Idle, Flags
    <3>6. Inside(g, s, o + 1, SlotPointer, slot)
      BY <1>1, <3>4, <3>5, InString
    <3> QED
      BY <1>2, <3>1, <3>4, <3>6, Stay
  <2>5. CASE o + 1 = Len(s.text)
    <3>1. c = "\""
      BY <1>1, <2>1, <2>5
    <3>2. PICK g : Moved(g) /\ Follows(g) /\ Kept(g) /\ Marked(g, FALSE, FALSE)
      BY <2>1, <2>2, <3>1, QuoteTurn
    <3>3. Scoped(g, t.env) /\ Idle(g, t.env) /\ Unmarked(g)
      BY <1>1, <2>2, <3>2 DEF Unmarked, Follows, Kept, Scoped, Idle, Flags, Marked
    <3> QED
      BY <1>1, <1>2, <2>5, <3>2, <3>3, Arrive DEF Follows, Between
  <2> QED
    BY <2>4, <2>5
<1> QED
  BY <1>3, <1>4

(* A semicolon ends a clause. *)
LEMMA SemicolonStep ==
  ASSUME NEW s, NEW t, NEW o, Here(s, t, o), Semicolon(s, t)
  PROVE  Goes(s, t, o)
<1>1. Form(s, <<{";"}>>) /\ s.env.mode # "pending" /\ t.env = [s.env EXCEPT !.mode = "clause"]
  BY DEF Semicolon
<1>2. Len(s.text) = 1 /\ s.text[1] \in {";"}
  BY <1>1, Form1, Zenon
<1>3. o = 0 /\ o + 1 = Len(s.text) /\ ~Named(s, o)
  BY <1>2, Single
<1>4. /\ ParserInv /\ Character /\ c = ";" /\ s.env \in Env
      /\ Idle(f, s.env) /\ Scoped(f, s.env) /\ f.comment = FALSE /\ f.quote = FALSE
  BY <1>2, <1>3, Begin
<1>5. f.argument = "nothing" /\ f.one_ip = FALSE /\ Unquoted(";")
  BY <1>1, <1>4 DEF Idle, Flags, Unquoted
<1>6. PICK g : /\ Moved(g) /\ Follows(g) /\ Marked(g, FALSE, f.quote)
               /\ Flags(g, TRUE, "nothing", f.one_ip, << >>)
  BY <1>4, <1>5, EndTurn
<1>7. /\ t.env.mode = "clause" /\ t.env.braces = s.env.braces /\ t.env.scope = s.env.scope
      /\ t.env.net = s.env.net /\ t.env.ranges = s.env.ranges /\ t.env.nets = s.env.nets
  BY <1>1, <1>4 DEF Env
<1>8. Scoped(g, t.env)
  BY <1>4, <1>6, <1>7 DEF Scoped, Follows
<1>9. Between(g, t.env)
  BY <1>4, <1>5, <1>6, <1>7, <1>8 DEF Between, Unmarked, Idle, Flags, Marked
<1> QED
  BY <1>3, <1>6, <1>7, <1>9, Arrive DEF Follows

(* The brace of a block begins a clause. *)
LEMMA OpenStep ==
  ASSUME NEW s, NEW t, NEW o, Here(s, t, o), Open(s, t)
  PROVE  Goes(s, t, o)
<1>1. /\ Form(s, <<{"{"}>>) /\ s.env.mode = "rest"
      /\ t.env = [s.env EXCEPT !.mode = "clause", !.braces = @ + 1]
  BY DEF Open
<1>2. Len(s.text) = 1 /\ s.text[1] \in {"{"}
  BY <1>1, Form1, Zenon
<1>3. o = 0 /\ o + 1 = Len(s.text) /\ ~Named(s, o)
  BY <1>2, Single
<1>4. /\ ParserInv /\ Character /\ c = "{" /\ s.env \in Env
      /\ Idle(f, s.env) /\ Scoped(f, s.env) /\ f.comment = FALSE /\ f.quote = FALSE
      /\ f.word = << >>
  BY <1>2, <1>3, Begin
<1>5. f.argument = "nothing" /\ f.one_ip = FALSE /\ Unquoted("{")
  BY <1>1, <1>4 DEF Idle, Flags, Unquoted
<1>6. PICK g : /\ Moved(g) /\ Flags(g, TRUE, f.argument, f.one_ip, << >>)
               /\ Marked(g, f.comment, f.quote)
               /\ g.file = f.file /\ g.pos = f.pos + 1
               /\ g.braces_shared = f.braces_shared /\ g.shared_p = f.shared_p /\ g.range_p = f.range_p
               /\ g.braces = IF f.comment THEN f.braces ELSE f.braces + 1
  BY <1>4, <1>5, OpenTurn
<1>7. /\ t.env.mode = "clause" /\ t.env.braces = s.env.braces + 1 /\ t.env.scope = s.env.scope
      /\ t.env.net = s.env.net /\ t.env.ranges = s.env.ranges /\ t.env.nets = s.env.nets
  BY <1>1, <1>4 DEF Env
<1>8. Scoped(g, t.env)
  BY <1>4, <1>6, <1>7 DEF Scoped
<1>9. Between(g, t.env)
  BY <1>4, <1>5, <1>6, <1>7, <1>8 DEF Between, Unmarked, Idle, Flags, Marked
<1> QED
  BY <1>3, <1>6, <1>7, <1>9, Arrive

(* A closing brace ends the shared network that begins with its block. *)
LEMMA CloseStep ==
  ASSUME NEW s, NEW t, NEW o, Here(s, t, o), Close(s, t)
  PROVE  Goes(s, t, o)
<1> DEFINE outside == s.env.braces - 1
           ends == s.env.scope = outside
<1>1. /\ Form(s, <<{"}"}>>) /\ s.env.mode # "rest"
      /\ t.env = [s.env EXCEPT !.braces = outside, !.net = IF ends THEN 0 ELSE @,
                               !.scope = IF ends THEN NoScope ELSE @]
  BY DEF Close, AtClause
<1>2. Len(s.text) = 1 /\ s.text[1] \in {"}"}
  BY <1>1, Form1, Zenon
<1>3. o = 0 /\ o + 1 = Len(s.text) /\ ~Named(s, o)
  BY <1>2, Single
<1>4. /\ ParserInv /\ Character /\ c = "}" /\ s.env \in Env
      /\ Idle(f, s.env) /\ Scoped(f, s.env) /\ f.comment = FALSE /\ f.quote = FALSE
      /\ f.word = << >>
  BY <1>2, <1>3, Begin
<1>5. Unquoted("}")
  BY <1>4 DEF Unquoted
<1>6. PICK g : /\ Moved(g) /\ Flags(g, TRUE, f.argument, f.one_ip, f.word) /\ Marked(g, FALSE, f.quote)
               /\ g.file = f.file /\ g.pos = f.pos + 1 /\ g.range_p = f.range_p
               /\ g.braces = f.braces - 1
               /\ IF f.braces_shared = f.braces - 1
                  THEN g.braces_shared = NoScope /\ g.shared_p = 0
                  ELSE g.braces_shared = f.braces_shared /\ g.shared_p = f.shared_p
  BY <1>4, <1>5, CloseTurn
<1>7. /\ t.env.ranges = s.env.ranges /\ t.env.nets = s.env.nets /\ t.env.mode = s.env.mode
      /\ t.env.braces = outside
      /\ t.env.net = IF ends THEN 0 ELSE s.env.net
      /\ t.env.scope = IF ends THEN NoScope ELSE s.env.scope
  <2> HIDE DEF outside, ends
  <2>1. CASE ends
    <3>1. t.env = [s.env EXCEPT !.braces = outside, !.net = 0, !.scope = NoScope]
      BY <1>1, <2>1
    <3> QED
      BY <1>4, <2>1, <3>1 DEF Env
  <2>2. CASE ~ends
    <3>1. t.env = [s.env EXCEPT !.braces = outside, !.net = @, !.scope = @]
      BY <1>1, <2>2
    <3> QED
      BY <1>4, <2>2, <3>1 DEF Env
  <2> QED
    BY <2>1, <2>2
<1>8. Scoped(g, t.env)
  BY <1>4, <1>6, <1>7 DEF Scoped
<1>9. Between(g, t.env)
  BY <1>1, <1>4, <1>6, <1>7, <1>8 DEF Between, Unmarked, Idle, Flags, Marked
<1> QED
  BY <1>3, <1>6, <1>7, <1>9, Arrive

-----------------------------------------------------------------------------
(* Words *)

(* The one keyword that a single word contains. *)
LEMMA OneKeyword ==
  ASSUME NEW w
  PROVE  /\ w \notin Keywords(config) => KeywordOf(<<w>>) = "nothing"
         /\ w = "range" => KeywordOf(<<w>>) = "first_ip"
         /\ w = "shared-network" => KeywordOf(<<w>>) = "sharednet"
         /\ w = "subnet" /\ config.all_as_shared => KeywordOf(<<w>>) = "subnet"
         /\ w = "netmask" /\ config.all_as_shared => KeywordOf(<<w>>) = "netmask"
         /\ w = "include" => KeywordOf(<<w>>) = "include"
<1>1. \A k : Contains(<<w>>, k) <=> w = k
  <2>1. Len(<<w>>) = 1 /\ <<w>>[1] = w
    OBVIOUS
  <2> QED
    BY <2>1 DEF Contains
<1> QED
  BY <1>1 DEF KeywordOf, Keywords

(* The first word of a clause, in a phrase that begins with one. *)
LEMMA FirstLetter ==
  ASSUME NEW s, NEW t, NEW o, Here(s, t, o), o = 0, s.text[1] \in Word, s.env.mode # "rest"
  PROVE  \E g : /\ Moved(g) /\ Follows(g) /\ Marked(g, FALSE, FALSE) /\ Scoped(g, s.env)
                /\ HasWord(g, s) /\ g.argument = f.argument
<1>1. /\ ParserInv /\ Character /\ c = s.text[1]
      /\ Scoped(f, s.env) /\ f.comment = FALSE /\ f.quote = FALSE
      /\ f.word = << >> /\ f.one_ip = FALSE /\ f.newclause = (s.env.mode # "rest")
  BY Begin
<1>2. f.newclause = TRUE
  BY <1>1
<1>3. c \notin Blanks /\ Plain /\ InWord
  BY <1>1, <1>2 DEF Word, Special, Blanks, Plain, InWord
<1>4. Len(f.word) + 1 < MAXLEN
  BY <1>1, ConfigAssumption DEF ConfigAssumption
<1>5. PICK g : /\ Moved(g) /\ Follows(g) /\ Marked(g, FALSE, f.quote)
               /\ Flags(g, f.newclause, f.argument, f.one_ip, Append(f.word, c))
  BY <1>1, <1>3, <1>4, LetterTurn
<1>6. Append(f.word, c) = <<s.text[1]>>
  BY <1>1
<1>7. HasWord(g, s) /\ g.argument = f.argument
  BY <1>1, <1>2, <1>5, <1>6 DEF HasWord, Flags
<1>8. Marked(g, FALSE, FALSE) /\ Scoped(g, s.env)
  BY <1>1, <1>5 DEF Follows, Scoped
<1> QED
  BY <1>5, <1>7, <1>8

(* The blank after it. *)
LEMMA FirstBlank ==
  ASSUME NEW s, ParserInv, Character, Marked(f, FALSE, FALSE), HasWord(f, s), c \in Blanks,
         s.text[1] \in Word
  PROVE  \E g : /\ Moved(g) /\ Follows(g) /\ Marked(g, FALSE, FALSE)
                /\ Flags(g, FALSE, KeywordOf(<<s.text[1]>>), KeywordOf(<<s.text[1]>>) = "first_ip", << >>)
<1> DEFINE w == s.text[1]
<1>1. f.newclause /\ ~f.one_ip /\ f.word = <<w>>
  BY DEF HasWord
<1>2. f.word # << >> /\ Unmarked(f)
  BY <1>1 DEF Marked, Unmarked
<1>3. w # "{"
  BY DEF Word, Special
<1>4. f.word[Len(f.word)] = w
  BY <1>1
<1>5. (f.word[Len(f.word)] = "{") = FALSE
  BY <1>3, <1>4
<1> QED
  BY <1>1, <1>2, <1>5, KeywordTurn

(* A clause that declares nothing. *)
LEMMA HeadStep ==
  ASSUME NEW s, NEW t, NEW o, Here(s, t, o), FirstWord(config, s, t)
  PROVE  Goes(s, t, o)
<1> DEFINE A == Word \ Keywords(config)
<1>1. s.kind = "head" /\ s.env.mode # "rest" /\ t.env = [s.env EXCEPT !.mode = "rest"]
  BY DEF FirstWord, AtClause
<1>2. Len(s.text) = 2 /\ s.text[1] \in A /\ s.text[2] \in Blanks
  <2>1. Form(s, <<A, Blanks>>)
    BY DEF FirstWord
  <2> HIDE DEF A
  <2> QED
    BY <2>1, Form2, Zenon
<1>3. s.text[1] \in Word /\ s.text[1] \notin Keywords(config)
  BY <1>2 DEF A
<1>3a. s.kind = "head" \/ s.kind = "bare"
  BY <1>1
<1>3b. Len(s.text) = 2
  BY <1>2, Zenon
<1>4. s.kind # "end" /\ s.kind # "subnet" /\ \A x : ~Named(s, x)
  BY <1>1 DEF Named
<1>5. CASE o = 0
  <2>1. PICK g : /\ Moved(g) /\ Follows(g) /\ Marked(g, FALSE, FALSE) /\ Scoped(g, s.env)
                 /\ HasWord(g, s) /\ g.argument = f.argument
    BY <1>1, <1>3, <1>5, FirstLetter
  <2>2. Inside(g, s, o + 1, SlotPointer, slot)
    BY <1>3a, <1>1, <2>1, InHead, Zenon
  <2>3. o + 1 < Len(s.text)
    BY <1>3b, <1>5
  <2> QED
    BY <1>4, <2>1, <2>2, <2>3, Stay
<1>6. CASE o # 0
  <2>1. /\ ParserInv /\ Character /\ Inside(f, s, o, SlotPointer, slot) /\ o \in Nat /\ o > 0
        /\ o < Len(s.text) /\ s.env \in Env
    BY <1>4, <1>6, Amid
  <2>2. o = 1
    BY <1>3b, <1>6, Count, Zenon
  <2>2a. o + 1 = Len(s.text)
    BY <1>3b, <2>2
  <2>3. c \in Blanks
    BY <1>2, <2>2, Nth
  <2>4. Marked(f, FALSE, FALSE) /\ HasWord(f, s) /\ Scoped(f, s.env)
    BY <1>3a, <1>1, <2>1, InHead, Zenon
  <2>5. PICK g : /\ Moved(g) /\ Follows(g) /\ Marked(g, FALSE, FALSE)
                 /\ Flags(g, FALSE, KeywordOf(<<s.text[1]>>), KeywordOf(<<s.text[1]>>) = "first_ip", << >>)
    BY <1>3, <2>1, <2>3, <2>4, FirstBlank
  <2>6. KeywordOf(<<s.text[1]>>) = "nothing"
    BY <1>3, OneKeyword
  <2>7. Flags(g, FALSE, "nothing", FALSE, << >>)
    BY <2>5, <2>6 DEF Flags
  <2>8. /\ t.env.mode = "rest" /\ t.env.braces = s.env.braces /\ t.env.scope = s.env.scope
        /\ t.env.net = s.env.net /\ t.env.ranges = s.env.ranges /\ t.env.nets = s.env.nets
    BY <1>1, <2>1 DEF Env
  <2>9. Between(g, t.env)
    BY <2>4, <2>5, <2>7, <2>8 DEF Between, Idle, Unmarked, Marked, Scoped, Follows, Flags
  <2> QED
    BY <1>4, <2>2a, <2>5, <2>8, <2>9, Arrive DEF Follows
<1> QED
  BY <1>5, <1>6

(* A clause of one word. *)
LEMMA BareStep ==
  ASSUME NEW s, NEW t, NEW o, Here(s, t, o), Bare(s, t)
  PROVE  Goes(s, t, o)
<1>1. s.kind = "bare" /\ s.env.mode = "clause" /\ t.env = s.env
  BY DEF Bare
<1>2. Len(s.text) = 2 /\ s.text[1] \in Word /\ s.text[2] \in {";"}
  <2>1. Form(s, <<Word, {";"}>>)
    BY DEF Bare
  <2> QED
    BY <2>1, Form2, Zenon
<1>3a. s.kind = "head" \/ s.kind = "bare"
  BY <1>1
<1>3b. Len(s.text) = 2
  BY <1>2, Zenon
<1>4. s.kind # "end" /\ s.kind # "subnet" /\ \A x : ~Named(s, x)
  BY <1>1 DEF Named
<1>5. CASE o = 0
  <2>1. PICK g : /\ Moved(g) /\ Follows(g) /\ Marked(g, FALSE, FALSE) /\ Scoped(g, s.env)
                 /\ HasWord(g, s) /\ g.argument = f.argument
    BY <1>1, <1>2, <1>5, FirstLetter
  <2>2. Idle(f, s.env)
    BY <1>5, Begin
  <2>3. f.argument = "nothing"
    BY <1>1, <2>2 DEF Idle, Flags
  <2>4. Inside(g, s, o + 1, SlotPointer, slot)
    BY <1>3a, <1>1, <2>1, <2>3, InHead, Zenon
  <2>5. o + 1 < Len(s.text)
    BY <1>3b, <1>5
  <2> QED
    BY <1>4, <2>1, <2>4, <2>5, Stay
<1>6. CASE o # 0
  <2>1. /\ ParserInv /\ Character /\ Inside(f, s, o, SlotPointer, slot) /\ o \in Nat /\ o > 0
        /\ o < Len(s.text)
    BY <1>4, <1>6, Amid
  <2>2. o = 1
    BY <1>3b, <1>6, Count, Zenon
  <2>2a. o + 1 = Len(s.text)
    BY <1>3b, <2>2
  <2>3. c = ";"
    BY <1>2, <2>2, Nth
  <2>4. /\ Marked(f, FALSE, FALSE) /\ HasWord(f, s) /\ Scoped(f, s.env) /\ f.argument = "nothing"
    BY <1>3a, <1>1, <2>1, InHead, Zenon
  <2>5. Unquoted(";") /\ ~f.comment
    BY <2>3, <2>4 DEF Marked, Unquoted
  <2>6. PICK g : /\ Moved(g) /\ Follows(g) /\ Marked(g, FALSE, f.quote)
                 /\ Flags(g, TRUE, "nothing", f.one_ip, << >>)
    BY <2>1, <2>4, <2>5, EndTurn
  <2>7. f.one_ip = FALSE /\ f.quote = FALSE
    BY <2>1, <2>4, ReadFields DEF HasWord, Marked
  <2>8. Between(g, t.env)
    BY <1>1, <2>4, <2>6, <2>7 DEF Between, Idle, Unmarked, Marked, Scoped, Follows, Flags
  <2> QED
    BY <1>1, <1>4, <2>2a, <2>6, <2>8, Arrive DEF Follows
<1> QED
  BY <1>5, <1>6

(* A block of one word. *)
LEMMA GluedStep ==
  ASSUME NEW s, NEW t, NEW o, Here(s, t, o), Glued(config, s, t)
  PROVE  Goes(s, t, o)
<1> DEFINE A == Word \ Keywords(config)
<1>1. s.kind = "glued" /\ s.env.mode # "rest"
  BY DEF Glued, AtClause
<1>1a. MAXLEN > 2
  BY DEF Glued
<1>2. Len(s.text) = 3 /\ s.text[1] \in A /\ s.text[2] \in {"{"} /\ s.text[3] \in Blanks
  <2>1. Form(s, <<A, {"{"}, Blanks>>)
    BY DEF Glued
  <2> HIDE DEF A
  <2> QED
    BY <2>1, Form3, Zenon
<1>3. s.text[1] \in Word /\ s.text[1] \notin Keywords(config) /\ s.text[2] = "{"
  BY <1>2
<1>4. Len(s.text) = 3
  BY <1>2, Zenon
<1>5. s.kind # "end" /\ s.kind # "subnet" /\ \A x : ~Named(s, x)
  BY <1>1 DEF Named
<1>6. s.text \in Seq(Symbol) /\ s.env \in Env
  BY HereFacts
<1>8. /\ t.env.mode = "clause" /\ t.env.braces = s.env.braces + 1 /\ t.env.scope = s.env.scope
      /\ t.env.net = s.env.net /\ t.env.ranges = s.env.ranges /\ t.env.nets = s.env.nets
  BY <1>6 DEF Glued, Env
<1> DEFINE e == [s.env EXCEPT !.braces = @ + 1]
<1>9. e.braces = s.env.braces + 1 /\ e.scope = s.env.scope /\ e.net = s.env.net
  BY <1>6 DEF Env
<1> HIDE DEF e
<1>10. CASE o = 0
  <2>1. PICK g : /\ Moved(g) /\ Follows(g) /\ Marked(g, FALSE, FALSE) /\ Scoped(g, s.env)
                 /\ HasWord(g, s) /\ g.argument = f.argument
    BY <1>1, <1>3, <1>10, FirstLetter
  <2>3. Inside(g, s, 1, SlotPointer, slot)
    BY <1>1, <2>1, InGlued, Zenon
  <2>4. o + 1 = 1 /\ o + 1 < Len(s.text)
    BY <1>4, <1>10
  <2> QED
    BY <1>5, <2>1, <2>3, <2>4, Stay
<1>11. CASE o = 1
  <2>1. ParserInv /\ Character /\ Inside(f, s, 1, SlotPointer, slot)
    BY <1>5, <1>11, Amid
  <2>2. /\ Marked(f, FALSE, FALSE) /\ Scoped(f, s.env)
        /\ f.newclause /\ ~f.one_ip /\ f.word = <<s.text[1]>>
    BY <1>1, <2>1, InGlued, Zenon DEF HasWord
  <2>2b. f.word = <<s.text[1]>>
    BY <2>2, Zenon
  <2>3. c = "{"
    BY <1>3, <1>11, Nth
  <2>4. Unquoted("{") /\ f.word # << >> /\ Len(f.word) + 1 < MAXLEN /\ ~f.comment
    <3>1. Len(f.word) = 1
      BY <2>2
    <3>2. Len(f.word) + 1 < MAXLEN
      BY <1>1a, <3>1, ConfigAssumption DEF ConfigAssumption
    <3>3. f.word # << >>
      BY <3>1
    <3>4. ~f.quote /\ ~f.comment
      BY <2>2 DEF Marked
    <3> QED
      BY <2>3, <3>2, <3>3, <3>4 DEF Unquoted
  <2>5. PICK g : /\ Moved(g) /\ Flags(g, f.newclause, f.argument, f.one_ip, Append(f.word, "{"))
                 /\ Marked(g, FALSE, f.quote)
                 /\ g.file = f.file /\ g.pos = f.pos + 1
                 /\ g.braces_shared = f.braces_shared /\ g.shared_p = f.shared_p /\ g.range_p = f.range_p
                 /\ g.braces = f.braces + 1
    BY <2>1, <2>2, <2>4, BraceTurn
  <2>6. Append(f.word, "{") = <<s.text[1], "{">>
    <3>1. Append(<<s.text[1]>>, "{") = <<s.text[1], "{">>
      BY ShortWords, Zenon
    <3> QED
      BY <2>2b, <3>1, Zenon
  <2>7. Scoped(g, e) /\ Marked(g, FALSE, FALSE)
    BY <1>9, <2>2, <2>5 DEF Scoped, Marked
  <2>8. g.newclause /\ ~g.one_ip /\ g.word = <<s.text[1], "{">>
    BY <2>2, <2>5, <2>6 DEF Flags
  <2>9. Inside(g, s, 2, SlotPointer, slot)
    BY <1>1, <2>7, <2>8, InGlued, Zenon DEF e
  <2>10. o + 1 = 2 /\ o + 1 < Len(s.text)
    BY <1>4, <1>11
  <2> QED
    BY <1>5, <2>5, <2>9, <2>10, Onward DEF Moved, globals
<1>12. CASE o = 2
  <2>1. ParserInv /\ Character /\ Inside(f, s, 2, SlotPointer, slot)
    BY <1>5, <1>12, Amid
  <2>2. /\ Marked(f, FALSE, FALSE) /\ Scoped(f, e)
        /\ f.newclause /\ ~f.one_ip /\ f.word = <<s.text[1], "{">>
    BY <1>1, <2>1, InGlued, Zenon DEF e
  <2>2b. f.word = <<s.text[1], "{">>
    BY <2>2, Zenon
  <2>3. c \in Blanks
    BY <1>2, <1>12, Nth
  <2>4. f.word # << >> /\ f.word[Len(f.word)] = "{"
    <3>0. LET w == <<s.text[1], "{">> IN w # << >> /\ Len(w) = 2 /\ w[2] = "{"
      BY ShortWords, Zenon
    <3>1. f.word # << >> /\ Len(f.word) = 2 /\ f.word[2] = "{"
      BY <2>2b, <3>0, Zenon
    <3> QED
      BY <3>1
  <2>4a. Unmarked(f)
    BY <2>2 DEF Marked, Unmarked
  <2>5. KeywordOf(f.word) = "nothing"
    <3>1. ASSUME NEW k \in Keywords(config) PROVE ~Contains(f.word, k)
      <4>1. k # s.text[1] /\ k # "{"
        BY <1>3 DEF Keywords
      <4>2. ~Contains(<<s.text[1], "{">>, k)
        BY <4>1, NotInShort, Zenon
      <4> QED
        BY <2>2b, <4>2, Zenon
    <3> QED
      BY <3>1 DEF KeywordOf, Keywords
  <2>6. PICK g : /\ Moved(g) /\ Follows(g) /\ Marked(g, FALSE, FALSE)
                 /\ Flags(g, f.word[Len(f.word)] = "{", KeywordOf(f.word),
                          KeywordOf(f.word) = "first_ip", << >>)
    BY <2>1, <2>2, <2>3, <2>4, <2>4a, KeywordTurn
  <2>7. Flags(g, TRUE, "nothing", FALSE, << >>)
    BY <2>4, <2>5, <2>6 DEF Flags
  <2>8. Scoped(g, t.env)
    BY <1>8, <1>9, <2>2, <2>6 DEF Scoped, Follows
  <2>8a. Between(g, t.env)
    BY <1>8, <2>6, <2>7, <2>8 DEF Between, Idle, Unmarked, Marked, Flags
  <2>9. o + 1 = Len(s.text)
    BY <1>4, <1>12
  <2> QED
    BY <1>5, <1>8, <2>6, <2>8a, <2>9, Arrive DEF Follows
<1> QED
  BY <1>4, <1>10, <1>11, <1>12, Count, Zenon

-----------------------------------------------------------------------------
(* Range statements *)

\* The call g is f one character later; it may know another range.
Ahead(g) ==
  /\ g.file = f.file /\ g.pos = f.pos + 1
  /\ Scoped(g, [braces |-> f.braces, scope |-> f.braces_shared, net |-> f.shared_p])

(* The word behind `range' is the first address, or passed over. *)
LEMMA AddressTurn ==
  ASSUME ParserInv, Character, Marked(f, FALSE, FALSE), c \in Blanks, NEW w,
         Awaits(f, "first_ip", TRUE, <<w>>)
  PROVE  \E g : /\ stack' = Put(g) /\ UNCHANGED <<config, ranges, RANGES, nets, phase>>
                /\ Ahead(g) /\ Marked(g, FALSE, FALSE)
                /\ IF w \in Addresses
                   THEN slot'.first = w /\ g.range_p = SlotPointer /\ Awaits(g, "second_ip", FALSE, << >>)
                   ELSE slot' = slot /\ Awaits(g, "first_ip", TRUE, << >>)
<1>1. f.newclause = FALSE /\ f.argument = "first_ip" /\ f.one_ip = TRUE /\ f.word = <<w>>
  BY ReadFields DEF Awaits, Flags
<1>2. ~f.comment /\ ~f.quote /\ InWord /\ f.word # << >>
  BY <1>1 DEF Marked, InWord
<1>3. FirstIp
  BY <1>1, <1>2, EndOfWord
<1>4. g1 \in Frame /\ g1.word = <<w>> /\ g1.argument = "first_ip" /\ g1.one_ip = TRUE /\ g1.newclause = FALSE
  BY <1>1, ReadFields
<1> DEFINE h == Reset(g1)
           n == SlotPointer
<1>5. h \in Frame /\ h.word = << >>
  BY <1>4, ResetFits DEF Fitting
<1>6. /\ h.file = g1.file /\ h.pos = g1.pos /\ h.braces = g1.braces /\ h.braces_shared = g1.braces_shared
      /\ h.shared_p = g1.shared_p /\ h.comment = g1.comment /\ h.quote = g1.quote
      /\ h.argument = g1.argument /\ h.one_ip = g1.one_ip /\ h.newclause = g1.newclause
  BY <1>4 DEF Reset, Frame
<1>6a. ~Unquoted("{")
  BY DEF Unquoted, Blanks
<1>6b. Ahead(g1) /\ Marked(g1, FALSE, FALSE)
  BY <1>2, <1>6a, ReadFields DEF Ahead, Scoped, Marked
<1>7. IsIp(<<w>>) <=> w \in Addresses
  BY DEF IsIp
<1>8. CASE w \in Addresses
  <2> DEFINE g == [h EXCEPT !.one_ip = FALSE, !.argument = "second_ip", !.range_p = n]
  <2>1. /\ slot' = [slot EXCEPT !.first = IpOf(g1.word)] /\ stack' = Put(g)
        /\ UNCHANGED <<config, ranges, RANGES, nets, phase>>
    BY <1>3, <1>4, <1>7, <1>8 DEF FirstIp
  <2>2. IpOf(g1.word) = w
    BY <1>4, <1>7, <1>8 DEF IpOf
  <2>3. slot'.first = w
    <3>1. slot \in RangeEntry
      BY DEF ParserInv, TypeOK
    <3> QED
      BY <2>1, <2>2, <3>1 DEF RangeEntry
  <2> HIDE DEF h, n
  <2>4. /\ g.file = h.file /\ g.pos = h.pos /\ g.braces = h.braces /\ g.braces_shared = h.braces_shared
        /\ g.shared_p = h.shared_p /\ g.comment = h.comment /\ g.quote = h.quote
        /\ g.argument = "second_ip" /\ g.one_ip = FALSE /\ g.newclause = h.newclause /\ g.word = << >>
        /\ g.range_p = n
    BY <1>5 DEF Frame
  <2> HIDE DEF g
  <2>5. Ahead(g) /\ Marked(g, FALSE, FALSE)
    BY <1>6, <1>6b, <2>4 DEF Ahead, Scoped, Marked
  <2>6. Awaits(g, "second_ip", FALSE, << >>)
    BY <1>4, <1>6, <2>4 DEF Awaits, Flags
  <2> QED
    BY <1>8, <2>1, <2>3, <2>4, <2>5, <2>6 DEF n
<1>9. CASE w \notin Addresses
  <2> DEFINE g == [h EXCEPT !.range_p = n]
  <2>1. /\ slot' = slot /\ stack' = Put(g)
        /\ UNCHANGED <<config, ranges, RANGES, nets, phase>>
    BY <1>3, <1>4, <1>7, <1>9 DEF FirstIp
  <2> HIDE DEF h, n
  <2>4. /\ g.file = h.file /\ g.pos = h.pos /\ g.braces = h.braces /\ g.braces_shared = h.braces_shared
        /\ g.shared_p = h.shared_p /\ g.comment = h.comment /\ g.quote = h.quote
        /\ g.argument = h.argument /\ g.one_ip = h.one_ip /\ g.newclause = h.newclause /\ g.word = << >>
    BY <1>5 DEF Frame
  <2> HIDE DEF g
  <2>5. Ahead(g) /\ Marked(g, FALSE, FALSE)
    BY <1>6, <1>6b, <2>4 DEF Ahead, Scoped, Marked
  <2>6. Awaits(g, "first_ip", TRUE, << >>)
    BY <1>4, <1>6, <2>4 DEF Awaits, Flags
  <2> QED
    BY <1>9, <2>1, <2>5, <2>6
<1> QED
  BY <1>8, <1>9

(* The semicolon of `range A;' leaves A in the buffer. *)
LEMMA EndFirstTurn ==
  ASSUME ParserInv, Character, Unquoted(";"), ~f.comment, NEW w, Awaits(f, "first_ip", TRUE, w)
  PROVE  \E g : Moved(g) /\ Ahead(g) /\ Marked(g, FALSE, f.quote) /\ Awaits(g, "second_ip", TRUE, w)
<1>1. f.newclause = FALSE /\ f.argument = "first_ip" /\ f.one_ip = TRUE /\ f.word = w
  BY ReadFields DEF Awaits, Flags
<1>2. EndFirst
  BY <1>1, Guards DEF Unquoted, Ordinary, AtKeyword, AtArgument, WordEnd, EndsSecond, Awaiting
<1>3. g0 \in Frame /\ f.comment = FALSE
  BY ReadFields
<1> DEFINE g == [g0 EXCEPT !.argument = "second_ip"]
<1>4. Moved(g)
  BY <1>2 DEF EndFirst, Moved
<1>5. /\ g.file = g0.file /\ g.pos = g0.pos /\ g.braces = g0.braces /\ g.braces_shared = g0.braces_shared
      /\ g.shared_p = g0.shared_p /\ g.comment = g0.comment /\ g.quote = g0.quote
      /\ Flags(g, g0.newclause, "second_ip", g0.one_ip, g0.word)
  BY <1>3 DEF Frame, Flags
<1> HIDE DEF g
<1>6. Ahead(g) /\ Marked(g, FALSE, f.quote)
  BY <1>3, <1>5, ReadPos DEF Ahead, Scoped, Marked
<1>7. Awaits(g, "second_ip", TRUE, w)
  BY <1>1, <1>5, ReadPos DEF Awaits, Flags
<1> QED
  BY <1>4, <1>6, <1>7

\* A range is added, with the addresses a and b in order, in the call's network.
Entry(a, b) ==
  \E r \in RangeEntry :
    /\ ranges' = Append(ranges, r)
    /\ {r.first, r.last} = {a, b} /\ Ordered(r) /\ r.net = f.shared_p

(* The slot becomes that range. *)
LEMMA EntryTurn ==
  ASSUME ParserInv, NEW a \in Addresses, NEW b \in Addresses, NEW r \in RangeEntry,
         {r.first, r.last} = {a, b}, Ordered(r),
         NEW h \in Frame, newrange(Written(SlotPointer, r), SlotPointer, h), phase' = phase
  PROVE  /\ Entry(a, b) /\ UNCHANGED <<config, nets, phase>>
         /\ \E g : /\ stack' = Put(g)
                   /\ g.file = h.file /\ g.pos = h.pos /\ g.braces = h.braces
                   /\ g.braces_shared = h.braces_shared /\ g.shared_p = h.shared_p
                   /\ g.comment = h.comment /\ g.quote = h.quote
                   /\ Flags(g, TRUE, h.argument, h.one_ip, h.word)
<1> DEFINE q == [r EXCEPT !.net = f.shared_p]
           s == Append(ranges, slot)
           k == num_ranges + 1
           n == IF Full(num_ranges + 1) THEN [array |-> 2 * RANGES, at |-> num_ranges + 2] ELSE SlotPointer
           g == [h EXCEPT !.newclause = TRUE, !.range_p = n]
<1>1. /\ ranges' = [s EXCEPT ![k] = q] /\ stack' = Put(g) /\ UNCHANGED <<config, nets, phase>>
  BY Pointers DEF newrange, Written
<1>2. f.shared_p \in NetNumbers
  BY ReadFields DEF Frame
<1>3. q \in RangeEntry /\ q.first = r.first /\ q.last = r.last /\ q.net = f.shared_p
  BY <1>2 DEF RangeEntry
<1>4. ranges \in Seq(RangeEntry) /\ slot \in RangeEntry
  BY DEF ParserInv, TypeOK
<1> HIDE DEF q
<1>5. [s EXCEPT ![k] = q] = Append(ranges, q)
  <2>1. Len(ranges) \in Nat /\ k = Len(ranges) + 1
    BY <1>4 DEF num_ranges
  <2>2. s \in Seq(RangeEntry) /\ Len(s) = k /\ Append(ranges, q) \in Seq(RangeEntry)
        /\ Len(Append(ranges, q)) = k
    BY <1>3, <1>4, <2>1
  <2>3. \A x \in 1..k : s[x] = IF x <= Len(ranges) THEN ranges[x] ELSE slot
    BY <1>4, <2>1
  <2>4. \A x \in 1..k : Append(ranges, q)[x] = IF x <= Len(ranges) THEN ranges[x] ELSE q
    BY <1>3, <1>4, <2>1
  <2> DEFINE u == [s EXCEPT ![k] = q]
             v == Append(ranges, q)
  <2> HIDE DEF s
  <2>5. u \in Seq(RangeEntry) /\ Len(u) = k
    BY <1>3, <2>1, <2>2
  <2>6. \A x \in 1..k : u[x] = IF x = k THEN q ELSE s[x]
    BY <2>1, <2>2
  <2> HIDE DEF u, v, k
  <2>7. \A x \in 1..k : u[x] = v[x]
    BY <2>1, <2>3, <2>4, <2>6 DEF v
  <2>8. v \in Seq(RangeEntry) /\ Len(v) = k
    BY <2>2 DEF v
  <2>9. u = v
    BY <2>5, <2>7, <2>8, SeqEqual
  <2> QED
    BY <2>9 DEF u, v
<1>6. Entry(a, b)
  <2>1. Ordered(q)
    BY <1>3 DEF Ordered
  <2>2. {q.first, q.last} = {a, b}
    BY <1>3
  <2>3. ranges' = Append(ranges, q)
    BY <1>1, <1>5, Zenon
  <2> QED
    BY <1>3, <2>1, <2>2, <2>3 DEF Entry
<1> HIDE DEF n
<1>7. /\ g.file = h.file /\ g.pos = h.pos /\ g.braces = h.braces
      /\ g.braces_shared = h.braces_shared /\ g.shared_p = h.shared_p
      /\ g.comment = h.comment /\ g.quote = h.quote
      /\ Flags(g, TRUE, h.argument, h.one_ip, h.word)
  BY DEF Frame, Flags
<1> HIDE DEF g
<1> QED
  BY <1>1, <1>6, <1>7

(* The range in order is the statement's. *)
LEMMA SameRange ==
  ASSUME NEW a \in Addresses, NEW b \in Addresses, NEW r \in RangeEntry,
         NEW q \in [first : Addresses, last : Addresses, net : Nat],
         {r.first, r.last} = {a, b}, Ordered(r),
         {q.first, q.last} = {a, b}, IpNumber(q.first) <= IpNumber(q.last), q.net = r.net
  PROVE  r = q
<1>1. \A x \in Addresses : IpNumber(x) \in Int /\ IPs[IpNumber(x)] = x
  <2> SUFFICES ASSUME NEW x \in Addresses PROVE IpNumber(x) \in Int /\ IPs[IpNumber(x)] = x
    OBVIOUS
  <2>1. \E y \in DOMAIN IPs : IPs[y] = x
    BY DEF Addresses
  <2>2. IpNumber(x) \in DOMAIN IPs /\ IPs[IpNumber(x)] = x
    BY <2>1 DEF IpNumber
  <2> QED
    BY <2>2, ConfigAssumption DEF ConfigAssumption
<1>2. r.first \in {a, b} /\ r.last \in {a, b} /\ q.first \in {a, b} /\ q.last \in {a, b}
      /\ a \in {r.first, r.last} /\ b \in {r.first, r.last}
      /\ a \in {q.first, q.last} /\ b \in {q.first, q.last}
  OBVIOUS
<1>3. IpNumber(r.first) <= IpNumber(r.last)
  BY <1>2 DEF Ordered
<1>4. IpNumber(a) = IpNumber(b) => a = b
  BY <1>1
<1>4a. IpNumber(a) \in Int /\ IpNumber(b) \in Int
  BY <1>1
<1>5. r.first = q.first /\ r.last = q.last
  BY <1>2, <1>3, <1>4, <1>4a
<1>6. r = [first |-> r.first, last |-> r.last, net |-> r.net]
  BY DEF RangeEntry
<1>7. q = [first |-> q.first, last |-> q.last, net |-> q.net]
  OBVIOUS
<1> QED
  BY <1>5, <1>6, <1>7

(* One more range of a sequence is a longer prefix of it. *)
LEMMA PrefixGrows ==
  ASSUME NEW S, NEW T, NEW p \in Seq(S), NEW q \in Seq(T), IsPrefix(p, q), Len(p) < Len(q),
         NEW r \in S, r = q[Len(p) + 1]
  PROVE  IsPrefix(Append(p, r), q)
<1> DEFINE u == Append(p, r)
           n == Len(p) + 1
<1>1. Len(p) \in Nat /\ Len(q) \in Nat /\ n \in Nat /\ n <= Len(q) /\ u \in Seq(S) /\ Len(u) = n
  OBVIOUS
<1>2. SubSeq(p, 1, Len(p)) = SubSeq(q, 1, Len(p))
  BY DEF IsPrefix
<1>3. \A x \in 1..Len(p) : SubSeq(p, 1, Len(p))[x] = p[x] /\ SubSeq(q, 1, Len(p))[x] = q[x]
  BY <1>1
<1>4. \A x \in 1..Len(p) : p[x] = q[x]
  BY <1>2, <1>3
<1>5. \A x \in 1..n : u[x] = q[x]
  <2> SUFFICES ASSUME NEW x \in 1..n PROVE u[x] = q[x]
    OBVIOUS
  <2>1. CASE x \in 1..Len(p)
    BY <1>1, <1>4, <2>1
  <2>2. CASE x = n
    BY <1>1, <2>2
  <2> QED
    BY <1>1, <2>1, <2>2
<1> HIDE DEF u
<1>6. SubSeq(u, 1, n) \in Seq(S) /\ Len(SubSeq(u, 1, n)) = n /\ \A x \in 1..n : SubSeq(u, 1, n)[x] = u[x]
  BY <1>1
<1>7. SubSeq(q, 1, n) \in Seq(T) /\ Len(SubSeq(q, 1, n)) = n /\ \A x \in 1..n : SubSeq(q, 1, n)[x] = q[x]
  BY <1>1
<1> DEFINE v == SubSeq(u, 1, n)
           w == SubSeq(q, 1, n)
<1>8. v = w
  <2>1. Len(v) = n /\ Len(w) = n /\ \A x \in 1..n : v[x] = w[x]
    BY <1>5, <1>6, <1>7
  <2>2. v \in Seq(S \cup T) /\ w \in Seq(S \cup T)
    <3>1. v \in Seq(S) /\ w \in Seq(T)
      BY <1>6, <1>7
    <3> HIDE DEF v, w
    <3> QED
      BY <3>1
  <2> HIDE DEF v, w, n
  <2> QED
    BY <2>1, <2>2, SeqEqual
<1> QED
  BY <1>1, <1>8 DEF IsPrefix, u

(* The word behind the first address is the second one; a semicolon may end it. *)
LEMMA SecondTurn ==
  ASSUME ParserInv, Character, Marked(f, FALSE, FALSE), c \in Blanks \/ c = ";",
         NEW one \in BOOLEAN, NEW a \in Addresses, NEW b \in Addresses,
         Awaits(f, "second_ip", one, <<b>>), IF one THEN a = b ELSE slot.first = a
  PROVE  /\ Entry(a, b) /\ UNCHANGED <<config, nets, phase>>
         /\ \E g : /\ stack' = Put(g) /\ Ahead(g) /\ Marked(g, FALSE, FALSE)
                   /\ Flags(g, TRUE, "nothing", FALSE, << >>)
<1>1. f.newclause = FALSE /\ f.argument = "second_ip" /\ f.one_ip = one /\ f.word = <<b>>
  BY ReadFields DEF Awaits, Flags
<1>2. f.comment = FALSE /\ f.quote = FALSE
  BY DEF Marked
<1>2a. InWord /\ f.word # << >>
  <2>1. f.word # << >>
    BY <1>1, ShortWords, Zenon
  <2>2. f.argument # "nothing" /\ ~f.comment
    BY <1>1, <1>2
  <2> QED
    BY <2>1, <2>2 DEF InWord
<1>3. ~Unquoted("{") /\ g1.comment = FALSE
  <2>1. ~Unquoted("{")
    BY DEF Unquoted, Blanks
  <2> QED
    BY <1>2, <2>1, ReadFields
<1>4. SecondIp
  <2>1. CASE c \in Blanks
    BY <1>1, <1>2, <1>2a, <2>1, EndOfWord
  <2>2. CASE c = ";"
    <3>1. EndsSecond /\ char = " "
      BY <1>1, <1>2, <1>2a, <2>2 DEF EndsSecond, Unquoted, char
    <3>2. ~Skipped(g1) /\ ~Stripped(g1) /\ ~Joined(g1)
      BY <1>1, <1>2, <1>2a, <1>3, <3>1, ReadFields DEF Skipped, Stripped, Joined, Blanks
    <3>3. ~g1.newclause /\ g1.argument = "second_ip"
      BY <1>1, ReadFields
    <3> QED
      BY <1>1, <1>2, <1>2a, <2>2, <3>2, <3>3, Guards DEF Unquoted, AtKeyword, AtArgument, Awaiting
  <2> QED
    BY <2>1, <2>2
<1>5. g1 \in Frame /\ g1.word = <<b>> /\ g1.argument = "second_ip" /\ g1.one_ip = one /\ g1.newclause = FALSE
  BY <1>1, ReadFields
<1> DEFINE e == IF g1.one_ip THEN IpOf(g1.word) ELSE slot.first
           p == [slot EXCEPT !.first = e, !.last = IpOf(g1.word)]
           k == Reset(g1)
           h == [k EXCEPT !.argument = "nothing", !.one_ip = FALSE]
<1>6. PICK r \in reorder_last_first(p) : newrange(Written(SlotPointer, r), SlotPointer, h)
  BY <1>4 DEF SecondIp
<1>6a. phase' = phase
  BY <1>4 DEF SecondIp
<1>7. IpOf(g1.word) = b
  <2>1. Len(<<b>>) = 1 /\ <<b>>[1] = b
    BY ShortWords, Zenon
  <2>2. Len(g1.word) = 1 /\ g1.word[1] = b
    BY <1>5, <2>1, Zenon
  <2> QED
    BY <2>2 DEF IpOf, IsIp
<1>8. e = a
  BY <1>5, <1>7
<1>9. slot \in RangeEntry
  BY DEF ParserInv, TypeOK
<1> HIDE DEF e
<1>10. p \in RangeEntry /\ p.first = a /\ p.last = b
  BY <1>7, <1>8, <1>9 DEF RangeEntry, Ip
<1> HIDE DEF p
<1>11. r \in RangeEntry /\ Ordered(r)
  BY <1>6, <1>10, RangeTypes, Reordered
<1>12. {r.first, r.last} = {a, b}
  <2>1. r \in {p, Flip(p)}
    BY <1>6 DEF reorder_last_first
  <2>2. Flip(p).first = b /\ Flip(p).last = a
    BY <1>10 DEF Flip, RangeEntry
  <2> QED
    BY <1>10, <2>1, <2>2
<1>13. k \in Frame /\ k.word = << >>
  BY <1>5, ResetFits DEF Fitting
<1>14. /\ k.file = g1.file /\ k.pos = g1.pos /\ k.braces = g1.braces /\ k.braces_shared = g1.braces_shared
       /\ k.shared_p = g1.shared_p /\ k.comment = g1.comment /\ k.quote = g1.quote
  BY <1>5 DEF Reset, Frame
<1> HIDE DEF k
<1>15. /\ h \in Frame
       /\ h.file = k.file /\ h.pos = k.pos /\ h.braces = k.braces /\ h.braces_shared = k.braces_shared
       /\ h.shared_p = k.shared_p /\ h.comment = k.comment /\ h.quote = k.quote
       /\ h.argument = "nothing" /\ h.one_ip = FALSE /\ h.word = << >>
  BY <1>13 DEF Frame, Arguments
<1> HIDE DEF h
<1>16. /\ Entry(a, b) /\ UNCHANGED <<config, nets, phase>>
       /\ \E g : /\ stack' = Put(g)
                 /\ g.file = h.file /\ g.pos = h.pos /\ g.braces = h.braces
                 /\ g.braces_shared = h.braces_shared /\ g.shared_p = h.shared_p
                 /\ g.comment = h.comment /\ g.quote = h.quote
                 /\ Flags(g, TRUE, h.argument, h.one_ip, h.word)
  BY <1>6, <1>6a, <1>11, <1>12, <1>15, EntryTurn
<1>17. PICK g : /\ stack' = Put(g)
                /\ g.file = h.file /\ g.pos = h.pos /\ g.braces = h.braces
                /\ g.braces_shared = h.braces_shared /\ g.shared_p = h.shared_p
                /\ g.comment = h.comment /\ g.quote = h.quote
                /\ Flags(g, TRUE, h.argument, h.one_ip, h.word)
  BY <1>16
<1>18. Ahead(g) /\ Marked(g, FALSE, FALSE)
  BY <1>2, <1>3, <1>14, <1>15, <1>17, ReadFields DEF Ahead, Scoped, Marked
<1>19. Flags(g, TRUE, "nothing", FALSE, << >>)
  BY <1>15, <1>17
<1> QED
  BY <1>16, <1>17, <1>18, <1>19

\* The call g has put the address a into the slot.
Halfway(g, a) ==
  Awaits(g, "second_ip", FALSE, << >>) /\ g.range_p = SlotPointer /\ slot.first = a

(* The slot is the range behind the last one. *)
LEMMA NextSlot ==
  ASSUME ParserInv, NEW a, Halfway(f, a)
  PROVE  /\ f.range_p # NullPointer /\ ~Stale(f.range_p)
         /\ Append(ranges, slot)[f.range_p.at] = slot /\ slot \in RangeEntry
<1>1. ranges \in Seq(RangeEntry) /\ slot \in RangeEntry /\ num_ranges = Len(ranges) /\ num_ranges \in Nat
  BY DEF ParserInv, TypeOK, num_ranges
<1>2. f.range_p = SlotPointer
  BY DEF Halfway
<1>3. Append(ranges, slot)[Len(ranges) + 1] = slot
  BY <1>1
<1>4. f.range_p # NullPointer /\ ~Stale(f.range_p) /\ f.range_p.at = Len(ranges) + 1
  BY <1>1, <1>2, Pointers DEF Stale
<1> QED
  BY <1>1, <1>3, <1>4

(* A range from an address to itself is in order. *)
LEMMA SelfOrdered ==
  ASSUME NEW a \in Addresses
  PROVE  IpNumber(a) <= IpNumber(a)
<1>1. \E y \in DOMAIN IPs : IPs[y] = a
  BY DEF Addresses
<1>2. IpNumber(a) \in DOMAIN IPs
  BY <1>1 DEF IpNumber
<1> QED
  BY <1>2, ConfigAssumption DEF ConfigAssumption

(* The semicolon of `range A ;' adds the range from A to A. *)
LEMMA CloseRangeTurn ==
  ASSUME ParserInv, Character, Marked(f, FALSE, FALSE), Unquoted(";"), NEW a \in Addresses,
         Halfway(f, a)
  PROVE  /\ Entry(a, a) /\ UNCHANGED <<config, nets, phase>>
         /\ \E g : /\ stack' = Put(g) /\ Ahead(g) /\ Marked(g, FALSE, FALSE)
                   /\ Flags(g, TRUE, "second_ip", FALSE, << >>)
<1>1. f.newclause = FALSE /\ f.argument = "second_ip" /\ f.one_ip = FALSE /\ f.word = << >>
  BY ReadFields DEF Halfway, Awaits, Flags
<1>2. f.comment = FALSE /\ f.quote = FALSE
  BY DEF Marked
<1>4. f.range_p # NullPointer /\ ~Stale(f.range_p)
  BY NextSlot
<1>5. CloseRange
  <2>1. CloseRange \/ NoRange
    BY <1>1, <1>2, Guards DEF Unquoted, Ordinary, AtKeyword, AtArgument, WordEnd, EndsSecond, Awaiting
  <2> QED
    BY <1>4, <2>1 DEF NoRange
<1> DEFINE p == Append(ranges, slot)[f.range_p.at]
           r == [p EXCEPT !.last = p.first]
<1>6. newrange(Written(f.range_p, r), f.range_p, g0) /\ phase' = phase
  BY <1>4, <1>5 DEF CloseRange
<1>7. p = slot /\ slot \in RangeEntry
  BY NextSlot
<1>8. r \in RangeEntry /\ r.first = a /\ r.last = a
  BY <1>7 DEF RangeEntry, Halfway
<1> HIDE DEF r
<1>9. {r.first, r.last} = {a, a}
  BY <1>8
<1>10. Ordered(r)
  <2>1. IpNumber(a) <= IpNumber(a)
    BY SelfOrdered
  <2> QED
    BY <1>8, <2>1, Zenon DEF Ordered
<1>11. newrange(Written(SlotPointer, r), SlotPointer, g0) /\ g0 \in Frame
  BY <1>6, ReadFields DEF Halfway
<1>12. /\ Entry(a, a) /\ UNCHANGED <<config, nets, phase>>
       /\ \E g : /\ stack' = Put(g)
                 /\ g.file = g0.file /\ g.pos = g0.pos /\ g.braces = g0.braces
                 /\ g.braces_shared = g0.braces_shared /\ g.shared_p = g0.shared_p
                 /\ g.comment = g0.comment /\ g.quote = g0.quote
                 /\ Flags(g, TRUE, g0.argument, g0.one_ip, g0.word)
  BY <1>6, <1>8, <1>9, <1>10, <1>11, EntryTurn
<1>13. PICK g : /\ stack' = Put(g)
                /\ g.file = g0.file /\ g.pos = g0.pos /\ g.braces = g0.braces
                /\ g.braces_shared = g0.braces_shared /\ g.shared_p = g0.shared_p
                /\ g.comment = g0.comment /\ g.quote = g0.quote
                /\ Flags(g, TRUE, g0.argument, g0.one_ip, g0.word)
  BY <1>12
<1>14. Ahead(g) /\ Marked(g, FALSE, FALSE)
  BY <1>2, <1>13, ReadPos DEF Ahead, Scoped, Marked
<1>15. Flags(g, TRUE, "second_ip", FALSE, << >>)
  BY <1>1, <1>13, ReadPos
<1> QED
  BY <1>12, <1>13, <1>14, <1>15

(* The end of a range statement. *)
LEMMA ArriveRange ==
  ASSUME NEW s, NEW t, NEW o, Here(s, t, o), NEW g, stack' = Put(g), Ahead(g),
         UNCHANGED <<config, nets>>, NEW a \in Addresses, NEW b \in Addresses,
         Declared(config, s, a, b), Entry(a, b), f.shared_p = s.env.net,
         o + 1 = Len(s.text), Between(g, t.env),
         t.env.ranges = s.env.ranges + 1, t.env.nets = s.env.nets, ~Named(s, o)
  PROVE  Goes(s, t, o)
<1>1. f' = g /\ config' = config /\ nets' = nets /\ g.file = f.file /\ g.pos = f.pos + 1
  BY PutIs DEF Here, Ahead
<1>2. ParserInv /\ Known(s, o) /\ Declarations
  BY DEF Here
<1>3. ranges \in Seq(RangeEntry) /\ num_ranges = Len(ranges) /\ num_ranges \in Nat
  BY <1>2 DEF ParserInv, TypeOK, num_ranges
<1>4. PICK r \in RangeEntry :
        /\ ranges' = Append(ranges, r)
        /\ {r.first, r.last} = {a, b} /\ Ordered(r) /\ r.net = f.shared_p
  BY DEF Entry
<1>5. IsPrefix(ranges, config.ranges) /\ num_ranges = s.env.ranges
  BY <1>2 DEF Known
<1> DEFINE q == config.ranges[num_ranges + 1]
           D == [first : Addresses, last : Addresses, net : Nat]
<1>6. config.ranges \in Seq(D)
  BY <1>2 DEF Declarations
<1>6a. s.env.net \in Nat
  BY HereFacts DEF Env
<1>7. /\ num_ranges < Len(config.ranges)
      /\ {q.first, q.last} = {a, b} /\ IpNumber(q.first) <= IpNumber(q.last) /\ q.net = s.env.net
  BY <1>5 DEF Declared
<1>8. q \in D
  <2>1. num_ranges < Len(config.ranges)
    BY <1>7
  <2> HIDE DEF D
  <2> QED
    BY <1>3, <1>6, <2>1
<1> HIDE DEF q
<1>9. r = q
  <2>1. q.net = r.net
    BY <1>4, <1>7
  <2> QED
    BY <1>4, <1>7, <1>8, <2>1, SameRange, Zenon
<1>10. IsPrefix(ranges', config.ranges)
  <2> HIDE DEF D
  <2>1. r = config.ranges[Len(ranges) + 1]
    BY <1>3, <1>9 DEF q
  <2>2. Len(ranges) < Len(config.ranges)
    BY <1>3, <1>7
  <2>3. IsPrefix(Append(ranges, r), config.ranges)
    BY <1>3, <1>5, <1>6, <2>1, <2>2, PrefixGrows
  <2> QED
    BY <1>4, <2>3
<1>11. num_ranges' = num_ranges + 1
  BY <1>3, <1>4 DEF num_ranges
<1>12. num_shared_networks' = num_shared_networks
  BY <1>1 DEF num_shared_networks
<1>13. ~Named(t, 0) /\ g.pos = t.at /\ t.at \in Nat
  BY <1>1, HereFacts DEF Here, Phrase, Named
<1>14. At(f, t, 0)'
  BY <1>1, <1>13 DEF At
<1>15. Known(t, 0)'
  BY <1>1, <1>2, <1>5, <1>10, <1>11, <1>12, <1>13 DEF Known
<1> QED
  BY <1>1, <1>14, <1>15, HereFacts DEF Goes

-----------------------------------------------------------------------------
(* A form of two parts. *)
LEMMA FormOf ==
  ASSUME NEW s, NEW S, NEW p \in Seq(S), NEW r \in Seq(S), Form(s, p \o r)
  PROVE  /\ Len(s.text) = Len(p) + Len(r)
         /\ \A x \in 1..Len(p) : s.text[x] \in p[x]
         /\ \A x \in 1..Len(r) : s.text[Len(p) + x] \in r[x]
<1>1. Len(p) \in Nat /\ Len(r) \in Nat /\ Len(p \o r) = Len(p) + Len(r)
      /\ DOMAIN (p \o r) = 1..(Len(p) + Len(r))
  OBVIOUS
<1>2. \A x \in 1..Len(p) : (p \o r)[x] = p[x] /\ x \in 1..(Len(p) + Len(r))
  BY <1>1
<1>3. \A x \in 1..Len(r) : (p \o r)[Len(p) + x] = r[x] /\ Len(p) + x \in 1..(Len(p) + Len(r))
  BY <1>1
<1> QED
  BY <1>1, <1>2, <1>3 DEF Form

(* A range statement up to its first address, and the rest of it. *)
LEMMA RangeText ==
  ASSUME NEW s, NEW S, NEW rest \in Seq(SUBSET S), Word \cup Blanks \cup Addresses \subseteq S, RangeOf(s, rest)
  PROVE  /\ s.env.mode # "rest"
         /\ s.text[1] = "range" /\ s.text[2] \in Blanks
         /\ s.text[First(s)] \in Addresses /\ s.text[First(s)] \in Word
         /\ \/ First(s) = 3 /\ s.text[3] \in Address
            \/ /\ First(s) = 5 /\ s.text[3] \in Word /\ s.text[3] \notin Addresses /\ s.text[4] \in Blanks
               /\ s.text[5] \in Address
         /\ Len(s.text) = First(s) + Len(rest)
         /\ \A x \in 1..Len(rest) : s.text[First(s) + x] \in rest[x]
<1> DEFINE T == SUBSET (S \cup {"range"})
           W == Word \ Addresses
           R == {"range"}
<1>1. s.env.mode # "rest"
  BY DEF RangeOf, AtClause
<1>2. rest \in Seq(T)
  OBVIOUS
<1>3. R \in T /\ Blanks \in T /\ Address \in T /\ W \in T
  BY DEF Address
<1>4. First(s) = 3 \/ First(s) = 5
  BY DEF First
<1>5. CASE First(s) = 3
  <2> DEFINE p == <<R, Blanks, Address>>
  <2>1. Form(s, p \o rest)
    BY <1>5 DEF RangeOf
  <2> HIDE DEF T, R
  <2>2. p \in Seq(T) /\ Len(p) = 3 /\ p[1] = R /\ p[2] = Blanks /\ p[3] = Address
    BY <1>3
  <2> HIDE DEF p
  <2>3. /\ Len(s.text) = Len(p) + Len(rest)
        /\ \A x \in 1..Len(p) : s.text[x] \in p[x]
        /\ \A x \in 1..Len(rest) : s.text[Len(p) + x] \in rest[x]
    BY <1>2, <2>1, <2>2, FormOf
  <2>4. s.text[1] \in R /\ s.text[2] \in Blanks /\ s.text[3] \in Address
    BY <2>2, <2>3
  <2>5. s.text[1] = "range" /\ s.text[3] \in Addresses /\ s.text[3] \in Word
    BY <2>4 DEF R, Address
  <2> QED
    BY <1>1, <1>5, <2>2, <2>3, <2>4, <2>5
<1>6. CASE First(s) = 5
  <2> DEFINE p == <<R, Blanks, W, Blanks, Address>>
  <2>1. Form(s, p \o rest)
    BY <1>6 DEF RangeOf
  <2> HIDE DEF T, R, W
  <2>2. p \in Seq(T) /\ Len(p) = 5 /\ p[1] = R /\ p[2] = Blanks /\ p[3] = W /\ p[4] = Blanks /\ p[5] = Address
    BY <1>3
  <2> HIDE DEF p
  <2>3. /\ Len(s.text) = Len(p) + Len(rest)
        /\ \A x \in 1..Len(p) : s.text[x] \in p[x]
        /\ \A x \in 1..Len(rest) : s.text[Len(p) + x] \in rest[x]
    BY <1>2, <2>1, <2>2, FormOf
  <2>4. s.text[1] \in R /\ s.text[2] \in Blanks /\ s.text[3] \in W /\ s.text[4] \in Blanks /\ s.text[5] \in Address
    BY <2>2, <2>3
  <2>5. s.text[1] = "range" /\ s.text[3] \in Word /\ s.text[3] \notin Addresses
        /\ s.text[5] \in Addresses /\ s.text[5] \in Word
    BY <2>4 DEF R, W, Address
  <2> QED
    BY <1>1, <1>6, <2>2, <2>3, <2>4, <2>5
<1> QED
  BY <1>4, <1>5, <1>6

(* Where the parser is at each position of a range statement: before the first
   address, *)
LEMMA BeforeFirst ==
  ASSUME NEW g, NEW s, NEW n, NEW free, First(s) = 3 \/ First(s) = 5
  PROVE  /\ InRange(g, s, 1, n, free) <=> HasWord(g, s)
         /\ InRange(g, s, 2, n, free) <=> Awaits(g, "first_ip", TRUE, << >>)
         /\ InRange(g, s, 3, n, free) <=> Awaits(g, "first_ip", TRUE, <<s.text[3]>>)
         /\ First(s) = 5 =>
              /\ InRange(g, s, 4, n, free) <=> Awaits(g, "first_ip", TRUE, << >>)
              /\ InRange(g, s, 5, n, free) <=> Awaits(g, "first_ip", TRUE, <<s.text[5]>>)
<1> DEFINE P == HasWord(g, s)
           Q == Awaits(g, "first_ip", TRUE, << >>)
           R == Awaits(g, "first_ip", TRUE, <<s.text[3]>>)
           T == Awaits(g, "first_ip", TRUE, <<s.text[5]>>)
           U(a) == IF s.kind = "one" THEN Awaits(g, "second_ip", TRUE, <<s.text[a]>>)
                   ELSE Awaits(g, "second_ip", FALSE, << >>)
           V(a) == Awaits(g, "second_ip", FALSE, <<s.text[a + 2]>>)
           W(a) == s.kind # "one" => free.first = s.text[a] /\ g.range_p = n
           I(o, a) == /\ o = 1 => P
                      /\ o = 2 \/ (o = 4 /\ a = 5) => Q
                      /\ o = 3 => R
                      /\ o = 5 /\ a = 5 => T
                      /\ o = a + 1 => U(a)
                      /\ o = a + 2 => V(a)
                      /\ o > a => W(a)
<1>1. \A o : InRange(g, s, o, n, free) <=> I(o, First(s))
  BY Zenon DEF InRange
<1> HIDE DEF P, Q, R, T, U, V, W
<1>2. \A a : a = 3 \/ a = 5 => (I(1, a) <=> P) /\ (I(2, a) <=> Q) /\ (I(3, a) <=> R)
  OBVIOUS
<1>3. (I(4, 5) <=> Q) /\ (I(5, 5) <=> T)
  OBVIOUS
<1> HIDE DEF I
<1>4. /\ InRange(g, s, 1, n, free) <=> P
      /\ InRange(g, s, 2, n, free) <=> Q
      /\ InRange(g, s, 3, n, free) <=> R
      /\ First(s) = 5 => (InRange(g, s, 4, n, free) <=> Q) /\ (InRange(g, s, 5, n, free) <=> T)
  BY <1>1, <1>2, <1>3, Zenon
<1> QED
  BY <1>4, Zenon DEF P, Q, R, T

\* The address x is in the free slot, which p points at.
InSlot(g, free, x, p) == free.first = x /\ g.range_p = p

(* and after it. *)
LEMMA FirstPassed ==
  ASSUME NEW g, NEW s, NEW n, NEW free, NEW a, First(s) = a, a = 3 \/ a = 5
  PROVE  /\ InRange(g, s, a + 1, n, free) <=>
              /\ IF s.kind = "one" THEN Awaits(g, "second_ip", TRUE, <<s.text[a]>>)
                 ELSE Awaits(g, "second_ip", FALSE, << >>)
              /\ s.kind # "one" => InSlot(g, free, s.text[a], n)
         /\ InRange(g, s, a + 2, n, free) <=>
              /\ Awaits(g, "second_ip", FALSE, <<s.text[a + 2]>>)
              /\ s.kind # "one" => InSlot(g, free, s.text[a], n)
<1> DEFINE P == HasWord(g, s)
           Q == Awaits(g, "first_ip", TRUE, << >>)
           R == Awaits(g, "first_ip", TRUE, <<s.text[3]>>)
           T == Awaits(g, "first_ip", TRUE, <<s.text[5]>>)
           U(x) == IF s.kind = "one" THEN Awaits(g, "second_ip", TRUE, <<s.text[x]>>)
                   ELSE Awaits(g, "second_ip", FALSE, << >>)
           V(x) == Awaits(g, "second_ip", FALSE, <<s.text[x + 2]>>)
           W(x) == s.kind # "one" => InSlot(g, free, s.text[x], n)
           I(o, x) == /\ o = 1 => P
                      /\ o = 2 \/ (o = 4 /\ x = 5) => Q
                      /\ o = 3 => R
                      /\ o = 5 /\ x = 5 => T
                      /\ o = x + 1 => U(x)
                      /\ o = x + 2 => V(x)
                      /\ o > x => W(x)
<1>1. \A o : InRange(g, s, o, n, free) <=> I(o, a)
  BY Zenon DEF InRange, InSlot
<1> HIDE DEF P, Q, R, T, U, V, W
<1>2. \A x : x = 3 \/ x = 5 => (I(x + 1, x) <=> U(x) /\ W(x)) /\ (I(x + 2, x) <=> V(x) /\ W(x))
  OBVIOUS
<1> HIDE DEF I
<1>4. /\ InRange(g, s, a + 1, n, free) <=> U(a) /\ W(a)
      /\ InRange(g, s, a + 2, n, free) <=> V(a) /\ W(a)
  BY <1>1, <1>2, Zenon
<1> QED
  BY <1>4, Zenon DEF U, V, W

(* In `range A;' the address stays in the buffer; *)
LEMMA AfterOne ==
  ASSUME NEW g, NEW s, NEW n, NEW free, NEW a, First(s) = a, a = 3 \/ a = 5, s.kind = "one"
  PROVE  InRange(g, s, a + 1, n, free) <=> Awaits(g, "second_ip", TRUE, <<s.text[a]>>)
  BY FirstPassed

(* in the others it is in the slot, *)
LEMMA AfterFirst ==
  ASSUME NEW g, NEW s, NEW n, NEW free, NEW a, First(s) = a, a = 3 \/ a = 5, s.kind # "one"
  PROVE  InRange(g, s, a + 1, n, free) <=>
           Awaits(g, "second_ip", FALSE, << >>) /\ InSlot(g, free, s.text[a], n)
  BY FirstPassed

(* when the second one is read, too. *)
LEMMA AfterSecond ==
  ASSUME NEW g, NEW s, NEW n, NEW free, NEW a, First(s) = a, a = 3 \/ a = 5, s.kind # "one"
  PROVE  InRange(g, s, a + 2, n, free) <=>
           /\ Awaits(g, "second_ip", FALSE, <<s.text[a + 2]>>)
           /\ InSlot(g, free, s.text[a], n)
  BY FirstPassed

Statement(s) == s.kind = "two" \/ s.kind = "one" \/ s.kind = "spaced"

\* A range statement begins with `range' and a first address at a.
Starts(s, a) ==
  /\ Statement(s) /\ s.env.mode # "rest" /\ First(s) = a
  /\ s.text[1] = "range" /\ s.text[2] \in Blanks
  /\ s.text[a] \in Addresses /\ s.text[a] \in Word
  /\ \/ a = 3
     \/ a = 5 /\ s.text[3] \in Word /\ s.text[3] \notin Addresses /\ s.text[4] \in Blanks

(* A letter of a word that begins. *)
LEMMA WordTurn ==
  ASSUME ParserInv, Character, Marked(f, FALSE, FALSE), c \in Word, NEW argument, argument # "nothing",
         NEW one \in BOOLEAN, Awaits(f, argument, one, << >>)
  PROVE  \E g : Moved(g) /\ Follows(g) /\ Marked(g, FALSE, FALSE) /\ Awaits(g, argument, one, <<c>>)
<1>1. f.newclause = FALSE /\ f.argument = argument /\ f.one_ip = one /\ f.word = << >>
  BY ReadFields DEF Awaits, Flags
<1>2. f.comment = FALSE /\ f.quote = FALSE
  BY DEF Marked
<1>3. c \notin Blanks /\ Plain /\ InWord
  BY <1>1, <1>2 DEF Word, Special, Blanks, Plain, InWord
<1>4. Len(f.word) + 1 < MAXLEN
  <2>1. Len(f.word) = 0
    BY <1>1
  <2> QED
    BY <2>1, MaxLen
<1>5. PICK g : /\ Moved(g) /\ Follows(g) /\ Marked(g, FALSE, f.quote)
               /\ Flags(g, f.newclause, f.argument, f.one_ip, Append(f.word, c))
  BY <1>2, <1>3, <1>4, LetterTurn
<1>6. Append(f.word, c) = <<c>>
  BY <1>1, ShortWords, Zenon
<1>7. Awaits(g, argument, one, <<c>>) /\ Marked(g, FALSE, FALSE)
  BY <1>1, <1>2, <1>5, <1>6, Zenon DEF Awaits
<1> QED
  BY <1>5, <1>7

(* The first word of a statement, and the blank behind it. *)
LEMMA FirstStep ==
  ASSUME NEW s, NEW t, NEW o, Here(s, t, o), NEW a, Starts(s, a), o = 0 \/ o = 1, o + 1 < Len(s.text)
  PROVE  Goes(s, t, o)
<1>1. /\ s.kind = "two" \/ s.kind = "one" \/ s.kind = "spaced"
      /\ s.env.mode # "rest"
      /\ s.text[1] = "range" /\ s.text[2] \in Blanks
  BY DEF Starts, Statement
<1>2. s.kind # "end" /\ s.kind # "subnet" /\ \A x : ~Named(s, x)
  BY <1>1 DEF Named
<1>2a. First(s) = 3 \/ First(s) = 5
  BY DEF Starts
<1>2b. s.env.mode # "rest"
  BY <1>1
<1>3. s.text[1] \in Word
  <2>1. s.text \in Seq(Symbol) /\ Len(s.text) > 1
    BY HereFacts DEF Here
  <2>2. s.text[1] \in Symbol
    BY <2>1
  <2> QED
    BY <1>1, <2>2 DEF Word, Special
<1>4. CASE o = 0
  <2>1. PICK g : /\ Moved(g) /\ Follows(g) /\ Marked(g, FALSE, FALSE) /\ Scoped(g, s.env)
                 /\ HasWord(g, s) /\ g.argument = f.argument
    BY <1>2b, <1>3, <1>4, FirstLetter, Zenon
  <2>2. o + 1 = 1
    BY <1>4
  <2>3. InRange(g, s, o + 1, SlotPointer, slot)
    BY <1>2a, <2>1, <2>2, BeforeFirst, Zenon
  <2>4. Inside(g, s, o + 1, SlotPointer, slot)
    BY <1>1, <2>1, <2>3, InStatement, Zenon
  <2> QED
    BY <1>2, <2>1, <2>4, Stay
<1>5. CASE o = 1
  <2>1. ParserInv /\ Character /\ Inside(f, s, 1, SlotPointer, slot)
    BY <1>2, <1>5, Amid
  <2>2. Marked(f, FALSE, FALSE) /\ Scoped(f, s.env) /\ InRange(f, s, 1, SlotPointer, slot)
    BY <1>1, <2>1, InStatement, Zenon
  <2>3. HasWord(f, s)
    BY <1>2a, <2>2, BeforeFirst, Zenon
  <2>4. c \in Blanks
    BY <1>1, <1>5, Nth
  <2>5. PICK g : /\ Moved(g) /\ Follows(g) /\ Marked(g, FALSE, FALSE)
                 /\ Flags(g, FALSE, KeywordOf(<<s.text[1]>>), KeywordOf(<<s.text[1]>>) = "first_ip", << >>)
    BY <1>3, <2>1, <2>2, <2>3, <2>4, FirstBlank
  <2>6. KeywordOf(<<s.text[1]>>) = "first_ip"
    BY <1>1, OneKeyword
  <2>7. Awaits(g, "first_ip", TRUE, << >>)
    BY <2>5, <2>6 DEF Awaits, Flags
  <2>8. o + 1 = 2
    BY <1>5
  <2>9. InRange(g, s, o + 1, SlotPointer, slot)
    BY <1>2a, <2>7, <2>8, BeforeFirst, Zenon
  <2>10. Scoped(g, s.env)
    BY <2>2, <2>5 DEF Scoped, Follows
  <2>11. Inside(g, s, o + 1, SlotPointer, slot)
    BY <1>1, <2>5, <2>9, <2>10, InStatement, Zenon
  <2> QED
    BY <1>2, <2>5, <2>11, Stay
<1> QED
  BY <1>4, <1>5

(* A word behind `range'. *)
LEMMA LetterStep ==
  ASSUME NEW s, NEW t, NEW o, Here(s, t, o), NEW a, Starts(s, a), o = 2 \/ (o = 4 /\ a = 5), o + 1 < Len(s.text)
  PROVE  Goes(s, t, o)
<1>1. s.kind = "two" \/ s.kind = "one" \/ s.kind = "spaced"
  BY DEF Starts, Statement
<1>2. s.kind # "end" /\ s.kind # "subnet" /\ \A x : ~Named(s, x)
  BY <1>1 DEF Named
<1>3. First(s) = a /\ (First(s) = 3 \/ First(s) = 5)
  BY DEF Starts
<1>3a. o # 0
  OBVIOUS
<1>4. ParserInv /\ Character /\ Inside(f, s, o, SlotPointer, slot)
  BY <1>2, <1>3a, Amid
<1>5. Marked(f, FALSE, FALSE) /\ Scoped(f, s.env) /\ InRange(f, s, o, SlotPointer, slot)
  BY <1>1, <1>4, InStatement, Zenon
<1>6. Awaits(f, "first_ip", TRUE, << >>)
  BY <1>3, <1>5, BeforeFirst, Zenon
<1>7. c \in Word
  <2>1. s.text[3] \in Word /\ (a = 5 => s.text[5] \in Word)
    BY DEF Starts
  <2>2. (o = 2 => c = s.text[3]) /\ (o = 4 => c = s.text[5])
    BY Nth
  <2> QED
    BY <2>1, <2>2, Zenon
<1>8. PICK g : Moved(g) /\ Follows(g) /\ Marked(g, FALSE, FALSE) /\ Awaits(g, "first_ip", TRUE, <<c>>)
  BY <1>4, <1>5, <1>6, <1>7, WordTurn
<1>9. InRange(g, s, o + 1, SlotPointer, slot)
  <2>1. CASE o = 2
    <3>1. c = s.text[3] /\ o + 1 = 3
      BY <2>1, Nth
    <3> QED
      BY <1>3, <1>8, <3>1, BeforeFirst, Zenon
  <2>2. CASE o = 4 /\ a = 5
    <3>1. c = s.text[5] /\ o + 1 = 5
      BY <2>2, Nth
    <3> QED
      BY <1>3, <1>8, <2>2, <3>1, BeforeFirst, Zenon
  <2> QED
    BY <2>1, <2>2
<1>10. Scoped(g, s.env)
  BY <1>5, <1>8 DEF Scoped, Follows
<1>11. Inside(g, s, o + 1, SlotPointer, slot)
  BY <1>1, <1>8, <1>9, <1>10, InStatement, Zenon
<1> QED
  BY <1>2, <1>8, <1>11, Stay

(* A word that is no address, such as `dynamic-bootp', is passed over. *)
LEMMA OverStep ==
  ASSUME NEW s, NEW t, NEW o, Here(s, t, o), NEW a, Starts(s, a), o = 3, a = 5, o + 1 < Len(s.text)
  PROVE  Goes(s, t, o)
<1>1. s.kind = "two" \/ s.kind = "one" \/ s.kind = "spaced"
  BY DEF Starts, Statement
<1>2. s.kind # "end" /\ s.kind # "subnet" /\ \A x : ~Named(s, x)
  BY <1>1 DEF Named
<1>3. First(s) = 5 /\ (First(s) = 3 \/ First(s) = 5)
  BY DEF Starts
<1>4. ParserInv /\ Character /\ Inside(f, s, 3, SlotPointer, slot)
  BY <1>2, Amid
<1>5. Marked(f, FALSE, FALSE) /\ Scoped(f, s.env) /\ InRange(f, s, 3, SlotPointer, slot)
  BY <1>1, <1>4, InStatement, Zenon
<1>6. Awaits(f, "first_ip", TRUE, <<s.text[3]>>)
  BY <1>3, <1>5, BeforeFirst, Zenon
<1>7. s.text[3] \notin Addresses /\ s.text[4] \in Blanks
  BY DEF Starts
<1>8. c \in Blanks /\ o + 1 = 4
  <2>1. c = s.text[4] /\ o + 1 = 4
    BY Nth
  <2> QED
    BY <1>7, <2>1, Zenon
<1> DEFINE w == s.text[3]
<1> HIDE DEF w
<1>9. PICK g : /\ stack' = Put(g) /\ UNCHANGED <<config, ranges, RANGES, nets, phase>>
               /\ Ahead(g) /\ Marked(g, FALSE, FALSE)
               /\ IF w \in Addresses
                  THEN slot'.first = w /\ g.range_p = SlotPointer /\ Awaits(g, "second_ip", FALSE, << >>)
                  ELSE slot' = slot /\ Awaits(g, "first_ip", TRUE, << >>)
  <2>1. Awaits(f, "first_ip", TRUE, <<w>>)
    BY <1>6 DEF w
  <2> QED
    BY <1>4, <1>5, <1>8, <2>1, AddressTurn
<1>10. Awaits(g, "first_ip", TRUE, << >>)
  BY <1>7, <1>9 DEF w
<1>11. InRange(g, s, o + 1, SlotPointer, slot')
  BY <1>3, <1>8, <1>10, BeforeFirst, Zenon
<1>12. Scoped(g, s.env)
  BY <1>5, <1>9 DEF Scoped, Ahead
<1>13. Inside(g, s, o + 1, SlotPointer, slot')
  BY <1>1, <1>9, <1>11, <1>12, InStatement, Zenon
<1> QED
  BY <1>2, <1>9, <1>13, Onward DEF Ahead

(* The first address, followed by a blank. *)
LEMMA AddressStep ==
  ASSUME NEW s, NEW t, NEW o, Here(s, t, o), NEW a, Starts(s, a), s.kind # "one",
         o = a, c \in Blanks, o + 1 < Len(s.text)
  PROVE  Goes(s, t, o)
<1>1. s.kind = "two" \/ s.kind = "one" \/ s.kind = "spaced"
  BY DEF Starts, Statement
<1>2. s.kind # "end" /\ s.kind # "subnet" /\ \A x : ~Named(s, x)
  BY <1>1 DEF Named
<1>3. First(s) = a /\ (a = 3 \/ a = 5)
  BY DEF Starts
<1>3a. o # 0
  BY <1>3
<1>4. ParserInv /\ Character /\ Inside(f, s, o, SlotPointer, slot)
  BY <1>2, <1>3a, Amid
<1>5. Marked(f, FALSE, FALSE) /\ Scoped(f, s.env) /\ InRange(f, s, o, SlotPointer, slot)
  BY <1>1, <1>4, InStatement, Zenon
<1> DEFINE w == s.text[a]
<1>6. Awaits(f, "first_ip", TRUE, <<w>>)
  BY <1>3, <1>5, BeforeFirst, Zenon
<1>7. w \in Addresses
  BY DEF Starts
<1> HIDE DEF w
<1>9. PICK g : /\ stack' = Put(g) /\ UNCHANGED <<config, ranges, RANGES, nets, phase>>
               /\ Ahead(g) /\ Marked(g, FALSE, FALSE)
               /\ IF w \in Addresses
                  THEN slot'.first = w /\ g.range_p = SlotPointer /\ Awaits(g, "second_ip", FALSE, << >>)
                  ELSE slot' = slot /\ Awaits(g, "first_ip", TRUE, << >>)
  BY <1>4, <1>5, <1>6, AddressTurn
<1>10. slot'.first = w /\ g.range_p = SlotPointer /\ Awaits(g, "second_ip", FALSE, << >>)
  BY <1>7, <1>9, Zenon
<1>11. InRange(g, s, o + 1, SlotPointer, slot')
  <2>1. InSlot(g, slot', s.text[a], SlotPointer)
    BY <1>10, Zenon DEF InSlot, w
  <2> QED
    BY <1>3, <1>10, <2>1, AfterFirst, Zenon
<1>12. Scoped(g, s.env)
  BY <1>5, <1>9 DEF Scoped, Ahead
<1>13. Inside(g, s, o + 1, SlotPointer, slot')
  BY <1>1, <1>9, <1>11, <1>12, InStatement, Zenon
<1> QED
  BY <1>2, <1>9, <1>13, Onward DEF Ahead

(* A text of two or three symbols more. *)
LEMMA Rests ==
  ASSUME NEW S, NEW A, NEW B, NEW C, A \subseteq S, B \subseteq S, C \subseteq S
  PROVE  /\ <<A, B>> \in Seq(SUBSET S) /\ Len(<<A, B>>) = 2 /\ <<A, B>>[1] = A /\ <<A, B>>[2] = B
         /\ <<A, B, C>> \in Seq(SUBSET S) /\ Len(<<A, B, C>>) = 3
         /\ <<A, B, C>>[1] = A /\ <<A, B, C>>[2] = B /\ <<A, B, C>>[3] = C
  OBVIOUS

\* n symbols follow the first address at a.
Followed(s, a, n) == Len(s.text) = a + n /\ (a = 3 \/ a = 5)

(* The text of a statement, from its first address on. *)
LEMMA StatementText ==
  ASSUME NEW s, NEW S, NEW rest \in Seq(SUBSET S), Word \cup Blanks \cup Addresses \subseteq S,
         Statement(s), RangeOf(s, rest)
  PROVE  /\ Starts(s, First(s)) /\ (First(s) = 3 \/ First(s) = 5)
         /\ Len(s.text) = First(s) + Len(rest)
         /\ \A x \in 1..Len(rest) : s.text[First(s) + x] \in rest[x]
<1>1. /\ s.env.mode # "rest"
      /\ s.text[1] = "range" /\ s.text[2] \in Blanks
      /\ s.text[First(s)] \in Addresses /\ s.text[First(s)] \in Word
      /\ \/ First(s) = 3 /\ s.text[3] \in Address
         \/ /\ First(s) = 5 /\ s.text[3] \in Word /\ s.text[3] \notin Addresses /\ s.text[4] \in Blanks
            /\ s.text[5] \in Address
      /\ Len(s.text) = First(s) + Len(rest)
      /\ \A x \in 1..Len(rest) : s.text[First(s) + x] \in rest[x]
  BY RangeText, Zenon
<1>2. Starts(s, First(s))
  BY <1>1, Zenon DEF Starts
<1> QED
  BY <1>1, <1>2, Zenon

(* Two symbols behind the first address, *)
LEMMA ShortText ==
  ASSUME NEW s, NEW D, NEW E, Statement(s), RangeOf(s, <<D, E>>)
  PROVE  \E a : Starts(s, a) /\ Followed(s, a, 2) /\ s.text[a + 1] \in D /\ s.text[a + 2] \in E
<1> DEFINE S == Word \cup Blanks \cup Addresses \cup D \cup E
           a == First(s)
           p == <<D, E>>
<1>1. p \in Seq(SUBSET S) /\ Len(p) = 2 /\ p[1] = D /\ p[2] = E
  BY Rests
<1>2. Word \cup Blanks \cup Addresses \subseteq S /\ RangeOf(s, p)
  OBVIOUS
<1> HIDE DEF S, p
<1>3. /\ Starts(s, a) /\ (a = 3 \/ a = 5)
      /\ Len(s.text) = a + Len(p)
      /\ \A x \in 1..Len(p) : s.text[a + x] \in p[x]
  BY <1>1, <1>2, StatementText, Zenon
<1> HIDE DEF a
<1>4. Len(s.text) = a + 2 /\ \A x \in 1..2 : s.text[a + x] \in p[x]
  BY <1>1, <1>3
<1>5. s.text[a + 1] \in D /\ s.text[a + 2] \in E
  BY <1>1, <1>4
<1> QED
  BY <1>3, <1>4, <1>5, Zenon DEF Followed

(* or three. *)
LEMMA LongText ==
  ASSUME NEW s, NEW D, NEW E, NEW F, Statement(s), RangeOf(s, <<D, E, F>>)
  PROVE  \E a : /\ Starts(s, a) /\ Followed(s, a, 3)
                /\ s.text[a + 1] \in D /\ s.text[a + 2] \in E /\ s.text[a + 3] \in F
<1> DEFINE S == Word \cup Blanks \cup Addresses \cup D \cup E \cup F
           a == First(s)
           p == <<D, E, F>>
<1>1. p \in Seq(SUBSET S) /\ Len(p) = 3 /\ p[1] = D /\ p[2] = E /\ p[3] = F
  BY Rests
<1>2. Word \cup Blanks \cup Addresses \subseteq S /\ RangeOf(s, p)
  OBVIOUS
<1> HIDE DEF S, p
<1>3. /\ Starts(s, a) /\ (a = 3 \/ a = 5)
      /\ Len(s.text) = a + Len(p)
      /\ \A x \in 1..Len(p) : s.text[a + x] \in p[x]
  BY <1>1, <1>2, StatementText, Zenon
<1> HIDE DEF a
<1>4. Len(s.text) = a + 3 /\ \A x \in 1..3 : s.text[a + x] \in p[x]
  BY <1>1, <1>3
<1>5. s.text[a + 1] \in D /\ s.text[a + 2] \in E /\ s.text[a + 3] \in F
  BY <1>1, <1>4
<1> QED
  BY <1>3, <1>4, <1>5, Zenon DEF Followed

(* The positions of a statement. *)
LEMMA StatementCount ==
  ASSUME NEW s, NEW t, NEW o, Here(s, t, o), NEW a, NEW n, n = 2 \/ n = 3, Followed(s, a, n)
  PROVE  /\ \/ o = 0 \/ o = 1
            \/ o = 2 \/ (o = 4 /\ a = 5)
            \/ o = 3 /\ a = 5
            \/ o = a
            \/ o = a + 1
            \/ n = 3 /\ o = a + 2
         /\ ~(o = a + n - 1) => o + 1 < Len(s.text)
         /\ o = a + n - 1 => o + 1 = Len(s.text)
         /\ a + 1 + 1 = a + 2 /\ a + 2 + 1 = a + 3
         /\ a + 1 # 0 /\ a + 2 # 0 /\ a # 0
<1>1. o \in Nat /\ o < Len(s.text) /\ Len(s.text) = a + n /\ (a = 3 \/ a = 5)
  BY DEF Here, Followed
<1> QED
  BY <1>1

(* The steps to the first address. *)
LEMMA StartSteps ==
  ASSUME NEW s, NEW t, NEW o, Here(s, t, o), NEW a, Starts(s, a), NEW n, n = 2 \/ n = 3, Followed(s, a, n),
         o # a, o # a + 1, n = 3 => o # a + 2
  PROVE  Goes(s, t, o)
<1>1. o # a + n - 1
  OBVIOUS
<1>2. o + 1 < Len(s.text)
  BY <1>1, StatementCount
<1>3. (o = 0 \/ o = 1) \/ (o = 2 \/ (o = 4 /\ a = 5)) \/ (o = 3 /\ a = 5)
  BY StatementCount
<1> QED
  BY <1>2, <1>3, FirstStep, LetterStep, OverStep, Zenon

(* range A B; *)
LEMMA TwoStep ==
  ASSUME NEW s, NEW t, NEW o, Here(s, t, o), Two(config, s, t)
  PROVE  Goes(s, t, o)
<1> DEFINE F == Blanks \cup {";"}
<1>1. s.kind = "two" /\ Statement(s) /\ RangeOf(s, <<Blanks, Address, F>>)
  BY DEF Two, Statement
<1> HIDE DEF F
<1>2. PICK a : /\ Starts(s, a) /\ Followed(s, a, 3)
               /\ s.text[a + 1] \in Blanks /\ s.text[a + 2] \in Address /\ s.text[a + 3] \in F
  BY <1>1, LongText
<1>3. First(s) = a /\ (a = 3 \/ a = 5) /\ s.text[a] \in Addresses
  BY <1>2 DEF Starts
<1>4. s.kind # "end" /\ s.kind # "subnet" /\ s.kind # "one" /\ \A x : ~Named(s, x)
  BY <1>1 DEF Named
<1>4a. s.kind # "one"
  BY <1>1
<1>4b. \A g, free : /\ InRange(g, s, a + 1, SlotPointer, free) <=>
                         Awaits(g, "second_ip", FALSE, << >>) /\ InSlot(g, free, s.text[a], SlotPointer)
                    /\ InRange(g, s, a + 2, SlotPointer, free) <=>
                         /\ Awaits(g, "second_ip", FALSE, <<s.text[a + 2]>>)
                         /\ InSlot(g, free, s.text[a], SlotPointer)
  BY <1>3, <1>4a, AfterFirst, AfterSecond, Zenon
<1>5. c = s.text[o + 1] /\ ParserInv /\ Character /\ s.env \in Env /\ t.env \in Env
  BY HereFacts DEF Here
<1>6. a + 1 + 1 = a + 2 /\ a + 2 + 1 = a + 3 /\ a + 1 # 0 /\ a + 2 # 0 /\ a # 0
  BY <1>2, StatementCount
<1>6a. (o = a \/ o = a + 1) => o + 1 < Len(s.text)
  <2>1. a + 3 - 1 = a + 2 /\ a # a + 2 /\ a + 1 # a + 2
    BY <1>3
  <2> QED
    BY <1>2, <2>1, StatementCount
<1>6b. o = a + 2 => o + 1 = Len(s.text)
  <2>1. a + 3 - 1 = a + 2
    BY <1>3
  <2> QED
    BY <1>2, <2>1, StatementCount
<1>7. CASE o = a
  <2>1. c \in Blanks
    BY <1>2, <1>5, <1>7
  <2> QED
    BY <1>2, <1>4, <1>6a, <1>7, <2>1, AddressStep
<1>8. CASE o = a + 1
  <2>1. Inside(f, s, a + 1, SlotPointer, slot)
    BY <1>4, <1>6, <1>8, Amid, Zenon
  <2>2. Marked(f, FALSE, FALSE) /\ Scoped(f, s.env) /\ InRange(f, s, a + 1, SlotPointer, slot)
    BY <1>1, <2>1, InStatement, Zenon
  <2>3. Awaits(f, "second_ip", FALSE, << >>) /\ InSlot(f, slot, s.text[a], SlotPointer)
    BY <1>4b, <2>2, Zenon
  <2>4. c = s.text[a + 2] /\ c \in Word
    BY <1>2, <1>5, <1>6, <1>8 DEF Address
  <2>5. PICK g : Moved(g) /\ Follows(g) /\ Marked(g, FALSE, FALSE) /\ Awaits(g, "second_ip", FALSE, <<c>>)
    BY <1>5, <2>2, <2>3, <2>4, WordTurn
  <2>6. g.range_p = f.range_p /\ Scoped(g, s.env)
    BY <2>2, <2>5 DEF Follows, Scoped
  <2>6a. InSlot(g, slot, s.text[a], SlotPointer)
    BY <2>3, <2>6, Zenon DEF InSlot
  <2>7. InRange(g, s, a + 2, SlotPointer, slot)
    BY <1>4b, <2>4, <2>5, <2>6a, Zenon
  <2>8. Inside(g, s, a + 2, SlotPointer, slot)
    BY <1>1, <2>5, <2>6, <2>7, InStatement, Zenon
  <2>9. o + 1 = a + 2
    BY <1>6, <1>8
  <2> QED
    BY <1>4, <1>6a, <1>8, <2>5, <2>8, <2>9, Stay, Zenon
<1>9. CASE o = a + 2
  <2>1. Inside(f, s, a + 2, SlotPointer, slot)
    BY <1>4, <1>6, <1>9, Amid, Zenon
  <2>2. Marked(f, FALSE, FALSE) /\ Scoped(f, s.env) /\ InRange(f, s, a + 2, SlotPointer, slot)
    BY <1>1, <2>1, InStatement, Zenon
  <2>3. Awaits(f, "second_ip", FALSE, <<s.text[a + 2]>>) /\ slot.first = s.text[a]
    BY <1>4b, <2>2, Zenon DEF InSlot
  <2>4. c \in Blanks \/ c = ";"
    BY <1>2, <1>5, <1>6, <1>9 DEF F
  <2> DEFINE x == s.text[a]
             y == s.text[a + 2]
  <2>5. x \in Addresses /\ y \in Addresses
    BY <1>2, <1>3 DEF Address
  <2>6. Declared(config, s, x, y) /\ t.env = [s.env EXCEPT !.mode = "clause", !.ranges = @ + 1]
    BY <1>3 DEF Two, Added
  <2> HIDE DEF x, y
  <2>7. Awaits(f, "second_ip", FALSE, <<y>>) /\ slot.first = x
    BY <2>3 DEF x, y
  <2>8. /\ Entry(x, y) /\ UNCHANGED <<config, nets, phase>>
        /\ \E g : /\ stack' = Put(g) /\ Ahead(g) /\ Marked(g, FALSE, FALSE)
                  /\ Flags(g, TRUE, "nothing", FALSE, << >>)
    BY <1>5, <2>2, <2>4, <2>5, <2>7, SecondTurn
  <2>9. PICK g : /\ stack' = Put(g) /\ Ahead(g) /\ Marked(g, FALSE, FALSE)
                 /\ Flags(g, TRUE, "nothing", FALSE, << >>)
    BY <2>8
  <2>10. /\ t.env.mode = "clause" /\ t.env.braces = s.env.braces /\ t.env.scope = s.env.scope
         /\ t.env.net = s.env.net /\ t.env.ranges = s.env.ranges + 1 /\ t.env.nets = s.env.nets
    BY <1>5, <2>6 DEF Env
  <2>11. Scoped(g, t.env) /\ f.shared_p = s.env.net
    BY <2>2, <2>9, <2>10 DEF Scoped, Ahead
  <2>12. Between(g, t.env)
    BY <2>9, <2>10, <2>11 DEF Between, Idle, Unmarked, Marked, Flags
  <2> QED
    BY <1>4, <1>6b, <1>9, <2>5, <2>6, <2>8, <2>9, <2>10, <2>11, <2>12, ArriveRange
<1>10. CASE o # a /\ o # a + 1 /\ o # a + 2
  BY <1>2, <1>10, StartSteps
<1> QED
  BY <1>7, <1>8, <1>9, <1>10

(* range A; *)
LEMMA OneStep ==
  ASSUME NEW s, NEW t, NEW o, Here(s, t, o), One(config, s, t)
  PROVE  Goes(s, t, o)
<1>1. s.kind = "one" /\ Statement(s) /\ RangeOf(s, <<{";"}, Blanks>>)
  BY DEF One, Statement
<1>2. PICK a : /\ Starts(s, a) /\ Followed(s, a, 2) /\ s.text[a + 1] \in {";"} /\ s.text[a + 2] \in Blanks
  BY <1>1, ShortText
<1>3. First(s) = a /\ (a = 3 \/ a = 5) /\ s.text[a] \in Addresses
  BY <1>2 DEF Starts
<1>4. s.kind # "end" /\ s.kind # "subnet" /\ \A x : ~Named(s, x)
  BY <1>1 DEF Named
<1>4a. s.kind = "one"
  BY <1>1
<1>4b. \A g, free : InRange(g, s, a + 1, SlotPointer, free) <=> Awaits(g, "second_ip", TRUE, <<s.text[a]>>)
  BY <1>3, <1>4a, AfterOne, Zenon
<1>5. c = s.text[o + 1] /\ ParserInv /\ Character /\ s.env \in Env /\ t.env \in Env
  BY HereFacts DEF Here
<1>6. a + 1 + 1 = a + 2 /\ a + 1 # 0 /\ a # 0
  BY <1>2, StatementCount
<1>6a. (o = a => o + 1 < Len(s.text)) /\ (o = a + 1 => o + 1 = Len(s.text))
  <2>1. a + 2 - 1 = a + 1 /\ a # a + 1
    BY <1>3
  <2>2. Followed(s, a, 2)
    BY <1>2
  <2>3. (~(o = a + 2 - 1) => o + 1 < Len(s.text)) /\ (o = a + 2 - 1 => o + 1 = Len(s.text))
    BY <2>2, StatementCount
  <2> QED
    BY <2>1, <2>3
<1>7. CASE o = a
  <2>1. Inside(f, s, a, SlotPointer, slot)
    BY <1>4, <1>6, <1>7, Amid, Zenon
  <2>2. Marked(f, FALSE, FALSE) /\ Scoped(f, s.env) /\ InRange(f, s, a, SlotPointer, slot)
    BY <1>1, <2>1, InStatement, Zenon
  <2>3. Awaits(f, "first_ip", TRUE, <<s.text[a]>>)
    BY <1>3, <2>2, BeforeFirst, Zenon
  <2>4. c = ";"
    BY <1>2, <1>5, <1>7
  <2>5. Unquoted(";") /\ ~f.comment /\ f.quote = FALSE
    BY <2>2, <2>4 DEF Marked, Unquoted
  <2>6. PICK g : Moved(g) /\ Ahead(g) /\ Marked(g, FALSE, f.quote) /\ Awaits(g, "second_ip", TRUE, <<s.text[a]>>)
    BY <1>5, <2>3, <2>5, EndFirstTurn, Zenon
  <2>7. InRange(g, s, o + 1, SlotPointer, slot)
    BY <1>4b, <1>7, <2>6, Zenon
  <2>8. Scoped(g, s.env) /\ Marked(g, FALSE, FALSE)
    BY <2>2, <2>5, <2>6 DEF Scoped, Ahead
  <2>9. Inside(g, s, o + 1, SlotPointer, slot)
    BY <1>1, <2>7, <2>8, InStatement, Zenon
  <2>10. /\ stack' = Put(g) /\ UNCHANGED <<config, ranges, RANGES, nets>> /\ slot' = slot
         /\ g.file = f.file /\ g.pos = f.pos + 1
    BY <2>6 DEF Moved, globals, Ahead
  <2>11. o + 1 < Len(s.text)
    BY <1>6a, <1>7
  <2> QED
    BY <1>4, <2>9, <2>10, <2>11, Onward
<1>8. CASE o = a + 1
  <2>1. Inside(f, s, a + 1, SlotPointer, slot)
    BY <1>4, <1>6, <1>8, Amid, Zenon
  <2>2. Marked(f, FALSE, FALSE) /\ Scoped(f, s.env) /\ InRange(f, s, a + 1, SlotPointer, slot)
    BY <1>1, <2>1, InStatement, Zenon
  <2>3. Awaits(f, "second_ip", TRUE, <<s.text[a]>>)
    BY <1>4b, <2>2, Zenon
  <2>4. c \in Blanks
    BY <1>2, <1>5, <1>6, <1>8
  <2> DEFINE x == s.text[a]
  <2>5. x \in Addresses
    BY <1>3
  <2>6. Declared(config, s, x, x) /\ t.env = [s.env EXCEPT !.mode = "clause", !.ranges = @ + 1]
    BY <1>3 DEF One, Added
  <2> HIDE DEF x
  <2>7. Awaits(f, "second_ip", TRUE, <<x>>)
    BY <2>3 DEF x
  <2>8. /\ Entry(x, x) /\ UNCHANGED <<config, nets, phase>>
        /\ \E g : /\ stack' = Put(g) /\ Ahead(g) /\ Marked(g, FALSE, FALSE)
                  /\ Flags(g, TRUE, "nothing", FALSE, << >>)
    BY <1>5, <2>2, <2>4, <2>5, <2>7, SecondTurn
  <2>9. PICK g : /\ stack' = Put(g) /\ Ahead(g) /\ Marked(g, FALSE, FALSE)
                 /\ Flags(g, TRUE, "nothing", FALSE, << >>)
    BY <2>8
  <2>10. /\ t.env.mode = "clause" /\ t.env.braces = s.env.braces /\ t.env.scope = s.env.scope
         /\ t.env.net = s.env.net /\ t.env.ranges = s.env.ranges + 1 /\ t.env.nets = s.env.nets
    BY <1>5, <2>6 DEF Env
  <2>11. Scoped(g, t.env) /\ f.shared_p = s.env.net
    BY <2>2, <2>9, <2>10 DEF Scoped, Ahead
  <2>12. Between(g, t.env)
    BY <2>9, <2>10, <2>11 DEF Between, Idle, Unmarked, Marked, Flags
  <2>13. o + 1 = Len(s.text)
    BY <1>6a, <1>8
  <2> QED
    BY <1>4, <2>5, <2>6, <2>8, <2>9, <2>10, <2>11, <2>12, <2>13, ArriveRange
<1>9. CASE o # a /\ o # a + 1
  <2>1. Starts(s, a) /\ Followed(s, a, 2)
    BY <1>2
  <2>2. 2 # 3
    OBVIOUS
  <2> QED
    BY <1>9, <2>1, <2>2, StartSteps, Zenon
<1> QED
  BY <1>7, <1>8, <1>9

(* range A ; *)
LEMMA SpacedStep ==
  ASSUME NEW s, NEW t, NEW o, Here(s, t, o), Spaced(config, s, t)
  PROVE  Goes(s, t, o)
<1>1. s.kind = "spaced" /\ Statement(s) /\ RangeOf(s, <<Blanks, {";"}>>)
  BY DEF Spaced, Statement
<1>2. PICK a : /\ Starts(s, a) /\ Followed(s, a, 2) /\ s.text[a + 1] \in Blanks /\ s.text[a + 2] \in {";"}
  BY <1>1, ShortText
<1>3. First(s) = a /\ (a = 3 \/ a = 5) /\ s.text[a] \in Addresses
  BY <1>2 DEF Starts
<1>4. s.kind # "end" /\ s.kind # "subnet" /\ s.kind # "one" /\ \A x : ~Named(s, x)
  BY <1>1 DEF Named
<1>4a. s.kind # "one"
  BY <1>1
<1>4b. \A g, free : InRange(g, s, a + 1, SlotPointer, free) <=>
                      Awaits(g, "second_ip", FALSE, << >>) /\ InSlot(g, free, s.text[a], SlotPointer)
  BY <1>3, <1>4a, AfterFirst, Zenon
<1>5. c = s.text[o + 1] /\ ParserInv /\ Character /\ s.env \in Env /\ t.env \in Env
  BY HereFacts DEF Here
<1>6. a + 1 + 1 = a + 2 /\ a + 1 # 0 /\ a # 0
  BY <1>2, StatementCount
<1>6a. (o = a => o + 1 < Len(s.text)) /\ (o = a + 1 => o + 1 = Len(s.text))
  <2>1. a + 2 - 1 = a + 1 /\ a # a + 1
    BY <1>3
  <2>2. Followed(s, a, 2)
    BY <1>2
  <2>3. (~(o = a + 2 - 1) => o + 1 < Len(s.text)) /\ (o = a + 2 - 1 => o + 1 = Len(s.text))
    BY <2>2, StatementCount
  <2> QED
    BY <2>1, <2>3
<1>7. CASE o = a
  <2>1. c \in Blanks
    BY <1>2, <1>5, <1>7
  <2> QED
    BY <1>2, <1>4, <1>6a, <1>7, <2>1, AddressStep
<1>8. CASE o = a + 1
  <2>1. Inside(f, s, a + 1, SlotPointer, slot)
    BY <1>4, <1>6, <1>8, Amid, Zenon
  <2>2. Marked(f, FALSE, FALSE) /\ Scoped(f, s.env) /\ InRange(f, s, a + 1, SlotPointer, slot)
    BY <1>1, <2>1, InStatement, Zenon
  <2> DEFINE x == s.text[a]
  <2>3. Halfway(f, x)
    BY <1>4b, <2>2, Zenon DEF Halfway, InSlot
  <2>4. c = ";"
    BY <1>2, <1>5, <1>6, <1>8
  <2>4a. Unquoted(";")
    BY <2>2, <2>4 DEF Marked, Unquoted
  <2>5. x \in Addresses
    BY <1>3
  <2>6. Declared(config, s, x, x) /\ t.env = [s.env EXCEPT !.mode = "pending", !.ranges = @ + 1]
    BY <1>3 DEF Spaced, Added
  <2> HIDE DEF x
  <2>8. /\ Entry(x, x) /\ UNCHANGED <<config, nets, phase>>
        /\ \E g : /\ stack' = Put(g) /\ Ahead(g) /\ Marked(g, FALSE, FALSE)
                  /\ Flags(g, TRUE, "second_ip", FALSE, << >>)
    BY <1>5, <2>2, <2>3, <2>4a, <2>5, CloseRangeTurn
  <2>9. PICK g : /\ stack' = Put(g) /\ Ahead(g) /\ Marked(g, FALSE, FALSE)
                 /\ Flags(g, TRUE, "second_ip", FALSE, << >>)
    BY <2>8
  <2>10. /\ t.env.mode = "pending" /\ t.env.braces = s.env.braces /\ t.env.scope = s.env.scope
         /\ t.env.net = s.env.net /\ t.env.ranges = s.env.ranges + 1 /\ t.env.nets = s.env.nets
    BY <1>5, <2>6 DEF Env
  <2>11. Scoped(g, t.env) /\ f.shared_p = s.env.net
    BY <2>2, <2>9, <2>10 DEF Scoped, Ahead
  <2>12. Between(g, t.env)
    BY <2>9, <2>10, <2>11 DEF Between, Idle, Unmarked, Marked, Flags
  <2>13. o + 1 = Len(s.text)
    BY <1>6a, <1>8
  <2> QED
    BY <1>4, <2>5, <2>6, <2>8, <2>9, <2>10, <2>11, <2>12, <2>13, ArriveRange
<1>9. CASE o # a /\ o # a + 1
  <2>1. Starts(s, a) /\ Followed(s, a, 2)
    BY <1>2
  <2>2. 2 # 3
    OBVIOUS
  <2> QED
    BY <1>9, <2>1, <2>2, StartSteps, Zenon
<1> QED
  BY <1>7, <1>8, <1>9

-----------------------------------------------------------------------------
(* Shared networks *)

\* The call g has begun the network behind the last one.
Begun(g) ==
  /\ g.file = f.file /\ g.pos = f.pos + 1
  /\ g.braces = f.braces /\ g.braces_shared = f.braces /\ g.shared_p = num_shared_networks + 1

(* The word that is awaited names a network. *)
LEMMA NetTurn ==
  ASSUME ParserInv, Character, Marked(f, FALSE, FALSE), c \in Blanks, NEW argument,
         argument = "sharednet" \/ (argument = "subnet" /\ f.shared_p = 0),
         NEW w, w # << >>, Awaits(f, argument, FALSE, w)
  PROVE  /\ nets' = Append(nets, [name |-> w, masked |-> argument = "subnet"])
         /\ UNCHANGED <<config, ranges, slot, RANGES>>
         /\ \E g : /\ stack' = Put(g) /\ Begun(g) /\ Marked(g, FALSE, FALSE)
                   /\ Flags(g, argument = "subnet", "nothing", FALSE, << >>)
<1>1. f.newclause = FALSE /\ f.argument = argument /\ f.one_ip = FALSE /\ f.word = w
  BY ReadFields DEF Awaits, Flags
<1>2. f.comment = FALSE /\ f.quote = FALSE
  BY DEF Marked
<1>2a. InWord /\ f.word # << >>
  <2>1. f.argument # "nothing" /\ ~f.comment
    BY <1>1, <1>2
  <2> QED
    BY <1>1, <2>1 DEF InWord
<1>3. ~Unquoted("{") /\ g1.comment = FALSE
  <2>1. ~Unquoted("{")
    BY DEF Unquoted, Blanks
  <2> QED
    BY <1>2, <2>1, ReadFields
<1>4. SharedNet
  BY <1>1, <1>2, <1>2a, EndOfWord
<1>5. g1 \in Frame /\ g1.word = w /\ g1.argument = argument /\ g1.one_ip = FALSE
  BY <1>1, ReadFields
<1> DEFINE k == Reset(g1)
           m == g1.argument = "subnet"
           n == num_shared_networks + 1
           b == g1.braces
           g == [k EXCEPT !.newclause = m, !.argument = "nothing", !.shared_p = n, !.braces_shared = b]
<1>6. /\ nets' = Append(nets, [name |-> g1.word, masked |-> m]) /\ stack' = Put(g)
      /\ UNCHANGED <<config, ranges, slot, RANGES>>
  BY <1>4 DEF SharedNet, NewNet
<1>13. k \in Frame /\ k.word = << >>
  BY <1>5, ResetFits DEF Fitting
<1>14. /\ k.file = g1.file /\ k.pos = g1.pos /\ k.braces = g1.braces
       /\ k.comment = g1.comment /\ k.quote = g1.quote /\ k.one_ip = g1.one_ip
  BY <1>5 DEF Reset, Frame
<1> HIDE DEF k, m, n, b
<1>15. /\ g.file = k.file /\ g.pos = k.pos /\ g.braces = k.braces /\ g.braces_shared = b
       /\ g.shared_p = n /\ g.comment = k.comment /\ g.quote = k.quote
       /\ Flags(g, m, "nothing", k.one_ip, k.word)
  BY <1>13 DEF Frame, Flags
<1> HIDE DEF g
<1>16. Begun(g) /\ Marked(g, FALSE, FALSE)
  BY <1>2, <1>3, <1>14, <1>15, ReadFields DEF Begun, Marked, b, n
<1>17. m = (argument = "subnet")
  BY <1>5, Zenon DEF m
<1>18. Flags(g, argument = "subnet", "nothing", FALSE, << >>)
  BY <1>5, <1>13, <1>14, <1>15, <1>17 DEF Flags
<1>19. nets' = Append(nets, [name |-> w, masked |-> argument = "subnet"])
  BY <1>5, <1>6, <1>17, Zenon
<1> QED
  BY <1>6, <1>16, <1>18, <1>19

(* The array of networks, with one more. *)
LEMMA NetAdded ==
  ASSUME ParserInv, NEW w, NEW m, nets' = Append(nets, [name |-> w, masked |-> m])
  PROVE  /\ num_shared_networks \in Nat /\ num_shared_networks' = num_shared_networks + 1
         /\ \A x \in 1..num_shared_networks : nets'[x] = nets[x]
         /\ nets'[num_shared_networks + 1] = [name |-> w, masked |-> m]
<1> DEFINE r == [name |-> w, masked |-> m]
           T == [name : Seq(Symbol), masked : BOOLEAN]
           S == T \cup {r}
<1>1. nets \in Seq(T) /\ nets' = Append(nets, r)
  BY DEF ParserInv, TypeOK
<1> HIDE DEF r, T
<1>2. nets \in Seq(S) /\ r \in S
  BY <1>1
<1> HIDE DEF S
<1>3. num_shared_networks = Len(nets) /\ num_shared_networks' = Len(nets')
  BY DEF num_shared_networks
<1>4. /\ Len(nets) \in Nat /\ Len(nets') = Len(nets) + 1 /\ nets'[Len(nets) + 1] = r
      /\ \A x \in 1..Len(nets) : nets'[x] = nets[x]
  BY <1>1, <1>2
<1> QED
  BY <1>3, <1>4 DEF r

(* The end of a phrase that names a network. *)
LEMMA ArriveNet ==
  ASSUME NEW s, NEW t, NEW o, Here(s, t, o), NEW g, stack' = Put(g), g.file = f.file, g.pos = f.pos + 1,
         UNCHANGED <<config, ranges>>, NEW w, NEW m, nets' = Append(nets, [name |-> w, masked |-> m]),
         config.nets[s.env.nets + 1] = w,
         o + 1 = Len(s.text), Between(g, t.env),
         t.env.ranges = s.env.ranges, t.env.nets = s.env.nets + 1, ~Named(s, o)
  PROVE  Goes(s, t, o)
<1>1. f' = g /\ config' = config /\ ranges' = ranges
  BY PutIs DEF Here
<1>2. ParserInv /\ Known(s, o)
  BY DEF Here
<1>3. /\ num_shared_networks \in Nat /\ num_shared_networks' = num_shared_networks + 1
      /\ \A x \in 1..num_shared_networks : nets'[x] = nets[x]
      /\ nets'[num_shared_networks + 1] = [name |-> w, masked |-> m]
  BY <1>2, NetAdded
<1>4. /\ IsPrefix(ranges, config.ranges) /\ num_ranges = s.env.ranges
      /\ \A x \in 1..s.env.nets : nets[x].name = config.nets[x]
      /\ num_shared_networks = s.env.nets + IF Named(s, o) THEN 1 ELSE 0
  BY <1>2, Zenon DEF Known
<1>4a. num_shared_networks = s.env.nets
  <2>1. s.env.nets \in Nat
    BY HereFacts DEF Env
  <2> QED
    BY <1>4, <2>1
<1>5. num_ranges' = num_ranges
  BY <1>1 DEF num_ranges
<1>6. ~Named(t, 0) /\ g.pos = t.at /\ t.at \in Nat
  <2>1. ~Named(t, 0)
    BY DEF Named
  <2>2. t.at \in Nat
    BY DEF Here, Phrase
  <2> QED
    BY <2>1, <2>2, HereFacts
<1>7. At(f, t, 0)'
  BY <1>1, <1>6 DEF At
<1>8. \A x \in 1..(s.env.nets + 1) : nets'[x].name = config.nets[x]
  <2>1. \A n \in Nat : \A x \in 1..(n + 1) : x \in 1..n \/ x = n + 1
    OBVIOUS
  <2>2. \A x \in 1..s.env.nets : nets'[x].name = config.nets[x]
    BY <1>3, <1>4, <1>4a
  <2>3. nets'[num_shared_networks + 1].name = w
    <3>1. [name |-> w, masked |-> m].name = w
      OBVIOUS
    <3> QED
      BY <1>3, <3>1, Zenon
  <2>4. s.env.nets + 1 = num_shared_networks + 1
    BY <1>4a
  <2>5. nets'[s.env.nets + 1].name = config.nets[s.env.nets + 1]
    BY <2>3, <2>4, Zenon
  <2> QED
    BY <1>3, <1>4a, <2>1, <2>2, <2>5, Zenon
<1>9. num_shared_networks' = t.env.nets + IF Named(t, 0) THEN 1 ELSE 0
  BY <1>3, <1>4a, <1>6
<1>10. Known(t, 0)'
  BY <1>1, <1>4, <1>5, <1>6, <1>8, <1>9 DEF Known
<1> QED
  BY <1>1, <1>7, <1>10, HereFacts DEF Goes

(* Where the parser is in the name of a network. *)
LEMMA NetPlaces ==
  ASSUME NEW g, NEW s
  PROVE  /\ InNetwork(g, s, 1) <=> HasWord(g, s)
         /\ InNetwork(g, s, 2) <=> Awaits(g, "sharednet", FALSE, << >>)
         /\ s.kind = "shared" => (InNetwork(g, s, 3) <=> Awaits(g, "sharednet", FALSE, <<s.text[3]>>))
         /\ s.kind = "quoted" => (InNetwork(g, s, 3) <=> Awaits(g, "sharednet", FALSE, << >>))
<1> DEFINE P == HasWord(g, s)
           Q == Awaits(g, "sharednet", FALSE, << >>)
           R == Awaits(g, "sharednet", FALSE, IF s.kind = "shared" THEN <<s.text[3]>> ELSE << >>)
           T(o) == Awaits(g, "sharednet", FALSE, SubSeq(s.text, 4, IF o < Len(s.text) - 1 THEN o ELSE o - 1))
           I(o) == /\ o = 1 => P
                   /\ o = 2 => Q
                   /\ o = 3 => R
                   /\ o > 3 => T(o)
<1>1. \A o : InNetwork(g, s, o) <=> I(o)
  BY Zenon DEF InNetwork
<1> HIDE DEF P, Q, R, T
<1>2. (I(1) <=> P) /\ (I(2) <=> Q) /\ (I(3) <=> R)
  OBVIOUS
<1> HIDE DEF I
<1>3. (InNetwork(g, s, 1) <=> P) /\ (InNetwork(g, s, 2) <=> Q) /\ (InNetwork(g, s, 3) <=> R)
  BY <1>1, <1>2, Zenon
<1>4. s.kind = "shared" => R = Awaits(g, "sharednet", FALSE, <<s.text[3]>>)
  BY DEF R
<1>5. s.kind = "quoted" => R = Awaits(g, "sharednet", FALSE, << >>)
  BY DEF R
<1> QED
  BY <1>3, <1>4, <1>5, Zenon DEF P, Q

\* A phrase that names a network begins with `shared-network'.
NamesNet(s) ==
  /\ s.kind = "shared" \/ s.kind = "quoted"
  /\ s.env.mode # "rest" /\ s.text[1] = "shared-network" /\ s.text[2] \in Blanks
  /\ Len(s.text) > 3

(* The keyword, and the blank behind it. *)
LEMMA NetStart ==
  ASSUME NEW s, NEW t, NEW o, Here(s, t, o), NamesNet(s), o = 0 \/ o = 1
  PROVE  Goes(s, t, o)
<1>1. /\ s.kind = "shared" \/ s.kind = "quoted"
      /\ s.text[1] = "shared-network" /\ s.text[2] \in Blanks
  BY DEF NamesNet
<1>2. s.kind # "end" /\ s.kind # "subnet" /\ \A x : ~Named(s, x)
  BY <1>1 DEF Named
<1>2a. InQuotes(s, 1) = FALSE /\ InQuotes(s, 2) = FALSE
  BY <1>1 DEF InQuotes
<1>2b. s.env.mode # "rest"
  BY DEF NamesNet
<1>2c. o + 1 < Len(s.text)
  BY HereFacts DEF NamesNet
<1>3. s.text[1] \in Word
  <2>1. s.text \in Seq(Symbol) /\ Len(s.text) > 1
    BY HereFacts DEF NamesNet
  <2>2. s.text[1] \in Symbol
    BY <2>1
  <2> QED
    BY <1>1, <2>2 DEF Word, Special
<1>4. CASE o = 0
  <2>1. PICK g : /\ Moved(g) /\ Follows(g) /\ Marked(g, FALSE, FALSE) /\ Scoped(g, s.env)
                 /\ HasWord(g, s) /\ g.argument = f.argument
    BY <1>2b, <1>3, <1>4, FirstLetter, Zenon
  <2>2. o + 1 = 1
    BY <1>4
  <2>3. InNetwork(g, s, 1) /\ Marked(g, FALSE, InQuotes(s, 1))
    BY <1>2a, <2>1, NetPlaces, Zenon DEF Marked
  <2>4. Inside(g, s, o + 1, SlotPointer, slot)
    BY <1>1, <2>1, <2>2, <2>3, InShared, Zenon
  <2> QED
    BY <1>2, <1>2c, <2>1, <2>4, Stay
<1>5. CASE o = 1
  <2>1. ParserInv /\ Character /\ Inside(f, s, 1, SlotPointer, slot)
    BY <1>2, <1>5, Amid
  <2>2. Marked(f, FALSE, InQuotes(s, 1)) /\ Scoped(f, s.env) /\ InNetwork(f, s, 1)
    BY <1>1, <2>1, InShared, Zenon
  <2>3. HasWord(f, s)
    BY <2>2, NetPlaces, Zenon
  <2>3a. f.quote = FALSE
    <3>1. f.quote \in BOOLEAN
      BY <2>1, ReadFields
    <3> QED
      BY <1>2a, <2>2, <3>1 DEF Marked
  <2>3b. Marked(f, FALSE, FALSE)
    BY <2>2, <2>3a DEF Marked
  <2>4. c \in Blanks
    BY <1>1, <1>5, Nth
  <2>5. PICK g : /\ Moved(g) /\ Follows(g) /\ Marked(g, FALSE, FALSE)
                 /\ Flags(g, FALSE, KeywordOf(<<s.text[1]>>), KeywordOf(<<s.text[1]>>) = "first_ip", << >>)
    BY <1>3, <2>1, <2>3, <2>3b, <2>4, FirstBlank
  <2>6. KeywordOf(<<s.text[1]>>) = "sharednet"
    BY <1>1, OneKeyword
  <2>7. Awaits(g, "sharednet", FALSE, << >>)
    BY <2>5, <2>6 DEF Awaits, Flags
  <2>8. o + 1 = 2
    BY <1>5
  <2>9. InNetwork(g, s, 2) /\ Marked(g, FALSE, InQuotes(s, 2))
    BY <1>2a, <2>5, <2>7, NetPlaces, Zenon DEF Marked
  <2>10. Scoped(g, s.env)
    BY <2>2, <2>5 DEF Scoped, Follows
  <2>11. Inside(g, s, o + 1, SlotPointer, slot)
    BY <1>1, <2>8, <2>9, <2>10, InShared, Zenon
  <2> QED
    BY <1>2, <1>2c, <2>5, <2>11, Stay
<1> QED
  BY <1>4, <1>5

(* The environment behind the name of a network. *)
LEMMA NetEnv ==
  ASSUME NEW s, NEW t, s.env \in Env, NEW name, Begins(config, s, t, name)
  PROVE  /\ config.nets[s.env.nets + 1] = name /\ s.env.net = 0
         /\ t.env.mode = "rest" /\ t.env.braces = s.env.braces /\ t.env.scope = s.env.braces
         /\ t.env.net = s.env.nets + 1 /\ t.env.ranges = s.env.ranges /\ t.env.nets = s.env.nets + 1
  BY DEF Begins, Env

(* The blank behind the name. *)
LEMMA NameEnds ==
  ASSUME NEW s, NEW t, NEW o, Here(s, t, o), NEW w, Begins(config, s, t, w), w # << >>, ~Named(s, o),
         Marked(f, FALSE, FALSE), Scoped(f, s.env), Awaits(f, "sharednet", FALSE, w), c \in Blanks,
         o + 1 = Len(s.text)
  PROVE  Goes(s, t, o)
<1>1. ParserInv /\ Character /\ s.env \in Env /\ Known(s, o)
  BY HereFacts DEF Here
<1>2. /\ nets' = Append(nets, [name |-> w, masked |-> "sharednet" = "subnet"])
      /\ UNCHANGED <<config, ranges, slot, RANGES>>
      /\ \E g : /\ stack' = Put(g) /\ Begun(g) /\ Marked(g, FALSE, FALSE)
                /\ Flags(g, "sharednet" = "subnet", "nothing", FALSE, << >>)
  BY <1>1, NetTurn
<1>3. PICK g : /\ stack' = Put(g) /\ Begun(g) /\ Marked(g, FALSE, FALSE)
               /\ Flags(g, "sharednet" = "subnet", "nothing", FALSE, << >>)
  BY <1>2
<1>4. /\ config.nets[s.env.nets + 1] = w
      /\ t.env.mode = "rest" /\ t.env.braces = s.env.braces /\ t.env.scope = s.env.braces
      /\ t.env.net = s.env.nets + 1 /\ t.env.ranges = s.env.ranges /\ t.env.nets = s.env.nets + 1
  BY <1>1, NetEnv
<1>5. num_shared_networks = s.env.nets
  <2>1. num_shared_networks = s.env.nets + IF Named(s, o) THEN 1 ELSE 0
    BY <1>1 DEF Known
  <2>2. s.env.nets \in Nat
    BY <1>1 DEF Env
  <2> QED
    BY <2>1, <2>2
<1>6. Scoped(g, t.env)
  BY <1>3, <1>4, <1>5 DEF Scoped, Begun
<1>7. Between(g, t.env)
  BY <1>3, <1>4, <1>6 DEF Between, Idle, Unmarked, Marked, Flags
<1>8. g.file = f.file /\ g.pos = f.pos + 1
  BY <1>3 DEF Begun
<1> QED
  BY <1>2, <1>3, <1>4, <1>7, <1>8, ArriveNet

(* shared-network name *)
LEMMA SharedStep ==
  ASSUME NEW s, NEW t, NEW o, Here(s, t, o), Shared(config, s, t)
  PROVE  Goes(s, t, o)
<1> DEFINE A == {"shared-network"}
<1>1. s.kind = "shared" /\ s.env.mode # "rest" /\ Begins(config, s, t, <<s.text[3]>>)
  BY DEF Shared, AtClause
<1>2. Len(s.text) = 4 /\ s.text[1] \in A /\ s.text[2] \in Blanks /\ s.text[3] \in Word /\ s.text[4] \in Blanks
  <2>1. Form(s, <<A, Blanks, Word, Blanks>>)
    BY DEF Shared
  <2> HIDE DEF A
  <2> QED
    BY <2>1, Form4, Zenon
<1>2a. Len(s.text) = 4
  BY <1>2, Zenon
<1>3. NamesNet(s)
  BY <1>1, <1>2, <1>2a DEF NamesNet
<1>4. s.kind # "end" /\ s.kind # "subnet" /\ \A x : ~Named(s, x)
  BY <1>1 DEF Named
<1>4a. s.kind = "shared" \/ s.kind = "quoted"
  BY <1>1
<1>4b. InQuotes(s, 2) = FALSE /\ InQuotes(s, 3) = FALSE
  BY <1>1 DEF InQuotes
<1>4c. \A g : InNetwork(g, s, 3) <=> Awaits(g, "sharednet", FALSE, <<s.text[3]>>)
  BY <1>1, NetPlaces, Zenon
<1>5. CASE o = 2
  <2>1. ParserInv /\ Character /\ Inside(f, s, 2, SlotPointer, slot)
    BY <1>4, <1>5, Amid
  <2>2. Marked(f, FALSE, InQuotes(s, 2)) /\ Scoped(f, s.env) /\ InNetwork(f, s, 2)
    BY <1>4a, <2>1, InShared, Zenon
  <2>3. Awaits(f, "sharednet", FALSE, << >>) /\ Marked(f, FALSE, FALSE)
    BY <1>4b, <2>2, NetPlaces, Zenon
  <2>4. c = s.text[3] /\ c \in Word /\ o + 1 = 3
    BY <1>2, <1>5, Nth
  <2>5. PICK g : Moved(g) /\ Follows(g) /\ Marked(g, FALSE, FALSE) /\ Awaits(g, "sharednet", FALSE, <<c>>)
    BY <2>1, <2>3, <2>4, WordTurn
  <2>6. Scoped(g, s.env)
    BY <2>2, <2>5 DEF Scoped, Follows
  <2>7. Inside(g, s, 3, SlotPointer, slot)
    BY <1>4a, <1>4b, <1>4c, <2>4, <2>5, <2>6, InShared, Zenon
  <2>8. o + 1 < Len(s.text)
    BY <1>2a, <1>5
  <2>9. Inside(g, s, o + 1, SlotPointer, slot)
    BY <2>4, <2>7, Zenon
  <2> QED
    BY <1>4, <2>5, <2>8, <2>9, Stay
<1>6. CASE o = 3
  <2>1. ParserInv /\ Character /\ Inside(f, s, 3, SlotPointer, slot)
    BY <1>4, <1>6, Amid
  <2>2. Marked(f, FALSE, InQuotes(s, 3)) /\ Scoped(f, s.env) /\ InNetwork(f, s, 3)
    BY <1>4a, <2>1, InShared, Zenon
  <2>3. Awaits(f, "sharednet", FALSE, <<s.text[3]>>) /\ Marked(f, FALSE, FALSE)
    BY <1>4b, <1>4c, <2>2, Zenon
  <2>4. c \in Blanks
    BY <1>2, <1>6, Nth
  <2>5. o + 1 = Len(s.text)
    BY <1>2a, <1>6
  <2>6. <<s.text[3]>> # << >>
    BY ShortWords, Zenon
  <2> QED
    BY <1>1, <1>4, <2>2, <2>3, <2>4, <2>5, <2>6, NameEnds
<1>7. o = 0 \/ o = 1 \/ o = 2 \/ o = 3
  BY <1>2a, Count, Zenon
<1> QED
  BY <1>3, <1>5, <1>6, <1>7, NetStart

-----------------------------------------------------------------------------
(* The part of a quoted name that has been read. *)
LEMMA NameGrows ==
  ASSUME NEW x \in Seq(Symbol), NEW o \in Nat, 3 <= o, o < Len(x)
  PROVE  /\ SubSeq(x, 4, o + 1) = Append(SubSeq(x, 4, o), x[o + 1])
         /\ SubSeq(x, 4, o) \in Seq(Symbol) /\ Len(SubSeq(x, 4, o)) = o - 3
         /\ o = 3 => SubSeq(x, 4, o) = << >>
         /\ o > 3 => SubSeq(x, 4, o) # << >>
<1> DEFINE u == SubSeq(x, 4, o)
           v == SubSeq(x, 4, o + 1)
           e == x[o + 1]
<1>1. \A i \in 4..(o + 1) : x[i] \in Symbol
  OBVIOUS
<1>2. (\A i \in 4..o : x[i] \in Symbol) /\ 4 \in Int /\ o \in Int /\ o + 1 \in Int /\ e \in Symbol
  OBVIOUS
<1>3. u \in Seq(Symbol) /\ Len(u) = (IF 4 <= o THEN o - 4 + 1 ELSE 0) /\ \A i \in 1..(o - 4 + 1) : u[i] = x[4 + i - 1]
  BY <1>2, SubSeqProperties
<1>4. /\ v \in Seq(Symbol) /\ Len(v) = (IF 4 <= o + 1 THEN (o + 1) - 4 + 1 ELSE 0)
      /\ \A i \in 1..((o + 1) - 4 + 1) : v[i] = x[4 + i - 1]
  BY <1>1, <1>2, SubSeqProperties
<1> HIDE DEF u, v, e
<1>5. Len(u) = o - 3 /\ Len(v) = o - 2
  BY <1>3, <1>4
<1>6. \A i \in 1..(o - 3) : u[i] = x[i + 3]
  BY <1>3
<1>7. \A i \in 1..(o - 2) : v[i] = x[i + 3]
  BY <1>4
<1>8. Append(u, e) \in Seq(Symbol) /\ Len(Append(u, e)) = o - 2
  BY <1>2, <1>3, <1>5
<1>9. \A i \in 1..(o - 2) : Append(u, e)[i] = v[i]
  <2>1. SUFFICES ASSUME NEW i \in 1..(o - 2) PROVE Append(u, e)[i] = v[i]
    OBVIOUS
  <2>2. CASE i \in 1..(o - 3)
    <3>1. Append(u, e)[i] = u[i]
      BY <1>2, <1>3, <1>5, <2>2
    <3> QED
      BY <1>6, <1>7, <2>2, <3>1
  <2>3. CASE i = o - 2
    <3>1. Append(u, e)[i] = e
      BY <1>2, <1>3, <1>5, <2>3
    <3>2. i + 3 = o + 1
      BY <2>3
    <3> QED
      BY <1>7, <3>1, <3>2 DEF e
  <2>4. i \in 1..(o - 3) \/ i = o - 2
    OBVIOUS
  <2> QED
    BY <2>2, <2>3, <2>4
<1>10. v = Append(u, e)
  BY <1>4, <1>5, <1>8, <1>9, SeqEqual
<1>11. o = 3 => u = << >>
  BY <1>3, <1>5
<1>12. o > 3 => u # << >>
  BY <1>5
<1> QED
  BY <1>3, <1>5, <1>10, <1>11, <1>12 DEF u, v, e

(* Where the parser is in a quoted name. *)
LEMMA NameWord ==
  ASSUME NEW g, NEW s, s.kind = "quoted", NEW o \in Nat, s.text \in Seq(Symbol), 3 <= o, o < Len(s.text)
  PROVE  /\ o + 1 < Len(s.text) =>
              (InNetwork(g, s, o) <=> Awaits(g, "sharednet", FALSE, SubSeq(s.text, 4, o)))
         /\ o + 1 = Len(s.text) =>
              (o > 3 => (InNetwork(g, s, o) <=> Awaits(g, "sharednet", FALSE, SubSeq(s.text, 4, o - 1))))
<1>1. o = 3 => SubSeq(s.text, 4, o) = << >>
  BY NameGrows
<1>2. CASE o = 3
  <2>1. InNetwork(g, s, 3) <=> Awaits(g, "sharednet", FALSE, << >>)
    BY NetPlaces, Zenon
  <2>2. ~(o > 3)
    BY <1>2
  <2> QED
    BY <1>1, <1>2, <2>1, <2>2, Zenon
<1>3. CASE o # 3
  <2> DEFINE n == IF o < Len(s.text) - 1 THEN o ELSE o - 1
  <2>1. o > 3 /\ o # 1 /\ o # 2
    BY <1>3
  <2>2. InNetwork(g, s, o) <=> Awaits(g, "sharednet", FALSE, SubSeq(s.text, 4, n))
    BY <1>3, <2>1, Zenon DEF InNetwork
  <2>3. (o + 1 < Len(s.text) => n = o) /\ (o + 1 = Len(s.text) => n = o - 1)
    BY <2>1
  <2> HIDE DEF n
  <2> QED
    BY <2>2, <2>3, Zenon
<1> QED
  BY <1>2, <1>3

(* The parts of a quoted name. *)
LEMMA QuotedParts ==
  ASSUME NEW L \in Nat, L >= 6, L <= MAXLEN + 4, NEW o \in Nat, o < L, o # 0, o # 1
  PROVE  /\ o = 2 \/ (o >= 3 /\ o <= L - 3) \/ o = L - 2 \/ o = L - 1
         /\ o = 2 => o + 1 < L /\ 3 \in 3..(L - 2) /\ 2 \notin 3..(L - 2)
         /\ o >= 3 /\ o <= L - 3 =>
              /\ o + 1 < L /\ 3 <= o + 1 /\ o + 1 \in Nat /\ o + 2 < L /\ o + 2 = (o + 1) + 1
              /\ o + 1 \in 4..(L - 2) /\ (o - 3) + 1 < MAXLEN
              /\ o \in 3..(L - 2) /\ o + 1 \in 3..(L - 2)
              /\ o = 3 \/ o > 3
         /\ o = L - 2 =>
              /\ o + 1 < L /\ 3 <= o /\ o + 1 \in Nat /\ 3 <= o + 1 /\ o + 2 = L /\ (o + 1) + 1 = L
              /\ o + 1 = L - 1 /\ (o + 1) - 1 = o /\ o + 1 > 3 /\ o > 3
              /\ o \in 3..(L - 2) /\ o + 1 \notin 3..(L - 2)
         /\ o = L - 1 =>
              /\ o + 1 = L /\ 3 <= o /\ o > 3 /\ o - 1 = L - 2 /\ o \notin 3..(L - 2)
              /\ L - 2 \in Nat /\ 3 <= L - 2 /\ L - 2 > 3 /\ L - 2 < L
  BY MaxLen

(* A word in quotes, one character later. *)
LEMMA QuotedLetter ==
  ASSUME ParserInv, Character, Marked(f, FALSE, TRUE), NEW argument, argument # "nothing",
         NEW w \in Seq(Symbol), Awaits(f, argument, FALSE, w),
         Len(w) + 1 < MAXLEN, c \notin {"\"", "#"}, c \notin Blanks \/ w # << >>
  PROVE  \E g : /\ Moved(g) /\ Follows(g) /\ Marked(g, FALSE, TRUE)
                /\ Awaits(g, argument, FALSE, Append(w, c))
<1>1. f.newclause = FALSE /\ f.argument = argument /\ f.one_ip = FALSE /\ f.word = w
  BY ReadFields DEF Awaits, Flags
<1>2. f.comment = FALSE /\ f.quote = TRUE
  BY DEF Marked
<1>3. Plain
  BY <1>2 DEF Plain
<1>4. InWord
  BY <1>1, <1>2 DEF InWord
<1>5. Len(f.word) + 1 < MAXLEN /\ (c \notin Blanks \/ (f.quote /\ f.word # << >>))
  BY <1>1, <1>2
<1>6. PICK g : /\ Moved(g) /\ Follows(g) /\ Marked(g, FALSE, f.quote)
               /\ Flags(g, f.newclause, f.argument, f.one_ip, Append(f.word, c))
  BY <1>3, <1>4, <1>5, LetterTurn
<1>7. Awaits(g, argument, FALSE, Append(w, c)) /\ Marked(g, FALSE, TRUE)
  BY <1>1, <1>2, <1>6 DEF Awaits
<1> QED
  BY <1>6, <1>7

(* A quotation mark leaves the argument as it is. *)
LEMMA QuoteAwaits ==
  ASSUME ParserInv, Character, NEW q \in BOOLEAN, Marked(f, FALSE, q), c = "\"",
         NEW argument, NEW w, Awaits(f, argument, FALSE, w)
  PROVE  \E g : Moved(g) /\ Follows(g) /\ Marked(g, FALSE, ~q) /\ Awaits(g, argument, FALSE, w)
<1>1. f.newclause = FALSE /\ f.argument = argument /\ f.one_ip = FALSE /\ f.word = w
  BY ReadFields DEF Awaits, Flags
<1>2. f.comment = FALSE /\ f.quote = q
  BY DEF Marked
<1>3. PICK g : Moved(g) /\ Follows(g) /\ Kept(g) /\ Marked(g, FALSE, ~f.quote)
  BY <1>2, QuoteTurn
<1> QED
  BY <1>1, <1>2, <1>3 DEF Kept, Flags, Awaits

(* shared-network "name" *)
LEMMA QuotedStep ==
  ASSUME NEW s, NEW t, NEW o, Here(s, t, o), Quoted(config, s, t)
  PROVE  Goes(s, t, o)
<1> DEFINE L == Len(s.text)
<1>1. /\ s.kind = "quoted" /\ s.env.mode # "rest" /\ Begins(config, s, t, QuotedName(s))
      /\ s.text[1] = "shared-network" /\ s.text[2] \in Blanks /\ s.text[3] = "\""
      /\ s.text[L - 1] = "\"" /\ s.text[L] \in Blanks /\ s.text[4] \notin Blanks
      /\ \A x \in 4..(L - 2) : s.text[x] \notin {"\"", "#"}
  BY DEF Quoted, AtClause
<1>2. s.text \in Seq(Symbol) /\ L \in Nat /\ L >= 6 /\ L <= MAXLEN + 4
  <2>1. L \in 6..(MAXLEN + 4)
    BY DEF Quoted
  <2>2. s.text \in Seq(Symbol) /\ L \in Nat
    BY HereFacts
  <2> QED
    BY <2>1, <2>2, MaxLen
<1>3. NamesNet(s)
  <2>1. L > 3
    BY <1>2
  <2> QED
    BY <1>1, <2>1 DEF NamesNet
<1>4. s.kind # "end" /\ s.kind # "subnet" /\ \A x : ~Named(s, x)
  BY <1>1 DEF Named
<1>4a. s.kind = "shared" \/ s.kind = "quoted"
  BY <1>1
<1>4b. \A x : IF x \in 3..(L - 2) THEN InQuotes(s, x) = TRUE ELSE InQuotes(s, x) = FALSE
  <2>1. s.kind # "string" /\ s.kind # "include"
    BY <1>1
  <2> QED
    BY <1>1, <2>1, Zenon DEF InQuotes
<1>5. o \in Nat /\ o < L /\ c = s.text[o + 1]
  BY DEF Here
<1> HIDE DEF L
<1>6. CASE o = 2
  <2>1. ParserInv /\ Character /\ Inside(f, s, 2, SlotPointer, slot)
    BY <1>4, <1>6, Amid
  <2>1a. o + 1 < L /\ 3 \in 3..(L - 2) /\ 2 \notin 3..(L - 2)
    BY <1>2, <1>5, <1>6, QuotedParts
  <2>1b. InQuotes(s, 2) = FALSE /\ InQuotes(s, 3) = TRUE
    BY <1>4b, <2>1a, Zenon
  <2>2. Marked(f, FALSE, FALSE) /\ Scoped(f, s.env) /\ Awaits(f, "sharednet", FALSE, << >>)
    BY <1>4a, <2>1, <2>1b, InShared, NetPlaces, Zenon
  <2>3. c = "\""
    BY <1>1, <1>6, Nth
  <2>4. PICK g : Moved(g) /\ Follows(g) /\ Marked(g, FALSE, ~FALSE) /\ Awaits(g, "sharednet", FALSE, << >>)
    BY <2>1, <2>2, <2>3, QuoteAwaits
  <2>5. Scoped(g, s.env) /\ Marked(g, FALSE, InQuotes(s, 3))
    BY <2>1b, <2>2, <2>4 DEF Scoped, Follows, Marked
  <2>6. InNetwork(g, s, 3)
    BY <1>1, <2>4, NetPlaces, Zenon
  <2>7. Inside(g, s, 3, SlotPointer, slot)
    BY <1>4a, <2>5, <2>6, InShared, Zenon
  <2>8. o + 1 = 3
    BY <1>6
  <2>9. Inside(g, s, o + 1, SlotPointer, slot)
    BY <2>7, <2>8, Zenon
  <2> QED
    BY <1>4, <2>1a, <2>4, <2>9, Stay DEF L
<1> DEFINE w == SubSeq(s.text, 4, o)
           v == SubSeq(s.text, 4, o + 1)
<1>7. CASE o >= 3 /\ o <= L - 3
  <2>0. /\ o + 1 < L /\ 3 <= o + 1 /\ o + 1 \in Nat /\ (o + 1) + 1 < L /\ o + 1 \in 4..(L - 2)
        /\ (o - 3) + 1 < MAXLEN /\ o \in 3..(L - 2) /\ o + 1 \in 3..(L - 2) /\ (o = 3 \/ o > 3) /\ 3 <= o
    BY <1>2, <1>5, <1>7, QuotedParts
  <2>1. ParserInv /\ Character /\ Inside(f, s, o, SlotPointer, slot)
    BY <1>4, <1>7, Amid
  <2>1b. InQuotes(s, o) = TRUE /\ InQuotes(s, o + 1) = TRUE
    BY <1>4b, <2>0, Zenon
  <2>2. Marked(f, FALSE, TRUE) /\ Scoped(f, s.env) /\ InNetwork(f, s, o)
    BY <1>4a, <2>1, <2>1b, InShared, Zenon
  <2>3. /\ InNetwork(f, s, o) <=> Awaits(f, "sharednet", FALSE, w)
        /\ \A g : InNetwork(g, s, o + 1) <=> Awaits(g, "sharednet", FALSE, v)
    BY <1>1, <1>2, <1>5, <2>0, NameWord, Zenon DEF L
  <2>4. /\ v = Append(w, s.text[o + 1]) /\ w \in Seq(Symbol) /\ Len(w) = o - 3
        /\ o > 3 => w # << >>
    BY <1>2, <1>5, <2>0, NameGrows, Zenon DEF L
  <2> HIDE DEF w, v
  <2>5. c \notin {"\"", "#"}
    BY <1>1, <1>5, <2>0, Zenon
  <2>6. c \notin Blanks \/ w # << >>
    <3>1. CASE o = 3
      <4>1. c = s.text[4]
        BY <3>1, Nth
      <4> QED
        BY <1>1, <4>1
    <3>2. CASE o > 3
      BY <2>4, <3>2
    <3> QED
      BY <2>0, <3>1, <3>2
  <2>7. Len(w) + 1 < MAXLEN
    BY <2>0, <2>4, Zenon
  <2>8. PICK g : Moved(g) /\ Follows(g) /\ Marked(g, FALSE, TRUE) /\ Awaits(g, "sharednet", FALSE, Append(w, c))
    BY <2>1, <2>2, <2>3, <2>4, <2>5, <2>6, <2>7, QuotedLetter
  <2>9. Awaits(g, "sharednet", FALSE, v)
    BY <1>5, <2>4, <2>8, Zenon
  <2>10. Scoped(g, s.env)
    BY <2>2, <2>8 DEF Scoped, Follows
  <2>11. Inside(g, s, o + 1, SlotPointer, slot)
    BY <1>4a, <2>1b, <2>3, <2>8, <2>9, <2>10, InShared, Zenon
  <2> QED
    BY <1>4, <2>0, <2>8, <2>11, Stay DEF L
<1>8. CASE o = L - 2
  <2>0. /\ o + 1 < L /\ 3 <= o /\ 3 <= o + 1 /\ o + 1 \in Nat /\ (o + 1) + 1 = L /\ o + 1 = L - 1
        /\ (o + 1) - 1 = o /\ o + 1 > 3 /\ o \in 3..(L - 2) /\ o + 1 \notin 3..(L - 2) /\ o # 0
    BY <1>2, <1>5, <1>8, QuotedParts
  <2>1. ParserInv /\ Character /\ Inside(f, s, o, SlotPointer, slot)
    BY <1>4, <2>0, Amid
  <2>1b. InQuotes(s, o) = TRUE /\ InQuotes(s, o + 1) = FALSE
    BY <1>4b, <2>0, Zenon
  <2>2. Marked(f, FALSE, TRUE) /\ Scoped(f, s.env) /\ InNetwork(f, s, o)
    BY <1>4a, <2>1, <2>1b, InShared, Zenon
  <2>3. InNetwork(f, s, o) <=> Awaits(f, "sharednet", FALSE, w)
    BY <1>1, <1>2, <1>5, <2>0, NameWord, Zenon DEF L
  <2>3a. \A g : InNetwork(g, s, o + 1) <=> Awaits(g, "sharednet", FALSE, SubSeq(s.text, 4, (o + 1) - 1))
    BY <1>1, <1>2, <1>5, <2>0, NameWord, Zenon DEF L
  <2>3b. \A g : InNetwork(g, s, o + 1) <=> Awaits(g, "sharednet", FALSE, w)
    BY <2>0, <2>3a, Zenon
  <2> HIDE DEF w, v
  <2>4. c = "\""
    BY <1>1, <1>5, <2>0, Zenon
  <2>5. PICK g : Moved(g) /\ Follows(g) /\ Marked(g, FALSE, ~TRUE) /\ Awaits(g, "sharednet", FALSE, w)
    BY <2>1, <2>2, <2>3, <2>4, QuoteAwaits
  <2>6. Scoped(g, s.env) /\ Marked(g, FALSE, InQuotes(s, o + 1))
    BY <2>1b, <2>2, <2>5 DEF Scoped, Follows, Marked
  <2>7. Inside(g, s, o + 1, SlotPointer, slot)
    BY <1>4a, <2>3b, <2>5, <2>6, InShared, Zenon
  <2> QED
    BY <1>4, <2>0, <2>5, <2>7, Stay DEF L
<1>9. CASE o = L - 1
  <2>0. /\ o + 1 = L /\ 3 <= o /\ o > 3 /\ o - 1 = L - 2 /\ o \notin 3..(L - 2) /\ o # 0
        /\ L - 2 \in Nat /\ 3 <= L - 2 /\ L - 2 > 3 /\ L - 2 < L
    BY <1>2, <1>5, <1>9, QuotedParts
  <2>1. ParserInv /\ Character /\ Inside(f, s, o, SlotPointer, slot)
    BY <1>4, <2>0, Amid
  <2>1b. InQuotes(s, o) = FALSE
    BY <1>4b, <2>0, Zenon
  <2>2. Marked(f, FALSE, FALSE) /\ Scoped(f, s.env) /\ InNetwork(f, s, o)
    BY <1>4a, <2>1, <2>1b, InShared, Zenon
  <2>3. InNetwork(f, s, o) <=> Awaits(f, "sharednet", FALSE, SubSeq(s.text, 4, o - 1))
    BY <1>1, <1>2, <1>5, <2>0, NameWord, Zenon DEF L
  <2>4. Awaits(f, "sharednet", FALSE, QuotedName(s))
    BY <2>0, <2>2, <2>3, Zenon DEF QuotedName, L
  <2>5. SubSeq(s.text, 4, L - 2) # << >>
    BY <1>2, <2>0, NameGrows, Zenon DEF L
  <2>6. QuotedName(s) # << >>
    BY <2>5, Zenon DEF QuotedName, L
  <2>7. c \in Blanks
    BY <1>1, <1>5, <2>0, Zenon
  <2> QED
    BY <1>1, <1>4, <2>0, <2>2, <2>4, <2>6, <2>7, NameEnds DEF L
<1>10. o # 0 /\ o # 1 => o = 2 \/ (o >= 3 /\ o <= L - 3) \/ o = L - 2 \/ o = L - 1
  BY <1>2, <1>5, QuotedParts
<1> QED
  BY <1>3, <1>6, <1>7, <1>8, <1>9, <1>10, NetStart

-----------------------------------------------------------------------------
(* Subnets, when each of them is a shared network *)

(* Where the parser is in a subnet declaration. *)
LEMMA SubnetPlaces ==
  ASSUME NEW g, NEW s
  PROVE  /\ InSubnet(g, s, 1) <=> HasWord(g, s)
         /\ InSubnet(g, s, 2) <=> Awaits(g, "subnet", FALSE, << >>)
         /\ InSubnet(g, s, 3) <=> Awaits(g, "subnet", FALSE, <<s.text[3]>>)
         /\ InSubnet(g, s, 4) <=> Flags(g, TRUE, "nothing", FALSE, << >>)
         /\ InSubnet(g, s, 5) <=> Flags(g, TRUE, "nothing", FALSE, <<s.text[5]>>)
         /\ InSubnet(g, s, 6) <=> Awaits(g, "netmask", FALSE, << >>)
         /\ InSubnet(g, s, 7) <=> Awaits(g, "netmask", FALSE, <<s.text[7]>>)
<1> DEFINE P1 == HasWord(g, s)
           P2 == Awaits(g, "subnet", FALSE, << >>)
           P3 == Awaits(g, "subnet", FALSE, <<s.text[3]>>)
           P4 == Flags(g, TRUE, "nothing", FALSE, << >>)
           P5 == Flags(g, TRUE, "nothing", FALSE, <<s.text[5]>>)
           P6 == Awaits(g, "netmask", FALSE, << >>)
           P7 == Awaits(g, "netmask", FALSE, <<s.text[7]>>)
           I(o) == /\ o = 1 => P1
                   /\ o = 2 => P2
                   /\ o = 3 => P3
                   /\ o = 4 => P4
                   /\ o = 5 => P5
                   /\ o = 6 => P6
                   /\ o = 7 => P7
<1>1. \A o : InSubnet(g, s, o) <=> I(o)
  BY Zenon DEF InSubnet
<1> HIDE DEF P1, P2, P3, P4, P5, P6, P7
<1>2. /\ I(1) <=> P1
      /\ I(2) <=> P2
      /\ I(3) <=> P3
      /\ I(4) <=> P4
      /\ I(5) <=> P5
      /\ I(6) <=> P6
      /\ I(7) <=> P7
  OBVIOUS
<1> HIDE DEF I
<1> QED
  BY <1>1, <1>2, Zenon DEF P1, P2, P3, P4, P5, P6, P7

\* The environment of the end of a subnet phrase, while it is read.
Inner1(s) == [s.env EXCEPT !.net = s.env.nets + 1, !.scope = s.env.braces]

(* The scope of a subnet phrase. *)
LEMMA SubnetScope ==
  ASSUME NEW g, NEW s, NEW n, NEW free, s.kind = "subnet" \/ s.kind = "inner", NEW o \in Nat
  PROVE  /\ o <= 3 \/ s.kind = "inner" =>
              (Inside(g, s, o, n, free) <=> Marked(g, FALSE, FALSE) /\ Scoped(g, s.env) /\ InSubnet(g, s, o))
         /\ s.kind = "subnet" /\ o > 3 =>
              (Inside(g, s, o, n, free) <=>
                 Marked(g, FALSE, FALSE) /\ Scoped(g, Inner1(s)) /\ InSubnet(g, s, o))
<1> DEFINE E == IF Named(s, o) THEN Inner1(s) ELSE s.env
<1>1. Inside(g, s, o, n, free) <=> Marked(g, FALSE, FALSE) /\ Scoped(g, E) /\ InSubnet(g, s, o)
  BY InBlock, Zenon DEF Inner1
<1>2. o <= 3 \/ s.kind = "inner" => ~Named(s, o)
  BY DEF Named
<1>3. s.kind = "subnet" /\ o > 3 => Named(s, o)
  BY DEF Named
<1>4. (o <= 3 \/ s.kind = "inner" => E = s.env) /\ (s.kind = "subnet" /\ o > 3 => E = Inner1(s))
  BY <1>2, <1>3, Zenon
<1> HIDE DEF E
<1> QED
  BY <1>1, <1>4, Zenon

\* A phrase that begins with `subnet' and an address.
Subnets(s) ==
  /\ s.kind = "subnet" \/ s.kind = "inner"
  /\ config.all_as_shared /\ s.env.mode # "rest" /\ Len(s.text) > 3
  /\ s.text[1] = "subnet" /\ s.text[2] \in Blanks /\ s.text[3] \in Word /\ s.text[4] \in Blanks

(* subnet A *)
LEMMA SubnetStart ==
  ASSUME NEW s, NEW t, NEW o, Here(s, t, o), Subnets(s), o = 0 \/ o = 1 \/ o = 2
  PROVE  Goes(s, t, o)
<1>1. /\ s.kind = "subnet" \/ s.kind = "inner"
      /\ s.text[1] = "subnet" /\ s.text[2] \in Blanks /\ s.text[3] \in Word
  BY DEF Subnets
<1>2. s.kind # "end"
  BY <1>1
<1>2a. \A x \in Nat : x <= 3 => ~Named(s, x)
  BY DEF Named
<1>2b. s.env.mode # "rest"
  BY DEF Subnets
<1>2c. Len(s.text) \in Nat /\ Len(s.text) > 3
  BY HereFacts DEF Subnets
<1>2d. o + 1 < Len(s.text) /\ ~Named(s, o + 1) /\ ~Named(s, o)
  <2>1. o \in Nat /\ o <= 3 /\ o + 1 \in Nat /\ o + 1 <= 3 /\ o + 1 < Len(s.text)
    BY <1>2c
  <2> QED
    BY <1>2a, <2>1, Zenon
<1>2e. 1 <= 3 /\ 2 <= 3 /\ 3 <= 3 /\ 1 \in Nat /\ 2 \in Nat /\ 3 \in Nat
  OBVIOUS
<1>2f. \A g : \A x \in {1, 2, 3} :
         Inside(g, s, x, SlotPointer, slot) <=>
           Marked(g, FALSE, FALSE) /\ Scoped(g, s.env) /\ InSubnet(g, s, x)
  <2>1. \A x \in {1, 2, 3} : x \in Nat /\ x <= 3
    BY <1>2e
  <2> QED
    BY <1>1, <2>1, SubnetScope, Zenon
<1>3. s.text[1] \in Word
  <2>1. s.text \in Seq(Symbol)
    BY HereFacts
  <2>2. s.text[1] \in Symbol
    BY <1>2c, <2>1
  <2> QED
    BY <1>1, <2>2 DEF Word, Special
<1>4. CASE o = 0
  <2>1. PICK g : /\ Moved(g) /\ Follows(g) /\ Marked(g, FALSE, FALSE) /\ Scoped(g, s.env)
                 /\ HasWord(g, s) /\ g.argument = f.argument
    BY <1>2b, <1>3, <1>4, FirstLetter, Zenon
  <2>2. o + 1 = 1
    BY <1>4
  <2>3. InSubnet(g, s, 1)
    BY <2>1, SubnetPlaces, Zenon
  <2>4. Inside(g, s, o + 1, SlotPointer, slot)
    BY <1>2f, <2>1, <2>2, <2>3, Zenon
  <2> QED
    BY <1>2d, <2>1, <2>4, Stay
<1>5. CASE o = 1
  <2>1. ParserInv /\ Character /\ Inside(f, s, 1, SlotPointer, slot)
    BY <1>2, <1>5, Amid
  <2>2. Marked(f, FALSE, FALSE) /\ Scoped(f, s.env) /\ InSubnet(f, s, 1)
    BY <1>2f, <2>1, Zenon
  <2>3. HasWord(f, s)
    BY <2>2, SubnetPlaces, Zenon
  <2>4. c \in Blanks
    BY <1>1, <1>5, Nth
  <2>5. PICK g : /\ Moved(g) /\ Follows(g) /\ Marked(g, FALSE, FALSE)
                 /\ Flags(g, FALSE, KeywordOf(<<s.text[1]>>), KeywordOf(<<s.text[1]>>) = "first_ip", << >>)
    BY <1>3, <2>1, <2>2, <2>3, <2>4, FirstBlank
  <2>6. KeywordOf(<<s.text[1]>>) = "subnet"
    BY <1>1, OneKeyword DEF Subnets
  <2>7. Awaits(g, "subnet", FALSE, << >>)
    BY <2>5, <2>6 DEF Awaits, Flags
  <2>8. o + 1 = 2
    BY <1>5
  <2>9. InSubnet(g, s, 2)
    BY <2>7, SubnetPlaces, Zenon
  <2>10. Scoped(g, s.env)
    BY <2>2, <2>5 DEF Scoped, Follows
  <2>11. Inside(g, s, o + 1, SlotPointer, slot)
    BY <1>2f, <2>5, <2>8, <2>9, <2>10, Zenon
  <2> QED
    BY <1>2d, <2>5, <2>11, Stay
<1>6. CASE o = 2
  <2>1. ParserInv /\ Character /\ Inside(f, s, 2, SlotPointer, slot)
    BY <1>2, <1>6, Amid
  <2>2. Marked(f, FALSE, FALSE) /\ Scoped(f, s.env) /\ InSubnet(f, s, 2)
    BY <1>2f, <2>1, Zenon
  <2>3. Awaits(f, "subnet", FALSE, << >>)
    BY <2>2, SubnetPlaces, Zenon
  <2>4. c = s.text[3] /\ c \in Word /\ o + 1 = 3
    BY <1>1, <1>6, Nth
  <2>5. PICK g : Moved(g) /\ Follows(g) /\ Marked(g, FALSE, FALSE) /\ Awaits(g, "subnet", FALSE, <<c>>)
    BY <2>1, <2>2, <2>3, <2>4, WordTurn
  <2>6. Scoped(g, s.env)
    BY <2>2, <2>5 DEF Scoped, Follows
  <2>7. InSubnet(g, s, 3)
    BY <2>4, <2>5, SubnetPlaces, Zenon
  <2>8. Inside(g, s, o + 1, SlotPointer, slot)
    BY <1>2f, <2>4, <2>5, <2>6, <2>7, Zenon
  <2> QED
    BY <1>2d, <2>5, <2>8, Stay
<1> QED
  BY <1>4, <1>5, <1>6

(* The address of a subnet inside a shared network. *)
LEMMA InnerTurn ==
  ASSUME ParserInv, Character, Marked(f, FALSE, FALSE), c \in Blanks, f.shared_p # 0,
         NEW w, w # << >>, Awaits(f, "subnet", FALSE, w)
  PROVE  \E g : /\ Moved(g) /\ Follows(g) /\ Marked(g, FALSE, FALSE)
                /\ Flags(g, FALSE, "nothing", FALSE, << >>)
<1>1. f.newclause = FALSE /\ f.argument = "subnet" /\ f.one_ip = FALSE /\ f.word = w
  BY ReadFields DEF Awaits, Flags
<1>2. f.comment = FALSE /\ f.quote = FALSE
  BY DEF Marked
<1>2a. InWord /\ f.word # << >>
  BY <1>1, <1>2 DEF InWord
<1>3. ~Unquoted("{") /\ g1.comment = FALSE
  <2>1. ~Unquoted("{")
    BY DEF Unquoted, Blanks
  <2> QED
    BY <1>2, <2>1, ReadFields
<1>4. InnerSubnet
  BY <1>1, <1>2, <1>2a, EndOfWord
<1>5. g1 \in Frame /\ g1.newclause = FALSE /\ g1.one_ip = FALSE
  BY <1>1, ReadFields
<1> DEFINE k == Reset(g1)
           g == [k EXCEPT !.argument = "nothing"]
<1>6. Moved(g)
  BY <1>4 DEF InnerSubnet, Moved
<1>7. k \in Frame /\ k.word = << >>
  BY <1>5, ResetFits DEF Fitting
<1>8. /\ k.file = g1.file /\ k.pos = g1.pos /\ k.braces = g1.braces /\ k.braces_shared = g1.braces_shared
      /\ k.shared_p = g1.shared_p /\ k.range_p = g1.range_p
      /\ k.comment = g1.comment /\ k.quote = g1.quote /\ k.one_ip = g1.one_ip /\ k.newclause = g1.newclause
  BY <1>5 DEF Reset, Frame
<1> HIDE DEF k
<1>9. /\ g.file = k.file /\ g.pos = k.pos /\ g.braces = k.braces /\ g.braces_shared = k.braces_shared
      /\ g.shared_p = k.shared_p /\ g.range_p = k.range_p /\ g.comment = k.comment /\ g.quote = k.quote
      /\ Flags(g, k.newclause, "nothing", k.one_ip, k.word)
  BY <1>7 DEF Frame, Flags
<1> HIDE DEF g
<1>10. Follows(g) /\ Marked(g, FALSE, FALSE)
  BY <1>2, <1>3, <1>8, <1>9, ReadFields DEF Follows, Scoped, Marked
<1>11. Flags(g, FALSE, "nothing", FALSE, << >>)
  BY <1>5, <1>7, <1>8, <1>9 DEF Flags
<1> QED
  BY <1>6, <1>10, <1>11

(* subnet A, inside a shared network *)
LEMMA InnerStep ==
  ASSUME NEW s, NEW t, NEW o, Here(s, t, o), Inner(config, s, t)
  PROVE  Goes(s, t, o)
<1> DEFINE A == {"subnet"}
<1>1. s.kind = "inner" /\ s.env.mode # "rest" /\ config.all_as_shared /\ s.env.net # 0
  BY DEF Inner, AtClause
<1>1a. t.env = [s.env EXCEPT !.mode = "rest"]
  BY DEF Inner
<1>2. Len(s.text) = 4 /\ s.text[1] \in A /\ s.text[2] \in Blanks /\ s.text[3] \in Word /\ s.text[4] \in Blanks
  <2>1. Form(s, <<A, Blanks, Word, Blanks>>)
    BY DEF Inner
  <2> HIDE DEF A
  <2> QED
    BY <2>1, Form4, Zenon
<1>2a. Len(s.text) = 4
  BY <1>2, Zenon
<1>3. Subnets(s)
  BY <1>1, <1>2, <1>2a DEF Subnets
<1>4. s.kind # "end" /\ \A x : ~Named(s, x)
  BY <1>1 DEF Named
<1>5. CASE o = 3
  <2>1. ParserInv /\ Character /\ Inside(f, s, 3, SlotPointer, slot) /\ s.env \in Env
    BY <1>4, <1>5, Amid
  <2>2. Marked(f, FALSE, FALSE) /\ Scoped(f, s.env) /\ InSubnet(f, s, 3)
    <3>1. 3 \in Nat
      OBVIOUS
    <3> QED
      BY <1>1, <2>1, <3>1, SubnetScope, Zenon
  <2>3. Awaits(f, "subnet", FALSE, <<s.text[3]>>)
    BY <2>2, SubnetPlaces, Zenon
  <2>4. c \in Blanks
    BY <1>2, <1>5, Nth
  <2>5. f.shared_p # 0
    BY <1>1, <2>2 DEF Scoped
  <2>6. <<s.text[3]>> # << >>
    BY ShortWords, Zenon
  <2>7. PICK g : /\ Moved(g) /\ Follows(g) /\ Marked(g, FALSE, FALSE)
                 /\ Flags(g, FALSE, "nothing", FALSE, << >>)
    BY <2>1, <2>2, <2>3, <2>4, <2>5, <2>6, InnerTurn
  <2>8. /\ t.env.mode = "rest" /\ t.env.braces = s.env.braces /\ t.env.scope = s.env.scope
        /\ t.env.net = s.env.net /\ t.env.ranges = s.env.ranges /\ t.env.nets = s.env.nets
    BY <1>1a, <2>1 DEF Env
  <2>9. Between(g, t.env)
    BY <2>2, <2>7, <2>8 DEF Between, Idle, Unmarked, Marked, Scoped, Follows, Flags
  <2>10. o + 1 = Len(s.text)
    BY <1>2a, <1>5
  <2> QED
    BY <1>4, <2>7, <2>8, <2>9, <2>10, Arrive DEF Follows
<1> QED
  BY <1>2a, <1>3, <1>5, SubnetStart, Count, Zenon

-----------------------------------------------------------------------------
\* The last network has another word in its name.
Lengthened(x) == nets' = [nets EXCEPT ![num_shared_networks].name = Append(@, x)]

(* The array of networks when the last one gets a longer name. *)
LEMMA NameExtended ==
  ASSUME ParserInv, num_shared_networks # 0, NEW y,
         nets[num_shared_networks] = [name |-> <<y>>, masked |-> TRUE],
         NEW x \in Symbol, Lengthened(x)
  PROVE  /\ num_shared_networks \in Nat /\ num_shared_networks' = num_shared_networks
         /\ \A k \in 1..num_shared_networks : k # num_shared_networks => nets'[k] = nets[k]
         /\ nets'[num_shared_networks].name = <<y, x>>
<1> DEFINE n == num_shared_networks
           T == [name : Seq(Symbol), masked : BOOLEAN]
           m == Append(nets[n].name, x)
           e == [nets[n] EXCEPT !.name = m]
<1>1. nets \in Seq(T) /\ num_shared_networks = Len(nets) /\ num_shared_networks' = Len(nets')
  BY DEF ParserInv, TypeOK, num_shared_networks
<1> HIDE DEF T
<1>2. n \in 1..Len(nets) /\ Len(nets) \in Nat
  BY <1>1
<1>3. nets[n] \in T
  BY <1>1, <1>2
<1>4. m = <<y, x>>
  <2>1. nets[n].name = <<y>>
    <3>1. [name |-> <<y>>, masked |-> TRUE].name = <<y>>
      OBVIOUS
    <3> QED
      BY <3>1, Zenon
  <2> QED
    BY <2>1, ShortWords, Zenon
<1>5. nets[n].name \in Seq(Symbol)
  BY <1>3 DEF T
<1>6. m \in Seq(Symbol)
  BY <1>5
<1>7. nets' = [nets EXCEPT ![n] = e]
  BY DEF Lengthened
<1> HIDE DEF m
<1>8. e \in T /\ e.name = m
  BY <1>3, <1>6 DEF T
<1> HIDE DEF e
<1>9. Len(nets') = Len(nets) /\ nets'[n] = e /\ \A k \in 1..Len(nets) : k # n => nets'[k] = nets[k]
  <2> DEFINE q == [nets EXCEPT ![n] = e]
  <2>1. Len(q) = Len(nets) /\ q[n] = e /\ \A k \in 1..Len(nets) : k # n => q[k] = nets[k]
    BY <1>1, <1>2
  <2> QED
    BY <1>7, <2>1, Zenon
<1> QED
  BY <1>1, <1>2, <1>4, <1>8, <1>9, Zenon

(* The netmask of the network that has just been added. *)
LEMMA MaskTurn ==
  ASSUME ParserInv, Character, Marked(f, FALSE, FALSE), c \in Blanks,
         NEW x, x \in DOMAIN Masks, Awaits(f, "netmask", FALSE, <<x>>),
         f.shared_p # 0, nets[f.shared_p].masked
  PROVE  /\ nets' = [nets EXCEPT ![f.shared_p].name = Append(@, x)]
         /\ UNCHANGED <<config, ranges, slot>>
         /\ \E g : /\ stack' = Put(g) /\ Marked(g, FALSE, FALSE)
                   /\ g.file = f.file /\ g.pos = f.pos + 1
                   /\ g.braces = f.braces /\ g.braces_shared = f.braces /\ g.shared_p = f.shared_p
                   /\ Flags(g, FALSE, "nothing", FALSE, << >>)
<1>1. f.newclause = FALSE /\ f.argument = "netmask" /\ f.one_ip = FALSE /\ f.word = <<x>>
  BY ReadFields DEF Awaits, Flags
<1>2. f.comment = FALSE /\ f.quote = FALSE
  BY DEF Marked
<1>2a. f.word # << >>
  <2>1. <<x>> # << >>
    BY ShortWords, Zenon
  <2> QED
    BY <1>1, <2>1, Zenon
<1>2b. InWord
  BY <1>1, <1>2 DEF InWord
<1>3. ~Unquoted("{") /\ g1.comment = FALSE
  <2>1. ~Unquoted("{")
    BY DEF Unquoted, Blanks
  <2> QED
    BY <1>2, <2>1, ReadFields
<1>4. Netmask
  <2>1. ~f.newclause /\ f.argument # "first_ip" /\ f.argument # "second_ip" /\ f.argument # "sharednet"
        /\ f.argument # "subnet" /\ f.argument # "include" /\ ~f.quote
    BY <1>1, <1>2
  <2> QED
    BY <1>2a, <1>2b, <2>1, EndOfWord
<1>5. g1 \in Frame /\ g1.newclause = FALSE /\ g1.one_ip = FALSE /\ g1.word = <<x>>
  BY <1>1, ReadFields
<1>5a. Len(g1.word) = 1 /\ g1.word[1] = x
  <2>1. Len(<<x>>) = 1 /\ <<x>>[1] = x
    OBVIOUS
  <2> QED
    BY <1>5, <2>1, Zenon
<1> DEFINE k == Reset(g1)
           b == g1.braces
           g == [k EXCEPT !.argument = "nothing", !.braces_shared = b]
<1>6. /\ nets' = [nets EXCEPT ![f.shared_p].name = Append(@, g1.word[1])] /\ stack' = Put(g)
      /\ UNCHANGED <<config, ranges, slot>>
  BY <1>4, <1>5a DEF Netmask
<1>7. k \in Frame /\ k.word = << >> /\ b \in Int
  <2>1. b \in Int
    BY <1>5 DEF Frame
  <2> QED
    BY <1>5, <2>1, ResetFits DEF Fitting
<1>8. /\ k.file = g1.file /\ k.pos = g1.pos /\ k.braces = g1.braces
      /\ k.shared_p = g1.shared_p
      /\ k.comment = g1.comment /\ k.quote = g1.quote /\ k.one_ip = g1.one_ip /\ k.newclause = g1.newclause
  BY <1>5 DEF Reset, Frame
<1> HIDE DEF k, b
<1>9. /\ g.file = k.file /\ g.pos = k.pos /\ g.braces = k.braces /\ g.braces_shared = b
      /\ g.shared_p = k.shared_p /\ g.comment = k.comment /\ g.quote = k.quote
      /\ Flags(g, k.newclause, "nothing", k.one_ip, k.word)
  BY <1>7 DEF Frame, Flags
<1> HIDE DEF g
<1>10. /\ g.file = f.file /\ g.pos = f.pos + 1
       /\ g.braces = f.braces /\ g.braces_shared = f.braces /\ g.shared_p = f.shared_p
  BY <1>2, <1>3, <1>8, <1>9, ReadFields DEF b
<1>11. Marked(g, FALSE, FALSE)
  BY <1>2, <1>3, <1>8, <1>9, ReadFields DEF Marked
<1>12. Flags(g, FALSE, "nothing", FALSE, << >>)
  BY <1>5, <1>7, <1>8, <1>9 DEF Flags
<1>13. nets' = [nets EXCEPT ![f.shared_p].name = Append(@, x)]
  BY <1>5a, <1>6
<1> QED
  BY <1>6, <1>10, <1>11, <1>12, <1>13

(* In the middle of a subnet phrase a network is added. *)
LEMMA OnwardNet ==
  ASSUME NEW s, NEW t, NEW o, Here(s, t, o), NEW g, stack' = Put(g), g.file = f.file, g.pos = f.pos + 1,
         UNCHANGED <<config, ranges, RANGES>>,
         nets' = Append(nets, [name |-> <<s.text[3]>>, masked |-> TRUE]),
         o + 1 < Len(s.text), Inside(g, s, o + 1, SlotPointer, slot'), Named(s, o + 1), ~Named(s, o)
  PROVE  Goes(s, t, o)
<1>1. /\ f' = g /\ config' = config /\ ranges' = ranges /\ RANGES' = RANGES
      /\ g.file = f.file /\ g.pos = s.at + (o + 1)
  <2>1. f' = g
    BY PutIs DEF Here
  <2>2. g.file = f.file /\ g.pos = s.at + (o + 1)
    BY HereFacts
  <2> QED
    BY <2>1, <2>2
<1>2. ParserInv /\ Known(s, o) /\ o + 1 # 0
  BY DEF Here
<1>3. /\ num_shared_networks \in Nat /\ num_shared_networks' = num_shared_networks + 1
      /\ \A x \in 1..num_shared_networks : nets'[x] = nets[x]
      /\ nets'[num_shared_networks + 1] = [name |-> <<s.text[3]>>, masked |-> TRUE]
  BY <1>2, NetAdded
<1>4. /\ IsPrefix(ranges, config.ranges) /\ num_ranges = s.env.ranges
      /\ \A x \in 1..s.env.nets : nets[x].name = config.nets[x]
      /\ num_shared_networks = s.env.nets + IF Named(s, o) THEN 1 ELSE 0
  BY <1>2, Zenon DEF Known
<1>4a. num_shared_networks = s.env.nets
  <2>1. s.env.nets \in Nat
    BY HereFacts DEF Env
  <2> QED
    BY <1>4, <2>1
<1>5. num_ranges' = num_ranges /\ SlotPointer' = SlotPointer
  BY <1>1 DEF num_ranges, SlotPointer
<1>6. At(f, s, o + 1)'
  BY <1>1, <1>2, <1>5 DEF At
<1>7. num_shared_networks' = s.env.nets + IF Named(s, o + 1) THEN 1 ELSE 0
  BY <1>3, <1>4a
<1>8. \A x \in 1..s.env.nets : nets'[x].name = config.nets[x]
  BY <1>3, <1>4, <1>4a
<1>9. nets'[num_shared_networks'] = [name |-> <<s.text[3]>>, masked |-> TRUE]
  BY <1>3, Zenon
<1>10. Known(s, o + 1)'
  BY <1>1, <1>4, <1>5, <1>7, <1>8, <1>9, Zenon DEF Known
<1> QED
  BY <1>1, <1>6, <1>10 DEF Goes

(* The end of a subnet phrase. *)
LEMMA ArriveMask ==
  ASSUME NEW s, NEW t, NEW o, Here(s, t, o), NEW g, stack' = Put(g), g.file = f.file, g.pos = f.pos + 1,
         UNCHANGED <<config, ranges>>, Named(s, o), NEW x \in Symbol,
         Lengthened(x),
         config.nets[s.env.nets + 1] = <<s.text[3], x>>,
         o + 1 = Len(s.text), Between(g, t.env),
         t.env.ranges = s.env.ranges, t.env.nets = s.env.nets + 1
  PROVE  Goes(s, t, o)
<1>1. f' = g /\ config' = config /\ ranges' = ranges
  BY PutIs DEF Here
<1>2. ParserInv /\ Known(s, o)
  BY DEF Here
<1>3. /\ IsPrefix(ranges, config.ranges) /\ num_ranges = s.env.ranges
      /\ \A k \in 1..s.env.nets : nets[k].name = config.nets[k]
      /\ num_shared_networks = s.env.nets + IF Named(s, o) THEN 1 ELSE 0
      /\ nets[num_shared_networks] = [name |-> <<s.text[3]>>, masked |-> TRUE]
  BY <1>2, Zenon DEF Known
<1>3a. s.env.nets \in Nat
  BY HereFacts DEF Env
<1>4. num_shared_networks = s.env.nets + 1 /\ num_shared_networks # 0
  BY <1>3, <1>3a
<1>5. /\ num_shared_networks' = num_shared_networks
      /\ \A k \in 1..num_shared_networks : k # num_shared_networks => nets'[k] = nets[k]
      /\ nets'[num_shared_networks].name = <<s.text[3], x>>
  BY <1>2, <1>3, <1>4, NameExtended
<1>6. num_ranges' = num_ranges
  BY <1>1 DEF num_ranges
<1>7. ~Named(t, 0) /\ g.pos = t.at /\ t.at \in Nat
  <2>1. ~Named(t, 0)
    BY DEF Named
  <2>2. t.at \in Nat
    BY DEF Here, Phrase
  <2> QED
    BY <2>1, <2>2, HereFacts
<1>8. At(f, t, 0)'
  BY <1>1, <1>7 DEF At
<1>9. \A k \in 1..(s.env.nets + 1) : nets'[k].name = config.nets[k]
  <2>1. \A m \in Nat : \A k \in 1..(m + 1) : (k \in 1..m /\ k \in 1..(m + 1) /\ k # m + 1) \/ k = m + 1
    OBVIOUS
  <2>2. nets'[s.env.nets + 1].name = config.nets[s.env.nets + 1]
    BY <1>4, <1>5, Zenon
  <2>3. \A k \in 1..(s.env.nets + 1) : k # s.env.nets + 1 => nets'[k] = nets[k]
    BY <1>4, <1>5
  <2>4. SUFFICES ASSUME NEW k \in 1..(s.env.nets + 1) PROVE nets'[k].name = config.nets[k]
    OBVIOUS
  <2>5. (k \in 1..s.env.nets /\ k # s.env.nets + 1) \/ k = s.env.nets + 1
    BY <1>3a, <2>1
  <2>6. CASE k \in 1..s.env.nets /\ k # s.env.nets + 1
    <3>1. nets'[k] = nets[k] /\ nets[k].name = config.nets[k]
      BY <1>3, <2>3, <2>6
    <3> QED
      BY <3>1
  <2> QED
    BY <2>2, <2>5, <2>6
<1>10. num_shared_networks' = t.env.nets + IF Named(t, 0) THEN 1 ELSE 0
  BY <1>3a, <1>4, <1>5, <1>7
<1>11. Known(t, 0)'
  BY <1>1, <1>3, <1>6, <1>7, <1>9, <1>10 DEF Known
<1> QED
  BY <1>1, <1>8, <1>11, HereFacts DEF Goes

(* A word at the start of a clause. *)
LEMMA HeadTurn ==
  ASSUME ParserInv, Character, Marked(f, FALSE, FALSE), c \in Word, Flags(f, TRUE, "nothing", FALSE, << >>)
  PROVE  \E g : Moved(g) /\ Follows(g) /\ Marked(g, FALSE, FALSE) /\ Flags(g, TRUE, "nothing", FALSE, <<c>>)
<1>1. f.newclause = TRUE /\ f.argument = "nothing" /\ f.one_ip = FALSE /\ f.word = << >>
  BY DEF Flags
<1>2. f.comment = FALSE /\ f.quote = FALSE
  BY DEF Marked
<1>3. c \notin Blanks /\ Plain /\ InWord
  BY <1>1, <1>2 DEF Word, Special, Blanks, Plain, InWord
<1>4. Len(f.word) + 1 < MAXLEN
  BY <1>1, MaxLen
<1>5. PICK g : /\ Moved(g) /\ Follows(g) /\ Marked(g, FALSE, f.quote)
               /\ Flags(g, f.newclause, f.argument, f.one_ip, Append(f.word, c))
  BY <1>3, <1>4, LetterTurn
<1>6. Append(f.word, c) = <<c>>
  BY <1>1
<1> QED
  BY <1>1, <1>2, <1>5, <1>6

(* The blank behind a keyword at the start of a clause. *)
LEMMA HeadEnds ==
  ASSUME ParserInv, Character, Marked(f, FALSE, FALSE), c \in Blanks, NEW w \in Word,
         Flags(f, TRUE, "nothing", FALSE, <<w>>), KeywordOf(<<w>>) # "first_ip"
  PROVE  \E g : /\ Moved(g) /\ Follows(g) /\ Marked(g, FALSE, FALSE)
                /\ Awaits(g, KeywordOf(<<w>>), FALSE, << >>)
<1>1. f.newclause /\ ~f.one_ip /\ f.word = <<w>>
  BY DEF Flags
<1>2. f.word # << >> /\ Unmarked(f)
  BY <1>1 DEF Marked, Unmarked
<1>3. w # "{"
  BY DEF Word, Special
<1>4. f.word[Len(f.word)] = w
  BY <1>1
<1>5. (f.word[Len(f.word)] = "{") = FALSE
  BY <1>3, <1>4
<1>6. PICK g : /\ Moved(g) /\ Follows(g) /\ Marked(g, FALSE, FALSE)
               /\ Flags(g, f.word[Len(f.word)] = "{", KeywordOf(f.word), KeywordOf(f.word) = "first_ip", << >>)
  BY <1>1, <1>2, KeywordTurn
<1>7. KeywordOf(f.word) = KeywordOf(<<w>>)
  BY <1>1
<1>8. (KeywordOf(f.word) = "first_ip") = FALSE
  BY <1>7
<1> HIDE DEF KeywordOf
<1> QED
  BY <1>5, <1>6, <1>7, <1>8 DEF Awaits, Flags

\* The text of a subnet phrase.
SubnetText(s) ==
  /\ s.text[1] = "subnet" /\ s.text[2] \in Blanks /\ s.text[3] \in Word /\ s.text[4] \in Blanks
  /\ s.text[5] = "netmask" /\ s.text[6] \in Blanks /\ s.text[7] \in Word /\ s.text[7] \in DOMAIN Masks
  /\ s.text[8] \in Blanks

(* Its parts. *)
LEMMA SubnetParts ==
  ASSUME NEW s, NEW t, Subnet(config, s, t)
  PROVE  SubnetText(s) /\ Len(s.text) = 8
<1> DEFINE A == {"subnet"}
           B == {"netmask"}
           M == Word \cap DOMAIN Masks
<1>1. /\ Len(s.text) = 8 /\ s.text[1] \in A /\ s.text[2] \in Blanks /\ s.text[3] \in Word /\ s.text[4] \in Blanks
      /\ s.text[5] \in B /\ s.text[6] \in Blanks /\ s.text[7] \in M /\ s.text[8] \in Blanks
  <2>1. Form(s, <<A, Blanks, Word, Blanks, B, Blanks, M, Blanks>>)
    BY DEF Subnet
  <2> HIDE DEF A, B, M
  <2> QED
    BY <2>1, Form8, Zenon
<1>2. Len(s.text) = 8
  BY <1>1, Zenon
<1>3. SubnetText(s)
  BY <1>1 DEF SubnetText
<1> QED
  BY <1>2, <1>3

(* The blank behind the address of a subnet outside every network. *)
LEMMA SubnetOpens ==
  ASSUME NEW s, NEW t, NEW o, Here(s, t, o), o = 3, s.kind = "subnet", Len(s.text) = 8,
         s.text[4] \in Blanks, s.env.net = 0
  PROVE  Goes(s, t, o)
<1>1. ParserInv /\ Character /\ Inside(f, s, 3, SlotPointer, slot) /\ s.env \in Env /\ Known(s, o)
  <2>1. o # 0 /\ s.kind # "end"
    OBVIOUS
  <2>2. ParserInv /\ Character /\ Inside(f, s, o, SlotPointer, slot) /\ s.env \in Env
    BY <2>1, Amid
  <2>3. Known(s, o)
    BY DEF Here
  <2> QED
    BY <2>2, <2>3, Zenon
<1>1a. 3 \in Nat /\ 3 <= 3 /\ 4 \in Nat /\ 4 > 3
  OBVIOUS
<1>2. Marked(f, FALSE, FALSE) /\ Scoped(f, s.env) /\ InSubnet(f, s, 3)
  BY <1>1, <1>1a, SubnetScope, Zenon
<1>3. Awaits(f, "subnet", FALSE, <<s.text[3]>>)
  BY <1>2, SubnetPlaces, Zenon
<1>4. c \in Blanks
  BY Nth
<1>5. f.shared_p = 0
  BY <1>2 DEF Scoped
<1>6. <<s.text[3]>> # << >>
  BY ShortWords, Zenon
<1>7. /\ nets' = Append(nets, [name |-> <<s.text[3]>>, masked |-> "subnet" = "subnet"])
      /\ UNCHANGED <<config, ranges, slot, RANGES>>
      /\ \E g : /\ stack' = Put(g) /\ Begun(g) /\ Marked(g, FALSE, FALSE)
                /\ Flags(g, "subnet" = "subnet", "nothing", FALSE, << >>)
  BY <1>1, <1>2, <1>3, <1>4, <1>5, <1>6, NetTurn
<1>7a. ("subnet" = "subnet") = TRUE
  OBVIOUS
<1>8. PICK g : /\ stack' = Put(g) /\ Begun(g) /\ Marked(g, FALSE, FALSE)
               /\ Flags(g, TRUE, "nothing", FALSE, << >>)
  BY <1>7, <1>7a, Zenon
<1>9. nets' = Append(nets, [name |-> <<s.text[3]>>, masked |-> TRUE])
  BY <1>7, <1>7a, Zenon
<1>10. Named(s, o + 1) /\ ~Named(s, o) /\ o + 1 = 4
  BY DEF Named
<1>11. num_shared_networks = s.env.nets
  <2>1. num_shared_networks = s.env.nets + IF Named(s, o) THEN 1 ELSE 0
    BY <1>1 DEF Known
  <2>2. s.env.nets \in Nat
    BY <1>1 DEF Env
  <2> QED
    BY <1>10, <2>1, <2>2
<1>12. Scoped(g, Inner1(s))
  <2>1. /\ Inner1(s).braces = s.env.braces /\ Inner1(s).scope = s.env.braces
        /\ Inner1(s).net = s.env.nets + 1
    BY <1>1 DEF Inner1, Env
  <2> QED
    BY <1>2, <1>8, <1>11, <2>1 DEF Begun, Scoped
<1>13. InSubnet(g, s, 4)
  BY <1>8, SubnetPlaces, Zenon
<1>14. \A n, free : Inside(g, s, 4, n, free)
  BY <1>1a, <1>8, <1>12, <1>13, SubnetScope, Zenon
<1>15. Inside(g, s, o + 1, SlotPointer, slot')
  BY <1>10, <1>14, Zenon
<1>16. o + 1 < Len(s.text)
  OBVIOUS
<1>17. g.file = f.file /\ g.pos = f.pos + 1
  BY <1>8 DEF Begun
<1> QED
  BY <1>7, <1>8, <1>9, <1>10, <1>15, <1>16, <1>17, OnwardNet

(* The netmask. *)
LEMMA SubnetNames ==
  ASSUME NEW s, NEW t, NEW o, Here(s, t, o), o \in {4, 5, 6}, s.kind = "subnet", Len(s.text) = 8,
         SubnetText(s), config.all_as_shared
  PROVE  Goes(s, t, o)
<1>1. ParserInv /\ Character /\ Inside(f, s, o, SlotPointer, slot) /\ s.text \in Seq(Symbol)
  BY Amid, HereFacts
<1>2. /\ o \in Nat /\ o > 3 /\ o + 1 \in Nat /\ o + 1 > 3 /\ o + 1 < Len(s.text)
      /\ Named(s, o) /\ Named(s, o + 1)
  BY DEF Named
<1>3. \A g, n, free : Inside(g, s, o, n, free) <=>
        Marked(g, FALSE, FALSE) /\ Scoped(g, Inner1(s)) /\ InSubnet(g, s, o)
  BY <1>2, SubnetScope, Zenon
<1>4. \A g, n, free : Inside(g, s, o + 1, n, free) <=>
        Marked(g, FALSE, FALSE) /\ Scoped(g, Inner1(s)) /\ InSubnet(g, s, o + 1)
  BY <1>2, SubnetScope, Zenon
<1>5. Marked(f, FALSE, FALSE) /\ Scoped(f, Inner1(s)) /\ InSubnet(f, s, o)
  BY <1>1, <1>3, Zenon
<1>6. SUFFICES \E g : Moved(g) /\ Follows(g) /\ Marked(g, FALSE, FALSE) /\ InSubnet(g, s, o + 1)
  <2>1. PICK g : Moved(g) /\ Follows(g) /\ Marked(g, FALSE, FALSE) /\ InSubnet(g, s, o + 1)
    BY <1>6
  <2>2. Scoped(g, Inner1(s))
    BY <1>5, <2>1 DEF Scoped, Follows
  <2>3. Inside(g, s, o + 1, SlotPointer, slot)
    BY <1>4, <2>1, <2>2, Zenon
  <2> QED
    BY <1>2, <2>1, <2>3, Stay
<1>7. /\ s.text[5] = "netmask" /\ s.text[6] \in Blanks /\ s.text[7] \in Word
  BY DEF SubnetText
<1>8. s.text[5] \in Word
  <2>1. s.text[5] \in Symbol
    BY <1>1
  <2> QED
    BY <1>7, <2>1 DEF Word, Special
<1>9. CASE o = 4
  <2>1. Flags(f, TRUE, "nothing", FALSE, << >>)
    BY <1>5, <1>9, SubnetPlaces, Zenon
  <2>2. c = s.text[5] /\ c \in Word /\ o + 1 = 5
    BY <1>8, <1>9, Nth
  <2>3. PICK g : Moved(g) /\ Follows(g) /\ Marked(g, FALSE, FALSE) /\ Flags(g, TRUE, "nothing", FALSE, <<c>>)
    BY <1>1, <1>5, <2>1, <2>2, HeadTurn
  <2>4. InSubnet(g, s, o + 1)
    BY <2>2, <2>3, SubnetPlaces, Zenon
  <2> QED
    BY <2>3, <2>4
<1>10. CASE o = 5
  <2>1. Flags(f, TRUE, "nothing", FALSE, <<s.text[5]>>)
    BY <1>5, <1>10, SubnetPlaces, Zenon
  <2>2. c \in Blanks /\ o + 1 = 6
    BY <1>7, <1>10, Nth
  <2>3. KeywordOf(<<s.text[5]>>) = "netmask"
    BY <1>7, OneKeyword
  <2>4. KeywordOf(<<s.text[5]>>) # "first_ip"
    BY <2>3
  <2>5. PICK g : /\ Moved(g) /\ Follows(g) /\ Marked(g, FALSE, FALSE)
                 /\ Awaits(g, KeywordOf(<<s.text[5]>>), FALSE, << >>)
    BY <1>1, <1>5, <1>8, <2>1, <2>2, <2>4, HeadEnds
  <2>6. Awaits(g, "netmask", FALSE, << >>)
    BY <2>3, <2>5, Zenon
  <2>7. InSubnet(g, s, o + 1)
    BY <2>2, <2>6, SubnetPlaces, Zenon
  <2> QED
    BY <2>5, <2>7
<1>11. CASE o = 6
  <2>1. Awaits(f, "netmask", FALSE, << >>)
    BY <1>5, <1>11, SubnetPlaces, Zenon
  <2>2. c = s.text[7] /\ c \in Word /\ o + 1 = 7
    BY <1>7, <1>11, Nth
  <2>3. PICK g : Moved(g) /\ Follows(g) /\ Marked(g, FALSE, FALSE) /\ Awaits(g, "netmask", FALSE, <<c>>)
    BY <1>1, <1>5, <2>1, <2>2, WordTurn
  <2>4. InSubnet(g, s, o + 1)
    BY <2>2, <2>3, SubnetPlaces, Zenon
  <2> QED
    BY <2>3, <2>4
<1> QED
  BY <1>9, <1>10, <1>11

(* subnet A netmask M *)
LEMMA SubnetStep ==
  ASSUME NEW s, NEW t, NEW o, Here(s, t, o), Subnet(config, s, t)
  PROVE  Goes(s, t, o)
<1>1. /\ s.kind = "subnet" /\ s.env.mode # "rest" /\ config.all_as_shared
      /\ Begins(config, s, t, <<s.text[3], s.text[7]>>)
  BY DEF Subnet, AtClause
<1>2. SubnetText(s) /\ Len(s.text) = 8
  BY SubnetParts
<1>2a. Len(s.text) = 8
  BY <1>2, Zenon
<1>3. Subnets(s)
  BY <1>1, <1>2, <1>2a DEF Subnets, SubnetText
<1>4. s.env \in Env /\ s.text \in Seq(Symbol)
  BY HereFacts
<1>5. /\ config.nets[s.env.nets + 1] = <<s.text[3], s.text[7]>> /\ s.env.net = 0
      /\ t.env.mode = "rest" /\ t.env.braces = s.env.braces /\ t.env.scope = s.env.braces
      /\ t.env.net = s.env.nets + 1 /\ t.env.ranges = s.env.ranges /\ t.env.nets = s.env.nets + 1
  BY <1>1, <1>4, NetEnv
<1>6. /\ s.text[4] \in Blanks /\ s.text[8] \in Blanks /\ s.text[7] \in DOMAIN Masks
  BY <1>2 DEF SubnetText
<1>7. CASE o = 7
  <2>1. ParserInv /\ Character /\ Inside(f, s, 7, SlotPointer, slot) /\ Known(s, o)
    <3>1. o # 0 /\ s.kind # "end"
      BY <1>1, <1>7
    <3> QED
      BY <1>7, <3>1, Amid DEF Here
  <2>1a. 7 \in Nat /\ 7 > 3
    OBVIOUS
  <2>2. Marked(f, FALSE, FALSE) /\ Scoped(f, Inner1(s)) /\ InSubnet(f, s, 7)
    BY <1>1, <2>1, <2>1a, SubnetScope, Zenon
  <2>3. Awaits(f, "netmask", FALSE, <<s.text[7]>>)
    BY <2>2, SubnetPlaces, Zenon
  <2>4. c \in Blanks
    BY <1>6, <1>7, Nth
  <2>5. Named(s, o)
    BY <1>1, <1>7 DEF Named
  <2>6. /\ num_shared_networks = s.env.nets + IF Named(s, o) THEN 1 ELSE 0
        /\ nets[num_shared_networks] = [name |-> <<s.text[3]>>, masked |-> TRUE]
    BY <2>1, <2>5, Zenon DEF Known
  <2>7. num_shared_networks = s.env.nets + 1 /\ s.env.nets \in Nat
    BY <1>4, <2>5, <2>6 DEF Env
  <2>8. f.shared_p = num_shared_networks /\ f.shared_p # 0 /\ f.braces = s.env.braces
    <3>1. /\ Inner1(s).braces = s.env.braces /\ Inner1(s).net = s.env.nets + 1
      BY <1>4 DEF Inner1, Env
    <3> QED
      BY <2>2, <2>7, <3>1 DEF Scoped
  <2>9. nets[f.shared_p].masked
    BY <2>6, <2>8
  <2>10. /\ nets' = [nets EXCEPT ![f.shared_p].name = Append(@, s.text[7])]
         /\ UNCHANGED <<config, ranges, slot>>
         /\ \E g : /\ stack' = Put(g) /\ Marked(g, FALSE, FALSE)
                   /\ g.file = f.file /\ g.pos = f.pos + 1
                   /\ g.braces = f.braces /\ g.braces_shared = f.braces /\ g.shared_p = f.shared_p
                   /\ Flags(g, FALSE, "nothing", FALSE, << >>)
    BY <1>6, <2>1, <2>2, <2>3, <2>4, <2>8, <2>9, MaskTurn
  <2>11. PICK g : /\ stack' = Put(g) /\ Marked(g, FALSE, FALSE)
                  /\ g.file = f.file /\ g.pos = f.pos + 1
                  /\ g.braces = f.braces /\ g.braces_shared = f.braces /\ g.shared_p = f.shared_p
                  /\ Flags(g, FALSE, "nothing", FALSE, << >>)
    BY <2>10
  <2>12. Lengthened(s.text[7])
    BY <2>8, <2>10 DEF Lengthened
  <2>13. s.text[7] \in Symbol
    BY <1>2a, <1>4
  <2>14. Scoped(g, t.env)
    BY <1>5, <2>7, <2>8, <2>11 DEF Scoped
  <2>15. Between(g, t.env)
    BY <1>5, <2>11, <2>14 DEF Between, Idle, Unmarked, Marked, Flags
  <2>16. o + 1 = Len(s.text)
    BY <1>2a, <1>7
  <2> QED
    BY <1>5, <2>5, <2>10, <2>11, <2>12, <2>13, <2>15, <2>16, ArriveMask
<1>8. o \in {4, 5, 6} => Goes(s, t, o)
  BY <1>1, <1>2, <1>2a, SubnetNames
<1>9. o = 3 => Goes(s, t, o)
  BY <1>1, <1>2a, <1>5, <1>6, SubnetOpens
<1>10. o = 0 \/ o = 1 \/ o = 2 \/ o = 3 \/ o \in {4, 5, 6} \/ o = 7
  <2>1. o = 0 \/ o = 1 \/ o = 2 \/ o = 3 \/ o = 4 \/ o = 5 \/ o = 6 \/ o = 7
    BY <1>2a, Count, Zenon
  <2> QED
    BY <2>1
<1> QED
  BY <1>3, <1>7, <1>8, <1>9, <1>10, SubnetStart

-----------------------------------------------------------------------------
(* Included files *)

(* Where the parser is in an include statement. *)
LEMMA IncludePlaces ==
  ASSUME NEW g, NEW s
  PROVE  /\ InInclude(g, s, 1) <=> HasWord(g, s)
         /\ InInclude(g, s, 2) <=> Awaits(g, "include", FALSE, << >>)
         /\ InInclude(g, s, 3) <=> Awaits(g, "include", FALSE, << >>)
         /\ InInclude(g, s, 4) <=> Awaits(g, "include", FALSE, <<s.text[4]>>)
         /\ InInclude(g, s, 5) <=> Awaits(g, "include", FALSE, <<s.text[4]>>)
         /\ InInclude(g, s, 6) <=> Awaits(g, "include", FALSE, <<s.text[4]>>)
<1> DEFINE P1 == HasWord(g, s)
           P2 == Awaits(g, "include", FALSE, << >>)
           P3 == Awaits(g, "include", FALSE, <<s.text[4]>>)
           I(o) == /\ o = 1 => P1
                   /\ o \in 2..3 => P2
                   /\ o > 3 => P3
<1>1. \A o : InInclude(g, s, o) <=> I(o)
  BY Zenon DEF InInclude
<1> HIDE DEF P1, P2, P3
<1>2. /\ I(1) <=> P1
      /\ I(2) <=> P2
      /\ I(3) <=> P2
      /\ I(4) <=> P3
      /\ I(5) <=> P3
      /\ I(6) <=> P3
  OBVIOUS
<1> HIDE DEF I
<1> QED
  BY <1>1, <1>2, Zenon DEF P1, P2, P3

\* The text of an include phrase.
IncludeText(s) ==
  /\ s.text[1] = "include" /\ s.text[2] \in Blanks /\ s.text[3] = "\"" /\ s.text[4] \in Word
  /\ s.text[5] = "\"" /\ s.text[6] = ";" /\ s.text[7] \in Blanks

(* Its parts. *)
LEMMA IncludeParts ==
  ASSUME NEW s, NEW t, Inclusion(config, s, t)
  PROVE  IncludeText(s) /\ Len(s.text) = 7
<1> DEFINE A == {"include"}
           B == {"\""}
           D == {";"}
<1>1. /\ Len(s.text) = 7 /\ s.text[1] \in A /\ s.text[2] \in Blanks /\ s.text[3] \in B /\ s.text[4] \in Word
      /\ s.text[5] \in B /\ s.text[6] \in D /\ s.text[7] \in Blanks
  <2>1. Form(s, <<A, Blanks, B, Word, B, D, Blanks>>)
    BY DEF Inclusion
  <2> HIDE DEF A, B, D
  <2> QED
    BY <2>1, Form7, Zenon
<1>2. Len(s.text) = 7
  BY <1>1, Zenon
<1>3. IncludeText(s)
  BY <1>1 DEF IncludeText
<1> QED
  BY <1>2, <1>3

(* A semicolon while the name of a file is awaited. *)
LEMMA PassAwaits ==
  ASSUME ParserInv, Character, Marked(f, FALSE, FALSE), c = ";", NEW w, Awaits(f, "include", FALSE, w)
  PROVE  \E g : Moved(g) /\ Follows(g) /\ Marked(g, FALSE, FALSE) /\ Awaits(g, "include", FALSE, w)
<1>1. f.newclause = FALSE /\ f.argument = "include" /\ f.one_ip = FALSE /\ f.word = w
  BY ReadFields DEF Awaits, Flags
<1>2. f.comment = FALSE /\ f.quote = FALSE
  BY DEF Marked
<1>3. PassSemicolon
  BY <1>1, <1>2, Guards DEF Unquoted, Ordinary, AtKeyword, AtArgument, WordEnd, EndsSecond, Awaiting
<1>4. Moved(g0)
  BY <1>3 DEF PassSemicolon, Moved
<1>5. PICK g : Moved(g) /\ Follows(g) /\ Kept(g) /\ Marked(g, f.comment, f.quote)
  BY <1>4, PassTurn
<1> QED
  BY <1>1, <1>2, <1>5 DEF Kept, Awaits

(* include "file"; *)
LEMMA IncludeStep ==
  ASSUME NEW s, NEW t, NEW o, Here(s, t, o), Inclusion(config, s, t), o # 6
  PROVE  Goes(s, t, o)
<1>1. s.kind = "include" /\ s.env.mode # "rest"
  BY DEF Inclusion, AtClause
<1>2. IncludeText(s) /\ Len(s.text) = 7
  BY IncludeParts
<1>2a. Len(s.text) = 7
  BY <1>2, Zenon
<1>2b. /\ s.text[1] = "include" /\ s.text[2] \in Blanks /\ s.text[3] = "\"" /\ s.text[4] \in Word
       /\ s.text[5] = "\"" /\ s.text[6] = ";"
  BY <1>2 DEF IncludeText
<1>3. s.kind # "end" /\ \A x : ~Named(s, x)
  BY <1>1 DEF Named
<1>4. /\ InQuotes(s, 1) = FALSE /\ InQuotes(s, 2) = FALSE /\ InQuotes(s, 3) = TRUE
      /\ InQuotes(s, 4) = TRUE /\ InQuotes(s, 5) = FALSE /\ InQuotes(s, 6) = FALSE
  <2>1. \A x : InQuotes(s, x) <=> x \in 3..4
    BY <1>1 DEF InQuotes
  <2>2. InQuotes(s, 1) \in BOOLEAN /\ InQuotes(s, 2) \in BOOLEAN /\ InQuotes(s, 3) \in BOOLEAN
        /\ InQuotes(s, 4) \in BOOLEAN /\ InQuotes(s, 5) \in BOOLEAN /\ InQuotes(s, 6) \in BOOLEAN
    BY <1>1 DEF InQuotes
  <2> QED
    BY <2>1, <2>2
<1>5. \A g, x, n, free : Inside(g, s, x, n, free) <=>
        Marked(g, FALSE, InQuotes(s, x)) /\ Scoped(g, s.env) /\ InInclude(g, s, x)
  BY <1>1, InInclusion, Zenon
<1>6. s.text \in Seq(Symbol)
  BY HereFacts
<1>7. s.text[1] \in Word
  <2>1. s.text[1] \in Symbol
    BY <1>2a, <1>6
  <2> QED
    BY <1>2b, <2>1 DEF Word, Special
<1>8. o = 0 \/ o = 1 \/ o = 2 \/ o = 3 \/ o = 4 \/ o = 5
  BY <1>2a, Count, Zenon
<1>8a. o + 1 < Len(s.text)
  BY <1>2a, <1>8
<1>9. CASE o = 0
  <2>1. PICK g : /\ Moved(g) /\ Follows(g) /\ Marked(g, FALSE, FALSE) /\ Scoped(g, s.env)
                 /\ HasWord(g, s) /\ g.argument = f.argument
    BY <1>1, <1>7, <1>9, FirstLetter, Zenon
  <2>2. o + 1 = 1
    BY <1>9
  <2>3. InInclude(g, s, 1) /\ Marked(g, FALSE, InQuotes(s, 1))
    BY <1>4, <2>1, IncludePlaces, Zenon
  <2>4. Inside(g, s, o + 1, SlotPointer, slot)
    BY <1>5, <2>1, <2>2, <2>3, Zenon
  <2> QED
    BY <1>3, <1>8a, <2>1, <2>4, Stay
<1>10. CASE o # 0
  <2>1. ParserInv /\ Character /\ Inside(f, s, o, SlotPointer, slot)
    BY <1>3, <1>10, Amid
  <2>2. Marked(f, FALSE, InQuotes(s, o)) /\ Scoped(f, s.env) /\ InInclude(f, s, o)
    BY <1>5, <2>1, Zenon
  <2>3. SUFFICES \E g : /\ Moved(g) /\ Follows(g) /\ Marked(g, FALSE, InQuotes(s, o + 1))
                        /\ InInclude(g, s, o + 1)
    <3>1. PICK g : /\ Moved(g) /\ Follows(g) /\ Marked(g, FALSE, InQuotes(s, o + 1))
                   /\ InInclude(g, s, o + 1)
      BY <2>3
    <3>2. Scoped(g, s.env)
      BY <2>2, <3>1 DEF Scoped, Follows
    <3>3. Inside(g, s, o + 1, SlotPointer, slot)
      BY <1>5, <3>1, <3>2, Zenon
    <3> QED
      BY <1>3, <1>8a, <3>1, <3>3, Stay
  <2>4. CASE o = 1
    <3>1. HasWord(f, s) /\ Marked(f, FALSE, FALSE)
      BY <1>4, <2>2, <2>4, IncludePlaces, Zenon
    <3>2. c \in Blanks /\ o + 1 = 2
      BY <1>2b, <2>4, Nth
    <3>3. PICK g : /\ Moved(g) /\ Follows(g) /\ Marked(g, FALSE, FALSE)
                   /\ Flags(g, FALSE, KeywordOf(<<s.text[1]>>), KeywordOf(<<s.text[1]>>) = "first_ip", << >>)
      BY <1>7, <2>1, <3>1, <3>2, FirstBlank
    <3>4. KeywordOf(<<s.text[1]>>) = "include"
      BY <1>2b, OneKeyword
    <3>5. Awaits(g, "include", FALSE, << >>)
      BY <3>3, <3>4 DEF Awaits, Flags
    <3>6. InInclude(g, s, o + 1) /\ Marked(g, FALSE, InQuotes(s, o + 1))
      BY <1>4, <3>2, <3>3, <3>5, IncludePlaces, Zenon
    <3> QED
      BY <3>3, <3>6
  <2>5. CASE o = 2
    <3>1. Awaits(f, "include", FALSE, << >>) /\ Marked(f, FALSE, FALSE)
      BY <1>4, <2>2, <2>5, IncludePlaces, Zenon
    <3>2. c = "\"" /\ o + 1 = 3
      BY <1>2b, <2>5, Nth
    <3>3. PICK g : Moved(g) /\ Follows(g) /\ Marked(g, FALSE, ~FALSE) /\ Awaits(g, "include", FALSE, << >>)
      BY <2>1, <3>1, <3>2, QuoteAwaits
    <3>4. Marked(g, FALSE, TRUE)
      BY <3>3 DEF Marked
    <3>6. InInclude(g, s, o + 1) /\ Marked(g, FALSE, InQuotes(s, o + 1))
      BY <1>4, <3>2, <3>3, <3>4, IncludePlaces, Zenon
    <3> QED
      BY <3>3, <3>6
  <2>6. CASE o = 3
    <3>1. Awaits(f, "include", FALSE, << >>) /\ Marked(f, FALSE, TRUE)
      BY <1>4, <2>2, <2>6, IncludePlaces, Zenon
    <3>2. c = s.text[4] /\ c \in Word /\ o + 1 = 4
      BY <1>2b, <2>6, Nth
    <3>2a. c \notin Blanks /\ c \notin {"\"", "#"}
      BY <3>2 DEF Word, Special, Blanks
    <3>2b. << >> \in Seq(Symbol) /\ Len(<< >>) + 1 < MAXLEN
      BY MaxLen
    <3>3. PICK g : Moved(g) /\ Follows(g) /\ Marked(g, FALSE, TRUE) /\ Awaits(g, "include", FALSE, Append(<< >>, c))
      BY <2>1, <3>1, <3>2a, <3>2b, QuotedLetter
    <3>4. Append(<< >>, c) = <<s.text[4]>>
      BY <3>2, ShortWords, Zenon
    <3>6. InInclude(g, s, o + 1) /\ Marked(g, FALSE, InQuotes(s, o + 1))
      BY <1>4, <3>2, <3>3, <3>4, IncludePlaces, Zenon
    <3> QED
      BY <3>3, <3>6
  <2>7. CASE o = 4
    <3>1. Awaits(f, "include", FALSE, <<s.text[4]>>) /\ Marked(f, FALSE, TRUE)
      BY <1>4, <2>2, <2>7, IncludePlaces, Zenon
    <3>2. c = "\"" /\ o + 1 = 5
      BY <1>2b, <2>7, Nth
    <3>3. PICK g : Moved(g) /\ Follows(g) /\ Marked(g, FALSE, ~TRUE) /\ Awaits(g, "include", FALSE, <<s.text[4]>>)
      BY <2>1, <3>1, <3>2, QuoteAwaits
    <3>4. Marked(g, FALSE, FALSE)
      BY <3>3 DEF Marked
    <3>6. InInclude(g, s, o + 1) /\ Marked(g, FALSE, InQuotes(s, o + 1))
      BY <1>4, <3>2, <3>3, <3>4, IncludePlaces, Zenon
    <3> QED
      BY <3>3, <3>6
  <2>8. CASE o = 5
    <3>1. Awaits(f, "include", FALSE, <<s.text[4]>>) /\ Marked(f, FALSE, FALSE)
      BY <1>4, <2>2, <2>8, IncludePlaces, Zenon
    <3>2. c = ";" /\ o + 1 = 6
      BY <1>2b, <2>8, Nth
    <3>3. PICK g : Moved(g) /\ Follows(g) /\ Marked(g, FALSE, FALSE) /\ Awaits(g, "include", FALSE, <<s.text[4]>>)
      BY <2>1, <3>1, <3>2, PassAwaits
    <3>6. InInclude(g, s, o + 1) /\ Marked(g, FALSE, InQuotes(s, o + 1))
      BY <1>4, <3>2, <3>3, IncludePlaces, Zenon
    <3> QED
      BY <3>3, <3>6
  <2> QED
    BY <1>8, <1>10, <2>4, <2>5, <2>6, <2>7, <2>8
<1> QED
  BY <1>9, <1>10

-----------------------------------------------------------------------------
(* The environment behind an include phrase. *)
LEMMA IncludeEnv ==
  ASSUME NEW s, NEW t, s.env \in Env, NEW cfg, Inclusion(cfg, s, t)
  PROVE  /\ s.kind = "include" /\ s.callee \in DOMAIN cfg.layout /\ cfg.layout[s.callee].file = s.text[4]
         /\ t.env.mode = "clause" /\ t.env.braces = s.env.braces /\ t.env.scope = s.env.scope
         /\ t.env.net = s.env.net
         /\ t.env.ranges = LastOf(cfg.layout[s.callee]).env.ranges
         /\ t.env.nets = LastOf(cfg.layout[s.callee]).env.nets
         /\ LET e == cfg.layout[s.callee].phrases[1].env IN
              /\ e.mode = "clause" /\ e.braces = 0 /\ e.scope = NoScope
              /\ e.net = s.env.net /\ e.ranges = s.env.ranges /\ e.nets = s.env.nets
<1> DEFINE R == LastOf(cfg.layout[s.callee]).env.ranges
           N == LastOf(cfg.layout[s.callee]).env.nets
           e == cfg.layout[s.callee].phrases[1].env
<1>1. /\ s.kind = "include" /\ s.callee \in DOMAIN cfg.layout /\ cfg.layout[s.callee].file = s.text[4]
      /\ e = [s.env EXCEPT !.mode = "clause", !.braces = 0, !.scope = NoScope]
      /\ t.env = [s.env EXCEPT !.mode = "clause", !.ranges = R, !.nets = N]
  BY Zenon DEF Inclusion
<1> HIDE DEF R, N, e
<1>2. /\ t.env.mode = "clause" /\ t.env.braces = s.env.braces /\ t.env.scope = s.env.scope
      /\ t.env.net = s.env.net /\ t.env.ranges = R /\ t.env.nets = N
  BY <1>1 DEF Env
<1>3. /\ e.mode = "clause" /\ e.braces = 0 /\ e.scope = NoScope
      /\ e.net = s.env.net /\ e.ranges = s.env.ranges /\ e.nets = s.env.nets
  BY <1>1 DEF Env
<1> QED
  BY <1>1, <1>2, <1>3, Zenon DEF R, N, e

(* The blank behind an include statement: the file is read, or the program
   exits. *)
LEMMA IncludeTurn ==
  ASSUME ParserInv, Character, Marked(f, FALSE, FALSE), c \in Blanks, NEW x, Awaits(f, "include", FALSE, <<x>>)
  PROVE  /\ UNCHANGED <<config, ranges, slot, RANGES, nets>>
         /\ phase' = "parse" =>
              \E g : /\ stack' = Append(Put(g), Call(x, f.shared_p)) /\ Follows(g) /\ Marked(g, FALSE, FALSE)
                     /\ Flags(g, TRUE, "nothing", FALSE, << >>)
<1>1. f.newclause = FALSE /\ f.argument = "include" /\ f.one_ip = FALSE /\ f.word = <<x>>
  BY ReadFields DEF Awaits, Flags
<1>2. f.comment = FALSE /\ f.quote = FALSE
  BY DEF Marked
<1>2a. f.word # << >>
  <2>1. <<x>> # << >>
    BY ShortWords, Zenon
  <2> QED
    BY <1>1, <2>1, Zenon
<1>2b. InWord
  BY <1>1, <1>2 DEF InWord
<1>3. ~Unquoted("{") /\ g1.comment = FALSE
  <2>1. ~Unquoted("{")
    BY DEF Unquoted, Blanks
  <2> QED
    BY <1>2, <2>1, ReadFields
<1>4. Include
  <2>1. ~f.newclause /\ f.argument # "first_ip" /\ f.argument # "second_ip" /\ f.argument # "sharednet"
        /\ f.argument # "subnet" /\ f.argument # "netmask" /\ ~f.quote
    BY <1>1, <1>2
  <2> QED
    BY <1>2a, <1>2b, <2>1, EndOfWord
<1>5. g1 \in Frame /\ g1.one_ip = FALSE /\ g1.word = <<x>>
  BY <1>1, ReadFields
<1>5a. g1.word[1] = x
  <2>1. <<x>>[1] = x
    OBVIOUS
  <2> QED
    BY <1>5, <2>1, Zenon
<1> DEFINE k == Reset(g1)
           g == [k EXCEPT !.argument = "nothing", !.newclause = TRUE]
<1>6. /\ UNCHANGED <<config, ranges, slot, RANGES, nets>>
      /\ phase' = "parse" => stack' = Append(Put(g), Call(g1.word[1], f.shared_p))
  BY <1>4 DEF Include
<1>7. k \in Frame /\ k.word = << >>
  BY <1>5, ResetFits DEF Fitting
<1>8. /\ k.file = g1.file /\ k.pos = g1.pos /\ k.braces = g1.braces /\ k.braces_shared = g1.braces_shared
      /\ k.shared_p = g1.shared_p /\ k.range_p = g1.range_p
      /\ k.comment = g1.comment /\ k.quote = g1.quote /\ k.one_ip = g1.one_ip
  BY <1>5 DEF Reset, Frame
<1> HIDE DEF k
<1>9. /\ g.file = k.file /\ g.pos = k.pos /\ g.braces = k.braces /\ g.braces_shared = k.braces_shared
      /\ g.shared_p = k.shared_p /\ g.range_p = k.range_p /\ g.comment = k.comment /\ g.quote = k.quote
      /\ Flags(g, TRUE, "nothing", k.one_ip, k.word)
  BY <1>7 DEF Frame, Flags
<1> HIDE DEF g
<1>10. Follows(g) /\ Marked(g, FALSE, FALSE)
  BY <1>2, <1>3, <1>8, <1>9, ReadFields DEF Follows, Scoped, Marked
<1>11. Flags(g, TRUE, "nothing", FALSE, << >>)
  BY <1>5, <1>7, <1>8, <1>9 DEF Flags
<1>12. phase' = "parse" => stack' = Append(Put(g), Call(x, f.shared_p))
  BY <1>5a, <1>6
<1> QED
  BY <1>6, <1>10, <1>11, <1>12

(* The end of an include phrase. *)
LEMMA IncludeCalls ==
  ASSUME NEW s, NEW t, NEW o, Here(s, t, o), Inclusion(config, s, t), o = 6
  PROVE  /\ UNCHANGED <<config, ranges, slot, RANGES, nets>>
         /\ phase' = "parse" =>
              \E g : /\ stack' = Append(Put(g), Call(s.text[4], s.env.net))
                     /\ g.file = f.file /\ g.pos = t.at /\ Between(g, t.env)
<1>1. s.kind = "include" /\ s.env \in Env
  BY HereFacts DEF Inclusion
<1>2. IncludeText(s) /\ Len(s.text) = 7
  BY IncludeParts
<1>2a. Len(s.text) = 7
  BY <1>2, Zenon
<1>3. s.kind # "end" /\ o # 0
  BY <1>1
<1>4. ParserInv /\ Character /\ Inside(f, s, o, SlotPointer, slot)
  BY <1>3, Amid
<1>4a. Inside(f, s, 6, SlotPointer, slot)
  BY <1>4
<1>5. Marked(f, FALSE, InQuotes(s, 6)) /\ Scoped(f, s.env) /\ InInclude(f, s, 6)
  BY <1>1, <1>4a, InInclusion, Zenon
<1>6. InQuotes(s, 6) = FALSE
  <2>1. InQuotes(s, 6) <=> 6 \in 3..4
    BY <1>1 DEF InQuotes
  <2>2. InQuotes(s, 6) \in BOOLEAN
    BY <1>1 DEF InQuotes
  <2> QED
    BY <2>1, <2>2
<1>7. Marked(f, FALSE, FALSE) /\ Awaits(f, "include", FALSE, <<s.text[4]>>)
  BY <1>5, <1>6, IncludePlaces, Zenon
<1>8. c \in Blanks
  <2>1. s.text[7] \in Blanks
    BY <1>2 DEF IncludeText
  <2> QED
    BY <2>1, Nth
<1>9. /\ UNCHANGED <<config, ranges, slot, RANGES, nets>>
      /\ phase' = "parse" =>
           \E g : /\ stack' = Append(Put(g), Call(s.text[4], f.shared_p)) /\ Follows(g) /\ Marked(g, FALSE, FALSE)
                  /\ Flags(g, TRUE, "nothing", FALSE, << >>)
  BY <1>4, <1>7, <1>8, IncludeTurn
<1>10. SUFFICES ASSUME phase' = "parse"
                PROVE \E g : /\ stack' = Append(Put(g), Call(s.text[4], s.env.net))
                             /\ g.file = f.file /\ g.pos = t.at /\ Between(g, t.env)
  BY <1>9
<1>11. PICK g : /\ stack' = Append(Put(g), Call(s.text[4], f.shared_p)) /\ Follows(g) /\ Marked(g, FALSE, FALSE)
                /\ Flags(g, TRUE, "nothing", FALSE, << >>)
  BY <1>9, <1>10
<1>12. f.shared_p = s.env.net
  BY <1>5 DEF Scoped
<1>13. t.env.mode = "clause" /\ t.env.braces = s.env.braces /\ t.env.scope = s.env.scope
       /\ t.env.net = s.env.net
  BY <1>1, IncludeEnv
<1>14. Scoped(g, t.env)
  BY <1>5, <1>11, <1>13 DEF Scoped, Follows
<1>15. Between(g, t.env)
  BY <1>11, <1>13, <1>14 DEF Between, Idle, Unmarked, Marked, Flags
<1>16. g.file = f.file /\ g.pos = t.at
  <2>1. g.file = f.file /\ g.pos = f.pos + 1
    BY <1>11 DEF Follows
  <2>2. o + 1 = Len(s.text)
    BY <1>2a
  <2> QED
    BY <2>1, <2>2, HereFacts
<1> QED
  BY <1>11, <1>12, <1>15, <1>16

-----------------------------------------------------------------------------
(* Every phrase *)

(* A phrase before the last one has a text, and is not the end of the file. *)
LEMMA PhraseText ==
  ASSUME NEW s, NEW t, NEW cfg, Production(cfg, s, t), s.text \in Seq(Symbol)
  PROVE  s.kind # "end" /\ Len(s.text) > 0
<1>0. Len(s.text) \in Nat
  OBVIOUS
<1>1. CASE Space(s, t) \/ Semicolon(s, t) \/ NextWord(s, t) \/ Open(s, t) \/ Close(s, t)
  <2>1. s.kind # "end" /\ \E A : Form(s, <<A>>)
    BY <1>1 DEF Space, Semicolon, NextWord, Open, Close
  <2>2. Len(s.text) = 1
    BY <2>1, Form1, Zenon
  <2> QED
    BY <2>1, <2>2
<1>2. CASE Comment(s, t) \/ Quotation(s, t)
  <2>1. s.kind # "end" /\ Len(s.text) > 1
    BY <1>2 DEF Comment, Quotation
  <2> QED
    BY <1>0, <2>1
<1>3. CASE FirstWord(cfg, s, t) \/ Bare(s, t)
  <2>1. s.kind # "end" /\ \E A, B : Form(s, <<A, B>>)
    BY <1>3 DEF FirstWord, Bare
  <2>2. Len(s.text) = 2
    BY <2>1, Form2, Zenon
  <2> QED
    BY <2>1, <2>2
<1>4. CASE Glued(cfg, s, t)
  <2>1. s.kind # "end" /\ \E A, B, C : Form(s, <<A, B, C>>)
    BY <1>4 DEF Glued
  <2>2. Len(s.text) = 3
    BY <2>1, Form3, Zenon
  <2> QED
    BY <2>1, <2>2
<1>5. CASE Shared(cfg, s, t) \/ Inner(cfg, s, t)
  <2>1. s.kind # "end" /\ \E A, B, C, D : Form(s, <<A, B, C, D>>)
    BY <1>5 DEF Shared, Inner
  <2>2. Len(s.text) = 4
    BY <2>1, Form4, Zenon
  <2> QED
    BY <2>1, <2>2
<1>6. CASE Quoted(cfg, s, t)
  <2>1. s.kind # "end" /\ Len(s.text) \in 6..(MAXLEN + 4)
    BY <1>6 DEF Quoted
  <2> QED
    BY <1>0, <2>1, MaxLen
<1>7. CASE Subnet(cfg, s, t)
  <2>1. s.kind # "end"
    BY <1>7 DEF Subnet
  <2>2. \E A, B, C, D, E, F, G, H : Form(s, <<A, B, C, D, E, F, G, H>>)
    BY <1>7, Zenon DEF Subnet
  <2>3. Len(s.text) = 8
    BY <2>2, Form8, Zenon
  <2> QED
    BY <2>1, <2>3
<1>8. CASE Inclusion(cfg, s, t)
  <2>1. s.kind # "end"
    BY <1>8 DEF Inclusion
  <2>2. \E A, B, C, D, E, F, G : Form(s, <<A, B, C, D, E, F, G>>)
    BY <1>8, Zenon DEF Inclusion
  <2>3. Len(s.text) = 7
    BY <2>2, Form7, Zenon
  <2> QED
    BY <2>1, <2>3
<1>9. CASE Two(cfg, s, t)
  <2> DEFINE F == Blanks \cup {";"}
  <2>1. s.kind = "two" /\ Statement(s) /\ RangeOf(s, <<Blanks, Address, F>>)
    BY <1>9 DEF Two, Statement
  <2> HIDE DEF F
  <2>2. PICK a : Followed(s, a, 3)
    BY <2>1, LongText
  <2> QED
    BY <2>1, <2>2 DEF Followed
<1>10. CASE One(cfg, s, t) \/ Spaced(cfg, s, t)
  <2>1. (s.kind = "one" \/ s.kind = "spaced") /\ Statement(s) /\ \E A, B : RangeOf(s, <<A, B>>)
    BY <1>10 DEF One, Spaced, Statement
  <2>2. PICK a : Followed(s, a, 2)
    BY <2>1, ShortText
  <2> QED
    BY <2>1, <2>2 DEF Followed
<1> QED
  BY <1>1, <1>2, <1>3, <1>4, <1>5, <1>6, <1>7, <1>8, <1>9, <1>10, Zenon DEF Production

(* One character of any phrase; the end of an include phrase is a call. *)
LEMMA PhraseStep ==
  ASSUME NEW s, NEW t, NEW o, Here(s, t, o), Production(config, s, t), ~(s.kind = "include" /\ o = 6)
  PROVE  Goes(s, t, o)
<1>1. CASE Space(s, t) \/ NextWord(s, t)
  BY <1>1, SpaceStep
<1>2. CASE Comment(s, t)
  BY <1>2, CommentStep
<1>3. CASE Semicolon(s, t)
  BY <1>3, SemicolonStep
<1>4. CASE FirstWord(config, s, t)
  BY <1>4, HeadStep
<1>5. CASE Bare(s, t)
  BY <1>5, BareStep
<1>6. CASE Glued(config, s, t)
  BY <1>6, GluedStep
<1>7. CASE Quotation(s, t)
  BY <1>7, StringStep
<1>8. CASE Open(s, t)
  BY <1>8, OpenStep
<1>9. CASE Close(s, t)
  BY <1>9, CloseStep
<1>10. CASE Shared(config, s, t)
  BY <1>10, SharedStep
<1>11. CASE Quoted(config, s, t)
  BY <1>11, QuotedStep
<1>12. CASE Subnet(config, s, t)
  BY <1>12, SubnetStep
<1>13. CASE Inner(config, s, t)
  BY <1>13, InnerStep
<1>14. CASE Two(config, s, t)
  BY <1>14, TwoStep
<1>15. CASE One(config, s, t)
  BY <1>15, OneStep
<1>16. CASE Spaced(config, s, t)
  BY <1>16, SpacedStep
<1>17. CASE Inclusion(config, s, t)
  <2>1. o # 6
    BY <1>17 DEF Inclusion
  <2> QED
    BY <1>17, <2>1, IncludeStep
<1> QED
  BY <1>1, <1>2, <1>3, <1>4, <1>5, <1>6, <1>7, <1>8, <1>9, <1>10, <1>11, <1>12, <1>13, <1>14, <1>15, <1>16, <1>17, Zenon
     DEF Production

-----------------------------------------------------------------------------
(* The readings of a layout *)

Phrases(r) == config.layout[r].phrases

(* The layout of the configuration. *)
LEMMA LayoutFacts ==
  ASSUME LaidOut, ParserInv
  PROVE  /\ Declarations /\ config.layout \in Seq(Reading(config)) /\ 1 \in DOMAIN config.layout
         /\ \A r \in DOMAIN config.layout : IsReading(config, config.layout[r]) /\ Phrases(r) \in Seq(Phrase)
         /\ config.layout[1].file = "main" /\ Phrases(1)[1].env.net = 0
         /\ Phrases(1)[1].env.ranges = 0 /\ Phrases(1)[1].env.nets = 0
         /\ LastOf(config.layout[1]).env.ranges = Len(config.ranges)
         /\ LastOf(config.layout[1]).env.nets = Len(config.nets)
<1>1. config \in Configs
  BY DEF ParserInv, TypeOK
<1>2. IsLayout(config)
  BY DEF LaidOut
<1>3. Declarations /\ config.layout \in Seq(Reading(config)) /\ config.layout # << >>
  BY <1>2 DEF IsLayout, Declarations
<1>4. \A r \in DOMAIN config.layout : IsReading(config, config.layout[r])
  BY <1>2, Zenon DEF IsLayout
<1>5. /\ config.layout[1].file = "main" /\ Phrases(1)[1].env.net = 0
      /\ Phrases(1)[1].env.ranges = 0 /\ Phrases(1)[1].env.nets = 0
      /\ LastOf(config.layout[1]).env.ranges = Len(config.ranges)
      /\ LastOf(config.layout[1]).env.nets = Len(config.nets)
  BY <1>2, Zenon DEF IsLayout, Phrases
<1>6. 1 \in DOMAIN config.layout
  <2> DEFINE R == Reading(config)
             q == config.layout
  <2>1. q \in Seq(R) /\ q # << >>
    BY <1>3
  <2> HIDE DEF R, q
  <2>2. 1 \in DOMAIN q
    BY <2>1
  <2> QED
    BY <2>2 DEF q
<1>7. \A r \in DOMAIN config.layout : Phrases(r) \in Seq(Phrase)
  <2>1. SUFFICES ASSUME NEW r \in DOMAIN config.layout PROVE Phrases(r) \in Seq(Phrase)
    OBVIOUS
  <2> DEFINE R == Reading(config)
             q == config.layout
  <2>2. q \in Seq(R) /\ r \in DOMAIN q
    BY <1>3, <2>1
  <2> HIDE DEF R, q
  <2>3. q[r] \in R
    BY <2>2
  <2> QED
    BY <2>3 DEF R, q, Reading, Phrases
<1> QED
  BY <1>3, <1>4, <1>5, <1>6, <1>7

(* The phrases of a reading. *)
LEMMA ReadingFacts ==
  ASSUME LaidOut, ParserInv, NEW r \in DOMAIN config.layout
  PROVE  /\ Len(Phrases(r)) \in Nat /\ Len(Phrases(r)) > 0
         /\ DOMAIN Phrases(r) = 1..Len(Phrases(r))
         /\ \A k \in DOMAIN Phrases(r) : Phrases(r)[k] \in Phrase
         /\ Phrases(r)[1].at = 0 /\ Phrases(r)[1].env.mode = "clause"
         /\ Phrases(r)[1].env.braces = 0 /\ Phrases(r)[1].env.scope = NoScope
         /\ Phrases(r)[Len(Phrases(r))].kind = "end"
         /\ Phrases(r)[Len(Phrases(r))].at = Len(config.files[config.layout[r].file])
         /\ LastOf(config.layout[r]) = Phrases(r)[Len(Phrases(r))]
<1>1. IsReading(config, config.layout[r]) /\ Phrases(r) \in Seq(Phrase)
  BY LayoutFacts
<1>2. /\ Len(Phrases(r)) > 0 /\ Phrases(r)[1].at = 0 /\ Phrases(r)[1].env.mode = "clause"
      /\ Phrases(r)[1].env.braces = 0 /\ Phrases(r)[1].env.scope = NoScope
      /\ Phrases(r)[Len(Phrases(r))].kind = "end"
      /\ Phrases(r)[Len(Phrases(r))].at = Len(config.files[config.layout[r].file])
  BY <1>1, Zenon DEF IsReading, Phrases
<1>3. LastOf(config.layout[r]) = Phrases(r)[Len(Phrases(r))]
  BY DEF LastOf, Phrases
<1>4. /\ Len(Phrases(r)) \in Nat /\ DOMAIN Phrases(r) = 1..Len(Phrases(r))
      /\ \A k \in DOMAIN Phrases(r) : Phrases(r)[k] \in Phrase
  <2> DEFINE q == Phrases(r)
             P == Phrase
  <2>1. q \in Seq(P)
    BY <1>1
  <2> HIDE DEF q, P
  <2>2. Len(q) \in Nat /\ DOMAIN q = 1..Len(q) /\ \A k \in DOMAIN q : q[k] \in P
    BY <2>1
  <2> QED
    BY <2>2 DEF q, P
<1> QED
  BY <1>2, <1>3, <1>4

(* A phrase before the end of the file, and the one behind it. *)
LEMMA BetweenPhrases ==
  ASSUME LaidOut, ParserInv, NEW r \in DOMAIN config.layout, NEW k \in DOMAIN Phrases(r), k # Len(Phrases(r))
  PROVE  LET s == Phrases(r)[k]
             t == Phrases(r)[k + 1]
             text == config.files[config.layout[r].file] IN
         /\ k \in Nat /\ k > 0 /\ k + 1 \in DOMAIN Phrases(r) /\ k + 1 > 1 /\ (k + 1) - 1 = k
         /\ s \in Phrase /\ t \in Phrase
         /\ t.at = s.at + Len(s.text) /\ t.at <= Len(text)
         /\ \A x \in 1..Len(s.text) : text[s.at + x] = s.text[x]
         /\ Production(config, s, t)
         /\ s.kind # "end" /\ Len(s.text) > 0
<1> DEFINE s == Phrases(r)[k]
           t == Phrases(r)[k + 1]
           text == config.files[config.layout[r].file]
           n == Len(Phrases(r))
<1>1. k \in 1..(n - 1) /\ k + 1 \in DOMAIN Phrases(r) /\ k \in Nat /\ k > 0 /\ k + 1 > 1 /\ (k + 1) - 1 = k
  <2>1. n \in Nat /\ DOMAIN Phrases(r) = 1..n
    BY ReadingFacts
  <2> QED
    BY <2>1
<1>2. s \in Phrase /\ t \in Phrase
  BY <1>1, ReadingFacts
<1>3. IsReading(config, config.layout[r])
  BY LayoutFacts
<1>4. \A j \in 1..(n - 1) :
        /\ Phrases(r)[j + 1].at = Phrases(r)[j].at + Len(Phrases(r)[j].text)
        /\ Phrases(r)[j + 1].at <= Len(text)
        /\ \A x \in 1..Len(Phrases(r)[j].text) : text[Phrases(r)[j].at + x] = Phrases(r)[j].text[x]
        /\ Production(config, Phrases(r)[j], Phrases(r)[j + 1])
  BY <1>3, Zenon DEF IsReading, Phrases
<1>5. /\ t.at = s.at + Len(s.text) /\ t.at <= Len(text)
      /\ \A x \in 1..Len(s.text) : text[s.at + x] = s.text[x]
      /\ Production(config, s, t)
  BY <1>1, <1>4, Zenon
<1>6. s.text \in Seq(Symbol)
  BY <1>2 DEF Phrase
<1>7. s.kind # "end" /\ Len(s.text) > 0
  BY <1>5, <1>6, PhraseText
<1> QED
  BY <1>1, <1>2, <1>5, <1>7, Zenon

-----------------------------------------------------------------------------
(* The inductive invariant *)

\* The call that runs has read the first o symbols of phrase k of the reading r.
Reads(r, k, o) ==
  /\ r \in DOMAIN config.layout /\ f.file = config.layout[r].file
  /\ k \in DOMAIN Phrases(r) /\ o \in Offsets(Phrases(r)[k])
  /\ At(f, Phrases(r)[k], o) /\ Known(Phrases(r)[k], o)

\* The call g is behind an include phrase, before phrase k of the reading r.
Waits(g, r, k, callee) ==
  /\ r \in DOMAIN config.layout /\ g.file = config.layout[r].file
  /\ k \in DOMAIN Phrases(r) /\ k - 1 \in DOMAIN Phrases(r)
  /\ Phrases(r)[k - 1].kind = "include" /\ Phrases(r)[k - 1].callee = callee
  /\ g.pos = Phrases(r)[k].at /\ Between(g, Phrases(r)[k].env)

\* Call x is the reading rs[x]; it waits for the next one before phrase ks[x].
Chain(rs, ks) ==
  /\ rs[1] = 1
  /\ \A x \in 1..(Len(stack) - 1) : Waits(stack[x], rs[x], ks[x], rs[x + 1])
Tracked ==
  \E rs, ks, k, o : Chain(rs, ks) /\ Reads(rs[Len(stack)], k, o)

Outcome ==
  /\ IsPrefix(ranges, config.ranges)
  /\ phase = "done" => ranges = config.ranges /\ [x \in DOMAIN nets |-> nets[x].name] = config.nets

LayoutInv == (phase = "parse" => Tracked) /\ Outcome

\* Character o + 1 of the phrase s, before the phrase t, is the next one.
Place(s, t, o) ==
  /\ s \in Phrase /\ t \in Phrase /\ t.at = s.at + Len(s.text)
  /\ o \in Nat /\ o < Len(s.text)
  /\ c = s.text[o + 1]
  /\ At(f, s, o) /\ Known(s, o)
  /\ Production(config, s, t)

(* Where a call is in its reading. *)
LEMMA PlaceIs ==
  ASSUME LaidOut, ParserInv, NEW r, NEW k, NEW o, Reads(r, k, o), k # Len(Phrases(r))
  PROVE  Place(Phrases(r)[k], Phrases(r)[k + 1], o)
<1> DEFINE s == Phrases(r)[k]
           t == Phrases(r)[k + 1]
           text == config.files[config.layout[r].file]
<1>1. /\ r \in DOMAIN config.layout /\ f.file = config.layout[r].file
      /\ k \in DOMAIN Phrases(r) /\ o \in Offsets(s)
      /\ At(f, s, o) /\ Known(s, o)
  BY DEF Reads
<1>2. /\ s \in Phrase /\ t \in Phrase /\ t.at = s.at + Len(s.text) /\ t.at <= Len(text)
      /\ \A x \in 1..Len(s.text) : text[s.at + x] = s.text[x]
      /\ s.kind # "end" /\ Len(s.text) > 0 /\ Production(config, s, t)
  BY <1>1, BetweenPhrases
<1>3. s.at \in Nat /\ Len(s.text) \in Nat
  BY <1>2 DEF Phrase
<1>4. Text = text /\ text \in Seq(Symbol)
  BY <1>1, CurrentCall DEF Text
<1> HIDE DEF s, t, text
<1>5. o \in Nat /\ o < Len(s.text)
  BY <1>1, <1>2, <1>3 DEF Offsets
<1>6. f.pos = s.at + o
  BY <1>1 DEF At
<1>7. c = s.text[o + 1]
  <2>1. f.pos < Len(Text)
    BY <1>2, <1>3, <1>4, <1>5, <1>6
  <2>2. c = Text[f.pos + 1]
    BY <2>1, Zenon DEF c
  <2>3. f.pos + 1 = s.at + (o + 1) /\ o + 1 \in 1..Len(s.text)
    BY <1>3, <1>5, <1>6
  <2> QED
    BY <1>2, <1>4, <2>2, <2>3
<1>8. Place(s, t, o)
  BY <1>1, <1>2, <1>5, <1>7 DEF Place
<1> QED
  BY <1>8 DEF s, t

(* A turn of the loop in a phrase. *)
LEMMA HereIs ==
  ASSUME LaidOut, ParserInv, Character, NEW r, NEW k, NEW o, Reads(r, k, o), k # Len(Phrases(r))
  PROVE  Here(Phrases(r)[k], Phrases(r)[k + 1], o)
<1>1. Declarations
  BY LayoutFacts
<1>2. Place(Phrases(r)[k], Phrases(r)[k + 1], o)
  BY PlaceIs
<1> QED
  BY <1>1, <1>2, Zenon DEF Place, Here

(* A step of the call that runs keeps the others where they wait. *)
LEMMA ChainKept ==
  ASSUME ParserInv, NEW g, stack' = Put(g), config' = config, NEW rs, NEW ks, Chain(rs, ks)
  PROVE  Chain(rs, ks)' /\ Len(stack') = Len(stack)
<1>1. Len(stack') = Len(stack) /\ \A x \in 1..(Len(stack) - 1) : stack'[x] = stack[x]
  BY PutIs
<1>2. \A h, r, k, callee : Waits(h, r, k, callee) => Waits(h, r, k, callee)'
  BY DEF Waits, Phrases
<1> QED
  BY <1>1, <1>2 DEF Chain

-----------------------------------------------------------------------------
(* The pointer that a range is completed through *)

IsSemicolon(x) == x = ";"

(* No phrase begins with a semicolon while `range A ;' waits for the next
   clause. *)
LEMMA FirstSymbol ==
  ASSUME NEW s \in Phrase, NEW t, Production(config, s, t), s.env.mode = "pending"
  PROVE  ~IsSemicolon(s.text[1])
<1>0. /\ \A x : x \in Word \/ x \in Blanks \/ x \in {"{"} \/ x \in {"}"} => ~IsSemicolon(x)
      /\ \A x : x \in {"#"} \/ x \in {"\""} \/ x \in {"range"} => ~IsSemicolon(x)
      /\ \A x : x \in {"shared-network"} \/ x \in {"subnet"} \/ x \in {"include"} => ~IsSemicolon(x)
  BY Zenon DEF IsSemicolon, Word, Special, Blanks
<1>1. CASE Space(s, t) \/ NextWord(s, t) \/ Open(s, t) \/ Close(s, t)
  <2>1. s.text[1] \in Blanks \/ s.text[1] \in Word \/ s.text[1] \in {"{"} \/ s.text[1] \in {"}"}
    BY <1>1, Form1 DEF Space, NextWord, Open, Close
  <2> QED
    BY <1>0, <2>1, Zenon
<1>2. CASE Semicolon(s, t) \/ Bare(s, t)
  BY <1>2 DEF Semicolon, Bare
<1>3. CASE Comment(s, t) \/ Quotation(s, t) \/ Quoted(config, s, t)
  <2>1. s.text[1] \in {"#"} \/ s.text[1] \in {"\""} \/ s.text[1] \in {"shared-network"}
    BY <1>3 DEF Comment, Quotation, Quoted
  <2> QED
    BY <1>0, <2>1, Zenon
<1>4. CASE FirstWord(config, s, t)
  <2>1. s.text[1] \in Word \ Keywords(config)
    BY <1>4, Form2 DEF FirstWord
  <2> QED
    BY <1>0, <2>1, Zenon
<1>5. CASE Glued(config, s, t)
  <2>1. s.text[1] \in Word \ Keywords(config)
    BY <1>5, Form3 DEF Glued
  <2> QED
    BY <1>0, <2>1, Zenon
<1>6. CASE Shared(config, s, t) \/ Inner(config, s, t)
  <2>1. \E A, B, C, D : Form(s, <<A, B, C, D>>) /\ (A = {"shared-network"} \/ A = {"subnet"})
    BY <1>6, Zenon DEF Shared, Inner
  <2>2. s.text[1] \in {"shared-network"} \/ s.text[1] \in {"subnet"}
    BY <2>1, Form4, Zenon
  <2> QED
    BY <1>0, <2>2, Zenon
<1>7. CASE Subnet(config, s, t)
  <2>1. s.text[1] \in {"subnet"}
    BY <1>7, Form8, Zenon DEF Subnet
  <2> QED
    BY <1>0, <2>1, Zenon
<1>8. CASE Inclusion(config, s, t)
  <2>1. s.text[1] \in {"include"}
    BY <1>8, Form7, Zenon DEF Inclusion
  <2> QED
    BY <1>0, <2>1, Zenon
<1>9. CASE Two(config, s, t)
  <2> DEFINE F == Blanks \cup {";"}
  <2>1. Statement(s) /\ RangeOf(s, <<Blanks, Address, F>>)
    BY <1>9 DEF Two, Statement
  <2> HIDE DEF F
  <2>2. PICK a : Starts(s, a)
    BY <2>1, LongText
  <2>3. s.text[1] \in {"range"}
    BY <2>2 DEF Starts
  <2> QED
    BY <1>0, <2>3, Zenon
<1>10. CASE One(config, s, t) \/ Spaced(config, s, t)
  <2>1. Statement(s) /\ \E A, B : RangeOf(s, <<A, B>>)
    BY <1>10 DEF One, Spaced, Statement
  <2>2. PICK a : Starts(s, a)
    BY <2>1, ShortText
  <2>3. s.text[1] \in {"range"}
    BY <2>2 DEF Starts
  <2> QED
    BY <1>0, <2>3, Zenon
<1> QED
  BY <1>1, <1>2, <1>3, <1>4, <1>5, <1>6, <1>7, <1>8, <1>9, <1>10, Zenon DEF Production

(* A word is not the empty one. *)
LEMMA OneWord == \A x, w : w = <<x>> => w # << >>
  OBVIOUS

\* A semicolon would complete a range.
Completes == ~f.quote /\ f.argument = "second_ip" /\ f.word = << >>

(* In a range statement that is so behind the first address, where the pointer
   is at the slot. *)
LEMMA InStatementPointer ==
  ASSUME NEW s, NEW t, NEW o, Place(s, t, o), o # 0,
         Statement(s), Inside(f, s, o, SlotPointer, slot), Completes
  PROVE  f.range_p = SlotPointer
<1>0. o \in Nat /\ o < Len(s.text) /\ Production(config, s, t)
  BY DEF Place
<1>1. InRange(f, s, o, SlotPointer, slot)
  BY InStatement DEF Statement
<1>2. f.argument # "first_ip" /\ f.word = << >>
  BY DEF Completes
<1>3. PICK a : First(s) = a /\ (a = 3 \/ a = 5)
  BY DEF First
<1>4. s.kind = "one" => Len(s.text) = a + 2
  <2>1. ASSUME s.kind = "one" PROVE Len(s.text) = a + 2
    <3>1. One(config, s, t)
      BY <1>0, <2>1 DEF Production, Space, Comment, Semicolon, FirstWord, Bare, Glued, NextWord, Quotation, Open, Close,
                  Shared, Quoted, Subnet, Inner, Two, Spaced, Inclusion
    <3>2. \E A, B : RangeOf(s, <<A, B>>)
      BY <3>1, Zenon DEF One
    <3>3. PICK b : Starts(s, b) /\ Followed(s, b, 2)
      BY <3>2, ShortText, Zenon
    <3> QED
      BY <1>3, <3>3 DEF Starts, Followed
  <2> QED
    BY <2>1
<1>5. CASE o > a
  <2>1. s.kind # "one"
    <3>1. SUFFICES ASSUME s.kind = "one" PROVE FALSE
      OBVIOUS
    <3>2. o = a + 1
      BY <1>0, <1>3, <1>4, <1>5, <3>1
    <3>3. Awaits(f, "second_ip", TRUE, <<s.text[a]>>)
      BY <1>1, <1>3, <3>1, <3>2, AfterOne
    <3>4. f.word = <<s.text[a]>>
      BY <3>3 DEF Awaits, Flags
    <3> QED
      BY <1>2, <3>4, OneWord, Zenon
  <2> QED
    BY <1>1, <1>3, <1>5, <2>1 DEF InRange
<1>6. CASE ~(o > a)
  <2>1. o = 1 \/ o = 2 \/ o = 3 \/ (a = 5 /\ (o = 4 \/ o = 5))
    BY <1>0, <1>3, <1>6
  <2>2. ~Awaits(f, "first_ip", TRUE, << >>) /\ ~Awaits(f, "first_ip", TRUE, <<s.text[3]>>)
        /\ ~Awaits(f, "first_ip", TRUE, <<s.text[5]>>)
    BY <1>2 DEF Awaits, Flags
  <2>3. ~HasWord(f, s)
    BY <1>2 DEF HasWord
  <2> QED
    BY <1>1, <1>3, <2>1, <2>2, <2>3, BeforeFirst
<1> QED
  BY <1>5, <1>6

(* In the other phrases no argument is awaited, or another one, or there is a
   word; or the semicolon is one of those that the layout has not. *)
LEMMA PhrasePointer ==
  ASSUME NEW s, NEW t, NEW o, Place(s, t, o), IsSemicolon(c), Completes
  PROVE  f.range_p = SlotPointer
<1>1. f.word = << >> /\ f.argument = "second_ip" /\ ~f.quote
  BY DEF Completes
<1>0. s \in Phrase /\ o \in Nat /\ o < Len(s.text) /\ Production(config, s, t) /\ At(f, s, o)
  BY DEF Place
<1>c. IsSemicolon(s.text[o + 1])
  BY Zenon DEF Place
<1>2. s.text \in Seq(Symbol) /\ Len(s.text) \in Nat
  BY <1>0 DEF Phrase
<1>3. ASSUME Idle(f, s.env) PROVE s.env.mode = "pending"
  BY <1>1, <1>3 DEF Idle, Flags
<1>4. CASE o = 0
  <2>1. s.env.mode = "pending"
    BY <1>0, <1>3, <1>4 DEF At, Between
  <2>2. ~IsSemicolon(s.text[1])
    BY <1>0, <2>1, FirstSymbol
  <2>3. 1 = o + 1
    BY <1>4
  <2> QED
    BY <1>c, <2>2, <2>3, Zenon
<1>5. ~HasWord(f, s)
  BY <1>1 DEF HasWord
<1>6. CASE o # 0
  <2>1. s.kind # "end"
    BY <1>0, <1>2, PhraseText
  <2>2. Inside(f, s, o, SlotPointer, slot)
    BY <1>0, <1>6, <2>1 DEF At
  <2>3. CASE Statement(s)
    BY <1>6, <2>2, <2>3, InStatementPointer
  <2>4. CASE Comment(s, t)
    <3>1. s.kind = "comment"
      BY <2>4 DEF Comment
    <3>2. s.env.mode = "pending"
      BY <1>3, <2>2, <3>1, InComment
    <3>3. /\ s.text[Len(s.text)] = "\n" /\ Len(s.text) > 1
          /\ \A x \in 2..(Len(s.text) - 1) : ~IsSemicolon(s.text[x])
      BY <2>4, <3>2, Zenon DEF Comment, IsSemicolon
    <3>4. o + 1 = Len(s.text) \/ o + 1 \in 2..(Len(s.text) - 1)
      BY <1>0, <1>2, <1>6
    <3>6. s.text[o + 1] # "\n" /\ ~(o + 1 \in 2..(Len(s.text) - 1))
      BY <1>c, <3>3, Zenon DEF IsSemicolon
    <3> QED
      BY <3>3, <3>4, <3>6, Zenon
  <2>5. CASE Quotation(s, t)
    <3>1. s.kind = "string"
      BY <2>5 DEF Quotation
    <3> QED
      BY <1>1, <2>2, <3>1, InString DEF Marked
  <2>6. CASE FirstWord(config, s, t) \/ Bare(s, t)
    <3>1. s.kind = "head" \/ s.kind = "bare"
      BY <2>6 DEF FirstWord, Bare
    <3> QED
      BY <1>5, <2>2, <3>1, InHead
  <2>7. CASE Glued(config, s, t)
    <3>1. s.kind = "glued" /\ Len(s.text) = 3
      BY <2>7, Form3 DEF Glued
    <3>2. o = 1 \/ o = 2
      BY <1>0, <1>6, <3>1
    <3>3. f.word # <<s.text[1], "{">>
      BY <1>1
    <3> QED
      BY <1>5, <2>2, <3>1, <3>2, <3>3, InGlued
  <2>8. CASE Space(s, t) \/ Semicolon(s, t) \/ NextWord(s, t) \/ Open(s, t) \/ Close(s, t)
    <3>1. \E A : Form(s, <<A>>)
      BY <2>8 DEF Space, Semicolon, NextWord, Open, Close
    <3>2. Len(s.text) = 1
      BY <3>1, Form1, Zenon
    <3> QED
      BY <1>0, <1>6, <3>2
  <2>9. CASE Shared(config, s, t) \/ Quoted(config, s, t)
    <3>1. s.kind = "shared" \/ s.kind = "quoted"
      BY <2>9 DEF Shared, Quoted
    <3>2. InNetwork(f, s, o)
      BY <2>2, <3>1, InShared
    <3>3. \A w : ~Awaits(f, "sharednet", FALSE, w)
      BY <1>1 DEF Awaits, Flags
    <3>4. o = 1 \/ o = 2 \/ o = 3 \/ o > 3
      BY <1>0, <1>6
    <3> QED
      BY <1>5, <3>2, <3>3, <3>4, Zenon DEF InNetwork
  <2>10. CASE Subnet(config, s, t) \/ Inner(config, s, t)
    <3>1. s.kind = "subnet" \/ s.kind = "inner"
      BY <2>10, Zenon DEF Subnet, Inner
    <3>2. InSubnet(f, s, o)
      BY <2>2, <3>1, InBlock
    <3>3. Len(s.text) = 8 \/ Len(s.text) = 4
      <4>1. (\E A, B, C, D : Form(s, <<A, B, C, D>>))
            \/ (\E A, B, C, D, E, F, G, H : Form(s, <<A, B, C, D, E, F, G, H>>))
        BY <2>10, Zenon DEF Subnet, Inner
      <4> QED
        BY <4>1, Form4, Form8, Zenon
    <3>4. o = 1 \/ o = 2 \/ o = 3 \/ o = 4 \/ o = 5 \/ o = 6 \/ o = 7
      BY <1>0, <1>6, <3>3, Below, Zenon
    <3>5. \A w : ~Awaits(f, "subnet", FALSE, w) /\ ~Awaits(f, "netmask", FALSE, w)
                 /\ ~Flags(f, TRUE, "nothing", FALSE, w)
      BY <1>1 DEF Awaits, Flags
    <3> QED
      BY <1>5, <3>2, <3>4, <3>5 DEF InSubnet
  <2>11. CASE Inclusion(config, s, t)
    <3>1. s.kind = "include"
      BY <2>11 DEF Inclusion
    <3>2. InInclude(f, s, o)
      BY <2>2, <3>1, InInclusion
    <3>3. \A w : ~Awaits(f, "include", FALSE, w)
      BY <1>1 DEF Awaits, Flags
    <3>4. o = 1 \/ o \in 2..3 \/ o > 3
      BY <1>0, <1>6
    <3> QED
      BY <1>5, <3>2, <3>3, <3>4, Zenon DEF InInclude
  <2>12. CASE Two(config, s, t) \/ One(config, s, t) \/ Spaced(config, s, t)
    <3>1. Statement(s)
      BY <2>12 DEF Two, One, Spaced, Statement
    <3> QED
      BY <2>3, <3>1
  <2> QED
    BY <2>4, <2>5, <2>6, <2>7, <2>8, <2>9, <2>10, <2>11, <2>12, <1>0, Zenon DEF Production
<1> QED
  BY <1>4, <1>6

(* Wherever the parser is in a layout, a semicolon completes a range through
   the pointer at the slot there is. *)
LEMMA PointerKept ==
  ASSUME LaidOut, ParserInv, Tracked, EndsRange
  PROVE  f.range_p = SlotPointer /\ ~Stale(f.range_p)
<1>1. PICK rs, ks, k, o : Chain(rs, ks) /\ Reads(rs[Len(stack)], k, o)
  BY DEF Tracked
<1>2. PICK r : r = rs[Len(stack)]
  OBVIOUS
<1>3. Reads(r, k, o)
  BY <1>1, <1>2
<1>4. Completes /\ IsSemicolon(c) /\ Turn
  BY Zenon DEF EndsRange, Unquoted, Completes, IsSemicolon
<1>5. k # Len(Phrases(r))
  <2>1. SUFFICES ASSUME k = Len(Phrases(r)) PROVE FALSE
    OBVIOUS
  <2>2. PICK e : e = Phrases(r)[k]
    OBVIOUS
  <2>3. r \in DOMAIN config.layout /\ f.file = config.layout[r].file /\ o \in Offsets(e) /\ f.pos = e.at + o
    BY <1>3, <2>2 DEF Reads, At
  <2>4. e.kind = "end" /\ e.at = Len(Text)
    BY <2>1, <2>2, <2>3, ReadingFacts DEF Text
  <2>5. Text \in Seq(Symbol)
    BY CurrentCall
  <2>6. ~(f.pos < Len(Text))
    BY <2>3, <2>4, <2>5 DEF Offsets
  <2> QED
    BY <1>4, <2>6, Zenon DEF c, EOF, IsSemicolon
<1>6. PICK s, t : s = Phrases(r)[k] /\ t = Phrases(r)[k + 1]
  OBVIOUS
<1>7. Place(s, t, o)
  BY <1>3, <1>5, <1>6, PlaceIs
<1>8. f.range_p = SlotPointer
  BY <1>4, <1>7, PhrasePointer
<1> QED
  BY <1>8 DEF Stale, SlotPointer

-----------------------------------------------------------------------------
(* The steps of the invariant *)

(* The place before a phrase is one of its places. *)
LEMMA FirstOffset ==
  ASSUME LaidOut, ParserInv, NEW r \in DOMAIN config.layout, NEW k \in DOMAIN Phrases(r)
  PROVE  0 \in Offsets(Phrases(r)[k])
<1>1. CASE k = Len(Phrases(r))
  <2>1. Phrases(r)[k].kind = "end"
    BY <1>1, ReadingFacts
  <2> QED
    BY <2>1 DEF Offsets
<1>2. CASE k # Len(Phrases(r))
  <2>1. /\ Phrases(r)[k].kind # "end" /\ Len(Phrases(r)[k].text) > 0 /\ Phrases(r)[k] \in Phrase
    BY <1>2, BetweenPhrases
  <2>2. Len(Phrases(r)[k].text) \in Nat
    BY <2>1 DEF Phrase
  <2> QED
    BY <2>1, <2>2 DEF Offsets
<1> QED
  BY <1>1, <1>2

(* The call that runs is the last one. *)
LEMMA StackFacts ==
  ASSUME ParserInv
  PROVE  Len(stack) \in Nat /\ Len(stack) > 0 /\ f = stack[Len(stack)] /\ stack \in Seq(Frame)
  BY CurrentCall DEF ParserInv, TypeOK, f

(* A character of a phrase. *)
LEMMA PhraseMoves ==
  ASSUME LaidOut, ParserInv, Character, NEW rs, NEW ks, Chain(rs, ks),
         NEW k, NEW o, Reads(rs[Len(stack)], k, o), k # Len(Phrases(rs[Len(stack)])),
         ~(Phrases(rs[Len(stack)])[k].kind = "include" /\ o = 6), phase' = "parse"
  PROVE  Tracked'
<1>r. PICK r : r = rs[Len(stack)]
  OBVIOUS
<1>s. PICK s : s = Phrases(r)[k]
  OBVIOUS
<1>t. PICK t : t = Phrases(r)[k + 1]
  OBVIOUS
<1>1. /\ r \in DOMAIN config.layout /\ f.file = config.layout[r].file /\ k \in DOMAIN Phrases(r)
  BY <1>r DEF Reads
<1>2. Here(s, t, o)
  BY <1>r, <1>s, <1>t, HereIs
<1>3. Production(config, s, t) /\ k + 1 \in DOMAIN Phrases(r) /\ s.kind # "end" /\ s \in Phrase
  BY <1>1, <1>r, <1>s, <1>t, BetweenPhrases
<1>4. Goes(s, t, o)
  <2>1. ~(s.kind = "include" /\ o = 6)
    BY <1>r, <1>s
  <2> QED
    BY <1>2, <1>3, <2>1, PhraseStep
<1>5. /\ config' = config
      /\ o + 1 < Len(s.text) => At(f, s, o + 1)' /\ Known(s, o + 1)'
      /\ o + 1 = Len(s.text) => At(f, t, 0)' /\ Known(t, 0)'
  BY <1>4, Zenon DEF Goes
<1>6. PICK g : stack' = Put(g) /\ g.file = f.file
  BY <1>4, Zenon DEF Goes
<1>7. f' = g
  BY <1>6, PutIs
<1>8. Chain(rs, ks)' /\ Len(stack') = Len(stack)
  BY <1>5, <1>6, ChainKept
<1>9. \A x : Phrases(x)' = Phrases(x)
  BY <1>5 DEF Phrases
<1>10. o \in Nat /\ Len(s.text) \in Nat /\ o < Len(s.text)
  BY <1>2, HereFacts DEF Here
<1>11. CASE o + 1 < Len(s.text)
  <2>1. o + 1 \in Offsets(s)
    BY <1>3, <1>10, <1>11 DEF Offsets
  <2>2. Reads(r, k, o + 1)'
    BY <1>1, <1>5, <1>6, <1>7, <1>9, <1>11, <1>s, <2>1 DEF Reads
  <2> QED
    BY <1>8, <1>r, <2>2 DEF Tracked
<1>12. CASE o + 1 = Len(s.text)
  <2>1. 0 \in Offsets(t)
    BY <1>1, <1>3, <1>t, FirstOffset
  <2>2. Reads(r, k + 1, 0)'
    BY <1>1, <1>3, <1>5, <1>6, <1>7, <1>9, <1>12, <1>t, <2>1 DEF Reads
  <2> QED
    BY <1>8, <1>r, <2>2 DEF Tracked
<1> QED
  BY <1>10, <1>11, <1>12

(* A character is read in a turn of the loop. *)
LEMMA IsTurn ==
  ASSUME Character
  PROVE  Turn
  BY DEF Character, StartComment, ToggleQuote, EndClause, EndFirst, PassSemicolon, OpenBrace, CloseBrace,
         SkipChar, AppendChar, Keyword, FirstIp, SecondIp, EndsRange, CloseRange, NoRange, SharedNet, OpenNet,
         InnerSubnet, Netmask, Include, AtKeyword, AtArgument, WordEnd

(* The character EOF leaves the parser at the end of its file. *)
LEMMA EofTurn ==
  ASSUME ParserInv, Character, c = EOF, NEW env, Between(f, env), env.mode \in Modes
  PROVE  \E g : Moved(g) /\ Follows(g)
<1>1. f.comment = FALSE /\ f.quote = FALSE /\ f.word = << >> /\ f.one_ip = FALSE
      /\ f.newclause = (env.mode # "rest")
      /\ f.argument = (IF env.mode = "pending" THEN "second_ip" ELSE "nothing")
  BY ReadFields DEF Between, Unmarked, Idle, Flags
<1>2. Plain /\ c \notin Blanks
  BY DEF Plain, Blanks, EOF
<1>3. CASE env.mode = "rest"
  <2>1. ~f.newclause /\ f.argument = "nothing"
    BY <1>1, <1>3
  <2> QED
    BY <1>2, <2>1, SkipTurn
<1>4. CASE env.mode # "rest"
  <2>1. InWord
    BY <1>1, <1>4 DEF InWord
  <2>2. Len(f.word) + 1 < MAXLEN
    BY <1>1, MaxLen
  <2> QED
    BY <1>2, <2>1, <2>2, LetterTurn
<1> QED
  BY <1>3, <1>4

(* Reading the end of a file. *)
LEMMA EndStep ==
  ASSUME ParserInv, Character, NEW s \in Phrase, s.kind = "end", s.at = Len(Text),
         NEW o \in Offsets(s), At(f, s, o), Known(s, o)
  PROVE  /\ UNCHANGED <<config, ranges, RANGES, nets, phase>>
         /\ \E g : stack' = Put(g) /\ g.file = f.file
         /\ At(f, s, 1)' /\ Known(s, 1)'
<1>3. s.at \in Nat /\ s.env.mode \in Modes
  BY DEF Phrase, Env
<1>4. o = 0
  <2>1. o = 0 \/ o = 1
    BY DEF Offsets
  <2>2. f.pos = s.at + o
    BY DEF At
  <2>3. f.pos <= Len(Text)
    BY IsTurn DEF Turn
  <2> QED
    BY <1>3, <2>1, <2>2, <2>3
<1>5. Between(f, s.env) /\ f.pos = s.at
  BY <1>3, <1>4 DEF At
<1>6. c = EOF
  BY <1>3, <1>5 DEF c
<1>7. PICK g : Moved(g) /\ Follows(g)
  BY <1>3, <1>5, <1>6, EofTurn
<1>8. f' = g /\ UNCHANGED <<config, ranges, RANGES, nets, phase>> /\ stack' = Put(g)
  BY <1>7, PutIs DEF Moved, globals
<1>10. num_ranges' = num_ranges /\ num_shared_networks' = num_shared_networks
  BY <1>8 DEF num_ranges, num_shared_networks
<1>11. ~Named(s, 0) /\ ~Named(s, 1)
  BY DEF Named
<1>12. Known(s, 1)'
  BY <1>4, <1>8, <1>10, <1>11 DEF Known
<1>14. g.pos = f.pos + 1 /\ g.file = f.file
  BY <1>7 DEF Follows
<1>13. At(f, s, 1)'
  BY <1>5, <1>8, <1>14 DEF At
<1> QED
  BY <1>8, <1>12, <1>13, <1>14

(* The end of the file of the call that runs. *)
LEMMA EndMoves ==
  ASSUME LaidOut, ParserInv, Character, NEW rs, NEW ks, Chain(rs, ks),
         NEW k, NEW o, Reads(rs[Len(stack)], k, o), k = Len(Phrases(rs[Len(stack)])), phase' = "parse"
  PROVE  Tracked'
<1>1. PICK r : r = rs[Len(stack)]
  OBVIOUS
<1>2. PICK s : s = Phrases(r)[k]
  OBVIOUS
<1>3. /\ r \in DOMAIN config.layout /\ f.file = config.layout[r].file /\ k \in DOMAIN Phrases(r)
      /\ o \in Offsets(s) /\ At(f, s, o) /\ Known(s, o)
  BY <1>1, <1>2 DEF Reads
<1>4. s.kind = "end" /\ s.at = Len(config.files[config.layout[r].file]) /\ s \in Phrase
  BY <1>1, <1>2, <1>3, ReadingFacts
<1>5. s.at = Len(Text)
  BY <1>3, <1>4 DEF Text
<1>6. /\ config' = config /\ At(f, s, 1)' /\ Known(s, 1)'
      /\ \E g : stack' = Put(g) /\ g.file = f.file
  BY <1>3, <1>4, <1>5, EndStep
<1>7. PICK g : stack' = Put(g) /\ g.file = f.file
  BY <1>6
<1>8. f' = g
  BY <1>7, PutIs
<1>9. Chain(rs, ks)' /\ Len(stack') = Len(stack)
  BY <1>6, <1>7, ChainKept
<1>10. 1 \in Offsets(s)
  BY <1>4 DEF Offsets
<1>11. \A x : Phrases(x)' = Phrases(x)
  BY <1>6 DEF Phrases
<1>12. Reads(r, k, 1)'
  BY <1>2, <1>3, <1>6, <1>7, <1>8, <1>10, <1>11 DEF Reads
<1> QED
  BY <1>1, <1>9, <1>12 DEF Tracked

(* The stack with another call. *)
LEMMA Pushed ==
  ASSUME ParserInv, NEW g, NEW h, stack' = Append(Put(g), h)
  PROVE  /\ Len(stack') = Len(stack) + 1 /\ f' = h
         /\ stack'[Len(stack)] = g
         /\ \A x \in 1..(Len(stack) - 1) : stack'[x] = stack[x]
<1> DEFINE S == Frame
           n == Len(stack)
           q == Put(g)
<1>1. n \in Nat /\ n > 0 /\ stack \in Seq(S)
  BY StackFacts
<1> HIDE DEF S
<1>2. /\ DOMAIN q = 1..n /\ q[n] = g
      /\ \A x \in 1..(n - 1) : q[x] = stack[x]
  BY <1>1 DEF Put
<1>3. q \in Seq(S \cup {g, h}) /\ Len(q) = n
  <2>1. \A x \in 1..n : stack[x] \in S
    BY <1>1
  <2>2. q = [x \in 1..n |-> IF x = n THEN g ELSE stack[x]]
    BY <1>1 DEF Put
  <2> QED
    BY <1>1, <2>1, <2>2
<1> HIDE DEF q
<1>4. /\ Len(Append(q, h)) = n + 1 /\ Append(q, h)[n + 1] = h
      /\ \A x \in 1..n : Append(q, h)[x] = q[x]
  BY <1>1, <1>3
<1>5. stack' = Append(q, h)
  BY DEF q
<1>6. Len(stack') = n + 1 /\ stack'[n + 1] = h /\ stack'[n] = g
  BY <1>1, <1>2, <1>4, <1>5
<1>7. f' = h
  BY <1>6 DEF f
<1>8. \A x \in 1..(n - 1) : stack'[x] = stack[x]
  BY <1>1, <1>2, <1>4, <1>5
<1> QED
  BY <1>6, <1>7, <1>8

(* The place at the beginning of an included file. *)
LEMMA FileEntry ==
  ASSUME UNCHANGED <<config, ranges, RANGES, nets>>, NEW s, NEW o, Known(s, o), s.kind = "include",
         NEW p \in Phrase, p.at = 0, p.env.mode = "clause", p.env.braces = 0, p.env.scope = NoScope,
         p.env.net = s.env.net, p.env.ranges = s.env.ranges, p.env.nets = s.env.nets,
         NEW file, f' = Call(file, s.env.net)
  PROVE  At(f, p, 0)' /\ Known(p, 0)' /\ f'.file = file
<1> DEFINE h == Call(file, s.env.net)
<1>1. /\ h.file = file /\ h.pos = 0 /\ h.newclause = TRUE /\ h.comment = FALSE /\ h.one_ip = FALSE
      /\ h.quote = FALSE /\ h.braces = 0 /\ h.argument = "nothing" /\ h.word = << >>
      /\ h.braces_shared = NoScope /\ h.shared_p = s.env.net
  BY DEF Call
<1> HIDE DEF h
<1>2. Between(h, p.env)
  BY <1>1 DEF Between, Idle, Flags, Unmarked, Scoped
<1>3. f' = h
  BY DEF h
<1>4. At(f, p, 0)'
  BY <1>1, <1>2, <1>3 DEF At
<1>5. ~Named(p, 0) /\ ~Named(s, o)
  BY DEF Named
<1>6. num_ranges' = num_ranges /\ num_shared_networks' = num_shared_networks
  BY DEF num_ranges, num_shared_networks
<1>7. Known(p, 0)'
  BY <1>5, <1>6 DEF Known
<1> QED
  BY <1>1, <1>3, <1>4, <1>7

(* The environment at the beginning of an included file. *)
LEMMA IncludeStart ==
  ASSUME NEW s, NEW t, s.env \in Env, NEW cfg, Inclusion(cfg, s, t), NEW p, p = cfg.layout[s.callee].phrases[1]
  PROVE  /\ s.kind = "include" /\ s.callee \in DOMAIN cfg.layout /\ cfg.layout[s.callee].file = s.text[4]
         /\ p.env.mode = "clause" /\ p.env.braces = 0 /\ p.env.scope = NoScope
         /\ p.env.net = s.env.net /\ p.env.ranges = s.env.ranges /\ p.env.nets = s.env.nets
<1>1. /\ s.kind = "include" /\ s.callee \in DOMAIN cfg.layout /\ cfg.layout[s.callee].file = s.text[4]
      /\ p.env = [s.env EXCEPT !.mode = "clause", !.braces = 0, !.scope = NoScope]
  BY Zenon DEF Inclusion
<1> DEFINE b == p.env
<1>2. b = [s.env EXCEPT !.mode = "clause", !.braces = 0, !.scope = NoScope]
  BY <1>1
<1> HIDE DEF b
<1>3. /\ b.mode = "clause" /\ b.braces = 0 /\ b.scope = NoScope
      /\ b.net = s.env.net /\ b.ranges = s.env.ranges /\ b.nets = s.env.nets
  BY <1>2 DEF Env
<1> QED
  BY <1>1, <1>3, Zenon DEF b

(* An included file is read from its beginning. *)
LEMMA IncludeMoves ==
  ASSUME LaidOut, ParserInv, Character, NEW rs, NEW ks, Chain(rs, ks),
         NEW k, NEW o, Reads(rs[Len(stack)], k, o), k # Len(Phrases(rs[Len(stack)])),
         Phrases(rs[Len(stack)])[k].kind = "include", o = 6, phase' = "parse"
  PROVE  Tracked'
<1>n. PICK n : n = Len(stack)
  OBVIOUS
<1>r. PICK r : r = rs[n]
  OBVIOUS
<1>s. PICK s : s = Phrases(r)[k]
  OBVIOUS
<1>t. PICK t : t = Phrases(r)[k + 1]
  OBVIOUS
<1>p. PICK p : p = Phrases(s.callee)[1]
  OBVIOUS
<1>1. /\ r \in DOMAIN config.layout /\ f.file = config.layout[r].file /\ k \in DOMAIN Phrases(r)
      /\ Known(s, o)
  BY <1>n, <1>r, <1>s DEF Reads
<1>2. Here(s, t, o)
  BY <1>n, <1>r, <1>s, <1>t, HereIs
<1>3. /\ Production(config, s, t) /\ k + 1 \in DOMAIN Phrases(r) /\ (k + 1) - 1 = k
  BY <1>1, <1>n, <1>r, <1>s, <1>t, BetweenPhrases
<1>4. Inclusion(config, s, t)
  <2>1. s.kind = "include"
    BY <1>n, <1>r, <1>s
  <2> QED
    BY <1>3, <2>1 DEF Production, Space, Comment, Semicolon, FirstWord, Bare, Glued, NextWord, Quotation, Open, Close,
              Shared, Quoted, Subnet, Inner, Two, One, Spaced
<1>5. s.env \in Env
  BY <1>2, HereFacts
<1>6. /\ s.kind = "include" /\ s.callee \in DOMAIN config.layout /\ config.layout[s.callee].file = s.text[4]
      /\ p.env.mode = "clause" /\ p.env.braces = 0 /\ p.env.scope = NoScope
      /\ p.env.net = s.env.net /\ p.env.ranges = s.env.ranges /\ p.env.nets = s.env.nets
  <2>1. p = config.layout[s.callee].phrases[1]
    BY <1>p DEF Phrases
  <2>2. Inclusion(config, s, t) /\ s.env \in Env
    BY <1>4, <1>5
  <2> QED
    BY <2>1, <2>2, IncludeStart
<1>7. /\ UNCHANGED <<config, ranges, slot, RANGES, nets>>
      /\ phase' = "parse" =>
           \E g : /\ stack' = Append(Put(g), Call(s.text[4], s.env.net))
                  /\ g.file = f.file /\ g.pos = t.at /\ Between(g, t.env)
  BY <1>2, <1>4, IncludeCalls
<1>8. PICK g : /\ stack' = Append(Put(g), Call(s.text[4], s.env.net))
               /\ g.file = f.file /\ g.pos = t.at /\ Between(g, t.env)
  BY <1>7
<1>9. n \in Nat /\ n > 0
  BY <1>n, StackFacts
<1>10. /\ Len(stack') = n + 1 /\ f' = Call(s.text[4], s.env.net)
       /\ stack'[n] = g
       /\ \A x \in 1..(n - 1) : stack'[x] = stack[x]
  BY <1>8, <1>n, Pushed
<1>11. \A x : Phrases(x)' = Phrases(x)
  BY <1>7 DEF Phrases
<1>12. p.at = 0 /\ 1 \in DOMAIN Phrases(s.callee) /\ 0 \in Offsets(p) /\ p \in Phrase
  <2>1. p.at = 0 /\ 1 \in DOMAIN Phrases(s.callee)
    BY <1>6, <1>p, ReadingFacts
  <2> QED
    BY <1>6, <1>p, <2>1, FirstOffset, ReadingFacts
<1> DEFINE ss == [x \in 1..(n + 1) |-> IF x = n + 1 THEN s.callee ELSE rs[x]]
           ls == [x \in 1..(n + 1) |-> IF x = n THEN k + 1 ELSE ks[x]]
<1>13. rs[1] = 1 /\ \A x \in 1..(n - 1) : Waits(stack[x], rs[x], ks[x], rs[x + 1])
  BY <1>n DEF Chain
<1>14. /\ ss[n + 1] = s.callee /\ ss[n] = r /\ ls[n] = k + 1
       /\ \A x \in 1..(n - 1) : ss[x] = rs[x] /\ ls[x] = ks[x] /\ ss[x + 1] = rs[x + 1]
       /\ ss[1] = 1
  BY <1>9, <1>13, <1>r
<1> HIDE DEF ss, ls
<1>15. Waits(g, r, k + 1, s.callee)
  BY <1>1, <1>3, <1>6, <1>8, <1>s, <1>t DEF Waits
<1>16. At(f, p, 0)' /\ Known(p, 0)' /\ f'.file = s.text[4]
  <2>1. UNCHANGED <<config, ranges, RANGES, nets>>
    BY <1>7
  <2> QED
    BY <1>1, <1>6, <1>10, <1>12, <2>1, FileEntry
<1>17. Reads(s.callee, 1, 0)'
  BY <1>6, <1>7, <1>11, <1>12, <1>16, <1>p DEF Reads
<1>18. \A x, y, z, callee : Waits(x, y, z, callee) => Waits(x, y, z, callee)'
  BY <1>7, <1>11 DEF Waits
<1>19. \A x \in 1..n : Waits(stack'[x], ss[x], ls[x], ss[x + 1])
  <2>1. SUFFICES ASSUME NEW x \in 1..n PROVE Waits(stack'[x], ss[x], ls[x], ss[x + 1])
    OBVIOUS
  <2>2. CASE x = n
    BY <1>10, <1>14, <1>15, <2>2
  <2>3. CASE x # n
    <3>1. x \in 1..(n - 1)
      BY <1>9, <2>3
    <3> QED
      BY <1>10, <1>13, <1>14, <3>1
  <2> QED
    BY <2>2, <2>3
<1>20. \A x \in 1..(Len(stack') - 1) : Waits(stack[x], ss[x], ls[x], ss[x + 1])'
  <2>1. \A x \in 1..(Len(stack') - 1) : x \in 1..n
    BY <1>9, <1>10
  <2> QED
    BY <1>18, <1>19, <2>1
<1>21. Chain(ss, ls)'
  BY <1>14, <1>20 DEF Chain
<1>22. Reads(ss[Len(stack)], 1, 0)'
  BY <1>10, <1>14, <1>17
<1> QED
  BY <1>21, <1>22 DEF Tracked

(* A file that has been read to its end is at the last phrase. *)
LEMMA AtEnd ==
  ASSUME LaidOut, ParserInv, Return, NEW r, NEW k, NEW o, Reads(r, k, o)
  PROVE  k = Len(Phrases(r))
<1>1. SUFFICES ASSUME k # Len(Phrases(r)) PROVE FALSE
  OBVIOUS
<1>2. PICK s : s = Phrases(r)[k]
  OBVIOUS
<1>3. PICK t : t = Phrases(r)[k + 1]
  OBVIOUS
<1>4. /\ r \in DOMAIN config.layout /\ f.file = config.layout[r].file
      /\ k \in DOMAIN Phrases(r) /\ o \in Offsets(s) /\ f.pos = s.at + o
  BY <1>2 DEF Reads, At
<1>5. /\ s \in Phrase /\ t.at = s.at + Len(s.text) /\ t.at <= Len(config.files[config.layout[r].file])
      /\ s.kind # "end"
  BY <1>1, <1>2, <1>3, <1>4, BetweenPhrases
<1>6. Text = config.files[config.layout[r].file] /\ Text \in Seq(Symbol)
  BY <1>4, CurrentCall DEF Text
<1>7. s.at \in Nat /\ Len(s.text) \in Nat
  BY <1>5 DEF Phrase
<1>8. o \in 0..(Len(s.text) - 1)
  BY <1>4, <1>5 DEF Offsets
<1>9. Len(Text) \in Nat /\ f.pos > Len(Text)
  BY <1>6 DEF Return
<1> QED
  BY <1>4, <1>5, <1>6, <1>7, <1>8, <1>9

(* The environment behind an include phrase is that of the end of the file. *)
LEMMA IncludeEnd ==
  ASSUME NEW s, NEW t, NEW cfg, NEW e, s.env \in Env, Inclusion(cfg, s, t), e = cfg.layout[s.callee]
  PROVE  t.env.ranges = LastOf(e).env.ranges /\ t.env.nets = LastOf(e).env.nets
<1> DEFINE R == LastOf(e).env.ranges
           N == LastOf(e).env.nets
<1>1. t.env = [s.env EXCEPT !.mode = "clause", !.ranges = R, !.nets = N]
  BY Zenon DEF Inclusion
<1> HIDE DEF R, N
<1>2. t.env.ranges = R /\ t.env.nets = N
  BY <1>1 DEF Env
<1> QED
  BY <1>2 DEF R, N

(* What is known at the end of an included file is known behind its include
   phrase. *)
LEMMA FileExit ==
  ASSUME LaidOut, ParserInv, NEW r, NEW k, NEW callee, Waits(f, r, k, callee)',
         UNCHANGED <<config, ranges, RANGES, nets>>, NEW o, NEW e, e = LastOf(config.layout[callee]), Known(e, o),
         e.kind = "end"
  PROVE  Reads(r, k, 0)'
<1>1. PICK s : s = Phrases(r)[k - 1]
  OBVIOUS
<1>2. PICK t : t = Phrases(r)[k]
  OBVIOUS
<1>3. \A x : Phrases(x)' = Phrases(x)
  BY DEF Phrases
<1>4. /\ r \in DOMAIN config.layout /\ f'.file = config.layout[r].file
      /\ k \in DOMAIN Phrases(r) /\ k - 1 \in DOMAIN Phrases(r)
      /\ s.kind = "include" /\ s.callee = callee
  BY <1>1, <1>3 DEF Waits
<1>5. f'.pos = t.at /\ Between(f', t.env)
  BY <1>2, <1>3 DEF Waits
<1>6. k \in Int /\ k - 1 # Len(Phrases(r)) /\ (k - 1) + 1 = k
  <2>1. Len(Phrases(r)) \in Nat /\ DOMAIN Phrases(r) = 1..Len(Phrases(r))
    BY <1>4, ReadingFacts
  <2> QED
    BY <1>4, <2>1
<1>7. s \in Phrase /\ t \in Phrase /\ Production(config, s, t)
  <2>1. PICK j : j = k - 1
    OBVIOUS
  <2>2. j \in DOMAIN Phrases(r) /\ j # Len(Phrases(r)) /\ s = Phrases(r)[j] /\ t = Phrases(r)[j + 1]
    BY <1>1, <1>2, <1>4, <1>6, <2>1
  <2> QED
    BY <1>4, <2>2, BetweenPhrases
<1>8. Inclusion(config, s, t)
  BY <1>4, <1>7 DEF Production, Space, Comment, Semicolon, FirstWord, Bare, Glued, NextWord, Quotation, Open,
                    Close, Shared, Quoted, Subnet, Inner, Two, One, Spaced
<1>9. s.env \in Env
  BY <1>7 DEF Phrase
<1>10. t.env.ranges = e.env.ranges /\ t.env.nets = e.env.nets
  <2>1. PICK q : q = config.layout[s.callee]
    OBVIOUS
  <2>2. t.env.ranges = LastOf(q).env.ranges /\ t.env.nets = LastOf(q).env.nets
    BY <1>8, <1>9, <2>1, IncludeEnd
  <2>3. e = LastOf(q)
    BY <1>4, <2>1
  <2> QED
    BY <2>2, <2>3
<1>11. ~Named(t, 0) /\ ~Named(e, o)
  BY DEF Named
<1>12. num_ranges' = num_ranges /\ num_shared_networks' = num_shared_networks
  BY DEF num_ranges, num_shared_networks
<1>13. Known(t, 0)'
  BY <1>10, <1>11, <1>12 DEF Known
<1>14. At(f, t, 0)'
  <2>1. t.at \in Nat
    BY <1>7 DEF Phrase
  <2> QED
    BY <1>5, <2>1 DEF At
<1>15. 0 \in Offsets(t)
  BY <1>2, <1>4, FirstOffset
<1> QED
  BY <1>2, <1>3, <1>4, <1>13, <1>14, <1>15 DEF Reads

(* A call returns to the one that waits for it. *)
LEMMA ReturnMoves ==
  ASSUME LaidOut, ParserInv, Return, NEW rs, NEW ks, Chain(rs, ks),
         NEW k, NEW o, Reads(rs[Len(stack)], k, o), Len(stack) > 1
  PROVE  Tracked'
<1>1. PICK n : n = Len(stack)
  OBVIOUS
<1>2. PICK r : r = rs[n]
  OBVIOUS
<1>3. PICK e : e = Phrases(r)[k]
  OBVIOUS
<1>4. n \in Nat /\ n > 1 /\ stack \in Seq(Frame)
  BY <1>1, StackFacts
<1>5. stack' = SubSeq(stack, 1, n - 1) /\ UNCHANGED <<config, ranges, RANGES, nets, phase>>
  BY <1>1 DEF Return
<1>6. Len(stack') = n - 1 /\ \A x \in 1..(n - 1) : stack'[x] = stack[x]
  <2> DEFINE S == Frame
  <2>1. stack \in Seq(S)
    BY <1>4
  <2> HIDE DEF S
  <2>2. n = Len(stack) /\ n - 1 \in 1..n
    BY <1>1, <1>4
  <2> QED
    BY <1>4, <1>5, <2>1, <2>2
<1>7. f' = stack[n - 1]
  BY <1>4, <1>6 DEF f
<1>8. r \in DOMAIN config.layout /\ k = Len(Phrases(r)) /\ Known(e, o)
  <2>1. Reads(r, k, o)
    BY <1>1, <1>2
  <2>2. k = Len(Phrases(r))
    BY <2>1, AtEnd
  <2> QED
    BY <1>3, <2>1, <2>2 DEF Reads
<1>9. e = LastOf(config.layout[r]) /\ e.kind = "end"
  BY <1>3, <1>8, ReadingFacts
<1>10. rs[1] = 1 /\ \A x \in 1..(n - 1) : Waits(stack[x], rs[x], ks[x], rs[x + 1])
  BY <1>1 DEF Chain
<1>11. \A x, y, z, u : Waits(x, y, z, u) => Waits(x, y, z, u)'
  <2>1. \A x : Phrases(x)' = Phrases(x)
    BY <1>5 DEF Phrases
  <2> QED
    BY <1>5, <2>1 DEF Waits
<1>12. PICK p : p = rs[n - 1]
  OBVIOUS
<1>13. PICK q : q = ks[n - 1]
  OBVIOUS
<1>14. Waits(f, p, q, r)'
  <2>1. n - 1 \in 1..(n - 1) /\ (n - 1) + 1 = n
    BY <1>4
  <2>2. Waits(stack[n - 1], p, q, r)
    BY <1>2, <1>10, <1>12, <1>13, <2>1
  <2>3. PICK g : g = stack[n - 1]
    OBVIOUS
  <2>4. Waits(g, p, q, r)'
    BY <1>11, <2>2, <2>3
  <2>5. f' = g
    BY <1>7, <2>3
  <2> QED
    BY <2>4, <2>5
<1>15. Reads(p, q, 0)'
  BY <1>5, <1>8, <1>9, <1>14, FileExit
<1>16. \A x \in 1..(Len(stack') - 1) : Waits(stack[x], rs[x], ks[x], rs[x + 1])'
  <2>1. \A x \in 1..(Len(stack') - 1) : x \in 1..(n - 1)
    BY <1>4, <1>6
  <2>2. \A x \in 1..(n - 1) : Waits(stack'[x], rs[x], ks[x], rs[x + 1])
    BY <1>6, <1>10
  <2> QED
    BY <1>11, <2>1, <2>2
<1>17. Chain(rs, ks)'
  BY <1>10, <1>16 DEF Chain
<1>18. Reads(rs[Len(stack)], q, 0)'
  BY <1>6, <1>12, <1>15
<1> QED
  BY <1>17, <1>18 DEF Tracked

(* The end of the main file: everything has been declared. *)
LEMMA MainEnds ==
  ASSUME LaidOut, ParserInv, Return, Tracked, Len(stack) = 1
  PROVE  ranges = config.ranges /\ [x \in DOMAIN nets |-> nets[x].name] = config.nets
<1>1. PICK rs, ks, k, o : Chain(rs, ks) /\ Reads(rs[Len(stack)], k, o)
  BY DEF Tracked
<1>2. Reads(1, k, o)
  BY <1>1 DEF Chain
<1>3. PICK e : e = Phrases(1)[k]
  OBVIOUS
<1>4. k = Len(Phrases(1)) /\ 1 \in DOMAIN config.layout /\ Known(e, o)
  <2>1. k = Len(Phrases(1))
    BY <1>2, AtEnd
  <2> QED
    BY <1>2, <1>3, <2>1 DEF Reads
<1>5. e = LastOf(config.layout[1]) /\ e.kind = "end"
  BY <1>3, <1>4, ReadingFacts
<1>6. e.env.ranges = Len(config.ranges) /\ e.env.nets = Len(config.nets)
  BY <1>5, LayoutFacts
<1>7. ~Named(e, o)
  BY <1>5 DEF Named
<1>8. /\ IsPrefix(ranges, config.ranges) /\ Len(ranges) = Len(config.ranges)
  BY <1>4, <1>6 DEF Known, num_ranges
<1>9. Declarations
  BY LayoutFacts
<1>10. Len(nets) = Len(config.nets) /\ \A x \in 1..Len(config.nets) : nets[x].name = config.nets[x]
  <2>1. Len(nets) = e.env.nets + 0 /\ \A x \in 1..e.env.nets : nets[x].name = config.nets[x]
    BY <1>4, <1>7 DEF Known, num_shared_networks
  <2>2. Len(config.nets) \in Nat
    BY <1>9 DEF Declarations
  <2> QED
    BY <1>6, <2>1, <2>2
<1>11. ranges = config.ranges
  <2> DEFINE R == RangeEntry
             S == [first : Addresses, last : Addresses, net : Nat]
             v == config.ranges
  <2>1. ranges \in Seq(R) /\ v \in Seq(S)
    BY <1>9 DEF Declarations, ParserInv, TypeOK
  <2> HIDE DEF R, S, v
  <2>2. IsPrefix(ranges, v) /\ Len(ranges) = Len(v)
    BY <1>8 DEF v
  <2>3. SubSeq(v, 1, Len(ranges)) = ranges
    BY <2>1, <2>2 DEF IsPrefix
  <2>4. SubSeq(v, 1, Len(v)) = v
    BY <2>1
  <2> QED
    BY <2>2, <2>3, <2>4 DEF v
<1>12. [x \in DOMAIN nets |-> nets[x].name] = config.nets
  <2> DEFINE R == [name : Seq(Symbol), masked : BOOLEAN]
             S == Seq(Symbol)
             v == config.nets
  <2>1. nets \in Seq(R) /\ v \in Seq(S)
    BY <1>9 DEF Declarations, ParserInv, TypeOK
  <2>2. Len(nets) = Len(v) /\ \A x \in 1..Len(v) : nets[x].name = v[x]
    BY <1>10
  <2> HIDE DEF R, S, v
  <2>3. DOMAIN nets = 1..Len(v) /\ v = [x \in 1..Len(v) |-> v[x]]
    BY <2>1, <2>2
  <2>4. [x \in DOMAIN nets |-> nets[x].name] = v
    BY <2>2, <2>3
  <2> QED
    BY <2>4 DEF v
<1> QED
  BY <1>11, <1>12

\* A range is completed through a pointer into memory that has been freed.
StaleRange == CloseRange /\ Stale(f.range_p)

(* A character that is not the last of the parse leaves it going on, or is an
   error exit, or the end of the process. *)
LEMMA CharacterPhase ==
  ASSUME Character
  PROVE  /\ phase = "parse" /\ config' = config
         /\ phase' # "parse" => phase' = "error" /\ (NoRange \/ SharedNet \/ Include \/ StaleRange)
  BY DEF Character, StartComment, ToggleQuote, EndClause, EndFirst, PassSemicolon,
         OpenBrace, CloseBrace, SkipChar, AppendChar, Keyword, FirstIp, SecondIp, CloseRange, newrange,
         EndsRange, StaleRange, NoRange, SharedNet, OpenNet, InnerSubnet, Netmask, Include,
         AtKeyword, AtArgument, WordEnd, Turn, globals

(* Whatever the parser does in a file that has a layout, it stays there. *)
LEMMA CharacterMoves ==
  ASSUME LaidOut, ParserInv, Character, Tracked, phase' = "parse"
  PROVE  Tracked'
<1>1. PICK rs, ks, k, o : Chain(rs, ks) /\ Reads(rs[Len(stack)], k, o)
  BY DEF Tracked
<1>2. CASE k = Len(Phrases(rs[Len(stack)]))
  BY <1>1, <1>2, EndMoves
<1>3. CASE k # Len(Phrases(rs[Len(stack)])) /\ Phrases(rs[Len(stack)])[k].kind = "include" /\ o = 6
  BY <1>1, <1>3, IncludeMoves
<1>4. CASE k # Len(Phrases(rs[Len(stack)])) /\ ~(Phrases(rs[Len(stack)])[k].kind = "include" /\ o = 6)
  BY <1>1, <1>4, PhraseMoves
<1> QED
  BY <1>2, <1>3, <1>4

LEMMA InitLayout ==
  ASSUME LaidOut, Init
  PROVE  LayoutInv
<1>1. ParserInv
  BY InitParser
<1>2. /\ config \in Configs /\ stack = <<Call("main", 0)>>
      /\ ranges = << >> /\ nets = << >> /\ phase = "parse"
  BY DEF Init
<1>3. Len(stack) = 1 /\ f = Call("main", 0)
  BY <1>2 DEF f
<1> DEFINE s == Phrases(1)[1]
           h == Call("main", 0)
<1>4. /\ 1 \in DOMAIN config.layout /\ config.layout[1].file = "main"
      /\ s.env.net = 0 /\ s.env.ranges = 0 /\ s.env.nets = 0 /\ Declarations
  BY <1>1, LayoutFacts
<1>5. /\ 1 \in DOMAIN Phrases(1) /\ s.at = 0 /\ s.env.mode = "clause" /\ s.env.braces = 0
      /\ s.env.scope = NoScope
  BY <1>1, <1>4, ReadingFacts
<1>6. /\ h.file = "main" /\ h.pos = 0 /\ h.newclause = TRUE /\ h.comment = FALSE /\ h.one_ip = FALSE
      /\ h.quote = FALSE /\ h.braces = 0 /\ h.argument = "nothing" /\ h.word = << >>
      /\ h.braces_shared = NoScope /\ h.shared_p = 0
  BY DEF Call
<1>7. 0 \in Offsets(s)
  BY <1>1, <1>4, <1>5, FirstOffset
<1>8. IsPrefix(ranges, config.ranges)
  <2> DEFINE S == [first : Addresses, last : Addresses, net : Nat]
             v == config.ranges
  <2>1. v \in Seq(S)
    BY <1>4 DEF Declarations
  <2> HIDE DEF S, v
  <2>2. Len(v) \in Nat
    BY <2>1
  <2> QED
    BY <1>2, <2>2 DEF IsPrefix, v
<1> HIDE DEF s, h
<1>9. ~Named(s, 0)
  BY DEF Named
<1>10. Known(s, 0)
  BY <1>2, <1>4, <1>8, <1>9 DEF Known, num_ranges, num_shared_networks
<1>11. Between(h, s.env)
  BY <1>4, <1>5, <1>6 DEF Between, Idle, Flags, Unmarked, Scoped
<1>12. At(f, s, 0)
  <2>1. f = h
    BY <1>3 DEF h
  <2> QED
    BY <1>5, <1>6, <1>11, <2>1 DEF At
<1>13. Reads(1, 1, 0)
  <2>1. f.file = "main"
    BY <1>3, <1>6 DEF h
  <2> QED
    BY <1>4, <1>5, <1>7, <1>10, <1>12, <2>1 DEF Reads, s
<1>14. Chain(<<1>>, << >>)
  BY <1>3 DEF Chain
<1>15. Tracked
  <2>1. <<1>>[Len(stack)] = 1
    BY <1>3
  <2> QED
    BY <1>13, <1>14, <2>1 DEF Tracked
<1> QED
  BY <1>2, <1>8, <1>15 DEF LayoutInv, Outcome

LEMMA NextLayout ==
  ASSUME LaidOut, ParserInv, LayoutInv, [Next]_vars
  PROVE  LayoutInv'
<1>1. CASE Character
  <2>1. phase = "parse" /\ config' = config /\ Tracked
    BY <1>1, CharacterPhase DEF LayoutInv
  <2>2. CASE phase' = "parse"
    <3>1. Tracked'
      BY <1>1, <2>1, <2>2, CharacterMoves
    <3>2. IsPrefix(ranges, config.ranges)'
      BY <3>1 DEF Tracked, Reads, Known
    <3> QED
      BY <2>2, <3>1, <3>2 DEF LayoutInv, Outcome
  <2>3. CASE phase' # "parse"
    <3>0. ~StaleRange
      BY <2>1, PointerKept DEF StaleRange, CloseRange
    <3>1. phase' = "error" /\ ranges' = ranges
      BY <1>1, <2>3, <3>0, CharacterPhase DEF NoRange, SharedNet, Include
    <3> QED
      BY <2>1, <3>1 DEF LayoutInv, Outcome
  <2> QED
    BY <2>2, <2>3
<1>2. CASE Return
  <2>1. phase = "parse" /\ Tracked /\ UNCHANGED <<config, ranges, RANGES, nets>> /\ IsPrefix(ranges, config.ranges)
    BY <1>2 DEF Return, LayoutInv, Outcome
  <2>2. CASE Len(stack) > 1
    <3>1. phase' = "parse"
      BY <1>2, <2>1, <2>2 DEF Return
    <3>2. PICK rs, ks, k, o : Chain(rs, ks) /\ Reads(rs[Len(stack)], k, o)
      BY <2>1 DEF Tracked
    <3>3. Tracked'
      BY <1>2, <2>2, <3>2, ReturnMoves
    <3> QED
      BY <2>1, <3>1, <3>3 DEF LayoutInv, Outcome
  <2>3. CASE ~(Len(stack) > 1)
    <3>1. phase' = "done"
      BY <1>2, <2>3 DEF Return
    <3>2. Len(stack) = 1
      <4>1. PICK n : n = Len(stack)
        OBVIOUS
      <4>2. n \in Nat /\ n > 0
        BY <4>1, StackFacts
      <4>3. ~(n > 1)
        BY <2>3, <4>1
      <4> QED
        BY <4>1, <4>2, <4>3
    <3>3. ranges = config.ranges /\ [x \in DOMAIN nets |-> nets[x].name] = config.nets
      BY <1>2, <2>1, <3>2, MainEnds
    <3> QED
      BY <2>1, <3>1, <3>3 DEF LayoutInv, Outcome
  <2> QED
    BY <2>2, <2>3
<1>3. CASE UNCHANGED vars
  <2>1. UNCHANGED <<config, stack, ranges, slot, RANGES, nets, phase>>
    BY <1>3 DEF vars
  <2>2. /\ f' = f /\ num_ranges' = num_ranges /\ num_shared_networks' = num_shared_networks
        /\ SlotPointer' = SlotPointer
    BY <2>1 DEF f, num_ranges, num_shared_networks, SlotPointer
  <2>3. \A r : Phrases(r)' = Phrases(r)
    BY <2>1 DEF Phrases
  <2>4. \A s, o : (At(f, s, o) /\ Known(s, o)) => (At(f, s, o) /\ Known(s, o))'
    BY <2>1, <2>2 DEF At, Known
  <2>5. Tracked => Tracked'
    <3>1. SUFFICES ASSUME Tracked PROVE Tracked'
      OBVIOUS
    <3>2. PICK rs, ks, k, o : Chain(rs, ks) /\ Reads(rs[Len(stack)], k, o)
      BY <3>1 DEF Tracked
    <3>3. PICK r : r = rs[Len(stack)]
      OBVIOUS
    <3>4. Reads(r, k, o)'
      BY <2>1, <2>2, <2>3, <2>4, <3>2, <3>3 DEF Reads
    <3>5. \A x, y, z, u : Waits(x, y, z, u) => Waits(x, y, z, u)'
      BY <2>1, <2>3 DEF Waits
    <3>6. Chain(rs, ks)'
      BY <2>1, <3>2, <3>5 DEF Chain
    <3>7. Reads(rs[Len(stack)], k, o)'
      BY <2>1, <3>3, <3>4
    <3> QED
      BY <3>6, <3>7 DEF Tracked
  <2>6. Outcome'
    BY <2>1 DEF LayoutInv, Outcome
  <2> QED
    BY <2>1, <2>5, <2>6 DEF LayoutInv
<1> QED
  BY <1>1, <1>2, <1>3 DEF Next, Terminated

(* What is known of the parser, and of a configuration with a layout. *)
LEMMA LayoutHolds == Spec => [](ParserInv /\ (LaidOut => LayoutInv))
<1>1. Init => ParserInv /\ (LaidOut => LayoutInv)
  BY InitParser, InitLayout
<1>2. ASSUME ParserInv, LaidOut => LayoutInv, [Next]_vars PROVE (ParserInv /\ (LaidOut => LayoutInv))'
  <2>1. ParserInv'
    BY <1>2, NextParser
  <2>2. config' = config
    <3>1. CASE Character
      BY <3>1, CharacterPhase
    <3>2. CASE Return
      BY <3>2 DEF Return
    <3>3. CASE UNCHANGED vars
      BY <3>3 DEF vars
    <3> QED
      BY <1>2, <3>1, <3>2, <3>3 DEF Next, Terminated
  <2>3. LaidOut' => LaidOut
    BY <2>2 DEF LaidOut
  <2>4. LaidOut => LayoutInv'
    BY <1>2, NextLayout
  <2> QED
    BY <2>1, <2>3, <2>4
<1>3. ParserInv /\ (LaidOut => LayoutInv) /\ [Next]_vars => (ParserInv /\ (LaidOut => LayoutInv))'
  BY <1>2
<1> QED
  BY <1>1, <1>3, PTL DEF Spec

(* The parser never loses its place in a configuration that has a layout:
   however many files there are and whatever is in them, it reads each
   character as the part of the phrase that it is. *)
THEOREM LayoutKept == Spec => [](LaidOut => LayoutFollowed)
<1>1. ParserInv /\ LayoutInv => LayoutFollowed
  <2>1. SUFFICES ASSUME ParserInv, LayoutInv, phase = "parse" PROVE LayoutFollowed
    BY DEF LayoutFollowed
  <2>2. PICK rs, ks, k, o : Chain(rs, ks) /\ Reads(rs[Len(stack)], k, o)
    BY <2>1 DEF LayoutInv, Tracked
  <2>3. PICK r : r = rs[Len(stack)]
    OBVIOUS
  <2>4. Reads(r, k, o)
    BY <2>2, <2>3
  <2> QED
    BY <2>4 DEF LayoutFollowed, Reads, Phrases
<1> QED
  BY <1>1, LayoutHolds, PTL

(* When the files have a layout, the ranges the parser collects are those that
   the layout declares, in order, each in its network; and all of them, when
   it has come to the end. *)
THEOREM DeclaredRangesRead == Spec => [](LaidOut => RangesDeclared)
<1>1. LayoutInv => RangesDeclared
  BY DEF LayoutInv, Outcome, RangesDeclared
<1> QED
  BY <1>1, LayoutHolds, PTL

(* The same of the shared networks and their names, when the parser has come
   to the end. *)
THEOREM DeclaredNetworksRead == Spec => [](LaidOut => NetworksDeclared)
<1>1. LayoutInv => NetworksDeclared
  BY DEF LayoutInv, Outcome, NetworksDeclared
<1> QED
  BY <1>1, LayoutHolds, PTL

(* What the parser writes stays inside its arrays and the word buffer: there is
   room for it in every configuration, and in one that has a layout a range is
   never completed through the pointer that an included file has left behind. *)
THEOREM WritesInBounds == Spec => [](LaidOut => SlotsInBounds)
<1>1. ParserInv /\ (LaidOut => LayoutInv) => (LaidOut => SlotsInBounds)
  <2>1. SUFFICES ASSUME ParserInv, LayoutInv, LaidOut PROVE SlotsInBounds
    OBVIOUS
  <2>2. WithinArrays
    BY <2>1 DEF ParserInv
  <2>3. PointerCurrent
    <3>1. SUFFICES ASSUME EndsRange PROVE ~Stale(f.range_p)
      BY DEF PointerCurrent
    <3>2. Tracked
      BY <2>1, <3>1 DEF LayoutInv, EndsRange, Turn
    <3> QED
      BY <2>1, <3>1, <3>2, PointerKept
  <2> QED
    BY <2>2, <2>3 DEF SlotsInBounds
<1> QED
  BY <1>1, LayoutHolds, PTL
=============================================================================
