----------------------------- MODULE ReportProofs -----------------------------
(***************************************************************************)
(* Proofs about the five reports, for every number of ranges, networks and *)
(* leases, every format and every pair of limits: type correctness, that   *)
(* the tables are complete, and that the json one is well-formed.          *)
(***************************************************************************)
EXTENDS Report, SequenceTheorems, TLAPS

Tables == {"L", "R", "S", "A"}
Parts ==
  [part : {"comma"}] \cup
  [part : {"header", "begin", "row", "end"}, table : Tables, of : Nat, size : Nat]

Distinct(s) == \A x, y \in 1..Len(s) : s[x] = s[y] => x = y

-----------------------------------------------------------------------------
(* The inductive invariant *)

InputInv ==
  /\ config.format \in Letters
  /\ leases \in Seq({"ACTIVE", "FREE"}) /\ Len(leases) <= MaxLeases
  /\ num_ranges \in 0..MaxRanges /\ num_shared_networks \in 0..MaxNets

(* Tables are written once each, and only those that are wanted. *)
TodoInv ==
  /\ pc \in {"table", "row", "done"}
  /\ todo \in Seq(Tables) /\ Distinct(todo)
  /\ pc = "row" => todo # << >> /\ Wanted(Head(todo))
  /\ pc = "done" => todo = << >>
  /\ sep \in Nat /\ sep + Len(todo) <= 4

CounterInv ==
  /\ i \in 0..(MaxRanges + MaxNets + MaxLeases + 1)
  /\ pc = "row" => i <= Rows(Head(todo))
  /\ some \in BOOLEAN

\* How many rows of the ranges, or of the networks, there are so far.
Written(t) ==
  IF t \in ToSet(todo) THEN IF pc = "row" /\ t = Head(todo) THEN i ELSE 0
  ELSE IF t \in config.number_limit THEN Rows(t) ELSE 0

RowsIn(s, t) == {x \in DOMAIN s : s[x].part = "row" /\ s[x].table = t}

\* The rows of a table are those of the first n ranges or networks, in order.
RowsAre(s, t, n) ==
  /\ {s[x].of : x \in RowsIn(s, t)} = 1..n
  /\ \A x, y \in RowsIn(s, t) : x < y => s[x].of < s[y].of
  /\ \A x \in RowsIn(s, t) : s[x].size = s[x].of

(* Both pointers are one further than the rows of the ranges. *)
RowsInv ==
  /\ range_p = Written("R") + 1 /\ range_size = range_p
  /\ RowsAre(out, "R", Written("R"))
  /\ RowsAre(out, "S", Written("S"))

\* Parts of json that may follow each other.
Adjacent(a, b) ==
  <<a, b>> \notin {<<"row", "row">>, <<"end", "begin">>, <<"begin", "comma">>, <<"comma", "end">>,
                   <<"comma", "comma">>}
LastPart(s) == s[Len(s)].part
Joined(s) ==
  /\ s \in Seq(Parts)
  /\ \A x \in 1..(Len(s) - 1) : Adjacent(s[x].part, s[x + 1].part)
  /\ s # << >> => s[1].part = "begin"

(* What the report ends with tells whether a comma goes next: after a table
   sep does, among the leases some, among ranges and networks the counter. *)
JsonInv ==
  /\ Joined(out)
  /\ pc # "row" => IF sep = 0 THEN out = << >> ELSE out # << >> /\ LastPart(out) = "end"
  /\ pc = "row" =>
       /\ out # << >>
       /\ Head(todo) = "L" => LastPart(out) = IF some THEN "row" ELSE "begin"
       /\ Head(todo) # "L" =>
            LastPart(out) = IF i = 0 THEN "begin" ELSE IF i < Rows(Head(todo)) THEN "comma" ELSE "row"
  /\ some /\ "L" \in ToSet(todo) => pc = "row" /\ Head(todo) = "L"

ReportInv ==
  /\ InputInv /\ TodoInv /\ CounterInv
  /\ out \in Seq(Parts)
  /\ RowsInv
  /\ Json => JsonInv

-----------------------------------------------------------------------------
(* Lists *)

LEMMA Added ==
  ASSUME NEW S, NEW s \in Seq(S), NEW e \in S
  PROVE  /\ Append(s, e) \in Seq(S) /\ Len(s) \in Nat /\ Len(Append(s, e)) = Len(s) + 1
         /\ DOMAIN s = 1..Len(s) /\ DOMAIN Append(s, e) = 1..(Len(s) + 1)
         /\ \A x \in 1..Len(s) : Append(s, e)[x] = s[x] /\ s[x] \in S
         /\ Append(s, e)[Len(s) + 1] = e
         /\ s \o <<e>> = Append(s, e) /\ s \o << >> = s
<1>1. /\ Append(s, e) \in Seq(S) /\ Len(s) \in Nat /\ Len(Append(s, e)) = Len(s) + 1
      /\ DOMAIN s = 1..Len(s) /\ DOMAIN Append(s, e) = 1..(Len(s) + 1)
      /\ \A x \in 1..Len(s) : Append(s, e)[x] = s[x]
      /\ Append(s, e)[Len(s) + 1] = e
  BY AppendProperties
<1>2. s \o <<e>> = Append(s, e)
  BY AppendIsConcat
<1>3. s \o << >> = s
  BY ConcatEmptySeq
<1>4. \A x \in 1..Len(s) : s[x] \in S
  BY ElementOfSeq
<1>. QED  BY <1>1, <1>2, <1>3, <1>4

\* What is left of the tables after the first one.
LEMMA OneLess ==
  ASSUME NEW s \in Seq(Tables), s # << >>, Distinct(s)
  PROVE  /\ Head(s) \in Tables /\ Head(s) \in ToSet(s)
         /\ Tail(s) \in Seq(Tables) /\ Len(Tail(s)) = Len(s) - 1 /\ Distinct(Tail(s))
         /\ \A t : t \in ToSet(Tail(s)) <=> t \in ToSet(s) /\ t # Head(s)
<1>1. /\ Len(s) \in Nat /\ Len(s) # 0 /\ DOMAIN s = 1..Len(s)
      /\ \A x \in 1..Len(s) : s[x] \in Tables
  BY ElementOfSeq, EmptySeq
<1>2. Head(s) = s[1] /\ 1 \in 1..Len(s)
  BY <1>1
<1>3. Tail(s) \in Seq(Tables) /\ Len(Tail(s)) = Len(s) - 1 /\ DOMAIN Tail(s) = 1..(Len(s) - 1)
      /\ \A x \in 1..(Len(s) - 1) : Tail(s)[x] = s[x + 1]
  BY <1>1, HeadTailProperties
<1>4. \A x \in 1..(Len(s) - 1) : x + 1 \in 1..Len(s) /\ x + 1 # 1
  BY <1>1
<1>5. Distinct(Tail(s))
  <2>1. \A x, y \in 1..(Len(s) - 1) : x + 1 = y + 1 => x = y
    BY <1>1
  <2>. QED  BY <1>3, <1>4, <2>1 DEF Distinct
<1>6. ASSUME NEW t PROVE t \in ToSet(Tail(s)) <=> t \in ToSet(s) /\ t # Head(s)
  <2>1. ASSUME t \in ToSet(Tail(s)) PROVE t \in ToSet(s) /\ t # Head(s)
    <3>1. PICK x \in 1..(Len(s) - 1) : t = s[x + 1]
      BY <1>3, <2>1 DEF ToSet
    <3>. QED  BY <1>1, <1>2, <1>4, <3>1 DEF ToSet, Distinct
  <2>2. ASSUME t \in ToSet(s), t # Head(s) PROVE t \in ToSet(Tail(s))
    <3>1. PICK x \in 1..Len(s) : t = s[x]
      BY <1>1, <2>2 DEF ToSet
    <3>2. x - 1 \in 1..(Len(s) - 1) /\ (x - 1) + 1 = x
      BY <1>1, <1>2, <2>2, <3>1
    <3>3. Tail(s)[x - 1] = t
      BY <1>3, <3>1, <3>2
    <3>. QED  BY <1>3, <3>2, <3>3 DEF ToSet
  <2>. QED  BY <2>1, <2>2
<1>. QED  BY <1>1, <1>2, <1>3, <1>5, <1>6 DEF ToSet

LEMMA OtherPart ==
  ASSUME NEW s \in Seq(Parts), NEW e \in Parts, NEW t, NEW n, ~(e.part = "row" /\ e.table = t),
         RowsAre(s, t, n)
  PROVE  RowsAre(Append(s, e), t, n)
<1>1. /\ Len(s) \in Nat /\ DOMAIN s = 1..Len(s) /\ DOMAIN Append(s, e) = 1..(Len(s) + 1)
      /\ \A x \in 1..Len(s) : Append(s, e)[x] = s[x]
      /\ Append(s, e)[Len(s) + 1] = e
  BY Added
<1>2. RowsIn(Append(s, e), t) = RowsIn(s, t)
  <2>1. \A x \in 1..(Len(s) + 1) : x \in 1..Len(s) \/ x = Len(s) + 1
    BY <1>1
  <2>2. \A x \in 1..Len(s) : x \in 1..(Len(s) + 1)
    BY <1>1
  <2>. QED  BY <1>1, <2>1, <2>2 DEF RowsIn
<1>3. \A x \in RowsIn(s, t) : Append(s, e)[x] = s[x]
  BY <1>1 DEF RowsIn
<1>. QED  BY <1>2, <1>3 DEF RowsAre

LEMMA NextRow ==
  ASSUME NEW s \in Seq(Parts), NEW e \in Parts, NEW t, NEW n \in Nat,
         e.part = "row", e.table = t, e.of = n + 1, e.size = n + 1, RowsAre(s, t, n)
  PROVE  RowsAre(Append(s, e), t, n + 1)
<1>1. /\ Len(s) \in Nat /\ DOMAIN s = 1..Len(s) /\ DOMAIN Append(s, e) = 1..(Len(s) + 1)
      /\ \A x \in 1..Len(s) : Append(s, e)[x] = s[x]
      /\ Append(s, e)[Len(s) + 1] = e
  BY Added
<1>. DEFINE u == Append(s, e)
            m == Len(s) + 1
<1>2. RowsIn(u, t) = RowsIn(s, t) \cup {m}
  <2>1. \A x \in 1..(Len(s) + 1) : x \in 1..Len(s) \/ x = m
    BY <1>1
  <2>2. m \in 1..m /\ \A x \in 1..Len(s) : x \in 1..m
    BY <1>1
  <2>. QED  BY <1>1, <2>1, <2>2 DEF RowsIn
<1>3. \A x \in RowsIn(s, t) : u[x] = s[x] /\ x \in Nat /\ x < m
  BY <1>1 DEF RowsIn
<1>4. u[m] = e
  BY <1>1
<1>. HIDE DEF u, m
<1>5. /\ {s[x].of : x \in RowsIn(s, t)} = 1..n
      /\ \A x, y \in RowsIn(s, t) : x < y => s[x].of < s[y].of
      /\ \A x \in RowsIn(s, t) : s[x].size = s[x].of /\ s[x].of \in 1..n
  BY DEF RowsAre
<1>6. {u[x].of : x \in RowsIn(u, t)} = 1..(n + 1)
  <2>1. {u[x].of : x \in RowsIn(u, t)} = {s[x].of : x \in RowsIn(s, t)} \cup {n + 1}
    BY <1>2, <1>3, <1>4
  <2>2. 1..(n + 1) = 1..n \cup {n + 1}
    OBVIOUS
  <2>. QED  BY <1>5, <2>1, <2>2
<1>7. ASSUME NEW x \in RowsIn(u, t), NEW y \in RowsIn(u, t), x < y PROVE u[x].of < u[y].of
  <2>1. m \in Nat
    BY <1>1 DEF m
  <2>2. x # m
    BY <1>2, <1>3, <1>7, <2>1
  <2>3. x \in RowsIn(s, t) /\ u[x] = s[x] /\ s[x].of \in 1..n
    BY <1>2, <1>3, <1>5, <2>2
  <2>4. CASE y = m
    BY <1>4, <2>3, <2>4
  <2>5. CASE y # m
    BY <1>2, <1>3, <1>5, <1>7, <2>3, <2>5
  <2>. QED  BY <2>4, <2>5
<1>8. \A x \in RowsIn(u, t) : u[x].size = u[x].of
  BY <1>2, <1>3, <1>4, <1>5
<1>. QED  BY <1>6, <1>7, <1>8 DEF RowsAre, u

\* A part that may follow the last one.
LEMMA JoinedPart ==
  ASSUME NEW s, Joined(s), NEW e \in Parts,
         s = << >> => e.part = "begin",
         s # << >> => Adjacent(LastPart(s), e.part)
  PROVE  Joined(Append(s, e)) /\ Append(s, e) # << >> /\ LastPart(Append(s, e)) = e.part
<1>0. s \in Seq(Parts)
  BY DEF Joined
<1>1. /\ Append(s, e) \in Seq(Parts) /\ Len(Append(s, e)) = Len(s) + 1
      /\ Len(s) \in Nat /\ DOMAIN s = 1..Len(s) /\ DOMAIN Append(s, e) = 1..(Len(s) + 1)
      /\ \A x \in 1..Len(s) : Append(s, e)[x] = s[x]
      /\ Append(s, e)[Len(s) + 1] = e
  BY <1>0, Added
<1>. DEFINE u == Append(s, e)
            n == Len(s)
<1>2. s = << >> <=> n = 0
  BY <1>0, EmptySeq
<1>3. u # << >>
  BY <1>1, EmptySeq
<1>. HIDE DEF u
<1>4. \A x \in 1..(Len(u) - 1) : Adjacent(u[x].part, u[x + 1].part)
  <2>. SUFFICES ASSUME NEW x \in 1..n PROVE Adjacent(u[x].part, u[x + 1].part)
    BY <1>1 DEF u
  <2>1. CASE x = n
    BY <1>1, <1>2, <2>1 DEF u, LastPart
  <2>2. CASE x # n
    <3>1. x \in 1..(n - 1) /\ x + 1 \in 1..n
      <4>1. n \in Nat /\ x \in 1..n
        BY <1>1
      <4>. HIDE DEF n
      <4>. QED  BY <2>2, <4>1
    <3>. QED  BY <1>1, <3>1 DEF u, Joined
  <2>. QED  BY <2>1, <2>2
<1>5. u[1].part = "begin"
  <2>1. CASE n = 0
    BY <1>1, <1>2, <2>1 DEF u
  <2>2. CASE n # 0
    <3>1. 1 \in 1..n
      BY <1>1, <2>2
    <3>. QED  BY <1>1, <1>2, <2>2, <3>1 DEF u, Joined
  <2>. QED  BY <2>1, <2>2
<1>6. LastPart(u) = e.part
  BY <1>1 DEF u, LastPart
<1>. QED  BY <1>1, <1>3, <1>4, <1>5, <1>6 DEF u, Joined

-----------------------------------------------------------------------------
(* The parts that are written *)

LEMMA RowNumbers ==
  ASSUME ReportAssumption, InputInv, NEW t \in Tables
  PROVE  Rows(t) \in 0..(MaxRanges + MaxNets + MaxLeases + 1)
<1>1. MaxRanges \in Nat /\ MaxNets \in Nat /\ MaxLeases \in Nat
  BY DEF ReportAssumption
<1>2. Len(leases) \in Nat
  BY DEF InputInv
<1>. QED  BY <1>1, <1>2 DEF InputInv, Tables, Rows

LEMMA PartTypes ==
  /\ Comma \in Parts /\ Comma.part = "comma"
  /\ \A t \in Tables :
       /\ Begin(t) \in Parts /\ Begin(t).part = "begin"
       /\ End(t) \in Parts /\ End(t).part = "end"
       /\ Part("header", t, 0, 0) \in Parts
       /\ \A n \in Nat :
            LET e == Part("row", t, n, n)
            IN  e \in Parts /\ e.part = "row" /\ e.table = t /\ e.of = n /\ e.size = n
<1>1. Comma \in Parts /\ Comma.part = "comma"
  BY DEF Comma, Parts
<1>2. ASSUME NEW p \in {"header", "begin", "row", "end"}, NEW t \in Tables, NEW n \in Nat
      PROVE  LET e == Part(p, t, n, n)
             IN  e \in Parts /\ e.part = p /\ e.table = t /\ e.of = n /\ e.size = n
  BY DEF Part, Parts
<1>. QED  BY <1>1, <1>2 DEF Begin, End

\* The tables of json have no headers, and the leases come first.
LEMMA JsonOrder ==
  ASSUME Json
  PROVE  /\ \A t : Header(t) = << >>
         /\ output_analysis = output_json
<1>1. config.format = "j" \/ config.format = "J"
  BY DEF Json, IsJson
<1>2. output_analysis = output_json
  BY <1>1 DEF output_analysis, Functions_
<1>. QED  BY <1>2 DEF output_json, Header

LEMMA RestIs ==
  ASSUME NEW t, TodoInv
  PROVE  pc = "row" => Head(todo) \in Tables /\ (Head(todo) \in {"R", "S"} => Head(todo) \in config.number_limit)
<1>1. pc = "row" => Head(todo) \in Tables /\ Wanted(Head(todo))
  BY OneLess DEF TodoInv
<1>. QED  BY <1>1 DEF Wanted

\* At most one header, without any row.
LEMMA Headed ==
  ASSUME NEW s \in Seq(Parts), NEW t \in Tables
  PROVE  /\ s \o Header(t) \in Seq(Parts)
         /\ \A u, n : RowsAre(s, u, n) => RowsAre(s \o Header(t), u, n)
<1>. DEFINE e == Part("header", t, 0, 0)
<1>1. e \in Parts /\ e.part = "header"
  BY PartTypes DEF Part
<1>. HIDE DEF e
<1>2. /\ Append(s, e) \in Seq(Parts) /\ s \o <<e>> = Append(s, e) /\ s \o << >> = s
  BY <1>1, Added
<1>3. \A u, n : RowsAre(s, u, n) => RowsAre(Append(s, e), u, n)
  BY <1>1, OtherPart
<1>4. Header(t) = <<e>> \/ Header(t) = << >>
  BY DEF Header, e
<1>. QED  BY <1>2, <1>3, <1>4

\* A comma, if there is one.
LEMMA WithComma ==
  ASSUME NEW s \in Seq(Parts)
  PROVE  \A c \in {<<Comma>>, << >>} :
           s \o c \in Seq(Parts) /\ \A u, n : RowsAre(s, u, n) => RowsAre(s \o c, u, n)
<1>1. Comma \in Parts /\ Comma.part = "comma"
  BY PartTypes
<1>2. /\ Append(s, Comma) \in Seq(Parts) /\ s \o <<Comma>> = Append(s, Comma) /\ s \o << >> = s
  BY <1>1, Added
<1>3. \A u, n : RowsAre(s, u, n) => RowsAre(Append(s, Comma), u, n)
  BY <1>1, OtherPart
<1>. QED  BY <1>2, <1>3

-----------------------------------------------------------------------------
(* The steps *)

LEMMA InitReport == ASSUME ReportAssumption, Init PROVE ReportInv
<1>1. MaxRanges \in Nat /\ MaxNets \in Nat /\ MaxLeases \in Nat
  BY DEF ReportAssumption
<1>2. config.format \in Letters
  BY DEF Init
<1>3. leases \in Seq({"ACTIVE", "FREE"}) /\ Len(leases) <= MaxLeases
  <2>1. PICK n \in 0..MaxLeases : leases \in [1..n -> {"ACTIVE", "FREE"}]
    BY DEF Init
  <2>2. leases \in Seq({"ACTIVE", "FREE"}) /\ Len(leases) = n
    BY <2>1
  <2>. QED  BY <1>1, <2>2
<1>4. InputInv
  BY <1>2, <1>3 DEF Init, InputInv
<1>5. todo \in {<<"R", "S", "A">>, <<"A", "S", "R">>, <<"L", "R", "S", "A">>}
  <2>1. config.format \in {"t", "c", "H", "x", "X", "j", "J"}
    BY <1>2 DEF Letters, Functions_
  <2>. QED  BY <2>1 DEF Init, output_analysis, Functions_, output_txt, output_csv, output_html, output_xml,
                        output_json
<1>6. /\ todo \in Seq(Tables) /\ Distinct(todo) /\ Len(todo) <= 4
      /\ "R" \in ToSet(todo) /\ "S" \in ToSet(todo)
  <2>1. ASSUME NEW a \in Tables, NEW b \in Tables, NEW c \in Tables, a # b, a # c, b # c
        PROVE  <<a, b, c>> \in Seq(Tables) /\ Distinct(<<a, b, c>>) /\ Len(<<a, b, c>>) = 3
    <3>1. <<a, b, c>> \in Seq(Tables) /\ Len(<<a, b, c>>) = 3 /\ \A x \in 1..3 : x \in {1, 2, 3}
      OBVIOUS
    <3>. QED  BY <2>1, <3>1 DEF Distinct
  <2>2. ASSUME NEW a \in Tables, NEW b \in Tables, NEW c \in Tables, NEW d \in Tables,
               a # b, a # c, a # d, b # c, b # d, c # d
        PROVE  <<a, b, c, d>> \in Seq(Tables) /\ Distinct(<<a, b, c, d>>) /\ Len(<<a, b, c, d>>) = 4
    <3>1. /\ <<a, b, c, d>> \in Seq(Tables) /\ Len(<<a, b, c, d>>) = 4
          /\ \A x \in 1..4 : x \in {1, 2, 3, 4}
      OBVIOUS
    <3>. QED  BY <2>2, <3>1 DEF Distinct
  <2>3. "L" \in Tables /\ "R" \in Tables /\ "S" \in Tables /\ "A" \in Tables
    BY DEF Tables
  <2>4. todo \in Seq(Tables) /\ Distinct(todo) /\ (Len(todo) = 3 \/ Len(todo) = 4)
    <3>1. /\ <<"R", "S", "A">> \in Seq(Tables) /\ Distinct(<<"R", "S", "A">>)
          /\ Len(<<"R", "S", "A">>) = 3
      BY <2>1, <2>3, Zenon
    <3>2. /\ <<"A", "S", "R">> \in Seq(Tables) /\ Distinct(<<"A", "S", "R">>)
          /\ Len(<<"A", "S", "R">>) = 3
      BY <2>1, <2>3, Zenon
    <3>3. /\ <<"L", "R", "S", "A">> \in Seq(Tables) /\ Distinct(<<"L", "R", "S", "A">>)
          /\ Len(<<"L", "R", "S", "A">>) = 4
      BY <2>2, <2>3, Zenon
    <3>. QED  BY <1>5, <3>1, <3>2, <3>3, Zenon
  <2>5. DOMAIN todo = 1..Len(todo) /\ {1, 2, 3} \subseteq DOMAIN todo
    BY <2>4
  <2>6. "R" \in {todo[1], todo[2], todo[3]} /\ "S" \in {todo[1], todo[2], todo[3]}
    BY <1>5
  <2>7. \A x \in {1, 2, 3} : todo[x] \in ToSet(todo)
    BY <2>5 DEF ToSet
  <2>8. "R" \in ToSet(todo) /\ "S" \in ToSet(todo)
    BY <2>6, <2>7
  <2>9. Len(todo) <= 4
    <3>1. \A x : x = 3 \/ x = 4 => x <= 4
      OBVIOUS
    <3>. QED  BY <2>4, <3>1, Zenon
  <2>. QED  BY <2>4, <2>8, <2>9
<1>7. TodoInv /\ CounterInv
  <2>1. pc = "table" /\ i = 0 /\ sep = 0 /\ some = FALSE
    BY DEF Init
  <2>2. Len(todo) \in Nat /\ 0 \in 0..(MaxRanges + MaxNets + MaxLeases + 1)
    BY <1>1, <1>6
  <2>3. TodoInv
    BY <1>6, <2>1, <2>2 DEF TodoInv
  <2>. QED  BY <2>1, <2>2, <2>3 DEF CounterInv
<1>8. out = << >> /\ out \in Seq(Parts)
  BY DEF Init
<1>9. \A t : RowsAre(out, t, 0)
  BY <1>8 DEF RowsAre, RowsIn
<1>10. RowsInv
  <2>1. Written("R") = 0 /\ Written("S") = 0
    BY <1>6 DEF Init, Written
  <2>. QED  BY <1>9, <2>1 DEF Init, RowsInv
<1>11. JsonInv
  BY <1>8 DEF Init, JsonInv, Joined
<1>. QED  BY <1>4, <1>7, <1>8, <1>10, <1>11 DEF ReportInv

\* What the input decides is the same all along.
LEMMA SameInput ==
  ASSUME UNCHANGED input
  PROVE  /\ InputInv => InputInv'
         /\ Json' <=> Json
         /\ \A t : Rows(t)' = Rows(t) /\ (Wanted(t)' <=> Wanted(t))
         /\ config' = config
<1>1. config' = config /\ leases' = leases /\ num_ranges' = num_ranges
      /\ num_shared_networks' = num_shared_networks
  BY DEF input
<1>2. InputInv => InputInv'
  BY <1>1 DEF InputInv
<1>3. Json' <=> Json
  BY <1>1 DEF Json
<1>4. \A t : Rows(t)' = Rows(t)
  BY <1>1 DEF Rows
<1>5. \A t : Wanted(t)' <=> Wanted(t)
  BY <1>1 DEF Wanted, print_mac_addreses, output_analysis
<1>. QED  BY <1>1, <1>2, <1>3, <1>4, <1>5

\* What is left after the first table.
LEMMA NextTable ==
  ASSUME TodoInv, todo # << >>, todo' = Tail(todo)
  PROVE  /\ Head(todo) \in Tables /\ Head(todo) \in ToSet(todo)
         /\ todo' \in Seq(Tables) /\ Distinct(todo') /\ Len(todo') = Len(todo) - 1
         /\ \A t : t \in ToSet(todo') <=> t \in ToSet(todo) /\ t # Head(todo)
         /\ Len(todo) \in Nat
  BY OneLess DEF TodoInv

LEMMA SkipTableKeeps == ASSUME ReportAssumption, ReportInv, SkipTable PROVE ReportInv'
<1>. DEFINE h == Head(todo)
<1>1. InputInv /\ TodoInv /\ CounterInv /\ out \in Seq(Parts) /\ RowsInv
  BY DEF ReportInv
<1>2. /\ pc = "table" /\ todo # << >> /\ ~Wanted(h) /\ out' = out \o Header(h) /\ todo' = Tail(todo)
      /\ UNCHANGED <<i, range_p, range_size, some, sep, pc>> /\ UNCHANGED input
  BY DEF SkipTable, table
<1>3. /\ h \in Tables /\ h \in ToSet(todo)
      /\ todo' \in Seq(Tables) /\ Distinct(todo') /\ Len(todo') = Len(todo) - 1 /\ Len(todo) \in Nat
      /\ \A t : t \in ToSet(todo') <=> t \in ToSet(todo) /\ t # h
  BY <1>1, <1>2, NextTable
<1>4. /\ InputInv' /\ (Json' <=> Json) /\ config' = config
      /\ \A t : Rows(t)' = Rows(t)
  BY <1>1, <1>2, SameInput
<1>. HIDE DEF h
<1>5. TodoInv'
  <2>1. Distinct(todo)'
    BY <1>3 DEF Distinct
  <2>. QED  BY <1>1, <1>2, <1>3, <2>1 DEF TodoInv
<1>6. CounterInv'
  BY <1>1, <1>2 DEF CounterInv
<1>7. ASSUME NEW t \in {"R", "S"} PROVE Written(t)' = Written(t)
  <2>1. t = h => t \notin config.number_limit
    BY <1>2 DEF Wanted
  <2>. QED  BY <1>2, <1>3, <1>4, <2>1 DEF Written
<1>8. RowsInv'
  BY <1>1, <1>2, <1>3, <1>7, Headed DEF RowsInv
<1>9. ASSUME Json, JsonInv PROVE JsonInv'
  <2>1. out' = out
    BY <1>1, <1>2, <1>9, JsonOrder, ConcatEmptySeq
  <2>. QED  BY <1>2, <1>3, <1>9, <2>1 DEF JsonInv
<1>. QED  BY <1>1, <1>2, <1>3, <1>4, <1>5, <1>6, <1>8, <1>9, Headed DEF ReportInv

LEMMA StartTableKeeps == ASSUME ReportAssumption, ReportInv, StartTable PROVE ReportInv'
<1>. DEFINE h == Head(todo)
            c == IF Json /\ sep > 0 THEN <<Comma>> ELSE << >>
            s == out \o c
<1>1. InputInv /\ TodoInv /\ CounterInv /\ out \in Seq(Parts) /\ RowsInv
  BY DEF ReportInv
<1>2. /\ pc = "table" /\ todo # << >> /\ Wanted(h) /\ pc' = "row" /\ i' = 0
      /\ out' = (s \o Header(h)) \o <<Begin(h)>>
      /\ UNCHANGED <<todo, range_p, range_size, some, sep>> /\ UNCHANGED input
  BY DEF StartTable, table
<1>3. h \in Tables /\ h \in ToSet(todo)
  BY <1>1, <1>2, OneLess DEF TodoInv
<1>4. /\ InputInv' /\ (Json' <=> Json) /\ config' = config
      /\ \A t : Rows(t)' = Rows(t) /\ (Wanted(t)' <=> Wanted(t))
      /\ Rows(h) \in 0..(MaxRanges + MaxNets + MaxLeases + 1)
  BY <1>1, <1>2, <1>3, SameInput, RowNumbers
<1>5. s \in Seq(Parts) /\ \A u, n : RowsAre(out, u, n) => RowsAre(s, u, n)
  <2>1. c \in {<<Comma>>, << >>}
    OBVIOUS
  <2>. QED  BY <1>1, <2>1, WithComma
<1>6. Begin(h) \in Parts /\ Begin(h).part = "begin"
  BY <1>3, PartTypes
<1>. HIDE DEF h, s
<1>. DEFINE u == s \o Header(h)
<1>7. u \in Seq(Parts) /\ \A t, n : RowsAre(out, t, n) => RowsAre(u, t, n)
  BY <1>3, <1>5, Headed
<1>. HIDE DEF u
<1>8. /\ out' = Append(u, Begin(h)) /\ out' \in Seq(Parts)
      /\ \A t, n : RowsAre(out, t, n) => RowsAre(out', t, n)
  <2>1. Append(u, Begin(h)) \in Seq(Parts) /\ u \o <<Begin(h)>> = Append(u, Begin(h))
    BY <1>6, <1>7, Added
  <2>2. \A t, n : RowsAre(out, t, n) => RowsAre(Append(u, Begin(h)), t, n)
    BY <1>6, <1>7, OtherPart
  <2>. QED  BY <1>2, <2>1, <2>2 DEF u
<1>9. TodoInv'
  <2>1. Distinct(todo)' /\ Wanted(Head(todo))'
    BY <1>1, <1>2, <1>4 DEF TodoInv, Distinct, h
  <2>. QED  BY <1>1, <1>2, <2>1 DEF TodoInv
<1>10. CounterInv'
  <2>1. 0 \in 0..(MaxRanges + MaxNets + MaxLeases + 1) /\ 0 <= Rows(h)
    BY <1>4 DEF ReportAssumption
  <2>2. Rows(Head(todo))' = Rows(h)
    BY <1>2, <1>4 DEF h
  <2>. QED  BY <1>1, <1>2, <2>1, <2>2 DEF CounterInv
<1>11. RowsInv'
  <2>1. \A t : Written(t)' = Written(t)
    BY <1>2, <1>4 DEF Written, Rows, input
  <2>. QED  BY <1>1, <1>2, <1>8, <2>1 DEF RowsInv
<1>12. ASSUME Json, JsonInv PROVE JsonInv'
  <2>1. u = s
    BY <1>5, <1>12, JsonOrder, ConcatEmptySeq DEF u
  <2>2. Joined(s) /\ (s = << >> \/ LastPart(s) = "comma")
    <3>1. CASE sep = 0
      <4>1. out = << >> /\ c = << >>
        BY <1>2, <1>12, <3>1 DEF JsonInv
      <4>. QED  BY <1>1, <1>12, <4>1, ConcatEmptySeq DEF JsonInv, s
    <3>2. CASE sep # 0
      <4>1. sep > 0
        BY <1>1, <3>2 DEF TodoInv
      <4>2. Joined(out) /\ out # << >> /\ LastPart(out) = "end" /\ c = <<Comma>>
        BY <1>2, <1>12, <3>2, <4>1 DEF JsonInv
      <4>3. Comma \in Parts /\ Comma.part = "comma" /\ Adjacent("end", "comma")
        BY PartTypes DEF Adjacent
      <4>4. s = Append(out, Comma)
        BY <1>1, <4>2, <4>3, Added DEF s
      <4>. QED  BY <4>2, <4>3, <4>4, JoinedPart
    <3>. QED  BY <3>1, <3>2
  <2>3. Joined(out') /\ out' # << >> /\ LastPart(out') = "begin"
    <3>1. Adjacent("comma", "begin")
      BY DEF Adjacent
    <3>. QED  BY <1>6, <1>8, <2>1, <2>2, <3>1, JoinedPart
  <2>4. h = "L" => ~some
    BY <1>2, <1>3, <1>12 DEF JsonInv
  <2>. QED  BY <1>2, <1>3, <1>12, <2>3, <2>4 DEF JsonInv, h
<1>. QED  BY <1>4, <1>8, <1>9, <1>10, <1>11, <1>12 DEF ReportInv

LEMMA SkipLeaseKeeps == ASSUME ReportAssumption, ReportInv, SkipLease PROVE ReportInv'
<1>1. InputInv /\ TodoInv /\ CounterInv /\ out \in Seq(Parts) /\ RowsInv
  BY DEF ReportInv
<1>2. /\ pc = "row" /\ Head(todo) = "L" /\ i < Rows("L") /\ i' = i + 1
      /\ UNCHANGED <<todo, range_p, range_size, some, sep, out, pc>> /\ UNCHANGED input
  BY DEF SkipLease, table
<1>3. /\ InputInv' /\ (Json' <=> Json) /\ config' = config
      /\ \A t : Rows(t)' = Rows(t) /\ (Wanted(t)' <=> Wanted(t))
      /\ Rows("L") \in 0..(MaxRanges + MaxNets + MaxLeases + 1)
  BY <1>1, <1>2, SameInput, RowNumbers DEF Tables
<1>4. TodoInv'
  BY <1>1, <1>2, <1>3 DEF TodoInv, Distinct
<1>5. CounterInv'
  <2>1. Rows(Head(todo))' = Rows("L")
    BY <1>2, <1>3
  <2>2. i + 1 \in 0..(MaxRanges + MaxNets + MaxLeases + 1) /\ i + 1 <= Rows("L")
    BY <1>1, <1>2, <1>3 DEF CounterInv, ReportAssumption
  <2>. QED  BY <1>1, <1>2, <2>1, <2>2 DEF CounterInv
<1>6. RowsInv'
  <2>1. \A t \in {"R", "S"} : Written(t)' = Written(t)
    BY <1>2, <1>3 DEF Written
  <2>. QED  BY <1>1, <1>2, <2>1 DEF RowsInv
<1>7. ASSUME Json, JsonInv PROVE JsonInv'
  BY <1>2, <1>7 DEF JsonInv
<1>. QED  BY <1>1, <1>2, <1>3, <1>4, <1>5, <1>6, <1>7 DEF ReportInv

LEMMA WriteLeaseKeeps == ASSUME ReportAssumption, ReportInv, WriteLease PROVE ReportInv'
<1>. DEFINE c == IF CommaBefore THEN <<Comma>> ELSE << >>
            s == out \o c
            e == Part("row", "L", i + 1, i + 1)
<1>1. InputInv /\ TodoInv /\ CounterInv /\ out \in Seq(Parts) /\ RowsInv
  BY DEF ReportInv
<1>2. /\ pc = "row" /\ Head(todo) = "L" /\ i < Rows("L") /\ i' = i + 1 /\ some' = TRUE
      /\ out' = s \o <<e>>
      /\ UNCHANGED <<todo, range_p, range_size, sep, pc>> /\ UNCHANGED input
  BY DEF WriteLease, table
<1>3. /\ InputInv' /\ (Json' <=> Json) /\ config' = config
      /\ \A t : Rows(t)' = Rows(t) /\ (Wanted(t)' <=> Wanted(t))
      /\ Rows("L") \in 0..(MaxRanges + MaxNets + MaxLeases + 1)
  BY <1>1, <1>2, SameInput, RowNumbers DEF Tables
<1>4. e \in Parts /\ e.part = "row" /\ e.table = "L"
  <2>1. i + 1 \in Nat /\ "L" \in Tables
    BY <1>1 DEF CounterInv, Tables
  <2>. QED  BY <2>1, PartTypes
<1>5. s \in Seq(Parts) /\ \A u, n : RowsAre(out, u, n) => RowsAre(s, u, n)
  <2>1. c \in {<<Comma>>, << >>}
    OBVIOUS
  <2>. QED  BY <1>1, <2>1, WithComma
<1>. HIDE DEF s, e
<1>6. /\ out' = Append(s, e) /\ out' \in Seq(Parts)
      /\ \A t \in {"R", "S"} : \A n : RowsAre(out, t, n) => RowsAre(out', t, n)
  <2>1. Append(s, e) \in Seq(Parts) /\ s \o <<e>> = Append(s, e)
    BY <1>4, <1>5, Added
  <2>2. \A t \in {"R", "S"} : \A n : RowsAre(out, t, n) => RowsAre(Append(s, e), t, n)
    BY <1>4, <1>5, OtherPart
  <2>3. out' = Append(s, e)
    BY <1>2, <2>1, Zenon
  <2>. QED  BY <2>1, <2>2, <2>3, Zenon
<1>7. TodoInv'
  BY <1>1, <1>2, <1>3 DEF TodoInv, Distinct
<1>8. CounterInv'
  <2>1. Rows(Head(todo))' = Rows("L")
    BY <1>2, <1>3
  <2>2. i + 1 \in 0..(MaxRanges + MaxNets + MaxLeases + 1) /\ i + 1 <= Rows("L")
    BY <1>1, <1>2, <1>3 DEF CounterInv, ReportAssumption
  <2>. QED  BY <1>2, <2>1, <2>2 DEF CounterInv
<1>9. RowsInv'
  <2>1. \A t \in {"R", "S"} : Written(t)' = Written(t)
    BY <1>2, <1>3 DEF Written
  <2>. QED  BY <1>1, <1>2, <1>6, <2>1 DEF RowsInv
<1>10. ASSUME Json, JsonInv PROVE JsonInv'
  <2>1. Joined(out) /\ out # << >> /\ LastPart(out) = IF some THEN "row" ELSE "begin"
    BY <1>2, <1>10 DEF JsonInv
  <2>2. Joined(s) /\ s # << >> /\ LastPart(s) = IF some THEN "comma" ELSE "begin"
    <3>1. CASE some
      <4>1. Comma \in Parts /\ Comma.part = "comma" /\ Adjacent("row", "comma")
        BY PartTypes DEF Adjacent
      <4>2. s = Append(out, Comma)
        BY <1>1, <1>10, <3>1, <4>1, Added DEF s, CommaBefore
      <4>. QED  BY <2>1, <3>1, <4>1, <4>2, JoinedPart
    <3>2. CASE ~some
      <4>1. s = out
        BY <1>1, <3>2, ConcatEmptySeq DEF s, CommaBefore
      <4>. QED  BY <2>1, <3>2, <4>1
    <3>. QED  BY <3>1, <3>2
  <2>3. Joined(out') /\ out' # << >> /\ LastPart(out') = "row"
    <3>1. Adjacent("comma", "row") /\ Adjacent("begin", "row")
      BY DEF Adjacent
    <3>. QED  BY <1>4, <1>6, <2>2, <3>1, JoinedPart
  <2>. QED  BY <1>2, <2>3 DEF JsonInv
<1>. QED  BY <1>3, <1>6, <1>7, <1>8, <1>9, <1>10 DEF ReportInv

\* A row of a range or a network, with a comma unless it is the last one.
LEMMA RowWritten ==
  ASSUME ReportAssumption, ReportInv, pc = "row", Head(todo) # "L", i < Rows(Head(todo)),
         NEW e \in Parts, e.part = "row", e.table = Head(todo), e.of = i + 1, e.size = i + 1,
         UNCHANGED <<input, todo, some, sep, pc>>, i' = i + 1,
         NEW c, c = (IF Json /\ i + 1 < Rows(Head(todo)) THEN <<Comma>> ELSE << >>),
         out' = (out \o <<e>>) \o c
  PROVE  /\ InputInv' /\ TodoInv' /\ CounterInv' /\ out' \in Seq(Parts)
         /\ \A t \in {"R", "S"} : /\ Written(t)' = IF t = Head(todo) THEN Written(t) + 1 ELSE Written(t)
                                  /\ RowsAre(out, t, Written(t)) => RowsAre(out', t, Written(t)')
         /\ Json' => JsonInv'
<1>. DEFINE h == Head(todo)
            s == out \o <<e>>
<1>1. InputInv /\ TodoInv /\ CounterInv /\ out \in Seq(Parts) /\ h \in Tables
  BY OneLess DEF ReportInv, TodoInv
<1>2. UNCHANGED input /\ todo' = todo /\ some' = some /\ sep' = sep /\ pc' = pc
  OBVIOUS
<1>3. /\ InputInv' /\ (Json' <=> Json) /\ config' = config
      /\ \A t : Rows(t)' = Rows(t) /\ (Wanted(t)' <=> Wanted(t))
      /\ Rows(h) \in 0..(MaxRanges + MaxNets + MaxLeases + 1)
  BY <1>1, <1>2, SameInput, RowNumbers
<1>. HIDE DEF h
<1>4. s = Append(out, e) /\ s \in Seq(Parts)
  BY <1>1, Added
<1>. HIDE DEF s
<1>5. out' \in Seq(Parts) /\ \A t, n : RowsAre(s, t, n) => RowsAre(out', t, n)
  <2>1. c \in {<<Comma>>, << >>} /\ out' = s \o c
    BY DEF s
  <2>2. s \o c \in Seq(Parts) /\ \A t, n : RowsAre(s, t, n) => RowsAre(s \o c, t, n)
    BY <1>4, <2>1, WithComma
  <2>3. out' \in Seq(Parts)
    BY <2>1, <2>2
  <2>4. ASSUME NEW t, NEW n, RowsAre(s, t, n) PROVE RowsAre(out', t, n)
    <3>1. RowsAre(s \o c, t, n)
      BY <2>2, <2>4
    <3>. QED  BY <2>1, <3>1, Zenon
  <2>. QED  BY <2>3, <2>4
<1>6. TodoInv'
  BY <1>1, <1>2, <1>3 DEF TodoInv, Distinct
<1>7. i + 1 \in 0..(MaxRanges + MaxNets + MaxLeases + 1) /\ i + 1 <= Rows(h) /\ i \in Nat
  <2>1. i \in Nat /\ i < Rows(h)
    BY <1>1 DEF CounterInv, h
  <2>2. MaxRanges \in Nat /\ MaxNets \in Nat /\ MaxLeases \in Nat
    BY DEF ReportAssumption
  <2>. QED  BY <1>3, <2>1, <2>2
<1>8. CounterInv'
  <2>1. Rows(Head(todo))' = Rows(h)
    BY <1>2, <1>3 DEF h
  <2>. QED  BY <1>1, <1>2, <1>7, <2>1 DEF CounterInv
<1>9. h \in ToSet(todo)
  BY <1>1, OneLess DEF TodoInv, h
<1>10. ASSUME NEW t \in {"R", "S"}
       PROVE  /\ Written(t)' = IF t = h THEN Written(t) + 1 ELSE Written(t)
              /\ RowsAre(out, t, Written(t)) => RowsAre(out', t, Written(t)')
  <2>1. t = h => Written(t) = i /\ Written(t)' = i + 1
    BY <1>2, <1>9 DEF Written, h
  <2>2. t # h => Written(t)' = Written(t)
    BY <1>2, <1>3 DEF Written, h
  <2>3. CASE t = h
    <3>1. e.table = t
      BY <2>3 DEF h
    <3>2. RowsAre(out, t, i) => RowsAre(s, t, i + 1)
      BY <1>1, <1>4, <1>7, <3>1, NextRow
    <3>. QED  BY <1>5, <2>1, <2>3, <3>2
  <2>4. CASE t # h
    <3>1. e.table # t
      BY <2>4 DEF h
    <3>2. \A n : RowsAre(out, t, n) => RowsAre(s, t, n)
      BY <1>1, <1>4, <3>1, OtherPart
    <3>. QED  BY <1>5, <2>2, <2>4, <3>2
  <2>. QED  BY <2>3, <2>4
<1>11. ASSUME Json PROVE JsonInv'
  <2>1. /\ JsonInv /\ Joined(out) /\ out # << >>
        /\ LastPart(out) = IF i = 0 THEN "begin" ELSE "comma"
    BY <1>11 DEF ReportInv, JsonInv
  <2>2. Joined(s) /\ s # << >> /\ LastPart(s) = "row"
    <3>1. Adjacent("begin", "row") /\ Adjacent("comma", "row")
      BY DEF Adjacent
    <3>. QED  BY <1>4, <2>1, <3>1, JoinedPart
  <2>3. Joined(out') /\ out' # << >> /\ LastPart(out') = IF i + 1 < Rows(h) THEN "comma" ELSE "row"
    <3>1. CASE i + 1 < Rows(h)
      <4>1. Comma \in Parts /\ Comma.part = "comma" /\ Adjacent("row", "comma")
        BY PartTypes DEF Adjacent
      <4>2. out' = s \o <<Comma>>
        BY <1>11, <3>1 DEF s, h
      <4>3. s \o <<Comma>> = Append(s, Comma)
        BY <1>4, <4>1, Added
      <4>4. out' = Append(s, Comma)
        BY <4>2, <4>3, Zenon
      <4>5. Joined(Append(s, Comma)) /\ Append(s, Comma) # << >> /\ LastPart(Append(s, Comma)) = "comma"
        BY <2>2, <4>1, JoinedPart
      <4>. QED  BY <3>1, <4>4, <4>5, Zenon
    <3>2. CASE ~(i + 1 < Rows(h))
      <4>1. out' = s \o << >>
        BY <3>2 DEF s, h
      <4>2. out' = s
        BY <1>4, <4>1, ConcatEmptySeq
      <4>. QED  BY <2>2, <3>2, <4>2
    <3>. QED  BY <3>1, <3>2
  <2>4. i + 1 # 0 /\ Rows(Head(todo))' = Rows(h)
    BY <1>2, <1>3, <1>7 DEF h
  <2>5. /\ pc' = "row" /\ Head(todo)' = h /\ h # "L" /\ ToSet(todo)' = ToSet(todo)
        /\ ~(some /\ "L" \in ToSet(todo))
    BY <1>2, <2>1 DEF JsonInv, h
  <2>. QED  BY <1>2, <2>3, <2>4, <2>5 DEF JsonInv
<1>. QED  BY <1>3, <1>5, <1>6, <1>8, <1>10, <1>11 DEF h

LEMMA WriteRangeKeeps == ASSUME ReportAssumption, ReportInv, WriteRange PROVE ReportInv'
<1>. DEFINE e == Part("row", "R", range_p, range_size)
<1>1. InputInv /\ TodoInv /\ CounterInv /\ RowsInv
  BY DEF ReportInv
<1>2. /\ pc = "row" /\ Head(todo) = "R" /\ i < Rows("R") /\ i' = i + 1
      /\ out' = (out \o <<e>>) \o CommaAfter
      /\ range_p' = range_p + 1 /\ range_size' = range_p + 1
      /\ UNCHANGED <<input, todo, some, sep, pc>>
  BY DEF WriteRange, table, Measured
<1>3. Written("R") = i /\ i \in Nat
  <2>1. "R" \in ToSet(todo)
    BY <1>1, <1>2, OneLess DEF TodoInv
  <2>. QED  BY <1>1, <1>2, <2>1 DEF Written, CounterInv
<1>4. e \in Parts /\ e.part = "row" /\ e.table = "R" /\ e.of = i + 1 /\ e.size = i + 1
  <2>1. range_p = i + 1 /\ range_size = i + 1 /\ i + 1 \in Nat
    BY <1>1, <1>3 DEF RowsInv
  <2>2. "R" \in Tables
    BY DEF Tables
  <2>3. e = Part("row", "R", i + 1, i + 1)
    BY <2>1
  <2>. QED  BY <2>1, <2>2, <2>3, PartTypes
<1>5. CommaAfter = IF Json /\ i + 1 < Rows(Head(todo)) THEN <<Comma>> ELSE << >>
  BY DEF CommaAfter, table
<1>. HIDE DEF e
<1>6. /\ InputInv' /\ TodoInv' /\ CounterInv' /\ out' \in Seq(Parts) /\ (Json' => JsonInv')
      /\ \A t \in {"R", "S"} : /\ Written(t)' = IF t = "R" THEN Written(t) + 1 ELSE Written(t)
                               /\ RowsAre(out, t, Written(t)) => RowsAre(out', t, Written(t)')
  BY <1>2, <1>4, <1>5, RowWritten
<1>7. RowsInv'
  BY <1>1, <1>2, <1>3, <1>6 DEF RowsInv
<1>. QED  BY <1>6, <1>7 DEF ReportInv

LEMMA WriteNetKeeps == ASSUME ReportAssumption, ReportInv, WriteNet PROVE ReportInv'
<1>. DEFINE h == Head(todo)
            e == Part("row", h, i + 1, i + 1)
<1>1. InputInv /\ TodoInv /\ CounterInv /\ RowsInv
  BY DEF ReportInv
<1>2. /\ pc = "row" /\ h \in {"S", "A"} /\ i < Rows(h) /\ i' = i + 1
      /\ out' = (out \o <<e>>) \o CommaAfter
      /\ range_p' = range_p /\ range_size' = range_size
      /\ UNCHANGED <<input, todo, some, sep, pc>>
  BY DEF WriteNet, table
<1>3. e \in Parts /\ e.part = "row" /\ e.table = h /\ e.of = i + 1 /\ e.size = i + 1
  <2>1. i + 1 \in Nat
    BY <1>1 DEF CounterInv
  <2>2. h \in Tables
    BY <1>2 DEF Tables
  <2>. QED  BY <2>1, <2>2, PartTypes
<1>4. CommaAfter = IF Json /\ i + 1 < Rows(h) THEN <<Comma>> ELSE << >>
  BY DEF CommaAfter, table
<1>. HIDE DEF e
<1>5. /\ InputInv' /\ TodoInv' /\ CounterInv' /\ out' \in Seq(Parts) /\ (Json' => JsonInv')
      /\ \A t \in {"R", "S"} : /\ Written(t)' = IF t = h THEN Written(t) + 1 ELSE Written(t)
                               /\ RowsAre(out, t, Written(t)) => RowsAre(out', t, Written(t)')
  BY <1>2, <1>3, <1>4, RowWritten
<1>6. Written("R")' = Written("R")
  BY <1>2, <1>5
<1>7. RowsInv'
  BY <1>1, <1>2, <1>5, <1>6 DEF RowsInv
<1>. QED  BY <1>5, <1>7 DEF ReportInv

LEMMA EndTableKeeps == ASSUME ReportAssumption, ReportInv, EndTable PROVE ReportInv'
<1>. DEFINE h == Head(todo)
<1>1. InputInv /\ TodoInv /\ CounterInv /\ out \in Seq(Parts) /\ RowsInv
  BY DEF ReportInv
<1>2. /\ pc = "row" /\ i = Rows(h) /\ out' = Append(out, End(h)) /\ sep' = sep + 1
      /\ todo' = Tail(todo) /\ pc' = "table"
      /\ UNCHANGED <<i, range_p, range_size, some>> /\ UNCHANGED input
  BY DEF EndTable, table
<1>3. /\ h \in Tables /\ h \in ToSet(todo) /\ Len(todo) \in Nat
      /\ todo' \in Seq(Tables) /\ Distinct(todo') /\ Len(todo') = Len(todo) - 1
      /\ \A t : t \in ToSet(todo') <=> t \in ToSet(todo) /\ t # h
  BY <1>1, <1>2, NextTable DEF TodoInv
<1>4. InputInv' /\ (Json' <=> Json) /\ config' = config /\ \A t : Rows(t)' = Rows(t)
  BY <1>1, <1>2, SameInput
<1>5. h \in {"R", "S"} => h \in config.number_limit
  BY <1>1, <1>2, RestIs
<1>. HIDE DEF h
<1>6. End(h) \in Parts /\ End(h).part = "end"
  BY <1>3, PartTypes
<1>7. out' \in Seq(Parts) /\ \A t, n : RowsAre(out, t, n) => RowsAre(out', t, n)
  <2>1. Append(out, End(h)) \in Seq(Parts)
    BY <1>1, <1>6, Added
  <2>2. \A t, n : RowsAre(out, t, n) => RowsAre(Append(out, End(h)), t, n)
    BY <1>1, <1>6, OtherPart
  <2>. QED  BY <1>2, <2>1, <2>2
<1>8. TodoInv'
  <2>1. Distinct(todo)'
    BY <1>3 DEF Distinct
  <2>. QED  BY <1>1, <1>2, <1>3, <2>1 DEF TodoInv
<1>9. CounterInv'
  BY <1>1, <1>2 DEF CounterInv
<1>10. ASSUME NEW t \in {"R", "S"} PROVE Written(t)' = Written(t)
  <2>1. CASE t = h
    <3>1. Written(t) = i
      BY <1>2, <1>3, <2>1 DEF Written, h
    <3>2. Written(t)' = Rows(t)
      BY <1>3, <1>4, <1>5, <2>1 DEF Written
    <3>. QED  BY <1>2, <2>1, <3>1, <3>2
  <2>2. CASE t # h
    BY <1>2, <1>3, <1>4, <2>2 DEF Written, h
  <2>. QED  BY <2>1, <2>2
<1>11. RowsInv'
  BY <1>1, <1>2, <1>7, <1>10 DEF RowsInv
<1>12. ASSUME Json, JsonInv PROVE JsonInv'
  <2>1. Joined(out) /\ out # << >> /\ LastPart(out) \in {"begin", "row"}
    <3>1. ~(i < Rows(Head(todo)))
      BY <1>1, <1>2 DEF CounterInv, h
    <3>. QED  BY <1>2, <1>12, <3>1 DEF JsonInv
  <2>2. Joined(out') /\ out' # << >> /\ LastPart(out') = "end"
    <3>1. Adjacent("begin", "end") /\ Adjacent("row", "end")
      BY DEF Adjacent
    <3>. QED  BY <1>2, <1>6, <2>1, <3>1, JoinedPart
  <2>3. sep' # 0
    BY <1>1, <1>2 DEF TodoInv
  <2>4. ~(some /\ "L" \in ToSet(todo'))
    BY <1>2, <1>3, <1>12 DEF JsonInv, h
  <2>. QED  BY <1>2, <2>2, <2>3, <2>4 DEF JsonInv
<1>. QED  BY <1>4, <1>7, <1>8, <1>9, <1>11, <1>12 DEF ReportInv

LEMMA ReturnKeeps == ASSUME ReportInv, Return PROVE ReportInv'
<1>1. /\ pc = "table" /\ todo = << >> /\ pc' = "done"
      /\ UNCHANGED <<todo, i, range_p, range_size, some, sep, out>> /\ UNCHANGED input
  BY DEF Return
<1>2. /\ InputInv => InputInv'
      /\ (Json' <=> Json) /\ config' = config /\ \A t : Rows(t)' = Rows(t)
  BY <1>1, SameInput
<1>3. TodoInv => TodoInv'
  BY <1>1 DEF TodoInv, Distinct
<1>4. CounterInv => CounterInv'
  BY <1>1 DEF CounterInv
<1>5. RowsInv => RowsInv'
  <2>1. \A t : Written(t)' = Written(t)
    BY <1>1, <1>2 DEF Written
  <2>. QED  BY <1>1, <2>1 DEF RowsInv
<1>6. JsonInv => JsonInv'
  BY <1>1 DEF JsonInv
<1>. QED  BY <1>1, <1>2, <1>3, <1>4, <1>5, <1>6 DEF ReportInv

LEMMA ReportUnchanged == ASSUME ReportInv, UNCHANGED vars PROVE ReportInv'
<1>1. UNCHANGED <<todo, i, range_p, range_size, some, sep, out, pc>> /\ UNCHANGED input
  BY DEF vars, input
<1>2. /\ InputInv => InputInv'
      /\ (Json' <=> Json) /\ config' = config
      /\ \A t : Rows(t)' = Rows(t) /\ (Wanted(t)' <=> Wanted(t))
  BY <1>1, SameInput
<1>3. TodoInv => TodoInv'
  BY <1>1, <1>2 DEF TodoInv, Distinct
<1>4. CounterInv => CounterInv'
  <2>1. Rows(Head(todo))' = Rows(Head(todo))
    BY <1>1, <1>2
  <2>. QED  BY <1>1, <2>1 DEF CounterInv
<1>5. RowsInv => RowsInv'
  <2>1. \A t : Written(t)' = Written(t)
    BY <1>1, <1>2 DEF Written
  <2>. QED  BY <1>1, <2>1 DEF RowsInv
<1>6. JsonInv => JsonInv'
  <2>1. Rows(Head(todo))' = Rows(Head(todo))
    BY <1>1, <1>2
  <2>. QED  BY <1>1, <2>1 DEF JsonInv
<1>. QED  BY <1>1, <1>2, <1>3, <1>4, <1>5, <1>6 DEF ReportInv

-----------------------------------------------------------------------------
(* The theorems *)

THEOREM ReportInvariant == Spec => []ReportInv
<1>. USE ReportAssumption
<1>1. Init => ReportInv
  BY InitReport
<1>2. ReportInv /\ [Next]_vars => ReportInv'
  BY SkipTableKeeps, StartTableKeeps, SkipLeaseKeeps, WriteLeaseKeeps, WriteRangeKeeps,
     WriteNetKeeps, EndTableKeeps, ReturnKeeps, ReportUnchanged DEF Next, Step, Terminated
<1>. QED  BY <1>1, <1>2, PTL DEF Spec

(* The loop counter, the pointer into the array of ranges and the size that is
   measured ahead of it are in range, one past the end included. *)
THEOREM ReportTyped == Spec => []TypeOK
<1>1. ReportInv => TypeOK
  <2>. SUFFICES ASSUME ReportInv PROVE TypeOK
    OBVIOUS
  <2>1. InputInv /\ TodoInv /\ CounterInv /\ RowsInv /\ out \in Seq(Parts)
    BY DEF ReportInv
  <2>2. num_ranges \in Nat /\ Written("R") \in 0..num_ranges
    <3>1. num_ranges \in Nat /\ Rows("R") = num_ranges
      BY <2>1, ReportAssumption DEF InputInv, ReportAssumption, Rows
    <3>2. pc = "row" /\ "R" = Head(todo) => i \in 0..num_ranges
      BY <2>1, <3>1 DEF CounterInv
    <3>. QED  BY <3>1, <3>2 DEF Written
  <2>3. range_p \in 1..(num_ranges + 1) /\ range_size = range_p
    BY <2>1, <2>2 DEF RowsInv
  <2>4. sep \in 0..4
    <3>1. Len(todo) \in Nat
      BY <2>1 DEF TodoInv
    <3>. QED  BY <2>1, <3>1 DEF TodoInv
  <2>5. \A x \in DOMAIN out : out[x].part \in {"comma", "header", "begin", "row", "end"}
    <3>1. \A x \in DOMAIN out : out[x] \in Parts
      BY <2>1, ElementOfSeq
    <3>2. \A p \in Parts : p.part \in {"comma", "header", "begin", "row", "end"}
      BY DEF Parts
    <3>. QED  BY <3>1, <3>2
  <2>. QED  BY <2>1, <2>3, <2>4, <2>5 DEF CounterInv, TypeOK
<1>. QED  BY <1>1, ReportInvariant, PTL

(* In every format, a table of ranges or networks that the limits ask for has
   one row for each of them, in the order of the array, with the size of its
   own range. *)
THEOREM TablesComplete == Spec => []RowsComplete
<1>1. ReportInv => RowsComplete
  <2>. SUFFICES ASSUME ReportInv, pc = "done", NEW t \in {"R", "S"}
                PROVE  /\ {out[x].of : x \in RowsOf(t)}
                            = IF t \in config.number_limit THEN 1..Rows(t) ELSE {}
                       /\ \A x, y \in RowsOf(t) : x < y => out[x].of < out[y].of
                       /\ \A x \in RowsOf(t) : out[x].size = out[x].of
    BY DEF RowsComplete
  <2>1. RowsOf(t) = RowsIn(out, t)
    BY DEF RowsOf, RowsIn
  <2>2. RowsAre(out, t, Written(t))
    BY DEF ReportInv, RowsInv
  <2>3. Written(t) = IF t \in config.number_limit THEN Rows(t) ELSE 0
    <3>1. ToSet(todo) = {}
      BY DEF ReportInv, TodoInv, ToSet
    <3>. QED  BY <3>1 DEF Written
  <2>4. 1..0 = {}
    OBVIOUS
  <2>5. 1..Written(t) = IF t \in config.number_limit THEN 1..Rows(t) ELSE {}
    BY <2>3, <2>4
  <2>. QED  BY <2>1, <2>2, <2>5 DEF RowsAre
<1>. QED  BY <1>1, ReportInvariant, PTL

(* The json report is well-formed for any number of rows and any limits: no
   comma is missing, doubled, or left at either end of a table or of the
   report. *)
THEOREM JsonIsWellFormed == Spec => []JsonWellFormed
<1>1. ReportInv => JsonWellFormed
  <2>. SUFFICES ASSUME ReportInv, Json PROVE JsonSeparated /\ JsonEnds
    BY DEF JsonWellFormed, JsonSeparated, JsonEnds
  <2>1. JsonInv /\ TodoInv /\ Joined(out)
    BY DEF ReportInv, JsonInv
  <2>2. JsonSeparated
    BY <2>1 DEF JsonSeparated, Joined, Adjacent
  <2>3. JsonEnds
    <3>. SUFFICES ASSUME pc = "done", out # << >> PROVE out[1] # Comma /\ out[Len(out)] # Comma
      BY DEF JsonEnds
    <3>1. Comma.part = "comma"
      BY PartTypes
    <3>2. out[1].part = "begin" /\ out[Len(out)].part = "end"
      BY <2>1 DEF JsonInv, Joined, LastPart
    <3>. QED  BY <3>1, <3>2
  <2>. QED  BY <2>2, <2>3
<1>. QED  BY <1>1, ReportInvariant, PTL
=============================================================================
