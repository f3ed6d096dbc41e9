-------------------------------- MODULE Report --------------------------------
(***************************************************************************)
(* The reports of output.c that people and programs read: output_txt,      *)
(* output_csv, output_html, output_xml and output_json.  Each writes a     *)
(* list of leases (the extended xml and json formats), a table of the      *)
(* ranges, one of the shared networks and one row for "All networks", of   *)
(* which the two digits of -L leave parts out.                             *)
(*                                                                         *)
(* The report is a sequence of the parts that are written.  The figures of *)
(* a row are reduced to the range or network they are taken from; columns  *)
(* are left out.  The text between the parts only matters in json, where   *)
(* values are separated by commas.                                         *)
(***************************************************************************)
EXTENDS Integers, Sequences, FiniteSets, SequencesExt

CONSTANTS
  MaxRanges, MaxNets, MaxLeases,  \* bounds on the numbers of rows
  Limits                          \* the values of the two limits considered

ASSUME ReportAssumption ==
  /\ {MaxRanges, MaxNets, MaxLeases} \subseteq Nat
  /\ Limits \subseteq SUBSET {"R", "S", "A"}

\* The tables are "R", "S", "A" as the bits of the limits, and "L", the leases.
\* The summary of xml and json goes by the digit for the headers.
output_txt  == [order |-> <<"R", "S", "A">>, headers |-> TRUE,  total |-> "number"]
output_csv  == [order |-> <<"R", "S", "A">>, headers |-> TRUE,  total |-> "number"]
output_html == [order |-> <<"A", "S", "R">>, headers |-> TRUE,  total |-> "number"]
output_xml  == [order |-> <<"L", "R", "S", "A">>, headers |-> FALSE, total |-> "header"]
output_json == [order |-> <<"L", "R", "S", "A">>, headers |-> FALSE, total |-> "header"]

\* main: the letter of -f selects the function, and whether leases are listed.
Functions_ ==
  [t |-> output_txt, c |-> output_csv, H |-> output_html,
   x |-> output_xml, X |-> output_xml, j |-> output_json, J |-> output_json]
Letters == DOMAIN Functions_
IsJson(letter) == letter \in {"j", "J"}

VARIABLES
  config,      \* [format, number_limit, header_limit]
  leases,      \* the types of the leases in the list
  num_ranges, num_shared_networks,
  todo,        \* the tables not yet written
  i,           \* the loop counter
  range_p, range_size,  \* the range it points at, and the one that was measured
  some,        \* json: an active lease has been written
  sep,         \* json: how many tables have been written
  out,         \* the report
  pc

vars == <<config, leases, num_ranges, num_shared_networks, todo, i, range_p, range_size, some,
          sep, out, pc>>
input == <<config, leases, num_ranges, num_shared_networks>>

output_analysis == Functions_[config.format]
print_mac_addreses == config.format \in {"X", "J"}
Json == IsJson(config.format)

Init ==
  /\ config \in [format : Letters, number_limit : Limits, header_limit : Limits]
  /\ leases \in UNION {[1..n -> {"ACTIVE", "FREE"}] : n \in 0..MaxLeases}
  /\ print_mac_addreses \/ leases = << >>
  /\ num_ranges \in 0..MaxRanges /\ num_shared_networks \in 0..MaxNets
  /\ todo = output_analysis.order
  /\ i = 0 /\ range_p = 1 /\ range_size = 1 /\ some = FALSE /\ sep = 0
  /\ out = << >>
  /\ pc = "table"

-----------------------------------------------------------------------------
(* The parts of the report *)

Comma == [part |-> "comma"]
Part(part, table, of, size) == [part |-> part, table |-> table, of |-> of, size |-> size]
Begin(table) == Part("begin", table, 0, 0)
End(table) == Part("end", table, 0, 0)

\* Wrong variant of Wanted.
Wanted_Header(table) ==
  CASE table = "L" -> print_mac_addreses
    [] OTHER -> table \in config.header_limit

Wanted(table) ==
  CASE table = "L" -> print_mac_addreses
    [] table = "A" /\ output_analysis.total = "header" -> "A" \in config.header_limit
    [] OTHER -> table \in config.number_limit

Rows(table) ==
  CASE table = "L" -> Len(leases)
    [] table = "R" -> num_ranges
    [] table = "S" -> num_shared_networks
    [] table = "A" -> 1

Header(table) ==
  IF output_analysis.headers /\ table \in config.header_limit
  THEN <<Part("header", table, 0, 0)>>
  ELSE << >>

-----------------------------------------------------------------------------
(* Writing *)

table == Head(todo)

SkipTable ==
  /\ pc = "table" /\ todo # << >> /\ ~Wanted(table)
  /\ out' = out \o Header(table)
  /\ todo' = Tail(todo)
  /\ UNCHANGED <<input, i, range_p, range_size, some, sep, pc>>

StartTable ==
  /\ pc = "table" /\ todo # << >> /\ Wanted(table)
  /\ out' = out \o (IF Json /\ sep > 0 THEN <<Comma>> ELSE << >>) \o Header(table)
                \o <<Begin(table)>>
  /\ i' = 0 /\ pc' = "row"
  /\ UNCHANGED <<input, todo, range_p, range_size, some, sep>>

\* A lease that is not active is passed over.
Listed(x) == leases[x] = "ACTIVE"
SkipLease ==
  /\ pc = "row" /\ table = "L" /\ i < Rows(table) /\ ~Listed(i + 1)
  /\ i' = i + 1
  /\ UNCHANGED <<input, todo, range_p, range_size, some, sep, out, pc>>

\* Wrong variant of CommaBefore.
CommaBefore_Position == Json /\ i > 0

\* In json the comma goes before every lease but the first one.
CommaBefore == Json /\ some
WriteLease ==
  /\ pc = "row" /\ table = "L" /\ i < Rows(table) /\ Listed(i + 1)
  /\ out' = out \o (IF CommaBefore THEN <<Comma>> ELSE << >>)
                \o <<Part("row", table, i + 1, i + 1)>>
  /\ some' = TRUE /\ i' = i + 1
  /\ UNCHANGED <<input, todo, range_p, range_size, sep, pc>>

\* ... and after every range and network but the last one.
CommaAfter == IF Json /\ i + 1 < Rows(table) THEN <<Comma>> ELSE << >>

\* Wrong variant of Measured.
Measured_Twice == range_p + 2

Measured == range_p + 1
WriteRange ==
  /\ pc = "row" /\ table = "R" /\ i < Rows(table)
  /\ out' = out \o <<Part("row", table, range_p, range_size)>> \o CommaAfter
  /\ range_p' = range_p + 1 /\ range_size' = Measured
  /\ i' = i + 1
  /\ UNCHANGED <<input, todo, some, sep, pc>>

WriteNet ==
  /\ pc = "row" /\ table \in {"S", "A"} /\ i < Rows(table)
  /\ out' = out \o <<Part("row", table, i + 1, i + 1)>> \o CommaAfter
  /\ i' = i + 1
  /\ UNCHANGED <<input, todo, range_p, range_size, some, sep, pc>>

EndTable ==
  /\ pc = "row" /\ i = Rows(table)
  /\ out' = Append(out, End(table))
  /\ sep' = sep + 1
  /\ todo' = Tail(todo)
  /\ pc' = "table"
  /\ UNCHANGED <<input, i, range_p, range_size, some>>

Return ==
  /\ pc = "table" /\ todo = << >>
  /\ pc' = "done"
  /\ UNCHANGED <<input, todo, i, range_p, range_size, some, sep, out>>

Terminated == pc = "done" /\ UNCHANGED vars

Step == SkipTable \/ StartTable \/ SkipLease \/ WriteLease \/ WriteRange \/ WriteNet
          \/ EndTable \/ Return
Next == Step \/ Terminated
Spec == Init /\ [][Next]_vars /\ WF_vars(Step)

-----------------------------------------------------------------------------
(* Properties *)

\* The places of the rows of a table in the report.
RowsOf(t) == {x \in DOMAIN out : out[x].part = "row" /\ out[x].table = t}

(* The type invariant: the loop counter, the pointers and the report. *)
TypeOK ==
  /\ i \in 0..(MaxRanges + MaxNets + MaxLeases + 1)
  /\ range_p \in 1..(num_ranges + 1) /\ range_size \in 1..(num_ranges + 1)
  /\ some \in BOOLEAN /\ sep \in 0..4
  /\ \A x \in DOMAIN out : out[x].part \in {"comma", "header", "begin", "row", "end"}

(* Every range and every network of a table that is asked for has one row, in
   the order of the arrays, and a row shows the size of its own range, which
   is measured one turn before it is written. *)
RowsComplete ==
  pc = "done" =>
    \A t \in {"R", "S"} :
      /\ {out[x].of : x \in RowsOf(t)} = IF t \in config.number_limit THEN 1..Rows(t) ELSE {}
      /\ \A x, y \in RowsOf(t) : x < y => out[x].of < out[y].of
      /\ \A x \in RowsOf(t) : out[x].size = out[x].of

(* The json report is well-formed, whatever tables are left out or are empty:
   two values next to each other have one comma between them, and a comma is
   always between two values. *)
JsonSeparated ==
  Json =>
    \A x \in 1..(Len(out) - 1) :
      LET a == out[x].part
          b == out[x + 1].part
      IN /\ <<a, b>> \notin {<<"row", "row">>, <<"end", "begin">>}
         /\ <<a, b>> \notin {<<"begin", "comma">>, <<"comma", "end">>, <<"comma", "comma">>}
JsonEnds == Json /\ pc = "done" /\ out # << >> => out[1] # Comma /\ out[Len(out)] # Comma
JsonWellFormed == JsonSeparated /\ JsonEnds
=============================================================================
