------------------------------ MODULE MCPipeline ------------------------------
(***************************************************************************)
(* Command lines for Pipeline: every sequence of up to two options out of  *)
(* all that there are, and the longer ones of those that work together.    *)
(***************************************************************************)
EXTENDS Pipeline

Given1(opt, arg) == [opt |-> opt, arg |-> arg]

OneOption ==
  {Given1(o, <<f>>) : o \in FileOptions, f \in {"1", "2"}}
    \cup {Given1("o", << >>)}
    \cup {Given1(o, << >>) : o \in Flags \cup {"v", "h", "?"}}
    \cup {Given1(o, <<"8", "0">>) : o \in NumberOptions}
    \cup {Given1(o, a) : o \in {"warning", "minsize"}, a \in {<<"8", "?">>, << >>}}
    \cup {Given1("f", a) : a \in {<<"X">>, <<"a">>, <<"H">>, <<"h">>, <<"?", "t">>, << >>}}
    \cup {Given1("L", a) : a \in {<<"1", "1">>, <<"0", "7", "7">>, <<"1">>, <<"7", "8">>}}
    \cup {Given1("s", a) : a \in {<<"i">>, <<"n", "c">>, <<"e", "?">>, << >>}}

Working ==
  {Given1("o", <<"1">>), Given1("r", << >>), Given1("f", <<"H">>), Given1("warning", <<"5">>),
   Given1("s", <<"i">>), Given1("s", <<"n", "c">>), Given1("s", << >>), Given1("s", <<"?">>),
   Given1("L", <<"7", "9">>)}

Lines(S, n) == UNION {[1..m -> S] : m \in 0..n}
MCArgvs == Lines(OneOption, 2) \cup Lines(Working, 3)
=============================================================================
