----------------------------- MODULE MCSortRanges -----------------------------
(***************************************************************************)
(* Every array of up to MaxRanges ranges with two values for each of two   *)
(* keys beside the address, all addresses differing or two by two equal.   *)
(***************************************************************************)
EXTENDS SortRanges, TLC

CONSTANT MaxRanges

MCKeys == {"i", "n", "c"}
MCTables ==
  {[x \in DOMAIN t |-> [i |-> x \div step, entry |-> x] @@ t[x]] :
     t \in UNION {[1..n -> [n : 0..1, c : 0..1]] : n \in 0..MaxRanges}, step \in 1..2}
Sorts == {<< >>, <<"i">>, <<"c">>, <<"n", "c">>, <<"c", "n">>, <<"c", "i">>}
MCOptions == [sorts : Sorts, reverse_order : BOOLEAN]
=============================================================================
