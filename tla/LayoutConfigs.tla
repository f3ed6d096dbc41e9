----------------------------- MODULE LayoutConfigs -----------------------------
(***************************************************************************)
(* Configurations put together from phrases, with their layout.            *)
(***************************************************************************)
EXTENDS ConfigLayout, TLC

\* A phrase without its place; what an include phrase reads is its callee.
P(kind, text) == [kind |-> kind, text |-> text, callee |-> 0]
Newline == P("space", <<"\n">>)
End == P("end", <<EOF>>)

-----------------------------------------------------------------------------
(* Statements *)

Ranges_ ==
  {<<P("two", <<"range", " ", a, " ", b, ";">>), Newline>> : a, b \in {"ip1", "ip2"}}
    \cup {<<P("two", <<"range", "\n", "dynamic-bootp", " ", "ip2", "\n", "ip1", " ">>), P("semicolon", <<";">>)>>,
          <<P("one", <<"range", " ", "ip1", ";", "\n">>)>>,
          <<P("one", <<"range", " ", "dynamic-bootp", " ", "ip2", ";", " ">>)>>,
          <<P("glued", <<"pool", "{", " ">>), P("spaced", <<"range", " ", "ip2", " ", ";">>), Newline,
            P("comment", <<"#", "ip1", "}", "{", "\"", "\n">>), P("close", <<"}">>),
            P("head", <<"max-lease-time", " ">>), P("semicolon", <<";">>)>>}
Clauses ==
  {<<P("comment", <<"#", ";", "range", " ", "ip1", ";", "{", "\n">>)>>,
   <<P("head", <<"option", " ">>), P("comment", <<"#", ";", "}", "\n">>), P("word", <<"range">>),
     P("string", <<"\"", "{", "#", ";", "\"">>), P("semicolon", <<";">>), Newline>>,
   <<P("glued", <<"group", "{", "\n">>), P("bare", <<"authoritative", ";">>), P("close", <<"}">>)>>,
   <<P("head", <<"host", "\n">>), P("word", <<"include">>), P("space", <<" ">>), P("open", <<"{">>),
     P("close", <<"}">>), Newline>>}
Pieces == Ranges_ \cup Clauses
Contents == {a \o b : a \in Ranges_, b \in Pieces} \cup {b \o a : a \in Ranges_, b \in Clauses}

Block == <<P("head", <<"subnet", " ">>), P("word", <<"s">>), P("space", <<" ">>), P("word", <<"netmask">>),
           P("space", <<" ">>), P("word", <<"m24">>), P("open", <<"{">>), Newline>>
NetBlock == <<P("subnet", <<"subnet", " ", "s", " ", "netmask", " ", "m24", " ">>), P("open", <<"{">>)>>
InnerBlock == <<P("inner", <<"subnet", " ", "s", "\n">>), P("word", <<"netmask">>), P("open", <<"{">>)>>
Closed == <<P("close", <<"}">>), Newline>>
SharedPhrase == P("shared", <<"shared-network", " ", "n", " ">>)
QuotedPhrase == P("quoted", <<"shared-network", " ", "\"", "n", " ", "range", "\"", "\n">>)
IncludeFile(r) == [P("include", <<"include", " ", "\"", "file", "\"", ";", "\n">>) EXCEPT !.callee = r]

-----------------------------------------------------------------------------
(* Placing the phrases *)

Adds(p) == p.kind \in {"two", "one", "spaced"}
Names(p) == p.kind \in {"shared", "quoted", "subnet"}

\* What the readings `total' declare: pairs of the ranges and the networks.
After(e, p, total) ==
  CASE p.kind \in {"two", "one"} -> [e EXCEPT !.mode = "clause", !.ranges = @ + 1]
    [] p.kind = "spaced" -> [e EXCEPT !.mode = "pending", !.ranges = @ + 1]
    [] Names(p) -> [e EXCEPT !.mode = "rest", !.nets = @ + 1, !.net = e.nets + 1, !.scope = e.braces]
    [] p.kind = "semicolon" -> [e EXCEPT !.mode = "clause"]
    [] p.kind \in {"head", "inner"} -> [e EXCEPT !.mode = "rest"]
    [] p.kind \in {"open", "glued"} -> [e EXCEPT !.mode = "clause", !.braces = @ + 1]
    [] p.kind = "close" /\ e.scope = e.braces - 1 -> [e EXCEPT !.braces = @ - 1, !.net = 0, !.scope = NoScope]
    [] p.kind = "close" -> [e EXCEPT !.braces = @ - 1]
    [] p.kind = "include" -> [e EXCEPT !.mode = "clause", !.ranges = @ + total[p.callee][1],
                                                         !.nets = @ + total[p.callee][2]]
    [] OTHER -> e

StartEnv(net, n, m) ==
  [mode |-> "clause", braces |-> 0, scope |-> NoScope, net |-> net, ranges |-> n, nets |-> m]

\* The phrases ps from the environment env.
Placed(ps, env, total) ==
  LET Place(placed, p) ==
        LET q == placed[Len(placed)] IN
        Append(placed, [at |-> q.at + Len(q.text), env |-> After(q.env, q, total)] @@ p)
  IN FoldLeft(Place, <<[at |-> 0, env |-> env] @@ ps[1]>>, SubSeq(ps, 2, Len(ps)))

TextOf(ps) == FlattenSeq([k \in 1..(Len(ps) - 1) |-> ps[k].text])
RangeOfPhrase(p) ==
  LET as == SelectSeq(p.text, LAMBDA x : x \in {"ip1", "ip2"})
  IN [first |-> IF "ip1" \in Range(as) THEN "ip1" ELSE "ip2",
      last |-> IF "ip2" \in Range(as) THEN "ip2" ELSE "ip1", net |-> p.env.net]
NameOf(p) ==
  CASE p.kind = "shared" -> <<p.text[3]>> [] p.kind = "quoted" -> QuotedName(p) [] OTHER -> <<p.text[3], p.text[7]>>

\* A configuration of the main file and, as often as it is included, of file.
RangesOf(phrases) == LET rs == SelectSeq(phrases, Adds) IN [k \in DOMAIN rs |-> RangeOfPhrase(rs[k])]
NamesOf(phrases) == LET rs == SelectSeq(phrases, Names) IN [k \in DOMAIN rs |-> NameOf(rs[k])]

InOneFile(main, shared) ==
  LET ps == Placed(main \o <<End>>, StartEnv(0, 0, 0), << >>) IN
  [files |-> [x \in {"main"} |-> TextOf(ps)], all_as_shared |-> shared, refused |-> FALSE,
   ranges |-> RangesOf(ps), nets |-> NamesOf(ps), layout |-> <<[file |-> "main", phrases |-> ps]>>]

\* main is before, the file, and after; the file is read twice.
InTwoFiles(before, file, after, shared) ==
  LET text == file \o <<End>>
      total == LET ps == Placed(text, StartEnv(0, 0, 0), << >>)
                   t == <<Len(SelectSeq(ps, Adds)), Len(SelectSeq(ps, Names))>>
               IN <<t, t, t>>
      main == before \o <<IncludeFile(2), IncludeFile(3)>> \o after \o <<End>>
      ps == Placed(main, StartEnv(0, 0, 0), total)
      x == Len(before) + 1
      Inc(k) == Placed(text, [ps[k].env EXCEPT !.mode = "clause", !.braces = 0, !.scope = NoScope], total)
      all == SubSeq(ps, 1, x) \o Inc(x) \o Inc(x + 1) \o SubSeq(ps, x + 2, Len(ps))
  IN [files |-> [y \in {"main", "file"} |-> IF y = "main" THEN TextOf(ps) ELSE TextOf(Inc(x))],
      all_as_shared |-> shared, refused |-> FALSE,
      ranges |-> RangesOf(all), nets |-> NamesOf(all),
      layout |-> <<[file |-> "main", phrases |-> ps], [file |-> "file", phrases |-> Inc(x)],
                   [file |-> "file", phrases |-> Inc(x + 1)]>>]

ConfigsLaidOut ==
  UNION {{InOneFile(Block \o b \o Closed \o b, FALSE),
          InOneFile(NetBlock \o b \o Closed \o NetBlock \o Closed \o b, TRUE),
          InOneFile(<<SharedPhrase, P("open", <<"{">>)>> \o InnerBlock \o b \o Closed \o Closed \o b, TRUE),
          InOneFile(<<QuotedPhrase, P("open", <<"{">>)>> \o Block \o b \o Closed \o Closed \o Block \o Closed, FALSE),
          InTwoFiles(<<SharedPhrase, P("open", <<"{">>)>> \o Block, b, Closed \o Closed \o b, FALSE),
          InTwoFiles(b, <<QuotedPhrase, P("open", <<"{">>)>> \o b \o Closed, Block \o Closed \o b, FALSE)} : b \in Contents}
=============================================================================
