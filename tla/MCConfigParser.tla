---------------------------- MODULE MCConfigParser ----------------------------
(***************************************************************************)
(* Configurations for ConfigParser, put together from statements: each is  *)
(* its symbols and the ranges and networks it declares.  They have no      *)
(* layout; those of LayoutConfigs, put together from phrases, do.          *)
(***************************************************************************)
EXTENDS LayoutConfigs

MCIPs == <<"ip1", "ip2">>
MCMasks == [m24 |-> 24, m0 |-> 0]

-----------------------------------------------------------------------------
(* Statements inside a network, as [text, ranges]; a range is <<first, last>> *)

Stmt(text, ranges_) == [text |-> text, ranges |-> ranges_]
Noise(text) == Stmt(text, << >>)

OneTwo == <<<<"ip1", "ip2">>>>
OneIp == <<<<"ip1", "ip1">>>>

TwoAddresses ==
  {Stmt(<<"range", " ">> \o ips \o <<";", "\n">>, OneTwo) :
     ips \in {<<"ip1", " ", "ip2">>, <<"ip2", " ", "ip1">>, <<"ip1", "\n", "ip2">>}}
    \cup {Stmt(<<"range", " ", "ip2", " ", "ip1">> \o end, OneTwo) :
            end \in {<<" ", ";", "\n">>, <<";">>,
                    <<";", " ", "#", " ", "range", " ", "ip2", ";", "}", "\n">>}}
OneAddress ==
  {Stmt(<<"range", " ", "ip1">> \o end, OneIp) : end \in {<<";", "\n">>, <<" ", ";", "\n">>}}
Bootp ==
  {Stmt(<<"range", " ", "dynamic-bootp", " ", "ip1", " ", "ip2", ";", "\n">>, OneTwo),
   Stmt(<<"range", " ", "dynamic-bootp", " ", "ip1", ";", "\n">>, OneIp)}
Options ==
  {Noise(<<"option", " ", "range", ";", "\n">>),
   Noise(<<"option", " ", "\"", "range", ";", "}", "\n", "#", "\"", ";", "\n">>),
   Noise(<<"#", "\"", " ", "range", " ", "ip2", " ", "{", "}", "\n">>),
   Noise(<<"host", " ", "h", " ", "{", "option", " ", "x", ";", "}", "\n">>),
   Noise(<<"group", "{", "\n", "option", " ", "x", ";", "\n", "}", "\n">>)}
Statements == TwoAddresses \cup OneAddress \cup Bootp \cup Options

Then(a, b) == Stmt(a.text \o b.text, a.ranges \o b.ranges)
Pool(a) == Stmt(<<"pool", " ", "{", "\n">> \o a.text \o <<"}", "\n">>, a.ranges)
Pairs == {Then(a, b) : a, b \in Statements} \cup {Pool(a) : a \in Statements}
\* A word longer than the buffer; after `range A ;' it would add a range.
LongWord == Noise(<<"log(", "\"", "range", " ", "x", ";", "x", "\"", ")", ";", "\n">>)
Long == UNION {{Then(a, LongWord), Then(LongWord, a)} : a \in TwoAddresses}
Bodies == Long \cup Pairs \cup {Then(Pool(a), b) : a, b \in OneAddress \cup Bootp}

-----------------------------------------------------------------------------
(* Whole files *)

InNet(rs, n) == [x \in DOMAIN rs |-> [first |-> rs[x][1], last |-> rs[x][2], net |-> n]]
Config(main, files, shared, rs, names) ==
  [files |-> [x \in {"main"} |-> main] @@ files, all_as_shared |-> shared,
   ranges |-> rs, nets |-> names, layout |-> << >>, refused |-> FALSE]
NoFiles == [x \in {} |-> << >>]

SubnetBlock(text) ==
  <<"subnet", " ", "s", " ", "netmask", " ", "m24", " ", "{", "\n">> \o text \o <<"}", "\n">>
SharedBlock(name, text) ==
  <<"shared-network", " ">> \o name \o <<" ", "{", "\n">> \o text \o <<"}", "\n">>
IncludeOf(file) == <<"include", " ", "\"", file, "\"", ";", "\n">>
OneFile(text) == [x \in {"file"} |-> text]

\* A subnet, and another one after it.
Plain(b) == Config(SubnetBlock(b.text) \o SubnetBlock(b.text), NoFiles, FALSE,
                   InNet(b.ranges \o b.ranges, 0), << >>)
\* Every subnet is a network.
Masked(b) == Config(SubnetBlock(b.text) \o SubnetBlock(b.text), NoFiles, TRUE,
                    InNet(b.ranges, 1) \o InNet(b.ranges, 2), <<<<"s", "m24">>, <<"s", "m24">>>>)
\* A shared network with a quoted name, and a subnet outside it.
Sharing(b, all) ==
  Config(SharedBlock(<<"\"", "n", " ", "n", "\"">>, SubnetBlock(b.text)) \o SubnetBlock(b.text), NoFiles, all,
         InNet(b.ranges, 1) \o InNet(b.ranges, IF all THEN 2 ELSE 0),
         <<<<"n", " ", "n">>>> \o IF all THEN <<<<"s", "m24">>>> ELSE << >>)
\* The same with its ranges in a file.
Including(b) ==
  Config(SharedBlock(<<"n">>, SubnetBlock(IncludeOf("file"))) \o SubnetBlock(b.text), OneFile(b.text), FALSE,
         InNet(b.ranges, 1) \o InNet(b.ranges, 0), <<<<"n">>>>)
\* The same with the whole network in a file.
Included(b) ==
  Config(IncludeOf("file") \o SubnetBlock(b.text), OneFile(SharedBlock(<<"n">>, SubnetBlock(b.text))), FALSE,
         InNet(b.ranges, 1) \o InNet(b.ranges, 0), <<<<"n">>>>)

\* A file between the ranges of the one that includes it.
Around(b) ==
  Config(b.text \o IncludeOf("file") \o SubnetBlock(b.text), OneFile(b.text), FALSE,
         InNet(b.ranges \o b.ranges \o b.ranges, 0), << >>)

\* A file that includes itself, and one that does it through another file:
\* the ranges before the statement are read as often as a file can be opened.
Times(rs, n) == FlattenSeq([x \in 1..n |-> rs])
SelfIncluding ==
  LET text == <<"range", " ", "ip1", " ", "ip2", ";", "\n">> IN
  {Config(text \o IncludeOf("main"), NoFiles, FALSE, InNet(Times(OneTwo, MaxFiles), 0), << >>),
   Config(IncludeOf("file"), OneFile(text \o IncludeOf("main")), FALSE,
          InNet(Times(OneTwo, MaxFiles \div 2), 0), << >>)}

\* What the parser refuses: a file that is not there, a range without an
\* address, more networks than there is room for, and a file without end.
ThreeNets == SharedBlock(<<"a">>, << >>) \o SharedBlock(<<"b">>, << >>) \o SharedBlock(<<"c">>, << >>)
RefusedFiles ==
  SelfIncluding \cup
  {Config(IncludeOf("none"), NoFiles, FALSE, << >>, << >>),
   Config(<<"range", " ", ";", ";", "\n">>, NoFiles, FALSE, << >>, << >>),
   Config(ThreeNets \o SharedBlock(<<"d">>, << >>), NoFiles, FALSE, << >>, << >>)}
Refused == {[x EXCEPT !.refused = TRUE] : x \in RefusedFiles}

Ordinary_ ==
  UNION {{Plain(b), Masked(b), Sharing(b, FALSE), Sharing(b, TRUE), Including(b), Included(b), Around(b)} :
           b \in Bodies}
AllConfigs == Ordinary_ \cup Refused \cup ConfigsLaidOut
\* TLC lists a filtered set once; a union it would search part by part.
ConfigsOrdinary == {cfg \in AllConfigs : TRUE}

\* A layout that is given is one.
ASSUME LayoutsGiven == \A cfg \in Configs : cfg.layout # << >> => IsLayout(cfg)

=============================================================================
