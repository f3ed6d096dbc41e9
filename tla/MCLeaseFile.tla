----------------------------- MODULE MCLeaseFile -----------------------------
(***************************************************************************)
(* Lease files for LeaseFile: a few blocks as dhcpd writes them, cut after *)
(* any line, with and without a newline at the end.                        *)
(***************************************************************************)
EXTENDS LeaseFile, SequencesExt

CONSTANTS a1, a2, m1, m2, MaxBlocks

MCAddr == {a1, a2}
MCMacs == {m1, m2}

Ln(text, arg) == [text |-> text, arg |-> arg]
Other == Ln("other", None)

BlockStates == {"free", "released", "active", "backup", "reset"}

\* lease a { ... binding state s; ... [hardware ethernet m;] }
Blocks4 ==
  {<<Ln("lease", a), Ln("binding4", s)>> : a \in MCAddr, s \in BlockStates}
    \cup {<<Ln("lease", a), Ln("binding4", "active"), Ln("hardware", m), Other>> :
             a \in MCAddr, m \in MCMacs}

\* ia-na { iaaddr a { binding state s; } }
Blocks6 ==
  {<<Other, Ln("iaaddr", a), Ln("binding6", s)>> : a \in MCAddr, s \in {"active", "expired"}}
    \cup {<<Ln("iaaddr", a1), Ln("hardware", m1)>>}

\* ia-pd { iaprefix { binding state s; } }
Delegations == {<<Other, Ln("iaprefix", None), Ln("binding6", s)>> : s \in {"active", "expired"}}

Logs(blocks) == {FlattenSeq(s) : s \in UNION {[1..n -> blocks] : n \in 0..MaxBlocks}}
Cut(s) == {SubSeq(s, 1, n) : n \in 0..Len(s)}
Files(blocks) == UNION {Cut(s) : s \in Logs(blocks)}

In(files, versions) ==
  {in \in [lines : files, newline : BOOLEAN, version : versions, ethernets : BOOLEAN] :
     in.newline \/ in.lines # << >>}

InputsV4 == In(Files(Blocks4), {"v4"})
InputsV6 == In(Files(Blocks6), {"v6"})

\* The configuration file had no address, and the version is not known yet.
FilesUnknown == LET files == Files(Blocks4) IN files \cup {<<Other>> \o f : f \in files}
InputsUnknown == In({f \in FilesUnknown : Len(f) <= 5}, {"unknown"})

InputsOrdinary == InputsV4 \cup InputsV6 \cup InputsUnknown

\* A file with a lease, and then prefixes that are delegated.
Delegated == {<<Other, Ln("iaaddr", a1), Ln("binding6", "expired")>> \o d : d \in Logs(Delegations)}
InputsDelegated == In(Delegated, {"v6"})
=============================================================================
