------------------------------ MODULE MCAnalysis ------------------------------
(* Lease files of up to MaxBlocks blocks about two of the addresses, for     *)
(* Analysis.                                                                 *)
EXTENDS Analysis, SequencesExt

CONSTANT MaxBlocks

Ln(text, arg) == [text |-> text, arg |-> arg]

Blocks == {<<Ln("lease", a), Ln("binding4", s)>> : a \in {1, 2}, s \in {"free", "active", "backup"}}
Logs == {FlattenSeq(s) : s \in UNION {[1..n -> Blocks] : n \in 0..MaxBlocks}}

MCInputs == [lines : Logs, newline : {TRUE}, version : {"v4"}, ethernets : {FALSE}]
=============================================================================
