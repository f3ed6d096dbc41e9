------------------------------- MODULE MCReport -------------------------------
(***************************************************************************)
(* Values for Report: what is left out of the report by -L.                *)
(***************************************************************************)
EXTENDS Report

AllLimits == SUBSET {"R", "S", "A"}
=============================================================================
