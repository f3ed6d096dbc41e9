------------------------------ MODULE MCCounting ------------------------------
(* Instances of Counting for TLC; the constants are given in the .cfg files. *)
EXTENDS Counting
=============================================================================
