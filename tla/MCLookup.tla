------------------------------ MODULE MCLookup ------------------------------
(***************************************************************************)
(* Two writers, two targets that may claim one hostname, two Claims.       *)
(***************************************************************************)
EXTENDS Lookup, TLC

Interchangeable == Permutations(Writers) \cup Permutations(Claims)
=============================================================================
