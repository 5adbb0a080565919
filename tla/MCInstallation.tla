--------------------------- MODULE MCInstallation ---------------------------
(***************************************************************************)
(* Two processes that may each initialize the directory again and again.   *)
(***************************************************************************)
EXTENDS Installation, TLC

Interchangeable == Permutations(Initializers)
=============================================================================
