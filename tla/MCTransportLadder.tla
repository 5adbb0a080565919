------------------------- MODULE MCTransportLadder -------------------------
(***************************************************************************)
(* Runs of up to three tries, in two contexts.                             *)
(***************************************************************************)
EXTENDS TransportLadder, TLC

Interchangeable == Permutations(Contexts)
=============================================================================
