---------------------------- MODULE MCTileFetch ----------------------------
(* Small instances of TileFetch for TLC.  The workers are interchangeable. *)
EXTENDS TileFetch, TLC

Symmetry == Permutations(Workers)
=============================================================================
