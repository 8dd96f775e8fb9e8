--------------------------- MODULE MCMapSession ---------------------------
(* Small instances of MapSession for TLC. *)
EXTENDS MapSession

CONSTANTS wide, narrow

MCMinZoom == [m \in Maps |-> 0]
MCMaxZoom == [m \in Maps |-> IF m = wide THEN 2 ELSE 1]
=============================================================================
