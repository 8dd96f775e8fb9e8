----------------------------- MODULE MCUbxLink -----------------------------
(* A small instance of UbxLink for TLC. *)
EXTENDS UbxLink
=============================================================================
