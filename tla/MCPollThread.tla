---------------------------- MODULE MCPollThread ----------------------------
(* Small instances of PollThread for TLC. *)
EXTENDS PollThread

CONSTANTS gtk, agps
=============================================================================
