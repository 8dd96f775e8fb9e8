---------------------------- MODULE MCTrackReplay ----------------------------
(* Small instances of TrackReplay for TLC. *)
EXTENDS TrackReplay
=============================================================================
