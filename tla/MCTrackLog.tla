----------------------------- MODULE MCTrackLog -----------------------------
(* Small instances of TrackLog for TLC. *)
EXTENDS TrackLog
=============================================================================
