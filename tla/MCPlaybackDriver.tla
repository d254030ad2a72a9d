-------------------------- MODULE MCPlaybackDriver --------------------------
(* Instances of PlaybackDriver for TLC. *)
EXTENDS PlaybackDriver
=============================================================================
