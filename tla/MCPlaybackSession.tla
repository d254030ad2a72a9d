------------------------ MODULE MCPlaybackSession ------------------------
(* A library of four tracks for TLC. *)
EXTENDS PlaybackSession, TLC

\* One or two segments, of one or two units.
TwoLengths == <<<<2>>, <<1, 2>>, <<1>>, <<2, 1>>>>
===========================================================================
