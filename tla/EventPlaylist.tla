--------------------------- MODULE EventPlaylist ---------------------------
(***************************************************************************)
(* What a playback session promises its player with EXT-X-PLAYLIST-TYPE:   *)
(* EVENT: segments are only added at the end, an answer brings the player  *)
(* to the end of what there is, and after EXT-X-ENDLIST nothing changes.   *)
(* PlaybackSession implements it.                                          *)
(***************************************************************************)
EXTENDS SequencesExt

VARIABLES
    timeline,  \* the segments of the session
    shown,     \* those that the player knows
    over       \* it was told that there will be no others

Init == timeline # <<>> /\ shown = <<>> /\ over = FALSE

Grow ==
    /\ ~over
    /\ IsPrefix(timeline, timeline')
    /\ UNCHANGED <<shown, over>>

Reload ==
    /\ ~over
    /\ shown' = timeline /\ over' \in BOOLEAN
    /\ UNCHANGED timeline

Next == Grow \/ Reload

Spec == Init /\ [][Next]_<<timeline, shown, over>>

=============================================================================
