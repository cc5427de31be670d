-------------------------- MODULE MCPlaybackSession --------------------------
(* The instance of PlaybackSession that TLC checks: one track of each kind. *)
EXTENDS PlaybackSession

CONSTANTS video, audio

BothTracks == {video, audio}

=============================================================================
