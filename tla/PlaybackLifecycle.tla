-------------------------- MODULE PlaybackLifecycle --------------------------
(***************************************************************************)
(* What WifiDisplaySource relies on when it uses a PlaybackSession, and    *)
(* what PlaybackSession has to provide: it is created once, told to        *)
(* destroy itself at most once, reports SESSION_ESTABLISHED at most once   *)
(* and SESSION_DESTROYED exactly once after destroyAsync().  SESSION_DEAD  *)
(* is a wish and may be reported at any time: a stuttering step here.      *)
(* The process may end at any time.                                        *)
(*                                                                         *)
(* With RTP over UDP the sender is ready when init() returns and           *)
(* SESSION_ESTABLISHED is never reported after SESSION_DESTROYED; over TCP *)
(* the connection may complete as late as it likes (LateInit).             *)
(* SESSION_DESTROYED does come, unless a track hangs.                      *)
(***************************************************************************)
VARIABLES
    LateInit,       \* RTP goes over TCP (settled before the session exists)
    hangs,          \* a thread that has to stop waits for ever
    playback,       \* "none", "live", "destroying" or "destroyed"
    established,    \* SESSION_ESTABLISHED was posted
    crashed         \* "no", or what ended the process

vars == <<playback, established, crashed>>

Init == playback = "none" /\ established = FALSE /\ crashed = "no"

Create ==
    /\ crashed = "no" /\ playback = "none"
    /\ playback' = "live"
    /\ UNCHANGED <<established, crashed>>

DestroyAsync ==
    /\ crashed = "no" /\ playback = "live"
    /\ playback' = "destroying"
    /\ UNCHANGED <<established, crashed>>

SessionEstablished ==
    /\ crashed = "no" /\ playback # "none"
    /\ playback = "destroyed" => LateInit
    /\ ~established
    /\ established' = TRUE
    /\ UNCHANGED <<playback, crashed>>

SessionDestroyed ==
    /\ crashed = "no" /\ playback = "destroying"
    /\ playback' = "destroyed"
    /\ UNCHANGED <<established, crashed>>

ProcessEnds ==
    /\ crashed = "no"
    /\ crashed' # "no"
    /\ UNCHANGED <<playback, established>>

Next == Create \/ DestroyAsync \/ SessionEstablished \/ SessionDestroyed \/ ProcessEnds

Usage == Init /\ [][Next]_vars

Spec == Usage /\ (WF_vars(SessionDestroyed) \/ <>hangs)

=============================================================================
