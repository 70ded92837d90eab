--------------------------- MODULE MCMusicPlayback ---------------------------
(***************************************************************************)
(* MusicPlayback with two workers, a queue of two songs and calls that     *)
(* never fail: what the lock of the music mode does to the heartbeat.      *)
(***************************************************************************)
EXTENDS MusicPlayback

CONSTANTS
    w1, w2   \* two of the pool's workers

TwoWorkers == {w1, w2}
TwoSongs == 1..2
=============================================================================
