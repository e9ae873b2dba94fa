----------------------------- MODULE MCPlayback -----------------------------
(***************************************************************************)
(* Playback for TLC: all tracks on a server that is never idle, and those  *)
(* of AsleepTrack, of one read each, on one that may go to sleep at any    *)
(* quiet moment.                                                           *)
(***************************************************************************)
EXTENDS Playback

CONSTANT AsleepTrack

MCInit == Init /\ unqueued = IF Busy THEN Track ELSE AsleepTrack

MCNext == Next /\ (Busy \/ UNCHANGED samples)

MCSpec == MCInit /\ [][MCNext]_vars /\ Fairness
=============================================================================
