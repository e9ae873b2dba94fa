---------------------------- MODULE MCTrackQueue ----------------------------
(***************************************************************************)
(* Small instances of TrackQueue: every track has a PlayID of its own, as  *)
(* tracks found by a search have.                                          *)
(***************************************************************************)
EXTENDS TrackQueue

OwnPlayID == [t \in Track |-> t]
=============================================================================
