----------------------------- MODULE MCTeamBoard ----------------------------
(* TeamBoard with two processes for TLC. *)
EXTENDS TeamBoard

CONSTANTS p1, p2

TwoProcs == {p1, p2}
=============================================================================
