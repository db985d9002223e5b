------------------------- MODULE MCSessionCompaction ------------------------
(***************************************************************************)
(* SessionCompaction for TLC: two compact() calls, two prompts.     *)
(***************************************************************************)
EXTENDS SessionCompaction

CONSTANTS c1, c2, p1, p2

TwoCompactors == {c1, c2}
TwoPrompters  == {p1, p2}
=============================================================================
