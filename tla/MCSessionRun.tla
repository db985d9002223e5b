---------------------------- MODULE MCSessionRun ----------------------------
(***************************************************************************)
(* SessionRun for TLC: two callers, which are interchangeable.             *)
(***************************************************************************)
EXTENDS SessionRun, TLC

CONSTANTS p1, p2

TwoCallers == {p1, p2}

Symmetry == Permutations(TwoCallers)
=============================================================================
