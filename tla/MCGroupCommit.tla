---------------------------- MODULE MCGroupCommit ---------------------------
(* GroupCommit with one document for TLC. *)
EXTENDS GroupCommit

CONSTANTS d1

OneDoc == {d1}
=============================================================================
