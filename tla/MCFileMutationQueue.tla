------------------------ MODULE MCFileMutationQueue -------------------------
(* Three calls on two paths of one file and one of another for TLC.        *)
EXTENDS FileMutationQueue, TLC

CONSTANTS c1, c2, c3, real, link, other

ThreeCalls == {c1, c2, c3}
ThreePaths == {real, link, other}
OneFileTwice == (real :> real @@ link :> real @@ other :> other)
=============================================================================
