--------------------------- MODULE TeamBoardProofs --------------------------
(***************************************************************************)
(* What the lock directory guarantees, for any number of processes,        *)
(* attempts, crashes and tasks.                                            *)
(***************************************************************************)
EXTENDS TeamBoard, TLAPS

\* Where a process counts on the directory it made.
InUse == {"open", "write", "held", "mutating", "release", "unlink", "rmdir"}

\* The directory a live process uses is the one it made, and what it has read
\* under the lock is what the file holds.
LockInv ==
    /\ \A p \in Procs : p \notin alive => lpc[p] = "dead"
    /\ DOMAIN lpc = Procs /\ DOMAIN view = Procs /\ alive \subseteq Procs
    /\ ~stolen =>
         /\ \A p \in Procs : lpc[p] \in InUse => exists /\ maker = p
         /\ board = expected
         /\ \A p \in Procs : lpc[p] = "mutating" =>
                view[p] = board /\ Allowed(board, op[p])

LEMMA LockInvInit == Init => LockInv
BY DEF Init, LockInit, LockInv, InUse

\* A step of the lock's code that does not touch the board.
LEMMA LockStepKeeps ==
    ASSUME LockInv, NEW r \in Procs, LockStep(r), UNCHANGED boardVars
    PROVE  LockInv'
<1>. USE DEF LockInv, InUse, At, LGoto, Again, boardVars
<1>1. CASE Mkdir(r)
  BY <1>1 DEF Mkdir
<1>2. CASE OpenOwner(r)
  BY <1>2 DEF OpenOwner
<1>3. CASE WriteOwner(r)
  BY <1>3 DEF WriteOwner
<1>4. CASE ReadOwner(r)
  BY <1>4 DEF ReadOwner
<1>5. CASE Steal(r)
  BY Zenon, <1>5 DEF Steal
<1>6. CASE ReadBeforeRelease(r)
  BY <1>6 DEF ReadBeforeRelease
<1>7. CASE Unlink(r)
  BY <1>7 DEF Unlink
<1>8. CASE Rmdir(r)
  BY <1>8 DEF Rmdir
<1>. QED  BY <1>1, <1>2, <1>3, <1>4, <1>5, <1>6, <1>7, <1>8 DEF LockStep

LEMMA LockInvNext == LockInv /\ [Next]_vars => LockInv'
<1>. SUFFICES ASSUME LockInv, [Next]_vars PROVE LockInv'
  OBVIOUS
<1>1. CASE UNCHANGED vars
  BY <1>1 DEF vars, lockVars, boardVars, LockInv
<1>2. ASSUME NEW r \in Procs, mutateBoard(r) PROVE LockInv'
  BY <1>2 DEF mutateBoard, acquireBoardLock, LockInv, InUse, At, LGoto
<1>3. ASSUME NEW r \in Procs, Lock(r) PROVE LockInv'
  BY <1>3, LockStepKeeps DEF Lock
<1>4. ASSUME NEW r \in Procs, readBoard(r) PROVE LockInv'
  BY <1>4 DEF readBoard, LockInv, InUse, At, LGoto
<1>5. ASSUME NEW r \in Procs, writeBoard(r) PROVE LockInv'
  BY <1>5 DEF writeBoard, LockInv, InUse, At, LGoto
<1>6. ASSUME NEW r \in Procs, Return(r) PROVE LockInv'
  BY <1>6 DEF Return, LockInv, InUse, At, LGoto, boardVars
<1>7. ASSUME NEW r \in Procs, Dies(r) PROVE LockInv'
  BY <1>7 DEF Dies, Crash, LockInv, InUse, LGoto, boardVars
<1>. QED  BY <1>1, <1>2, <1>3, <1>4, <1>5, <1>6, <1>7 DEF Next, Step

LEMMA LockInvHolds == Spec => []LockInv
BY LockInvInit, LockInvNext, PTL DEF Spec

\* acquireBoardLock and releaseBoardLock: unless a directory is moved away under
\* a live process, at most one process is in the critical section, whatever the
\* number of processes, attempts and crashes.
THEOREM OneHolder == Spec => []MutexUnlessStolen
<1>1. LockInv => MutexUnlessStolen
  BY DEF LockInv, MutexUnlessStolen, Holders, InUse
<1>. QED  BY <1>1, LockInvHolds, PTL

\* mutateBoard: unless that happens, no mutation of the board is overwritten.
THEOREM NoLostMutation == Spec => []AtomicUnlessStolen
<1>1. LockInv => AtomicUnlessStolen
  BY DEF LockInv, AtomicUnlessStolen
<1>. QED  BY <1>1, LockInvHolds, PTL
=============================================================================
