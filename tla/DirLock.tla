------------------------------- MODULE DirLock ------------------------------
(***************************************************************************)
(* The lock hummin processes share through the file system: a directory    *)
(* with a file owner.json in it that holds the owner's pid                 *)
(* (extensions/lib/team-board.ts, acquireBoardLock and releaseBoardLock;   *)
(* cron-store.ts has the same code for the scheduler, which gives up at    *)
(* once where the board waits and tries again).                            *)
(*                                                                         *)
(* A process runs its system calls one after the other, but other          *)
(* processes run between any two of them, and it may die at any of them.   *)
(***************************************************************************)
EXTENDS Naturals, FiniteSets

CONSTANTS
    Procs,          \* processes; also their pids
    MaxAttempts,    \* LOCK_ATTEMPTS
    MaxCrashes,     \* how many processes may die
    NoOne, Empty    \* no owner.json; an owner.json nothing is written to yet

ASSUME ProcsAssumption == IsFiniteSet(Procs) /\ NoOne \notin Procs /\ Empty \notin Procs
ASSUME LockBoundsAssumption == MaxAttempts \in Nat \ {0} /\ MaxCrashes \in Nat

VARIABLES
    lpc,            \* where each process is in the lock's code
    attempt,        \* its loop counter
    alive,          \* processes that run
    exists,         \* the lock directory exists
    file,           \* what owner.json in it holds
    opener,         \* the process that created that owner.json
    maker,          \* history: the process that created the directory
    stolen          \* history: a directory in use was moved away

lockVars == <<lpc, attempt, alive, exists, file, opener, maker, stolen>>

\* Between acquireBoardLock returning true and releaseBoardLock
Holders == {p \in Procs : lpc[p] \in {"held", "mutating"}}

LockInit ==
    /\ lpc = [p \in Procs |-> "idle"] /\ attempt = [p \in Procs |-> 0]
    /\ alive = Procs
    /\ exists = FALSE /\ file = NoOne /\ opener = NoOne /\ maker = NoOne
    /\ stolen = FALSE

At(p, l) == p \in alive /\ lpc[p] = l

LGoto(p, l) == lpc' = [lpc EXCEPT ![p] = l]

\* The next round of the loop
Again(p) ==
    /\ attempt' = [attempt EXCEPT ![p] = @ + 1]
    /\ LGoto(p, IF attempt[p] + 1 = MaxAttempts THEN "failed" ELSE "mkdir")
-----------------------------------------------------------------------------
(* acquireBoardLock *)

acquireBoardLock(p) ==
    /\ At(p, "idle")
    /\ LGoto(p, "mkdir") /\ attempt' = [attempt EXCEPT ![p] = 0]
    /\ UNCHANGED <<alive, exists, file, opener, maker, stolen>>

Mkdir(p) ==
    /\ At(p, "mkdir")
    /\ IF exists THEN LGoto(p, "read") /\ UNCHANGED <<exists, maker>>
       ELSE LGoto(p, "open") /\ exists' = TRUE /\ maker' = p
    /\ UNCHANGED <<attempt, alive, file, opener, stolen>>

\* owner.json is created, exclusively, in whatever directory is there now.
OpenOwner(p) ==
    /\ At(p, "open")
    /\ IF ~exists THEN LGoto(p, "failed") /\ UNCHANGED <<file, opener>>
       ELSE IF file # NoOne THEN LGoto(p, "read") /\ UNCHANGED <<file, opener>>
       ELSE LGoto(p, "write") /\ file' = Empty /\ opener' = p
    /\ UNCHANGED <<attempt, alive, exists, maker, stolen>>

\* The pid is written to the file that was opened, be it gone.
WriteOwner(p) ==
    /\ At(p, "write")
    /\ LGoto(p, "held")
    /\ file' = IF opener = p THEN p ELSE file
    /\ UNCHANGED <<attempt, alive, exists, opener, maker, stolen>>

\* Faulty variant: whatever pid is written there is taken for a live one.
ReadOwner_trust(p) ==
    /\ At(p, "read")
    /\ IF file \in Procs THEN Again(p) \/ (LGoto(p, "failed") /\ UNCHANGED attempt)
       ELSE LGoto(p, "steal") /\ UNCHANGED attempt
    /\ UNCHANGED <<alive, exists, file, opener, maker, stolen>>

\* Faulty variant: nor are the rounds of waiting for it counted.
ReadOwner_wait(p) ==
    /\ At(p, "read")
    /\ LGoto(p, IF file \in Procs THEN "mkdir" ELSE "steal")
    /\ UNCHANGED <<attempt, alive, exists, file, opener, maker, stolen>>

\* A live owner is waited for, unless the wait is aborted.  Without a pid, or
\* with that of a dead process, the lock counts as stale.
ReadOwner(p) ==
    /\ At(p, "read")
    /\ IF file \in alive THEN Again(p) \/ (LGoto(p, "failed") /\ UNCHANGED attempt)
       ELSE LGoto(p, "steal") /\ UNCHANGED attempt
    /\ UNCHANGED <<alive, exists, file, opener, maker, stolen>>

\* Whatever directory is there now is moved away and removed.
Steal(p) ==
    /\ At(p, "steal")
    /\ Again(p)
    /\ exists' = FALSE /\ file' = NoOne /\ opener' = NoOne
    /\ stolen' = (stolen \/ (exists /\ maker \in alive))
    /\ UNCHANGED <<alive, maker>>
-----------------------------------------------------------------------------
(* releaseBoardLock *)

\* Another process's pid in the file is left alone.
ReadBeforeRelease(p) ==
    /\ At(p, "release")
    /\ LGoto(p, IF file \in Procs \ {p} THEN "done" ELSE "unlink")
    /\ UNCHANGED <<attempt, alive, exists, file, opener, maker, stolen>>

\* rmSync: the file, then the directory if it is still empty or emptied again.
Unlink(p) ==
    /\ At(p, "unlink")
    /\ LGoto(p, "rmdir")
    /\ file' = NoOne /\ opener' = NoOne
    /\ UNCHANGED <<attempt, alive, exists, maker, stolen>>

Rmdir(p) ==
    /\ At(p, "rmdir")
    /\ LGoto(p, "done")
    /\ \/ exists' = FALSE /\ file' = NoOne /\ opener' = NoOne
       \/ file # NoOne /\ UNCHANGED <<exists, file, opener>>
    /\ UNCHANGED <<attempt, alive, maker, stolen>>

\* A process dies.
Crash(p) ==
    /\ p \in alive /\ Cardinality(Procs \ alive) < MaxCrashes
    /\ alive' = alive \ {p}
    /\ LGoto(p, "dead")
    /\ UNCHANGED <<attempt, exists, file, opener, maker, stolen>>

LockStep(p) ==
    \/ Mkdir(p) \/ OpenOwner(p) \/ WriteOwner(p) \/ ReadOwner(p) \/ Steal(p)
    \/ ReadBeforeRelease(p) \/ Unlink(p) \/ Rmdir(p)
-----------------------------------------------------------------------------
\* As long as no directory is moved away under a live process, at most one
\* process is between acquire and release, whoever dies where, and takeovers of
\* dead owners' locks do not change that.
MutexUnlessStolen == ~stolen => \A p, q \in Holders : p = q
=============================================================================
