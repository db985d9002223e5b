------------------------------ MODULE TeamBoard -----------------------------
(***************************************************************************)
(* The team board (extensions/lib/team-board.ts and hummin-team.ts): a     *)
(* file of tasks every hummin process reads and rewrites under DirLock.    *)
(* A board maps the ids in use to tasks, each with a status ("queued",     *)
(* "in_progress" or "done") and an assignee.                               *)
(***************************************************************************)
EXTENDS DirLock, FiniteSetsExt, Functions

CONSTANTS MaxTasks, MaxOps

ASSUME BoardBoundsAssumption == MaxTasks \in Nat /\ MaxOps \in Nat

VARIABLES
    board,          \* the tasks in team-board.json
    op,             \* what each process was asked to do
    view,           \* the tasks it has read
    ops,            \* history: operations each process began
    expected        \* history: the board if every mutation were atomic

boardVars == <<board, op, view, ops, expected>>
vars == <<lockVars, boardVars>>

Ids == 1..MaxTasks
Ops == [kind : {"add"}, id : {0}] \cup
       [kind : {"claim", "release", "done", "delete"}, id : Ids]
-----------------------------------------------------------------------------
(* The operations on a list of tasks *)

nextTaskId(b) == 1 + Max(DOMAIN b \cup {0})

addTask(b) == [i \in DOMAIN b \cup {nextTaskId(b)} |->
                 IF i \in DOMAIN b THEN b[i] ELSE [status |-> "queued", assignee |-> NoOne]]

claimTask(b, id, p) == [b EXCEPT ![id] = [status |-> "in_progress", assignee |-> p]]

releaseTask(b, id) == [b EXCEPT ![id] = [status |-> "queued", assignee |-> NoOne]]

doneTask(b, id) == [b EXCEPT ![id].status = "done"]

deleteTask(b, id) == Restrict(b, DOMAIN b \ {id})

\* The operation does not throw.
Allowed(b, o) ==
    \/ o.kind = "add" /\ nextTaskId(b) <= MaxTasks
    \/ o.kind # "add" /\ o.id \in DOMAIN b /\ (o.kind = "claim" => b[o.id].status # "done")

Apply(b, o, p) ==
    CASE o.kind = "add"     -> addTask(b)
      [] o.kind = "claim"   -> claimTask(b, o.id, p)
      [] o.kind = "release" -> releaseTask(b, o.id)
      [] o.kind = "done"    -> doneTask(b, o.id)
      [] o.kind = "delete"  -> deleteTask(b, o.id)
-----------------------------------------------------------------------------
Init ==
    /\ LockInit
    /\ board = <<>> /\ expected = <<>>
    /\ op = [p \in Procs |-> [kind |-> "add", id |-> 0]]
    /\ view = [p \in Procs |-> <<>>] /\ ops = [p \in Procs |-> 0]

\* A session, shown the board, calls mutateBoard.
mutateBoard(p) ==
    /\ ops[p] < MaxOps
    /\ acquireBoardLock(p)
    /\ ops' = [ops EXCEPT ![p] = @ + 1]
    /\ \E o \in Ops : op' = [op EXCEPT ![p] = o]
    /\ view' = [view EXCEPT ![p] = board]
    /\ UNCHANGED <<board, expected>>

Lock(p) == LockStep(p) /\ UNCHANGED boardVars

\* Faulty variant: the tasks shown before are not read again.
readBoard_cached(p) ==
    /\ At(p, "held")
    /\ LGoto(p, IF Allowed(view[p], op[p]) THEN "mutating" ELSE "release")
    /\ UNCHANGED <<attempt, alive, exists, file, opener, maker, stolen, view, board, op, ops, expected>>

\* The board is read and the mutator applied; if that throws nothing is written.
readBoard(p) ==
    /\ At(p, "held")
    /\ view' = [view EXCEPT ![p] = board]
    /\ LGoto(p, IF Allowed(board, op[p]) THEN "mutating" ELSE "release")
    /\ UNCHANGED <<attempt, alive, exists, file, opener, maker, stolen, board, op, ops, expected>>

\* The new list replaces the file in one rename, or the write throws and does not.
writeBoard(p) ==
    /\ At(p, "mutating")
    /\ LGoto(p, "release")
    /\ \/ /\ board' = Apply(view[p], op[p], p)
          /\ expected' = IF Allowed(expected, op[p]) THEN Apply(expected, op[p], p) ELSE expected
       \/ UNCHANGED <<board, expected>>
    /\ UNCHANGED <<attempt, alive, exists, file, opener, maker, stolen, op, view, ops>>

\* mutateBoard returns or throws; the session may call it again.
Return(p) ==
    /\ At(p, "done") \/ At(p, "failed")
    /\ LGoto(p, "idle")
    /\ UNCHANGED <<attempt, alive, exists, file, opener, maker, stolen, boardVars>>

Dies(p) == Crash(p) /\ UNCHANGED boardVars

Step(p) == Lock(p) \/ readBoard(p) \/ writeBoard(p) \/ Return(p)

Next == \E p \in Procs : mutateBoard(p) \/ Step(p) \/ Dies(p)

Spec == Init /\ [][Next]_vars

\* A live process goes on with what it began; nobody has to begin anything.
FairSpec == Spec /\ \A p \in Procs : WF_vars(Step(p))
-----------------------------------------------------------------------------
\* As long as no directory is moved away under a live process, the board is what
\* the mutations that returned leave behind when each is atomic: no update of
\* another process is overwritten, and a crash loses at most its own.
AtomicUnlessStolen == ~stolen => board = expected

\* mutateBoard returns or throws, whoever dies holding the lock.
MutationsReturn == \A p \in Procs : At(p, "mkdir") ~> (lpc[p] \in {"done", "failed", "dead"})

\* A process that dies in the critical section does not lock the board for good:
\* when only one process is left and nothing aborts its wait, it gets the lock.
DeadOwnersGiveWay ==
    \A p \in Procs : (At(p, "mkdir") /\ alive = {p} /\ attempt[p] = 0)
                        ~> (lpc[p] \in {"held", "dead"})
=============================================================================
