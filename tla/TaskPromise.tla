----------------------------- MODULE TaskPromise ----------------------------
(***************************************************************************)
(* What the task scheduler promises of the life of tasks, whatever runs,   *)
(* fails, is aborted or crashes (packages/durable/docs/spec.md 5.4, 5.5):  *)
(* a task gets one outcome, once, and ends only when no ordinary work      *)
(* below it is live; until then its outcome is held.                       *)
(***************************************************************************)
CONSTANT Tasks

VARIABLES
    life,               \* "none", "live", "held" with an outcome, or "ended"
    outcome,
    over                \* the tasks that each one, as ordinary work, is below

vars == <<life, outcome, over>>

Working(t) == {u \in Tasks : life[u] \in {"live", "held"} /\ t \in over[u]}

Init ==
    /\ life = [t \in Tasks |-> "none"] /\ outcome = [t \in Tasks |-> "none"]
    /\ over \in [Tasks -> SUBSET Tasks]

Lives(t) ==
    \/ life'[t] = life[t] /\ outcome'[t] = outcome[t]
    \/ life[t] = "none" /\ life'[t] = "live" /\ outcome'[t] = "none"
    \/ life[t] = "live" /\ life'[t] \in {"held", "ended"} /\ outcome'[t] # "none"
    \/ life[t] = "held" /\ life'[t] = "ended" /\ outcome'[t] = outcome[t]

Ends(t) == life[t] # "ended" /\ life'[t] = "ended"

\* A commit may change several tasks.
Commit ==
    /\ \A t \in Tasks : Lives(t) /\ (Ends(t) => Working(t)' = {})
    /\ UNCHANGED over

Spec == Init /\ [][Commit]_vars
=============================================================================
