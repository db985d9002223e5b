------------------------- MODULE FileMutationQueue --------------------------
(***************************************************************************)
(* withFileMutationQueue (coding-agent, core/tools/file-mutation-queue.ts): *)
(* the edits and writes of parallel tool calls to one file run one after   *)
(* the other.  A file may have several paths, of which one is canonical;   *)
(* the others lead to it through a symbolic link.                          *)
(***************************************************************************)
EXTENDS Naturals, Sequences

CONSTANTS
    Calls, Paths,
    Canonical,      \* the canonical path of each path
    None

ASSUME PathsAssumption ==
    /\ Canonical \in [Paths -> Paths] /\ None \notin Calls \cup Paths
    /\ \A p \in Paths : Canonical[Canonical[p]] = Canonical[p]

VARIABLES
    pc,
    path,           \* the path each call was given
    key,            \* the queue it is on
    prev,           \* the call whose end it waits for, or None
    registering,    \* registrationQueue: calls that wait to be registered, in order
    queues,         \* fileMutationQueues: the last call of each queue, or None
    existing,       \* canonical paths of the files that exist
    made,           \* history: how many calls were made
    ticket          \* history: how many were, when each was

vars == <<pc, path, key, prev, registering, queues, existing, made, ticket>>

Init ==
    /\ pc = [c \in Calls |-> "new"] /\ path \in [Calls -> Paths]
    /\ key = [c \in Calls |-> None] /\ prev = [c \in Calls |-> None]
    /\ registering = <<>> /\ queues = [p \in Paths |-> None]
    /\ made = 0 /\ ticket = [c \in Calls |-> 0]
    /\ existing \in SUBSET {Canonical[p] : p \in Paths}

Goto(c, l) == pc' = [pc EXCEPT ![c] = l]

withFileMutationQueue(c) ==
    /\ pc[c] = "new" /\ Goto(c, "registering")
    /\ registering' = Append(registering, c)
    /\ made' = made + 1 /\ ticket' = [ticket EXCEPT ![c] = made + 1]
    /\ UNCHANGED <<path, key, prev, queues, existing>>

First(c) == registering # <<>> /\ Head(registering) = c

\* realpath: the canonical path of a file that exists, the path itself of one
\* that does not; any other error goes to the caller.
getMutationQueueKey(c) ==
    /\ First(c) /\ pc[c] = "registering"
    /\ \/ /\ Goto(c, "keyed") /\ UNCHANGED registering
          /\ key' = [key EXCEPT ![c] = IF Canonical[path[c]] \in existing
                                       THEN Canonical[path[c]] ELSE path[c]]
       \/ Goto(c, "failed") /\ registering' = Tail(registering) /\ UNCHANGED key
    /\ UNCHANGED <<path, prev, queues, existing, made, ticket>>

Register(c) ==
    /\ First(c) /\ pc[c] = "keyed" /\ Goto(c, "waiting")
    /\ registering' = Tail(registering)
    /\ prev' = [prev EXCEPT ![c] = queues[key[c]]]
    /\ queues' = [queues EXCEPT ![key[c]] = c]
    /\ UNCHANGED <<path, key, existing, made, ticket>>

Run(c) ==
    /\ pc[c] = "waiting" /\ (prev[c] # None => pc[prev[c]] = "done")
    /\ Goto(c, "running")
    /\ UNCHANGED <<path, key, prev, registering, queues, existing, made, ticket>>

\* What the mutation does to the file may be to create it.
Create(c) ==
    /\ pc[c] = "running" /\ Canonical[path[c]] \notin existing
    /\ existing' = existing \cup {Canonical[path[c]]}
    /\ UNCHANGED <<pc, path, key, prev, registering, queues, made, ticket>>

\* Faulty variant: the queue goes, whoever is last on it.
Finish_drop(c) ==
    /\ pc[c] = "running" /\ Goto(c, "done")
    /\ queues' = [queues EXCEPT ![key[c]] = None]
    /\ UNCHANGED <<path, key, prev, registering, existing, made, ticket>>

\* Faulty variant: a mutation that throws does not release the next one.
Finish_throw(c) ==
    /\ pc[c] = "running" /\ \E l \in {"done", "failed"} : Goto(c, l)
    /\ queues' = [queues EXCEPT ![key[c]] = IF @ = c THEN None ELSE @]
    /\ UNCHANGED <<path, key, prev, registering, existing, made, ticket>>

\* The mutation returns or throws; the last call of a queue takes it away.
Finish(c) ==
    /\ pc[c] = "running" /\ Goto(c, "done")
    /\ queues' = [queues EXCEPT ![key[c]] = IF @ = c THEN None ELSE @]
    /\ UNCHANGED <<path, key, prev, registering, existing, made, ticket>>

Step(c) == getMutationQueueKey(c) \/ Register(c) \/ Run(c) \/ Finish(c)

Next == \E c \in Calls : withFileMutationQueue(c) \/ Step(c) \/ Create(c)

Spec == Init /\ [][Next]_vars

\* realpath and the mutations settle.
FairSpec == Spec /\ \A c \in Calls : WF_vars(Step(c))
-----------------------------------------------------------------------------
Ended == {"done", "failed"}

\* Types of the calls and queues; no call waits for itself (chainedQueue follows
\* the queue that was there before).
TypeOK ==
    /\ pc \in [Calls -> {"new", "registering", "keyed", "waiting", "running"} \cup Ended]
    /\ path \in [Calls -> Paths] /\ key \in [Calls -> Paths \cup {None}]
    /\ prev \in [Calls -> Calls \cup {None}] /\ (\A c \in Calls : prev[c] # c)
    /\ registering \in Seq(Calls)
    /\ queues \in [Paths -> Calls \cup {None}]
    /\ existing \subseteq {Canonical[p] : p \in Paths}
    /\ made \in Nat /\ ticket \in [Calls -> Nat]

\* Calls on one queue run one at a time and in the order they were made: none
\* runs while one made before it is still under way.
OneRunsPerQueue ==
    \A c, d \in Calls :
        /\ pc[c] = "running" /\ pc[d] \in {"waiting", "running"}
        /\ key[c] = key[d] /\ c # d
        => ticket[c] < ticket[d]

\* The map of queues does not grow: what it holds is a call still under way.
NoQueueLeft == \A p \in Paths : queues[p] # None => pc[queues[p]] \in {"waiting", "running"}

\* Every call ends, whatever became of those before it.
CallsEnd == \A c \in Calls : (pc[c] = "registering") ~> (pc[c] \in Ended)
=============================================================================
