-------------------------- MODULE SessionCompaction -------------------------
(***************************************************************************)
(* Manual compaction of a session (AgentSession.compact, agent-session.ts) *)
(* beside the prompts and custom messages that start runs.  A run is only  *)
(* active or not here; module SessionRun has it in full.                   *)
(*                                                                         *)
(* compact() keeps its abort controller in a field of the session, which   *)
(* also says to others that a compaction is running.  The field is read    *)
(* again after each await, whoever has written it meanwhile.               *)
(***************************************************************************)
EXTENDS Naturals, FiniteSets, Sequences

CONSTANTS
    Compactors,     \* calls of compact()
    Prompters,      \* calls of prompt() or sendCustomMessage()
    None            \* no controller

ASSUME CallersAssumption ==
    /\ IsFiniteSet(Compactors) /\ IsFiniteSet(Prompters)
    /\ None \notin Compactors

VARIABLES
    pc,             \* where each compact() call is
    pp,             \* where each prompt is
    ctl,            \* _compactionAbortController, named after who created it
    cancelled,      \* controllers that were aborted
    active,         \* _isAgentRunActive
    stop,           \* _agentRunAbortRequested
    hostWaits,      \* the host's abort() waits
    compactable,    \* prepareCompaction finds something to compact
    entries,        \* compaction entries in the session, by compact() call
    shared          \* history: two compactions were under way at once

vars == <<pc, pp, ctl, cancelled, active, stop, hostWaits, compactable,
          entries, shared>>

Init ==
    /\ pc = [c \in Compactors |-> "idle"] /\ pp = [p \in Prompters |-> "idle"]
    /\ ctl = None /\ cancelled = {} /\ active = FALSE /\ stop = FALSE
    /\ hostWaits = FALSE /\ compactable \in BOOLEAN /\ entries = <<>> /\ shared = FALSE

\* isIdle, as far as compact() can make a difference
IdleWhen(isActive, controller) == ~isActive /\ controller = None

\* Call c has written the field and will do so again.
Underway(c) == pc[c] \in {"hook", "summarize", "emit", "failedHook"}

\* Call c goes to l and the field is cleared: _clearManualCompactionState wakes
\* all that wait for the session to become idle.
Clear(c, l) ==
    /\ ctl' = None
    /\ hostWaits' = (hostWaits /\ active)
    /\ pc' = [d \in Compactors |-> IF d = c THEN l
                                   ELSE IF pc[d] = "waiting" /\ ~active THEN "begin" ELSE pc[d]]

\* AgentSession.abort() up to its wait
AbortAll ==
    /\ stop' = (stop \/ active)
    /\ cancelled' = cancelled \cup ({ctl} \ {None})

abort ==
    /\ AbortAll
    /\ hostWaits' = (hostWaits \/ ~IdleWhen(active, ctl))
    /\ UNCHANGED <<pc, pp, ctl, active, compactable, entries, shared>>

abortCompaction ==
    /\ ctl # None /\ cancelled' = cancelled \cup {ctl}
    /\ UNCHANGED <<pc, pp, ctl, active, stop, hostWaits, compactable, entries, shared>>
-----------------------------------------------------------------------------
(* compact() *)

compact(c) ==
    /\ pc[c] = "idle"
    /\ AbortAll
    /\ pc' = [pc EXCEPT ![c] = IF IdleWhen(active, ctl) THEN "begin" ELSE "waiting"]
    /\ UNCHANGED <<pp, ctl, active, hostWaits, compactable, entries, shared>>

\* The catch block.  It reads the controller: if there is none, that throws
\* too, and only the finally block is left.
Fail(c, controller) ==
    Clear(c, IF controller = None THEN "returned" ELSE "failedHook")

\* The controller is created; then there must be something to compact.
Begin(c) ==
    /\ pc[c] = "begin"
    /\ IF compactable
       THEN /\ ctl' = c /\ UNCHANGED hostWaits
            /\ \E l \in {"hook", "summarize"} : pc' = [pc EXCEPT ![c] = l]
       ELSE Fail(c, c)
    /\ shared' = (shared \/ \E d \in Compactors \ {c} : Underway(d))
    /\ UNCHANGED <<pp, cancelled, active, stop, compactable, entries>>

\* Faulty variant: nobody looks whether the compaction was cancelled.
Save_blind(c) ==
    IF ctl = None THEN Fail(c, ctl) /\ UNCHANGED <<compactable, entries>>
    ELSE /\ entries' = Append(entries, c) /\ compactable' = FALSE
         /\ pc' = [pc EXCEPT ![c] = "emit"]
         /\ UNCHANGED <<ctl, hostWaits>>

\* The summary is there: append it, unless cancelled.
Save(c) ==
    IF ctl = None \/ ctl \in cancelled THEN Fail(c, ctl) /\ UNCHANGED <<compactable, entries>>
    ELSE /\ entries' = Append(entries, c) /\ compactable' = FALSE
         /\ pc' = [pc EXCEPT ![c] = "emit"]
         /\ UNCHANGED <<ctl, hostWaits>>

\* session_before_compact handlers: cancel, supply the summary, or leave it to
\* the default, for which the controller's signal is read.
HookDone(c) ==
    /\ pc[c] = "hook"
    /\ \/ Fail(c, ctl) /\ UNCHANGED <<compactable, entries>>
       \/ Save(c)
       \/ /\ ctl # None
          /\ pc' = [pc EXCEPT ![c] = "summarize"]
          /\ UNCHANGED <<ctl, hostWaits, compactable, entries>>
    /\ UNCHANGED <<pp, cancelled, active, stop, shared>>

\* The summary was written, or its request failed or was cancelled.
SummarizeDone(c) ==
    /\ pc[c] = "summarize"
    /\ \/ Fail(c, ctl) /\ UNCHANGED <<compactable, entries>>
       \/ Save(c)
    /\ UNCHANGED <<pp, cancelled, active, stop, shared>>

\* session_compact handlers are done.
EmitDone(c) ==
    /\ pc[c] = "emit"
    /\ Clear(c, "returned")
    /\ UNCHANGED <<pp, cancelled, active, stop, compactable, entries, shared>>

\* session_compact_failed handlers are done; the finally block clears again.
FailedHookDone(c) ==
    /\ pc[c] = "failedHook"
    /\ Clear(c, "returned")
    /\ UNCHANGED <<pp, cancelled, active, stop, compactable, entries, shared>>
-----------------------------------------------------------------------------
(* Runs *)

StartRun(p, l) ==
    /\ active' = TRUE /\ stop' = FALSE
    /\ pp' = [pp EXCEPT ![p] = l]

\* prompt(): refused while a compaction is running, otherwise on to the input
\* handlers.
prompt(p) ==
    /\ pp[p] = "idle"
    /\ pp' = [pp EXCEPT ![p] = IF ctl # None THEN "returned" ELSE "input"]
    /\ UNCHANGED <<pc, ctl, cancelled, active, stop, hostWaits, compactable, entries, shared>>

\* The input handlers are done: queue into the run, or start one.
InputDone(p) ==
    /\ pp[p] = "input"
    /\ \/ active /\ pp' = [pp EXCEPT ![p] = "returned"] /\ UNCHANGED <<active, stop>>
       \/ ~active /\ StartRun(p, "promptRun")
    /\ UNCHANGED <<pc, ctl, cancelled, hostWaits, compactable, entries, shared>>

\* sendCustomMessage() with triggerTurn
sendCustomMessage(p) ==
    /\ pp[p] = "idle" /\ ~active
    /\ StartRun(p, "customRun")
    /\ UNCHANGED <<pc, ctl, cancelled, hostWaits, compactable, entries, shared>>

\* Faulty variant: only the host's abort() is woken.
RunEnds_host(p) ==
    /\ pp[p] \in {"promptRun", "customRun"}
    /\ pp' = [pp EXCEPT ![p] = "returned"]
    /\ active' = FALSE /\ compactable' \in {compactable, TRUE}
    /\ hostWaits' = (hostWaits /\ ctl # None)
    /\ UNCHANGED <<pc, ctl, cancelled, stop, entries, shared>>

\* The run settles and wakes all that wait, unless a compaction is running.
RunEnds(p) ==
    /\ pp[p] \in {"promptRun", "customRun"}
    /\ pp' = [pp EXCEPT ![p] = "returned"]
    /\ active' = FALSE /\ compactable' \in {compactable, TRUE}
    /\ hostWaits' = (hostWaits /\ ctl # None)
    /\ pc' = [c \in Compactors |-> IF pc[c] = "waiting" /\ ctl = None THEN "begin" ELSE pc[c]]
    /\ UNCHANGED <<ctl, cancelled, stop, entries, shared>>

CompactStep(c) ==
    Begin(c) \/ HookDone(c) \/ SummarizeDone(c) \/ EmitDone(c) \/ FailedHookDone(c)

RunStep(p) == InputDone(p) \/ RunEnds(p)

Next ==
    \/ \E c \in Compactors : compact(c) \/ CompactStep(c)
    \/ \E p \in Prompters : prompt(p) \/ sendCustomMessage(p) \/ RunStep(p)
    \/ abort \/ abortCompaction

Spec == Init /\ [][Next]_vars

\* Handlers and summaries end, and runs do (module SessionRun).
FairSpec == /\ Spec
            /\ \A c \in Compactors : WF_vars(CompactStep(c))
            /\ \A p \in Prompters : WF_vars(RunStep(p))
-----------------------------------------------------------------------------
(* Properties *)

\* A compaction that abort() or abortCompaction() cancelled before its summary
\* was there does not rewrite the session, as long as calls come one at a time.
CancelledWritesNothing ==
    [][~shared => \A c \in Compactors :
                      pc'[c] = "emit" /\ pc[c] # "emit" => c \notin cancelled]_vars

\* Whoever waits for the session to become idle, abort() or compact(), is woken
\* in the end, whatever runs and compactions take turns meanwhile.
WaitersWake ==
    /\ hostWaits ~> ~hostWaits
    /\ \A c \in Compactors : pc[c] = "waiting" ~> pc[c] = "returned"
=============================================================================
