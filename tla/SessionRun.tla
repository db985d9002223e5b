----------------------------- MODULE SessionRun -----------------------------
(***************************************************************************)
(* The run lifecycle of AgentSession (coding-agent, core/agent-session.ts): *)
(* prompt() and its preflight, _startRun, the loop of post-run work that   *)
(* retries, compacts and continues, settlement, abort() and the messages   *)
(* held back while a run is active.                                        *)
(*                                                                         *)
(* Every caller of prompt() is a process; its pc is where it waits.  The   *)
(* low-level Agent appears by its phases only (module AgentRun has it in   *)
(* full).  A provider response is one of                                   *)
(*   "ok"         a completed response          "fatal"    another error   *)
(*   "retryable"  an error worth a retry        "aborted"                  *)
(*   "overflow"   a context-overflow error      "length"   cut off, could  *)
(*                                                         be longer       *)
(***************************************************************************)
EXTENDS Naturals, FiniteSets

CONSTANTS
    Callers,        \* concurrent prompt() calls
    MaxQueue,       \* messages queued while a run is active
    MaxRetries,     \* settings.retry.maxRetries
    MaxContinue,    \* times extensions append or ask to continue before settling
    MaxTurns,       \* turns with tool calls
    MaxCalls,       \* abortRetry() calls and custom messages without triggerTurn;
                    \* with 0 there are no bash results either
    AuthAwaits      \* the provider's credentials are not known without waiting

ASSUME CallersAssumption == IsFiniteSet(Callers)
ASSUME BoundsAssumption == MaxQueue \in Nat /\ MaxRetries \in Nat
                           /\ MaxContinue \in Nat /\ MaxTurns \in Nat /\ MaxCalls \in Nat
ASSUME AuthAssumption == AuthAwaits \in BOOLEAN

VARIABLES
    pc,             \* where each caller waits
    go,             \* what the check it awaited returned
    willRetry,      \* its compaction is to be followed by a retry
    todo,           \* deferred prompts it runs, the current one included
    byUser,         \* its run starts with a user message
    active,         \* _isAgentRunActive
    abortReq,       \* _agentRunAbortRequested
    abortSettle,    \* _abortDuringBeforeSettle
    phase,          \* the agent: activeRun and where its loop is
    agentAborted,   \* the signal of the agent's run is aborted
    last,           \* _lastAssistantMessage
    tail,           \* role of the last message of the model context
    queue,          \* messages in the agent's queues
    retryAttempt,   \* _retryAttempt
    recovered,      \* _overflowRecoveryAttempted
    heldBash,       \* _pendingBashMessages is not empty
    heldCustom,     \* _pendingCustomMessages is not empty
    emitting,       \* _isEmittingAgentSettled
    deferred,       \* _deferredSettledActions
    waiting,        \* abort() waits for the session to become idle
    sent,           \* history: messages queued so far
    continues,      \* history: times extensions did so
    turns,          \* history: turns with tool calls
    calls,          \* history: number of those calls
    failures,       \* history: failed responses in a row (BoundedFailures)
    split           \* history: something was appended while a call was open

caller  == <<pc, go, willRetry, todo, byUser>>
session == <<active, abortReq, abortSettle, retryAttempt, recovered, emitting,
             deferred, waiting>>
agent   == <<phase, agentAborted, last, queue>>
held    == <<heldBash, heldCustom, split>>
history == <<sent, continues, turns, calls, failures>>
vars    == <<caller, session, agent, tail, held, history>>

\* More failures than this in a row are not told apart.
FailureLimit == 2 * (MaxRetries + 1)

Errors    == {"overflow", "retryable", "fatal"}
Responses == Errors \cup {"ok", "length", "aborted"}

\* The agent's phase is "none", "starting", "turn", "tools" or "ending".  A
\* caller's pc is "idle", "next", "input", "queueing", "auth", "prepare",
\* "preCompact", "hooks", "agent", "post", "retry", "retryCut", "compact",
\* "decided", "beforeSettle", "boundary", "gap", "finally", "settling" or
\* "returned".

Compacting == \E c \in Callers : pc[c] \in {"preCompact", "compact"}

\* isIdle
Idle == ~active /\ ~Compacting

Init ==
    /\ pc = [c \in Callers |-> "idle"] /\ go = [c \in Callers |-> FALSE]
    /\ willRetry = [c \in Callers |-> FALSE] /\ todo = [c \in Callers |-> 0]
    /\ byUser = [c \in Callers |-> TRUE]
    /\ active = FALSE /\ abortReq = FALSE /\ abortSettle = FALSE
    /\ phase = "none" /\ agentAborted = FALSE /\ last = "none" /\ tail = "other"
    /\ queue = 0 /\ retryAttempt = 0 /\ recovered = FALSE
    /\ heldBash = FALSE /\ heldCustom = FALSE /\ emitting = FALSE /\ deferred = 0
    /\ waiting = FALSE
    /\ sent = 0 /\ continues = 0 /\ turns = 0 /\ calls = 0 /\ failures = 0 /\ split = FALSE
-----------------------------------------------------------------------------
(* Helpers *)

\* What a step has read for the last time (go, willRetry, byUser) it puts back to
\* the initial value.
Goto(c, l) == pc' = [pc EXCEPT ![c] = l]

Decide(c, g) == Goto(c, "decided") /\ go' = [go EXCEPT ![c] = g]

\* _resolveIdleWaitIfIdle
ResolveIdleWait(isActive) == waiting' = (waiting /\ (isActive \/ Compacting'))

\* The prompt is done.  A caller that runs deferred prompts goes on to the next;
\* after the last one it wakes the waiters.
Return(c) ==
    IF todo[c] <= 1
    THEN /\ Goto(c, "returned") /\ todo' = [todo EXCEPT ![c] = 0]
         /\ IF todo[c] = 1 THEN ResolveIdleWait(active') ELSE UNCHANGED waiting
    ELSE Goto(c, "next") /\ todo' = [todo EXCEPT ![c] = @ - 1] /\ UNCHANGED waiting

\* The prompt throws: the deferred prompts after it do not run.
Throw(c) ==
    /\ Goto(c, "returned") /\ todo' = [todo EXCEPT ![c] = 0]
    /\ IF todo[c] > 0 THEN ResolveIdleWait(active') ELSE UNCHANGED waiting

\* _flushPendingBashMessages and _flushPendingCustomMessages
Flush ==
    /\ heldBash' = FALSE /\ heldCustom' = FALSE
    /\ split' = (split \/ ((heldBash \/ heldCustom) /\ phase = "tools"))
    /\ tail' = IF heldBash \/ heldCustom THEN "other" ELSE tail

-----------------------------------------------------------------------------
(* prompt() up to the start of the run *)

\* prompt(), and sendCustomMessage() with triggerTurn, wait while agent_settled
\* handlers run.
Defer(c) ==
    /\ emitting
    /\ deferred' = deferred + 1
    /\ UNCHANGED <<active, abortReq>>
    /\ Return(c)
    /\ UNCHANGED <<byUser, queue, sent>>

prompt(c) ==
    /\ pc[c] \in {"idle", "next"}
    /\ \/ Defer(c)
       \/ ~emitting /\ Goto(c, "input")
          /\ UNCHANGED <<todo, byUser, active, abortReq, deferred, waiting, queue, sent>>
    /\ UNCHANGED <<go, willRetry, abortSettle, retryAttempt, recovered, emitting, phase,
                   agentAborted, last, tail, held, continues, turns, failures, calls>>

\* The head of _startRun: the session is busy from here on.
StartRun(c, user) ==
    /\ active' = TRUE /\ abortReq' = FALSE
    /\ byUser' = [byUser EXCEPT ![c] = user]
    /\ Goto(c, "prepare")
    /\ UNCHANGED <<todo, waiting, queue, sent>>

\* _queueSteer and _queueFollowUp
Enqueue(c) ==
    /\ sent < MaxQueue
    /\ queue' = queue + 1 /\ sent' = sent + 1
    /\ UNCHANGED <<byUser, active, abortReq>>
    /\ Return(c)

\* Faulty variant: a prompt during a run is not queued but starts a run.
InputDone_overlap(c) ==
    /\ pc[c] = "input"
    /\ StartRun(c, TRUE)
    /\ UNCHANGED <<go, willRetry, abortSettle, retryAttempt, recovered, emitting,
                   deferred, phase, agentAborted, last, tail, held, continues, turns,
                   failures, calls>>

\* Input handlers are done: the prompt is handled, refused, queued into the
\* active run, or on to a run of its own.
InputDone(c) ==
    /\ pc[c] = "input"
    /\ \/ UNCHANGED <<byUser, active, abortReq, queue, sent>> /\ (Return(c) \/ Throw(c))
       \/ active /\ Enqueue(c)
       \/ ~active /\ ~AuthAwaits /\ StartRun(c, TRUE)
       \/ ~active /\ AuthAwaits /\ Goto(c, "auth")
          /\ UNCHANGED <<todo, byUser, active, abortReq, waiting, queue, sent>>
    /\ UNCHANGED <<go, willRetry, abortSettle, retryAttempt, recovered, emitting,
                   deferred, phase, agentAborted, last, tail, held, continues, turns,
                   failures, calls>>

\* checkAuth returned.
AuthDone(c) ==
    /\ pc[c] = "auth"
    /\ \/ UNCHANGED <<byUser, active, abortReq, queue, sent>> /\ Throw(c)
       \/ StartRun(c, TRUE)
    /\ UNCHANGED <<go, willRetry, abortSettle, retryAttempt, recovered, emitting,
                   deferred, phase, agentAborted, last, tail, held, continues, turns,
                   failures, calls>>

\* steer() and followUp(), called while a run is active.
steer(c) ==
    /\ pc[c] = "idle" /\ active
    /\ Goto(c, "queueing")
    /\ UNCHANGED <<go, willRetry, todo, byUser, session, agent, tail, held, history>>

\* Their input handlers are done: the message is handled or enqueued.
QueueDone(c) ==
    /\ pc[c] = "queueing"
    /\ \/ UNCHANGED <<byUser, active, abortReq, queue, sent>> /\ Return(c)
       \/ Enqueue(c)
    /\ UNCHANGED <<go, willRetry, abortSettle, retryAttempt, recovered, emitting,
                   deferred, phase, agentAborted, last, tail, held, continues, turns,
                   failures, calls>>

\* sendCustomMessage() with triggerTurn.
sendCustomMessage(c) ==
    /\ pc[c] \in {"idle", "next"}
    /\ \/ active /\ Enqueue(c) /\ UNCHANGED deferred
       \/ ~active /\ Defer(c)
       \/ ~active /\ ~emitting /\ StartRun(c, FALSE) /\ UNCHANGED deferred
    /\ UNCHANGED <<go, willRetry, abortSettle, retryAttempt, recovered, emitting, phase,
                   agentAborted, last, tail, held, continues, turns, failures, calls>>

\* _prepareRun compacts first when the last response calls for it, and omits
\* that response if it overflowed.
Prepare(c) ==
    /\ pc[c] = "prepare"
    /\ \/ Goto(c, "hooks") /\ UNCHANGED <<recovered, tail>>
       \/ Goto(c, "preCompact") /\ UNCHANGED <<recovered, tail>>
       \/ Goto(c, "preCompact") /\ ~recovered /\ recovered' = TRUE /\ tail' = "other"
    /\ UNCHANGED <<go, willRetry, todo, byUser, active, abortReq, abortSettle,
                   retryAttempt, emitting, deferred, waiting, agent, held, history>>

PreCompactDone(c) ==
    /\ pc[c] = "preCompact"
    /\ Goto(c, "hooks")
    /\ ResolveIdleWait(active)
    /\ UNCHANGED <<go, willRetry, todo, byUser, active, abortReq, abortSettle, retryAttempt,
                   recovered, emitting, deferred, agent, tail, held, history>>

\* before_agent_start or image processing threw.
PrepareFails(c) ==
    /\ pc[c] = "hooks"
    /\ active' = FALSE
    /\ Flush
    /\ Goto(c, "returned") /\ todo' = [todo EXCEPT ![c] = 0]
    /\ ResolveIdleWait(FALSE)
    /\ UNCHANGED <<go, willRetry, byUser, abortReq, abortSettle, retryAttempt, recovered,
                   emitting, deferred, agent, history>>

\* The run ends with an exception: settle, then throw.
Fail(c) == Goto(c, "finally") /\ todo' = [todo EXCEPT ![c] = 0]

\* The run is prepared: held messages first, then agent.prompt(), which throws
\* when the agent is busy.
PrepareDone(c) ==
    /\ pc[c] = "hooks"
    /\ Flush
    /\ IF phase = "none"
       THEN /\ phase' = "starting" /\ agentAborted' = FALSE
            /\ recovered' = (recovered /\ ~byUser[c]) /\ failures' = 0
            /\ Goto(c, "agent") /\ UNCHANGED todo
       ELSE Fail(c) /\ UNCHANGED <<phase, agentAborted, recovered, failures>>
    /\ byUser' = [byUser EXCEPT ![c] = TRUE]
    /\ UNCHANGED <<go, willRetry, active, abortReq, abortSettle, retryAttempt,
                   emitting, deferred, waiting, last, queue, sent, continues, turns, calls>>
-----------------------------------------------------------------------------
(* The agent's run *)

\* Faulty variant: an abort requested before the run existed is not looked at.
AgentStart_deaf ==
    /\ phase = "starting" /\ phase' = "turn"
    /\ UNCHANGED <<caller, session, agentAborted, last, queue, tail, held, history>>

\* agent_start: an abort requested before the run existed reaches it here.
AgentStart ==
    /\ phase = "starting" /\ phase' = "turn"
    /\ agentAborted' = (agentAborted \/ abortReq)
    /\ UNCHANGED <<caller, session, last, queue, tail, held, history>>

\* Messages of the queue start: those of a user allow recovery again.
TakeQueued ==
    /\ \E n \in 0..(queue - 1) : queue' = n
    /\ \E user \in BOOLEAN : recovered' = (recovered /\ ~user)
    /\ failures' = 0

Drain ==
    /\ phase = "turn" /\ queue > 0
    /\ TakeQueued
    /\ UNCHANGED <<caller, active, abortReq, abortSettle, retryAttempt, emitting,
                   deferred, waiting, phase, agentAborted, last, tail, held, sent,
                   continues, turns, calls>>

\* A response with tool calls: from here to their results the calls are open.
CallTools ==
    /\ phase = "turn" /\ ~agentAborted /\ turns < MaxTurns
    /\ phase' = "tools" /\ turns' = turns + 1
    /\ last' = "ok" /\ retryAttempt' = 0 /\ recovered' = FALSE /\ failures' = 0
    /\ UNCHANGED <<caller, active, abortReq, abortSettle, emitting, deferred, waiting,
                   agentAborted, queue, tail, held, sent, continues, calls>>

\* turn_end: custom messages held during the turn are appended.
TurnEnd ==
    /\ heldCustom' = FALSE
    /\ tail' = IF heldCustom THEN "other" ELSE "assistant"

ToolsDone ==
    /\ phase = "tools" /\ phase' = "turn"
    /\ TurnEnd
    /\ UNCHANGED <<caller, session, agentAborted, last, queue, heldBash, split, history>>

\* The last response of the run.  The loop polls the queues before it ends, but
\* a message may come right after the poll.
Respond(r) ==
    /\ phase = "turn" /\ phase' = "ending"
    /\ r = "aborted" => agentAborted
    /\ agentAborted => r \in {"aborted", "fatal"}
    /\ last' = r
    /\ TurnEnd
    /\ retryAttempt' = IF r \in Errors THEN retryAttempt ELSE 0
    /\ recovered' = (recovered /\ r \notin {"ok", "aborted"})
    /\ failures' = IF r \in {"ok", "aborted"} \/ heldCustom THEN 0
                   ELSE IF failures > FailureLimit THEN failures ELSE failures + 1
    /\ UNCHANGED <<caller, active, abortReq, abortSettle, emitting, deferred, waiting,
                   agentAborted, queue, heldBash, split, sent, continues, turns, calls>>

AgentEnd ==
    /\ phase = "ending" /\ phase' = "none"
    /\ pc' = [c \in Callers |-> IF pc[c] = "agent" THEN "post" ELSE pc[c]]
    /\ UNCHANGED <<go, willRetry, todo, byUser, session, agentAborted, last, queue, tail,
                   held, history>>

\* A listener throws, and again when the failure is reported to it.
AgentThrows ==
    /\ phase # "none" /\ phase' = "none"
    /\ pc' = [c \in Callers |-> IF pc[c] = "agent" THEN "finally" ELSE pc[c]]
    /\ todo' = [c \in Callers |-> IF pc[c] = "agent" THEN 0 ELSE todo[c]]
    /\ UNCHANGED <<go, willRetry, byUser, session, agentAborted, last, queue, tail, held,
                   history>>

AgentStep ==
    \/ AgentStart \/ Drain \/ CallTools \/ ToolsDone \/ AgentEnd \/ AgentThrows
    \/ \E r \in Responses : Respond(r)
-----------------------------------------------------------------------------
(* After the agent's run: _handlePostAgentRun *)

\* _checkCompaction found context usage to be over the threshold, or not.
CheckThreshold(c) ==
    \/ Goto(c, "compact") /\ willRetry' = [willRetry EXCEPT ![c] = FALSE] /\ UNCHANGED go
    \/ Decide(c, ~abortReq /\ queue > 0) /\ UNCHANGED willRetry

\* Faulty variant: a second overflow is recovered from like the first.
Recover_again(c) ==
    /\ recovered' = TRUE /\ tail' = "other"
    /\ Goto(c, "compact") /\ willRetry' = [willRetry EXCEPT ![c] = TRUE]
    /\ UNCHANGED go

\* Overflow: omit the failed response, compact and retry, once.
Recover(c) ==
    IF recovered
    THEN Decide(c, queue > 0) /\ UNCHANGED <<willRetry, recovered, tail>>
    ELSE /\ recovered' = TRUE /\ tail' = "other"
         /\ Goto(c, "compact") /\ willRetry' = [willRetry EXCEPT ![c] = TRUE]
         /\ UNCHANGED go

\* _prepareRetry finds the budget not used up.
CanRetry == retryAttempt < MaxRetries

\* The head of the loop of _startRun, and _handlePostAgentRun.
handlePostAgentRun(c) ==
    /\ pc[c] = "post"
    /\ last' = IF abortReq THEN last ELSE "none"
    /\ \/ /\ abortReq
          /\ Goto(c, "finally")
          /\ UNCHANGED <<go, willRetry, retryAttempt, recovered, tail>>
       \/ /\ ~abortReq /\ last \in {"none", "aborted"}
          /\ Decide(c, queue > 0)
          /\ UNCHANGED <<willRetry, retryAttempt, recovered, tail>>
       \/ /\ ~abortReq /\ last = "retryable" /\ CanRetry
          /\ retryAttempt' = retryAttempt + 1 /\ tail' = "other"
          /\ Goto(c, "retry")
          /\ UNCHANGED <<go, willRetry, recovered>>
       \/ /\ ~abortReq /\ last \in {"overflow", "length"}
          /\ retryAttempt' = 0
          /\ Recover(c)
       \/ /\ ~abortReq
          /\ last \in {"ok", "fatal"} \/ (last = "retryable" /\ ~CanRetry)
          /\ retryAttempt' = IF last = "ok" THEN retryAttempt ELSE 0
          /\ CheckThreshold(c)
          /\ UNCHANGED <<recovered, tail>>
    /\ UNCHANGED <<todo, byUser, active, abortReq, abortSettle, emitting, deferred,
                   waiting, phase, agentAborted, queue, held, history>>

\* The backoff is over.
RetryFires(c) ==
    /\ pc[c] = "retry"
    /\ Decide(c, ~abortReq)
    /\ retryAttempt' = IF abortReq THEN 0 ELSE retryAttempt
    /\ UNCHANGED <<willRetry, todo, byUser, active, abortReq, abortSettle, recovered, emitting,
                   deferred, waiting, agent, tail, held, history>>

\* The backoff was cancelled, by abort() or by abortRetry() alone.
RetryCut(c) ==
    /\ pc[c] = "retryCut"
    /\ retryAttempt' = 0
    /\ IF abortReq THEN Decide(c, FALSE) /\ UNCHANGED willRetry ELSE CheckThreshold(c)
    /\ UNCHANGED <<todo, byUser, active, abortReq, abortSettle, recovered, emitting, deferred,
                   waiting, agent, tail, held, history>>

\* Compaction succeeded, or it failed or was cancelled.
CompactDone(c) ==
    /\ pc[c] = "compact"
    /\ \E ok \in BOOLEAN : Decide(c, ~abortReq /\ ((ok /\ willRetry[c]) \/ queue > 0))
    /\ willRetry' = [willRetry EXCEPT ![c] = FALSE]
    /\ ResolveIdleWait(active)
    /\ UNCHANGED <<todo, byUser, active, abortReq, abortSettle, retryAttempt,
                   recovered, emitting, deferred, agent, tail, held, history>>

\* agent.continue(): on the context, or with queued messages after an assistant
\* message; it throws when the agent is busy or there is nothing to say.
Continue(c) ==
    IF phase # "none" \/ (tail = "assistant" /\ queue = 0)
    THEN Fail(c) /\ UNCHANGED <<phase, agentAborted, queue, recovered, failures>>
    ELSE /\ phase' = "starting" /\ agentAborted' = FALSE
         /\ Goto(c, "agent") /\ UNCHANGED todo
         /\ IF tail = "assistant" THEN TakeQueued
            ELSE UNCHANGED <<queue, recovered, failures>>

\* Back in the loop of _startRun.
Decided(c) ==
    /\ pc[c] = "decided"
    /\ IF abortReq \/ ~go[c]
       THEN /\ Goto(c, IF abortReq THEN "finally" ELSE "beforeSettle")
            /\ UNCHANGED <<todo, phase, agentAborted, queue, recovered, failures>>
       ELSE Continue(c)
    /\ go' = [go EXCEPT ![c] = FALSE]
    /\ UNCHANGED <<willRetry, byUser, active, abortReq, abortSettle, retryAttempt,
                   emitting, deferred, waiting, last, tail, held, sent, continues,
                   turns, calls>>
-----------------------------------------------------------------------------
(* Settling *)

\* _runBeforeSettleBoundary, without and with handlers for the event.
BeforeSettle(c) ==
    /\ pc[c] = "beforeSettle"
    /\ \/ Goto(c, "gap") /\ go' = [go EXCEPT ![c] = queue > 0] /\ UNCHANGED abortSettle
       \/ Goto(c, "boundary") /\ abortSettle' = FALSE /\ UNCHANGED go
    /\ UNCHANGED <<willRetry, todo, byUser, active, abortReq, retryAttempt, recovered, emitting,
                   deferred, waiting, agent, tail, held, history>>

\* The handlers may append entries (drafts) and ask to continue.
Boundary(c) ==
    /\ pc[c] = "boundary"
    /\ \E drafts, more \in BOOLEAN :
         /\ drafts \/ more => continues < MaxContinue
         /\ continues' = IF drafts \/ more THEN continues + 1 ELSE continues
         /\ failures' = IF drafts \/ more \/ heldCustom THEN 0 ELSE failures
         /\ tail' = IF drafts \/ heldCustom THEN "other" ELSE tail
         /\ go' = [go EXCEPT ![c] = /\ ~abortSettle
                                    /\ more \/ queue > 0
                                    /\ tail' = "other" \/ queue > 0]
    /\ heldCustom' = FALSE
    /\ Goto(c, "gap")
    /\ UNCHANGED <<willRetry, todo, byUser, session, agent, heldBash, split, sent, turns, calls>>

\* Back in the loop of _startRun once more.
Gap(c) ==
    /\ pc[c] = "gap"
    /\ IF go[c] /\ ~abortReq
       THEN Continue(c)
       ELSE Goto(c, "finally") /\ UNCHANGED <<todo, phase, agentAborted, queue, recovered, failures>>
    /\ go' = [go EXCEPT ![c] = FALSE]
    /\ UNCHANGED <<willRetry, byUser, active, abortReq, abortSettle, retryAttempt,
                   emitting, deferred, waiting, last, tail, held, sent, continues,
                   turns, calls>>

\* Faulty variant: only bash messages are flushed.
Finally_bash(c) ==
    /\ pc[c] = "finally"
    /\ retryAttempt' = IF abortReq THEN 0 ELSE retryAttempt
    /\ heldBash' = FALSE
    /\ active' = FALSE /\ emitting' = TRUE
    /\ Goto(c, "settling")
    /\ UNCHANGED <<go, willRetry, todo, byUser, abortReq, abortSettle, recovered, deferred,
                   waiting, agent, tail, heldCustom, split, history>>

\* The finally block of _startRun and the head of _emitAgentSettled.
Finally(c) ==
    /\ pc[c] = "finally"
    /\ retryAttempt' = IF abortReq THEN 0 ELSE retryAttempt
    /\ Flush
    /\ active' = FALSE /\ emitting' = TRUE
    /\ Goto(c, "settling")
    /\ UNCHANGED <<go, willRetry, todo, byUser, abortReq, abortSettle, recovered, deferred,
                   waiting, agent, history>>

\* Faulty variant: deferred prompts run, but nobody is told the session is idle.
Settled_silent(c) ==
    /\ pc[c] = "settling"
    /\ emitting' = FALSE /\ deferred' = 0
    /\ LET t == deferred + IF todo[c] = 0 THEN 0 ELSE todo[c] - 1
       IN Goto(c, IF t = 0 THEN "returned" ELSE "next") /\ todo' = [todo EXCEPT ![c] = t]
    /\ UNCHANGED <<go, willRetry, byUser, active, abortReq, abortSettle, retryAttempt,
                   recovered, waiting, agent, tail, held, history>>

\* agent_settled handlers are done: deferred prompts run, or the waiters do.
Settled(c) ==
    /\ pc[c] = "settling"
    /\ emitting' = FALSE /\ deferred' = 0
    /\ LET t == deferred + IF todo[c] = 0 THEN 0 ELSE todo[c] - 1
       IN Goto(c, IF t = 0 THEN "returned" ELSE "next") /\ todo' = [todo EXCEPT ![c] = t]
    /\ IF deferred = 0 THEN ResolveIdleWait(active) ELSE UNCHANGED waiting
    /\ UNCHANGED <<go, willRetry, byUser, active, abortReq, abortSettle, retryAttempt,
                   recovered, agent, tail, held, history>>

CallerStep(c) ==
    \/ (pc[c] = "next" /\ (prompt(c) \/ sendCustomMessage(c)))
    \/ InputDone(c) \/ QueueDone(c) \/ AuthDone(c) \/ Prepare(c) \/ PreCompactDone(c)
    \/ PrepareFails(c) \/ PrepareDone(c) \/ handlePostAgentRun(c) \/ RetryFires(c)
    \/ RetryCut(c) \/ CompactDone(c) \/ Decided(c) \/ BeforeSettle(c) \/ Boundary(c)
    \/ Gap(c) \/ Finally(c) \/ Settled(c)
-----------------------------------------------------------------------------
(* The host, at any time *)

abort ==
    /\ abortReq' = (abortReq \/ active)
    /\ pc' = [c \in Callers |-> IF pc[c] = "retry" THEN "retryCut" ELSE pc[c]]
    /\ abortSettle' = (abortSettle \/ \E c \in Callers : pc[c] = "boundary")
    /\ agentAborted' = (agentAborted \/ phase # "none")
    /\ waiting' = (waiting \/ ~Idle)
    /\ UNCHANGED <<go, willRetry, todo, byUser, active, retryAttempt, recovered, emitting,
                   deferred, phase, last, queue, tail, held, history>>

abortRetry ==
    /\ \E c \in Callers : pc[c] = "retry"
    /\ pc' = [c \in Callers |-> IF pc[c] = "retry" THEN "retryCut" ELSE pc[c]]
    /\ calls < MaxCalls /\ calls' = calls + 1
    /\ failures' = 0
    /\ UNCHANGED <<go, willRetry, todo, byUser, session, agent, tail, held, sent,
                   continues, turns>>

clearQueue ==
    /\ queue > 0 /\ queue' = 0
    /\ UNCHANGED <<caller, session, phase, agentAborted, last, tail, held, history>>

\* An append outside a flush.
AppendNow ==
    /\ tail' = "other"
    /\ split' = (split \/ phase = "tools")

\* Faulty variant: the result is appended at once, run or no run.
recordBashResult_now ==
    /\ MaxCalls > 0
    /\ AppendNow
    /\ UNCHANGED <<caller, session, agent, heldBash, heldCustom, history>>

recordBashResult ==
    /\ MaxCalls > 0
    /\ \/ active /\ heldBash' = TRUE /\ UNCHANGED <<tail, split>>
       \/ ~active /\ AppendNow /\ UNCHANGED heldBash
    /\ UNCHANGED <<caller, session, agent, heldCustom, history>>

\* sendCustomMessage() without triggerTurn.
appendCustomMessage ==
    /\ calls < MaxCalls /\ calls' = calls + 1
    /\ \/ active /\ heldCustom' = TRUE /\ UNCHANGED <<tail, split>>
       \/ ~active /\ AppendNow /\ UNCHANGED heldCustom
    /\ UNCHANGED <<caller, session, agent, heldBash, sent, continues, turns, failures>>

Host ==
    \/ \E c \in Callers : pc[c] = "idle" /\ (prompt(c) \/ steer(c) \/ sendCustomMessage(c))
    \/ abort \/ abortRetry \/ clearQueue \/ recordBashResult \/ appendCustomMessage

Next == AgentStep \/ (\E c \in Callers : CallerStep(c)) \/ Host

Spec == Init /\ [][Next]_vars

\* Providers, tools, handlers and timers settle.
FairSpec ==
    Spec /\ WF_vars(AgentStep) /\ \A c \in Callers : WF_vars(CallerStep(c))
-----------------------------------------------------------------------------
(* Properties *)

\* A run is somewhere between its preparation and its settlement.
InRun(c) == pc[c] \notin {"idle", "next", "input", "queueing", "auth", "settling", "returned"}

\* isIdle, agent-session.ts 1514: "Whether the session has no active agent run,
\* compaction, branch summary, retry, or queued continuation."  While the
\* session says so, the agent runs nothing and nobody retries or compacts.
IdleMeansNoRun ==
    Idle => phase = "none" /\ ~\E c \in Callers : InRun(c)

\* An abort reaches the agent's run whenever it is requested, be it before the
\* run exists: past agent_start a run of an aborted session is aborted itself,
\* so no post-run work, retry or compaction restarts it.
AbortReachesRun == abortReq /\ active /\ phase \in {"turn", "tools"} => agentAborted

\* Bash results and custom messages are appended at once or held back, so that
\* none comes between a tool call and its result.
NoSplitPairs == ~split

\* What is held back is released when the session is idle, whichever way the
\* run ended.
NothingHeldWhileIdle == Idle => ~heldBash /\ ~heldCustom

\* The retry budget and the single overflow recovery ("compact, and retry the
\* turn once", 3131) hold together, though each of the two resets the other's
\* path: a run makes no more than this many failing requests in a row.  A row ends
\* with a response that is no error, with a message that is added to the context,
\* from a caller, a queue or a settle handler, and with a backoff that is cancelled.
BoundedFailures == failures <= FailureLimit

\* Retries, overflow recovery and queued messages come to an end, whatever two
\* runs at once make of each other: a session that started a run settles.
Settles == active ~> ~active

\* abort() returns.
AbortReturns == waiting ~> ~waiting
=============================================================================
