-------------------------- MODULE SessionRunProofs --------------------------
(***************************************************************************)
(* Theorems about SessionRun for any number of callers, queued messages,   *)
(* retries and turns.                                                      *)
(***************************************************************************)
EXTENDS SessionRun, TLAPS

OutPCs == {"idle", "next", "input", "queueing", "settling", "returned"}
RunPCs == {"prepare", "preCompact", "hooks", "agent", "post", "retry", "retryCut", "compact",
           "decided", "beforeSettle", "boundary", "gap", "finally"}

\* Where the credentials are known: one run at a time, with the session active,
\* and the agent's run only under the caller that awaits it.
One ==
    /\ pc \in [Callers -> OutPCs \cup RunPCs]
    /\ \A c \in Callers : pc[c] \in RunPCs => active
    /\ \A c, d \in Callers : pc[c] \in RunPCs /\ pc[d] \in RunPCs => c = d
    /\ phase # "none" => \E c \in Callers : pc[c] = "agent"
    /\ split = FALSE
-----------------------------------------------------------------------------
(* The four ways in which a caller moves *)

\* From one stage of its run to the next, perhaps by starting the agent
LEMMA Stays ==
    ASSUME One, NEW c \in Callers, pc[c] \in RunPCs \ {"agent"}, NEW l \in RunPCs, Goto(c, l),
           UNCHANGED <<active, split>>, phase' = phase \/ l = "agent"
    PROVE  One'
  BY DEF One, Goto, OutPCs, RunPCs

\* From one place outside a run to another
LEMMA Outside ==
    ASSUME One, NEW c \in Callers, pc[c] \in OutPCs, NEW l \in OutPCs, Goto(c, l),
           UNCHANGED <<active, phase, split>>
    PROVE  One'
  BY DEF One, Goto, OutPCs, RunPCs

\* Into a run, when none is active
LEMMA Enters ==
    ASSUME One, NEW c \in Callers, ~active, Goto(c, "prepare"), active', UNCHANGED <<phase, split>>
    PROVE  One'
  BY DEF One, Goto, OutPCs, RunPCs

\* Out of it
LEMMA Leaves ==
    ASSUME One, NEW c \in Callers, pc[c] \in RunPCs \ {"agent"}, NEW l \in OutPCs, Goto(c, l),
           UNCHANGED <<phase, split>>
    PROVE  One'
  BY DEF One, Goto, OutPCs, RunPCs

\* While a caller is at another stage of its run the agent runs nothing, so that
\* nothing held is flushed between a call and its result.
LEMMA NotInAgent ==
    ASSUME One, NEW c \in Callers, pc[c] \in RunPCs \ {"agent"}
    PROVE  phase = "none"
  BY DEF One, RunPCs

LEMMA FlushSplitsNothing ==
    ASSUME One, NEW c \in Callers, pc[c] \in RunPCs \ {"agent"}, Flush
    PROVE  split' = split
<1>1. phase # "tools" /\ split = FALSE
  BY Zenon, NotInAgent DEF One
<1>2. split' = (split \/ ((heldBash \/ heldCustom) /\ phase = "tools"))
  BY DEF Flush
<1>. QED  BY Zenon, <1>1, <1>2

\* Where Return and Throw leave a caller
LEMMA Returning ==
    ASSUME NEW c \in Callers, Return(c) \/ Throw(c)
    PROVE  Goto(c, "returned") \/ Goto(c, "next")
  BY Zenon DEF Return, Throw
-----------------------------------------------------------------------------
LEMMA OneInit == Init => One
  BY DEF Init, One, OutPCs, RunPCs

LEMMA OneAgentStep == ASSUME One, AgentStep PROVE One'
<1>. USE DEF caller, session, agent, held, history
<1>1. CASE AgentStart
  BY <1>1 DEF AgentStart, One
<1>2. CASE Drain \/ CallTools
  BY <1>2 DEF Drain, CallTools, One
<1>3. CASE ToolsDone
  BY <1>3 DEF ToolsDone, One
<1>4. ASSUME NEW r \in Responses, Respond(r) PROVE One'
  BY <1>4 DEF Respond, One
<1>5. CASE AgentEnd
  BY <1>5 DEF AgentEnd, One, OutPCs, RunPCs
<1>6. CASE AgentThrows
  BY <1>6 DEF AgentThrows, One, OutPCs, RunPCs
<1>. QED  BY <1>1, <1>2, <1>3, <1>4, <1>5, <1>6 DEF AgentStep

\* Up to the start of a run
LEMMA OneEntry ==
    ASSUME One, ~AuthAwaits, NEW c \in Callers,
           \/ prompt(c) \/ steer(c) \/ sendCustomMessage(c)
           \/ InputDone(c) \/ QueueDone(c) \/ AuthDone(c)
    PROVE  One'
<1>. USE DEF OutPCs, held, session, agent
<1>1. CASE prompt(c)
  <2>1. pc[c] \in OutPCs /\ UNCHANGED <<active, phase, split>>
    BY Zenon, <1>1 DEF prompt, Defer
  <2>2. Goto(c, "returned") \/ Goto(c, "next") \/ Goto(c, "input")
    BY Zenon, <1>1, Returning DEF prompt, Defer
  <2>. QED  BY <2>1, <2>2, Outside
<1>2. CASE steer(c)
  BY <1>2, Outside DEF steer
<1>3. CASE sendCustomMessage(c)
  <2>1. pc[c] \in OutPCs /\ UNCHANGED <<phase, split>>
    BY Zenon, <1>3 DEF sendCustomMessage
  <2>2. CASE active /\ Enqueue(c)
    BY <2>1, <2>2, Returning, Outside DEF Enqueue
  <2>3. CASE Defer(c)
    BY <2>1, <2>3, Returning, Outside DEF Defer
  <2>4. CASE ~active /\ StartRun(c, FALSE)
    BY <2>1, <2>4, Enters DEF StartRun
  <2>. QED  BY Zenon, <1>3, <2>2, <2>3, <2>4 DEF sendCustomMessage
<1>4. CASE InputDone(c)
  <2>1. pc[c] \in OutPCs /\ UNCHANGED <<phase, split>>
    BY Zenon, <1>4 DEF InputDone
  <2>2. CASE UNCHANGED active /\ (Return(c) \/ Throw(c))
    BY <2>1, <2>2, Returning, Outside
  <2>3. CASE Enqueue(c)
    BY <2>1, <2>3, Returning, Outside DEF Enqueue
  <2>4. CASE ~active /\ StartRun(c, TRUE)
    BY <2>1, <2>4, Enters DEF StartRun
  <2>. QED  BY Zenon, <1>4, <2>2, <2>3, <2>4 DEF InputDone
<1>5. CASE QueueDone(c)
  <2>1. pc[c] \in OutPCs /\ UNCHANGED <<active, phase, split>>
    BY Zenon, <1>5 DEF QueueDone, Enqueue
  <2>2. Return(c)
    BY Zenon, <1>5 DEF QueueDone, Enqueue
  <2>. QED  BY <2>1, <2>2, Returning, Outside
<1>6. ~AuthDone(c)
  BY Zenon DEF AuthDone, One, RunPCs
<1>. QED  BY <1>1, <1>2, <1>3, <1>4, <1>5, <1>6

\* The stages of a run, before, between and after the agent's
LEMMA OneStages ==
    ASSUME One, NEW c \in Callers,
           \/ Prepare(c) \/ PreCompactDone(c) \/ PrepareFails(c) \/ PrepareDone(c)
           \/ handlePostAgentRun(c) \/ RetryFires(c) \/ RetryCut(c) \/ CompactDone(c)
           \/ Decided(c) \/ BeforeSettle(c) \/ Boundary(c) \/ Gap(c) \/ Finally(c) \/ Settled(c)
    PROVE  One'
<1>. USE DEF OutPCs, RunPCs, held, session, agent, Decide
<1>1. CASE Prepare(c)
  BY <1>1, Stays DEF Prepare
<1>2. CASE PreCompactDone(c)
  BY <1>2, Stays DEF PreCompactDone
<1>3. CASE PrepareFails(c)
  BY <1>3, Leaves, FlushSplitsNothing DEF PrepareFails
<1>4. CASE PrepareDone(c)
  <2>1. pc[c] = "hooks" /\ UNCHANGED <<active, split>>
    BY <1>4, FlushSplitsNothing DEF PrepareDone
  <2>2. Goto(c, "agent") \/ (Goto(c, "finally") /\ phase' = phase)
    BY Zenon, <1>4 DEF PrepareDone, Fail
  <2>. QED  BY <2>1, <2>2, Stays
<1>5. CASE handlePostAgentRun(c)
  <2>1. pc[c] = "post" /\ UNCHANGED <<active, phase, split>>
    BY Zenon, <1>5 DEF handlePostAgentRun
  <2>2. Goto(c, "finally") \/ Goto(c, "decided") \/ Goto(c, "retry") \/ Goto(c, "compact")
    BY Zenon, <1>5 DEF handlePostAgentRun, Recover, CheckThreshold
  <2>. QED  BY <2>1, <2>2, Stays
<1>6. CASE RetryFires(c)
  BY <1>6, Stays DEF RetryFires
<1>7. CASE RetryCut(c)
  <2>1. pc[c] = "retryCut" /\ UNCHANGED <<active, phase, split>>
    BY Zenon, <1>7 DEF RetryCut
  <2>2. Goto(c, "decided") \/ Goto(c, "compact")
    BY Zenon, <1>7 DEF RetryCut, CheckThreshold
  <2>. QED  BY <2>1, <2>2, Stays
<1>8. CASE CompactDone(c)
  BY <1>8, Stays DEF CompactDone
<1>9. CASE Decided(c) \/ Gap(c)
  <2>1. pc[c] \in {"decided", "gap"} /\ UNCHANGED <<active, split>>
    BY Zenon, <1>9 DEF Decided, Gap
  <2>2. \/ Goto(c, "agent")
        \/ (Goto(c, "finally") \/ Goto(c, "beforeSettle")) /\ phase' = phase
    BY Zenon, <1>9 DEF Decided, Gap, Continue, Fail
  <2>. QED  BY <2>1, <2>2, Stays
<1>10. CASE BeforeSettle(c)
  BY <1>10, Stays DEF BeforeSettle
<1>11. CASE Boundary(c)
  BY <1>11, Stays DEF Boundary
<1>12. CASE Finally(c)
  BY <1>12, Leaves, FlushSplitsNothing DEF Finally
<1>13. CASE Settled(c)
  <2>1. pc[c] = "settling" /\ UNCHANGED <<active, phase, split>>
    BY Zenon, <1>13 DEF Settled
  <2>2. Goto(c, "returned") \/ Goto(c, "next")
    BY Zenon, <1>13 DEF Settled
  <2>. QED  BY <2>1, <2>2, Outside
<1>. QED  BY <1>1, <1>2, <1>3, <1>4, <1>5, <1>6, <1>7, <1>8, <1>9, <1>10, <1>11, <1>12, <1>13

\* The host's calls that move no caller, or several
LEMMA OneHost ==
    ASSUME One, abort \/ abortRetry \/ clearQueue \/ recordBashResult \/ appendCustomMessage
    PROVE  One'
<1>. USE DEF caller, session, agent, held, history
<1>1. CASE abort
  BY <1>1 DEF abort, One, OutPCs, RunPCs
<1>2. CASE abortRetry
  BY <1>2 DEF abortRetry, One, OutPCs, RunPCs
<1>3. CASE clearQueue
  BY <1>3 DEF clearQueue, One
<1>4. CASE recordBashResult \/ appendCustomMessage
  <2>1. UNCHANGED <<pc, active, phase>>
    BY Zenon, <1>4 DEF recordBashResult, appendCustomMessage
  <2>2. ~active => phase = "none"
    BY DEF One, RunPCs
  <2>3. split' = FALSE
    <3>1. CASE split' = split
      BY <3>1 DEF One
    <3>2. CASE ~active /\ AppendNow
      <4>1. phase # "tools" /\ split = FALSE /\ split' = (split \/ phase = "tools")
        BY <2>2, <3>2 DEF AppendNow, One
      <4>. QED  BY Zenon, <4>1
    <3>. QED  BY Zenon, <1>4, <3>1, <3>2 DEF recordBashResult, appendCustomMessage
  <2>. QED  BY <2>1, <2>3 DEF One
<1>. QED  BY <1>1, <1>2, <1>3, <1>4

LEMMA OneStep == ASSUME One, ~AuthAwaits, [Next]_vars PROVE One'
<1>1. CASE UNCHANGED vars
  BY <1>1 DEF vars, caller, session, agent, held, One
<1>2. CASE Next
  BY Zenon, <1>2, OneAgentStep, OneEntry, OneStages, OneHost DEF Next, CallerStep, Host
<1>. QED  BY <1>1, <1>2

LEMMA OneAlways == ASSUME ~AuthAwaits PROVE Spec => []One
  BY OneInit, OneStep, PTL DEF Spec
-----------------------------------------------------------------------------
\* Where the credentials are known without waiting, an idle session has no run of
\* any caller and no run of the agent (isIdle).
THEOREM IdleIsIdle == ASSUME ~AuthAwaits PROVE Spec => []IdleMeansNoRun
<1>1. One => IdleMeansNoRun
  BY DEF One, IdleMeansNoRun, Idle, InRun, OutPCs, RunPCs
<1>. QED  BY <1>1, OneAlways, PTL

\* There, too, no bash result and no custom message is appended between a tool
\* call and its result (_flushPendingBashMessages, _flushPendingCustomMessages).
THEOREM PairsStayWhole == ASSUME ~AuthAwaits PROVE Spec => []NoSplitPairs
<1>1. One => NoSplitPairs
  BY DEF One, NoSplitPairs
<1>. QED  BY <1>1, OneAlways, PTL
-----------------------------------------------------------------------------
\* Without the run active nothing is held: it is held only while one is, and
\* whatever ends the run flushes.
Flushed == ~active => heldBash = FALSE /\ heldCustom = FALSE

\* An abort has reached the run that has started.
Reached == abortReq /\ phase \in {"turn", "tools"} => agentAborted

LEMMA FlushedStep == ASSUME Flushed, [Next]_vars PROVE Flushed'
<1>. USE DEF Flushed, caller, session, agent, held, history
<1>1. CASE AgentStep
  BY Zenon, <1>1 DEF AgentStep, AgentStart, Drain, CallTools, ToolsDone, Respond, TurnEnd, AgentEnd,
     AgentThrows
<1>2. ASSUME NEW c \in Callers,
             prompt(c) \/ steer(c) \/ sendCustomMessage(c) \/ InputDone(c) \/ QueueDone(c) \/ AuthDone(c)
      PROVE  Flushed'
  BY Zenon, <1>2 DEF prompt, steer, sendCustomMessage, InputDone, QueueDone, AuthDone, Defer, Enqueue,
     StartRun
<1>3. ASSUME NEW c \in Callers, PrepareFails(c) \/ PrepareDone(c) \/ Finally(c)
      PROVE  Flushed'
  BY Zenon, <1>3 DEF PrepareFails, PrepareDone, Finally, Flush
<1>4. ASSUME NEW c \in Callers,
             \/ Prepare(c) \/ PreCompactDone(c) \/ handlePostAgentRun(c) \/ RetryFires(c) \/ RetryCut(c)
             \/ CompactDone(c) \/ Decided(c) \/ BeforeSettle(c) \/ Boundary(c) \/ Gap(c) \/ Settled(c)
      PROVE  Flushed'
  BY Zenon, <1>4 DEF Prepare, PreCompactDone, handlePostAgentRun, RetryFires, RetryCut, CompactDone,
     Decided, BeforeSettle, Boundary, Gap, Settled
<1>5. CASE abort \/ abortRetry \/ clearQueue \/ recordBashResult \/ appendCustomMessage
  <2>1. active' = active
    BY Zenon, <1>5 DEF abort, abortRetry, clearQueue, recordBashResult, appendCustomMessage
  <2>2. ~active => UNCHANGED <<heldBash, heldCustom>>
    BY Zenon, <1>5 DEF abort, abortRetry, clearQueue, recordBashResult, appendCustomMessage
  <2>. QED  BY Zenon, <2>1, <2>2
<1>6. CASE UNCHANGED vars
  BY <1>6 DEF vars
<1>. QED  BY Zenon, <1>1, <1>2, <1>3, <1>4, <1>5, <1>6 DEF Next, CallerStep, Host

\* Whichever way a run ends, and however many callers there are and wait for
\* credentials, an idle session holds nothing back.
THEOREM IdleHoldsNothing == Spec => []NothingHeldWhileIdle
<1>1. Init => Flushed
  BY DEF Init, Flushed
<1>2. Flushed => NothingHeldWhileIdle
  BY DEF Flushed, NothingHeldWhileIdle, Idle
<1>. QED  BY <1>1, <1>2, FlushedStep, PTL DEF Spec

LEMMA ReachedStep == ASSUME Reached, [Next]_vars PROVE Reached'
<1>. USE DEF Reached, caller, session, agent, held, history
<1>1. CASE AgentStep
  <2>1. CASE AgentStart
    BY Zenon, <2>1 DEF AgentStart
  <2>2. CASE Drain \/ CallTools \/ ToolsDone
    BY Zenon, <2>2 DEF Drain, CallTools, ToolsDone
  <2>3. CASE AgentEnd \/ AgentThrows \/ \E r \in Responses : Respond(r)
    <3>1. phase' \in {"none", "ending"}
      BY <2>3 DEF AgentEnd, AgentThrows, Respond
    <3>. QED  BY <3>1
  <2>. QED  BY <1>1, <2>1, <2>2, <2>3 DEF AgentStep
<1>2. ASSUME NEW c \in Callers,
             prompt(c) \/ steer(c) \/ sendCustomMessage(c) \/ InputDone(c) \/ QueueDone(c) \/ AuthDone(c)
      PROVE  Reached'
  <2>1. UNCHANGED <<phase, agentAborted>>
    BY Zenon, <1>2 DEF prompt, steer, sendCustomMessage, InputDone, QueueDone, AuthDone
  <2>2. abortReq' = abortReq \/ abortReq' = FALSE
    BY Zenon, <1>2 DEF prompt, steer, sendCustomMessage, InputDone, QueueDone, AuthDone, Defer, Enqueue,
       StartRun
  <2>. QED  BY Zenon, <2>1, <2>2
<1>3. ASSUME NEW c \in Callers, PrepareDone(c) \/ Decided(c) \/ Gap(c)
      PROVE  Reached'
  <2>1. phase' = "starting" \/ UNCHANGED <<phase, agentAborted>>
    BY Zenon, <1>3 DEF PrepareDone, Decided, Gap, Continue, Fail
  <2>2. UNCHANGED abortReq
    BY Zenon, <1>3 DEF PrepareDone, Decided, Gap
  <2>. QED  BY <2>1, <2>2
<1>4. ASSUME NEW c \in Callers,
             \/ Prepare(c) \/ PreCompactDone(c) \/ PrepareFails(c) \/ handlePostAgentRun(c)
             \/ RetryFires(c) \/ RetryCut(c) \/ CompactDone(c) \/ BeforeSettle(c) \/ Boundary(c)
             \/ Finally(c) \/ Settled(c)
      PROVE  Reached'
  BY Zenon, <1>4 DEF Prepare, PreCompactDone, PrepareFails, handlePostAgentRun, RetryFires, RetryCut,
     CompactDone, BeforeSettle, Boundary, Finally, Settled
<1>5. CASE abort
  <2>1. phase' = phase /\ agentAborted' = (agentAborted \/ phase # "none")
    BY Zenon, <1>5 DEF abort
  <2>2. phase \in {"turn", "tools"} => phase # "none"
    OBVIOUS
  <2>. QED  BY Zenon, <2>1, <2>2
<1>6. CASE abortRetry \/ clearQueue \/ recordBashResult \/ appendCustomMessage \/ UNCHANGED vars
  BY Zenon, <1>6 DEF abortRetry, clearQueue, recordBashResult, appendCustomMessage, vars
<1>. QED  BY Zenon, <1>1, <1>2, <1>3, <1>4, <1>5, <1>6 DEF Next, CallerStep, Host

\* An abort requested at any time, also while a run is only being prepared, has
\* reached the agent's run once that run is in a turn (abort, agent_start).
THEOREM AbortsReachTheRun == Spec => []AbortReachesRun
<1>1. Init => Reached
  BY DEF Init, Reached
<1>2. Reached => AbortReachesRun
  BY DEF Reached, AbortReachesRun
<1>. QED  BY <1>1, <1>2, ReachedStep, PTL DEF Spec
-----------------------------------------------------------------------------
(* Failing requests *)

\* After a retries, and an overflow recovery if r, which gives the whole retry
\* budget anew, f failures are accounted for.
Within(f, a, r) == f <= a + (IF r THEN MaxRetries + 1 ELSE 0)

Bounds == failures \in 0..FailureLimit /\ retryAttempt \in 0..MaxRetries

WithinBudget == Within(failures, retryAttempt, recovered)

\* The response is in and not yet looked at.  A failure it added, the one that
\* may exceed the budget, stands at the end of the context.
Answered ==
    /\ last # "none" /\ (last \in {"ok", "aborted"} => failures = 0)
    /\ failures = 0 \/ tail = "assistant"
    /\ Within(failures, (IF last = "retryable" THEN retryAttempt ELSE MaxRetries) + 1, recovered)

\* What a caller knows between two requests.  With an assistant message at the end
\* of the context the agent goes on only with new input.
Stage(c) ==
    /\ pc[c] = "post" => Answered
    /\ pc[c] \in {"retry", "compact", "decided", "beforeSettle", "boundary", "gap"} /\ ~abortReq
         => tail = "assistant" \/ WithinBudget
    /\ pc[c] = "retryCut" /\ ~abortReq => failures = 0

Requests ==
    /\ phase \in {"starting", "turn", "tools"} => WithinBudget
    /\ phase = "ending" => Answered

FailInv == Bounds /\ Requests /\ \A c \in Callers : Stage(c)

LEMMA NothingFailed == \A r : \A a \in Nat : Within(0, a, r) /\ 0 \in 0..FailureLimit
<1>. TAKE r
<1>. TAKE a \in Nat
<1>1. CASE r
  BY <1>1, BoundsAssumption DEF Within, FailureLimit
<1>2. CASE ~r
  BY <1>2, BoundsAssumption DEF Within, FailureLimit
<1>. QED  BY <1>1, <1>2

LEMMA OneMoreFailed ==
    \A r : \A f \in Nat, a \in 0..MaxRetries :
        Within(f, a, r) => /\ Within(f + 1, a + 1, r) /\ Within(f + 1, MaxRetries + 1, r)
                           /\ f + 1 \in 0..FailureLimit
<1>. TAKE r
<1>. TAKE f \in Nat, a \in 0..MaxRetries
<1>1. CASE r
  BY <1>1, BoundsAssumption DEF Within, FailureLimit
<1>2. CASE ~r
  BY <1>2, BoundsAssumption DEF Within, FailureLimit
<1>. QED  BY <1>1, <1>2

LEMMA RecoveryCovers == \A f \in Nat : Within(f, MaxRetries + 1, FALSE) => Within(f, 0, TRUE)
  BY BoundsAssumption DEF Within

\* The one caller with a run is c.
LEMMA Alone ==
    ASSUME One', NEW c \in Callers, pc'[c] \in RunPCs, Bounds', Requests', Stage(c)'
    PROVE  FailInv'
  BY DEF One, RunPCs, FailInv, Stage

\* Its run has not begun, or is over, so that failures do not count.
LEMMA AloneOutside ==
    ASSUME One', NEW c \in Callers, pc'[c] \in {"prepare", "preCompact", "hooks", "finally"}, Bounds'
    PROVE  FailInv'
<1>1. phase' = "none"
  BY DEF One, RunPCs
<1>. QED  BY <1>1, Alone DEF RunPCs, Requests, Stage

\* No caller has one.
LEMMA NoRun ==
    ASSUME One', ~active', Bounds'
    PROVE  FailInv'
  BY DEF One, RunPCs, FailInv, Requests, Stage

\* Nothing that counts changes, and no caller comes to a stage from outside.
LEMMA SameFailures ==
    ASSUME FailInv, UNCHANGED <<failures, retryAttempt, recovered, phase, last, tail>>,
           abortReq => abortReq',
           \A c \in Callers : \/ pc'[c] = pc[c] \/ pc'[c] \in OutPCs
                              \/ pc'[c] = "retryCut" /\ abortReq'
                              \/ /\ pc[c] \in {"retry", "compact", "decided", "beforeSettle", "boundary", "gap"}
                                 /\ pc'[c] \in {"retry", "compact", "decided", "beforeSettle", "boundary", "gap"}
    PROVE  FailInv'
<1>1. Bounds' /\ Requests'
  BY DEF FailInv, Bounds, Requests, WithinBudget, Answered
<1>2. ASSUME NEW c \in Callers PROVE Stage(c)'
  BY DEF FailInv, Stage, WithinBudget, Answered, OutPCs
<1>. QED  BY <1>1, <1>2 DEF FailInv

LEMMA FailInit == Init => FailInv
<1>. SUFFICES ASSUME Init PROVE FailInv
  OBVIOUS
<1>1. failures = 0 /\ retryAttempt = 0 /\ phase = "none"
  BY DEF Init
<1>2. Bounds /\ Requests
  BY <1>1, BoundsAssumption DEF Bounds, Requests, FailureLimit
<1>3. \A c \in Callers : Stage(c)
  BY DEF Init, Stage
<1>. QED  BY <1>2, <1>3 DEF FailInv

LEMMA NoneLeft ==
    ASSUME failures' = 0, retryAttempt' \in 0..MaxRetries
    PROVE  Bounds' /\ WithinBudget'
<1>1. retryAttempt' \in Nat
  BY BoundsAssumption
<1>2. Within(0, retryAttempt', recovered') /\ 0 \in 0..FailureLimit
  BY Zenon, <1>1, NothingFailed
<1>. QED  BY Zenon, <1>2 DEF Bounds, WithinBudget, Within, FailureLimit

LEMMA FailAgentStep == ASSUME One, One', FailInv, AgentStep PROVE FailInv'
<1>. USE DEF caller, session, agent, held, history
<1>0. Bounds /\ Requests /\ \A c \in Callers : Stage(c)
  BY SMTT(60) DEF FailInv
<1>1. PICK c \in Callers : pc[c] = "agent"
  BY DEF One, AgentStep, AgentStart, Drain, CallTools, ToolsDone, Respond, AgentEnd, AgentThrows
<1>2. CASE AgentStart \/ Drain \/ CallTools \/ ToolsDone
  <2>1. pc'[c] = "agent" /\ phase' \in {"turn", "tools"}
    BY <1>1, <1>2 DEF AgentStart, Drain, CallTools, ToolsDone
  <2>2. Bounds' /\ WithinBudget'
    <3>1. CASE AgentStart \/ ToolsDone
      BY <1>0, <3>1 DEF AgentStart, ToolsDone, Bounds, Requests, WithinBudget
    <3>2. CASE Drain \/ CallTools
      BY <1>0, <3>2, BoundsAssumption, NoneLeft DEF Drain, TakeQueued, CallTools, Bounds
    <3>. QED  BY <1>2, <3>1, <3>2
  <2>. QED  BY <2>1, <2>2, Alone DEF Requests, Stage, RunPCs
<1>3. ASSUME NEW r \in Responses, Respond(r) PROVE FailInv'
  <2>1. pc'[c] = "agent" /\ phase' = "ending" /\ phase = "turn" /\ last' = r
    BY <1>1, <1>3 DEF Respond
  <2>2. /\ retryAttempt' = IF r \in Errors THEN retryAttempt ELSE 0
        /\ recovered' = (recovered /\ r \notin {"ok", "aborted"})
        /\ failures' = IF r \in {"ok", "aborted"} \/ heldCustom THEN 0
                       ELSE IF failures > FailureLimit THEN failures ELSE failures + 1
        /\ tail' = IF heldCustom THEN "other" ELSE "assistant"
    BY <1>3 DEF Respond, TurnEnd
  <2>3. WithinBudget /\ Bounds
    BY <1>0, <2>1 DEF Requests
  <2>4. retryAttempt' \in 0..MaxRetries /\ last' # "none"
    BY <2>1, <2>2, <2>3, BoundsAssumption DEF Bounds, Responses, Errors
  <2>5. Bounds' /\ Answered'
    <3>1. CASE r \in {"ok", "aborted"} \/ heldCustom
      <4>1. failures' = 0
        BY <2>2, <3>1
      <4>2. \A a \in 0..MaxRetries : a + 1 \in Nat /\ MaxRetries + 1 \in Nat
        BY BoundsAssumption
      <4>3. Within(0, (IF last' = "retryable" THEN retryAttempt' ELSE MaxRetries) + 1, recovered')
        BY Zenon, <2>4, <4>2, NothingFailed
      <4>. QED  BY Zenon, <2>4, <4>1, <4>3, NoneLeft DEF Answered, Within
    <3>2. CASE ~(r \in {"ok", "aborted"} \/ heldCustom)
      <4>1. tail' = "assistant" /\ last' \notin {"ok", "aborted"}
        BY <2>1, <2>2, <3>2
      <4>2. failures' = failures + 1
        BY <2>2, <2>3, <3>2, BoundsAssumption DEF Bounds, FailureLimit
      <4>3. last' = "retryable" => retryAttempt' = retryAttempt
        BY <2>1, <2>2 DEF Errors
      <4>4. failures \in Nat /\ retryAttempt \in 0..MaxRetries /\ Within(failures, retryAttempt, recovered)
        BY <2>3, BoundsAssumption DEF Bounds, WithinBudget, FailureLimit
      <4>5. /\ Within(failures + 1, retryAttempt + 1, recovered)
            /\ Within(failures + 1, MaxRetries + 1, recovered) /\ failures + 1 \in 0..FailureLimit
        BY Zenon, <4>4, OneMoreFailed
      <4>6. \A f, a : Within(f, a, recovered) => Within(f, a, recovered')
        BY Zenon, <2>2, <3>2 DEF Within
      <4>7. Bounds'
        BY Zenon, <2>4, <4>2, <4>5 DEF Bounds, FailureLimit
      <4>8. Within(failures', (IF last' = "retryable" THEN retryAttempt' ELSE MaxRetries) + 1, recovered')
        BY Zenon, <4>2, <4>3, <4>5, <4>6
      <4>. QED  BY Zenon, <2>4, <4>1, <4>7, <4>8 DEF Answered, Within
    <3>. QED  BY <3>1, <3>2
  <2>. QED  BY <2>1, <2>5, Alone DEF Requests, Stage, RunPCs
<1>4. CASE AgentEnd
  <2>1. pc'[c] = "post" /\ phase' = "none" /\ Answered
    BY <1>0, <1>1, <1>4 DEF AgentEnd, Requests
  <2>2. Bounds' /\ Answered'
    BY <1>0, <2>1, <1>4 DEF AgentEnd, Bounds, Answered
  <2>. QED  BY <2>1, <2>2, Alone DEF Requests, Stage, RunPCs
<1>5. CASE AgentThrows
  <2>1. pc'[c] = "finally" /\ Bounds'
    BY <1>0, <1>1, <1>5 DEF AgentThrows, Bounds
  <2>. QED  BY <2>1, AloneOutside
<1>. QED  BY <1>2, <1>3, <1>4, <1>5 DEF AgentStep

\* Up to the start of a run: nobody comes to a stage, and an abort request is
\* dropped only where a run starts.
LEMMA FailEntry ==
    ASSUME One, One', FailInv, ~AuthAwaits, NEW c \in Callers,
           \/ prompt(c) \/ steer(c) \/ sendCustomMessage(c)
           \/ InputDone(c) \/ QueueDone(c) \/ AuthDone(c)
    PROVE  FailInv'
<1>. USE DEF held, session, agent, history
<1>1. UNCHANGED <<failures, retryAttempt, recovered, phase, last, tail>>
  BY Zenon DEF prompt, steer, sendCustomMessage, InputDone, QueueDone, AuthDone
<1>2. ~AuthDone(c)
  BY Zenon DEF AuthDone, One, OutPCs, RunPCs
<1>3. \/ UNCHANGED abortReq
         /\ (Goto(c, "returned") \/ Goto(c, "next") \/ Goto(c, "input") \/ Goto(c, "queueing"))
      \/ Goto(c, "prepare")
  BY Zenon, <1>2, Returning DEF prompt, steer, sendCustomMessage, InputDone, QueueDone, Defer,
     Enqueue, StartRun
<1>4. CASE Goto(c, "prepare")
  <2>1. pc'[c] = "prepare" /\ Bounds'
    BY <1>1, <1>4 DEF Goto, One, FailInv, Bounds
  <2>. QED  BY <2>1, AloneOutside
<1>5. CASE UNCHANGED abortReq
           /\ (Goto(c, "returned") \/ Goto(c, "next") \/ Goto(c, "input") \/ Goto(c, "queueing"))
  <2>1. \A d \in Callers : pc'[d] = pc[d] \/ pc'[d] \in OutPCs
    BY <1>5 DEF Goto, One, OutPCs
  <2>. QED  BY <1>1, <1>5, <2>1, SameFailures
<1>. QED  BY <1>3, <1>4, <1>5

\* _handlePostAgentRun: the failed response stays at the end of the context, or the
\* retry or the recovery that drops it is counted.
LEMMA FailPost ==
    ASSUME One, One', FailInv, NEW c \in Callers, handlePostAgentRun(c)
    PROVE  FailInv'
<1>. USE DEF Decide
<1>1. Bounds /\ Answered /\ pc[c] = "post" /\ UNCHANGED <<failures, abortReq, phase>>
  BY DEF FailInv, Stage, handlePostAgentRun, history
<1>2. phase = "none" /\ pc \in [Callers -> OutPCs \cup RunPCs]
  BY <1>1, NotInAgent DEF One, RunPCs
<1>3. failures \in Nat /\ failures \in 0..FailureLimit /\ retryAttempt \in 0..MaxRetries /\ 0 \in 0..MaxRetries
  BY <1>1, BoundsAssumption DEF Bounds, FailureLimit
<1>4. ASSUME Bounds', tail' = "assistant" \/ WithinBudget',
             Goto(c, "retry") \/ Goto(c, "compact") \/ Goto(c, "decided")
      PROVE  FailInv'
  <2>1. pc'[c] \in {"retry", "compact", "decided"}
    BY <1>2, <1>4 DEF Goto
  <2>2. Requests' /\ Stage(c)'
    BY <1>1, <1>2, <1>4, <2>1 DEF Requests, Stage
  <2>. QED  BY <1>4, <2>1, <2>2, Alone DEF RunPCs
<1>5. CASE abortReq
  <2>1. Goto(c, "finally") /\ UNCHANGED retryAttempt
    BY Zenon, <1>5 DEF handlePostAgentRun
  <2>2. pc'[c] = "finally" /\ Bounds'
    BY <1>1, <1>2, <2>1 DEF Goto, Bounds
  <2>. QED  BY <2>2, AloneOutside
<1>6. CASE last = "retryable" /\ CanRetry /\ retryAttempt' = retryAttempt + 1 /\ Goto(c, "retry")
           /\ UNCHANGED recovered
  <2>1. Within(failures, retryAttempt + 1, recovered)
    BY Zenon, <1>1, <1>6 DEF Answered
  <2>2. retryAttempt + 1 \in 0..MaxRetries
    BY <1>3, <1>6, BoundsAssumption DEF CanRetry
  <2>3. Bounds' /\ WithinBudget'
    BY Zenon, <1>1, <1>3, <1>6, <2>1, <2>2 DEF Bounds, WithinBudget, Within, FailureLimit
  <2>. QED  BY <1>4, <1>6, <2>3
<1>7. CASE UNCHANGED tail /\ (retryAttempt' = retryAttempt \/ retryAttempt' = 0)
           /\ (Goto(c, "compact") \/ Goto(c, "decided"))
  <2>1. retryAttempt' \in 0..MaxRetries
    BY <1>3, <1>7
  <2>2. CASE failures = 0
    BY <1>1, <1>4, <1>7, <2>1, <2>2, NoneLeft
  <2>3. CASE tail = "assistant"
    <3>1. Bounds'
      BY Zenon, <1>1, <1>3, <2>1 DEF Bounds, FailureLimit
    <3>. QED  BY <1>4, <1>7, <2>3, <3>1
  <2>. QED  BY <1>1, <2>2, <2>3 DEF Answered
<1>8. CASE last \in {"overflow", "length"} /\ retryAttempt' = 0 /\ ~recovered /\ recovered' = TRUE
           /\ Goto(c, "compact")
  <2>1. last # "retryable"
    BY <1>8
  <2>2. Within(failures, MaxRetries + 1, recovered)
    BY Zenon, <1>1, <2>1 DEF Answered
  <2>3. Within(failures, MaxRetries + 1, FALSE)
    BY Zenon, <1>8, <2>2 DEF Within
  <2>4. Within(failures, 0, TRUE)
    BY Zenon, <1>3, <2>3, RecoveryCovers
  <2>5. Bounds' /\ WithinBudget'
    BY Zenon, <1>1, <1>3, <1>8, <2>4 DEF Bounds, WithinBudget, Within, FailureLimit
  <2>. QED  BY <1>4, <1>8, <2>5
<1>9. abortReq \/ ~abortReq
  OBVIOUS
<1>. QED  BY Zenon, <1>5, <1>6, <1>7, <1>8, <1>9 DEF handlePostAgentRun, Recover, CheckThreshold

\* Around a retry, a compaction and the settling of a run
LEMMA FailStages ==
    ASSUME One, One', FailInv, NEW c \in Callers,
           \/ Prepare(c) \/ PreCompactDone(c) \/ PrepareFails(c) \/ PrepareDone(c)
           \/ RetryFires(c) \/ RetryCut(c) \/ CompactDone(c) \/ Decided(c)
           \/ BeforeSettle(c) \/ Boundary(c) \/ Gap(c) \/ Finally(c) \/ Settled(c)
    PROVE  FailInv'
<1>. USE DEF OutPCs, RunPCs, held, session, agent, history, Decide, Goto
<1>0. /\ Bounds /\ Stage(c) /\ pc \in [Callers -> OutPCs \cup RunPCs]
      /\ retryAttempt \in 0..MaxRetries /\ 0 \in 0..MaxRetries
  BY BoundsAssumption DEF FailInv, Bounds, One
<1>1. CASE Prepare(c) \/ PreCompactDone(c)
  <2>1. pc'[c] \in {"preCompact", "hooks"} /\ Bounds'
    BY <1>0, <1>1 DEF Prepare, PreCompactDone, Bounds
  <2>. QED  BY SMTT(60), <2>1, AloneOutside
<1>2. CASE PrepareFails(c) \/ Finally(c)
  <2>1. active' = FALSE /\ failures' = failures /\ (retryAttempt' = retryAttempt \/ retryAttempt' = 0)
    BY Zenon, <1>2 DEF PrepareFails, Finally
  <2>2. Bounds'
    BY <1>0, <2>1 DEF Bounds
  <2>. QED  BY SMTT(60), <2>1, <2>2, NoRun
<1>3. CASE PrepareDone(c)
  <2>1. phase = "none"
    BY <1>3, NotInAgent DEF PrepareDone
  <2>2. pc'[c] = "agent" /\ phase' = "starting" /\ failures' = 0 /\ retryAttempt' = retryAttempt
    BY <1>0, <1>3, <2>1 DEF PrepareDone
  <2>3. Bounds' /\ WithinBudget'
    BY <1>0, <2>2, NoneLeft
  <2>. QED  BY <2>2, <2>3, Alone DEF Requests, Stage
<1>4. CASE RetryFires(c) \/ RetryCut(c)
  <2>1. /\ pc'[c] \in {"decided", "compact"} /\ phase' = "none" /\ UNCHANGED <<failures, abortReq, tail, recovered>>
        /\ retryAttempt' = retryAttempt \/ (retryAttempt' = 0 /\ (abortReq \/ failures = 0))
    <3>1. CASE RetryFires(c)
      BY SMTT(60), <1>0, <3>1, NotInAgent DEF RetryFires
    <3>2. CASE RetryCut(c)
      BY <1>0, <3>2, NotInAgent DEF RetryCut, CheckThreshold, Stage
    <3>. QED  BY SMTT(60), <1>4, <3>1, <3>2
  <2>2. Bounds'
    BY <1>0, <2>1 DEF Bounds
  <2>3. ~abortReq => tail' = "assistant" \/ WithinBudget'
    <3>1. CASE failures = 0
      BY SMTT(60), <1>0, <2>1, <3>1, NoneLeft
    <3>2. CASE failures # 0
      BY SMTT(60), <1>0, <1>4, <2>1, <3>2 DEF RetryFires, RetryCut, Stage, WithinBudget
    <3>. QED  BY <3>1, <3>2
  <2>. QED  BY <2>1, <2>2, <2>3, Alone DEF Requests, Stage
<1>5. CASE CompactDone(c) \/ BeforeSettle(c)
  <2>1. UNCHANGED <<failures, retryAttempt, recovered, phase, last, tail, abortReq>>
    BY Zenon, <1>5 DEF CompactDone, BeforeSettle
  <2>2. \A d \in Callers : \/ pc'[d] = pc[d]
                           \/ pc[d] \in {"compact", "beforeSettle"} /\ pc'[d] \in {"decided", "gap", "boundary"}
    BY <1>0, <1>5 DEF CompactDone, BeforeSettle
  <2>. QED  BY Zenon, <2>1, <2>2, SameFailures
<1>6. CASE Decided(c) \/ Gap(c)
  <2>1. pc[c] \in {"decided", "gap"} /\ UNCHANGED <<retryAttempt, abortReq, tail, last>>
    BY Zenon, <1>6 DEF Decided, Gap
  <2>2. CASE Goto(c, "finally") /\ UNCHANGED failures
    <3>1. pc'[c] = "finally" /\ Bounds'
      BY <1>0, <2>1, <2>2 DEF Bounds
    <3>. QED  BY <3>1, AloneOutside
  <2>3. CASE Goto(c, "beforeSettle") /\ UNCHANGED <<phase, recovered, failures>>
    <3>1. \A d \in Callers : pc'[d] = pc[d] \/ (pc[d] \in {"decided", "gap"} /\ pc'[d] = "beforeSettle")
      BY <1>0, <2>1, <2>3
    <3>. QED  BY <2>1, <2>3, <3>1, SameFailures
  <2>4. CASE ~abortReq /\ Continue(c) /\ ~(phase # "none" \/ (tail = "assistant" /\ queue = 0))
    <3>1. pc'[c] = "agent" /\ phase' = "starting"
      BY <1>0, <2>4 DEF Continue
    <3>2. Bounds' /\ WithinBudget'
      <4>1. CASE tail = "assistant"
        <5>1. failures' = 0
          BY <2>4, <4>1 DEF Continue, TakeQueued
        <5>. QED  BY <1>0, <2>1, <5>1, NoneLeft
      <4>2. CASE tail # "assistant"
        <5>1. UNCHANGED <<recovered, failures>>
          BY <2>4, <4>2 DEF Continue
        <5>. QED  BY <1>0, <2>1, <2>4, <4>2, <5>1 DEF Stage, Bounds, WithinBudget
      <4>. QED  BY <4>1, <4>2
    <3>. QED  BY <3>1, <3>2, Alone DEF Requests, Stage
  <2>. QED  BY Zenon, <1>6, <2>2, <2>3, <2>4 DEF Decided, Gap, Continue, Fail
<1>7. CASE Boundary(c)
  <2>1. /\ pc[c] = "boundary" /\ pc'[c] = "gap" /\ phase' = "none"
        /\ UNCHANGED <<abortReq, retryAttempt, recovered, last>>
    BY SMTT(60), <1>0, <1>7, NotInAgent DEF Boundary
  <2>2. failures' = 0 \/ (UNCHANGED <<failures, tail>>)
    BY <1>7 DEF Boundary
  <2>3. CASE failures' = 0
    BY SMTT(60), <1>0, <2>1, <2>3, NoneLeft, Alone DEF Requests, Stage
  <2>4. CASE UNCHANGED <<failures, tail>>
    <3>1. Bounds' /\ Stage(c)'
      BY SMTT(60), <1>0, <2>1, <2>4 DEF Bounds, Stage, WithinBudget
    <3>. QED  BY ZenonT(60), <2>1, <3>1, Alone DEF Requests
  <2>. QED  BY SMTT(60), <2>2, <2>3, <2>4
<1>8. CASE Settled(c)
  <2>1. UNCHANGED <<failures, retryAttempt, recovered, phase, last, tail, abortReq>>
    BY Zenon, <1>8 DEF Settled
  <2>2. \A d \in Callers : pc'[d] = pc[d] \/ pc'[d] \in OutPCs
    BY <1>0, <1>8 DEF Settled
  <2>. QED  BY Zenon, <2>1, <2>2, SameFailures
<1>. QED  BY <1>1, <1>2, <1>3, <1>4, <1>5, <1>6, <1>7, <1>8

LEMMA FailHost ==
    ASSUME One, One', FailInv,
           abort \/ abortRetry \/ clearQueue \/ recordBashResult \/ appendCustomMessage
    PROVE  FailInv'
<1>. USE DEF caller, session, agent, held, history
<1>1. CASE abort
  <2>1. UNCHANGED <<failures, retryAttempt, recovered, phase, last, tail>>
    BY Zenon, <1>1 DEF abort
  <2>2. abortReq => abortReq'
    BY Zenon, <1>1 DEF abort
  <2>3. \A d \in Callers : pc'[d] = pc[d] \/ (pc[d] = "retry" /\ pc'[d] = "retryCut")
    BY <1>1 DEF abort, One
  <2>4. \A d \in Callers : pc[d] = "retry" => abortReq'
    BY Zenon, <1>1 DEF abort, One, RunPCs
  <2>. QED  BY <2>1, <2>2, <2>3, <2>4, SameFailures
<1>2. CASE abortRetry
  <2>1. PICK c \in Callers : pc[c] = "retry"
    BY Zenon, <1>2 DEF abortRetry
  <2>2. pc'[c] = "retryCut" /\ failures' = 0 /\ phase' = "none" /\ retryAttempt' \in 0..MaxRetries
    BY <1>2, <2>1, NotInAgent DEF abortRetry, One, RunPCs, FailInv, Bounds
  <2>3. Bounds' /\ Requests' /\ Stage(c)'
    BY <2>2, NoneLeft DEF Requests, Stage
  <2>. QED  BY <2>2, <2>3, Alone DEF RunPCs
<1>3. CASE clearQueue \/ (active /\ (recordBashResult \/ appendCustomMessage))
  <2>1. UNCHANGED <<failures, retryAttempt, recovered, phase, last, tail, abortReq, pc>>
    BY Zenon, <1>3 DEF clearQueue, recordBashResult, appendCustomMessage
  <2>. QED  BY <2>1, SameFailures
<1>4. CASE ~active /\ (recordBashResult \/ appendCustomMessage)
  <2>1. UNCHANGED <<active, failures, retryAttempt>>
    BY Zenon, <1>4 DEF recordBashResult, appendCustomMessage
  <2>2. Bounds'
    BY <2>1 DEF FailInv, Bounds
  <2>. QED  BY <1>4, <2>1, <2>2, NoRun
<1>. QED  BY <1>1, <1>2, <1>3, <1>4

LEMMA FailStep == ASSUME One, One', FailInv, ~AuthAwaits, [Next]_vars PROVE FailInv'
<1>1. CASE UNCHANGED vars
  <2>1. UNCHANGED <<failures, retryAttempt, recovered, phase, last, tail, abortReq, pc>>
    BY <1>1 DEF vars, caller, session, agent, history
  <2>. QED  BY <2>1, SameFailures
<1>2. CASE Next
  BY Zenon, <1>2, FailAgentStep, FailEntry, FailPost, FailStages, FailHost DEF Next, CallerStep, Host
<1>. QED  BY <1>1, <1>2

\* The retry budget and the single overflow recovery hold together for any number
\* of retries, turns and callers: where runs do not overlap, no more requests than
\* this fail in a row without new input (_prepareRetry, _checkCompaction).
THEOREM FailuresAreBounded == ASSUME ~AuthAwaits PROVE Spec => []BoundedFailures
<1>1. FailInv => BoundedFailures
  BY BoundsAssumption DEF FailInv, Bounds, BoundedFailures, FailureLimit
<1>. QED  BY <1>1, FailInit, FailStep, OneAlways, PTL DEF Spec
=============================================================================
