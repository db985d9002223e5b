------------------------------ MODULE AgentRun ------------------------------
(***************************************************************************)
(* The Agent of packages/agent: its two message queues, the lifecycle of   *)
(* a run and the turn loop (agent.ts, runLoop of agent-loop.ts).           *)
(*                                                                         *)
(* JavaScript runs one step at a time between two awaits.  Every action of *)
(* the loop below is the code from one await to the next, so the host may  *)
(* call steer(), followUp(), abort(), clear...() between any two of them.  *)
(* A tool batch appears here by its outcome only; module ToolBatch has the *)
(* detail.                                                                 *)
(***************************************************************************)
EXTENDS Naturals, Sequences, FiniteSets

CONSTANTS
    MaxMsg,     \* messages handed to the agent, numbered as they come
    MaxCalls,   \* most tool calls in one assistant message
    MaxTurns    \* the provider and the hooks ask for no turn past this one

ASSUME MaxMsgAssumption == MaxMsg \in Nat
ASSUME MaxCallsAssumption == MaxCalls \in Nat
ASSUME MaxTurnsAssumption == MaxTurns \in Nat

VARIABLES
    steeringQueue, followUpQueue,   \* PendingMessageQueue.messages
    steeringMode, followUpMode,     \* PendingMessageQueue.mode
    activeRun,      \* Agent.activeRun is set
    aborted,        \* activeRun.abortController.signal.aborted
    messages,       \* Agent._state.messages
    streaming,      \* Agent._state.streamingMessage is set
    pc,             \* where the run is waiting
    context,        \* runLoop: currentContext.messages
    prompts,        \* runAgentLoop: initial messages not yet emitted
    skipPoll,       \* createLoopConfig: skipInitialSteeringPoll
    pending,        \* runLoop: pendingMessages
    prepared,       \* runLoop: preparedMessages
    completed,      \* runLoop: lastCompletedTurn is set
    more,           \* runLoop: hasMoreToolCalls
    explicit,       \* runLoop: explicitContinuation
    stop,           \* stopReason of the last assistant message
    calls,          \* its tool calls that have no result message yet
    results,        \* runLoop: toolResults
    signalled,      \* the request in flight was given an aborted signal
    used,           \* history: messages handed over so far
    gone,           \* history: messages the host removed again
    lost,           \* history: messages a failing run dropped
    late,           \* history: messages steered since the last steering poll
    drains,         \* history: steering drains with a result, this turn
    turns,          \* history: requests started
    afterAbort,     \* history: requests this run started once aborted
    contextOnly     \* history: this turn was asked for by finishTurn alone

queues  == <<steeringQueue, followUpQueue>>
modes   == <<steeringMode, followUpMode>>
loop    == <<prompts, skipPoll, pending, prepared, completed, more, explicit,
             stop, calls, results, signalled>>
history == <<used, gone, lost, late, drains, turns, afterAbort,
             contextOnly>>
vars    == <<queues, modes, activeRun, aborted, messages, streaming, pc,
             context, loop, history>>

Msg         == 1..MaxMsg
Modes       == {"all", "one-at-a-time"}
StopReasons == {"stop", "toolUse", "length", "error", "aborted"}
Decisions   == {"none", "continue", "end"}

\* Transcript entries.  What the properties tell apart is the role, which
\* host message it is, and whether an assistant message is still partial.
User(m)    == [role |-> "user", id |-> m]
Assistant  == [role |-> "assistant", id |-> 0]
Partial    == [role |-> "partial", id |-> 0]
ToolResult == [role |-> "toolResult", id |-> 0]

Entries == {User(m) : m \in Msg} \cup {Assistant, Partial, ToolResult}

PCs == {"idle", "prompts", "initialPoll", "turn", "repoll", "push", "request",
        "stream", "partial", "tools", "finishTurn", "steeringPoll",
        "followUpPoll", "ending", "failing", "finish"}

\* The turn loop is running: an await of one of these may throw.
Running == pc \notin {"idle", "failing", "finish"}

UserSeq(ms)    == [i \in 1..Len(ms) |-> User(ms[i])]
LastRole(s)    == s[Len(s)].role

\* context.messages[context.messages.length - 1] = e
replaceLast(s, e) == Append(SubSeq(s, 1, Len(s) - 1), e)

\* The messages of a sequence.
Elems(s) == {s[i] : i \in 1..Len(s)}

\* How often e is in a sequence.
Count(s, e) == Cardinality({i \in 1..Len(s) : s[i] = e})
-----------------------------------------------------------------------------
(* PendingMessageQueue *)

peek(q, mode) == IF mode = "all" THEN q ELSE SubSeq(q, 1, IF q = <<>> THEN 0 ELSE 1)

\* Faulty variant: drain() that only peeks.
drained_peek(q, mode) == q

\* What drain() leaves behind.
drained(q, mode) == SubSeq(q, Len(peek(q, mode)) + 1, Len(q))

removeAt(q, i) == SubSeq(q, 1, i - 1) \o SubSeq(q, i + 1, Len(q))
-----------------------------------------------------------------------------
Init ==
    /\ steeringQueue = <<>> /\ followUpQueue = <<>>
    /\ steeringMode \in Modes /\ followUpMode \in Modes
    /\ activeRun = FALSE /\ aborted = FALSE
    /\ messages = <<>> /\ streaming = FALSE
    /\ pc = "idle" /\ context = <<>> /\ prompts = <<>> /\ skipPoll = FALSE
    /\ pending = <<>> /\ prepared = <<>> /\ completed = FALSE
    /\ more = FALSE /\ explicit = FALSE /\ stop = "stop" /\ calls = 0
    /\ results = <<>>
    /\ signalled = FALSE
    /\ used = 0
    /\ gone = {} /\ lost = {} /\ late = {}
    /\ drains = 0 /\ turns = 0 /\ afterAbort = 0 /\ contextOnly = FALSE
-----------------------------------------------------------------------------
(* The host's calls.  None of them waits for the loop. *)

\* m is the next message handed over.
NewMessage(m) ==
    /\ m = used + 1 /\ m \in Msg
    /\ used' = m

steer(m) ==
    /\ NewMessage(m)
    /\ steeringQueue' = Append(steeringQueue, m)
    /\ late' = late \cup {m}
    /\ UNCHANGED <<followUpQueue, modes, activeRun, aborted, messages, streaming,
                   pc, context, loop, gone, lost, drains, turns, afterAbort,
                   contextOnly>>

followUp(m) ==
    /\ NewMessage(m)
    /\ followUpQueue' = Append(followUpQueue, m)
    /\ UNCHANGED <<steeringQueue, modes, activeRun, aborted, messages, streaming,
                   pc, context, loop, gone, lost, late, drains, turns, afterAbort,
                   contextOnly>>

SetModes(s, f) ==
    /\ steeringMode' = s /\ followUpMode' = f
    /\ UNCHANGED <<queues, activeRun, aborted, messages, streaming, pc, context,
                   loop, history>>

clearSteeringQueue ==
    /\ steeringQueue' = <<>>
    /\ gone' = gone \cup Elems(steeringQueue)
    /\ UNCHANGED <<followUpQueue, modes, activeRun, aborted, messages, streaming,
                   pc, context, loop, used, lost, late, drains, turns,
                   afterAbort, contextOnly>>

clearFollowUpQueue ==
    /\ followUpQueue' = <<>>
    /\ gone' = gone \cup Elems(followUpQueue)
    /\ UNCHANGED <<steeringQueue, modes, activeRun, aborted, messages, streaming,
                   pc, context, loop, used, lost, late, drains, turns,
                   afterAbort, contextOnly>>

removeSteeringAt(i) ==
    /\ i \in 1..Len(steeringQueue)
    /\ steeringQueue' = removeAt(steeringQueue, i)
    /\ gone' = gone \cup {steeringQueue[i]}
    /\ UNCHANGED <<followUpQueue, modes, activeRun, aborted, messages, streaming,
                   pc, context, loop, used, lost, late, drains, turns,
                   afterAbort, contextOnly>>

removeFollowUpAt(i) ==
    /\ i \in 1..Len(followUpQueue)
    /\ followUpQueue' = removeAt(followUpQueue, i)
    /\ gone' = gone \cup {followUpQueue[i]}
    /\ UNCHANGED <<steeringQueue, modes, activeRun, aborted, messages, streaming,
                   pc, context, loop, used, lost, late, drains, turns,
                   afterAbort, contextOnly>>

abort ==
    /\ activeRun
    /\ aborted' = TRUE
    /\ UNCHANGED <<queues, modes, activeRun, messages, streaming, pc, context,
                   loop, history>>

\* reset() refuses while a run is active; it forgets transcript and queues.
reset ==
    /\ ~activeRun
    /\ messages' = <<>> /\ streaming' = FALSE
    /\ steeringQueue' = <<>> /\ followUpQueue' = <<>>
    /\ gone' = gone \cup Elems(steeringQueue) \cup Elems(followUpQueue)
                    \cup {m \in Msg : User(m) \in Elems(messages)}
    /\ UNCHANGED <<modes, activeRun, aborted, pc, context, loop, used,
                   lost, late, drains, turns, afterAbort, contextOnly>>
-----------------------------------------------------------------------------
(* Starting a run: runWithLifecycle and the head of runAgentLoop[Continue]. *)

StartRun(initial, skip) ==
    /\ ~activeRun
    /\ activeRun' = TRUE /\ aborted' = FALSE /\ streaming' = FALSE
    /\ prompts' = initial /\ skipPoll' = skip
    /\ context' = messages \o UserSeq(initial)
    /\ pending' = <<>> /\ prepared' = <<>> /\ completed' = FALSE
    /\ explicit' = FALSE /\ more' = TRUE /\ results' = <<>> /\ calls' = 0
    /\ pc' = "prompts"
    /\ signalled' = FALSE /\ afterAbort' = 0 /\ contextOnly' = FALSE
    /\ UNCHANGED <<messages, stop, modes, gone, lost, turns>>

\* prompt() with one message of the host.
prompt(m) ==
    /\ NewMessage(m)
    /\ StartRun(<<m>>, FALSE)
    /\ drains' = 0
    /\ UNCHANGED <<queues, late>>

\* continue() after an assistant message drains a queue, steering first, in
\* the same step as it looks: the drained messages become the prompt.
continueFromQueue ==
    /\ messages # <<>> /\ LastRole(messages) = "assistant"
    /\ \/ /\ steeringQueue # <<>>
          /\ StartRun(peek(steeringQueue, steeringMode), TRUE)
          /\ steeringQueue' = drained(steeringQueue, steeringMode)
          /\ drains' = 1 /\ late' = {}
          /\ UNCHANGED <<followUpQueue, used>>
       \/ /\ steeringQueue = <<>> /\ followUpQueue # <<>>
          /\ StartRun(peek(followUpQueue, followUpMode), FALSE)
          /\ followUpQueue' = drained(followUpQueue, followUpMode)
          /\ drains' = 0 /\ late' = {}
          /\ UNCHANGED <<steeringQueue, used>>

\* continue() after a user or tool-result message runs on the transcript.
continueFromTranscript ==
    /\ turns < MaxTurns
    /\ messages # <<>> /\ LastRole(messages) # "assistant"
    /\ StartRun(<<>>, FALSE)
    /\ drains' = 0
    /\ UNCHANGED <<queues, used, late>>

\* message_end of one initial message: it is in the context already, and
\* joins the transcript here.
EmitPrompt ==
    /\ pc = "prompts"
    /\ IF prompts = <<>>
       THEN pc' = "initialPoll" /\ UNCHANGED <<messages, prompts>>
       ELSE /\ messages' = Append(messages, User(Head(prompts)))
            /\ prompts' = Tail(prompts)
            /\ pc' = "prompts"
    /\ UNCHANGED <<queues, modes, activeRun, aborted, streaming, context, skipPoll,
                   pending, prepared, completed, more, explicit, stop, calls,
                   results, signalled, history>>
-----------------------------------------------------------------------------
(* The turn loop *)

\* A poll of getSteeringMessages; so_far is the number of polls that returned
\* something for the coming turn, next is where the loop waits afterwards.
PollSteering(so_far, next) ==
    /\ IF skipPoll
       THEN pending' = <<>> /\ skipPoll' = FALSE /\ drains' = so_far /\ UNCHANGED steeringQueue
       ELSE /\ pending' = peek(steeringQueue, steeringMode)
            /\ steeringQueue' = drained(steeringQueue, steeringMode)
            /\ drains' = IF steeringQueue = <<>> THEN so_far ELSE so_far + 1
            /\ UNCHANGED skipPoll
    /\ late' = {}
    /\ pc' = next

InitialPoll ==
    /\ pc = "initialPoll"
    /\ PollSteering(drains, "turn")
    /\ UNCHANGED <<followUpQueue, modes, activeRun, aborted, messages, streaming,
                   context, prompts, prepared, completed, more, explicit, stop,
                   calls, results, signalled, used, gone, lost, turns,
                   afterAbort, contextOnly>>

\* The head of the inner loop.  From the second turn on prepareNextTurn may
\* replace the context by the transcript and hand over messages of its own.
PrepareNextTurn ==
    /\ pc = "turn"
    /\ IF completed
       THEN /\ context' \in {context, messages}
            /\ \/ prepared' = <<>> /\ UNCHANGED used
               \/ \E m \in Msg : NewMessage(m) /\ prepared' = <<m>>
            /\ pc' = "repoll"
       ELSE /\ prepared' = <<>> /\ pc' = "push"
            /\ UNCHANGED <<context, used>>
    /\ UNCHANGED <<queues, modes, activeRun, aborted, messages, streaming, prompts,
                   skipPoll, pending, completed, more, explicit, stop, calls,
                   results, signalled, gone, lost, late, drains, turns,
                   afterAbort, contextOnly>>

\* Steering that arrived while prepareNextTurn ran ...
PollAgain ==
    /\ pc = "repoll"
    /\ PollSteering(drains, "push")
    /\ UNCHANGED <<followUpQueue, modes, activeRun, aborted, messages, streaming,
                   context, prompts, prepared, completed, more, explicit, stop,
                   calls, results, signalled, used, gone, lost, turns,
                   afterAbort, contextOnly>>

\* ... unless some is pending.
Repoll ==
    \/ pending = <<>> /\ PollAgain
    \/ /\ pending # <<>> /\ pc = "repoll"
       /\ pc' = "push"
       /\ UNCHANGED <<queues, modes, activeRun, aborted, messages, streaming,
                      context, loop, history>>

\* One prepared or pending message enters transcript and context.
PushMessage ==
    /\ pc = "push"
    /\ \/ prepared # <<>> /\ prepared' = Tail(prepared) /\ UNCHANGED pending
       \/ /\ prepared = <<>> /\ pending # <<>>
          /\ pending' = Tail(pending) /\ UNCHANGED prepared
    /\ LET m == IF prepared # <<>> THEN Head(prepared) ELSE Head(pending) IN
         /\ messages' = Append(messages, User(m))
         /\ context' = Append(context, User(m))
    /\ UNCHANGED <<queues, modes, activeRun, aborted, streaming, pc, prompts,
                   skipPoll, completed, more, explicit, stop, calls, results,
                   signalled, history>>

\* prepareRequest may replace the context by the transcript once more.
PrepareRequest ==
    /\ pc = "push" /\ prepared = <<>> /\ pending = <<>>
    /\ context' \in {context, messages}
    /\ pc' = "request"
    /\ UNCHANGED <<queues, modes, activeRun, aborted, messages, streaming, loop,
                   history>>

\* streamFunction is called: the provider sees the context as it is now.
\* A provider that is handed an aborted signal answers "aborted".
StartRequest ==
    /\ pc = "request"
    /\ pc' = "stream"
    /\ turns' = turns + 1
    /\ afterAbort' = IF aborted THEN afterAbort + 1 ELSE afterAbort
    /\ signalled' = aborted
    /\ UNCHANGED <<queues, modes, activeRun, aborted, messages, streaming, context,
                   prompts, skipPoll, pending, prepared, completed, more, explicit,
                   stop, calls, results, used, gone, lost, late, drains,
                   contextOnly>>

\* "start": the partial message is put at the end of the context only.
StreamPartial ==
    /\ pc = "stream"
    /\ context' = Append(context, Partial)
    /\ streaming' = TRUE
    /\ pc' = "partial"
    /\ UNCHANGED <<queues, modes, activeRun, aborted, messages, loop, history>>

\* The provider may answer with stop reason s and n tool calls.
MayAnswer(s, n) ==
    /\ signalled => s = "aborted"
    /\ s = "aborted" => aborted
    /\ s = "toolUse" => n > 0 /\ turns < MaxTurns
    /\ s = "length" => n = 0 \/ turns < MaxTurns
    /\ s \in {"stop", "error", "aborted"} => n = 0

\* "done"/"error": the final message replaces the partial one, or is pushed,
\* and joins the transcript with message_end.
StreamEnd ==
    /\ pc \in {"stream", "partial"}
    /\ \E s \in StopReasons, n \in 0..MaxCalls :
         /\ MayAnswer(s, n)
         /\ stop' = s /\ calls' = n
         /\ pc' = IF s \notin {"error", "aborted"} /\ n > 0 THEN "tools" ELSE "finishTurn"
    /\ context' = IF pc = "partial"
                  THEN replaceLast(context, Assistant)
                  ELSE Append(context, Assistant)
    /\ messages' = Append(messages, Assistant)
    /\ streaming' = FALSE /\ results' = <<>> /\ more' = FALSE
    /\ UNCHANGED <<queues, modes, activeRun, aborted, prompts, skipPoll, pending,
                   prepared, completed, explicit, signalled, history>>

\* One more tool-result message joins the transcript.
AddToolResult ==
    /\ pc = "tools"
    /\ messages' = Append(messages, ToolResult)
    /\ results' = Append(results, ToolResult)
    /\ calls' = calls - 1
    /\ UNCHANGED <<queues, modes, activeRun, aborted, streaming, pc, context,
                   prompts, skipPoll, pending, prepared, completed, more, explicit,
                   stop, signalled, history>>

\* Each tool call of the batch gets one.
EmitToolResult == calls > 0 /\ AddToolResult

\* The batch ends with the tool results added to the context.
CloseBatch(added) ==
    /\ pc = "tools"
    /\ context' = context \o added
    /\ more' \in (IF stop = "length" THEN {TRUE} ELSE BOOLEAN)
    /\ pc' = "finishTurn"
    /\ UNCHANGED <<queues, modes, activeRun, aborted, messages, streaming, prompts,
                   skipPoll, pending, prepared, completed, explicit, stop, calls,
                   results, signalled, history>>

\* Faulty variant: an abort cuts the batch before its first result.
EndBatch_empty == (calls = 0 \/ aborted) /\ CloseBatch(results)

\* Faulty variant: the context misses the results.
EndBatch_forget == calls = 0 /\ CloseBatch(<<>>)

\* An abort may cut the batch short, after one result at least, and never
\* that of a truncated message.
EndBatch ==
    /\ calls = 0 \/ (aborted /\ results # <<>> /\ stop # "length")
    /\ CloseBatch(results)

\* finishTurn and turn_end; after one of the stop reasons in hard the decision
\* is not looked at.
DecideTurn(hard) ==
    /\ pc = "finishTurn"
    /\ completed' = TRUE /\ calls' = 0 /\ results' = <<>> /\ stop' = "stop"
    /\ \E d \in Decisions :
         IF stop \in hard \/ d = "end"
         THEN pc' = "ending" /\ UNCHANGED explicit
         ELSE /\ pc' = "steeringPoll"
              /\ d = "continue" => turns < MaxTurns
              /\ explicit' = (d = "continue")
    /\ UNCHANGED <<queues, modes, activeRun, aborted, messages, streaming, context,
                   prompts, skipPoll, pending, prepared, more, signalled, history>>

\* Faulty variant: an aborted response does not end the run.
FinishTurn_soft == DecideTurn({"error"})

FinishTurn == DecideTurn({"error", "aborted"})

\* Faulty variant: no steering poll when the agent would stop.
SteeringPoll_late ==
    /\ pc = "steeringPoll"
    /\ IF more THEN PollSteering(0, "turn")
       ELSE /\ pc' = "followUpPoll" /\ pending' = <<>> /\ drains' = 0
            /\ late' = {}
            /\ UNCHANGED <<steeringQueue, skipPoll>>
    /\ explicit' = (explicit /\ ~more)
    /\ contextOnly' = FALSE
    /\ UNCHANGED <<followUpQueue, modes, activeRun, aborted, messages, streaming,
                   context, prompts, prepared, completed, more, stop, calls,
                   results, signalled, used, gone, lost, turns,
                   afterAbort>>

\* The poll at the end of a turn.  A new turn starts when there is something
\* to say; drains counts from here.
SteeringPoll ==
    /\ pc = "steeringPoll"
    /\ PollSteering(0, IF more \/ pending' # <<>> THEN "turn" ELSE "followUpPoll")
    /\ explicit' = (explicit /\ ~more /\ pending' = <<>>)
    /\ contextOnly' = FALSE
    /\ UNCHANGED <<followUpQueue, modes, activeRun, aborted, messages, streaming,
                   context, prompts, prepared, completed, more, stop, calls,
                   results, signalled, used, gone, lost, turns,
                   afterAbort>>

\* The agent would stop here: follow-ups, then one turn finishTurn asked for.
FollowUpPoll ==
    /\ pc = "followUpPoll"
    /\ pending' = peek(followUpQueue, followUpMode)
    /\ followUpQueue' = drained(followUpQueue, followUpMode)
    /\ explicit' = FALSE
    /\ contextOnly' = (explicit /\ followUpQueue = <<>>)
    /\ IF followUpQueue # <<>> \/ explicit
       THEN pc' = "turn" /\ more' = TRUE
       ELSE pc' = "ending" /\ UNCHANGED more
    /\ UNCHANGED <<steeringQueue, modes, activeRun, aborted, messages, streaming,
                   context, prompts, skipPoll, prepared, completed, stop, calls,
                   results, signalled, used, gone, lost, late, drains,
                   turns, afterAbort>>

\* Faulty variant: the run waits for its queues to be empty.
EndRun_drained ==
    /\ pc = "ending" /\ steeringQueue = <<>> /\ followUpQueue = <<>>
    /\ pc' = "finish"
    /\ UNCHANGED <<queues, modes, activeRun, aborted, messages, streaming, context,
                   loop, history>>

\* agent_end listeners have settled.
EndRun ==
    /\ pc = "ending"
    /\ pc' = "finish"
    /\ UNCHANGED <<queues, modes, activeRun, aborted, messages, streaming, context,
                   loop, history>>
-----------------------------------------------------------------------------
(* Failure: a listener or a hook throws out of the loop. *)

\* Faulty variant: steering that was taken goes back to its queue.
Fail_requeue ==
    /\ Running
    /\ pc' = "failing"
    /\ lost' = lost \cup Elems(prompts) \cup Elems(prepared)
    /\ steeringQueue' = pending \o steeringQueue
    /\ prompts' = <<>> /\ pending' = <<>> /\ prepared' = <<>>
    /\ UNCHANGED <<followUpQueue, modes, activeRun, aborted, messages, streaming, context,
                   skipPoll, completed, more, explicit, stop, calls, results,
                   signalled, used, gone, late, drains, turns,
                   afterAbort, contextOnly>>

Fail ==
    /\ Running
    /\ pc' = "failing"
    /\ lost' = lost \cup Elems(prompts) \cup Elems(pending) \cup Elems(prepared)
    /\ prompts' = <<>> /\ pending' = <<>> /\ prepared' = <<>>
    /\ UNCHANGED <<queues, modes, activeRun, aborted, messages, streaming, context,
                   skipPoll, completed, more, explicit, stop, calls, results,
                   signalled, used, gone, late, drains, turns,
                   afterAbort, contextOnly>>

\* The failure message is emitted; a listener may throw on it again, before
\* or after it joined the transcript.
handleRunFailure ==
    /\ pc = "failing"
    /\ \/ messages' = Append(messages, Assistant) /\ streaming' = FALSE
       \/ UNCHANGED messages /\ streaming' = TRUE
    /\ pc' = "finish"
    /\ UNCHANGED <<queues, modes, activeRun, aborted, context, loop, history>>

\* The locals of the loop go out of scope with the run.
LeaveLoop ==
    /\ pc = "finish" /\ pc' = "idle"
    /\ context' = <<>> /\ prompts' = <<>> /\ skipPoll' = FALSE
    /\ pending' = <<>> /\ prepared' = <<>> /\ completed' = FALSE
    /\ more' = FALSE /\ explicit' = FALSE /\ stop' = "stop" /\ calls' = 0
    /\ results' = <<>> /\ signalled' = FALSE
    /\ late' = {} /\ drains' = 0 /\ afterAbort' = 0 /\ contextOnly' = FALSE
    /\ streaming' = FALSE /\ aborted' = FALSE
    /\ UNCHANGED <<queues, modes, messages, used, gone, lost, turns>>

finishRun == LeaveLoop /\ activeRun' = FALSE
-----------------------------------------------------------------------------
LoopStep ==
    \/ EmitPrompt \/ InitialPoll \/ PrepareNextTurn \/ Repoll \/ PushMessage
    \/ PrepareRequest \/ StartRequest \/ StreamPartial \/ StreamEnd
    \/ EmitToolResult \/ EndBatch \/ FinishTurn \/ SteeringPoll \/ FollowUpPoll
    \/ EndRun \/ handleRunFailure \/ finishRun

\* Calls that hand messages over, start a run or end it.
Converse ==
    \/ \E m \in Msg : steer(m) \/ followUp(m) \/ prompt(m)
    \/ continueFromQueue \/ continueFromTranscript
    \/ abort

\* Calls that change what is queued or how it is drained.
Manage ==
    \/ \E s, f \in Modes : SetModes(s, f)
    \/ clearSteeringQueue \/ clearFollowUpQueue
    \/ \E i \in 1..Len(steeringQueue) : removeSteeringAt(i)
    \/ \E i \in 1..Len(followUpQueue) : removeFollowUpAt(i)
    \/ reset

Next == LoopStep \/ Fail \/ Converse \/ Manage

Spec == Init /\ [][Next]_vars

\* The event loop runs every settled promise's continuation; providers, tools,
\* hooks and listeners settle.
FairSpec == Spec /\ WF_vars(LoopStep)
-----------------------------------------------------------------------------
(* Properties *)

TranscriptOK ==
    /\ steeringQueue \in Seq(Msg) /\ followUpQueue \in Seq(Msg)
    /\ steeringMode \in Modes /\ followUpMode \in Modes
    /\ messages \in Seq(Entries) /\ context \in Seq(Entries)
    /\ prompts \in Seq(Msg) /\ pending \in Seq(Msg) /\ prepared \in Seq(Msg)

RunOK ==
    /\ activeRun \in BOOLEAN /\ aborted \in BOOLEAN /\ streaming \in BOOLEAN
    /\ pc \in PCs /\ (activeRun <=> pc # "idle")
    /\ ~activeRun => ~streaming /\ ~aborted

FlagsOK ==
    /\ skipPoll \in BOOLEAN /\ completed \in BOOLEAN /\ more \in BOOLEAN
    /\ explicit \in BOOLEAN /\ signalled \in BOOLEAN /\ contextOnly \in BOOLEAN

BatchOK ==
    /\ stop \in StopReasons /\ calls \in 0..MaxCalls /\ results \in Seq({ToolResult})

HistoryOK ==
    /\ used \in 0..MaxMsg
    /\ gone \subseteq Msg /\ lost \subseteq Msg /\ late \subseteq Msg
    /\ drains \in Nat /\ turns \in Nat /\ afterAbort \in Nat

\* Every variable keeps its type; a run is active exactly while the loop waits
\* somewhere, and an ended run leaves nothing streaming and no abort behind.
TypeOK == TranscriptOK /\ RunOK /\ FlagsOK /\ BatchOK /\ HistoryOK

\* How often message m is somewhere: waiting in a queue, taken by the run, in
\* the transcript, removed by the host or dropped by a failing run.
Occurrences(m) ==
    Count(steeringQueue, m) + Count(followUpQueue, m)
    + Count(prompts, m) + Count(pending, m) + Count(prepared, m)
    + Count(messages, User(m))
    + Cardinality({m} \cap gone) + Cardinality({m} \cap lost)

\* A message handed to prompt(), steer() or followUp() is never duplicated and
\* never disappears: whatever polls, drains, removals, aborts and failures
\* interleave, it is in exactly one place, and so said at most once.
ExactlyOnce == \A m \in Msg : Occurrences(m) = IF m <= used THEN 1 ELSE 0

\* The loop keeps its own copy of the transcript.  Whenever a request goes out
\* the two copies agree: nothing the listeners saw is missing from what the
\* provider sees, and no partial message of an earlier stream is left in it.
RequestSeesTranscript == pc = "stream" => context = messages

\* In one turn at most one steering poll returns messages, however many polls
\* the turn makes (agent-loop.ts 210-212: otherwise one-at-a-time mode would
\* deliver two messages in a turn).
OneSteeringDrainPerTurn == drains <= 1

\* A follow-up runs only after the agent would otherwise stop: when it leaves
\* its queue, any steering message still waiting came after the last poll.
FollowUpsYieldToSteering ==
    [][(\E m \in Elems(followUpQueue) : m \in Elems(pending') \cup Elems(prompts'))
       => Elems(steeringQueue) \subseteq late]_vars

\* A request whose context ends with an assistant message, which providers
\* reject, goes out only when finishTurn asked for a context-only turn; in
\* particular never after a tool batch that an abort cut short.
NoBareAssistantRequest ==
    pc = "stream" => context # <<>> /\ (LastRole(context) = "assistant" => contextOnly)

\* Once its signal is aborted a run starts at most one more request, however
\* much is queued and whatever the hooks decide.
AbortStopsRequests == afterAbort <= 1

\* An aborted run ends: Agent.abort() followed by waitForIdle() returns.
AbortSettles == aborted ~> ~activeRun
-----------------------------------------------------------------------------
(* The agent implements AgentPromise. *)

\* Where a message is, in the terms of AgentPromise.
PlaceOf(m) ==
    LET In(s) == \E i \in 1..Len(s) : s[i] = m IN
    CASE m > used -> "new"
      [] m \in gone \cup lost -> "dropped"
      [] In(steeringQueue) \/ In(followUpQueue) -> "waiting"
      [] In(prompts) \/ In(pending) \/ In(prepared) -> "taken"
      [] OTHER -> "said"

Said ==
    LET IsUser(e) == e.role = "user"
        users == SelectSeq(messages, IsUser)
    IN  [i \in 1..Len(users) |-> users[i].id]

Promise == INSTANCE AgentPromise WITH
    running <- activeRun,
    place   <- [m \in Msg |-> PlaceOf(m)],
    log     <- Said

\* Queues, polls, turns, tool batches, aborts and failures amount to what
\* AgentPromise allows: a message is said once, by the run that took it, and
\* a run that ends has said or, failing, dropped everything it took.
KeepsPromise == Promise!Spec
=============================================================================
