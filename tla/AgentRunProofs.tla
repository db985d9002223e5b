--------------------------- MODULE AgentRunProofs ---------------------------
(***************************************************************************)
(* Theorems about AgentRun, for any number of messages, tool calls and     *)
(* turns.                                                                  *)
(***************************************************************************)
EXTENDS AgentRun, SequenceTheorems, FiniteSetTheorems, TLAPS

USE MaxMsgAssumption, MaxCallsAssumption, MaxTurnsAssumption
-----------------------------------------------------------------------------
(* What the queue operations return. *)

\* Draining splits a queue: both parts are sequences of messages, and a queue
\* with messages gives at least one of them.
LEMMA QueueTypes ==
    ASSUME NEW S, NEW q \in Seq(S), NEW mode
    PROVE  /\ peek(q, mode) \in Seq(S) /\ drained(q, mode) \in Seq(S)
           /\ q # <<>> => peek(q, mode) # <<>>
<1>1. peek(q, mode) \in Seq(S)
  BY DEF peek
<1>2. drained(q, mode) \in Seq(S)
  <2>1. Len(peek(q, mode)) \in Nat
    BY <1>1
  <2>. QED  BY <2>1, SubSeqProperties, LenProperties, ElementOfSeq DEF drained
<1>3. ASSUME q # <<>> PROVE peek(q, mode) # <<>>
  <2>1. CASE mode = "all"
    BY Zenon, <2>1, <1>3 DEF peek
  <2>2. CASE mode # "all"
    <3>1. Len(q) >= 1
      BY <1>3, EmptySeq
    <3>2. Len(SubSeq(q, 1, 1)) = 1
      BY <3>1, SubSeqProperties, ElementOfSeq
    <3>. QED  BY <3>2, <2>2, <1>3 DEF peek
  <2>. QED  BY Zenon, <2>1, <2>2
<1>. QED  BY Zenon, <1>1, <1>2, <1>3

LEMMA RemoveAtType ==
    ASSUME NEW S, NEW q \in Seq(S), NEW i \in 1..Len(q)
    PROVE  removeAt(q, i) \in Seq(S)
<1>1. SubSeq(q, 1, i - 1) \in Seq(S)
  BY SubSeqProperties, ElementOfSeq, LenProperties
<1>2. SubSeq(q, i + 1, Len(q)) \in Seq(S)
  BY SubSeqProperties, ElementOfSeq, LenProperties
<1>. QED  BY Zenon, <1>1, <1>2, ConcatProperties DEF removeAt

LEMMA ElemsType ==
    ASSUME NEW S, NEW q \in Seq(S)
    PROVE  Elems(q) \subseteq S
BY Zenon, ElementOfSeq DEF Elems

\* The transcript entries of a sequence of messages.
LEMMA UserSeqProperties ==
    ASSUME NEW ms \in Seq(Msg)
    PROVE  /\ UserSeq(ms) \in Seq(Entries) /\ Len(UserSeq(ms)) = Len(ms)
           /\ \A i \in 1..Len(ms) : UserSeq(ms)[i] = User(ms[i])
<1>1. Len(ms) \in Nat /\ \A i \in 1..Len(ms) : User(ms[i]) \in Entries
  BY Zenon, ElementOfSeq, LenProperties DEF Entries
<1>2. UserSeq(ms) \in [1..Len(ms) -> Entries]
  BY Zenon, <1>1 DEF UserSeq
<1>3. UserSeq(ms) \in Seq(Entries)
  BY Zenon, <1>1, <1>2, SeqDef
<1>4. DOMAIN UserSeq(ms) = 1..Len(ms)
  BY Zenon DEF UserSeq
<1>5. Len(UserSeq(ms)) = Len(ms)
  BY <1>1, <1>3, <1>4, LenProperties
<1>. QED  BY Zenon, <1>3, <1>5 DEF UserSeq
-----------------------------------------------------------------------------
(* Type correctness *)

LEMMA NewMessageType ==
    ASSUME NEW m, NewMessage(m)
    PROVE  used' \in 0..MaxMsg
BY DEF NewMessage, Msg

LEMMA StartRunType ==
    ASSUME NEW initial \in Seq(Msg), NEW skip, messages \in Seq(Entries),
           StartRun(initial, skip)
    PROVE  context' \in Seq(Entries) /\ prompts' \in Seq(Msg)
BY SMTT(60), UserSeqProperties, ConcatProperties DEF StartRun

\* No step of the loop, the host or a failure takes a variable out of its
\* type, and a run is active exactly while the loop waits somewhere.
LEMMA TypeStep == TypeOK /\ [Next]_vars => TypeOK'
<1>. SUFFICES ASSUME TypeOK, [Next]_vars PROVE TypeOK'
  BY Zenon
<1>0. <<>> \in Seq(Msg) /\ <<>> \in Seq(Entries) /\ <<>> \in Seq({ToolResult})
  OBVIOUS
<1>. USE <1>0 DEF TypeOK, TranscriptOK, RunOK, FlagsOK, BatchOK, HistoryOK, PCs
<1>1. CASE EmitPrompt
  <2>1. CASE prompts = <<>>
    BY Zenon, <1>1, <2>1 DEF EmitPrompt, queues, modes, loop, history
  <2>2. CASE prompts # <<>>
    <3>1. Head(prompts) \in Msg /\ Tail(prompts) \in Seq(Msg)
      BY Zenon, <2>2, HeadTailProperties
    <3>2. Append(messages, User(Head(prompts))) \in Seq(Entries)
      BY Zenon, <3>1, AppendProperties DEF Entries
    <3>. QED  BY ZenonT(60), <1>1, <2>2, <3>1, <3>2 DEF EmitPrompt, queues, modes, loop, history
  <2>. QED  BY Zenon, <2>1, <2>2
<1>2. CASE InitialPoll
  <2>1. /\ peek(steeringQueue, steeringMode) \in Seq(Msg)
        /\ drained(steeringQueue, steeringMode) \in Seq(Msg)
    BY Zenon, QueueTypes
  <2>2. pending' \in Seq(Msg) /\ steeringQueue' \in Seq(Msg)
    BY Zenon, <1>2, <2>1 DEF InitialPoll, PollSteering
  <2>3. skipPoll' \in BOOLEAN
    BY Zenon, <1>2 DEF InitialPoll, PollSteering
  <2>4. drains' \in Nat /\ late' \subseteq Msg
    BY <1>2 DEF InitialPoll, PollSteering
  <2>. QED  BY Zenon, <1>2, <2>2, <2>3, <2>4 DEF InitialPoll, PollSteering, queues, modes, loop, history
<1>3. CASE PrepareNextTurn
  <2>1. prepared' \in Seq(Msg)
    <3>1. \A m \in Msg : <<m>> \in Seq(Msg)
      OBVIOUS
    <3>. QED  BY Zenon, <1>3, <3>1 DEF PrepareNextTurn
  <2>2. used' \in 0..MaxMsg
    BY Zenon, <1>3, NewMessageType DEF PrepareNextTurn
  <2>3. context' \in Seq(Entries) /\ pc' \in {"repoll", "push"} /\ pc = "turn"
    BY Zenon, <1>3 DEF PrepareNextTurn
  <2>. QED  BY <1>3, <2>1, <2>2, <2>3 DEF PrepareNextTurn, queues, modes, loop, history
<1>4. CASE Repoll
  <2>1. /\ peek(steeringQueue, steeringMode) \in Seq(Msg)
        /\ drained(steeringQueue, steeringMode) \in Seq(Msg)
    BY Zenon, QueueTypes
  <2>2. pending' \in Seq(Msg) /\ steeringQueue' \in Seq(Msg)
    BY Zenon, <1>4, <2>1 DEF Repoll, PollSteering, PollAgain, queues, modes, loop, history
  <2>3. skipPoll' \in BOOLEAN
    BY Zenon, <1>4 DEF Repoll, PollSteering, PollAgain, queues, modes, loop, history
  <2>4. drains' \in Nat /\ late' \subseteq Msg
    BY SMTT(60), <1>4 DEF Repoll, PollSteering, PollAgain, queues, modes, loop, history
  <2>. QED  BY ZenonT(60), <1>4, <2>2, <2>3, <2>4 DEF Repoll, PollSteering, PollAgain, queues, modes, loop, history
<1>5. CASE PushMessage
  <2>1. CASE prepared # <<>>
    <3>1. Head(prepared) \in Msg /\ Tail(prepared) \in Seq(Msg)
      BY Zenon, <2>1, HeadTailProperties
    <3>2. User(Head(prepared)) \in Entries
      BY SMTT(60), <3>1 DEF Entries
    <3>3. messages' \in Seq(Entries) /\ context' \in Seq(Entries)
      BY Zenon, <1>5, <2>1, <3>2, AppendProperties DEF PushMessage
    <3>. QED  BY Zenon, <1>5, <2>1, <3>1, <3>3 DEF PushMessage, queues, modes, loop, history
  <2>2. CASE prepared = <<>>
    <3>1. pending # <<>>
      BY Zenon, <1>5, <2>2 DEF PushMessage
    <3>2. Head(pending) \in Msg /\ Tail(pending) \in Seq(Msg)
      BY Zenon, <3>1, HeadTailProperties
    <3>3. User(Head(pending)) \in Entries
      BY SMTT(60), <3>2 DEF Entries
    <3>4. messages' \in Seq(Entries) /\ context' \in Seq(Entries)
      BY Zenon, <1>5, <2>2, <3>3, AppendProperties DEF PushMessage
    <3>. QED  BY ZenonT(60), <1>5, <2>2, <3>2, <3>4 DEF PushMessage, queues, modes, loop, history
  <2>. QED  BY Zenon, <2>1, <2>2
<1>6. CASE PrepareRequest
  BY <1>6
  DEF PrepareRequest, queues, modes, loop, history
<1>7. CASE StartRequest
  BY <1>7
  DEF StartRequest, queues, modes, loop, history
<1>8. CASE StreamPartial
  BY Zenon, <1>8, AppendProperties
  DEF StreamPartial, Entries, queues, modes, loop, history
<1>9. CASE StreamEnd
  <2>1. Assistant \in Entries
    BY Zenon DEF Entries
  <2>2. Append(messages, Assistant) \in Seq(Entries) /\ Append(context, Assistant) \in Seq(Entries)
    BY Zenon, <2>1, AppendProperties
  <2>3. SubSeq(context, 1, Len(context) - 1) \in Seq(Entries)
    BY SubSeqProperties, ElementOfSeq, LenProperties
  <2>4. replaceLast(context, Assistant) \in Seq(Entries)
    BY Zenon, <2>1, <2>3, AppendProperties DEF replaceLast
  <2>5. context' \in Seq(Entries) /\ messages' \in Seq(Entries)
    BY Zenon, <1>9, <2>2, <2>3, <2>4 DEF StreamEnd
  <2>6. stop' \in StopReasons /\ calls' \in 0..MaxCalls /\ pc' \in {"tools", "finishTurn"}
    BY Zenon, <1>9 DEF StreamEnd
  <2>7. results' \in Seq({ToolResult}) /\ pc # "idle" /\ activeRun' = activeRun
    BY Zenon, <1>9 DEF StreamEnd
  <2>11. TranscriptOK'
    BY Zenon, <1>9, <2>5, <2>6, <2>7
    DEF StreamEnd, queues, modes, loop, history
  <2>8. streaming' = FALSE /\ aborted' = aborted
    BY Zenon, <1>9 DEF StreamEnd
  <2>12. RunOK'
    BY Zenon, <2>6, <2>7, <2>8
  <2>13. FlagsOK'
    BY ZenonT(60), <1>9, <2>5, <2>6, <2>7
    DEF StreamEnd, queues, modes, loop, history
  <2>15. BatchOK'
    BY Zenon, <1>9, <2>5, <2>6, <2>7
    DEF StreamEnd, queues, modes, loop, history
  <2>14. HistoryOK'
    BY Zenon, <1>9, <2>5, <2>6, <2>7
    DEF StreamEnd, queues, modes, loop, history
  <2>. QED  BY Zenon, <2>11, <2>12, <2>13, <2>14, <2>15
<1>10. CASE EmitToolResult
  BY <1>10, AppendProperties
  DEF EmitToolResult, AddToolResult, Entries, queues, modes, loop, history
<1>11. CASE EndBatch
  <2>1. results \in Seq(Entries)
    BY Zenon, SeqMonotonic DEF Entries
  <2>2. context \o results \in Seq(Entries)
    BY Zenon, <2>1, ConcatProperties
  <2>3. more' \in BOOLEAN
    BY Zenon, <1>11 DEF EndBatch, CloseBatch
  <2>. QED  BY Zenon, <1>11, <2>2, <2>3 DEF EndBatch, CloseBatch, queues, modes, loop, history
<1>12. CASE FinishTurn
  <2>1. pc' \in {"ending", "steeringPoll"} /\ explicit' \in BOOLEAN
    BY Zenon, <1>12 DEF FinishTurn, DecideTurn
  <2>2. stop' \in StopReasons /\ calls' \in 0..MaxCalls /\ results' \in Seq({ToolResult})
    BY <1>12 DEF FinishTurn, DecideTurn, StopReasons
  <2>. QED  BY Zenon, <1>12, <2>1, <2>2 DEF FinishTurn, DecideTurn, queues, modes, loop, history
<1>13. CASE SteeringPoll
  <2>1. /\ peek(steeringQueue, steeringMode) \in Seq(Msg)
        /\ drained(steeringQueue, steeringMode) \in Seq(Msg)
    BY Zenon, QueueTypes
  <2>2. pending' \in Seq(Msg) /\ steeringQueue' \in Seq(Msg)
    BY Zenon, <1>13, <2>1 DEF SteeringPoll, PollSteering
  <2>3. skipPoll' \in BOOLEAN
    BY Zenon, <1>13 DEF SteeringPoll, PollSteering
  <2>4. drains' \in Nat /\ late' \subseteq Msg
    BY <1>13 DEF SteeringPoll, PollSteering
  <2>. QED  BY Zenon, <1>13, <2>2, <2>3, <2>4 DEF SteeringPoll, PollSteering, queues, modes, loop, history
<1>14. CASE FollowUpPoll
  <2>1. /\ peek(followUpQueue, followUpMode) \in Seq(Msg)
        /\ drained(followUpQueue, followUpMode) \in Seq(Msg)
    BY Zenon, QueueTypes
  <2>2. contextOnly' \in BOOLEAN /\ more' \in BOOLEAN /\ pc' \in {"turn", "ending"}
    BY Zenon, <1>14 DEF FollowUpPoll
  <2>. QED  BY Zenon, <1>14, <2>1, <2>2 DEF FollowUpPoll, queues, modes, loop, history
<1>15. CASE EndRun
  BY Zenon, <1>15
  DEF EndRun, queues, modes, loop, history
<1>16. CASE handleRunFailure
  <2>1. Append(messages, Assistant) \in Seq(Entries)
    BY Zenon, AppendProperties DEF Entries
  <2>2. messages' \in Seq(Entries) /\ streaming' \in BOOLEAN
    BY Zenon, <1>16, <2>1 DEF handleRunFailure
  <2>. QED  BY Zenon, <1>16, <2>2 DEF handleRunFailure, queues, modes, loop, history
<1>17. CASE finishRun
  <2>1. <<>> \in Seq(Msg) /\ <<>> \in Seq(Entries) /\ <<>> \in Seq({ToolResult})
    BY Zenon
  <2>11. TranscriptOK'
    BY Zenon, <1>17, <2>1
    DEF finishRun, LeaveLoop, StopReasons, queues, modes, loop, history
  <2>12. RunOK'
    BY Zenon, <1>17, <2>1
    DEF finishRun, LeaveLoop, StopReasons, queues, modes, loop, history
  <2>13. FlagsOK'
    BY Zenon, <1>17, <2>1
    DEF finishRun, LeaveLoop, StopReasons, queues, modes, loop, history
  <2>15. BatchOK'
    BY <1>17, <2>1
    DEF finishRun, LeaveLoop, StopReasons, queues, modes, loop, history
  <2>14. HistoryOK'
    BY Zenon, <1>17, <2>1
    DEF finishRun, LeaveLoop, StopReasons, queues, modes, loop, history
  <2>. QED  BY Zenon, <2>11, <2>12, <2>13, <2>14, <2>15
<1>18. CASE Fail
  BY SMTT(60), <1>18, ElemsType
  DEF Fail, Running, queues, modes, loop, history
<1>19. ASSUME NEW m \in Msg, steer(m) PROVE TypeOK'
  BY SMTT(60), <1>19, AppendProperties, NewMessageType
  DEF steer, queues, modes, loop, history
<1>20. ASSUME NEW m \in Msg, followUp(m) PROVE TypeOK'
  BY SMTT(60), <1>20, AppendProperties, NewMessageType
  DEF followUp, queues, modes, loop, history
<1>21. ASSUME NEW m \in Msg, prompt(m) PROVE TypeOK'
  <2>1. <<m>> \in Seq(Msg)
    BY <1>21
  <2>2. used' \in 0..MaxMsg
    BY Zenon, <1>21, NewMessageType DEF prompt
  <2>8. context' \in Seq(Entries) /\ prompts' \in Seq(Msg)
    BY Zenon, <1>21, <2>1, StartRunType DEF prompt
  <2>11. TranscriptOK'
    BY Zenon, <1>21, <2>2, <2>8
    DEF prompt, StartRun, queues, modes, loop, history
  <2>12. RunOK'
    BY Zenon, <1>21, <2>2, <2>8
    DEF prompt, StartRun, queues, modes, loop, history
  <2>13. FlagsOK'
    BY Zenon, <1>21, <2>2, <2>8
    DEF prompt, StartRun, queues, modes, loop, history
  <2>15. BatchOK'
    BY SMTT(60), <1>21, <2>2, <2>8
    DEF prompt, StartRun, queues, modes, loop, history
  <2>14. HistoryOK'
    BY SMTT(60), <1>21, <2>2, <2>8
    DEF prompt, StartRun, queues, modes, loop, history
  <2>. QED  BY Zenon, <2>11, <2>12, <2>13, <2>14, <2>15
<1>22. ASSUME NEW s \in Modes, NEW f \in Modes, SetModes(s, f) PROVE TypeOK'
  BY <1>22
  DEF SetModes, queues, modes, loop, history
<1>23. CASE clearSteeringQueue
  BY SMTT(60), <1>23, ElemsType
  DEF clearSteeringQueue, queues, modes, loop, history
<1>24. CASE clearFollowUpQueue
  BY SMTT(60), <1>24, ElemsType
  DEF clearFollowUpQueue, queues, modes, loop, history
<1>25. ASSUME NEW i \in 1..Len(steeringQueue), removeSteeringAt(i) PROVE TypeOK'
  BY SMTT(60), <1>25, RemoveAtType, ElementOfSeq
  DEF removeSteeringAt, queues, modes, loop, history
<1>26. ASSUME NEW i \in 1..Len(followUpQueue), removeFollowUpAt(i) PROVE TypeOK'
  BY SMTT(60), <1>26, RemoveAtType, ElementOfSeq
  DEF removeFollowUpAt, queues, modes, loop, history
<1>27. CASE abort
  BY SMTT(60), <1>27
  DEF abort, queues, modes, loop, history
<1>28. CASE reset
  <2>1. Elems(steeringQueue) \subseteq Msg /\ Elems(followUpQueue) \subseteq Msg
    BY Zenon, ElemsType
  <2>2. gone' \subseteq Msg
    BY Zenon, <1>28, <2>1 DEF reset
  <2>. QED  BY Zenon, <1>28, <2>2 DEF reset, queues, modes, loop, history
<1>29. CASE continueFromQueue
  <2>1. /\ peek(steeringQueue, steeringMode) \in Seq(Msg)
        /\ drained(steeringQueue, steeringMode) \in Seq(Msg)
        /\ peek(followUpQueue, followUpMode) \in Seq(Msg)
        /\ drained(followUpQueue, followUpMode) \in Seq(Msg)
    BY Zenon, QueueTypes
  <2>2. context' \in Seq(Entries) /\ prompts' \in Seq(Msg)
    BY Zenon, <1>29, <2>1, StartRunType DEF continueFromQueue
  <2>3. steeringQueue' \in Seq(Msg) /\ followUpQueue' \in Seq(Msg)
    BY Zenon, <1>29, <2>1 DEF continueFromQueue
  <2>4. (drains' = 0 \/ drains' = 1) /\ late' = {} /\ UNCHANGED used
    BY Zenon, <1>29 DEF continueFromQueue
  <2>6. drains' \in Nat
    BY SMTT(60), <2>4
  <2>5. skipPoll' \in BOOLEAN
    BY ZenonT(60), <1>29 DEF continueFromQueue, StartRun
  <2>7. /\ activeRun' = TRUE /\ aborted' = FALSE /\ streaming' = FALSE
        /\ pending' = <<>> /\ prepared' = <<>> /\ completed' = FALSE
        /\ explicit' = FALSE /\ more' = TRUE /\ results' = <<>> /\ calls' = 0
        /\ pc' = "prompts" /\ signalled' = FALSE /\ afterAbort' = 0
        /\ contextOnly' = FALSE
        /\ UNCHANGED <<messages, stop, modes, gone, lost, turns>>
    BY SMTT(60), <1>29 DEF continueFromQueue, StartRun
  <2>11. TranscriptOK'
    BY SMTT(60), <2>2, <2>3, <2>4, <2>5, <2>7
    DEF modes
  <2>12. RunOK'
    BY Zenon, <2>2, <2>3, <2>4, <2>5, <2>7
    DEF modes
  <2>13. FlagsOK'
    BY ZenonT(60), <2>2, <2>3, <2>4, <2>5, <2>7
    DEF modes
  <2>15. BatchOK'
    BY SMTT(60), <2>2, <2>3, <2>4, <2>5, <2>7
    DEF modes
  <2>14. HistoryOK'
    BY SMTT(60), <2>2, <2>3, <2>4, <2>5, <2>6, <2>7
    DEF modes
  <2>. QED  BY Zenon, <2>11, <2>12, <2>13, <2>14, <2>15
<1>30. CASE continueFromTranscript
  <2>1. <<>> \in Seq(Msg)
    BY Zenon
  <2>8. context' \in Seq(Entries) /\ prompts' \in Seq(Msg)
    BY ZenonT(60), <1>30, <2>1, StartRunType DEF continueFromTranscript
  <2>11. TranscriptOK'
    BY SMTT(60), <1>30, <2>1, <2>8
    DEF continueFromTranscript, StartRun, queues, modes, loop, history
  <2>12. RunOK'
    BY Zenon, <1>30, <2>1, <2>8
    DEF continueFromTranscript, StartRun, queues, modes, loop, history
  <2>13. FlagsOK'
    BY ZenonT(60), <1>30, <2>1, <2>8
    DEF continueFromTranscript, StartRun, queues, modes, loop, history
  <2>15. BatchOK'
    BY SMTT(60), <1>30, <2>1, <2>8
    DEF continueFromTranscript, StartRun, queues, modes, loop, history
  <2>14. HistoryOK'
    BY SMTT(60), <1>30, <2>1, <2>8
    DEF continueFromTranscript, StartRun, queues, modes, loop, history
  <2>. QED  BY Zenon, <2>11, <2>12, <2>13, <2>14, <2>15
<1>31. CASE UNCHANGED vars
  BY <1>31 DEF vars, queues, modes, loop, history
<1>. QED
  BY ZenonT(60), <1>1, <1>2, <1>3, <1>4, <1>5, <1>6, <1>7, <1>8, <1>9, <1>10, <1>11, <1>12, <1>13, <1>14, <1>15, <1>16, <1>17, <1>18, <1>19, <1>20, <1>21, <1>22, <1>23, <1>24, <1>25, <1>26, <1>27, <1>28, <1>29, <1>30, <1>31
  DEF Next, LoopStep, Converse, Manage

\* Every reachable state of the agent is well typed: whatever the host, the
\* provider, the tools and the hooks do, and however often a run fails.
THEOREM TypeCorrect == Spec => []TypeOK
<1>1. Init => TypeOK
  <2>. SUFFICES ASSUME Init PROVE TypeOK
    BY Zenon
  <2>1. TranscriptOK
    BY DEF Init, TranscriptOK
  <2>2. RunOK
    BY Zenon DEF Init, RunOK, PCs
  <2>3. FlagsOK
    BY Zenon DEF Init, FlagsOK
  <2>6. BatchOK
    BY DEF Init, BatchOK, StopReasons
  <2>5. HistoryOK
    BY DEF Init, HistoryOK
  <2>. QED  BY Zenon, <2>1, <2>2, <2>3, <2>5, <2>6 DEF TypeOK
<1>. QED  BY <1>1, TypeStep, PTL DEF Spec
-----------------------------------------------------------------------------
(* The two copies of the transcript *)

\* How the loop's context and the agent's transcript are related at each wait.
\* RequestSeesTranscript is the case pc = "stream" and is not inductive alone:
\* initial messages enter the context first, tool results the transcript first,
\* and a partial message only the context.
ContextInv ==
    /\ pc = "prompts" => context = messages \o UserSeq(prompts)
    /\ pc \in {"initialPoll", "turn", "repoll", "push", "request", "stream",
               "finishTurn", "steeringPoll", "followUpPoll"} => context = messages
    /\ pc = "partial" => context = Append(messages, Partial)
    /\ pc = "tools" => messages = context \o results

\* Emitting an initial message moves it from the rest to the transcript.
LEMMA UserSeqStep ==
    ASSUME NEW s \in Seq(Entries), NEW ms \in Seq(Msg), ms # <<>>
    PROVE  Append(s, User(Head(ms))) \o UserSeq(Tail(ms)) = s \o UserSeq(ms)
<1>1. Head(ms) \in Msg /\ Tail(ms) \in Seq(Msg) /\ Len(Tail(ms)) = Len(ms) - 1
      /\ \A i \in 1..Len(Tail(ms)) : Tail(ms)[i] = ms[i + 1]
  BY Zenon, HeadTailProperties
<1>2. Len(ms) \in Nat \ {0} /\ Len(s) \in Nat /\ Head(ms) = ms[1]
  BY EmptySeq, LenProperties
<1>3. User(Head(ms)) \in Entries
  BY Zenon, <1>1 DEF Entries
<1> DEFINE a == Append(s, User(Head(ms)))
           t == UserSeq(Tail(ms))
           u == UserSeq(ms)
<1>4. /\ a \in Seq(Entries) /\ Len(a) = Len(s) + 1
      /\ \A i \in 1..Len(s) : a[i] = s[i]
      /\ a[Len(s) + 1] = User(Head(ms))
  BY SMTT(60), <1>3, AppendProperties
<1>5. /\ t \in Seq(Entries) /\ Len(t) = Len(ms) - 1
      /\ \A i \in 1..Len(ms) - 1 : t[i] = User(ms[i + 1])
  BY ZenonT(60), <1>1, UserSeqProperties
<1>6. /\ u \in Seq(Entries) /\ Len(u) = Len(ms)
      /\ \A i \in 1..Len(ms) : u[i] = User(ms[i])
  BY Zenon, UserSeqProperties
<1> HIDE DEF a, t, u
<1>7. /\ a \o t \in Seq(Entries) /\ Len(a \o t) = Len(a) + Len(t)
      /\ \A i \in 1..Len(a) + Len(t) :
            (a \o t)[i] = IF i <= Len(a) THEN a[i] ELSE t[i - Len(a)]
  BY Zenon, <1>4, <1>5, ConcatProperties
<1>8. /\ s \o u \in Seq(Entries) /\ Len(s \o u) = Len(s) + Len(u)
      /\ \A i \in 1..Len(s) + Len(u) :
            (s \o u)[i] = IF i <= Len(s) THEN s[i] ELSE u[i - Len(s)]
  BY ZenonT(60), <1>6, ConcatProperties
<1>9. Len(a \o t) = Len(s) + Len(ms) /\ Len(s \o u) = Len(s) + Len(ms)
  BY <1>2, <1>4, <1>5, <1>6, <1>7, <1>8
<1>10. ASSUME NEW i \in 1..Len(s) + Len(ms) PROVE (a \o t)[i] = (s \o u)[i]
  <2>1. CASE i <= Len(s)
    BY SMTT(60), <2>1, <1>2, <1>4, <1>5, <1>6, <1>7, <1>8
  <2>2. CASE i = Len(s) + 1
    <3>1. (a \o t)[i] = User(ms[1])
      BY <2>2, <1>2, <1>4, <1>5, <1>7
    <3>2. i - Len(s) = 1 /\ (s \o u)[i] = u[1]
      BY <2>2, <1>2, <1>6, <1>8
    <3>. QED  BY <3>1, <3>2, <1>2, <1>6
  <2>3. CASE i > Len(s) + 1
    <3>1. i - Len(a) \in 1..Len(ms) - 1 /\ (i - Len(a)) + 1 = i - Len(s)
      BY <2>3, <1>2, <1>4
    <3>2. (a \o t)[i] = t[i - Len(a)]
      BY <2>3, <1>2, <1>4, <1>5, <1>7
    <3>3. (s \o u)[i] = u[i - Len(s)]
      BY <2>3, <1>2, <1>6, <1>8
    <3>4. i - Len(s) \in 1..Len(ms)
      BY <2>3, <1>2
    <3>. QED  BY Zenon, <3>1, <3>2, <3>3, <3>4, <1>5, <1>6
  <2>4. i \in Nat /\ Len(s) \in Nat
    BY <1>2
  <2>5. i <= Len(s) \/ i = Len(s) + 1 \/ i > Len(s) + 1
    BY <2>4
  <2>. QED  BY Zenon, <2>1, <2>2, <2>3, <2>5
<1>11. a \o t = s \o u
  BY SMTT(60), <1>7, <1>8, <1>9, <1>10, SeqEqual
<1>. QED  BY Zenon, <1>11 DEF a, t, u

LEMMA UserSeqEmpty == UserSeq(<<>>) = <<>>
<1>1. <<>> \in Seq(Msg) /\ Len(<<>>) = 0
  OBVIOUS
<1>2. UserSeq(<<>>) \in Seq(Entries) /\ Len(UserSeq(<<>>)) = 0
  BY ZenonT(60), <1>1, UserSeqProperties
<1>. QED  BY Zenon, <1>2, EmptySeq

\* The final message of a stream takes the place of the partial one.
LEMMA ReplacePartial ==
    ASSUME NEW s \in Seq(Entries)
    PROVE  replaceLast(Append(s, Partial), Assistant) = Append(s, Assistant)
<1>1. Partial \in Entries /\ Assistant \in Entries
  BY Zenon DEF Entries
<1>2. /\ Append(s, Partial) \in Seq(Entries) /\ Len(Append(s, Partial)) = Len(s) + 1
      /\ \A i \in 1..Len(s) : Append(s, Partial)[i] = s[i]
  BY <1>1, AppendProperties
<1>3. Len(s) \in Nat
  BY Zenon, LenProperties
<1>4. (Len(s) + 1) - 1 = Len(s)
  BY <1>3
<1>5. \A i \in 1..Len(s) : s[i] \in Entries
  BY Zenon, ElementOfSeq
<1>6. SubSeq(Append(s, Partial), 1, Len(s)) = s
  <2>1. \A i \in 1..Len(s) : Append(s, Partial)[i] \in Entries
    BY Zenon, <1>2, <1>5
  <2>2. /\ SubSeq(Append(s, Partial), 1, Len(s)) \in Seq(Entries)
        /\ Len(SubSeq(Append(s, Partial), 1, Len(s))) = IF 1 <= Len(s) THEN Len(s) - 1 + 1 ELSE 0
        /\ \A i \in 1..Len(s) - 1 + 1 :
              SubSeq(Append(s, Partial), 1, Len(s))[i] = Append(s, Partial)[1 + i - 1]
    BY <2>1, <1>3, SubSeqProperties
  <2>3. Len(SubSeq(Append(s, Partial), 1, Len(s))) = Len(s)
    BY <2>2, <1>3
  <2>4. \A i \in 1..Len(s) : SubSeq(Append(s, Partial), 1, Len(s))[i] = s[i]
    <3>. TAKE i \in 1..Len(s)
    <3>1. i \in 1..Len(s) - 1 + 1 /\ 1 + i - 1 = i
      BY <1>3
    <3>. QED  BY Zenon, <3>1, <2>2, <1>2
  <2>. QED  BY Zenon, <2>2, <2>3, <2>4, SeqEqual
<1>. QED  BY Zenon, <1>2, <1>4, <1>6 DEF replaceLast

LEMMA AppendConcat ==
    ASSUME NEW s \in Seq(Entries), NEW t \in Seq(Entries), NEW e \in Entries
    PROVE  Append(s \o t, e) = s \o Append(t, e)
<1>1. <<e>> \in Seq(Entries) /\ s \o t \in Seq(Entries)
  BY ConcatProperties
<1>2. Append(s \o t, e) = (s \o t) \o <<e>> /\ Append(t, e) = t \o <<e>>
  BY Zenon, <1>1, AppendIsConcat
<1>. QED  BY <1>1, <1>2, ConcatAssociative
-----------------------------------------------------------------------------
(* The host's calls, by what they do to a run *)

\* Calls that change only the queues, their modes and the abort signal.
QueueCall ==
    \/ \E m \in Msg : steer(m) \/ followUp(m)
    \/ abort
    \/ \E s, f \in Modes : SetModes(s, f)
    \/ clearSteeringQueue \/ clearFollowUpQueue
    \/ \E i \in 1..Len(steeringQueue) : removeSteeringAt(i)
    \/ \E i \in 1..Len(followUpQueue) : removeFollowUpAt(i)

StartCall == (\E m \in Msg : prompt(m)) \/ continueFromQueue \/ continueFromTranscript

LEMMA HostCalls == Converse \/ Manage => QueueCall \/ StartCall \/ reset
BY SMTT(60) DEF Converse, Manage, QueueCall, StartCall

\* A run in progress does not notice them.
LEMMA QueueCallFrame ==
    ASSUME QueueCall
    PROVE  UNCHANGED <<pc, context, messages, prompts, results, pending, prepared, completed,
                       skipPoll, stop, signalled, drains, afterAbort, more, calls, contextOnly>>
<1>1. ASSUME NEW m \in Msg, steer(m) \/ followUp(m)
      PROVE  UNCHANGED <<pc, context, messages, loop, drains, afterAbort, contextOnly>>
  BY Zenon, <1>1 DEF steer, followUp
<1>2. CASE abort
  BY Zenon, <1>2 DEF abort, loop, history
<1>3. ASSUME NEW s \in Modes, NEW f \in Modes, SetModes(s, f)
      PROVE  UNCHANGED <<pc, context, messages, loop, drains, afterAbort, contextOnly>>
  BY Zenon, <1>3 DEF SetModes, history
<1>4. CASE clearSteeringQueue \/ clearFollowUpQueue
  BY Zenon, <1>4 DEF clearSteeringQueue, clearFollowUpQueue, loop
<1>5. ASSUME NEW i \in 1..Len(steeringQueue), removeSteeringAt(i)
      PROVE  UNCHANGED <<pc, context, messages, loop, drains, afterAbort, contextOnly>>
  BY Zenon, <1>5 DEF removeSteeringAt
<1>6. ASSUME NEW i \in 1..Len(followUpQueue), removeFollowUpAt(i)
      PROVE  UNCHANGED <<pc, context, messages, loop, drains, afterAbort, contextOnly>>
  BY Zenon, <1>6 DEF removeFollowUpAt
<1>. QED  BY Zenon, <1>1, <1>2, <1>3, <1>4, <1>5, <1>6 DEF QueueCall, loop

\* A started run holds its initial messages in the context, not yet in the
\* transcript; a drain that started it is the one whose poll is skipped.
LEMMA StartCallEffect ==
    ASSUME StartCall
    PROVE  /\ pc' = "prompts" /\ messages' = messages
           /\ context' = messages \o UserSeq(prompts')
           /\ afterAbort' = 0 /\ completed' = FALSE /\ pending' = <<>> /\ prepared' = <<>>
           /\ drains' \in {0, 1} /\ (drains' = 1 => skipPoll')
<1>1. CASE \E m \in Msg : prompt(m)
  BY <1>1 DEF prompt, StartRun
<1>2. CASE continueFromQueue
  <2>1. /\ pc' = "prompts" /\ messages' = messages
        /\ context' = messages \o UserSeq(prompts')
        /\ afterAbort' = 0 /\ completed' = FALSE /\ pending' = <<>> /\ prepared' = <<>>
    BY SMTT(60), <1>2 DEF continueFromQueue, StartRun
  <2>2. drains' \in {0, 1} /\ (drains' = 1 => skipPoll')
    BY <1>2 DEF continueFromQueue, StartRun
  <2>. QED  BY Zenon, <2>1, <2>2
<1>3. CASE continueFromTranscript
  BY SMTT(60), <1>3 DEF continueFromTranscript, StartRun
<1>. QED  BY Zenon, <1>1, <1>2, <1>3 DEF StartCall
-----------------------------------------------------------------------------
(* The theorem on the two copies of the transcript *)

LEMMA ContextStep == TypeOK /\ ContextInv /\ [Next]_vars => ContextInv'
<1>. SUFFICES ASSUME TypeOK, ContextInv, [Next]_vars PROVE ContextInv'
  BY Zenon
<1>. USE DEF ContextInv
<1>0. /\ messages \in Seq(Entries) /\ context \in Seq(Entries) /\ prompts \in Seq(Msg)
      /\ results \in Seq({ToolResult}) /\ (activeRun <=> pc # "idle")
  BY Zenon DEF TypeOK, TranscriptOK, RunOK, BatchOK
<1>1. CASE EmitPrompt
  <2>1. CASE prompts = <<>>
    <3>1. messages \o UserSeq(prompts) = messages
      BY Zenon, <2>1, <1>0, UserSeqEmpty, ConcatEmptySeq
    <3>. QED  BY Zenon, <1>1, <2>1, <3>1 DEF EmitPrompt
  <2>2. CASE prompts # <<>>
    <3>1. messages' \o UserSeq(prompts') = messages \o UserSeq(prompts)
      BY Zenon, <1>1, <2>2, <1>0, UserSeqStep DEF EmitPrompt
    <3>. QED  BY Zenon, <1>1, <2>2, <3>1 DEF EmitPrompt
  <2>. QED  BY Zenon, <2>1, <2>2
<1>2. CASE InitialPoll
  BY Zenon, <1>2 DEF InitialPoll, PollSteering
<1>3. CASE PrepareNextTurn
  BY Zenon, <1>3 DEF PrepareNextTurn
<1>4. CASE Repoll
  BY Zenon, <1>4 DEF Repoll, PollAgain, PollSteering
<1>5. CASE PushMessage
  BY Zenon, <1>5 DEF PushMessage
<1>6. CASE PrepareRequest
  BY Zenon, <1>6 DEF PrepareRequest
<1>7. CASE StartRequest
  BY Zenon, <1>7 DEF StartRequest
<1>8. CASE StreamPartial
  BY Zenon, <1>8 DEF StreamPartial
<1>9. CASE StreamEnd
  <2>1. context' = Append(messages, Assistant)
    BY Zenon, <1>9, <1>0, ReplacePartial DEF StreamEnd
  <2>2. messages' = Append(messages, Assistant) /\ results' = <<>>
        /\ pc' \in {"tools", "finishTurn"}
    BY Zenon, <1>9 DEF StreamEnd
  <2>3. Append(messages, Assistant) \o <<>> = Append(messages, Assistant)
    BY <1>0, AppendProperties, ConcatEmptySeq DEF Entries
  <2>. QED  BY Zenon, <2>1, <2>2, <2>3
<1>10. CASE EmitToolResult
  <2>0. ToolResult \in Entries
    BY Zenon DEF Entries
  <2>1. results \in Seq(Entries) /\ context \in Seq(Entries)
    BY <1>0, <2>0
  <2>2. Append(context \o results, ToolResult) = context \o Append(results, ToolResult)
    BY ZenonT(60), <2>0, <2>1, AppendConcat
  <2>. QED  BY Zenon, <1>10, <2>2 DEF EmitToolResult, AddToolResult
<1>11. CASE EndBatch
  BY Zenon, <1>11 DEF EndBatch, CloseBatch
<1>12. CASE FinishTurn
  BY Zenon, <1>12 DEF FinishTurn, DecideTurn
<1>13. CASE SteeringPoll
  BY Zenon, <1>13 DEF SteeringPoll, PollSteering
<1>14. CASE FollowUpPoll
  BY SMTT(60), <1>14 DEF FollowUpPoll
<1>15. CASE EndRun \/ handleRunFailure \/ finishRun \/ Fail
  BY Zenon, <1>15 DEF EndRun, handleRunFailure, finishRun, LeaveLoop, Fail
<1>16. CASE QueueCall
  BY Zenon, <1>16, QueueCallFrame
<1>17. CASE StartCall
  BY Zenon, <1>17, StartCallEffect
<1>18. CASE reset
  BY Zenon, <1>18, <1>0 DEF reset
<1>19. CASE UNCHANGED vars
  BY Zenon, <1>19 DEF vars, loop
<1>. QED
  BY ZenonT(60), <1>1, <1>2, <1>3, <1>4, <1>5, <1>6, <1>7, <1>8, <1>9, <1>10, <1>11, <1>12,
     <1>13, <1>14, <1>15, <1>16, <1>17, <1>18, <1>19, HostCalls
  DEF Next, LoopStep

\* Whenever a request goes out, the context the provider sees is the transcript
\* the listeners saw, for any number of messages, turns, tool calls, aborts and
\* failed runs.
THEOREM RequestsSeeTranscript == Spec => []RequestSeesTranscript
<1>1. Init => ContextInv
  BY Zenon DEF Init, ContextInv
<1>2. ContextInv => RequestSeesTranscript
  BY SMTT(60) DEF ContextInv, RequestSeesTranscript
<1>. QED  BY <1>1, <1>2, ContextStep, TypeCorrect, PTL DEF Spec
-----------------------------------------------------------------------------
(* Steering drains *)

\* Why no second poll of a turn can drain.  The initial poll is skipped when
\* the run was started by a drain; the second poll of a turn happens only when
\* the first left nothing pending; and a turn that follow-ups start had a poll
\* that returned nothing.
DrainInv ==
    /\ drains \in {0, 1}
    /\ skipPoll => pc \in {"prompts", "initialPoll", "failing", "finish"}
    /\ pc \in {"prompts", "initialPoll"} => ~completed /\ (drains = 1 => skipPoll)
    /\ pc = "repoll" \/ (pc = "turn" /\ completed) => (drains = 1 => pending # <<>>)
    /\ pc = "followUpPoll" => drains = 0

\* Why an aborted run stops: the one request it may still start is answered
\* "aborted", and that answer ends the run.
AbortInv ==
    /\ afterAbort \in {0, 1}
    /\ afterAbort = 1 =>
         \/ pc \in {"stream", "partial"} /\ signalled
         \/ pc = "finishTurn" /\ stop = "aborted"
         \/ pc \in {"ending", "failing", "finish"}

LEMMA DrainStep == TypeOK /\ DrainInv /\ [Next]_vars => DrainInv'
<1>. SUFFICES ASSUME TypeOK, DrainInv, [Next]_vars PROVE DrainInv'
  BY Zenon
<1>. USE DEF DrainInv
<1>0. /\ steeringQueue \in Seq(Msg) /\ pending \in Seq(Msg)
      /\ skipPoll \in BOOLEAN /\ completed \in BOOLEAN /\ (activeRun <=> pc # "idle")
  BY Zenon DEF TypeOK, TranscriptOK, RunOK, FlagsOK
<1>a. steeringQueue # <<>> => peek(steeringQueue, steeringMode) # <<>>
  BY SMTT(60), <1>0, QueueTypes
<1>1. CASE EmitPrompt
  BY Zenon, <1>1 DEF EmitPrompt, history
<1>2. CASE InitialPoll
  <2>1. CASE skipPoll
    BY SMTT(60), <1>2, <2>1 DEF InitialPoll, PollSteering
  <2>2. CASE ~skipPoll
    BY SMTT(60), <1>2, <2>2 DEF InitialPoll, PollSteering
  <2>. QED  BY SMTT(60), <2>1, <2>2
<1>3. CASE PrepareNextTurn
  BY Zenon, <1>3 DEF PrepareNextTurn
<1>4. CASE Repoll
  <2>1. CASE pending = <<>>
    BY SMTT(60), <1>4, <2>1 DEF Repoll, PollAgain, PollSteering
  <2>2. CASE pending # <<>>
    BY SMTT(60), <1>4, <2>2 DEF Repoll, loop, history
  <2>. QED  BY SMTT(60), <2>1, <2>2
<1>5. CASE PushMessage
  BY SMTT(60), <1>5 DEF PushMessage, history
<1>6. CASE PrepareRequest \/ StartRequest \/ StreamPartial
  BY SMTT(60), <1>6 DEF PrepareRequest, StartRequest, StreamPartial, loop, history
<1>7. CASE StreamEnd
  BY Zenon, <1>7 DEF StreamEnd, history
<1>8. CASE EmitToolResult \/ EndBatch
  <2>1. CASE EmitToolResult
    BY SMTT(60), <2>1 DEF EmitToolResult, AddToolResult, history
  <2>2. CASE EndBatch
    BY SMTT(60), <2>2 DEF EndBatch, CloseBatch, history
  <2>. QED  BY SMTT(60), <1>8, <2>1, <2>2
<1>9. CASE FinishTurn
  BY Zenon, <1>9 DEF FinishTurn, DecideTurn, history
<1>10. CASE SteeringPoll
  <2>1. ~skipPoll /\ pc = "steeringPoll"
    BY SMTT(60), <1>10 DEF SteeringPoll
  <2>2. /\ pending' = peek(steeringQueue, steeringMode)
        /\ drains' = (IF steeringQueue = <<>> THEN 0 ELSE 1)
        /\ UNCHANGED skipPoll
        /\ pc' = (IF more \/ pending' # <<>> THEN "turn" ELSE "followUpPoll")
    BY SMTT(60), <1>10, <2>1 DEF SteeringPoll, PollSteering
  <2>. QED  BY <1>a, <2>1, <2>2
<1>11. CASE FollowUpPoll
  BY SMTT(60), <1>11 DEF FollowUpPoll
<1>12. CASE EndRun \/ handleRunFailure \/ Fail
  BY Zenon, <1>12 DEF EndRun, handleRunFailure, Fail, Running, loop, history
<1>13. CASE finishRun
  BY Zenon, <1>13 DEF finishRun, LeaveLoop
<1>14. CASE QueueCall
  BY <1>14, QueueCallFrame
<1>15. CASE StartCall
  BY SMTT(60), <1>15, StartCallEffect
<1>16. CASE reset
  BY SMTT(60), <1>16, <1>0 DEF reset, loop
<1>17. CASE UNCHANGED vars
  BY Zenon, <1>17 DEF vars, loop, history
<1>. QED
  BY ZenonT(60), <1>1, <1>2, <1>3, <1>4, <1>5, <1>6, <1>7, <1>8, <1>9, <1>10, <1>11, <1>12,
     <1>13, <1>14, <1>15, <1>16, <1>17, HostCalls
  DEF Next, LoopStep

\* However the polls of a turn interleave with steer() calls, at most one of
\* them returns steering messages.
THEOREM OneDrainPerTurn == Spec => []OneSteeringDrainPerTurn
<1>1. Init => DrainInv
  BY Zenon DEF Init, DrainInv
<1>2. DrainInv => OneSteeringDrainPerTurn
  BY SMTT(60) DEF DrainInv, OneSteeringDrainPerTurn
<1>. QED  BY <1>1, <1>2, DrainStep, TypeCorrect, PTL DEF Spec
-----------------------------------------------------------------------------
(* Requests after an abort *)

LEMMA AbortStep == TypeOK /\ AbortInv /\ [Next]_vars => AbortInv'
<1>. SUFFICES ASSUME TypeOK, AbortInv, [Next]_vars PROVE AbortInv'
  BY Zenon
<1>. USE DEF AbortInv
<1>0. /\ (activeRun <=> pc # "idle") /\ signalled \in BOOLEAN /\ aborted \in BOOLEAN
      /\ stop \in StopReasons
  BY SMTT(60) DEF TypeOK, RunOK, FlagsOK, BatchOK
<1>1. CASE EmitPrompt \/ InitialPoll \/ PrepareNextTurn
  BY SMTT(60), <1>1 DEF EmitPrompt, InitialPoll, PrepareNextTurn, PollSteering, history
<1>2. CASE Repoll
  BY SMTT(60), <1>2 DEF Repoll, PollAgain, PollSteering, loop, history
<1>3. CASE PushMessage \/ PrepareRequest
  BY Zenon, <1>3 DEF PushMessage, PrepareRequest, history
<1>4. CASE StartRequest
  <2>1. afterAbort = 0 /\ pc' = "stream"
    BY SMTT(60), <1>4 DEF StartRequest
  <2>2. afterAbort' = (IF aborted THEN 1 ELSE 0) /\ (signalled' <=> aborted)
    BY SMTT(60), <1>4, <2>1, <1>0 DEF StartRequest
  <2>. QED  BY SMTT(60), <2>1, <2>2, <1>0
<1>5. CASE StreamPartial
  BY Zenon, <1>5 DEF StreamPartial, loop, history
<1>6. CASE StreamEnd
  <2>1. /\ pc \in {"stream", "partial"} /\ UNCHANGED <<signalled, afterAbort>>
        /\ pc' \in {"tools", "finishTurn"}
    BY Zenon, <1>6 DEF StreamEnd, history
  <2>2. signalled => stop' = "aborted" /\ pc' = "finishTurn"
    BY SMTT(60), <1>6 DEF StreamEnd, MayAnswer
  <2>. QED  BY SMTT(60), <2>1, <2>2
<1>7. CASE EmitToolResult \/ EndBatch
  BY ZenonT(60), <1>7 DEF EmitToolResult, AddToolResult, EndBatch, CloseBatch, history
<1>8. CASE FinishTurn
  BY SMTT(60), <1>8 DEF FinishTurn, DecideTurn, history
<1>9. CASE SteeringPoll \/ FollowUpPoll
  BY SMTT(60), <1>9 DEF SteeringPoll, FollowUpPoll, PollSteering
<1>10. CASE EndRun \/ handleRunFailure \/ Fail
  BY Zenon, <1>10 DEF EndRun, handleRunFailure, Fail, history
<1>11. CASE finishRun
  BY <1>11 DEF finishRun, LeaveLoop
<1>12. CASE QueueCall
  BY Zenon, <1>12, QueueCallFrame
<1>13. CASE StartCall
  BY SMTT(60), <1>13, StartCallEffect
<1>14. CASE reset
  BY SMTT(60), <1>14, <1>0 DEF reset, loop
<1>15. CASE UNCHANGED vars
  BY Zenon, <1>15 DEF vars, loop, history
<1>. QED
  BY SMTT(60), <1>1, <1>2, <1>3, <1>4, <1>5, <1>6, <1>7, <1>8, <1>9, <1>10, <1>11, <1>12,
     <1>13, <1>14, <1>15, HostCalls
  DEF Next, LoopStep

\* An aborted run starts at most one more request, whatever is queued and
\* whatever the hooks decide.
THEOREM AbortedRunsStop == Spec => []AbortStopsRequests
<1>1. Init => AbortInv
  BY DEF Init, AbortInv
<1>2. AbortInv => AbortStopsRequests
  BY DEF AbortInv, AbortStopsRequests
<1>. QED  BY <1>1, <1>2, AbortStep, TypeCorrect, PTL DEF Spec
-----------------------------------------------------------------------------
(* What the run has taken and not said yet *)

HoldInv ==
    /\ pc # "prompts" => prompts = <<>>
    /\ pc \notin {"turn", "repoll", "push"} => pending = <<>>
    /\ pc \notin {"repoll", "push"} => prepared = <<>>

LEMMA PeekEmpty == ASSUME NEW mode PROVE peek(<<>>, mode) = <<>> /\ drained(<<>>, mode) = <<>>
  BY DEF peek, drained

LEMMA HoldStep == TypeOK /\ HoldInv /\ [Next]_vars => HoldInv'
<1>. SUFFICES ASSUME TypeOK, HoldInv, [Next]_vars PROVE HoldInv'
  BY Zenon
<1>. USE DEF HoldInv
<1>0. activeRun <=> pc # "idle"
  BY Zenon DEF TypeOK, RunOK
<1>1. CASE EmitPrompt
  BY Zenon, <1>1 DEF EmitPrompt
<1>2. CASE InitialPoll
  BY Zenon, <1>2 DEF InitialPoll, PollSteering
<1>3. CASE PrepareNextTurn
  BY SMTT(60), <1>3 DEF PrepareNextTurn
<1>4. CASE Repoll
  BY Zenon, <1>4 DEF Repoll, PollAgain, PollSteering, loop
<1>5. CASE PushMessage
  BY SMTT(60), <1>5 DEF PushMessage
<1>6. CASE PrepareRequest \/ StartRequest \/ StreamPartial
  BY Zenon, <1>6 DEF PrepareRequest, StartRequest, StreamPartial, loop
<1>7. CASE StreamEnd
  BY Zenon, <1>7 DEF StreamEnd
<1>8. CASE EmitToolResult \/ EndBatch
  BY ZenonT(60), <1>8 DEF EmitToolResult, AddToolResult, EndBatch, CloseBatch
<1>9. CASE FinishTurn
  BY Zenon, <1>9 DEF FinishTurn, DecideTurn
<1>10. CASE SteeringPoll
  BY Zenon, <1>10 DEF SteeringPoll, PollSteering
<1>11. CASE FollowUpPoll
  <2>1. followUpQueue = <<>> => pending' = <<>>
    BY Zenon, <1>11, PeekEmpty DEF FollowUpPoll
  <2>. QED  BY Zenon, <1>11, <2>1 DEF FollowUpPoll
<1>12. CASE EndRun \/ handleRunFailure
  BY SMTT(60), <1>12 DEF EndRun, handleRunFailure, loop
<1>13. CASE finishRun \/ Fail
  BY Zenon, <1>13 DEF finishRun, LeaveLoop, Fail
<1>14. CASE QueueCall
  BY Zenon, <1>14, QueueCallFrame
<1>15. CASE StartCall
  BY SMTT(60), <1>15, StartCallEffect
<1>16. CASE reset
  BY Zenon, <1>16, <1>0 DEF reset, loop
<1>17. CASE UNCHANGED vars
  BY Zenon, <1>17 DEF vars, loop
<1>. QED
  BY Zenon, <1>1, <1>2, <1>3, <1>4, <1>5, <1>6, <1>7, <1>8, <1>9, <1>10, <1>11, <1>12,
     <1>13, <1>14, <1>15, <1>16, <1>17, HostCalls
  DEF Next, LoopStep
-----------------------------------------------------------------------------
(* What a request ends with *)

\* A transcript with an assistant message at its end is sent only with something
\* to follow it, or when finishTurn asked for that.  A turn that the tools asked
\* for ends with a tool result: an abort leaves at least one.
BareInv ==
    /\ pc = "initialPoll" \/ (pc = "prompts" /\ prompts = <<>>)
         => messages # <<>> /\ LastRole(messages) # "assistant"
    /\ pc \in {"turn", "repoll", "push", "request", "stream"}
         => messages # <<>> /\ (LastRole(messages) = "assistant"
                                  => contextOnly \/ pending # <<>> \/ prepared # <<>>)
    /\ pc \in {"partial", "tools", "finishTurn", "steeringPoll", "followUpPoll"} => messages # <<>>
    /\ pc = "tools" => /\ calls > 0 \/ results # <<>>
                       /\ results # <<>> => LastRole(messages) = "toolResult"
    /\ pc \in {"finishTurn", "steeringPoll"} /\ more => LastRole(messages) = "toolResult"

LEMMA LastAppended ==
    ASSUME NEW s \in Seq(Entries), NEW e \in Entries
    PROVE  Append(s, e) # <<>> /\ LastRole(Append(s, e)) = e.role
  BY AppendProperties DEF LastRole

LEMMA StartedWith ==
    ASSUME TypeOK, StartCall
    PROVE  /\ prompts' = <<>> => messages # <<>> /\ LastRole(messages) # "assistant"
           /\ contextOnly' = FALSE
<1>1. CASE \E m \in Msg : prompt(m)
  BY <1>1 DEF prompt, StartRun
<1>2. CASE continueFromQueue
  <2>1. /\ steeringQueue # <<>> => peek(steeringQueue, steeringMode) # <<>>
        /\ followUpQueue # <<>> => peek(followUpQueue, followUpMode) # <<>>
    BY SMTT(60), QueueTypes DEF TypeOK, TranscriptOK
  <2>. QED  BY Zenon, <1>2, <2>1 DEF continueFromQueue, StartRun
<1>3. CASE continueFromTranscript
  BY Zenon, <1>3 DEF continueFromTranscript, StartRun
<1>. QED  BY Zenon, <1>1, <1>2, <1>3 DEF StartCall

LEMMA BareStep == TypeOK /\ HoldInv /\ BareInv /\ [Next]_vars => BareInv'
<1>. SUFFICES ASSUME TypeOK, HoldInv, BareInv, [Next]_vars PROVE BareInv'
  BY SMTT(60)
<1>. USE DEF BareInv
<1>0. /\ messages \in Seq(Entries) /\ prompts \in Seq(Msg) /\ prepared \in Seq(Msg) /\ pending \in Seq(Msg)
      /\ results \in Seq({ToolResult}) /\ (activeRun <=> pc # "idle") /\ contextOnly \in BOOLEAN
      /\ followUpQueue \in Seq(Msg) /\ calls \in Nat
  BY DEF TypeOK, TranscriptOK, RunOK, BatchOK, FlagsOK
<1>a. ASSUME NEW m \in Msg, messages' = Append(messages, User(m))
      PROVE  messages' # <<>> /\ LastRole(messages') = "user"
  <2>1. User(m) \in Entries /\ User(m).role = "user"
    BY SMTT(60) DEF Entries, User
  <2>. QED  BY Zenon, <1>0, <1>a, <2>1, LastAppended
<1>1. CASE EmitPrompt
  <2>1. CASE prompts = <<>>
    BY SMTT(60), <1>1, <2>1 DEF EmitPrompt
  <2>2. CASE prompts # <<>>
    <3>1. Head(prompts) \in Msg
      BY Zenon, <1>0, <2>2, HeadTailProperties
    <3>2. messages' # <<>> /\ LastRole(messages') = "user" /\ pc' = "prompts"
      BY Zenon, <1>a, <1>1, <2>2, <3>1 DEF EmitPrompt
    <3>. QED  BY Zenon, <3>2
  <2>. QED  BY SMTT(60), <2>1, <2>2
<1>2. CASE InitialPoll
  <2>1. pc = "initialPoll" /\ pc' = "turn" /\ messages' = messages
    BY Zenon, <1>2 DEF InitialPoll, PollSteering
  <2>. QED  BY SMTT(60), <2>1
<1>3. CASE PrepareNextTurn
  <2>1. /\ pc = "turn" /\ pc' \in {"repoll", "push"} /\ prepared = <<>>
        /\ UNCHANGED <<messages, pending, contextOnly>>
    BY Zenon, <1>3 DEF PrepareNextTurn, HoldInv
  <2>. QED  BY SMTT(60), <2>1
<1>4. CASE Repoll
  <2>1. /\ pc = "repoll" /\ pc' = "push" /\ (pending # <<>> => pending' = pending)
        /\ UNCHANGED <<messages, prepared, contextOnly>>
    BY Zenon, <1>4 DEF Repoll, PollAgain, PollSteering, loop, history
  <2>. QED  BY SMTT(60), <2>1
<1>5. CASE PushMessage
  <2>1. PICK m \in Msg : messages' = Append(messages, User(m))
    BY ZenonT(60), <1>0, <1>5, HeadTailProperties DEF PushMessage
  <2>2. messages' # <<>> /\ LastRole(messages') = "user" /\ pc' = "push"
    BY Zenon, <1>a, <1>5, <2>1 DEF PushMessage
  <2>. QED  BY Zenon, <2>2
<1>6. CASE PrepareRequest
  BY Zenon, <1>6 DEF PrepareRequest, loop, history
<1>7. CASE StartRequest
  BY Zenon, <1>7 DEF StartRequest
<1>8. CASE StreamPartial
  BY SMTT(60), <1>8 DEF StreamPartial
<1>9. CASE StreamEnd
  <2>1. /\ messages' = Append(messages, Assistant) /\ more' = FALSE /\ results' = <<>>
        /\ pc' = "finishTurn" \/ (pc' = "tools" /\ calls' > 0)
    BY Zenon, <1>9 DEF StreamEnd
  <2>2. messages' # <<>>
    BY ZenonT(60), <1>0, <2>1, LastAppended DEF Entries
  <2>. QED  BY SMTT(60), <2>1, <2>2
<1>10. CASE EmitToolResult
  <2>1. /\ messages' = Append(messages, ToolResult) /\ results' = Append(results, ToolResult)
        /\ pc' = "tools"
    BY Zenon, <1>10 DEF EmitToolResult, AddToolResult
  <2>2. messages' # <<>> /\ LastRole(messages') = "toolResult"
    <3>1. ToolResult \in Entries /\ ToolResult.role = "toolResult"
      BY Zenon DEF Entries, ToolResult
    <3>. QED  BY Zenon, <1>0, <2>1, <3>1, LastAppended
  <2>3. results' # <<>>
    BY ZenonT(60), <1>0, <2>1, AppendProperties
  <2>. QED  BY Zenon, <2>1, <2>2, <2>3
<1>11. CASE EndBatch
  <2>1. /\ pc = "tools" /\ pc' = "finishTurn" /\ (calls = 0 \/ results # <<>>)
        /\ messages' = messages
    BY Zenon, <1>11 DEF EndBatch, CloseBatch
  <2>. QED  BY <1>0, <2>1
<1>12. CASE FinishTurn
  BY Zenon, <1>12 DEF FinishTurn, DecideTurn
<1>13. CASE SteeringPoll
  <2>1. /\ pc = "steeringPoll" /\ UNCHANGED <<messages, prepared, more>>
        /\ pc' = IF more \/ pending' # <<>> THEN "turn" ELSE "followUpPoll"
    BY SMTT(60), <1>13 DEF SteeringPoll, PollSteering
  <2>. QED  BY SMTT(60), <2>1
<1>14. CASE FollowUpPoll
  <2>1. /\ pc = "followUpPoll" /\ messages' = messages
        /\ pc' = "ending" \/ (pc' = "turn" /\ (followUpQueue # <<>> \/ contextOnly'))
        /\ pending' = peek(followUpQueue, followUpMode)
    BY ZenonT(60), <1>14 DEF FollowUpPoll
  <2>2. followUpQueue # <<>> => pending' # <<>>
    BY Zenon, <1>0, <2>1, QueueTypes
  <2>. QED  BY SMTT(60), <2>1, <2>2
<1>15. CASE EndRun \/ handleRunFailure \/ finishRun \/ Fail
  BY Zenon, <1>15 DEF EndRun, handleRunFailure, finishRun, LeaveLoop, Fail
<1>16. CASE QueueCall
  BY SMTT(60), <1>16, QueueCallFrame
<1>17. CASE StartCall
  BY SMTT(60), <1>17, StartCallEffect, StartedWith
<1>18. CASE reset
  BY SMTT(60), <1>18, <1>0 DEF reset, loop
<1>19. CASE UNCHANGED vars
  BY Zenon, <1>19 DEF vars, loop, history
<1>. QED
  BY Zenon, <1>1, <1>2, <1>3, <1>4, <1>5, <1>6, <1>7, <1>8, <1>9, <1>10, <1>11, <1>12,
     <1>13, <1>14, <1>15, <1>16, <1>17, <1>18, <1>19, HostCalls
  DEF Next, LoopStep

\* Whenever a request goes out, its context ends with an assistant message only
\* if finishTurn asked for such a turn, however tool batches were cut short.
THEOREM RequestsAreAnswerable == Spec => []NoBareAssistantRequest
<1>1. Init => HoldInv /\ BareInv /\ ContextInv
  BY Zenon DEF Init, HoldInv, BareInv, ContextInv
<1>2. HoldInv /\ BareInv /\ ContextInv => NoBareAssistantRequest
  BY Zenon DEF HoldInv, BareInv, ContextInv, NoBareAssistantRequest
<1>. QED  BY <1>1, <1>2, HoldStep, BareStep, ContextStep, TypeCorrect, PTL DEF Spec
-----------------------------------------------------------------------------
(* How often something is in a sequence *)

LEMMA CountIsNat ==
    ASSUME NEW S, NEW s \in Seq(S), NEW e
    PROVE  /\ IsFiniteSet({i \in 1..Len(s) : s[i] = e}) /\ Count(s, e) \in Nat
           /\ Count(s, e) = 0 <=> e \notin Elems(s)
<1>. DEFINE A == {i \in 1..Len(s) : s[i] = e}
<1>1. Len(s) \in Nat
  BY Zenon, LenProperties
<1>2. IsFiniteSet(1..Len(s))
  BY <1>1, FS_Interval
<1>3. IsFiniteSet(A)
  BY Zenon, <1>2, FS_Subset
<1>4. Cardinality(A) \in Nat
  BY Zenon, <1>3, FS_CardinalityType
<1>5. Cardinality(A) = 0 <=> A = {}
  BY Zenon, <1>3, FS_EmptySet
<1>. QED  BY Zenon, <1>3, <1>4, <1>5 DEF Count, Elems

LEMMA CountConcat ==
    ASSUME NEW S, NEW s \in Seq(S), NEW t \in Seq(S), NEW e
    PROVE  Count(s \o t, e) = Count(s, e) + Count(t, e)
<1>. DEFINE A == {i \in 1..Len(s \o t) : (s \o t)[i] = e}
            B == {i \in 1..Len(s) : s[i] = e}
            C == {i \in 1..Len(t) : t[i] = e}
            D == {i \in Len(s) + 1 .. Len(s) + Len(t) : t[i - Len(s)] = e}
            f == [i \in C |-> i + Len(s)]
<1>1. /\ Len(s) \in Nat /\ Len(t) \in Nat /\ Len(s \o t) = Len(s) + Len(t)
      /\ \A i \in 1..Len(s) + Len(t) : (s \o t)[i] = IF i <= Len(s) THEN s[i] ELSE t[i - Len(s)]
  BY Zenon, ConcatProperties, LenProperties
<1>2. IsFiniteSet(B) /\ IsFiniteSet(C)
  BY Zenon, CountIsNat
<1>3. f \in Bijection(C, D)
  <2>1. f \in [C -> D]
    BY <1>1
  <2>2. \A a, b \in C : f[a] = f[b] => a = b
    BY <1>1
  <2>3. \A d \in D : \E c \in C : f[c] = d
    <3>. TAKE d \in D
    <3>1. d - Len(s) \in C /\ f[d - Len(s)] = d
      BY <1>1
    <3>. QED  BY Zenon, <3>1
  <2>. HIDE DEF f, C, D
  <2>. QED  BY Zenon, <2>1, <2>2, <2>3 DEF Bijection, Injection, Surjection, IsInjective
<1>4. IsFiniteSet(D) /\ Cardinality(D) = Cardinality(C)
  <2>1. ExistsBijection(C, D)
    BY Zenon, <1>3 DEF ExistsBijection
  <2>. QED  BY Zenon, <2>1, <1>2, FS_Bijection
<1>5. A = B \cup D /\ B \cap D = {}
  BY <1>1
<1>6. Cardinality(A) = Cardinality(B) + Cardinality(D) - Cardinality(B \cap D)
  BY Zenon, <1>2, <1>4, <1>5, FS_Union
<1>7. Cardinality(B \cap D) = 0 /\ Cardinality(B) \in Nat /\ Cardinality(C) \in Nat
  BY Zenon, <1>2, <1>5, FS_EmptySet, FS_CardinalityType
<1>8. Count(s \o t, e) = Cardinality(A) /\ Count(s, e) = Cardinality(B) /\ Count(t, e) = Cardinality(C)
  BY Zenon DEF Count
<1>. HIDE DEF A, B, C, D
<1>. QED  BY <1>4, <1>6, <1>7, <1>8

LEMMA CountOne ==
    ASSUME NEW a, NEW e
    PROVE  Count(<<>>, e) = 0 /\ Count(<<a>>, e) = IF a = e THEN 1 ELSE 0
<1>1. {i \in 1..Len(<<>>) : <<>>[i] = e} = {}
  OBVIOUS
<1>2. {i \in 1..Len(<<a>>) : <<a>>[i] = e} = IF a = e THEN {1} ELSE {}
  OBVIOUS
<1>. QED  BY Zenon, <1>1, <1>2, FS_EmptySet, FS_Singleton DEF Count

LEMMA CountSet ==
    ASSUME NEW X, NEW m
    PROVE  Cardinality({m} \cap X) = IF m \in X THEN 1 ELSE 0
<1>1. {m} \cap X = IF m \in X THEN {m} ELSE {}
  BY Zenon
<1>. QED  BY Zenon, <1>1, FS_EmptySet, FS_Singleton

\* How often e is in <<a>>
One(a, e) == IF a = e THEN 1 ELSE 0

LEMMA CountAppend ==
    ASSUME NEW S, NEW s \in Seq(S), NEW a, a \in S, NEW e
    PROVE  Count(Append(s, a), e) = Count(s, e) + One(a, e)
<1>1. Append(s, a) = s \o <<a>> /\ <<a>> \in Seq(S)
  BY AppendIsConcat
<1>2. Count(s \o <<a>>, e) = Count(s, e) + Count(<<a>>, e)
  BY ZenonT(60), <1>1, CountConcat
<1>. QED  BY Zenon, <1>1, <1>2, CountOne DEF One

LEMMA CountTail ==
    ASSUME NEW S, NEW s \in Seq(S), s # <<>>, NEW e
    PROVE  Count(s, e) = One(Head(s), e) + Count(Tail(s), e)
<1>1. Len(s) \in Nat \ {0} /\ Head(s) = s[1] /\ s[1] \in S
  BY EmptySeq, ElementOfSeq
<1>2. s = <<s[1]>> \o SubSeq(s, 2, Len(s))
  <2>1. 1 \in 1..Len(s) /\ Len(s) \in 1..Len(s) /\ 1 + 1 = 2
    BY <1>1
  <2>2. SubSeq(s, 1, Len(s)) = <<s[1]>> \o SubSeq(s, 1 + 1, Len(s))
    BY Zenon, <2>1, SubSeqRecursiveFirst
  <2>. QED  BY Zenon, <2>1, <2>2, SubSeqFull
<1>3. Tail(s) = SubSeq(s, 2, Len(s)) /\ Tail(s) \in Seq(S)
  BY Zenon, TailIsSubSeq, HeadTailProperties
<1>4. <<s[1]>> \in Seq(S)
  BY <1>1
<1>5. Count(<<s[1]>> \o Tail(s), e) = Count(<<s[1]>>, e) + Count(Tail(s), e)
  BY ZenonT(60), <1>3, <1>4, CountConcat
<1>6. Count(<<s[1]>>, e) = One(s[1], e)
  BY Zenon, CountOne DEF One
<1>. QED  BY Zenon, <1>1, <1>2, <1>3, <1>5, <1>6

LEMMA CountSplit ==
    ASSUME NEW S, NEW s \in Seq(S), NEW k \in 0..Len(s), NEW e
    PROVE  Count(s, e) = Count(SubSeq(s, 1, k), e) + Count(SubSeq(s, k + 1, Len(s)), e)
<1>0. Len(s) \in Nat
  BY Zenon, LenProperties
<1>1. SubSeq(s, 1, k) \in Seq(S) /\ SubSeq(s, k + 1, Len(s)) \in Seq(S)
  BY <1>0, SubSeqProperties, ElementOfSeq
<1>2. SubSeq(s, 1, k) \o SubSeq(s, k + 1, Len(s)) = s
  <2>1. 1 \in 1..Len(s) + 1 /\ k \in 1 - 1 .. Len(s) /\ Len(s) \in k..Len(s)
    BY <1>0
  <2>2. SubSeq(s, 1, k) \o SubSeq(s, k + 1, Len(s)) = SubSeq(s, 1, Len(s))
    BY Zenon, <2>1, ConcatAdjacentSubSeq
  <2>. QED  BY Zenon, <2>2, SubSeqFull
<1>3. Count(SubSeq(s, 1, k) \o SubSeq(s, k + 1, Len(s)), e)
        = Count(SubSeq(s, 1, k), e) + Count(SubSeq(s, k + 1, Len(s)), e)
  BY Zenon, <1>1, CountConcat
<1>. QED  BY Zenon, <1>2, <1>3

LEMMA CountDrain ==
    ASSUME NEW S, NEW q \in Seq(S), NEW mode, NEW e
    PROVE  Count(q, e) = Count(peek(q, mode), e) + Count(drained(q, mode), e)
<1>0. Len(q) \in Nat /\ \A i \in 1..Len(q) : q[i] \in S
  BY Zenon, LenProperties, ElementOfSeq
<1>1. PICK k \in 0..Len(q) : peek(q, mode) = SubSeq(q, 1, k)
  <2>1. CASE mode = "all"
    <3>1. peek(q, mode) = SubSeq(q, 1, Len(q))
      BY Zenon, <2>1, SubSeqFull DEF peek
    <3>. QED  BY <1>0, <3>1
  <2>2. CASE mode # "all" /\ q = <<>>
    <3>1. peek(q, mode) = SubSeq(q, 1, 0)
      BY Zenon, <2>2 DEF peek
    <3>. QED  BY <1>0, <3>1
  <2>3. CASE mode # "all" /\ q # <<>>
    <3>1. peek(q, mode) = SubSeq(q, 1, 1) /\ 1 \in 0..Len(q)
      BY <1>0, <2>3, EmptySeq DEF peek
    <3>. QED  BY Zenon, <3>1
  <2>. QED  BY Zenon, <2>1, <2>2, <2>3
<1>2. Len(SubSeq(q, 1, k)) = k
  BY <1>0, SubSeqProperties
<1>3. drained(q, mode) = SubSeq(q, k + 1, Len(q))
  BY Zenon, <1>1, <1>2 DEF drained
<1>. QED  BY Zenon, <1>1, <1>3, CountSplit

LEMMA CountRemove ==
    ASSUME NEW S, NEW q \in Seq(S), NEW i \in 1..Len(q), NEW e
    PROVE  Count(q, e) = Count(removeAt(q, i), e) + One(q[i], e)
<1>0. Len(q) \in Nat /\ (\A j \in 1..Len(q) : q[j] \in S) /\ (i - 1) + 1 = i /\ i - 1 \in 0..Len(q)
  BY LenProperties, ElementOfSeq
<1>. DEFINE a == SubSeq(q, 1, i - 1)   b == SubSeq(q, i + 1, Len(q))
<1>1. a \in Seq(S) /\ b \in Seq(S) /\ <<q[i]>> \in Seq(S)
  BY <1>0, SubSeqProperties
<1>2. Count(q, e) = Count(a, e) + Count(SubSeq(q, i, Len(q)), e)
  <2>1. Count(q, e) = Count(SubSeq(q, 1, i - 1), e) + Count(SubSeq(q, (i - 1) + 1, Len(q)), e)
    BY Zenon, <1>0, CountSplit
  <2>. QED  BY Zenon, <1>0, <2>1
<1>3. SubSeq(q, i, Len(q)) = <<q[i]>> \o b
  <2>1. Len(q) \in i..Len(q)
    BY <1>0
  <2>. QED  BY Zenon, <2>1, SubSeqRecursiveFirst
<1>4. Count(<<q[i]>> \o b, e) = Count(<<q[i]>>, e) + Count(b, e)
  BY Zenon, <1>1, CountConcat
<1>5. removeAt(q, i) = a \o b
  BY Zenon DEF removeAt
<1>6. Count(a \o b, e) = Count(a, e) + Count(b, e)
  BY Zenon, <1>1, CountConcat
<1>7. Count(a, e) \in Nat /\ Count(b, e) \in Nat
  BY Zenon, <1>1, CountIsNat
<1>8. Count(<<q[i]>>, e) = One(q[i], e) /\ One(q[i], e) \in Nat
  BY Zenon, CountOne DEF One
<1>. HIDE DEF a, b
<1>. QED  BY SMTT(60), <1>2, <1>3, <1>4, <1>5, <1>6, <1>7, <1>8
-----------------------------------------------------------------------------
(* Where a message is *)

\* The same, for a queue and for the transcript.
LEMMA QueueDrain ==
    \A q \in Seq(Msg) : \A mode, m :
        Count(q, m) = Count(peek(q, mode), m) + Count(drained(q, mode), m)
BY Zenon, CountDrain

LEMMA QueueRemove ==
    \A q \in Seq(Msg) : \A i \in 1..Len(q) : \A m :
        Count(q, m) = Count(removeAt(q, i), m) + One(q[i], m)
BY Zenon, CountRemove

LEMMA QueueAppend ==
    \A q \in Seq(Msg) : \A a \in Msg : \A m : Count(Append(q, a), m) = Count(q, m) + One(a, m)
BY ZenonT(60), CountAppend

LEMMA TranscriptAppend ==
    \A s \in Seq(Entries) : \A e \in Entries : \A x : Count(Append(s, e), x) = Count(s, x) + One(e, x)
BY ZenonT(60), CountAppend

LEMMA UserEntries ==
    ASSUME NEW a, NEW m
    PROVE  /\ One(User(a), User(m)) = One(a, m)
           /\ One(Assistant, User(m)) = 0 /\ One(ToolResult, User(m)) = 0
BY Zenon DEF One, User, Assistant, ToolResult

\* 1 for a message of the set X, 0 for any other.
Has(X, m) == IF m \in X THEN 1 ELSE 0

\* The places of message m, as numbers to add up.
Summed(m) ==
    /\ Count(steeringQueue, m) \in Nat /\ Count(followUpQueue, m) \in Nat
    /\ Count(prompts, m) \in Nat /\ Count(pending, m) \in Nat
    /\ Count(prepared, m) \in Nat /\ Count(messages, User(m)) \in Nat
    /\ Occurrences(m) = Count(steeringQueue, m) + Count(followUpQueue, m)
          + Count(prompts, m) + Count(pending, m) + Count(prepared, m)
          + Count(messages, User(m)) + Has(gone, m) + Has(lost, m)

LEMMA OccurrencesSum == TypeOK => \A m \in Msg : Summed(m)
<1>. SUFFICES ASSUME TypeOK, NEW m \in Msg PROVE Summed(m)
  BY Zenon
<1>1. /\ steeringQueue \in Seq(Msg) /\ followUpQueue \in Seq(Msg) /\ messages \in Seq(Entries)
      /\ prompts \in Seq(Msg) /\ pending \in Seq(Msg) /\ prepared \in Seq(Msg)
  BY Zenon DEF TypeOK, TranscriptOK
<1>2. Cardinality({m} \cap gone) = Has(gone, m) /\ Cardinality({m} \cap lost) = Has(lost, m)
  BY Zenon, CountSet DEF Has
<1>3. /\ Count(steeringQueue, m) \in Nat /\ Count(followUpQueue, m) \in Nat
      /\ Count(prompts, m) \in Nat /\ Count(pending, m) \in Nat
      /\ Count(prepared, m) \in Nat /\ Count(messages, User(m)) \in Nat
  BY Zenon, <1>1, CountIsNat
<1>. QED  BY Zenon, <1>2, <1>3 DEF Occurrences, Summed

LEMMA OccurrencesSumNext == TypeOK' => (\A m \in Msg : Summed(m))'
BY OccurrencesSum, PTL

\* What the theorem is about: a step that leaves these alone moves no message.
places == <<steeringQueue, followUpQueue, prompts, pending, prepared, messages, gone, lost, used>>

LEMMA OnceStep == TypeOK /\ TypeOK' /\ HoldInv /\ ExactlyOnce /\ [Next]_vars => ExactlyOnce'
<1>. SUFFICES ASSUME TypeOK, TypeOK', HoldInv, ExactlyOnce, [Next]_vars, NEW m \in Msg
              PROVE  Occurrences(m)' = IF m <= used' THEN 1 ELSE 0
  BY Zenon DEF ExactlyOnce
<1>. DEFINE S == Count(steeringQueue, m)    F == Count(followUpQueue, m)
            P == Count(prompts, m)          D == Count(pending, m)
            R == Count(prepared, m)         M == Count(messages, User(m))
<1>1. /\ steeringQueue \in Seq(Msg) /\ followUpQueue \in Seq(Msg) /\ messages \in Seq(Entries)
      /\ prompts \in Seq(Msg) /\ pending \in Seq(Msg) /\ prepared \in Seq(Msg)
      /\ used \in Nat /\ m \in Nat /\ (activeRun <=> pc # "idle")
  BY DEF TypeOK, TranscriptOK, HistoryOK, RunOK, Msg
<1>2. /\ S \in Nat /\ F \in Nat /\ P \in Nat /\ D \in Nat /\ R \in Nat /\ M \in Nat
      /\ S + F + P + D + R + M + Has(gone, m) + Has(lost, m) = IF m <= used THEN 1 ELSE 0
  BY Zenon, OccurrencesSum DEF ExactlyOnce, Summed
<1>3. /\ S' \in Nat /\ F' \in Nat /\ P' \in Nat /\ D' \in Nat /\ R' \in Nat /\ M' \in Nat
      /\ Occurrences(m)' = S' + F' + P' + D' + R' + M' + Has(gone', m) + Has(lost', m)
  BY Zenon, OccurrencesSumNext DEF Summed
<1>4. \A a : /\ One(User(a), User(m)) = One(a, m) /\ One(a, m) \in {0, 1}
             /\ One(Assistant, User(m)) = 0 /\ One(ToolResult, User(m)) = 0
  BY Zenon, UserEntries DEF One
<1>5. Has(gone, m) \in {0, 1} /\ Has(lost, m) \in {0, 1}
  BY Zenon DEF Has
<1>6. Assistant \in Entries /\ ToolResult \in Entries /\ \A a \in Msg : User(a) \in Entries
  BY Zenon DEF Entries
<1>. SUFFICES S' + F' + P' + D' + R' + M' + Has(gone', m) + Has(lost', m) = IF m <= used' THEN 1 ELSE 0
  BY Zenon, <1>3
<1>7. ASSUME UNCHANGED places
      PROVE  S' + F' + P' + D' + R' + M' + Has(gone', m) + Has(lost', m) = IF m <= used' THEN 1 ELSE 0
  BY Zenon, <1>2, <1>7 DEF places
<1>8. Count(<<>>, m) = 0 /\ Count(<<>>, User(m)) = 0
  BY ZenonT(60), CountOne
<1>9. CASE EmitPrompt
  <2>1. CASE prompts = <<>>
    BY SMTT(60), <1>7, <1>9, <2>1 DEF EmitPrompt, places, queues, history
  <2>2. CASE prompts # <<>>
    <3>1. Head(prompts) \in Msg
      BY Zenon, <1>1, <2>2, HeadTailProperties
    <3>2. P = One(Head(prompts), m) + Count(Tail(prompts), m)
      BY Zenon, <1>1, <2>2, CountTail
    <3>3. Count(Append(messages, User(Head(prompts))), User(m))
            = M + One(User(Head(prompts)), User(m))
      <4>1. User(Head(prompts)) \in Entries
        BY Zenon, <1>6, <3>1
      <4>. QED  BY Zenon, <4>1, <1>1, TranscriptAppend
    <3>4. P = One(Head(prompts), m) + P' /\ M' = M + One(Head(prompts), m)
      BY ZenonT(60), <1>4, <1>9, <2>2, <3>2, <3>3 DEF EmitPrompt
    <3>5. UNCHANGED <<steeringQueue, followUpQueue, pending, prepared, gone, lost, used>>
      BY Zenon, <1>9, <2>2 DEF EmitPrompt, queues, history
    <3>. QED  BY SMTT(60), <1>2, <1>3, <1>4, <3>4, <3>5
  <2>. QED  BY Zenon, <2>1, <2>2
<1>10. ASSUME NEW so_far, NEW next, PollSteering(so_far, next), pending = <<>>,
              UNCHANGED <<followUpQueue, messages, prompts, prepared, used, gone, lost>>
       PROVE  S' + F' + P' + D' + R' + M' + Has(gone', m) + Has(lost', m) = IF m <= used' THEN 1 ELSE 0
  <2>1. CASE skipPoll
    BY SMTT(60), <1>7, <1>10, <2>1 DEF PollSteering, places
  <2>2. CASE ~skipPoll
    <3>1. S = Count(peek(steeringQueue, steeringMode), m) + Count(drained(steeringQueue, steeringMode), m)
      BY <1>1, QueueDrain
    <3>2. S = D' + S' /\ D = 0
      BY ZenonT(60), <1>8, <1>10, <2>2, <3>1 DEF PollSteering
    <3>. QED  BY SMTT(60), <1>2, <1>3, <1>10, <3>2
  <2>. QED  BY Zenon, <2>1, <2>2
<1>11. CASE InitialPoll
  <2>1. pending = <<>>
    BY SMTT(60), <1>11 DEF InitialPoll, HoldInv
  <2>. QED  BY SMTT(60), <1>10, <1>11, <2>1 DEF InitialPoll
<1>12. CASE PrepareNextTurn
  <2>1. prepared = <<>> /\ R = 0
    BY Zenon, <1>8, <1>12 DEF PrepareNextTurn, HoldInv
  <2>2. UNCHANGED <<steeringQueue, followUpQueue, pending, prompts, messages, gone, lost>>
    BY Zenon, <1>12 DEF PrepareNextTurn, queues
  <2>3. CASE prepared' = <<>> /\ UNCHANGED used
    BY SMTT(60), <1>7, <2>1, <2>2, <2>3 DEF places
  <2>4. CASE \E n \in Msg : NewMessage(n) /\ prepared' = <<n>>
    <3>1. used + 1 = used' /\ prepared' = <<used'>>
      BY Zenon, <2>4 DEF NewMessage
    <3>2. R' = One(used', m)
      BY Zenon, <3>1, CountOne DEF One
    <3>3. S' = S /\ F' = F /\ P' = P /\ D' = D /\ M' = M /\ Has(gone', m) = Has(gone, m) /\ Has(lost', m) = Has(lost, m)
      BY Zenon, <2>2
    <3>. HIDE DEF S, F, P, D, R, M
    <3>4. used \in Nat /\ m \in Nat /\ used' = used + 1 /\ R = 0 /\ R' = IF used' = m THEN 1 ELSE 0
      BY SMTT(60), <1>1, <2>1, <3>1, <3>2 DEF One
    <3>. QED  BY SMTT(60), <1>2, <1>5, <3>3, <3>4
  <2>. QED  BY SMTT(60), <1>12, <2>3, <2>4 DEF PrepareNextTurn
<1>13. CASE Repoll
  <2>1. CASE pending = <<>> /\ PollAgain
    BY SMTT(60), <1>10, <2>1 DEF PollAgain
  <2>2. CASE UNCHANGED <<queues, modes, activeRun, aborted, messages, streaming, context, loop, history>>
    BY SMTT(60), <1>7, <2>2 DEF places, queues, loop, history
  <2>. QED  BY SMTT(60), <1>13, <2>1, <2>2 DEF Repoll
<1>14. CASE PushMessage
  <2>1. UNCHANGED <<steeringQueue, followUpQueue, prompts, gone, lost, used>>
    BY Zenon, <1>14 DEF PushMessage, queues, history
  <2>2. CASE prepared # <<>>
    <3>0. prepared' = Tail(prepared) /\ pending' = pending /\ messages' = Append(messages, User(Head(prepared)))
      BY Zenon, <1>14, <2>2 DEF PushMessage
    <3>1. Head(prepared) \in Msg
      BY Zenon, <1>1, <2>2, HeadTailProperties
    <3>2. R = One(Head(prepared), m) + Count(Tail(prepared), m)
      BY Zenon, <1>1, <2>2, CountTail
    <3>3. Count(Append(messages, User(Head(prepared))), User(m))
            = M + One(User(Head(prepared)), User(m))
      <4>1. User(Head(prepared)) \in Entries
        BY Zenon, <1>6, <3>1
      <4>. QED  BY Zenon, <4>1, <1>1, TranscriptAppend
    <3>4. R = One(Head(prepared), m) + R' /\ M' = M + One(Head(prepared), m)
      BY Zenon, <1>4, <3>0, <3>2, <3>3
    <3>5. S' = S /\ F' = F /\ P' = P /\ D' = D /\ Has(gone', m) = Has(gone, m) /\ Has(lost', m) = Has(lost, m)
      BY Zenon, <2>1, <3>0
    <3>. HIDE DEF S, F, P, D, R, M
    <3>. QED  BY SMTT(60), <1>2, <1>3, <1>4, <2>1, <3>4, <3>5
  <2>3. CASE prepared = <<>>
    <3>0. /\ pending # <<>> /\ pending' = Tail(pending) /\ prepared' = prepared
          /\ messages' = Append(messages, User(Head(pending)))
      BY Zenon, <1>14, <2>3 DEF PushMessage
    <3>1. Head(pending) \in Msg
      BY SMTT(60), <1>1, <3>0, HeadTailProperties
    <3>2. D = One(Head(pending), m) + Count(Tail(pending), m)
      BY ZenonT(60), <1>1, <3>0, CountTail
    <3>3. Count(Append(messages, User(Head(pending))), User(m))
            = M + One(User(Head(pending)), User(m))
      <4>1. User(Head(pending)) \in Entries
        BY Zenon, <1>6, <3>1
      <4>. QED  BY Zenon, <4>1, <1>1, TranscriptAppend
    <3>4. D = One(Head(pending), m) + D' /\ M' = M + One(Head(pending), m)
      BY ZenonT(60), <1>4, <3>0, <3>2, <3>3
    <3>5. S' = S /\ F' = F /\ P' = P /\ R' = R /\ Has(gone', m) = Has(gone, m) /\ Has(lost', m) = Has(lost, m)
      BY Zenon, <2>1, <3>0
    <3>. HIDE DEF S, F, P, D, R, M
    <3>. QED  BY SMTT(60), <1>2, <1>3, <1>4, <2>1, <3>4, <3>5
  <2>. QED  BY SMTT(60), <2>2, <2>3
<1>15. CASE PrepareRequest \/ StartRequest \/ StreamPartial \/ EndBatch \/ FinishTurn \/ EndRun
  BY ZenonT(60), <1>7, <1>15 DEF PrepareRequest, StartRequest, StreamPartial, EndBatch, CloseBatch,
     FinishTurn, DecideTurn, EndRun, places, queues, loop, history
<1>16. ASSUME NEW e \in {Assistant, ToolResult}, messages' = Append(messages, e),
              UNCHANGED <<queues, prompts, pending, prepared, gone, lost, used>>
       PROVE  S' + F' + P' + D' + R' + M' + Has(gone', m) + Has(lost', m) = IF m <= used' THEN 1 ELSE 0
  <2>1. Count(Append(messages, e), User(m)) = M + One(e, User(m))
    BY Zenon, <1>1, <1>6, TranscriptAppend
  <2>2. M' = M + 0
    BY ZenonT(60), <1>4, <1>16, <2>1
  <2>. QED  BY SMTT(60), <1>2, <1>3, <1>16, <2>2 DEF queues
<1>17. CASE StreamEnd
  BY SMTT(60), <1>16, <1>17 DEF StreamEnd, history
<1>18. CASE EmitToolResult
  BY SMTT(60), <1>16, <1>18 DEF EmitToolResult, AddToolResult, history
<1>19. CASE SteeringPoll
  <2>1. pending = <<>>
    BY SMTT(60), <1>19 DEF SteeringPoll, HoldInv
  <2>. QED  BY SMTT(60), <1>10, <1>19, <2>1 DEF SteeringPoll
<1>20. CASE FollowUpPoll
  <2>1. pending = <<>> /\ D = 0
    BY SMTT(60), <1>8, <1>20 DEF FollowUpPoll, HoldInv
  <2>2. F = Count(peek(followUpQueue, followUpMode), m) + Count(drained(followUpQueue, followUpMode), m)
    BY <1>1, QueueDrain
  <2>3. F = D' + F'
    BY ZenonT(60), <1>20, <2>2 DEF FollowUpPoll
  <2>4. UNCHANGED <<steeringQueue, messages, prompts, prepared, used, gone, lost>>
    BY SMTT(60), <1>20 DEF FollowUpPoll
  <2>. QED  BY SMTT(60), <1>2, <1>3, <2>1, <2>3, <2>4
<1>21. CASE handleRunFailure
  <2>1. CASE messages' = Append(messages, Assistant)
    BY SMTT(60), <1>16, <1>21, <2>1 DEF handleRunFailure, loop, history
  <2>2. CASE messages' = messages
    BY SMTT(60), <1>7, <1>21, <2>2 DEF handleRunFailure, places, queues, loop, history
  <2>. QED  BY SMTT(60), <1>21, <2>1, <2>2 DEF handleRunFailure
<1>22. CASE finishRun
  <2>1. prompts = <<>> /\ pending = <<>> /\ prepared = <<>>
    BY SMTT(60), <1>22 DEF finishRun, LeaveLoop, HoldInv
  <2>. QED  BY SMTT(60), <1>7, <1>22, <2>1 DEF finishRun, LeaveLoop, places, queues
<1>23. CASE Fail
  <2>1. /\ P = 0 <=> m \notin Elems(prompts)
        /\ D = 0 <=> m \notin Elems(pending)
        /\ R = 0 <=> m \notin Elems(prepared)
    BY Zenon, <1>1, CountIsNat
  <2>2. P' = 0 /\ D' = 0 /\ R' = 0
    BY Zenon, <1>8, <1>23 DEF Fail
  <2>3. UNCHANGED <<steeringQueue, followUpQueue, messages, used, gone>>
    BY SMTT(60), <1>23 DEF Fail, queues
  <2>4. Has(lost', m) = IF Has(lost, m) = 1 \/ P # 0 \/ D # 0 \/ R # 0 THEN 1 ELSE 0
    BY Zenon, <1>23, <2>1 DEF Fail, Has
  <2>5. S' = S /\ F' = F /\ M' = M /\ Has(gone', m) = Has(gone, m)
    BY Zenon, <2>3
  <2>. HIDE DEF S, F, P, D, R, M
  <2>6. used' = used
    BY Zenon, <2>3
  <2>7. CASE P = 0 /\ D = 0 /\ R = 0
    BY SMTT(60), <1>2, <1>5, <2>2, <2>4, <2>5, <2>6, <2>7
  <2>8. CASE ~(P = 0 /\ D = 0 /\ R = 0)
    <3>1. P + D + R = 1 /\ S = 0 /\ F = 0 /\ M = 0 /\ Has(gone, m) = 0 /\ Has(lost, m) = 0
      BY SMTT(60), <1>2, <1>5, <2>8
    <3>. QED  BY SMTT(60), <1>2, <2>2, <2>4, <2>5, <2>6, <3>1, <2>8
  <2>. QED  BY Zenon, <2>7, <2>8
<1>24. ASSUME NEW n \in Msg, NewMessage(n)
       PROVE  used \in Nat /\ m \in Nat /\ used' = used + 1 /\ n = used'
  BY SMTT(60), <1>1, <1>24 DEF NewMessage
<1>25. ASSUME NEW n \in Msg, steer(n)
       PROVE  S' + F' + P' + D' + R' + M' + Has(gone', m) + Has(lost', m) = IF m <= used' THEN 1 ELSE 0
  <2>1. NewMessage(n) /\ steeringQueue' = Append(steeringQueue, n)
        /\ UNCHANGED <<followUpQueue, prompts, pending, prepared, messages, gone, lost>>
    BY SMTT(60), <1>25 DEF steer, loop
  <2>2. Count(Append(steeringQueue, n), m) = S + One(n, m)
    BY SMTT(60), <1>1, QueueAppend
  <2>3. F' = F /\ P' = P /\ D' = D /\ R' = R /\ M' = M /\ Has(gone', m) = Has(gone, m) /\ Has(lost', m) = Has(lost, m)
    BY Zenon, <2>1
  <2>4. S' = S + (IF used' = m THEN 1 ELSE 0)
    BY Zenon, <2>1, <2>2, <1>24 DEF One
  <2>5. used \in Nat /\ m \in Nat /\ used' = used + 1
    BY SMTT(60), <1>24, <2>1
  <2>. HIDE DEF S, F, P, D, R, M
  <2>. QED  BY SMTT(60), <1>2, <1>5, <2>3, <2>4, <2>5
<1>26. ASSUME NEW n \in Msg, followUp(n)
       PROVE  S' + F' + P' + D' + R' + M' + Has(gone', m) + Has(lost', m) = IF m <= used' THEN 1 ELSE 0
  <2>1. NewMessage(n) /\ followUpQueue' = Append(followUpQueue, n)
        /\ UNCHANGED <<steeringQueue, prompts, pending, prepared, messages, gone, lost>>
    BY Zenon, <1>26 DEF followUp, loop
  <2>2. Count(Append(followUpQueue, n), m) = F + One(n, m)
    BY Zenon, <1>1, QueueAppend
  <2>3. S' = S /\ P' = P /\ D' = D /\ R' = R /\ M' = M /\ Has(gone', m) = Has(gone, m) /\ Has(lost', m) = Has(lost, m)
    BY Zenon, <2>1
  <2>4. F' = F + (IF used' = m THEN 1 ELSE 0)
    BY ZenonT(60), <2>1, <2>2, <1>24 DEF One
  <2>5. used \in Nat /\ m \in Nat /\ used' = used + 1
    BY SMTT(60), <1>24, <2>1
  <2>. HIDE DEF S, F, P, D, R, M
  <2>. QED  BY SMTT(60), <1>2, <1>5, <2>3, <2>4, <2>5
\* No run is active, so nothing is held.
<1>27. ASSUME NEW initial, NEW skip, StartRun(initial, skip)
       PROVE  /\ P = 0 /\ D = 0 /\ R = 0 /\ prompts' = initial /\ D' = 0 /\ R' = 0
              /\ M' = M /\ Has(gone', m) = Has(gone, m) /\ Has(lost', m) = Has(lost, m)
              /\ prompts = <<>> /\ UNCHANGED <<pending, prepared, messages, gone, lost>>
  <2>1. ~activeRun /\ prompts' = initial /\ pending' = <<>> /\ prepared' = <<>>
        /\ UNCHANGED <<messages, gone, lost>>
    BY SMTT(60), <1>27 DEF StartRun
  <2>2. prompts = <<>> /\ pending = <<>> /\ prepared = <<>>
    BY SMTT(60), <1>1, <2>1 DEF HoldInv
  <2>3. UNCHANGED <<pending, prepared, messages, gone, lost>>
    BY Zenon, <2>1, <2>2
  <2>4. P = 0 /\ D = 0 /\ R = 0 /\ D' = 0 /\ R' = 0
    BY Zenon, <1>8, <2>1, <2>2
  <2>5. M' = M /\ Has(gone', m) = Has(gone, m) /\ Has(lost', m) = Has(lost, m)
    BY Zenon, <2>1
  <2>. QED  BY ZenonT(60), <2>1, <2>2, <2>3, <2>4, <2>5
<1>28. ASSUME NEW n \in Msg, prompt(n)
       PROVE  S' + F' + P' + D' + R' + M' + Has(gone', m) + Has(lost', m) = IF m <= used' THEN 1 ELSE 0
  <2>1. NewMessage(n) /\ StartRun(<<n>>, FALSE) /\ UNCHANGED <<steeringQueue, followUpQueue>>
    BY ZenonT(60), <1>28 DEF prompt, queues
  <2>2. Count(<<n>>, m) = One(n, m)
    BY Zenon, CountOne DEF One
  <2>3. S' = S /\ F' = F
    BY Zenon, <2>1
  <2>4. P' = IF used' = m THEN 1 ELSE 0
    BY ZenonT(60), <1>24, <1>27, <2>1, <2>2 DEF One
  <2>5. used \in Nat /\ m \in Nat /\ used' = used + 1
    BY SMTT(60), <1>24, <2>1
  <2>6. P = 0 /\ D = 0 /\ R = 0 /\ D' = 0 /\ R' = 0 /\ M' = M
        /\ Has(gone', m) = Has(gone, m) /\ Has(lost', m) = Has(lost, m)
    BY Zenon, <1>27, <2>1
  <2>. HIDE DEF S, F, P, D, R, M
  <2>. QED  BY SMTT(60), <1>2, <1>5, <2>3, <2>4, <2>5, <2>6
<1>29. CASE continueFromQueue
  <2>1. CASE /\ StartRun(peek(steeringQueue, steeringMode), TRUE)
             /\ steeringQueue' = drained(steeringQueue, steeringMode)
             /\ UNCHANGED <<followUpQueue, used>>
    <3>1. S = Count(peek(steeringQueue, steeringMode), m) + Count(drained(steeringQueue, steeringMode), m)
      BY <1>1, QueueDrain
    <3>2. /\ P = 0 /\ D = 0 /\ R = 0 /\ D' = 0 /\ R' = 0 /\ M' = M
          /\ Has(gone', m) = Has(gone, m) /\ Has(lost', m) = Has(lost, m)
          /\ S = P' + S' /\ F' = F /\ used' = used
      BY ZenonT(60), <1>27, <2>1, <3>1
    <3>. HIDE DEF S, F, P, D, R, M
    <3>. QED  BY SMTT(60), <1>2, <1>3, <1>5, <3>2
  <2>2. CASE /\ StartRun(peek(followUpQueue, followUpMode), FALSE)
             /\ followUpQueue' = drained(followUpQueue, followUpMode)
             /\ UNCHANGED <<steeringQueue, used>>
    <3>1. F = Count(peek(followUpQueue, followUpMode), m) + Count(drained(followUpQueue, followUpMode), m)
      BY <1>1, QueueDrain
    <3>2. /\ P = 0 /\ D = 0 /\ R = 0 /\ D' = 0 /\ R' = 0 /\ M' = M
          /\ Has(gone', m) = Has(gone, m) /\ Has(lost', m) = Has(lost, m)
          /\ F = P' + F' /\ S' = S /\ used' = used
      BY ZenonT(60), <1>27, <2>2, <3>1
    <3>. HIDE DEF S, F, P, D, R, M
    <3>. QED  BY SMTT(60), <1>2, <1>3, <1>5, <3>2
  <2>. QED  BY ZenonT(60), <1>29, <2>1, <2>2 DEF continueFromQueue
<1>30. CASE continueFromTranscript
  <2>1. StartRun(<<>>, FALSE) /\ UNCHANGED <<steeringQueue, followUpQueue, used>>
    BY ZenonT(60), <1>30 DEF continueFromTranscript, queues
  <2>2. prompts' = <<>> /\ prompts = <<>> /\ UNCHANGED <<pending, prepared, messages, gone, lost>>
    BY ZenonT(60), <2>1, <1>27
  <2>. QED  BY SMTT(60), <1>7, <2>1, <2>2 DEF places
<1>31. CASE abort \/ (\E s, f \in Modes : SetModes(s, f)) \/ UNCHANGED vars
  BY SMTT(60), <1>7, <1>31 DEF abort, SetModes, vars, places, queues, loop, history
<1>32. CASE clearSteeringQueue
  <2>1. /\ steeringQueue' = <<>> /\ gone' = gone \cup Elems(steeringQueue)
        /\ UNCHANGED <<followUpQueue, prompts, pending, prepared, messages, lost, used>>
    BY Zenon, <1>32 DEF clearSteeringQueue, loop
  <2>2. S = 0 <=> m \notin Elems(steeringQueue)
    BY Zenon, <1>1, CountIsNat
  <2>3. Has(gone', m) = IF Has(gone, m) = 1 \/ S # 0 THEN 1 ELSE 0
    BY SMTT(60), <2>1, <2>2 DEF Has
  <2>4. S' = 0 /\ F' = F /\ P' = P /\ D' = D /\ R' = R /\ M' = M /\ Has(lost', m) = Has(lost, m) /\ used' = used
    BY Zenon, <1>8, <2>1
  <2>. HIDE DEF S, F, P, D, R, M
  <2>. QED  BY SMTT(60), <1>2, <1>5, <2>3, <2>4
<1>33. CASE clearFollowUpQueue
  <2>1. /\ followUpQueue' = <<>> /\ gone' = gone \cup Elems(followUpQueue)
        /\ UNCHANGED <<steeringQueue, prompts, pending, prepared, messages, lost, used>>
    BY Zenon, <1>33 DEF clearFollowUpQueue, loop
  <2>2. F = 0 <=> m \notin Elems(followUpQueue)
    BY Zenon, <1>1, CountIsNat
  <2>3. Has(gone', m) = IF Has(gone, m) = 1 \/ F # 0 THEN 1 ELSE 0
    BY SMTT(60), <2>1, <2>2 DEF Has
  <2>4. F' = 0 /\ S' = S /\ P' = P /\ D' = D /\ R' = R /\ M' = M /\ Has(lost', m) = Has(lost, m) /\ used' = used
    BY ZenonT(60), <1>8, <2>1
  <2>. HIDE DEF S, F, P, D, R, M
  <2>. QED  BY SMTT(60), <1>2, <1>5, <2>3, <2>4
<1>34. ASSUME NEW hit \in {0, 1}, S = S' + hit, F' = F, P' = P, D' = D, R' = R, M' = M,
              Has(gone', m) = (IF Has(gone, m) = 1 \/ hit = 1 THEN 1 ELSE 0),
              Has(lost', m) = Has(lost, m), used' = used
       PROVE  S' + F' + P' + D' + R' + M' + Has(gone', m) + Has(lost', m) = IF m <= used' THEN 1 ELSE 0
  <2>0. S' \in Nat
    BY SMTT(60), <1>3
  <2>1. CASE hit = 0
    BY SMTT(60), <1>2, <1>5, <1>34, <2>0, <2>1
  <2>2. CASE hit = 1
    <3>1. S # 0
      BY SMTT(60), <1>34, <2>0, <2>2
    <3>2. S = 1 /\ Has(gone, m) = 0
      BY SMTT(60), <1>2, <1>5, <3>1
    <3>3. S' = 0
      BY SMTT(60), <1>34, <2>0, <2>2, <3>2
    <3>. QED  BY SMTT(60), <1>2, <1>5, <1>34, <2>2, <3>2, <3>3
  <2>. QED  BY SMTT(60), <2>1, <2>2
<1>35. ASSUME NEW hit \in {0, 1}, F = F' + hit, S' = S, P' = P, D' = D, R' = R, M' = M,
              Has(gone', m) = (IF Has(gone, m) = 1 \/ hit = 1 THEN 1 ELSE 0),
              Has(lost', m) = Has(lost, m), used' = used
       PROVE  S' + F' + P' + D' + R' + M' + Has(gone', m) + Has(lost', m) = IF m <= used' THEN 1 ELSE 0
  <2>0. F' \in Nat
    BY SMTT(60), <1>3
  <2>1. CASE hit = 0
    BY SMTT(60), <1>2, <1>5, <1>35, <2>0, <2>1
  <2>2. CASE hit = 1
    <3>1. F # 0
      BY SMTT(60), <1>35, <2>0, <2>2
    <3>2. F = 1 /\ Has(gone, m) = 0
      BY SMTT(60), <1>2, <1>5, <3>1
    <3>3. F' = 0
      BY SMTT(60), <1>35, <2>0, <2>2, <3>2
    <3>. QED  BY SMTT(60), <1>2, <1>5, <1>35, <2>2, <3>2, <3>3
  <2>. QED  BY SMTT(60), <2>1, <2>2
<1>36. ASSUME NEW i \in 1..Len(steeringQueue), removeSteeringAt(i)
       PROVE  S' + F' + P' + D' + R' + M' + Has(gone', m) + Has(lost', m) = IF m <= used' THEN 1 ELSE 0
  <2>1. /\ steeringQueue' = removeAt(steeringQueue, i) /\ gone' = gone \cup {steeringQueue[i]}
        /\ UNCHANGED <<followUpQueue, prompts, pending, prepared, messages, lost, used>>
    BY SMTT(60), <1>36 DEF removeSteeringAt, loop
  <2>2. S = Count(removeAt(steeringQueue, i), m) + One(steeringQueue[i], m)
    BY SMTT(60), <1>1, QueueRemove
  <2>3. Has(gone', m) = IF Has(gone, m) = 1 \/ One(steeringQueue[i], m) = 1 THEN 1 ELSE 0
    BY Zenon, <2>1 DEF Has, One
  <2>4. S = S' + One(steeringQueue[i], m) /\ F' = F /\ P' = P /\ D' = D /\ R' = R /\ M' = M
        /\ Has(lost', m) = Has(lost, m) /\ used' = used /\ One(steeringQueue[i], m) \in {0, 1}
    BY ZenonT(60), <1>4, <2>1, <2>2
  <2>. QED  BY ZenonT(60), <2>3, <2>4, <1>34
<1>37. ASSUME NEW i \in 1..Len(followUpQueue), removeFollowUpAt(i)
       PROVE  S' + F' + P' + D' + R' + M' + Has(gone', m) + Has(lost', m) = IF m <= used' THEN 1 ELSE 0
  <2>1. /\ followUpQueue' = removeAt(followUpQueue, i) /\ gone' = gone \cup {followUpQueue[i]}
        /\ UNCHANGED <<steeringQueue, prompts, pending, prepared, messages, lost, used>>
    BY SMTT(60), <1>37 DEF removeFollowUpAt, loop
  <2>2. F = Count(removeAt(followUpQueue, i), m) + One(followUpQueue[i], m)
    BY SMTT(60), <1>1, QueueRemove
  <2>3. Has(gone', m) = IF Has(gone, m) = 1 \/ One(followUpQueue[i], m) = 1 THEN 1 ELSE 0
    BY Zenon, <2>1 DEF Has, One
  <2>4. F = F' + One(followUpQueue[i], m) /\ S' = S /\ P' = P /\ D' = D /\ R' = R /\ M' = M
        /\ Has(lost', m) = Has(lost, m) /\ used' = used /\ One(followUpQueue[i], m) \in {0, 1}
    BY ZenonT(60), <1>4, <2>1, <2>2
  <2>. QED  BY ZenonT(60), <2>3, <2>4, <1>35
<1>38. CASE reset
  <2>1. /\ steeringQueue' = <<>> /\ followUpQueue' = <<>> /\ messages' = <<>>
        /\ gone' = gone \cup Elems(steeringQueue) \cup Elems(followUpQueue)
                        \cup {a \in Msg : User(a) \in Elems(messages)}
        /\ UNCHANGED <<prompts, pending, prepared, lost, used>>
    BY Zenon, <1>38 DEF reset, loop
  <2>2. /\ S = 0 <=> m \notin Elems(steeringQueue)
        /\ F = 0 <=> m \notin Elems(followUpQueue)
        /\ M = 0 <=> User(m) \notin Elems(messages)
    BY ZenonT(60), <1>1, CountIsNat
  <2>3. Has(gone', m) = IF Has(gone, m) = 1 \/ S # 0 \/ F # 0 \/ M # 0 THEN 1 ELSE 0
    BY SMTT(60), <2>1, <2>2 DEF Has
  <2>4. S' = 0 /\ F' = 0 /\ M' = 0 /\ P' = P /\ D' = D /\ R' = R /\ Has(lost', m) = Has(lost, m) /\ used' = used
    BY ZenonT(60), <1>8, <2>1
  <2>. HIDE DEF S, F, P, D, R, M
  <2>5. CASE S = 0 /\ F = 0 /\ M = 0
    BY SMTT(60), <1>2, <1>5, <2>3, <2>4, <2>5
  <2>6. CASE ~(S = 0 /\ F = 0 /\ M = 0)
    <3>1. S + F + M = 1 /\ P = 0 /\ D = 0 /\ R = 0 /\ Has(gone, m) = 0 /\ Has(lost, m) = 0
      BY SMTT(60), <1>2, <1>5, <2>6
    <3>. QED  BY SMTT(60), <1>2, <2>3, <2>4, <2>6, <3>1
  <2>. QED  BY SMTT(60), <2>5, <2>6
<1>. HIDE DEF S, F, P, D, R, M
<1>39. CASE LoopStep \/ Fail
  BY ZenonT(60), <1>39, <1>9, <1>11, <1>12, <1>13, <1>14, <1>15, <1>17, <1>18, <1>19, <1>20, <1>21,
     <1>22, <1>23 DEF LoopStep
<1>40. CASE Converse
  BY ZenonT(60), <1>40, <1>25, <1>26, <1>28, <1>29, <1>30, <1>31 DEF Converse
<1>41. CASE Manage
  BY ZenonT(60), <1>41, <1>31, <1>32, <1>33, <1>36, <1>37, <1>38 DEF Manage
<1>. QED  BY ZenonT(60), <1>31, <1>39, <1>40, <1>41 DEF Next

\* A message handed to the agent is in exactly one place: waiting, taken by the
\* run, said, removed by the host or dropped by a failing run, however the
\* host's calls, the polls, the aborts and the failures interleave.
THEOREM DeliveredOnce == Spec => []ExactlyOnce
<1>1. Init => HoldInv
  BY Zenon DEF Init, HoldInv
<1>2. Init => ExactlyOnce
  <2>. SUFFICES ASSUME Init, NEW m \in Msg PROVE Occurrences(m) = IF m <= used THEN 1 ELSE 0
    BY Zenon DEF ExactlyOnce
  <2>1. /\ steeringQueue = <<>> /\ followUpQueue = <<>> /\ messages = <<>> /\ prompts = <<>>
        /\ pending = <<>> /\ prepared = <<>> /\ gone = {} /\ lost = {} /\ used = 0
    BY Zenon DEF Init
  <2>2. Count(<<>>, m) = 0 /\ Count(<<>>, User(m)) = 0
    BY Zenon, CountOne
  <2>3. Cardinality({m} \cap {}) = 0
    BY Zenon, CountSet
  <2>4. Occurrences(m) = 0 + 0 + 0 + 0 + 0 + 0 + 0 + 0
    BY Zenon, <2>1, <2>2, <2>3 DEF Occurrences
  <2>. QED  BY <2>1, <2>4 DEF Msg
<1>3. TypeOK /\ HoldInv /\ ExactlyOnce /\ [Next]_vars => ExactlyOnce'
  BY Zenon, TypeStep, OnceStep
<1>. QED  BY <1>1, <1>2, <1>3, HoldStep, TypeCorrect, PTL DEF Spec
-----------------------------------------------------------------------------
(* Follow-ups after steering *)

\* A follow-up that waits is nowhere else.
WaitsOnly == \A m \in Elems(followUpQueue) : m \notin Elems(pending) \cup Elems(prompts)

LEMMA FollowUpsApart == TypeOK /\ ExactlyOnce => WaitsOnly
<1>. SUFFICES ASSUME TypeOK, ExactlyOnce, NEW m \in Elems(followUpQueue)
              PROVE  m \notin Elems(pending) /\ m \notin Elems(prompts)
  BY Zenon DEF WaitsOnly
<1>1. followUpQueue \in Seq(Msg) /\ prompts \in Seq(Msg) /\ pending \in Seq(Msg)
  BY Zenon DEF TypeOK, TranscriptOK
<1>2. m \in Msg
  BY Zenon, <1>1, ElemsType
<1>3. /\ Count(followUpQueue, m) # 0
      /\ Count(pending, m) = 0 <=> m \notin Elems(pending)
      /\ Count(prompts, m) = 0 <=> m \notin Elems(prompts)
  BY Zenon, <1>1, CountIsNat
<1>4. Summed(m) /\ Occurrences(m) = IF m <= used THEN 1 ELSE 0
  BY Zenon, <1>2, OccurrencesSum DEF ExactlyOnce
<1>5. Has(gone, m) \in {0, 1} /\ Has(lost, m) \in {0, 1}
  BY Zenon DEF Has
<1>6. Count(pending, m) = 0 /\ Count(prompts, m) = 0
  BY SMTT(60), <1>3, <1>4, <1>5 DEF Summed
<1>. QED  BY Zenon, <1>3, <1>6

\* What the loop knows when it comes to poll the follow-ups: the steering poll
\* before found its queue empty.
LateInv == pc = "followUpPoll" => Elems(steeringQueue) \subseteq late

LEMMA LateStep == TypeOK /\ DrainInv /\ LateInv /\ [Next]_vars => LateInv'
<1>. SUFFICES ASSUME TypeOK, DrainInv, LateInv, [Next]_vars, pc' = "followUpPoll"
              PROVE  Elems(steeringQueue') \subseteq late'
  BY Zenon DEF LateInv
<1>0. steeringQueue \in Seq(Msg) /\ (activeRun <=> pc # "idle")
  BY Zenon DEF TypeOK, TranscriptOK, RunOK
<1>1. CASE SteeringPoll
  <2>1. ~skipPoll
    BY Zenon, <1>1 DEF SteeringPoll, DrainInv
  <2>2. pending' = peek(steeringQueue, steeringMode) /\ pending' = <<>>
        /\ steeringQueue' = drained(steeringQueue, steeringMode)
    BY Zenon, <1>1, <2>1 DEF SteeringPoll, PollSteering
  <2>3. steeringQueue = <<>>
    BY Zenon, <1>0, <2>2, QueueTypes
  <2>4. steeringQueue' = <<>>
    BY Zenon, <2>2, <2>3, PeekEmpty
  <2>. QED  BY <2>4 DEF Elems
<1>2. CASE pc = "followUpPoll" /\ UNCHANGED <<steeringQueue, late>>
  BY Zenon, <1>2 DEF LateInv
<1>3. ASSUME NEW m \in Msg, steer(m)
      PROVE  Elems(steeringQueue') \subseteq late'
  <2>1. pc = "followUpPoll" /\ steeringQueue' = Append(steeringQueue, m) /\ late' = late \cup {m}
    BY SMTT(60), <1>3 DEF steer
  <2>2. Elems(Append(steeringQueue, m)) \subseteq Elems(steeringQueue) \cup {m}
    BY SMTT(60), <1>0, AppendProperties, LenProperties DEF Elems
  <2>. QED  BY SMTT(60), <2>1, <2>2 DEF LateInv
<1>4. ASSUME NEW m \in Msg, followUp(m)
      PROVE  Elems(steeringQueue') \subseteq late'
  BY SMTT(60), <1>2, <1>4 DEF followUp
<1>5. CASE abort \/ (\E s, f \in Modes : SetModes(s, f)) \/ clearFollowUpQueue
           \/ (\E i \in 1..Len(followUpQueue) : removeFollowUpAt(i)) \/ UNCHANGED vars
  BY SMTT(60), <1>2, <1>5 DEF abort, SetModes, clearFollowUpQueue, removeFollowUpAt, vars, queues, history
<1>6. CASE clearSteeringQueue
  <2>1. steeringQueue' = <<>>
    BY Zenon, <1>6 DEF clearSteeringQueue
  <2>2. Elems(<<>>) = {}
    BY DEF Elems
  <2>. QED  BY ZenonT(60), <2>1, <2>2
<1>7. ASSUME NEW i \in 1..Len(steeringQueue), removeSteeringAt(i)
      PROVE  Elems(steeringQueue') \subseteq late'
  <2>1. /\ pc = "followUpPoll" /\ steeringQueue' = removeAt(steeringQueue, i)
        /\ late' = late
    BY Zenon, <1>7 DEF removeSteeringAt
  <2>2. ASSUME NEW e \in Elems(removeAt(steeringQueue, i)) PROVE e \in Elems(steeringQueue)
    <3>1. removeAt(steeringQueue, i) \in Seq(Msg)
      BY Zenon, <1>0, RemoveAtType
    <3>2. /\ Count(removeAt(steeringQueue, i), e) \in Nat \ {0}
          /\ Count(steeringQueue, e) \in Nat
          /\ Count(steeringQueue, e) = 0 <=> e \notin Elems(steeringQueue)
      <4>1. /\ Count(removeAt(steeringQueue, i), e) \in Nat
            /\ Count(removeAt(steeringQueue, i), e) # 0
        BY ZenonT(60), <3>1, <2>2, CountIsNat
      <4>2. /\ Count(steeringQueue, e) \in Nat
            /\ Count(steeringQueue, e) = 0 <=> e \notin Elems(steeringQueue)
        BY ZenonT(60), <1>0, CountIsNat
      <4>. QED  BY Zenon, <4>1, <4>2
    <3>3. /\ Count(steeringQueue, e) = Count(removeAt(steeringQueue, i), e) + One(steeringQueue[i], e)
          /\ One(steeringQueue[i], e) \in Nat
      BY SMTT(60), <1>0, QueueRemove DEF One
    <3>. QED  BY <3>2, <3>3
  <2>. QED  BY Zenon, <2>1, <2>2 DEF LateInv
<1>8. CASE reset
  BY Zenon, <1>0, <1>8 DEF reset
<1>9. CASE StartCall
  BY Zenon, <1>9, StartCallEffect
<1>10. ASSUME LoopStep \/ Fail, ~SteeringPoll PROVE FALSE
  <2>1. ~(EmitPrompt \/ InitialPoll \/ PrepareNextTurn)
    BY SMTT(60) DEF EmitPrompt, InitialPoll, PollSteering, PrepareNextTurn
  <2>2. ~(Repoll \/ PushMessage \/ PrepareRequest \/ StartRequest \/ StreamPartial)
    BY SMTT(60) DEF Repoll, PollAgain, PollSteering, PushMessage, PrepareRequest, StartRequest, StreamPartial
  <2>3. ~(StreamEnd \/ EmitToolResult \/ EndBatch \/ FinishTurn)
    BY SMTT(60) DEF StreamEnd, EmitToolResult, AddToolResult, EndBatch, CloseBatch, FinishTurn, DecideTurn
  <2>4. ~(FollowUpPoll \/ EndRun \/ handleRunFailure \/ finishRun \/ Fail)
    BY Zenon DEF FollowUpPoll, EndRun, handleRunFailure, finishRun, LeaveLoop, Fail
  <2>. QED  BY ZenonT(60), <1>10, <2>1, <2>2, <2>3, <2>4 DEF LoopStep
<1>. QED
  BY ZenonT(60), <1>1, <1>3, <1>4, <1>5, <1>6, <1>7, <1>8, <1>9, <1>10, HostCalls DEF Next, QueueCall

\* What a step may not do: take a follow-up while steering waits that the last
\* poll could have seen.
Yields ==
    (\E m \in Elems(followUpQueue) : m \in Elems(pending') \cup Elems(prompts'))
    => Elems(steeringQueue) \subseteq late

\* Only FollowUpPoll and continue() take a follow-up: a step that leaves the
\* follow-ups alone, or the messages the run holds, would say one twice.
LEMMA YieldStep == WaitsOnly /\ WaitsOnly' /\ LateInv /\ [Next]_vars => [Yields]_vars
<1>. SUFFICES ASSUME WaitsOnly, WaitsOnly', LateInv, [Next]_vars PROVE Yields
  BY Zenon
<1>1. CASE UNCHANGED <<pending, prompts>>
  BY Zenon, <1>1 DEF Yields, WaitsOnly
<1>2. CASE UNCHANGED followUpQueue
  BY SMTT(60), <1>2 DEF Yields, WaitsOnly
<1>3. CASE FollowUpPoll
  BY Zenon, <1>3 DEF Yields, LateInv, FollowUpPoll
<1>4. CASE continueFromQueue
  <2>1. UNCHANGED followUpQueue \/ steeringQueue = <<>>
    BY ZenonT(60), <1>4 DEF continueFromQueue
  <2>2. CASE steeringQueue = <<>>
    BY SMTT(60), <2>2 DEF Yields, Elems
  <2>. QED  BY SMTT(60), <1>2, <2>1, <2>2
<1>5. CASE EmitPrompt \/ InitialPoll \/ PrepareNextTurn \/ Repoll \/ PushMessage
  BY Zenon, <1>2, <1>5 DEF EmitPrompt, InitialPoll, PrepareNextTurn, Repoll, PollAgain, PushMessage, queues
<1>6. CASE PrepareRequest \/ StartRequest \/ StreamPartial \/ StreamEnd \/ EmitToolResult \/ EndBatch
  BY ZenonT(60), <1>2, <1>6 DEF PrepareRequest, StartRequest, StreamPartial, StreamEnd, EmitToolResult,
     AddToolResult, EndBatch, CloseBatch, queues
<1>7. CASE FinishTurn \/ SteeringPoll \/ EndRun \/ handleRunFailure \/ finishRun \/ Fail
  BY Zenon, <1>2, <1>7 DEF FinishTurn, DecideTurn, SteeringPoll, EndRun, handleRunFailure, finishRun,
     LeaveLoop, Fail, queues
<1>8. CASE QueueCall \/ reset \/ UNCHANGED vars
  <2>1. QueueCall => UNCHANGED <<pending, prompts>>
    BY SMTT(60), QueueCallFrame
  <2>2. reset \/ UNCHANGED vars => UNCHANGED <<pending, prompts>>
    BY Zenon DEF reset, vars, loop
  <2>. QED  BY SMTT(60), <1>1, <1>8, <2>1, <2>2
<1>9. CASE (\E m \in Msg : prompt(m)) \/ continueFromTranscript
  BY ZenonT(60), <1>2, <1>9 DEF prompt, continueFromTranscript, queues
<1>. QED
  BY ZenonT(60), <1>3, <1>4, <1>5, <1>6, <1>7, <1>8, <1>9, HostCalls DEF Next, LoopStep, StartCall

\* When a follow-up leaves its queue, any steering message still waiting came
\* after the last steering poll, whichever call or poll takes it.
THEOREM FollowUpsYield == Spec => FollowUpsYieldToSteering
<1>1. Init => DrainInv /\ LateInv
  BY Zenon DEF Init, DrainInv, LateInv
<1>2. Spec => [](WaitsOnly /\ LateInv)
  BY <1>1, DrainStep, LateStep, FollowUpsApart, TypeCorrect, DeliveredOnce, PTL DEF Spec
<1>3. Spec => [][Yields]_vars
  BY <1>2, YieldStep, PTL DEF Spec
<1>. QED  BY Zenon, <1>3 DEF FollowUpsYieldToSteering, Yields
=============================================================================
