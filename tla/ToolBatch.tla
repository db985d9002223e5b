------------------------------ MODULE ToolBatch -----------------------------
(***************************************************************************)
(* The tool calls of one assistant message (agent-loop.ts, from            *)
(* failToolCallsFromTruncatedMessage to emitToolResultMessage), and the    *)
(* end of the run they belong to when a listener throws.                   *)
(*                                                                         *)
(* A batch is truncated (the message hit the token limit), sequential or   *)
(* parallel.  A parallel batch prepares its calls one after the other and  *)
(* then runs them all; the closures of Promise.all that are still running  *)
(* when one of them throws are not stopped.                                *)
(***************************************************************************)
EXTENDS Naturals, Sequences, FiniteSets

CONSTANT NCalls     \* tool calls in the message

ASSUME NCallsAssumption == NCalls \in Nat \ {0}

VARIABLES
    mode,               \* which of the three batches
    aborted,            \* signal.aborted
    pc,                 \* the batch, then the run it belongs to
    at,                 \* the call the loop over toolCalls is at
    st,                 \* how far each call is
    terminate,          \* result.terminate of each call that has a result
    badUpdate,          \* calls one of whose updates a listener threw on
    pendingToolCalls,   \* Agent._state.pendingToolCalls
    results,            \* tool-result messages in the transcript, by call
    ends,               \* history: tool_execution_end events of each call
    executed            \* history: calls whose tool was executed

vars == <<mode, aborted, pc, at, st, terminate, badUpdate, pendingToolCalls,
          results, ends, executed>>

Calls == 1..NCalls
Modes == {"truncated", "sequential", "parallel"}

\* st[i] goes through "idle", "started", "prepared", "executing", "executed",
\* "ending", "ended" and "reported", or to "threw"; pc is "calls", "join",
\* "results", "done", or, when a listener threw, "failing", "agentEnd", "over",
\* "nextRun".

\* A start event went out and no end event yet.
Open == {i \in Calls : st[i] \in {"started", "prepared", "executing", "executed"}}

Init ==
    /\ mode \in Modes /\ aborted = FALSE
    /\ pc = "calls" /\ at = 1
    /\ st = [i \in Calls |-> "idle"]
    /\ terminate = [i \in Calls |-> FALSE]
    /\ badUpdate = {} /\ pendingToolCalls = {} /\ results = <<>>
    /\ ends = [i \in Calls |-> 0] /\ executed = {}
-----------------------------------------------------------------------------
Become(i, s) == st' = [st EXCEPT ![i] = s]

\* Listeners are called while a run is active, be it the next one.
Heard == pc # "over"

\* emitToolExecutionEnd for the calls in S: the state is reduced at once, the
\* listeners run afterwards.
EndEvents(S) ==
    /\ pendingToolCalls' = pendingToolCalls \ S
    /\ ends' = [i \in Calls |-> IF i \in S THEN ends[i] + 1 ELSE ends[i]]

\* Call i has its result; term is result.terminate.
Finalize(i, term) ==
    /\ Become(i, "ending")
    /\ terminate' = [terminate EXCEPT ![i] = term]
    /\ EndEvents({i})

abort ==
    /\ pc \notin {"over", "nextRun"}
    /\ aborted' = TRUE
    /\ UNCHANGED <<mode, pc, at, st, terminate, badUpdate, pendingToolCalls,
                   results, ends, executed>>

EmitStart(i) ==
    /\ pc = "calls" /\ at = i /\ st[i] = "idle"
    /\ Become(i, "started")
    /\ pendingToolCalls' = pendingToolCalls \cup {i}
    /\ UNCHANGED <<mode, aborted, pc, at, terminate, badUpdate, results, ends,
                   executed>>

\* A call of a truncated message is failed without being looked at.
FailTruncated(i) ==
    /\ mode = "truncated" /\ pc = "calls" /\ at = i /\ st[i] = "started"
    /\ Finalize(i, FALSE)
    /\ UNCHANGED <<mode, aborted, pc, at, badUpdate, results, executed>>

\* Unknown tool, bad arguments, blocked (which may ask to terminate) or
\* aborted: the call has its result.  Otherwise it is prepared.
prepareToolCall(i) ==
    /\ mode # "truncated" /\ pc = "calls" /\ at = i /\ st[i] = "started"
    /\ \/ \E t \in BOOLEAN : (aborted => ~t) /\ Finalize(i, t)
       \/ /\ ~aborted /\ Become(i, "prepared")
          /\ UNCHANGED <<terminate, pendingToolCalls, ends>>
    /\ UNCHANGED <<mode, aborted, pc, at, badUpdate, results, executed>>

\* A sequential batch runs a prepared call right away.
Execute(i) ==
    /\ mode = "sequential" /\ pc = "calls" /\ at = i /\ st[i] = "prepared"
    /\ Become(i, "executing")
    /\ executed' = executed \cup {i}
    /\ UNCHANGED <<mode, aborted, pc, at, terminate, badUpdate, pendingToolCalls,
                   results, ends>>
-----------------------------------------------------------------------------
(* From execution to the end event; also after the run is over. *)

\* tool_execution_update; a listener may throw, and outside a run
\* processEvents does.
Update(i) ==
    /\ st[i] = "executing"
    /\ badUpdate' \in IF Heard THEN {badUpdate, badUpdate \cup {i}}
                      ELSE {badUpdate \cup {i}}
    /\ UNCHANGED <<mode, aborted, pc, at, st, terminate, pendingToolCalls, results,
                   ends, executed>>

\* An emit threw out of call i: the batch fails, at once also if other calls
\* of it are still running.
Throw(i) ==
    /\ Become(i, "threw")
    /\ pc' = IF pc \in {"calls", "join", "results"} THEN "failing" ELSE pc
    /\ UNCHANGED <<mode, aborted, at, terminate, badUpdate, pendingToolCalls, results,
                   ends, executed>>


\* execute() settled and its updates are flushed.
Returned(i) ==
    /\ st[i] = "executing"
    /\ \/ i \in badUpdate /\ Throw(i)
       \/ /\ i \notin badUpdate /\ Become(i, "executed")
          /\ UNCHANGED <<mode, aborted, pc, at, terminate, badUpdate,
                         pendingToolCalls, results, ends, executed>>

\* afterToolCall may replace the result; if it throws, the result is an error.
finalizeExecutedToolCall(i) ==
    /\ st[i] = "executed"
    /\ \E t \in BOOLEAN : Finalize(i, t)
    /\ UNCHANGED <<mode, aborted, pc, at, badUpdate, results, executed>>

\* The listeners of the end event settled.
Ended(i) ==
    /\ st[i] = "ending" /\ Heard
    /\ Become(i, "ended")
    /\ UNCHANGED <<mode, aborted, pc, at, terminate, badUpdate, pendingToolCalls,
                   results, ends, executed>>

\* A listener throws on a start or end event or on a result message, or there
\* is no run to hear the end event.
ListenerThrows(i) ==
    /\ \/ pc = "calls" /\ at = i /\ st[i] \in {"started", "reported"}
       \/ st[i] = "ending"
       \/ pc = "results" /\ results # <<>> /\ i = results[Len(results)]
    /\ Throw(i)
-----------------------------------------------------------------------------
(* Result messages and the next call *)

\* Sequential and truncated batches report each call when it ended.
Report(i) ==
    /\ mode # "parallel" /\ pc = "calls" /\ at = i /\ st[i] = "ended"
    /\ Become(i, "reported")
    /\ results' = Append(results, i)
    /\ UNCHANGED <<mode, aborted, pc, at, terminate, badUpdate, pendingToolCalls,
                   ends, executed>>

\* An abort breaks the loop of a sequential batch after the call's report.
NextCall(i) ==
    /\ mode # "parallel" /\ pc = "calls" /\ at = i /\ st[i] = "reported"
    /\ IF i = NCalls \/ (aborted /\ mode = "sequential")
       THEN pc' = "done" /\ UNCHANGED at
       ELSE at' = i + 1 /\ UNCHANGED pc
    /\ UNCHANGED <<mode, aborted, st, terminate, badUpdate, pendingToolCalls, results,
                   ends, executed>>

\* A parallel batch goes to the next call, or, when there is none or the
\* signal is aborted, calls all closures: each looks at the signal first.
NextParallel(i) ==
    /\ mode = "parallel" /\ pc = "calls" /\ at = i /\ st[i] \in {"prepared", "ended"}
    /\ IF i < NCalls /\ ~aborted
       THEN at' = i + 1 /\ UNCHANGED <<pc, st, pendingToolCalls, ends, executed>>
       ELSE LET ready == {j \in Calls : st[j] = "prepared"}
                next  == IF aborted THEN "ending" ELSE "executing"
            IN  /\ pc' = "join"
                /\ st' = [j \in Calls |-> IF j \in ready THEN next ELSE st[j]]
                /\ executed' = IF aborted THEN executed ELSE executed \cup ready
                /\ EndEvents(IF aborted THEN ready ELSE {})
                /\ UNCHANGED at
    /\ UNCHANGED <<mode, aborted, terminate, badUpdate, results>>

\* Faulty variant: Promise.race instead of Promise.all.
Join_race ==
    /\ pc = "join"
    /\ \E i \in Calls : st[i] = "ended"
    /\ pc' = "results"
    /\ UNCHANGED <<mode, aborted, at, st, terminate, badUpdate, pendingToolCalls,
                   results, ends, executed>>

\* Faulty variant: the batch waits for calls it never started.
Join_all ==
    /\ pc = "join"
    /\ \A i \in Calls : st[i] = "ended"
    /\ pc' = "results"
    /\ UNCHANGED <<mode, aborted, at, st, terminate, badUpdate, pendingToolCalls,
                   results, ends, executed>>

\* Promise.all resolves.
Join ==
    /\ pc = "join"
    /\ \A i \in Calls : st[i] \in {"idle", "ended"}
    /\ pc' = "results"
    /\ UNCHANGED <<mode, aborted, at, st, terminate, badUpdate, pendingToolCalls,
                   results, ends, executed>>

\* The results of a parallel batch are reported in the order of the calls.
ReportNext ==
    /\ pc = "results"
    /\ \E i \in Calls :
         /\ st[i] = "ended" /\ \A j \in 1..(i - 1) : st[j] # "ended"
         /\ Become(i, "reported")
         /\ results' = Append(results, i)
    /\ UNCHANGED <<mode, aborted, pc, at, terminate, badUpdate, pendingToolCalls,
                   ends, executed>>

AllReported ==
    /\ pc = "results"
    /\ \A i \in Calls : st[i] # "ended"
    /\ pc' = "done"
    /\ UNCHANGED <<mode, aborted, at, st, terminate, badUpdate, pendingToolCalls,
                   results, ends, executed>>

\* What the batch returns: all results it has ask to terminate.
shouldTerminateToolBatch ==
    /\ mode # "truncated"
    /\ results # <<>> /\ \A k \in 1..Len(results) : terminate[results[k]]
-----------------------------------------------------------------------------
(* The run after a throw *)

\* handleRunFailure: agent_end goes out.
handleRunFailure ==
    /\ pc = "failing" /\ pc' = "agentEnd"
    /\ UNCHANGED <<mode, aborted, at, st, terminate, badUpdate, pendingToolCalls,
                   results, ends, executed>>

\* Faulty variant: what is pending stays so.
finishRun_keep ==
    /\ pc = "agentEnd" /\ pc' = "over"
    /\ UNCHANGED <<mode, aborted, at, st, terminate, badUpdate, pendingToolCalls,
                   results, ends, executed>>

finishRun ==
    /\ pc = "agentEnd" /\ pc' = "over"
    /\ pendingToolCalls' = {}
    /\ UNCHANGED <<mode, aborted, at, st, terminate, badUpdate, results, ends,
                   executed>>

\* The host prompts again.
NextRun ==
    /\ pc = "over" /\ pc' = "nextRun"
    /\ UNCHANGED <<mode, aborted, at, st, terminate, badUpdate, pendingToolCalls,
                   results, ends, executed>>
-----------------------------------------------------------------------------
CallStep(i) ==
    \/ EmitStart(i) \/ FailTruncated(i) \/ prepareToolCall(i) \/ Execute(i)
    \/ Returned(i) \/ finalizeExecutedToolCall(i) \/ Ended(i)
    \/ Report(i) \/ NextCall(i) \/ NextParallel(i)

BatchStep == Join \/ ReportNext \/ AllReported \/ handleRunFailure \/ finishRun

Next ==
    \/ \E i \in Calls : CallStep(i) \/ Update(i) \/ ListenerThrows(i)
    \/ BatchStep
    \/ abort \/ NextRun

Spec == Init /\ [][Next]_vars

\* Tools, hooks and listeners settle.
FairSpec == Spec /\ WF_vars(BatchStep) /\ \A i \in Calls : WF_vars(CallStep(i))
-----------------------------------------------------------------------------
(* Properties *)

\* What the turn loop (EndBatch of AgentRun) relies on when a batch returns:
\* the first calls of the message, in their order whatever order they ended
\* in, have one end event and one result each, and no other call has started.
\* Only an abort leaves calls without result, never all of them, and never
\* those of a truncated message, of which none was executed and which goes on.
BatchContract ==
    pc = "done" =>
        /\ results = [k \in 1..Len(results) |-> k]
        /\ \A i \in Calls : /\ st[i] = (IF i <= Len(results) THEN "reported" ELSE "idle")
                            /\ ends[i] = (IF i <= Len(results) THEN 1 ELSE 0)
        /\ Len(results) < NCalls => aborted /\ results # <<>> /\ mode # "truncated"
        /\ mode = "truncated" => executed = {} /\ ~shouldTerminateToolBatch

\* The pending tool calls the host is shown are those that started and have
\* not ended, and none once the run is over, also while calls that outlived a
\* failed run are still finishing.
PendingExact ==
    /\ pc \in {"calls", "join", "results", "done"} => pendingToolCalls = Open
    /\ pc \in {"done", "over", "nextRun"} => pendingToolCalls = {}

\* The batch failed, or the run it belongs to already ended for that.
Failed == pc \in {"failing", "agentEnd", "over", "nextRun"}


\* Every batch returns or fails with its run.
BatchSettles == <>(pc \in {"done", "over", "nextRun"})
=============================================================================
