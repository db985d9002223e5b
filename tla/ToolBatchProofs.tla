--------------------------- MODULE ToolBatchProofs --------------------------
(***************************************************************************)
(* What a batch of any number of calls gives the turn loop.                *)
(***************************************************************************)
EXTENDS ToolBatch, SequenceTheorems, TLAPS

Statuses == {"idle", "started", "prepared", "executing", "executed", "ending",
             "ended", "reported", "threw"}
Normal   == {"calls", "join", "results", "done"}
PCs      == Normal \cup {"failing", "agentEnd", "over", "nextRun"}

TypeOK ==
    /\ mode \in Modes /\ pc \in PCs /\ at \in Calls /\ st \in [Calls -> Statuses]
    /\ pendingToolCalls \subseteq Calls /\ results \in Seq(Calls)
    /\ ends \in [Calls -> Nat] /\ executed \subseteq Calls

\* The events of a batch whose listeners have not thrown: a call is shown as
\* pending from its start event to its one end event.
Events ==
    /\ pendingToolCalls = Open
    /\ \A i \in Calls : ends[i] = IF st[i] \in {"ending", "ended", "reported"} THEN 1 ELSE 0

\* How far the calls are: those behind the loop's are untouched, and those before
\* it where the kind of batch and its stage have taken them.
OneByOne ==
    /\ pc \in {"calls", "done"}
    /\ \A i \in Calls : i < at => st[i] = "reported"
    /\ st[at] # "threw"
    /\ Len(results) = IF st[at] = "reported" THEN at ELSE at - 1
    /\ pc = "done" => st[at] = "reported"

Together ==
    /\ pc = "calls" =>
         /\ results = <<>> /\ st[at] \in {"idle", "started", "prepared", "ending", "ended"}
         /\ \A i \in Calls : i < at => st[i] \in {"prepared", "ended"}
    /\ pc = "join" =>
         /\ results = <<>>
         /\ \A i \in Calls : i <= at => st[i] \in {"executing", "executed", "ending", "ended"}
    /\ pc \in {"results", "done"} =>
         /\ Len(results) <= at /\ (pc = "done" => Len(results) = at)
         /\ \A i \in Calls : i <= at => st[i] = IF i <= Len(results) THEN "reported" ELSE "ended"

Stages ==
    /\ results = [k \in 1..Len(results) |-> k]
    /\ \A i \in Calls : i > at => st[i] = "idle"
    /\ mode # "parallel" => OneByOne
    /\ mode = "parallel" => Together
    /\ pc # "calls" /\ at # NCalls => aborted /\ mode # "truncated"

IInv ==
    /\ TypeOK
    /\ pc \in Normal => Events /\ Stages
    /\ pc \in {"over", "nextRun"} => pendingToolCalls = {}
    /\ mode = "truncated" => executed = {}
-----------------------------------------------------------------------------
\* The result of the next call goes to the end of those of the calls before.
LEMMA NextResult ==
    ASSUME NEW s \in Seq(Calls), NEW i \in Calls, s = [k \in 1..Len(s) |-> k], Len(s) + 1 = i
    PROVE  /\ Append(s, i) = [k \in 1..Len(Append(s, i)) |-> k]
           /\ Len(Append(s, i)) = i
<1>. DEFINE a == Append(s, i)
<1>1. a \in Seq(Calls) /\ Len(a) = i /\ \A k \in 1..i : a[k] = IF k <= Len(s) THEN s[k] ELSE i
  OBVIOUS
<1>2. \A k \in 1..i : a[k] = k
  BY <1>1 DEF Calls
<1>. HIDE DEF a
<1>3. a \in [1..Len(a) -> Calls]
  BY <1>1, LenProperties
<1>4. a = [k \in 1..Len(a) |-> k]
  BY <1>1, <1>2, <1>3
<1>. QED  BY <1>1, <1>4 DEF a

\* The three ways on for a parallel batch: to the next call, or to the join, with
\* the prepared calls ended by an abort or executing.
Prepared == {j \in Calls : st[j] = "prepared"}
Onward(i) ==
    /\ pc = "calls" /\ i < NCalls /\ ~aborted /\ at' = i + 1
    /\ UNCHANGED <<mode, pc, st, pendingToolCalls, results, ends, executed, aborted>>
Cancel ==
    /\ pc = "calls" /\ aborted /\ pc' = "join"
    /\ st' = [j \in Calls |-> IF j \in Prepared THEN "ending" ELSE st[j]]
    /\ EndEvents(Prepared) /\ UNCHANGED <<mode, at, results, executed, aborted>>
Start ==
    /\ pc = "calls" /\ at = NCalls /\ pc' = "join"
    /\ st' = [j \in Calls |-> IF j \in Prepared THEN "executing" ELSE st[j]]
    /\ EndEvents({}) /\ executed' = executed \cup Prepared
    /\ UNCHANGED <<mode, at, results, aborted>>

LEMMA ParallelSteps ==
    ASSUME NEW i \in Calls, NextParallel(i)
    PROVE  /\ mode = "parallel" /\ at = i /\ st[i] \in {"prepared", "ended"}
           /\ Onward(i) \/ Cancel \/ Start
<1>1. CASE i < NCalls /\ ~aborted
  BY <1>1 DEF NextParallel, Onward
<1>2. CASE aborted
  BY Zenon, <1>2 DEF NextParallel, Cancel, Prepared
<1>3. CASE ~(i < NCalls) /\ ~aborted
  <2>1. i = NCalls
    BY <1>3, NCallsAssumption DEF Calls
  <2>. QED  BY Zenon, <1>3, <2>1 DEF NextParallel, Start, Prepared
<1>. QED  BY <1>1, <1>2, <1>3

LEMMA IInvInit == Init => IInv
<1>. SUFFICES ASSUME Init PROVE IInv
  OBVIOUS
<1>. USE NCallsAssumption DEF Init
<1>1. TypeOK
  BY DEF TypeOK, Calls, Modes, PCs, Normal, Statuses
<1>2. Events
  BY DEF Events, Open
<1>3. Stages
  BY DEF Stages, OneByOne, Together, Calls
<1>. QED  BY <1>1, <1>2, <1>3 DEF IInv

LEMMA TypeKept == ASSUME TypeOK, [Next]_vars PROVE TypeOK'
<1>. USE NCallsAssumption DEF TypeOK, Become, Finalize, EndEvents, Calls, PCs, Normal, Statuses, Prepared
<1>1. ASSUME NEW i \in Calls, CallStep(i) PROVE TypeOK'
  <2>1. CASE EmitStart(i)
    BY <2>1 DEF EmitStart
  <2>2. CASE FailTruncated(i)
    BY <2>2 DEF FailTruncated
  <2>3. CASE prepareToolCall(i)
    <3>1. CASE \E t \in BOOLEAN : Finalize(i, t)
      BY <2>3, <3>1 DEF prepareToolCall
    <3>2. CASE Become(i, "prepared") /\ UNCHANGED <<terminate, pendingToolCalls, ends>>
      BY SMTT(60), <2>3, <3>2 DEF prepareToolCall
    <3>. QED  BY Zenon, <2>3, <3>1, <3>2 DEF prepareToolCall
  <2>4. CASE Execute(i)
    BY <2>4 DEF Execute
  <2>5. CASE Returned(i)
    BY Zenon, <2>5 DEF Returned, Throw
  <2>6. CASE finalizeExecutedToolCall(i)
    BY <2>6 DEF finalizeExecutedToolCall
  <2>7. CASE Ended(i)
    BY <2>7 DEF Ended
  <2>8. CASE Report(i)
    BY <2>8 DEF Report
  <2>9. CASE NextCall(i)
    BY <2>9 DEF NextCall
  <2>10. CASE NextParallel(i)
    <3>1. CASE Onward(i)
      BY <3>1 DEF Onward
    <3>2. CASE Cancel
      <4>1. st' \in [Calls -> Statuses]
        BY <3>2 DEF Cancel
      <4>2. ends' \in [Calls -> Nat]
        BY <3>2 DEF Cancel
      <4>3. pendingToolCalls' \subseteq Calls
        BY Zenon, <3>2 DEF Cancel
      <4>. QED  BY Zenon, <3>2, <4>1, <4>2, <4>3 DEF Cancel
    <3>3. CASE Start
      BY Zenon, <3>3 DEF Start
    <3>. QED  BY SMTT(60), <2>10, <3>1, <3>2, <3>3, ParallelSteps
  <2>. QED  BY Zenon, <1>1, <2>1, <2>2, <2>3, <2>4, <2>5, <2>6, <2>7, <2>8, <2>9, <2>10 DEF CallStep
<1>2. ASSUME NEW i \in Calls, Update(i) PROVE TypeOK'
  BY <1>2 DEF Update
<1>3. ASSUME NEW i \in Calls, ListenerThrows(i) PROVE TypeOK'
  BY <1>3 DEF ListenerThrows, Throw
<1>4. CASE ReportNext
  BY <1>4 DEF ReportNext
<1>5. CASE Join \/ AllReported \/ handleRunFailure \/ finishRun \/ NextRun \/ abort
  BY Zenon, <1>5 DEF Join, AllReported, handleRunFailure, finishRun, NextRun, abort
<1>6. CASE UNCHANGED vars
  BY <1>6 DEF vars
<1>. QED  BY Zenon, <1>1, <1>2, <1>3, <1>4, <1>5, <1>6 DEF Next, BatchStep

LEMMA EventsKept == ASSUME IInv, [Next]_vars, pc' \in Normal PROVE Events'
<1>. USE NCallsAssumption DEF IInv, TypeOK, Normal, Events, Open, Become, Finalize, EndEvents, Prepared
<1>1. ASSUME NEW i \in Calls, CallStep(i) PROVE Events'
  <2>1. CASE EmitStart(i)
    BY <2>1 DEF EmitStart
  <2>2. CASE FailTruncated(i)
    BY <2>2 DEF FailTruncated
  <2>3. CASE prepareToolCall(i)
    <3>1. CASE \E t \in BOOLEAN : Finalize(i, t)
      BY <2>3, <3>1 DEF prepareToolCall
    <3>2. CASE Become(i, "prepared") /\ UNCHANGED <<terminate, pendingToolCalls, ends>>
      BY <2>3, <3>2 DEF prepareToolCall
    <3>. QED  BY SMTT(60), <2>3, <3>1, <3>2 DEF prepareToolCall
  <2>4. CASE Execute(i)
    BY <2>4 DEF Execute
  <2>5. CASE Returned(i)
    <3>1. CASE Throw(i)
      BY SMTT(60), <2>5, <3>1 DEF Returned, Throw, Stages, OneByOne, Together, Calls
    <3>2. CASE Become(i, "executed") /\ UNCHANGED <<pc, pendingToolCalls, ends>>
      <4>1. st[i] = "executing"
        BY <2>5 DEF Returned
      <4>. QED  BY <3>2, <4>1
    <3>. QED  BY Zenon, <2>5, <3>1, <3>2 DEF Returned
  <2>6. CASE finalizeExecutedToolCall(i)
    BY <2>6 DEF finalizeExecutedToolCall
  <2>7. CASE Ended(i)
    BY <2>7 DEF Ended
  <2>8. CASE Report(i)
    BY <2>8 DEF Report
  <2>9. CASE NextCall(i)
    BY <2>9 DEF NextCall
  <2>10. CASE NextParallel(i)
    <3>1. CASE Onward(i)
      BY <3>1 DEF Onward
    <3>2. CASE Cancel
      BY <3>2 DEF Cancel
    <3>3. CASE Start
      BY <3>3 DEF Start
    <3>. QED  BY <2>10, <3>1, <3>2, <3>3, ParallelSteps
  <2>. QED  BY <1>1, <2>1, <2>2, <2>3, <2>4, <2>5, <2>6, <2>7, <2>8, <2>9, <2>10 DEF CallStep
<1>2. ASSUME NEW i \in Calls, Update(i) PROVE Events'
  BY <1>2 DEF Update
<1>3. ASSUME NEW i \in Calls, ListenerThrows(i) PROVE Events'
  BY SMTT(60), <1>3 DEF ListenerThrows, Throw, Stages, OneByOne, Together, Calls
<1>4. CASE ReportNext
  BY <1>4 DEF ReportNext
<1>5. CASE Join \/ AllReported \/ handleRunFailure \/ finishRun \/ NextRun \/ abort
  BY <1>5 DEF Join, AllReported, handleRunFailure, finishRun, NextRun, abort
<1>6. CASE UNCHANGED vars
  BY <1>6 DEF vars
<1>. QED  BY <1>1, <1>2, <1>3, <1>4, <1>5, <1>6 DEF Next, BatchStep

LEMMA StagesKept == ASSUME IInv, [Next]_vars, pc' \in Normal PROVE Stages'
<1>. USE NCallsAssumption DEF IInv, TypeOK, Normal, Statuses, Calls, Stages, OneByOne, Together,
         Become, Finalize
<1>1. ASSUME NEW i \in Calls, CallStep(i) PROVE Stages'
  <2>1. CASE EmitStart(i)
    BY SMTT(60), <2>1 DEF EmitStart
  <2>2. CASE FailTruncated(i)
    BY <2>2 DEF FailTruncated
  <2>3. CASE prepareToolCall(i)
    <3>1. CASE Become(i, "ending")
      BY SMTT(60), <2>3, <3>1 DEF prepareToolCall
    <3>2. CASE Become(i, "prepared")
      BY <2>3, <3>2 DEF prepareToolCall
    <3>. QED  BY Zenon, <2>3, <3>1, <3>2 DEF prepareToolCall
  <2>4. CASE Execute(i)
    BY <2>4 DEF Execute
  <2>5. CASE Returned(i)
    <3>1. st[i] = "executing"
      BY <2>5 DEF Returned
    <3>2. CASE Throw(i)
      BY SMTT(60), <3>1, <3>2 DEF Throw
    <3>3. CASE Become(i, "executed") /\ UNCHANGED <<mode, aborted, pc, at, results>>
      BY ZenonT(60), <3>1, <3>3
    <3>. QED  BY Zenon, <2>5, <3>2, <3>3 DEF Returned
  <2>6. CASE finalizeExecutedToolCall(i)
    BY ZenonT(60), <2>6 DEF finalizeExecutedToolCall
  <2>7. CASE Ended(i)
    BY SMTT(60), <2>7 DEF Ended
  <2>8. CASE Report(i)
    <3>1. /\ mode # "parallel" /\ pc = "calls" /\ at = i /\ st[i] = "ended"
          /\ st' = [st EXCEPT ![i] = "reported"] /\ results' = Append(results, i)
          /\ UNCHANGED <<mode, aborted, pc, at>>
      BY <2>8 DEF Report
    <3>2. Len(results) + 1 = i
      BY <3>1
    <3>3. results' = [k \in 1..Len(results') |-> k] /\ Len(results') = i
      BY <3>1, <3>2, NextResult
    <3>. HIDE DEF Stages
    <3>4. OneByOne'
      BY <3>1, <3>3 DEF Stages
    <3>5. \A j \in Calls : j > at' => st'[j] = "idle"
      BY <3>1 DEF Stages
    <3>. QED  BY <3>1, <3>3, <3>4, <3>5 DEF Stages
  <2>9. CASE NextCall(i)
    BY SMTT(60), <2>9 DEF NextCall
  <2>10. CASE NextParallel(i)
    <3>. HIDE DEF Stages, OneByOne, Together, Calls
    <3>0. /\ mode = "parallel" /\ at = i /\ st[i] \in {"prepared", "ended"}
          /\ Onward(i) \/ Cancel \/ Start
      BY <2>10, ParallelSteps
    <3>p. pc = "calls" /\ mode' = mode /\ results' = results /\ aborted' = aborted
      BY <3>0 DEF Onward, Cancel, Start
    <3>q. Stages /\ Together
      BY <3>0, <3>p DEF Stages
    <3>r. /\ results = <<>> /\ \A j \in Calls : j < i => st[j] \in {"prepared", "ended"}
          /\ \A j \in Calls : j > i => st[j] = "idle"
      BY <3>0, <3>p, <3>q DEF Stages, Together
    <3>1. CASE Onward(i)
      <4>1. Together'
        BY <3>0, <3>p, <3>r, <3>1 DEF Onward, Together, Calls
      <4>2. \A j \in Calls : j > at' => st'[j] = "idle"
        BY <3>r, <3>1 DEF Onward, Calls
      <4>. QED  BY <3>0, <3>p, <3>q, <3>1, <4>1, <4>2 DEF Stages, Onward
    <3>2. CASE Cancel
      <4>1. Together'
        BY <3>0, <3>p, <3>r, <3>2 DEF Cancel, Prepared, Together, Calls
      <4>2. \A j \in Calls : j > at' => st'[j] = "idle"
        BY <3>0, <3>r, <3>2 DEF Cancel, Prepared
      <4>. QED  BY <3>0, <3>p, <3>q, <3>2, <4>1, <4>2 DEF Stages, Cancel
    <3>3. CASE Start
      <4>1. Together'
        BY <3>0, <3>p, <3>r, <3>3 DEF Start, Prepared, Together, Calls
      <4>2. \A j \in Calls : j > at' => st'[j] = "idle"
        BY <3>0, <3>r, <3>3 DEF Start, Prepared
      <4>. QED  BY <3>0, <3>p, <3>q, <3>3, <4>1, <4>2 DEF Stages, Start
    <3>. QED  BY <3>0, <3>1, <3>2, <3>3
  <2>. QED  BY <1>1, <2>1, <2>2, <2>3, <2>4, <2>5, <2>6, <2>7, <2>8, <2>9, <2>10 DEF CallStep
<1>2. ASSUME NEW i \in Calls, Update(i) PROVE Stages'
  BY <1>2 DEF Update
<1>3. ASSUME NEW i \in Calls, ListenerThrows(i) PROVE Stages'
  BY SMTT(60), <1>3 DEF ListenerThrows, Throw
<1>4. CASE ReportNext
  <2>1. PICK i \in Calls :
          /\ st[i] = "ended" /\ \A j \in 1..(i - 1) : st[j] # "ended"
          /\ st' = [st EXCEPT ![i] = "reported"] /\ results' = Append(results, i)
    BY Zenon, <1>4 DEF ReportNext
  <2>2. pc = "results" /\ UNCHANGED <<mode, aborted, pc, at>>
    BY <1>4 DEF ReportNext
  <2>. HIDE DEF Stages, Together, OneByOne
  <2>3. mode = "parallel" /\ Together
    BY <2>2 DEF Stages, OneByOne
  <2>4. /\ Len(results) <= at /\ \A j \in Calls : j > at => st[j] = "idle"
        /\ \A j \in Calls : j <= at => st[j] = IF j <= Len(results) THEN "reported" ELSE "ended"
    BY <2>2, <2>3 DEF Stages, Together
  <2>5. Len(results) + 1 = i
    <3>1. i <= at /\ ~(i <= Len(results))
      BY <2>1, <2>4
    <3>2. ASSUME Len(results) + 1 < i PROVE FALSE
      <4>. DEFINE j == Len(results) + 1
      <4>1. j \in Calls /\ j \in 1..(i - 1) /\ j <= at /\ ~(j <= Len(results))
        BY <3>1, <3>2
      <4>2. st[j] = "ended"
        BY <2>4, <4>1
      <4>. QED  BY <2>1, <4>1, <4>2
    <3>. QED  BY <3>1, <3>2
  <2>6. results' = [k \in 1..Len(results') |-> k] /\ Len(results') = i
    <3>1. results = [k \in 1..Len(results) |-> k] /\ results \in Seq(Calls)
      BY <2>2 DEF Stages
    <3>. HIDE DEF Calls, IInv
    <3>. QED  BY <2>1, <2>5, <3>1, NextResult
  <2>7. Together'
    BY <2>1, <2>2, <2>4, <2>5, <2>6 DEF Together
  <2>. QED  BY <2>1, <2>2, <2>3, <2>4, <2>6, <2>7 DEF Stages
<1>5. CASE Join
  <2>1. /\ pc = "join" /\ pc' = "results" /\ UNCHANGED <<mode, aborted, at, st, results>>
        /\ \A i \in Calls : st[i] \in {"idle", "ended"}
    BY <1>5 DEF Join
  <2>. HIDE DEF Stages, Together, OneByOne
  <2>2. mode = "parallel" /\ Together
    BY <2>1 DEF Stages, OneByOne
  <2>3. results = <<>> /\ \A i \in Calls : i <= at => st[i] = "ended"
    BY <2>1, <2>2 DEF Together
  <2>4. Together'
    BY <2>1, <2>3 DEF Together
  <2>. QED  BY <2>1, <2>2, <2>4 DEF Stages
<1>6. CASE AllReported
  <2>1. pc = "results" /\ pc' = "done" /\ UNCHANGED <<mode, aborted, at, st, results>>
    BY <1>6 DEF AllReported
  <2>. HIDE DEF Stages, Together, OneByOne
  <2>2. mode = "parallel" /\ Together
    BY <2>1 DEF Stages, OneByOne
  <2>3. st[at] # "ended"
    BY <1>6 DEF AllReported
  <2>4. Len(results) = at
    BY <2>1, <2>2, <2>3 DEF Together
  <2>5. Together'
    BY <2>1, <2>2, <2>4 DEF Together
  <2>. QED  BY <2>1, <2>2, <2>5 DEF Stages
<1>7. CASE handleRunFailure \/ finishRun \/ NextRun
  BY <1>7 DEF handleRunFailure, finishRun, NextRun
<1>8. CASE abort
  BY <1>8 DEF abort
<1>9. CASE UNCHANGED vars
  BY <1>9 DEF vars
<1>. QED  BY Zenon, <1>1, <1>2, <1>3, <1>4, <1>5, <1>6, <1>7, <1>8, <1>9 DEF Next, BatchStep

LEMMA IInvStep == ASSUME IInv, [Next]_vars PROVE IInv'
<1>1. TypeOK'
  BY TypeKept DEF IInv
<1>2. pc' \in Normal => Events' /\ Stages'
  BY EventsKept, StagesKept
<1>. USE DEF IInv, TypeOK, Become, Finalize, EndEvents
\* Once the run is over no call of it starts.
<1>3. pc' \in {"over", "nextRun"} => pendingToolCalls' = {}
  <2>. SUFFICES ASSUME pc' \in {"over", "nextRun"} PROVE pendingToolCalls' = {}
    BY SMTT(60)
  <2>1. ASSUME NEW i \in Calls, CallStep(i) \/ Update(i) \/ ListenerThrows(i)
        PROVE  pc \in {"over", "nextRun"} /\ pendingToolCalls' \subseteq pendingToolCalls
    BY <2>1 DEF CallStep, EmitStart, FailTruncated, prepareToolCall, Execute, Returned, Throw,
       finalizeExecutedToolCall, Ended, Report, NextCall, NextParallel, Update, ListenerThrows
  <2>2. CASE BatchStep \/ abort \/ NextRun \/ UNCHANGED vars
    BY <2>2 DEF BatchStep, Join, ReportNext, AllReported, handleRunFailure, finishRun, abort,
       NextRun, vars
  <2>. QED  BY <2>1, <2>2 DEF Next
<1>4. mode' = "truncated" => executed' = {}
  <2>1. ASSUME NEW i \in Calls, CallStep(i) \/ Update(i) \/ ListenerThrows(i)
        PROVE  mode' = mode /\ (mode = "truncated" => executed' = executed)
    BY <2>1 DEF CallStep, EmitStart, FailTruncated, prepareToolCall, Execute, Returned, Throw,
       finalizeExecutedToolCall, Ended, Report, NextCall, NextParallel, Update, ListenerThrows
  <2>2. CASE BatchStep \/ abort \/ NextRun \/ UNCHANGED vars
    BY <2>2 DEF BatchStep, Join, ReportNext, AllReported, handleRunFailure, finishRun, abort,
       NextRun, vars
  <2>. QED  BY SMTT(60), <2>1, <2>2 DEF Next
<1>. QED  BY <1>1, <1>2, <1>3, <1>4 DEF IInv

LEMMA Inductive == Spec => []IInv
  BY IInvInit, IInvStep, PTL DEF Spec

\* Where a batch that returned has left its calls
LEMMA Returns ==
    ASSUME IInv, pc = "done"
    PROVE  /\ Events /\ Stages /\ TypeOK /\ Len(results) = at
           /\ \A i \in Calls : st[i] = IF i <= at THEN "reported" ELSE "idle"
<1>1. Events /\ Stages /\ TypeOK
  BY DEF IInv, Normal
<1>2. at \in Nat /\ \A i \in Calls : i \in Nat /\ (i > at => st[i] = "idle")
  BY <1>1 DEF Stages, TypeOK, Calls
<1>3. CASE mode # "parallel"
  <2>1. OneByOne
    BY <1>1, <1>3 DEF Stages
  <2>. QED  BY <1>1, <1>2, <2>1 DEF OneByOne
<1>4. CASE mode = "parallel"
  <2>1. Together
    BY <1>1, <1>4 DEF Stages
  <2>. QED  BY <1>1, <1>2, <2>1 DEF Together
<1>. QED  BY <1>3, <1>4
-----------------------------------------------------------------------------
\* A batch that returns gives the turn loop one result and one end event for each
\* of the first calls, in the order of the calls, and only an abort makes them
\* fewer than all (executeToolCallsParallel, executeToolCallsSequential).
THEOREM BatchKeepsContract == Spec => []BatchContract
<1>1. IInv => BatchContract
  <2>. SUFFICES ASSUME IInv, pc = "done" PROVE BatchContract
    BY DEF BatchContract
  <2>1. Events /\ Stages /\ TypeOK
    BY Returns
  <2>2. Len(results) = at /\ \A i \in Calls : st[i] = IF i <= at THEN "reported" ELSE "idle"
    BY Returns
  <2>3. \A i \in Calls : /\ st[i] = (IF i <= Len(results) THEN "reported" ELSE "idle")
                         /\ ends[i] = (IF i <= Len(results) THEN 1 ELSE 0)
    BY <2>1, <2>2 DEF Events, TypeOK, Calls
  <2>4. Len(results) < NCalls => aborted /\ results # <<>> /\ mode # "truncated"
    BY <2>1, <2>2 DEF Stages, TypeOK, Calls
  <2>5. mode = "truncated" => executed = {} /\ ~shouldTerminateToolBatch
    BY DEF IInv, shouldTerminateToolBatch
  <2>6. results = [k \in 1..Len(results) |-> k]
    BY <2>1 DEF Stages
  <2>. QED  BY <2>3, <2>4, <2>5, <2>6 DEF BatchContract
<1>. QED  BY <1>1, Inductive, PTL

\* What the host is shown as pending are the calls between start and end event,
\* and nothing is left of them when the run is over (Agent, processEvents and
\* finishRun).
THEOREM PendingIsExact == Spec => []PendingExact
<1>1. IInv => PendingExact
  <2>. SUFFICES ASSUME IInv PROVE PendingExact
    OBVIOUS
  <2>1. pc \in Normal => pendingToolCalls = Open
    BY DEF IInv, Events
  <2>2. ASSUME pc = "done" PROVE Open = {}
    <3>1. \A i \in Calls : st[i] \in {"reported", "idle"}
      BY <2>2, Returns
    <3>. QED  BY <3>1 DEF Open
  <2>. QED  BY <2>1, <2>2 DEF PendingExact, IInv, Normal
<1>. QED  BY <1>1, Inductive, PTL
-----------------------------------------------------------------------------
(* withFileMutationQueue, through which the edits of a batch pass, serialises *)
(* the calls of a queue, for any number of calls, paths and files.            *)

CONSTANTS FileCalls, Paths, Canonical, None
VARIABLES filePc, path, key, prev, registering, queues, existing, made, ticket

Files == INSTANCE FileMutationQueue WITH Calls <- FileCalls, pc <- filePc

\* What the proofs use of FileMutationQueue's PathsAssumption
PathsKnown == Canonical \in [Paths -> Paths] /\ None \notin FileCalls \cup Paths

USE DEF PathsKnown

\* A call that is on its queue.
Live(c) == filePc[c] \in {"waiting", "running"}

\* Nothing it waits for is left.
Ready(c) == prev[c] # None => filePc[prev[c]] = "done"

\* The live calls of a queue, in the order they were made, form a chain: each
\* waits for the live one made just before it, if there is one, and the map
\* holds the last of them.
Chain ==
    /\ \A c \in FileCalls : Live(c) =>
          /\ key[c] \in Paths /\ queues[key[c]] # None
          /\ ticket[c] <= ticket[queues[key[c]]]
    /\ \A p \in Paths : queues[p] # None => Live(queues[p]) /\ key[queues[p]] = p
    /\ \A c, d \in FileCalls : Live(c) /\ Live(d) /\ key[c] = key[d] /\ c # d =>
          /\ ticket[c] # ticket[d]
          /\ ticket[c] < ticket[d] =>
               prev[d] # None /\ Live(prev[d]) /\ ticket[c] <= ticket[prev[d]]
    /\ \A c \in FileCalls : Live(c) /\ prev[c] # None =>
          /\ filePc[prev[c]] \in {"waiting", "running", "done"}
          /\ key[prev[c]] = key[c] /\ ticket[prev[c]] < ticket[c]
    /\ \A c \in FileCalls : filePc[c] = "running" => Ready(c)

\* Calls are registered in the order they were made, before any call made later.
Order ==
    /\ \A c \in FileCalls : ticket[c] <= made
    /\ \A c \in FileCalls : filePc[c] = "keyed" => key[c] \in Paths
    /\ \A i \in 1..Len(registering) :
          /\ filePc[registering[i]] \in {"registering", "keyed"}
          /\ \A j \in 1..Len(registering) : i < j => ticket[registering[i]] < ticket[registering[j]]
          /\ \A c \in FileCalls : Live(c) => ticket[c] < ticket[registering[i]]

QueueInv == Files!TypeOK /\ Chain /\ Order

LEMMA QueueInit == ASSUME PathsKnown PROVE Files!Init => QueueInv
<1>. SUFFICES ASSUME Files!Init PROVE QueueInv
  OBVIOUS
<1>1. Files!TypeOK
  BY DEF Files!Init, Files!TypeOK, Files!Ended
<1>2. Chain
  BY DEF Files!Init, Chain, Live, Ready
<1>3. Order
  BY DEF Files!Init, Order, Live
<1>. QED  BY <1>1, <1>2, <1>3 DEF QueueInv

LEMMA QueueTypeKept == ASSUME PathsKnown, QueueInv, [Files!Next]_Files!vars PROVE Files!TypeOK'
<1>. USE DEF Files!TypeOK, Files!Goto, Files!Ended
<1>1. CASE UNCHANGED Files!vars
  BY <1>1 DEF Files!vars, QueueInv
<1>2. ASSUME NEW c \in FileCalls, Files!withFileMutationQueue(c) PROVE Files!TypeOK'
  BY <1>2, AppendProperties DEF Files!withFileMutationQueue, QueueInv
<1>3. ASSUME NEW c \in FileCalls, Files!getMutationQueueKey(c) PROVE Files!TypeOK'
  <2>. DEFINE k == IF Canonical[path[c]] \in existing THEN Canonical[path[c]] ELSE path[c]
  <2>1. k \in Paths /\ Tail(registering) \in Seq(FileCalls)
    BY <1>3, HeadTailProperties DEF Files!getMutationQueueKey, Files!First, QueueInv
  <2>2. CASE key' = [key EXCEPT ![c] = k] /\ UNCHANGED registering /\ Files!Goto(c, "keyed")
    BY <1>3, <2>1, <2>2 DEF Files!getMutationQueueKey, QueueInv
  <2>3. CASE UNCHANGED key /\ registering' = Tail(registering) /\ Files!Goto(c, "failed")
    BY <1>3, <2>1, <2>3 DEF Files!getMutationQueueKey, QueueInv
  <2>. QED  BY <1>3, <2>2, <2>3 DEF Files!getMutationQueueKey
<1>4. ASSUME NEW c \in FileCalls, Files!Register(c) PROVE Files!TypeOK'
  <2>1. key[c] \in Paths /\ registering' \in Seq(FileCalls)
    BY <1>4, HeadTailProperties DEF Files!Register, Files!First, QueueInv, Order
  <2>2. queues[key[c]] # c
    BY ZenonT(60), <1>4, <2>1 DEF Files!Register, QueueInv, Chain, Live
  <2>. QED  BY <1>4, <2>1, <2>2 DEF Files!Register, QueueInv
<1>5. ASSUME NEW c \in FileCalls, Files!Run(c) PROVE Files!TypeOK'
  BY <1>5 DEF Files!Run, QueueInv
<1>6. ASSUME NEW c \in FileCalls, Files!Create(c) PROVE Files!TypeOK'
  BY <1>6 DEF Files!Create, QueueInv
<1>7. ASSUME NEW c \in FileCalls, Files!Finish(c) PROVE Files!TypeOK'
  BY Zenon, <1>7 DEF Files!Finish, QueueInv
<1>. QED  BY <1>1, <1>2, <1>3, <1>4, <1>5, <1>6, <1>7 DEF Files!Next, Files!Step

\* The calls that are left when the first one leaves the registration queue.
LEMMA FirstLeaves ==
    ASSUME PathsKnown, Files!TypeOK, Order, registering # <<>>
    PROVE  \A i \in 1..Len(Tail(registering)) :
              /\ i + 1 \in 1..Len(registering) /\ Tail(registering)[i] = registering[i + 1]
              /\ registering[i + 1] # registering[1]
              /\ ticket[registering[1]] < ticket[registering[i + 1]]
<1>1. registering \in Seq(FileCalls) /\ ticket \in [FileCalls -> Nat]
  BY DEF Files!TypeOK
<1>2. Len(Tail(registering)) = Len(registering) - 1 /\ Len(registering) \in Nat \ {0}
  BY <1>1, HeadTailProperties, EmptySeq, LenProperties
<1>3. \A i \in 1..Len(Tail(registering)) : Tail(registering)[i] = registering[i + 1]
  BY <1>1, HeadTailProperties
<1>4. \A i \in 1..Len(Tail(registering)) : i + 1 \in 1..Len(registering) /\ 1 < i + 1
  BY <1>2
<1>5. 1 \in 1..Len(registering) /\ \A i \in 1..Len(registering) : registering[i] \in FileCalls
  BY <1>1, <1>2, ElementOfSeq
<1>. QED  BY <1>1, <1>3, <1>4, <1>5 DEF Order

LEMMA OrderKept == ASSUME PathsKnown, QueueInv, [Files!Next]_Files!vars PROVE Order'
<1>. USE DEF QueueInv, Files!TypeOK, Files!Goto, Files!Ended, Order, Live
<1>1. CASE UNCHANGED Files!vars
  BY <1>1 DEF Files!vars
<1>2. ASSUME NEW c \in FileCalls, Files!withFileMutationQueue(c) PROVE Order'
  BY SMTT(60), <1>2, AppendProperties DEF Files!withFileMutationQueue
<1>3. ASSUME NEW c \in FileCalls, Files!getMutationQueueKey(c) PROVE Order'
  <2>1. c = registering[1] /\ 1 \in 1..Len(registering)
    BY <1>3, HeadTailProperties, EmptySeq DEF Files!getMutationQueueKey, Files!First
  <2>2. CASE UNCHANGED registering /\ Files!Goto(c, "keyed")
    <3>1. key'[c] \in Paths
      BY <1>3, <2>2 DEF Files!getMutationQueueKey
    <3>. QED  BY <1>3, <2>1, <2>2, <3>1 DEF Files!getMutationQueueKey
  <2>3. CASE UNCHANGED key /\ registering' = Tail(registering) /\ Files!Goto(c, "failed")
    <3>1. registering # <<>> /\ made' = made /\ ticket' = ticket
      BY <1>3 DEF Files!getMutationQueueKey, Files!First
    <3>2. \A d \in FileCalls : Live(d)' => Live(d)
      BY <2>3
    <3>3. \A d \in FileCalls : d # c => filePc'[d] = filePc[d]
      BY <2>3
    <3>. QED  BY SMTT(60), <2>1, <2>3, <3>1, <3>2, <3>3, FirstLeaves
  <2>. QED  BY <1>3, <2>2, <2>3 DEF Files!getMutationQueueKey
<1>4. ASSUME NEW c \in FileCalls, Files!Register(c) PROVE Order'
  <2>1. c = registering[1] /\ 1 \in 1..Len(registering)
    BY <1>4, HeadTailProperties, EmptySeq DEF Files!Register, Files!First
  <2>. QED  BY SMTT(60), <1>4, <2>1, FirstLeaves DEF Files!Register
<1>5. ASSUME NEW c \in FileCalls, Files!Run(c) PROVE Order'
  BY <1>5 DEF Files!Run
<1>6. ASSUME NEW c \in FileCalls, Files!Create(c) PROVE Order'
  BY <1>6 DEF Files!Create
<1>7. ASSUME NEW c \in FileCalls, Files!Finish(c) PROVE Order'
  BY <1>7 DEF Files!Finish
<1>. QED  BY <1>1, <1>2, <1>3, <1>4, <1>5, <1>6, <1>7 DEF Files!Next, Files!Step

\* A running call was made before the live ones on its queue.
LEMMA RunnerIsFirst ==
    ASSUME PathsKnown, QueueInv, NEW c \in FileCalls, NEW d \in FileCalls, filePc[c] = "running", Live(d),
           key[c] = key[d], c # d
    PROVE  ticket[c] < ticket[d]
<1>1. ~(ticket[d] < ticket[c])
  BY DEF QueueInv, Chain, Live, Ready
<1>2. ticket[c] # ticket[d]
  BY SMTT(60) DEF QueueInv, Chain, Live
<1>. QED  BY <1>1, <1>2 DEF QueueInv, Files!TypeOK

LEMMA ChainKept == ASSUME PathsKnown, QueueInv, [Files!Next]_Files!vars PROVE Chain'
<1>. USE DEF QueueInv, Files!TypeOK, Files!Goto, Files!Ended, Chain, Live, Ready
<1>1. CASE UNCHANGED Files!vars
  BY <1>1 DEF Files!vars
<1>2. ASSUME NEW c \in FileCalls, Files!withFileMutationQueue(c) PROVE Chain'
  BY <1>2 DEF Files!withFileMutationQueue
<1>3. ASSUME NEW c \in FileCalls, Files!getMutationQueueKey(c) PROVE Chain'
  <2>1. UNCHANGED <<prev, queues, ticket>> /\ filePc[c] = "registering"
        /\ filePc'[c] \in {"keyed", "failed"}
        /\ \A d \in FileCalls : d # c => filePc'[d] = filePc[d] /\ key'[d] = key[d]
    BY <1>3 DEF Files!getMutationQueueKey
  <2>2. \A d \in FileCalls : (Live(d)' <=> Live(d)) /\ (Live(d) => key'[d] = key[d])
    BY <2>1
  <2>3. (\A d \in FileCalls : Live(d) =>
            /\ key[d] \in Paths /\ queues[key[d]] # None
            /\ ticket[d] <= ticket[queues[key[d]]])'
    BY <2>1, <2>2
  <2>4. (\A p \in Paths : queues[p] # None => Live(queues[p]) /\ key[queues[p]] = p)'
    BY <2>1, <2>2
  <2>5. (\A d, e \in FileCalls : Live(d) /\ Live(e) /\ key[d] = key[e] /\ d # e =>
            /\ ticket[d] # ticket[e]
            /\ ticket[d] < ticket[e] =>
                  prev[e] # None /\ Live(prev[e]) /\ ticket[d] <= ticket[prev[e]])'
    BY <2>1, <2>2
  <2>6. (\A d \in FileCalls : Live(d) /\ prev[d] # None =>
            /\ filePc[prev[d]] \in {"waiting", "running", "done"}
            /\ key[prev[d]] = key[d] /\ ticket[prev[d]] < ticket[d])'
    BY <2>1, <2>2
  <2>7. (\A d \in FileCalls : filePc[d] = "running" => Ready(d))'
    BY <2>1, <2>2
  <2>. QED  BY Zenon, <2>3, <2>4, <2>5, <2>6, <2>7
<1>4. ASSUME NEW c \in FileCalls, Files!Register(c) PROVE Chain'
  <2>1. key[c] \in Paths /\ \A d \in FileCalls : Live(d) => ticket[d] < ticket[c]
    BY SMTT(60), <1>4, HeadTailProperties DEF Files!Register, Files!First, Order
  <2>. QED  BY <1>4, <2>1 DEF Files!Register
<1>5. ASSUME NEW c \in FileCalls, Files!Run(c) PROVE Chain'
  BY <1>5 DEF Files!Run
<1>6. ASSUME NEW c \in FileCalls, Files!Create(c) PROVE Chain'
  BY <1>6 DEF Files!Create
<1>7. ASSUME NEW c \in FileCalls, Files!Finish(c) PROVE Chain'
  <2>. USE <1>7 DEF Files!Finish
  <2>1. key[c] \in Paths /\ Ready(c) /\ Live(c)
    OBVIOUS
  <2>2. \A d \in FileCalls : Live(d)' <=> Live(d) /\ d # c
    OBVIOUS
  <2>3. \A d \in FileCalls : Live(d) /\ key[d] = key[c] /\ d # c => ticket[c] < ticket[d]
    BY RunnerIsFirst
  <2>4. \A d \in FileCalls : Live(d)' =>
           /\ key'[d] \in Paths /\ queues'[key'[d]] # None
           /\ ticket'[d] <= ticket'[queues'[key'[d]]]
    BY <2>1, <2>2, <2>3
  <2>5. \A p \in Paths : queues'[p] # None => Live(queues[p])' /\ key'[queues'[p]] = p
    BY <2>1, <2>2, <2>3
  <2>6. ASSUME NEW d \in FileCalls, NEW e \in FileCalls, Live(d)', Live(e)', key[d] = key[e],
               d # e, ticket[d] < ticket[e]
        PROVE  prev[e] # None /\ Live(prev[e])' /\ ticket[d] <= ticket[prev[e]]
    BY <2>1, <2>2, <2>3, <2>6
  <2>7. \A d \in FileCalls : Live(d)' /\ prev[d] # None => filePc'[prev[d]] \in {"waiting", "running", "done"}
    BY <2>2
  <2>8. \A d \in FileCalls : filePc'[d] = "running" => Ready(d)'
    BY <2>2
  <2>9. (\A d, e \in FileCalls : Live(d) /\ Live(e) /\ key[d] = key[e] /\ d # e =>
            /\ ticket[d] # ticket[e]
            /\ ticket[d] < ticket[e] =>
                  prev[e] # None /\ Live(prev[e]) /\ ticket[d] <= ticket[prev[e]])'
    BY <2>2, <2>6
  <2>10. (\A d \in FileCalls : Live(d) /\ prev[d] # None =>
            /\ filePc[prev[d]] \in {"waiting", "running", "done"}
            /\ key[prev[d]] = key[d] /\ ticket[prev[d]] < ticket[d])'
    BY <2>2, <2>7
  <2>. QED  BY Zenon, <2>4, <2>5, <2>8, <2>9, <2>10
<1>. QED  BY <1>1, <1>2, <1>3, <1>4, <1>5, <1>6, <1>7 DEF Files!Next, Files!Step

LEMMA QueueInductive == ASSUME PathsKnown PROVE Files!Spec => []QueueInv
<1>1. QueueInv /\ [Files!Next]_Files!vars => QueueInv'
  BY QueueTypeKept, ChainKept, OrderKept DEF QueueInv
<1>. QED  BY <1>1, QueueInit, PTL DEF Files!Spec

\* The calls that share a queue run one at a time and in the order they were
\* made, however long they wait to be registered and however they end.
THEOREM QueuesSerialize == ASSUME PathsKnown PROVE Files!Spec => []Files!OneRunsPerQueue
<1>1. QueueInv => Files!OneRunsPerQueue
  BY RunnerIsFirst DEF Files!OneRunsPerQueue, Live
<1>. QED  BY <1>1, QueueInductive, PTL

\* fileMutationQueues holds only queues with a call under way.
THEOREM QueuesAreRemoved == ASSUME PathsKnown PROVE Files!Spec => []Files!NoQueueLeft
<1>1. QueueInv => Files!NoQueueLeft
  BY DEF QueueInv, Chain, Live, Files!NoQueueLeft
<1>. QED  BY <1>1, QueueInductive, PTL
=============================================================================
