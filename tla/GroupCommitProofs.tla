------------------------- MODULE GroupCommitProofs --------------------------
(***************************************************************************)
(* The Session's line and its writer keep IInv, and what that says of      *)
(* reads, callers, crashes and close.                                      *)
(*                                                                         *)
(* The remaining steps are the writer's: it publishes the parts of a call  *)
(* one after the other (PublishOk), goes on, goes idle or starts the next  *)
(* call, stops at a part that fails (StopInv, ObserverInv), hands the      *)
(* failure to the Session (FailCallInv) and settles what it cannot store   *)
(* (GivesUpInv, CallSettlesInv). The theorems are at the end.              *)
(***************************************************************************)
EXTENDS GroupLineProofs

\* The call stops at a part it does not publish.
Stops(why) ==
    /\ Aside /\ UNCHANGED <<queue, open, mem, holds, pending, disk, log, outcome, failAt, ownOutcomes, closing>>
    /\ unpublished' \in [Docs -> Nat] /\ call.at = "publishing"
    /\ why \in {"unreceived", "external", "adoption"}
    /\ call' = [call EXCEPT !.at = "failing", !.why = why]

\* The Session has failed, and the parts in flight are given up.
GivesUp ==
    /\ Aside /\ UNCHANGED <<mem, holds, pending, disk, log>> /\ call.at # "none"
    /\ call' = NoCall /\ queue' = <<>> /\ unpublished' \in [Docs -> Nat]
    /\ outcome' \in [Jobs -> Outcomes]
    /\ \A j \in Jobs : \/ outcome'[j] = outcome[j]
                       \/ j \in Flight /\ outcome[j] = "none" /\ outcome'[j] \in {"err", "failed"}
    /\ \A j \in Flight : outcome'[j] # "none"
    /\ open' = open \cup {j \in Flight : outcome[j] = "none"}
    /\ closing' = closing \/ (closing = "open" /\ closing' = "sealed")
    /\ failed'
    /\ \/ failed /\ failAt' = failAt /\ ownOutcomes' = ownOutcomes
       \/ /\ ~failed /\ failAt' \in Flight
          /\ ownOutcomes' \subseteq {j \in Flight : outcome'[j] = "err"}

\* The writer gives up: the parts of the call and of the queue are settled as failed.
LEMMA GivesUpInv ==
    ASSUME IInv, GivesUp
    PROVE  IInv'
\* Nothing is on its way any more.
<1>GivesUpFlight. ASSUME IInv, GivesUp
                  PROVE  FlightOK' /\ LogOK' /\ CallOK' /\ DiskOK' /\ KeysOK'
  <2>. USE <1>GivesUpFlight
  <2>. USE DEF IInv
  <2>0. /\ UNCHANGED <<mem, holds, pending, disk, log>> /\ call' = NoCall /\ queue' = <<>> /\ failed' /\ Aside
        /\ part' = part
    BY Zenon DEF GivesUp, Aside
  <2>1. call'.at = "none" /\ call'.parts = <<>> /\ call'.next = 1 /\ call'.why = "none"
    BY Zenon, <2>0, NoCallType
  <2>2. Range(call'.parts) = {} /\ Range(queue') = {} /\ InOrder(call'.parts) /\ InOrder(queue') /\ DOMAIN call'.parts = {}
    BY <2>0, <2>1, NothingListed
  <2>3. Flight' = {} /\ Batches' = {}
    BY Zenon, <2>2 DEF Flight, Batches
  <2>4. Waiting' = {}
    BY Zenon, <2>2 DEF Waiting
  <2>5. /\ \A i : HasPart(i)' <=> HasPart(i)
        /\ \A k, n : Writers(k, n)' = Writers(k, n)
        /\ \A i : Own(i, part[i])' = Own(i, part[i])
        /\ Stored' = Stored
    BY Zenon, <2>0, AsideSame
  <2>6. ~Healthy' /\ Bound' = {}
    BY Zenon, <2>0, <2>1 DEF Healthy, Bound
  <2>7. \A j \in Flight : j \in Jobs /\ HasPart(j)
    BY Zenon, InLogHasPart DEF Flight
  <2>8. CallOK'
    BY Zenon, <2>0, <2>1 DEF CallOK
  <2>9. FlightOK'
    <3>1. \A j \in open' : HasPart(j)'
      BY Zenon, <2>5, <2>7 DEF GivesUp, FlightOK
    <3>2. ASSUME NEW j \in Jobs, HasPart(j) PROVE j \in open' /\ outcome'[j] # "none"
      <4>1. CASE j \in Flight
        <5>1. outcome'[j] # "none"
          BY Zenon, <4>1 DEF GivesUp
        <5>2. outcome[j] # "none" => j \in open
          BY Zenon, <3>2, SettledIsOpen
        <5>. QED  BY Zenon, <4>1, <5>1, <5>2 DEF GivesUp
      <4>2. CASE j \notin Flight
        <5>1. j \in open /\ outcome[j] # "none"
          BY Zenon, <3>2, <4>2 DEF FlightOK
        <5>. QED  BY Zenon, <4>2, <5>1 DEF GivesUp
      <4>. QED  BY Zenon, <4>1, <4>2
    <3>3. \A j \in Jobs : part'[j].taken \subseteq DOMAIN part'[j].delta
      BY Zenon, <2>0 DEF FlightOK
    <3>. QED  BY Zenon, <2>0, <2>2, <2>3, <2>4, <2>5, <3>1, <3>2, <3>3 DEF FlightOK
  <2>10. LogOK'
    BY Zenon, <2>0, <2>1, <2>2, <2>3, <2>5 DEF LogOK
  <2>11. DiskOK'
    <3>1. \A i \in Range(log') : \A k \in Own(i, part[i])' : i \in Range(disk'[k])
      BY Zenon, <2>0, <2>5 DEF DiskOK
    <3>2. \A k \in Docs : Begins(disk'[k], Writers(k, AllJobs)')
      BY Zenon, <2>0, <2>5 DEF DiskOK, AllJobs
    <3>. QED  BY Zenon, <2>0, <2>1, <2>5, <2>6, <3>1, <3>2 DEF DiskOK
  <2>12. KeysOK'
    BY Zenon, <2>6 DEF KeysOK
  <2>. QED  BY Zenon, <2>8, <2>9, <2>10, <2>11, <2>12
\* What was said only of a healthy Session need not hold any longer; the rest is kept.
<1>GivesUpRest. ASSUME IInv, GivesUp
                PROVE  Rest'
  <2>. USE <1>GivesUpRest
  <2>. USE DEF IInv
  <2>0. /\ UNCHANGED <<mem, holds, pending, disk, log>> /\ call' = NoCall /\ queue' = <<>> /\ failed' /\ Aside
        /\ UNCHANGED <<jobs, started, line, stale, part, told, early, lastDelivered, fired>> /\ call.at # "none"
        /\ unpublished' \in [Docs -> Nat] /\ outcome' \in [Jobs -> Outcomes]
        /\ closing' = closing \/ (closing = "open" /\ closing' = "sealed")
    BY Zenon DEF GivesUp, Aside
  <2>1. call' \in Calls /\ call'.at = "none" /\ Range(call'.parts) = {} /\ Range(queue') = {}
    BY Zenon, <2>0, NoCallType, NothingListed
  <2>2. /\ \A i : HasPart(i)' <=> HasPart(i)
        /\ \A i : Own(i, part[i])' = Own(i, part[i])
        /\ (Right' <=> Right)
    BY Zenon, <2>0, AsideSame
  <2>3. ~Healthy'
    BY Zenon, <2>0 DEF Healthy
  <2>4. \A j \in Flight : j \in Jobs /\ HasPart(j)
    BY Zenon, InLogHasPart DEF Flight
  <2>5. \A j \in Jobs : \/ outcome'[j] = outcome[j]
                        \/ j \in Flight /\ outcome[j] = "none" /\ outcome'[j] # "none" /\ outcome'[j] # "ok"
    <3>1. "err" # "none" /\ "err" # "ok" /\ "failed" # "none" /\ "failed" # "ok"
      OBVIOUS
    <3>. QED  BY Zenon, <3>1 DEF GivesUp
  <2>6. TypeOK'
    <3>1. failAt' \in 0..(MaxJobs + 2)
      <4>1. failAt' = failAt \/ failAt' \in Jobs
        BY Zenon, <2>4 DEF GivesUp
      <4>. QED  BY <4>1, JobNumbers DEF TypeOK
    <3>2. ownOutcomes' \in SUBSET Jobs /\ open' \in SUBSET Jobs
      BY Zenon, <2>4 DEF GivesUp, TypeOK
    <3>3. queue' \in Seq(Jobs) /\ closing' \in {"open", "sealed", "closed"}
      BY <2>0 DEF TypeOK
    <3>. QED  BY Zenon, <2>0, <2>1, <3>1, <3>2, <3>3 DEF TypeOK
  <2>7. LineOK'
    <3>1. \A j \in Jobs : outcome'[j] # outcome[j] => HasPart(j)
      BY Zenon, <2>4, <2>5
    <3>. QED  BY Zenon, <2>0, <3>1, AsideLine
  \* A job that failed for its caller has still failed.
  <2>8. \A j : Poisoned(j) => Poisoned(j)'
    BY Zenon, <2>0 DEF GivesUp, Poisoned
  <2>9. \A j \in Jobs : outcome[j] # "none" => outcome'[j] = outcome[j]
    BY Zenon, <2>5
  <2>10. ReadsOK'
    <3>1. ASSUME line.at = "settling", ~Right PROVE Poisoned(line.job)'
      <4>1. (~failed /\ call.at = "failing") \/ Poisoned(line.job)
        BY Zenon, <3>1 DEF ReadsOK
      <4>2. CASE failed
        <5>1. Poisoned(line.job) /\ failAt' = failAt /\ ownOutcomes' = ownOutcomes
          BY Zenon, <4>1, <4>2 DEF GivesUp
        <5>. QED  BY Zenon, <2>0, <5>1 DEF Poisoned
      <4>3. CASE ~failed
        <5>1. failAt' \in Jobs /\ HasPart(failAt') /\ \A j \in ownOutcomes' : j \in Jobs /\ HasPart(j)
          BY Zenon, <2>4, <4>3 DEF GivesUp
        <5>2. ~HasPart(line.job) /\ \A j \in Jobs : HasPart(j) => j < line.job
          BY Zenon, <3>1, NewOnLine DEF Rest
        <5>3. failAt' < line.job /\ line.job \notin ownOutcomes'
          BY Zenon, <5>1, <5>2
        <5>. QED  BY Zenon, <2>0, <5>3 DEF Poisoned
      <4>. QED  BY Zenon, <4>2, <4>3
    <3>2. ASSUME NEW j \in stale
          PROVE  /\ j <= started /\ j # line.job /\ j \notin Range(log) /\ told[j] # "ok"
                 /\ outcome'[j] = "ok" => Poisoned(j)'
      <4>0. j \in Jobs
        BY Zenon DEF TypeOK
      <4>1. /\ j <= started /\ j # line.job /\ j \notin Range(log) /\ told[j] # "ok"
            /\ outcome[j] = "ok" => Poisoned(j)
        BY Zenon DEF ReadsOK
      <4>2. outcome'[j] = "ok" => outcome[j] = "ok"
        BY Zenon, <2>5, <4>0
      <4>. QED  BY Zenon, <2>8, <4>1, <4>2
    <3>. QED  BY Zenon, <2>0, <2>1, <2>2, <2>3, <3>1, <3>2 DEF ReadsOK
  <2>11. TellsOK'
    <3>1. \A j \in ownOutcomes' : outcome'[j] = "err" /\ HasPart(j)
      <4>1. CASE failed
        <5>1. ownOutcomes' = ownOutcomes /\ ownOutcomes \subseteq Jobs
          BY Zenon, <4>1 DEF GivesUp, TypeOK
        <5>2. \A j \in ownOutcomes : outcome[j] = "err" /\ HasPart(j) /\ outcome[j] # "none"
          BY DEF TellsOK
        <5>. QED  BY Zenon, <2>9, <5>1, <5>2
      <4>2. CASE ~failed
        BY Zenon, <2>4, <4>2 DEF GivesUp
      <4>. QED  BY Zenon, <4>1, <4>2
    <3>2. ASSUME NEW j \in Jobs, HasPart(j), outcome'[j] = "ok"
          PROVE  /\ \A k \in Own(j, part[j]) : j \in Range(mem[k])
                 /\ part[j].stored => j \in Range(log)
                 /\ \A x \in 1..(j - 1) : HasPart(x) => outcome'[x] = "ok"
      <4>1. outcome[j] = "ok"
        BY Zenon, <2>5, <3>2
      <4>2. \A x \in 1..(j - 1) : x \in Jobs
        BY JobNumbers
      <4>3. "ok" # "none"
        OBVIOUS
      <4>4. /\ \A k \in Own(j, part[j]) : j \in Range(mem[k])
            /\ part[j].stored => j \in Range(log)
            /\ \A x \in 1..(j - 1) : HasPart(x) => outcome[x] = "ok"
        BY Zenon, <3>2, <4>1 DEF TellsOK
      <4>. QED  BY Zenon, <2>9, <4>2, <4>3, <4>4
    <3>3. ASSUME NEW j \in Jobs, told[j] # "none"
          PROVE  told[j] = outcome'[j] \/ (told[j] = "failed" /\ outcome'[j] # "none" /\ Poisoned(j)')
      BY Zenon, <2>8, <2>9, <3>3 DEF TellsOK
    <3>4. \A j \in early : ~HasPart(j) /\ j <= started /\ j # line.job
      BY Zenon DEF TellsOK
    <3>5. \A j \in Jobs : told[j] = "ok" /\ HasPart(j) =>
            \A x \in 1..(j - 1) : HasPart(x) /\ jobs[x] \notin Upkeep => told[x] = "ok"
      BY Zenon DEF TellsOK
    <3>6. \A j \in Jobs : HasPart(j)' /\ outcome'[j] = "ok" =>
            /\ \A k \in Own(j, part[j])' : j \in Range(mem'[k])
            /\ part'[j].stored => j \in Range(log')
            /\ \A x \in 1..(j - 1) : HasPart(x)' => outcome'[x] = "ok"
      BY Zenon, <2>0, <2>2, <3>2
    <3>. QED  BY Zenon, <2>0, <2>2, <3>1, <3>3, <3>4, <3>5, <3>6 DEF TellsOK
  <2>12. CloseOK'
    BY Zenon, <2>0 DEF CloseOK
  <2>. QED  BY Zenon, <2>6, <2>7, <2>10, <2>11, <2>12 DEF Rest
<1>. QED  BY Zenon, <1>GivesUpFlight, <1>GivesUpRest DEF IInv, Rest

\* Publication stops at a part: no receipt for it, or its adoption or an observer throws.
LEMMA StopInv ==
    ASSUME IInv, PartMissing \/ PartTooLate \/ AdoptionThrows
    PROVE  IInv'
\* The call then waits for its failure to reach the Session.
<1>StopsCall. ASSUME TypeOK, NEW why, Stops(why)
              PROVE  /\ call' \in Calls /\ call'.at = "failing" /\ call'.why = why /\ call'.parts = call.parts
                     /\ call'.durable = call.durable /\ call'.received = call.received /\ call'.result = call.result /\ call'.next = call.next
  <2>. USE <1>StopsCall
  <2>1. call \in Calls /\ call' = [call EXCEPT !.at = "failing", !.why = why]
        /\ why \in {"none", "unreceived", "external", "adoption", "observer"}
    BY Zenon DEF TypeOK, Stops
  <2>2. call' \in Calls
    BY Zenon, <2>1 DEF Calls
  <2>. QED  BY Zenon, <2>1, <2>2 DEF Calls
\* ... and nothing else has changed.
<1>StopsInv. ASSUME IInv, NEW why, Stops(why)
             PROVE  IInv'
  <2>. USE <1>StopsInv
  <2>. USE DEF IInv
  <2>0. /\ Aside /\ UNCHANGED <<queue, open, mem, holds, pending, disk, log, outcome, failAt, ownOutcomes, closing>>
        /\ unpublished' \in [Docs -> Nat] /\ call.at = "publishing"
        /\ why \in {"unreceived", "external", "adoption"} /\ why # "none" /\ why # "observer"
    BY Zenon DEF Stops
  <2>1. UNCHANGED <<jobs, started, line, stale, part, told, early, lastDelivered, fired>>
    BY Zenon, <2>0 DEF Aside
  <2>2. /\ call' \in Calls /\ call'.at = "failing" /\ call'.why = why /\ call'.parts = call.parts
        /\ call'.received = call.received /\ call'.result = call.result /\ call'.next = call.next
    BY Zenon, <1>StopsCall
  <2>3. /\ \A i : HasPart(i)' <=> HasPart(i)
        /\ \A k, n : Writers(k, n)' = Writers(k, n)
        /\ \A i : Own(i, part[i])' = Own(i, part[i])
        /\ (Right' <=> Right) /\ Stored' = Stored
    BY Zenon, <2>0, AsideSame
  <2>4. (failed' <=> failed) /\ ~Healthy' /\ \A i : Poisoned(i)' <=> Poisoned(i)
    BY Zenon, <2>0, <2>2 DEF failed, Healthy, Poisoned, NoFailure
  <2>5. call.why = "none" /\ call.next <= Len(call.parts) /\ call.parts # <<>> /\ call.next >= 1
    BY Zenon, <2>0 DEF CallOK
  <2>6. Flight' = Flight /\ Batches' = Batches
    BY Zenon, <2>0, <2>1, <2>2 DEF Flight, Batches
  <2>7. Waiting' = Waiting
    <3>1. call'.why # "observer" /\ call.why # "observer"
      BY Zenon, <2>0, <2>2, <2>5
    <3>. QED  BY Zenon, <2>0, <2>2, <3>1 DEF Waiting
  <2>8. TypeOK'
    BY Zenon, <2>0, <2>1, <2>2 DEF TypeOK
  <2>9. LineOK'
    BY Zenon, <2>0, AsideLine
  <2>10. CallOK'
    BY Zenon, <2>0, <2>2, <2>5 DEF CallOK
  <2>11. FlightOK'
    <3>1. \A n \in DOMAIN call'.parts : n < call'.next \/ (n = call'.next /\ call'.why = "observer") =>
            IF call'.result = "rejected" THEN call'.parts[n] \notin open' /\ outcome'[call'.parts[n]] = "none"
            ELSE call'.parts[n] \in open' /\ outcome'[call'.parts[n]] # "none"
      BY Zenon, <2>0, <2>2 DEF FlightOK
    <3>. QED  BY Zenon, <2>0, <2>1, <2>2, <2>3, <2>4, <2>6, <2>7, <3>1 DEF FlightOK
  <2>12. LogOK'
    BY Zenon, <2>0, <2>2, <2>3, <2>4, <2>6 DEF LogOK
  <2>13. KeysOK'
    BY Zenon, <2>4 DEF KeysOK
  <2>14. DiskOK'
    <3>1. Bound' = {} /\ call'.at # "storing"
      BY Zenon, <2>2, <2>4 DEF Bound
    <3>2. \A i \in Range(log') : \A k \in Own(i, part[i])' : i \in Range(disk'[k])
      BY Zenon, <2>0, <2>3 DEF DiskOK
    <3>. QED  BY Zenon, <2>0, <2>1, <2>3, <3>1, <3>2 DEF DiskOK
  <2>15. ReadsOK'
    <3>1. \A i \in stale' : /\ ~Healthy' /\ i <= started' /\ i # line'.job
                            /\ i \notin Range(log') /\ i \notin Range(call'.parts)
                            /\ i \in Range(queue') => failed'
                            /\ outcome'[i] = "ok" => Poisoned(i)'
                            /\ told'[i] # "ok"
      BY Zenon, <2>0, <2>1, <2>2, <2>4 DEF ReadsOK
    <3>2. line'.at = "settling" /\ ~Right' => (~failed' /\ call'.at = "failing") \/ Poisoned(line.job)
      BY Zenon, <2>1, <2>2, <2>3, <2>4 DEF ReadsOK
    <3>3. Poisoned(line.job) => Poisoned(line.job)'
      BY Zenon, <2>0, <2>1 DEF Poisoned, failed, NoFailure
    <3>4. ~Healthy'
      BY Zenon, <2>4
    <3>5. line'.at = "settling" /\ ~Right' => (~failed' /\ call'.at = "failing") \/ Poisoned(line.job)'
      BY Zenon, <3>2, <3>3
    <3>. QED  BY Zenon, <3>1, <3>4, <3>5 DEF ReadsOK
  <2>16. TellsOK'
    BY Zenon, <2>0, <2>1, <2>3, <2>4 DEF TellsOK
  <2>17. CloseOK'
    BY Zenon, <2>0, <2>1, <2>3, <2>4 DEF CloseOK
  <2>. QED  BY Zenon, <2>8, <2>9, <2>10, <2>11, <2>12, <2>13, <2>14, <2>15, <2>16, <2>17
<1>1. ASSUME PartMissing PROVE Stops("unreceived")
  BY Zenon, <1>1 DEF PartMissing, Stop, Stops, Aside, IInv, TypeOK, lineVars, stateVars, outcomeVars, sessionVars
<1>2. ASSUME PartTooLate PROVE Stops("external")
  BY Zenon, <1>2 DEF PartTooLate, Stop, Stops, Aside, IInv, TypeOK, lineVars, stateVars, outcomeVars, sessionVars
<1>3. ASSUME AdoptionThrows PROVE Stops("adoption")
  <2>1. unpublished' \in [Docs -> Nat]
    BY Zenon, <1>3, UnregisterType DEF AdoptionThrows, IInv
  <2>. QED  BY Zenon, <1>3, <2>1 DEF AdoptionThrows, Stop, Stops, Aside, lineVars, stateVars, outcomeVars, sessionVars
<1>. QED  BY Zenon, <1>1, <1>2, <1>3, <1>StopsInv

\* A failing call settles its parts.
LEMMA CallSettlesInv ==
    ASSUME IInv, CallSettles
    PROVE  IInv'
<1>0. /\ call.at = "storing" /\ Aside
      /\ UNCHANGED <<mem, holds, pending, disk, log, failAt, ownOutcomes, closing>>
  BY Zenon DEF CallSettles, Aside, lineVars, stateVars, sessionVars
<1>1. CASE failed
  <2>1. /\ call' = NoCall /\ queue' = <<>> /\ outcome' = Settle(Flight, "failed")
        /\ unpublished' = Unregister(Flight) /\ open' = open \cup Flight
    BY Zenon, <1>1 DEF CallSettles, GiveUp, Discard, Flight
  <2>2. unpublished' \in [Docs -> Nat]
    BY Zenon, <2>1, UnregisterType DEF IInv
  <2>3. "failed" \in Outcomes /\ "failed" # "none"
    BY DEF Outcomes
  <2>4. outcome' \in [Jobs -> Outcomes] /\ \A j \in Jobs : outcome'[j] = IF j \in Flight THEN "failed" ELSE outcome[j]
    BY <2>1, <2>3, SettleType DEF IInv
  <2>5. \A j \in Flight : outcome[j] = "none" /\ j \in Jobs
    BY Zenon, <1>0, StoringWaits, InLogHasPart DEF IInv, FlightOK, Flight
  <2>6. {j \in Flight : outcome[j] = "none"} = Flight
    BY Zenon, <2>5
  <2>7. call.at # "none" /\ failed'
    BY Zenon, <1>0, <1>1 DEF failed, NoFailure
  <2>8. GivesUp
    BY Zenon, <1>0, <1>1, <2>1, <2>2, <2>3, <2>4, <2>5, <2>6, <2>7 DEF GivesUp
  <2>. QED  BY Zenon, <2>8, GivesUpInv
<1>2. CASE ~failed
  <2>1. PICK r \in CallResults : call' = [call EXCEPT !.at = "publishing", !.result = r.result, !.received = r.received]
    BY Zenon, <1>2 DEF CallSettles
  <2>2. UNCHANGED <<queue, unpublished, open, outcome>>
    BY Zenon, <1>2 DEF CallSettles
  <2>3. \/ r \in [result : IF Left = {} THEN {"ok"} ELSE {"refused"}, received : {call.durable}]
        \/ r \in [result : {"rejected"}, received : {0} \cup (Batches \ Left)]
    BY Zenon, <2>1 DEF CallResults
  <2>4. \/ r.result = "ok" /\ Left = {} /\ r.received = call.durable
        \/ r.result = "refused" /\ Left # {} /\ r.received = call.durable
        \/ r.result = "rejected" /\ r.received \in {0} \cup (Batches \ Left)
    BY <2>3
  <2>5. Results(r.result, r.received)
    BY Zenon, <1>0, <1>2, <2>1, <2>2, <2>4 DEF Results
  <2>. QED  BY Zenon, <2>5, ResultsInv
<1>. QED  BY Zenon, <1>1, <1>2

\* The failure reaches the Session: the place on the line from which callers are told of it is set, before or behind the part
\* at which the call stopped.
LEMMA FailCallInv ==
    ASSUME IInv, FailCall
    PROVE  IInv'
\* The parts that settle with an error of their own are in flight and not settled.
<1>OwnErrorsWait. ASSUME IInv, call.at = "failing"
                  PROVE  \A j \in OwnErrors : j \in Range(call.parts) /\ j \in Flight /\ j \in Jobs /\ outcome[j] = "none"
  <2>. USE <1>OwnErrorsWait
  <2>0. TypeOK /\ CallOK /\ FlightOK /\ LogOK
    BY Zenon DEF IInv
  <2>1. call.parts \in Seq(Jobs) /\ call.next \in Nat
    BY Zenon, <2>0, CallType
  <2>2. ASSUME NEW n \in DOMAIN call.parts,
               \/ call.result = "rejected" /\ n < call.next
               \/ n = call.next /\ call.why \in {"unreceived", "adoption"}
               \/ call.result = "rejected" /\ n > call.next
        PROVE  outcome[call.parts[n]] = "none"
    <3>1. CASE call.result = "rejected" /\ n < call.next
      BY Zenon, <2>0, <3>1 DEF FlightOK
    <3>2. CASE (n = call.next /\ call.why \in {"unreceived", "adoption"}) \/ n > call.next
      <4>1. n >= call.next /\ ~(n = call.next /\ call.why = "observer")
        BY <2>1, <3>2
      <4>2. call.parts[n] \in Waiting
        BY Zenon, <4>1 DEF Waiting
      <4>. QED  BY Zenon, <2>0, <4>2 DEF FlightOK
    <3>. QED  BY Zenon, <2>2, <3>1, <3>2
  <2>3. ASSUME NEW j \in OwnErrors
        PROVE  \E n \in DOMAIN call.parts : j = call.parts[n] /\ outcome[call.parts[n]] = "none"
    BY Zenon, <2>2 DEF OwnErrors
  <2>4. \A n \in DOMAIN call.parts : call.parts[n] \in Range(call.parts)
    BY InRange
  <2>. QED  BY Zenon, <2>0, <2>3, <2>4, InLogHasPart DEF Flight
\* The failure is at a part of the call.
<1>FailsAtPart. ASSUME IInv, call.at = "failing"
                PROVE  (IF call.result = "rejected" /\ OwnErrors # {} THEN Min(OwnErrors) ELSE call.parts[call.next]) \in Range(call.parts)
  <2>. USE <1>FailsAtPart
  <2>0. TypeOK /\ CallOK /\ FlightOK
    BY Zenon DEF IInv
  <2>1. call.parts \in Seq(Jobs) /\ call.next \in Nat /\ InOrder(call.parts)
    BY Zenon, <2>0, CallType DEF FlightOK
  <2>2. call.parts # <<>> /\ call.next >= 1
    BY <2>0 DEF CallOK
  <2>3. /\ \/ call.why # "none" /\ call.next <= Len(call.parts)
           \/ call.why = "none" /\ call.result = "rejected" /\ call.next = Len(call.parts) + 1
        /\ call.why = "observer" => call.result # "rejected"
    BY Zenon, <2>0 DEF CallOK
  <2>4. 1 \in DOMAIN call.parts /\ \A n \in DOMAIN call.parts : n \in Nat /\ n >= 1
    BY <2>1, <2>2
  <2>5. CASE call.result = "rejected" /\ (call.next > 1 \/ call.why \in {"unreceived", "adoption"})
    <3>1. call.parts[1] \in OwnErrors
      <4>1. \/ call.result = "rejected" /\ 1 < call.next
            \/ 1 = call.next /\ call.why \in {"unreceived", "adoption"}
        BY <2>1, <2>2, <2>5
      <4>. QED  BY Zenon, <2>4, <4>1 DEF OwnErrors
    <3>2. \A j \in Range(call.parts) : call.parts[1] <= j
      <4>1. ASSUME NEW n \in DOMAIN call.parts PROVE call.parts[1] <= call.parts[n]
        BY <2>1, <2>4, OrderedParts, JobNumbers
      <4>. QED  BY Zenon, <4>1, RangeIs
    <3>3. \A j \in OwnErrors : call.parts[1] <= j /\ j \in Range(call.parts)
      BY Zenon, <3>2, <1>OwnErrorsWait
    <3>4. Min(OwnErrors) \in OwnErrors
      BY Zenon, <3>1, <3>3 DEF Min
    <3>. QED  BY Zenon, <2>5, <3>1, <3>3, <3>4
  <2>6. CASE ~(call.result = "rejected" /\ (call.next > 1 \/ call.why \in {"unreceived", "adoption"}))
    <3>1. call.next \in DOMAIN call.parts
      BY <2>1, <2>2, <2>3, <2>6
    <3>2. call.parts[call.next] \in Range(call.parts)
      BY <3>1, InRange
    <3>3. ASSUME call.result = "rejected" PROVE OwnErrors = {}
      <4>1. call.next = 1 /\ call.why \notin {"unreceived", "adoption"}
        BY <2>1, <2>2, <2>6, <3>3
      <4>2. call.why = "external"
        <5>1. call.why \in {"none", "unreceived", "external", "adoption", "observer"}
          BY Zenon, <2>0, CallType
        <5>2. call.why # "none"
          BY <2>1, <2>2, <2>3, <4>1
        <5>. QED  BY <2>3, <3>3, <4>1, <5>1, <5>2
      <4>3. \A m \in DOMAIN call.parts : ~(m < call.next)
        BY <2>4, <4>1
      <4>. QED  BY Zenon, <4>1, <4>2, <4>3 DEF OwnErrors
    <3>. QED  BY Zenon, <3>2, <3>3
  <2>. QED  BY Zenon, <2>5, <2>6
<1>0. TypeOK /\ FlightOK /\ LogOK /\ call.at = "failing" /\ call.at # "none"
  BY Zenon DEF IInv, FailCall
<1>1. PICK rest : rest = {i \in Flight : outcome[i] = "none"}
  OBVIOUS
<1>2. PICK at : at = IF call.result = "rejected" /\ OwnErrors # {} THEN Min(OwnErrors) ELSE call.parts[call.next]
  OBVIOUS
<1>3. /\ fail(at, OwnErrors) /\ call' = NoCall /\ queue' = <<>> /\ Aside /\ UNCHANGED <<mem, holds, pending, disk, log>>
      /\ outcome' = [i \in Jobs |-> IF i \in OwnErrors THEN "err"
                                    ELSE IF i \in rest THEN "failed" ELSE outcome[i]]
      /\ unpublished' = Unregister(rest) /\ open' = open \cup rest
  BY Zenon, <1>1, <1>2 DEF FailCall, Flight, Aside, lineVars, stateVars
<1>4. at \in Range(call.parts) /\ at \in Flight /\ at \in Jobs
  BY Zenon, <1>0, <1>2, <1>FailsAtPart, InLogHasPart DEF Flight
<1>5. \A j \in OwnErrors : j \in Flight /\ j \in Jobs /\ outcome[j] = "none"
  BY Zenon, <1>0, <1>OwnErrorsWait
<1>6. at \in 0..(MaxJobs + 1) /\ OwnErrors \in SUBSET Jobs
  BY <1>4, <1>5, JobNumbers
<1>7. /\ failed' /\ (closing' = closing \/ (closing = "open" /\ closing' = "sealed"))
      /\ failed => failAt' = failAt /\ ownOutcomes' = ownOutcomes
      /\ ~failed => failAt' = at /\ ownOutcomes' = OwnErrors
  BY Zenon, <1>0, <1>3, <1>6, FailType
<1>8. unpublished' \in [Docs -> Nat]
  BY Zenon, <1>0, <1>3, UnregisterType
<1>9. "err" \in Outcomes /\ "failed" \in Outcomes /\ "err" # "none" /\ "failed" # "none"
  BY DEF Outcomes
<1>10. outcome \in [Jobs -> Outcomes]
  BY Zenon, <1>0 DEF TypeOK
<1>11. outcome' \in [Jobs -> Outcomes]
  BY Zenon, <1>3, <1>9, <1>10
<1>12. \A j \in Jobs : outcome'[j] = IF j \in OwnErrors THEN "err" ELSE IF j \in rest THEN "failed" ELSE outcome[j]
  BY Zenon, <1>3
<1>13. \A j \in Flight : j \in Jobs
  BY Zenon, <1>0, InLogHasPart DEF Flight
<1>14. /\ \A j \in Jobs : \/ outcome'[j] = outcome[j]
                          \/ j \in Flight /\ outcome[j] = "none" /\ outcome'[j] \in {"err", "failed"}
       /\ \A j \in Flight : outcome'[j] # "none"
  BY Zenon, <1>1, <1>5, <1>9, <1>12, <1>13
<1>15. OwnErrors \subseteq {j \in Flight : outcome'[j] = "err"}
  BY Zenon, <1>5, <1>12
<1>16. GivesUp
  BY Zenon, <1>0, <1>1, <1>3, <1>4, <1>7, <1>8, <1>11, <1>14, <1>15 DEF GivesUp
<1>. QED  BY Zenon, <1>16, GivesUpInv

-----------------------------------------------------------------------------
(* Publication *)

\* It is the turn of part i, and Storage has given its receipt.
Turn(i) == call.at = "publishing" /\ ~failed /\ Received(call.next) /\ i = call.parts[call.next]

TurnHas(i) ==
    /\ i \in Jobs /\ i \in Range(call.parts) /\ i \in Waiting /\ HasPart(i)
    /\ outcome[i] = "none" /\ told[i] = "none" /\ i \notin open
    /\ call.next \in DOMAIN call.parts /\ call.next \in Nat /\ call.parts \in Seq(Jobs) /\ call.why = "none"
    /\ part[i].stored => i \in Range(log)
    /\ Healthy /\ stale = {} /\ ownOutcomes = {} /\ Right
    /\ DOMAIN part[i].delta \subseteq Docs /\ part[i].taken \subseteq DOMAIN part[i].delta
    /\ Own(i, part[i]) \subseteq DOMAIN part[i].delta
    /\ \A k \in Docs : KeyOK(k) /\ (k \in DOMAIN part[i].delta <=> unpublished[k] = i)
    /\ closing # "closed" /\ line.at # "closing" /\ (line.at = "stored" => line.job = i)
    /\ \A n \in DOMAIN call.parts : (call.parts[n] < i <=> n < call.next) /\ (call.parts[n] = i <=> n = call.next)
    /\ \A j \in Range(queue) : i < j

\* What is known of the part whose turn it is
LEMMA TurnFacts ==
    ASSUME IInv, NEW i, Turn(i)
    PROVE  TurnHas(i)
<1>. USE DEF IInv
<1>0. call.at = "publishing" /\ ~failed /\ Received(call.next) /\ i = call.parts[call.next]
  BY Zenon DEF Turn
<1>1. call.parts \in Seq(Jobs) /\ call.next \in Nat /\ InOrder(call.parts)
  BY Zenon, CallType DEF FlightOK
<1>2. call.parts # <<>> /\ call.next >= 1 /\ call.why = "none" /\ call.next <= Len(call.parts)
  BY Zenon, <1>0 DEF CallOK
<1>3. call.next \in DOMAIN call.parts
  BY <1>1, <1>2
<1>4. i \in Jobs /\ i \in Range(call.parts) /\ HasPart(i)
  <2>1. i \in Range(call.parts)
    BY <1>0, <1>3, InRange
  <2>. QED  BY Zenon, <2>1, InLogHasPart
<1>5. i \in Waiting
  <2>1. call.next >= call.next /\ call.why # "observer"
    BY <1>1, <1>2
  <2>. QED  BY Zenon, <1>0, <1>3, <2>1 DEF Waiting
<1>6. outcome[i] = "none" /\ i \notin open
  BY Zenon, <1>5 DEF FlightOK
<1>7. told[i] = "none"
  BY Zenon, <1>4, <1>6 DEF TellsOK
<1>8. part[i].stored => i \in Range(log)
  BY Zenon, <1>0, <1>3 DEF Received, Batches, LogOK
<1>9. Healthy
  BY Zenon, <1>0 DEF Healthy
<1>10. stale = {} /\ Right
  BY Zenon, <1>9 DEF ReadsOK
<1>11. ownOutcomes = {}
  BY Zenon, <1>0 DEF TellsOK
<1>12. DOMAIN part[i].delta \subseteq Docs /\ part[i].taken \subseteq DOMAIN part[i].delta
  BY Zenon, <1>4, PartType DEF FlightOK
<1>13. Own(i, part[i]) \subseteq DOMAIN part[i].delta
  BY Zenon DEF Own
<1>14. ASSUME NEW k \in Docs PROVE KeyOK(k) /\ (k \in DOMAIN part[i].delta <=> unpublished[k] = i)
  <2>1. KeyOK(k)
    BY Zenon, <1>9 DEF KeysOK
  <2>2. i # 0
    BY <1>4, JobNumbers
  <2>. QED  BY Zenon, <1>5, <2>1, <2>2 DEF KeyOK
<1>15. closing # "closed"
  BY Zenon, <1>0 DEF LineOK
<1>16. line.at # "closing" /\ (line.at = "stored" => line.job = i)
  BY Zenon, <1>0, <1>4, <1>6 DEF CloseOK
<1>17. ASSUME NEW n \in DOMAIN call.parts
       PROVE  (call.parts[n] < i <=> n < call.next) /\ (call.parts[n] = i <=> n = call.next)
  <2>1. PICK m : m = call.next
    OBVIOUS
  <2>2. (call.parts[n] < call.parts[m] <=> n < m) /\ (call.parts[n] = call.parts[m] <=> n = m)
    BY <1>1, <1>3, <2>1, OrderedParts
  <2>. QED  BY Zenon, <1>0, <2>1, <2>2
<1>18. \A j \in Range(queue) : i < j
  BY Zenon, <1>4 DEF FlightOK
<1>. QED  BY Zenon, <1>1, <1>2, <1>3, <1>4, <1>5, <1>6, <1>7, <1>8, <1>9, <1>10, <1>11, <1>12, <1>13, <1>14, <1>15, <1>16, <1>17, <1>18 DEF TurnHas

\* The parts before it have succeeded, unless the call rejected.
LEMMA BeforeTurn ==
    ASSUME IInv, NEW i, Turn(i), call.result # "rejected", NEW j \in Jobs, HasPart(j), j < i
    PROVE  outcome[j] = "ok"
<1>. USE DEF IInv
<1>1. TurnHas(i) /\ ~failed
  BY Zenon, TurnFacts DEF Turn
<1>2. outcome[j] \in {"none", "ok"}
  BY Zenon, <1>1 DEF FlightOK
<1>3. outcome[j] # "none"
  <2>1. CASE j \notin Flight
    BY Zenon, <2>1 DEF FlightOK
  <2>2. CASE j \in Range(queue)
    <3>1. i < j
      BY Zenon, <1>1, <2>2 DEF TurnHas
    <3>. QED  BY <1>1, <3>1, JobNumbers DEF TurnHas
  <2>3. CASE j \in Range(call.parts)
    <3>1. PICK n \in DOMAIN call.parts : call.parts[n] = j
      BY <2>3, RangeIs
    <3>2. n < call.next
      BY Zenon, <1>1, <3>1 DEF TurnHas
    <3>. QED  BY Zenon, <3>1, <3>2 DEF FlightOK
  <2>. QED  BY Zenon, <2>1, <2>2, <2>3 DEF Flight
<1>. QED  BY <1>2, <1>3

\* What publishing the part changes of memory
PublishHas(i) ==
    /\ mem' \in [Docs -> Seq(Jobs)] /\ pending' \in [Docs -> Seq(Jobs)] /\ holds' \in SUBSET Docs
    /\ \A k \in Docs : mem'[k] = IF k \in Own(i, part[i]) THEN Append(mem[k], i) ELSE mem[k]
    /\ \A k \in Docs : Range(mem[k]) \subseteq Range(mem'[k])
    /\ \A k \in Own(i, part[i]) : i \in Range(mem'[k])
    /\ part[i].stored =>
         /\ holds' = holds \ part[i].taken
         /\ \A k \in Docs : pending'[k] = IF k \in part[i].taken THEN <<>> ELSE pending[k]
    /\ ~part[i].stored =>
         /\ holds' = holds \cup Own(i, part[i])
         /\ \A k \in Docs : pending'[k] = IF k \in Own(i, part[i]) THEN Append(pending[k], i) ELSE pending[k]

\* What publishing it reads and writes
LEMMA PublishFacts ==
    ASSUME IInv, NEW i, Turn(i), Publish(i)
    PROVE  PublishHas(i)
<1>1. TypeOK /\ i \in Jobs /\ Own(i, part[i]) \subseteq Docs
  BY Zenon, TurnFacts DEF TurnHas, IInv
<1>2. mem \in [Docs -> Seq(Jobs)] /\ pending \in [Docs -> Seq(Jobs)] /\ holds \in SUBSET Docs
  BY Zenon, <1>1 DEF TypeOK
<1>3. \A s \in Seq(Jobs) : Append(s, i) \in Seq(Jobs) /\ Range(Append(s, i)) = Range(s) \cup {i}
  BY <1>1, RangeAppend
<1>4. <<>> \in Seq(Jobs)
  OBVIOUS
<1>5. mem' = [k \in Docs |-> IF k \in Own(i, part[i]) THEN Append(mem[k], i) ELSE mem[k]]
  BY Zenon DEF Publish
<1>6. mem' \in [Docs -> Seq(Jobs)]
  BY Zenon, <1>2, <1>3, <1>5
<1>7. \A k \in Docs : mem'[k] = IF k \in Own(i, part[i]) THEN Append(mem[k], i) ELSE mem[k]
  BY Zenon, <1>5
<1>8. \A k \in Docs : Range(mem[k]) \subseteq Range(mem'[k])
  BY Zenon, <1>2, <1>3, <1>7
<1>9. \A k \in Own(i, part[i]) : i \in Range(mem'[k])
  BY Zenon, <1>1, <1>2, <1>3, <1>7
<1>10. CASE part[i].stored
  <2>1. holds' = holds \ part[i].taken /\ pending' = [k \in Docs |-> IF k \in part[i].taken THEN <<>> ELSE pending[k]]
    BY Zenon, <1>10 DEF Publish
  <2>2. pending' \in [Docs -> Seq(Jobs)]
    BY Zenon, <1>2, <1>4, <2>1
  <2>. QED  BY Zenon, <1>2, <1>6, <1>7, <1>8, <1>9, <1>10, <2>1, <2>2 DEF PublishHas
<1>11. CASE ~part[i].stored
  <2>1. /\ holds' = holds \cup Own(i, part[i])
        /\ pending' = [k \in Docs |-> IF k \in Own(i, part[i]) THEN Append(pending[k], i) ELSE pending[k]]
    BY Zenon, <1>11 DEF Publish
  <2>2. pending' \in [Docs -> Seq(Jobs)]
    BY Zenon, <1>2, <1>3, <2>1
  <2>. QED  BY Zenon, <1>1, <1>2, <1>6, <1>7, <1>8, <1>9, <1>11, <2>1, <2>2 DEF PublishHas
<1>. QED  BY Zenon, <1>10, <1>11

\* Published, the part is no longer the writer its keys wait for.
LEMMA PublishKey ==
    ASSUME IInv, NEW i, Turn(i), Publish(i), Aside, UNCHANGED <<disk, log>>,
           unpublished' = Unregister({i}), Waiting' = Waiting \ {i}, NEW k \in Docs
    PROVE  KeyOK(k)'
<1>0. TypeOK /\ TurnHas(i) /\ PublishHas(i)
  BY Zenon, TurnFacts, PublishFacts DEF IInv
<1>1. PICK W : W = Writers(k, AllJobs)
  OBVIOUS
<1>2. Writers(k, AllJobs)' = W /\ part' = part
  <2>1. Writers(k, AllJobs)' = Writers(k, AllJobs)
    BY Zenon, AsideSame DEF AllJobs
  <2>. QED  BY Zenon, <1>1, <2>1 DEF Aside
<1>3. /\ i \in Jobs /\ KeyOK(k) /\ (k \in DOMAIN part[i].delta <=> unpublished[k] = i)
      /\ part[i].stored => i \in Range(log)
      /\ part[i].taken \subseteq DOMAIN part[i].delta /\ Own(i, part[i]) \subseteq DOMAIN part[i].delta
  BY Zenon, <1>0 DEF TurnHas
<1>4. W \subseteq Jobs
  BY <1>1, JobNumbers DEF Writers
<1>5. 0 \notin W /\ 0 # i
  BY <1>3, <1>4, JobNumbers
<1>6. unpublished'[k] = IF unpublished[k] = i THEN 0 ELSE unpublished[k]
  <2>1. unpublished'[k] = IF unpublished[k] \in {i} THEN 0 ELSE unpublished[k]
    BY Zenon, <1>0, UnregisterType
  <2>. QED  BY Zenon, <2>1
<1>7. mem[k] \in Seq(Jobs) /\ disk[k] \in Seq(Jobs) /\ pending[k] \in Seq(Jobs)
  BY Zenon, <1>0 DEF TypeOK
<1>8. CASE k \in DOMAIN part[i].delta
  <2>1. unpublished[k] = i /\ unpublished'[k] = 0
    BY Zenon, <1>3, <1>6, <1>8
  <2>2. \A j \in W : j <= i
    BY Zenon, <1>1, <1>3, <1>5, <2>1 DEF KeyOK
  <2>3. i \in W <=> k \in Own(i, part[i])
    <3>1. i \in 1..(AllJobs - 1)
      BY <1>3, JobNumbers
    <3>. QED  BY Zenon, <1>1, <3>1 DEF Writers
  <2>4. Lists(mem[k], W \ {i})
    BY Zenon, <1>1, <1>3, <2>1 DEF KeyOK
  <2>5. ASSUME NEW s \in Seq(Jobs), Lists(s, W \ {i}), k \in Own(i, part[i])
        PROVE  Lists(Append(s, i), W)
    <3>1. \A j \in W \ {i} : j < i
      BY <1>3, <1>4, <2>2, JobNumbers
    <3>2. Lists(Append(s, i), (W \ {i}) \cup {i})
      BY <1>3, <2>5, <3>1, ListsMore
    <3>3. (W \ {i}) \cup {i} = W
      BY Zenon, <2>3, <2>5
    <3>. QED  BY Zenon, <3>2, <3>3
  <2>6. k \notin Own(i, part[i]) => W \ {i} = W
    BY Zenon, <2>3
  <2>7. Lists(mem'[k], W)
    <3>1. CASE k \in Own(i, part[i])
      <4>1. mem'[k] = Append(mem[k], i)
        BY Zenon, <1>0, <3>1 DEF PublishHas
      <4>. QED  BY Zenon, <1>7, <2>4, <2>5, <3>1, <4>1
    <3>2. CASE k \notin Own(i, part[i])
      <4>1. mem'[k] = mem[k]
        BY Zenon, <1>0, <3>2 DEF PublishHas
      <4>. QED  BY Zenon, <2>4, <2>6, <3>2, <4>1
    <3>. QED  BY Zenon, <3>1, <3>2
  <2>8. Lists(disk[k] \o pending'[k], W) /\ (k \notin holds' => pending'[k] = <<>>)
    <3>1. CASE part[i].stored
      <4>1. pending[k] = <<>> /\ Lists(disk[k], W)
        <5>1. Lands(k) /\ unpublished[k] # 0 /\ part[unpublished[k]].stored /\ unpublished[k] \in Range(log)
          BY Zenon, <1>3, <1>5, <2>1, <3>1 DEF KeyOK
        <5>. QED  BY Zenon, <1>1, <5>1 DEF Lands
      <4>2. pending'[k] = <<>>
        BY Zenon, <1>0, <3>1, <4>1 DEF PublishHas
      <4>3. disk[k] \o <<>> = disk[k]
        BY <1>7
      <4>. QED  BY Zenon, <4>1, <4>2, <4>3
    <3>2. CASE ~part[i].stored
      <4>1. Lists(disk[k] \o pending[k], W \ {i})
        <5>1. Lands(k) /\ ~(unpublished[k] # 0 /\ part[unpublished[k]].stored)
          BY Zenon, <1>3, <2>1, <3>2 DEF KeyOK
        <5>. QED  BY Zenon, <1>1, <2>1, <5>1 DEF Lands
      <4>2. CASE k \in Own(i, part[i])
        <5>1. pending'[k] = Append(pending[k], i) /\ k \in holds'
          BY Zenon, <1>0, <3>2, <4>2 DEF PublishHas
        <5>2. disk[k] \o pending[k] \in Seq(Jobs) /\ disk[k] \o Append(pending[k], i) = Append(disk[k] \o pending[k], i)
          <6>1. \A s, t \in Seq(Jobs) : s \o t \in Seq(Jobs) /\ s \o Append(t, i) = Append(s \o t, i)
            BY <1>3, ConcatOne
          <6>. QED  BY Zenon, <1>7, <6>1
        <5>. QED  BY Zenon, <2>5, <4>1, <4>2, <5>1, <5>2
      <4>3. CASE k \notin Own(i, part[i])
        <5>1. pending'[k] = pending[k] /\ (k \in holds' <=> k \in holds)
          BY Zenon, <1>0, <3>2, <4>3 DEF PublishHas
        <5>2. k \notin holds => pending[k] = <<>>
          BY Zenon, <1>3 DEF KeyOK
        <5>. QED  BY Zenon, <2>6, <4>1, <4>3, <5>1, <5>2
      <4>. QED  BY Zenon, <4>2, <4>3
    <3>. QED  BY Zenon, <3>1, <3>2
  <2>9. W \ {0} = W
    BY Zenon, <1>5
  <2>10. \A j \in Waiting' : k \notin DOMAIN part'[j].delta
    BY Zenon, <1>2, <1>3, <2>1 DEF KeyOK
  <2>11. Lands(k)'
    BY Zenon, <1>2, <2>1, <2>8, <2>9 DEF Lands
  <2>. QED  BY Zenon, <1>2, <2>1, <2>7, <2>8, <2>9, <2>10, <2>11 DEF KeyOK
<1>9. CASE k \notin DOMAIN part[i].delta
  <2>1. unpublished[k] # i /\ unpublished'[k] = unpublished[k]
    BY Zenon, <1>3, <1>6, <1>9
  <2>2. mem'[k] = mem[k] /\ pending'[k] = pending[k] /\ (k \in holds' <=> k \in holds)
    BY Zenon, <1>0, <1>3, <1>9 DEF PublishHas
  <2>3. Lands(k)'
    BY Zenon, <1>1, <1>2, <1>3, <2>1, <2>2 DEF KeyOK, Lands
  <2>4. unpublished[k] \in Waiting => unpublished[k] \in Waiting'
    BY Zenon, <2>1
  <2>5. /\ unpublished[k] # 0 => /\ unpublished[k] \in Waiting /\ k \in DOMAIN part[unpublished[k]].delta
                                 /\ \A j \in W : j <= unpublished[k]
        /\ \A j \in Waiting : k \in DOMAIN part[j].delta => unpublished[k] = j
        /\ Lists(mem[k], W \ {unpublished[k]})
        /\ k \notin holds => pending[k] = <<>>
    BY Zenon, <1>1, <1>3 DEF KeyOK
  <2>. QED  BY Zenon, <1>2, <2>1, <2>2, <2>3, <2>4, <2>5 DEF KeyOK
<1>. QED  BY Zenon, <1>8, <1>9

\* A step that publishes part i and settles it, or gives others up
Published(i) ==
    /\ Turn(i) /\ Publish(i) /\ Aside /\ UNCHANGED <<disk, log>>
    /\ unpublished' \in [Docs -> Nat] /\ \A k \in Docs : unpublished'[k] \in {0, unpublished[k]}
    /\ call' \in Calls /\ queue' \in Seq(Jobs) /\ outcome' \in [Jobs -> Outcomes]
    /\ open \subseteq open' /\ open' \subseteq Jobs
    /\ failAt' \in 0..(MaxJobs + 2) /\ ownOutcomes' = {}
    /\ closing' = closing \/ (closing = "open" /\ closing' = "sealed")
    /\ \A j \in Jobs : \/ outcome'[j] = outcome[j]
                       \/ HasPart(j) /\ outcome[j] = "none" /\ outcome'[j] = "failed"
                       \/ j = i /\ outcome'[i] = "ok" /\ call.result # "rejected"

\* Publication keeps what does not depend on where the call goes next.
LEMMA PublishRest ==
    ASSUME IInv, NEW i, Published(i)
    PROVE  Rest'
<1>. USE DEF IInv
<1>0. TurnHas(i) /\ PublishHas(i) /\ Turn(i) /\ ~failed /\ call.at # "none"
  BY Zenon, TurnFacts, PublishFacts DEF Published, Turn
<1>1. /\ UNCHANGED <<jobs, started, line, stale, part, told, early, lastDelivered, fired, disk, log>> /\ Aside
      /\ closing' = closing \/ (closing = "open" /\ closing' = "sealed")
      /\ ownOutcomes' = {} /\ open \subseteq open'
  BY Zenon DEF Published, Aside
<1>2. /\ \A j : HasPart(j)' <=> HasPart(j)
      /\ \A j : Own(j, part[j])' = Own(j, part[j])
      /\ (Right' <=> Right)
  BY Zenon, <1>1, AsideSame
<1>3. i \in Jobs /\ HasPart(i) /\ outcome[i] = "none"
  BY Zenon, <1>0 DEF TurnHas
<1>4. \A j \in Jobs : outcome[j] # "none" => outcome'[j] = outcome[j]
  BY Zenon, <1>3 DEF Published
<1>5. TypeOK'
  <2>1. closing' \in {"open", "sealed", "closed"}
    BY <1>1 DEF TypeOK
  <2>2. mem' \in [Docs -> Seq(Jobs)] /\ pending' \in [Docs -> Seq(Jobs)] /\ holds' \in SUBSET Docs
    BY Zenon, <1>0 DEF PublishHas
  <2>3. ownOutcomes' \in SUBSET Jobs /\ open' \in SUBSET Jobs
    BY Zenon DEF Published
  <2>. QED  BY Zenon, <1>1, <2>1, <2>2, <2>3 DEF TypeOK, Published
<1>6. LineOK' /\ closing' # "closed"
  <2>1. \A j \in Jobs : outcome'[j] # outcome[j] => HasPart(j)
    BY Zenon, <1>3 DEF Published
  <2>. QED  BY Zenon, <1>0, <1>1, <2>1, AsideLine
<1>7. ReadsOK'
  <2>1. stale' = {} /\ Right' /\ Healthy
    BY Zenon, <1>0, <1>1, <1>2 DEF TurnHas
  <2>2. \A k \in DOMAIN line.read : unpublished'[k] = 0
    <3>1. \A k \in DOMAIN line.read : unpublished[k] = 0 /\ k \in Docs
      BY Zenon, <2>1, LineType DEF ReadsOK
    <3>. QED  BY Zenon, <3>1 DEF Published
  <2>3. line.at = "gate" => unpublished'[line.key] \in {0, line.gate}
    <3>1. line.at = "gate" => line.key \in Docs /\ unpublished[line.key] \in {0, line.gate}
      BY Zenon, <2>1 DEF ReadsOK, LineOK
    <3>2. line.key \in Docs => unpublished'[line.key] = 0 \/ unpublished'[line.key] = unpublished[line.key]
      BY Zenon DEF Published
    <3>. QED  BY Zenon, <3>1, <3>2
  <2>. QED  BY Zenon, <1>1, <2>1, <2>2, <2>3 DEF ReadsOK
<1>8. TellsOK'
  <2>1. ASSUME NEW j \in Jobs, HasPart(j), outcome'[j] = "ok"
        PROVE  /\ \A k \in Own(j, part[j]) : j \in Range(mem'[k])
               /\ part[j].stored => j \in Range(log)
               /\ \A x \in 1..(j - 1) : HasPart(x) => outcome'[x] = "ok"
    <3>0. "ok" # "none" /\ "failed" # "ok"
      OBVIOUS
    <3>1. \A x \in 1..(j - 1) : x \in Jobs /\ x < j
      BY JobNumbers
    <3>2. CASE outcome[j] = "ok"
      <4>1. /\ \A k \in Own(j, part[j]) : j \in Range(mem[k])
            /\ part[j].stored => j \in Range(log)
            /\ \A x \in 1..(j - 1) : HasPart(x) => outcome[x] = "ok"
        BY Zenon, <2>1, <3>2 DEF TellsOK
      <4>2. \A k \in Own(j, part[j]) : k \in Docs
        BY Zenon, PartType DEF Own
      <4>3. \A k \in Docs : Range(mem[k]) \subseteq Range(mem'[k])
        BY Zenon, <1>0 DEF PublishHas
      <4>. QED  BY Zenon, <1>4, <3>0, <3>1, <4>1, <4>2, <4>3
    <3>3. CASE outcome[j] # "ok"
      <4>1. j = i /\ call.result # "rejected"
        BY Zenon, <2>1, <3>0, <3>3 DEF Published
      <4>2. /\ \A k \in Own(i, part[i]) : i \in Range(mem'[k])
            /\ part[i].stored => i \in Range(log)
        BY Zenon, <1>0 DEF PublishHas, TurnHas
      <4>3. \A x \in 1..(j - 1) : HasPart(x) => outcome[x] = "ok"
        BY Zenon, <1>0, <3>1, <4>1, BeforeTurn
      <4>. QED  BY Zenon, <1>4, <3>0, <3>1, <4>1, <4>2, <4>3
    <3>. QED  BY Zenon, <3>2, <3>3
  <2>2. ASSUME NEW j \in Jobs, told[j] # "none" PROVE told[j] = outcome'[j]
    <3>1. ~Poisoned(j)
      BY Zenon, <1>0 DEF Poisoned
    <3>. QED  BY Zenon, <1>4, <2>2, <3>1 DEF TellsOK
  <2>3. \A j \in early : ~HasPart(j) /\ j <= started /\ j # line.job
    BY Zenon DEF TellsOK
  <2>4. \A j \in Jobs : told[j] = "ok" /\ HasPart(j) =>
          \A x \in 1..(j - 1) : HasPart(x) /\ jobs[x] \notin Upkeep => told[x] = "ok"
    BY Zenon DEF TellsOK
  <2>5. \A j \in Jobs : HasPart(j)' /\ outcome'[j] = "ok" =>
          /\ \A k \in Own(j, part[j])' : j \in Range(mem'[k])
          /\ part'[j].stored => j \in Range(log')
          /\ \A x \in 1..(j - 1) : HasPart(x)' => outcome'[x] = "ok"
    BY Zenon, <1>1, <1>2, <2>1
  <2>. QED  BY Zenon, <1>1, <1>2, <2>2, <2>3, <2>4, <2>5 DEF TellsOK
<1>9. CloseOK'
  <2>1. line.at # "closing" /\ (line.at = "stored" => line.job = i)
    BY Zenon, <1>0 DEF TurnHas
  <2>2. ASSUME line.at = "stored"
        PROVE  /\ part[i].stored /\ holds' = {} /\ line.job = i
               /\ \A j \in Jobs : HasPart(j) /\ j # i => j \in open
    <3>1. /\ part[i].stored /\ line.job = i /\ holds \subseteq part[i].taken
          /\ \A j \in Jobs : HasPart(j) /\ j # i => j \in open
      BY Zenon, <1>0, <1>3, <2>1, <2>2 DEF CloseOK
    <3>2. holds' = holds \ part[i].taken
      BY Zenon, <1>0, <3>1 DEF PublishHas
    <3>. QED  BY Zenon, <3>1, <3>2
  <2>3. line'.at # "closing" /\ closing' # "closed"
    BY Zenon, <1>1, <1>6, <2>1
  <2>4. ASSUME line'.at = "stored"
        PROVE  /\ part'[line'.job].stored
               /\ \A j \in Jobs : HasPart(j)' /\ j # line'.job => j \in open'
               /\ holds' = {} /\ holds' \subseteq part'[line'.job].taken
    BY Zenon, <1>1, <1>2, <2>2, <2>4
  <2>. QED  BY Zenon, <2>3, <2>4 DEF CloseOK
<1>. QED  BY Zenon, <1>5, <1>6, <1>7, <1>8, <1>9 DEF Rest

\* The call goes on behind part i, or stops there.
GoesOn(i) ==
    /\ Published(i) /\ queue' = queue
    /\ call'.parts = call.parts /\ call'.received = call.received /\ call'.result = call.result
    /\ \/ /\ call'.at = "publishing" /\ call'.next = call.next + 1 /\ call'.why = "none" /\ call.next < Len(call.parts)
       \/ /\ call'.at = "failing" /\ call'.next = call.next + 1 /\ call'.why = "none"
          /\ call.next = Len(call.parts) /\ call.result = "rejected"
       \/ /\ call'.at = "failing" /\ call'.next = call.next /\ call'.why = "observer" /\ call.result # "rejected"
    /\ IF call.result = "rejected" THEN open' = open /\ outcome' = outcome
       ELSE /\ open' = open \cup {i} /\ outcome'[i] # "none"
            /\ \A j \in Jobs : j # i => outcome'[j] = outcome[j]
    /\ ~failed' => outcome'[i] \in {"none", "ok"}
    /\ Healthy' => unpublished' = Unregister({i})

\* The parts of the call behind the one whose turn it is
LEMMA WaitingIs ==
    ASSUME IInv, NEW i, Turn(i)
    PROVE  /\ Waiting = Range(queue) \cup {call.parts[n] : n \in {m \in DOMAIN call.parts : m >= call.next}}
           /\ Waiting \ {i} = Range(queue) \cup {call.parts[n] : n \in {m \in DOMAIN call.parts : m > call.next}}
<1>0. TurnHas(i)
  BY Zenon, TurnFacts
<1>1. call.why = "none" /\ call.next \in Nat /\ call.parts \in Seq(Jobs) /\ i \in Jobs
      /\ (\A n \in DOMAIN call.parts : call.parts[n] = i <=> n = call.next) /\ \A j \in Range(queue) : i < j
  BY Zenon, <1>0 DEF TurnHas
<1>2. Waiting = Range(queue) \cup {call.parts[n] : n \in {m \in DOMAIN call.parts : m >= call.next}}
  <2>1. call.why # "observer"
    BY <1>1
  <2>. QED  BY Zenon, <2>1 DEF Waiting
<1>3. i \notin Range(queue)
  BY <1>1, JobNumbers
<1>4. \A m \in DOMAIN call.parts : (m > call.next <=> m >= call.next /\ m # call.next)
  BY <1>1
<1>. QED  BY Zenon, <1>1, <1>2, <1>3, <1>4

\* The call has parts left to publish.
LEMMA GoesOnInv ==
    ASSUME IInv, NEW i, GoesOn(i)
    PROVE  IInv'
\* The published part no longer waits.
<1>GoesOnWhere. /\ Flight' = Flight /\ Waiting' = Waiting \ {i} /\ Batches' = Batches
                /\ \A n \in DOMAIN call.parts :
                      n < call'.next \/ (n = call'.next /\ call'.why = "observer") <=> n < call.next \/ n = call.next
  <2>0. TurnHas(i) /\ part' = part /\ queue' = queue /\ call'.parts = call.parts /\ Turn(i)
    BY Zenon, TurnFacts DEF GoesOn, Published, Aside
  <2>1. call.next \in Nat /\ call.parts \in Seq(Jobs)
    BY Zenon, <2>0 DEF TurnHas
  <2>2. \/ call'.next = call.next + 1 /\ call'.why = "none"
        \/ call'.next = call.next /\ call'.why = "observer"
    BY Zenon DEF GoesOn
  <2>3. \A n \in DOMAIN call.parts :
           /\ n < call'.next \/ (n = call'.next /\ call'.why = "observer") <=> n < call.next \/ n = call.next
           /\ n >= call'.next /\ ~(n = call'.next /\ call'.why = "observer") <=> n > call.next
    BY <2>1, <2>2
  <2>4. Waiting' = Range(queue) \cup {call.parts[n] : n \in {m \in DOMAIN call.parts : m > call.next}}
    BY Zenon, <2>0, <2>3 DEF Waiting
  <2>. QED  BY Zenon, <2>0, <2>3, <2>4, WaitingIs DEF Flight, Batches
<1>GoesOnFlight. CallOK' /\ FlightOK'
  <2>. USE DEF IInv
  <2>0. /\ TurnHas(i) /\ part' = part /\ queue' = queue /\ call'.parts = call.parts /\ call'.result = call.result
        /\ Turn(i) /\ Aside /\ ~failed
    BY Zenon, TurnFacts DEF GoesOn, Published, Aside, Turn
  <2>1. /\ Flight' = Flight /\ Waiting' = Waiting \ {i}
        /\ \A n \in DOMAIN call.parts :
              n < call'.next \/ (n = call'.next /\ call'.why = "observer") <=> n < call.next \/ n = call.next
    BY Zenon, <1>GoesOnWhere
  <2>2. /\ i \in Jobs /\ HasPart(i) /\ i \in Flight /\ outcome[i] = "none" /\ i \notin open
        /\ call.next \in DOMAIN call.parts /\ i = call.parts[call.next]
    BY Zenon, <2>0 DEF TurnHas, Turn, Flight
  <2>3. \A j : HasPart(j)' <=> HasPart(j)
    BY Zenon, <2>0, AsideSame
  <2>4. CallOK'
    <3>1. call.next \in Nat /\ call.parts \in Seq(Jobs) /\ call.parts # <<>> /\ call.next >= 1 /\ call.next <= Len(call.parts)
      BY Zenon, <2>0 DEF TurnHas, Turn, CallOK
    <3>2. CASE call'.at = "publishing" /\ call'.next = call.next + 1 /\ call'.why = "none" /\ call.next < Len(call.parts)
      <4>1. call'.next >= 1 /\ call'.next <= Len(call'.parts) /\ call'.parts # <<>>
        BY <2>0, <3>1, <3>2
      <4>. QED  BY <3>2, <4>1 DEF CallOK
    <3>3. CASE /\ call'.at = "failing" /\ call'.next = call.next + 1 /\ call'.why = "none"
               /\ call.next = Len(call.parts) /\ call.result = "rejected"
      <4>1. call'.next >= 1 /\ call'.next = Len(call'.parts) + 1 /\ call'.parts # <<>> /\ call'.result = "rejected"
        BY <2>0, <3>1, <3>3
      <4>. QED  BY <3>3, <4>1 DEF CallOK
    <3>4. CASE call'.at = "failing" /\ call'.next = call.next /\ call'.why = "observer" /\ call.result # "rejected"
      <4>1. call'.next >= 1 /\ call'.next <= Len(call'.parts) /\ call'.parts # <<>> /\ call'.result # "rejected"
        BY <2>0, <3>1, <3>4
      <4>. QED  BY <3>4, <4>1 DEF CallOK
    <3>. QED  BY Zenon, <3>2, <3>3, <3>4 DEF GoesOn
  <2>5. \A j \in Jobs : j # i => outcome'[j] = outcome[j]
    BY Zenon DEF GoesOn
  <2>6. \A j \in Flight : j \in Jobs /\ HasPart(j)
    BY Zenon, InLogHasPart DEF Flight
  <2>7. open' \subseteq open \cup {i} /\ open \subseteq open'
    BY Zenon DEF GoesOn
  <2>8. \A j \in open' : HasPart(j)'
    BY Zenon, <2>2, <2>3, <2>7 DEF FlightOK
  <2>9. \A j \in Jobs : HasPart(j)' /\ j \notin Flight' => j \in open' /\ outcome'[j] # "none" /\ \A x \in Flight' : j < x
    BY Zenon, <2>1, <2>2, <2>3, <2>5, <2>7 DEF FlightOK
  <2>10. \A j \in Waiting' : j \notin open' /\ outcome'[j] = "none"
    <3>1. Waiting \subseteq Flight
      BY Zenon, InRange DEF Waiting, Flight, Range
    <3>. QED  BY Zenon, <2>1, <2>5, <2>6, <2>7, <3>1 DEF FlightOK
  <2>11. ASSUME NEW n \in DOMAIN call.parts, n < call.next \/ n = call.next
         PROVE  IF call.result = "rejected" THEN call.parts[n] \notin open' /\ outcome'[call.parts[n]] = "none"
                ELSE call.parts[n] \in open' /\ outcome'[call.parts[n]] # "none"
    <3>1. CASE n = call.next
      BY Zenon, <2>2, <3>1 DEF GoesOn
    <3>2. CASE n < call.next /\ n # call.next
      <4>1. IF call.result = "rejected" THEN call.parts[n] \notin open /\ outcome[call.parts[n]] = "none"
            ELSE call.parts[n] \in open /\ outcome[call.parts[n]] # "none"
        BY Zenon, <3>2 DEF FlightOK
      <4>2. call.parts[n] # i
        BY Zenon, <2>0, <3>2 DEF TurnHas
      <4>3. call.parts[n] \in Jobs
        BY Zenon, <2>6, InRange DEF Flight
      <4>. QED  BY Zenon, <2>5, <2>7, <4>1, <4>2, <4>3
    <3>. QED  BY Zenon, <2>11, <3>1, <3>2
  <2>12. ~failed' => \A j \in Jobs : HasPart(j)' => outcome'[j] \in {"none", "ok"}
    <3>1. \A j \in Jobs : HasPart(j) => outcome[j] \in {"none", "ok"}
      BY Zenon, <2>0 DEF FlightOK
    <3>2. ~failed' => outcome'[i] \in {"none", "ok"}
      BY Zenon DEF GoesOn
    <3>. QED  BY Zenon, <2>3, <2>5, <3>1, <3>2
  <2>13. \A n \in DOMAIN call'.parts : n < call'.next \/ (n = call'.next /\ call'.why = "observer") =>
            IF call'.result = "rejected" THEN call'.parts[n] \notin open' /\ outcome'[call'.parts[n]] = "none"
            ELSE call'.parts[n] \in open' /\ outcome'[call'.parts[n]] # "none"
    BY Zenon, <2>0, <2>1, <2>11
  <2>14. InOrder(call'.parts) /\ InOrder(queue') /\ (\A x \in Range(call'.parts) : \A y \in Range(queue') : x < y)
         /\ (\A j \in Flight' : HasPart(j)') /\ \A j \in Jobs : part'[j].taken \subseteq DOMAIN part'[j].delta
    BY Zenon, <2>0, <2>1, <2>3 DEF FlightOK
  <2>. QED  BY Zenon, <2>4, <2>8, <2>9, <2>10, <2>12, <2>13, <2>14 DEF FlightOK
<1>. USE DEF IInv
<1>0. /\ TurnHas(i) /\ part' = part /\ queue' = queue /\ call'.parts = call.parts /\ call'.result = call.result
      /\ call'.received = call.received /\ UNCHANGED <<disk, log>> /\ Turn(i) /\ Aside /\ ~failed /\ Published(i) /\ Publish(i)
      /\ call.at = "publishing" /\ call'.at # "storing" /\ Received(call.next)
  BY Zenon, TurnFacts DEF GoesOn, Published, Aside, Turn
<1>1. Flight' = Flight /\ Waiting' = Waiting \ {i} /\ Batches' = Batches
  BY Zenon, <1>GoesOnWhere
<1>2. /\ \A j : HasPart(j)' <=> HasPart(j)
      /\ \A k, n : Writers(k, n)' = Writers(k, n)
      /\ \A j : Own(j, part[j])' = Own(j, part[j])
      /\ Stored' = Stored
  BY Zenon, <1>0, AsideSame
<1>3. LogOK'
  <2>1. call'.at = "publishing" /\ call'.result = "refused" =>
          \E n \in Batches' : n >= call'.next /\ n > call'.received
    <3>1. SUFFICES ASSUME call'.at = "publishing", call.result = "refused"
                   PROVE  \E n \in Batches : n >= call'.next /\ n > call.received
      BY Zenon, <1>0, <1>1
    <3>2. PICK n \in Batches : n >= call.next /\ n > call.received
      BY Zenon, <1>0, <3>1 DEF LogOK
    <3>3. call.next \in Nat /\ n \in Nat /\ call.received \in Nat
      <4>1. n \in DOMAIN call.parts
        BY Zenon DEF Batches
      <4>. QED  BY <4>1, CallType
    <3>4. n = call.next => n <= call.received
      BY Zenon, <1>0 DEF Received
    <3>5. call'.next = call.next + 1
      BY Zenon, <3>1 DEF GoesOn
    <3>. QED  BY <3>2, <3>3, <3>4, <3>5
  <2>. QED  BY Zenon, <1>0, <1>1, <1>2, <2>1 DEF LogOK
<1>4. KeysOK'
  <2>1. ASSUME Healthy', NEW k \in Docs PROVE KeyOK(k)'
    <3>1. unpublished' = Unregister({i})
      BY Zenon, <2>1 DEF GoesOn
    <3>. QED  BY Zenon, <1>0, <1>1, <3>1, PublishKey
  <2>. QED  BY Zenon, <2>1 DEF KeysOK
<1>5. DiskOK'
  <2>1. Bound' \subseteq Bound
    BY Zenon, <1>0, <1>1 DEF Bound, Healthy, TurnHas
  <2>2. \A j \in Range(log') : \A k \in Own(j, part[j])' : j \in Range(disk'[k])
    BY Zenon, <1>0, <1>2 DEF DiskOK
  <2>3. \A k \in Docs : Begins(disk'[k], Writers(k, AllJobs)')
    BY Zenon, <1>0, <1>2 DEF DiskOK, AllJobs
  <2>4. \A j \in Bound' : part'[j].stored => \A k \in part'[j].basis :
          k \notin DOMAIN part'[j].delta => Writers(k, j)' \subseteq Range(disk'[k])
    BY Zenon, <1>0, <1>2, <2>1 DEF DiskOK
  <2>. QED  BY Zenon, <1>0, <1>2, <2>2, <2>3, <2>4 DEF DiskOK
<1>. QED  BY Zenon, <1>0, <1>3, <1>4, <1>5, <1>GoesOnFlight, PublishRest DEF Rest

\* With its last part the call is done: what it had to store is stored.
DoneHas(i) ==
    /\ Waiting \ {i} = Range(queue)
    /\ \A j \in Range(call.parts) : j # i => j \in open /\ outcome[j] # "none"
    /\ \A j \in Stored : j \in Range(log) \/ j \in Range(queue)

\* The last part of the call is published.
LEMMA DoneFacts ==
    ASSUME IInv, NEW i, Turn(i), call.next = Len(call.parts), call.result # "rejected"
    PROVE  DoneHas(i)
<1>. USE DEF IInv
<1>0. TurnHas(i) /\ call.at = "publishing" /\ ~failed /\ Received(call.next)
  BY Zenon, TurnFacts DEF Turn
<1>1. call.next \in DOMAIN call.parts /\ call.next \in Nat /\ call.parts \in Seq(Jobs) /\ call.received \in Nat
  BY Zenon, <1>0, CallType DEF TurnHas
<1>2. \A n \in DOMAIN call.parts : n \in Nat /\ ~(n > call.next) /\ (n # call.next => n < call.next) /\ (n >= call.next => n = call.next)
  BY <1>1
<1>3. Waiting \ {i} = Range(queue)
  BY Zenon, <1>2, WaitingIs
<1>4. ASSUME NEW j \in Range(call.parts), j # i PROVE j \in open /\ outcome[j] # "none"
  <2>1. PICK n \in DOMAIN call.parts : call.parts[n] = j
    BY RangeIs
  <2>2. n < call.next
    BY Zenon, <1>0, <1>2, <1>4, <2>1 DEF TurnHas
  <2>. QED  BY Zenon, <2>1, <2>2 DEF FlightOK
<1>5. call.result # "refused"
  <2>1. SUFFICES ASSUME call.result = "refused" PROVE FALSE
    OBVIOUS
  <2>2. PICK n \in Batches : n >= call.next /\ n > call.received
    BY Zenon, <1>0, <2>1 DEF LogOK
  <2>3. n = call.next /\ n \in Nat
    BY Zenon, <1>2, <2>2 DEF Batches
  <2>4. n <= call.received
    BY Zenon, <1>0, <2>3 DEF Received
  <2>. QED  BY <1>1, <2>2, <2>3, <2>4
<1>6. call.result = "ok"
  BY <1>5, CallType
<1>7. ASSUME NEW j \in Stored, j \notin Range(log) PROVE j \in Range(queue)
  <2>1. j \in Flight
    BY Zenon, <1>0, <1>7 DEF LogOK
  <2>2. j \notin Range(call.parts)
    <3>1. SUFFICES ASSUME j \in Range(call.parts) PROVE FALSE
      OBVIOUS
    <3>2. PICK n \in DOMAIN call.parts : call.parts[n] = j
      BY <3>1, RangeIs
    <3>3. n \in Batches
      BY Zenon, <3>2 DEF Batches, Stored
    <3>. QED  BY Zenon, <1>0, <1>6, <1>7, <3>2, <3>3 DEF LogOK
  <2>. QED  BY Zenon, <2>1, <2>2 DEF Flight
<1>. QED  BY Zenon, <1>3, <1>4, <1>7 DEF DoneHas

\* No call follows.
GoesIdle(i) ==
    /\ Published(i) /\ call.next = Len(call.parts) /\ call.result # "rejected"
    /\ call' = NoCall /\ queue' = <<>>
    /\ \A j \in Jobs : j # i /\ j \notin Range(queue) => outcome'[j] = outcome[j]
    /\ outcome'[i] # "none" /\ \A j \in Range(queue) : outcome'[j] # "none"
    /\ open' = open \cup ({i} \cup Range(queue))
    /\ ~failed' => queue = <<>> /\ outcome'[i] = "ok" /\ unpublished' = Unregister({i})

\* Nothing is queued: the writer is idle.
LEMMA GoesIdleInv ==
    ASSUME IInv, NEW i, GoesIdle(i)
    PROVE  IInv'
<1>. USE DEF IInv
<1>0. /\ TurnHas(i) /\ DoneHas(i) /\ Turn(i) /\ Publish(i) /\ Published(i) /\ Aside /\ part' = part /\ UNCHANGED <<disk, log>>
      /\ call' = NoCall /\ queue' = <<>> /\ ~failed
  BY Zenon, TurnFacts, DoneFacts DEF GoesIdle, Published, Aside, Turn
<1>1. call'.at = "none" /\ call'.parts = <<>> /\ call'.next = 1 /\ call'.why = "none" /\ call'.result = "ok"
  BY Zenon, <1>0, NoCallType
<1>2. Range(call'.parts) = {} /\ Range(queue') = {} /\ InOrder(call'.parts) /\ InOrder(queue') /\ DOMAIN call'.parts = {}
      /\ Range(<<>>) = {}
  BY <1>0, <1>1, NothingListed
<1>3. Flight' = {} /\ Batches' = {} /\ Waiting' = {}
  BY Zenon, <1>2 DEF Flight, Batches, Waiting
<1>4. /\ \A j : HasPart(j)' <=> HasPart(j)
      /\ \A k, n : Writers(k, n)' = Writers(k, n)
      /\ \A j : Own(j, part[j])' = Own(j, part[j])
      /\ Stored' = Stored
  BY Zenon, <1>0, AsideSame
<1>5. ~failed' => Waiting' = Waiting \ {i} /\ Range(queue) = {}
  BY Zenon, <1>0, <1>2, <1>3 DEF GoesIdle, DoneHas
<1>6. i \in Jobs /\ HasPart(i)
  BY Zenon, <1>0 DEF TurnHas
<1>7. \A j \in Flight : j \in Jobs /\ HasPart(j)
  BY Zenon, InLogHasPart DEF Flight
<1>8. CallOK'
  BY Zenon, <1>0, <1>1 DEF CallOK
<1>9. FlightOK'
  <2>1. \A j \in open' : HasPart(j)'
    BY Zenon, <1>4, <1>6, <1>7 DEF GoesIdle, FlightOK, Flight
  <2>2. ASSUME NEW j \in Jobs, HasPart(j) PROVE j \in open' /\ outcome'[j] # "none"
    <3>1. CASE j = i \/ j \in Range(queue)
      BY Zenon, <3>1 DEF GoesIdle
    <3>2. CASE j # i /\ j \notin Range(queue)
      <4>1. j \in open /\ outcome[j] # "none"
        BY Zenon, <1>0, <2>2, <3>2 DEF FlightOK, Flight, DoneHas
      <4>. QED  BY Zenon, <3>2, <4>1 DEF GoesIdle
    <3>. QED  BY Zenon, <3>1, <3>2
  <2>3. \A j \in Jobs : part'[j].taken \subseteq DOMAIN part'[j].delta
    BY Zenon, <1>0 DEF FlightOK
  <2>4. ~failed' => \A j \in Jobs : HasPart(j)' => outcome'[j] \in {"none", "ok"}
    <3>1. \A j \in Jobs : HasPart(j) => outcome[j] \in {"none", "ok"}
      BY Zenon, <1>0 DEF FlightOK
    <3>. QED  BY Zenon, <1>4, <1>5, <3>1 DEF GoesIdle
  <2>. QED  BY Zenon, <1>2, <1>3, <1>4, <2>1, <2>2, <2>3, <2>4 DEF FlightOK
<1>10. LogOK'
  <2>1. ~failed' => \A j \in Stored' : j \in Range(log')
    BY Zenon, <1>0, <1>4, <1>5 DEF DoneHas
  <2>2. Begins(log', Stored')
    BY Zenon, <1>0, <1>4 DEF LogOK
  <2>. QED  BY Zenon, <1>1, <1>2, <1>3, <2>1, <2>2 DEF LogOK
<1>11. KeysOK'
  <2>1. ASSUME Healthy', NEW k \in Docs PROVE KeyOK(k)'
    <3>1. ~failed' /\ unpublished' = Unregister({i}) /\ Waiting' = Waiting \ {i}
      BY Zenon, <1>5, <2>1 DEF GoesIdle, Healthy
    <3>. QED  BY Zenon, <1>0, <3>1, PublishKey
  <2>. QED  BY Zenon, <2>1 DEF KeysOK
<1>12. DiskOK'
  <2>1. Bound' = {} /\ call'.at # "storing"
    BY Zenon, <1>1, <1>3 DEF Bound
  <2>2. \A j \in Range(log') : \A k \in Own(j, part[j])' : j \in Range(disk'[k])
    BY Zenon, <1>0, <1>4 DEF DiskOK
  <2>3. \A k \in Docs : Begins(disk'[k], Writers(k, AllJobs)')
    BY Zenon, <1>0, <1>4 DEF DiskOK, AllJobs
  <2>. QED  BY Zenon, <1>0, <1>4, <2>1, <2>2, <2>3 DEF DiskOK
<1>. QED  BY Zenon, <1>0, <1>8, <1>9, <1>10, <1>11, <1>12, PublishRest DEF Rest

\* What was admitted meanwhile is sent.
GoesNext(i) ==
    /\ Published(i) /\ call.next = Len(call.parts) /\ call.result # "rejected"
    /\ call' = Sent(queue) /\ queue # <<>> /\ queue' = <<>> /\ ~failed'
    /\ \A j \in Jobs : j # i => outcome'[j] = outcome[j]
    /\ outcome'[i] = "ok" /\ open' = open \cup {i} /\ unpublished' = Unregister({i})

NextHas(i) ==
    /\ call'.parts = queue /\ call'.durable = 0 /\ call'.received = 0 /\ call'.result = "ok" /\ call'.next = 1 /\ call'.why = "none"
    /\ call'.at \in {"storing", "publishing"} /\ (call'.at = "publishing" => Batches' = {})
    /\ Range(queue') = {} /\ InOrder(queue') /\ queue \in Seq(Jobs)
    /\ Flight' = Range(queue) /\ Waiting' = Waiting \ {i} /\ Waiting \ {i} = Range(queue)
    /\ \A n \in Batches' : n \in DOMAIN queue /\ n \in Nat /\ n >= 1 /\ part[queue[n]].stored

\* What is queued becomes the next call.
LEMMA GoesNextInv ==
    ASSUME IInv, NEW i, GoesNext(i)
    PROVE  IInv'
\* The parts of the next call are those that waited.
<1>NextFacts. NextHas(i)
  <2>0. TypeOK /\ DoneHas(i) /\ part' = part /\ call' = Sent(queue) /\ queue' = <<>>
    BY Zenon, DoneFacts DEF GoesNext, Published, Aside, IInv
  <2>1. queue \in Seq(Jobs)
    BY Zenon, <2>0 DEF TypeOK
  <2>2. /\ call'.parts = queue /\ call'.durable = 0 /\ call'.received = 0 /\ call'.result = "ok" /\ call'.next = 1 /\ call'.why = "none"
        /\ call'.at \in {"storing", "publishing"}
        /\ call'.at = "storing" <=> \E n \in DOMAIN queue : part'[queue[n]].stored
    BY Zenon, <2>0, <2>1, SentType
  <2>3. Range(queue') = {} /\ InOrder(queue')
    BY Zenon, <2>0, NothingListed
  <2>4. Flight' = Range(queue)
    BY Zenon, <2>2, <2>3 DEF Flight
  <2>5. Waiting' = Range(queue)
    <3>1. call'.why # "observer" /\ \A n \in DOMAIN queue : n >= call'.next
      BY <2>1, <2>2
    <3>2. {m \in DOMAIN call'.parts : m >= call'.next /\ ~(m = call'.next /\ call'.why = "observer")} = DOMAIN queue
      BY Zenon, <2>2, <3>1
    <3>. QED  BY Zenon, <2>2, <2>3, <3>2 DEF Waiting, Range
  <2>6. \A n \in DOMAIN queue : n \in Nat /\ n >= 1
    BY <2>1
  <2>7. Batches' = {n \in DOMAIN queue : part[queue[n]].stored}
    BY Zenon, <2>0, <2>2 DEF Batches
  <2>8. call'.at = "publishing" => Batches' = {}
    <3>1. call'.at = "publishing" => call'.at # "storing"
      OBVIOUS
    <3>. QED  BY Zenon, <2>0, <2>2, <2>7, <3>1
  <2>9. Waiting \ {i} = Range(queue)
    BY Zenon, <2>0 DEF DoneHas
  <2>. QED  BY Zenon, <2>1, <2>2, <2>3, <2>4, <2>5, <2>6, <2>7, <2>8, <2>9 DEF NextHas
<1>GoesNextFlight. CallOK' /\ FlightOK' /\ LogOK'
  <2>. USE DEF IInv
  <2>0. /\ TurnHas(i) /\ DoneHas(i) /\ NextHas(i) /\ Aside /\ part' = part /\ log' = log
        /\ queue # <<>> /\ ~failed /\ ~failed'
    BY Zenon, TurnFacts, DoneFacts, <1>NextFacts DEF GoesNext, Published, Aside, Turn
  <2>1. /\ call'.parts = queue /\ call'.durable = 0 /\ call'.received = 0 /\ call'.result = "ok" /\ call'.next = 1 /\ call'.why = "none"
        /\ call'.at \in {"storing", "publishing"} /\ (call'.at = "publishing" => Batches' = {})
        /\ Range(queue') = {} /\ InOrder(queue') /\ queue \in Seq(Jobs)
        /\ Flight' = Range(queue) /\ Waiting' = Waiting \ {i} /\ Waiting \ {i} = Range(queue)
        /\ \A n \in Batches' : n \in DOMAIN queue /\ n \in Nat /\ n >= 1
    BY Zenon, <2>0 DEF NextHas
  <2>2. (\A j : HasPart(j)' <=> HasPart(j)) /\ Stored' = Stored
    BY Zenon, <2>0, AsideSame
  <2>3. i \in Jobs /\ HasPart(i) /\ \A j \in Range(queue) : i < j /\ j # i
    <3>1. i \in Jobs /\ HasPart(i) /\ \A j \in Range(queue) : i < j
      BY Zenon, <2>0 DEF TurnHas
    <3>. QED  BY <3>1, JobNumbers
  <2>4. \A j \in Range(queue) : j \in Jobs /\ HasPart(j)
    BY Zenon, InLogHasPart
  <2>5. CallOK'
    <3>1. 1 >= 1 /\ 1 <= Len(queue)
      BY <2>0, <2>1
    <3>. QED  BY <2>0, <2>1, <3>1 DEF CallOK
  <2>6. \A j \in open' : HasPart(j)'
    BY Zenon, <2>2, <2>3 DEF GoesNext, FlightOK
  <2>7. ASSUME NEW j \in Jobs, HasPart(j), j \notin Range(queue)
        PROVE  j \in open' /\ outcome'[j] # "none" /\ \A x \in Range(queue) : j < x
    <3>0. "ok" # "none"
      OBVIOUS
    <3>1. CASE j = i
      BY Zenon, <2>3, <3>0, <3>1 DEF GoesNext
    <3>2. CASE j # i /\ j \in Range(call.parts)
      <4>1. j \in open /\ outcome[j] # "none"
        BY Zenon, <2>0, <3>2 DEF DoneHas
      <4>2. \A x \in Range(queue) : j < x
        BY Zenon, <3>2 DEF FlightOK
      <4>. QED  BY Zenon, <3>2, <4>1, <4>2 DEF GoesNext
    <3>3. CASE j # i /\ j \notin Range(call.parts)
      <4>1. j \in open /\ outcome[j] # "none" /\ \A x \in Flight : j < x
        BY Zenon, <2>7, <3>3 DEF FlightOK, Flight
      <4>. QED  BY Zenon, <3>3, <4>1 DEF GoesNext, Flight
    <3>. QED  BY Zenon, <3>1, <3>2, <3>3
  <2>8. \A j \in Range(queue) : j \notin open' /\ outcome'[j] = "none"
    BY Zenon, <2>3, <2>4 DEF GoesNext, FlightOK, Waiting
  <2>9. \A j \in Jobs : HasPart(j)' => outcome'[j] \in {"none", "ok"}
    <3>1. \A j \in Jobs : HasPart(j) => outcome[j] \in {"none", "ok"}
      BY Zenon, <2>0 DEF FlightOK
    <3>. QED  BY Zenon, <2>2, <3>1 DEF GoesNext
  <2>10. FlightOK'
    <3>1. \A n \in DOMAIN call'.parts : ~(n < call'.next) /\ ~(n = call'.next /\ call'.why = "observer")
      BY <2>1
    <3>2. InOrder(call'.parts) /\ \A j \in Jobs : part'[j].taken \subseteq DOMAIN part'[j].delta
      BY Zenon, <2>0, <2>1 DEF FlightOK
    <3>3. \A j \in Jobs : HasPart(j)' /\ j \notin Flight' => j \in open' /\ outcome'[j] # "none" /\ \A x \in Flight' : j < x
      BY Zenon, <2>1, <2>2, <2>7
    <3>4. (\A j \in Waiting' : j \notin open' /\ outcome'[j] = "none") /\ \A j \in Flight' : HasPart(j)'
      BY Zenon, <2>1, <2>2, <2>4, <2>8
    <3>. QED  BY Zenon, <2>1, <2>6, <2>9, <3>1, <3>2, <3>3, <3>4 DEF FlightOK
  <2>11. LogOK'
    <3>1. \A n \in Batches' : ~(n <= 0)
      BY <2>1
    <3>2. \A n \in Batches' : call'.parts[n] \notin Range(log')
      <4>1. \A n \in DOMAIN queue : queue[n] \in Range(queue)
        BY InRange
      <4>. QED  BY Zenon, <2>0, <2>1, <4>1 DEF LogOK
    <3>3. \A j \in Stored' : j \in Range(log') \/ j \in Flight'
      BY Zenon, <2>0, <2>1, <2>2 DEF DoneHas
    <3>4. Begins(log', Stored')
      BY Zenon, <2>0, <2>2 DEF LogOK
    <3>5. call'.result # "refused"
      BY <2>1
    <3>. QED  BY Zenon, <2>1, <3>1, <3>2, <3>3, <3>4, <3>5 DEF LogOK
  <2>. QED  BY Zenon, <2>5, <2>10, <2>11
<1>GoesNextDisk. KeysOK' /\ DiskOK'
  <2>. USE DEF IInv
  <2>0. /\ TurnHas(i) /\ NextHas(i) /\ Turn(i) /\ Publish(i) /\ Aside /\ part' = part /\ UNCHANGED <<disk, log>>
        /\ unpublished' = Unregister({i}) /\ ~failed'
    BY Zenon, TurnFacts, <1>NextFacts DEF GoesNext, Published, Aside
  <2>1. /\ call'.parts = queue /\ call'.durable = 0 /\ queue \in Seq(Jobs) /\ Flight' = Range(queue)
        /\ Waiting' = Waiting \ {i} /\ Waiting \ {i} = Range(queue)
        /\ \A n \in Batches' : n \in DOMAIN queue /\ part[queue[n]].stored
    BY Zenon, <2>0 DEF NextHas
  <2>2. /\ \A k, n : Writers(k, n)' = Writers(k, n)
        /\ \A j : Own(j, part[j])' = Own(j, part[j])
    BY Zenon, <2>0, AsideSame
  <2>3. \A k \in Docs : KeyOK(k)'
    BY Zenon, <2>0, <2>1, PublishKey
  <2>4. \A j \in Range(queue) : j \in Jobs /\ j \notin Range(log)
    BY Zenon, InLogHasPart DEF LogOK
  <2>5. ASSUME NEW n \in DOMAIN queue, part[queue[n]].stored, NEW k \in DOMAIN part[queue[n]].delta
        PROVE  /\ Lists(disk[k] \o part[queue[n]].delta[k], Writers(k, queue[n] + 1))
               /\ unpublished'[k] = queue[n]
    <3>0. PICK q : q = queue[n]
      OBVIOUS
    <3>1. q \in Range(queue) /\ q \in Jobs /\ q \notin Range(log) /\ q # 0 /\ k \in DOMAIN part[q].delta /\ part[q].stored
      <4>1. q \in Range(queue)
        BY <3>0, InRange
      <4>2. q \in Jobs /\ q \notin Range(log)
        BY Zenon, <2>4, <4>1
      <4>3. q # 0
        BY <4>2, JobNumbers
      <4>. QED  BY Zenon, <2>5, <3>0, <4>1, <4>2, <4>3
    <3>2. k \in Docs
      BY Zenon, <3>1, PartType
    <3>3. KeyOK(k)'
      BY Zenon, <2>3, <3>2
    <3>4. unpublished'[k] = q
      BY Zenon, <2>0, <2>1, <3>1, <3>3 DEF KeyOK
    <3>5. Writers(k, AllJobs)' = Writers(k, AllJobs)
      BY Zenon, <2>2 DEF AllJobs
    <3>6. Lists(disk[k] \o part[q].delta[k], Writers(k, AllJobs))
      <4>1. Lands(k)' /\ unpublished'[k] # 0 /\ part'[unpublished'[k]].stored /\ unpublished'[k] \notin Range(log')
        BY Zenon, <2>0, <3>1, <3>3, <3>4 DEF KeyOK
      <4>. QED  BY Zenon, <2>0, <3>4, <3>5, <4>1 DEF Lands
    <3>7. \A j \in Writers(k, AllJobs) : j <= q
      BY Zenon, <3>1, <3>3, <3>4, <3>5 DEF KeyOK
    <3>8. Writers(k, q + 1) = Writers(k, AllJobs)
      BY Zenon, <3>1, <3>7, WritersUpTo
    <3>. QED  BY Zenon, <3>0, <3>4, <3>6, <3>8
  <2>6. ASSUME NEW n \in Left', NEW k \in DOMAIN part[queue[n]].delta
        PROVE  /\ Lists(disk[k] \o part[queue[n]].delta[k], Writers(k, queue[n] + 1))
               /\ \A m \in Left' : k \in DOMAIN part[queue[m]].delta => m = n
    <3>1. \A m \in Left' : m \in DOMAIN queue /\ part[queue[m]].stored
      BY Zenon, <2>1 DEF Left
    <3>2. ASSUME NEW m \in Left', k \in DOMAIN part[queue[m]].delta PROVE m = n
      <4>1. queue[m] = queue[n]
        BY Zenon, <2>5, <2>6, <3>1, <3>2
      <4>2. InOrder(queue)
        BY Zenon DEF FlightOK
      <4>. QED  BY <2>1, <3>1, <4>1, <4>2, OrderedParts
    <3>. QED  BY Zenon, <2>5, <2>6, <3>1, <3>2
  <2>7. ASSUME NEW n \in Left'
        PROVE  \A k \in DOMAIN part'[call'.parts[n]].delta :
            /\ Lists(disk'[k] \o part'[call'.parts[n]].delta[k], Writers(k, call.parts[n] + 1)')
            /\ \A m \in Left' : k \in DOMAIN part'[call'.parts[m]].delta => m = n
    <3>1. PICK q : q = queue[n]
      OBVIOUS
    <3>2. \A k : Writers(k, q + 1)' = Writers(k, q + 1)
      BY Zenon, <2>2
    <3>3. \A k : Writers(k, call.parts[n] + 1)' = Writers(k, q + 1)'
      BY Zenon, <2>1, <3>1 DEF Writers
    <3>4. part'[call'.parts[n]].delta = part[q].delta /\ disk' = disk
      BY Zenon, <2>0, <2>1, <3>1
    <3>5. ASSUME NEW k \in DOMAIN part[q].delta
          PROVE  Lists(disk'[k] \o part'[call'.parts[n]].delta[k], Writers(k, call.parts[n] + 1)')
      <4>1. Lists(disk[k] \o part[q].delta[k], Writers(k, q + 1))
        BY Zenon, <2>6, <3>1
      <4>2. Writers(k, call.parts[n] + 1)' = Writers(k, q + 1)
        BY Zenon, <3>2, <3>3
      <4>. QED  BY Zenon, <3>4, <4>1, <4>2
    <3>6. \A k \in DOMAIN part[q].delta : \A m \in Left' : k \in DOMAIN part'[call'.parts[m]].delta => m = n
      BY Zenon, <2>0, <2>1, <2>6, <3>1
    <3>. QED  BY Zenon, <3>4, <3>5, <3>6
  <2>8. Bound' \subseteq Bound
    BY Zenon, <2>0, <2>1 DEF Bound, TurnHas, Flight
  <2>9. DiskOK'
    <3>1. \A j \in Range(log') : \A k \in Own(j, part[j])' : j \in Range(disk'[k])
      BY Zenon, <2>0, <2>2 DEF DiskOK
    <3>2. \A k \in Docs : Begins(disk'[k], Writers(k, AllJobs)')
      BY Zenon, <2>0, <2>2 DEF DiskOK, AllJobs
    <3>3. \A j \in Bound' : part'[j].stored => \A k \in part'[j].basis :
            k \notin DOMAIN part'[j].delta => Writers(k, j)' \subseteq Range(disk'[k])
      BY Zenon, <2>0, <2>2, <2>8 DEF DiskOK
    <3>4. \A j \in Range(log') : \A k \in part'[j].basis : Writers(k, j)' \subseteq Range(disk'[k])
      BY Zenon, <2>0, <2>2 DEF DiskOK
    <3>. QED  BY Zenon, <2>7, <3>1, <3>2, <3>3, <3>4 DEF DiskOK
  <2>. QED  BY Zenon, <2>3, <2>9 DEF KeysOK
<1>. QED  BY Zenon, <1>GoesNextFlight, <1>GoesNextDisk, PublishRest DEF IInv, Rest, GoesNext

\* Where the call is after a part is published
LEMMA CallGoesOn ==
    ASSUME TypeOK, call' = [call EXCEPT !.next = call.next + 1]
    PROVE  /\ call' \in Calls /\ call'.parts = call.parts /\ call'.received = call.received /\ call'.result = call.result
           /\ call'.at = call.at /\ call'.next = call.next + 1 /\ call'.why = call.why
<1>1. call \in Calls /\ call.next \in Nat
  BY Zenon, CallType DEF TypeOK
<1>2. call.next + 1 \in Nat
  BY <1>1
<1>. QED  BY Zenon, <1>1, <1>2 DEF Calls

\* The three ways a turn ends, as steps of the call
LEMMA CallFails ==
    ASSUME TypeOK, call' = [call EXCEPT !.at = "failing", !.next = call.next + 1]
    PROVE  /\ call' \in Calls /\ call'.parts = call.parts /\ call'.received = call.received /\ call'.result = call.result
           /\ call'.at = "failing" /\ call'.next = call.next + 1 /\ call'.why = call.why
<1>1. call \in Calls /\ call.next \in Nat
  BY Zenon, CallType DEF TypeOK
<1>2. call.next + 1 \in Nat
  BY <1>1
<1>. QED  BY Zenon, <1>1, <1>2 DEF Calls

\* An observer that throws leaves its own part published.
LEMMA CallObserved ==
    ASSUME TypeOK, call' = [call EXCEPT !.at = "failing", !.why = "observer"]
    PROVE  /\ call' \in Calls /\ call'.parts = call.parts /\ call'.received = call.received /\ call'.result = call.result
           /\ call'.at = "failing" /\ call'.next = call.next /\ call'.why = "observer"
<1>1. call \in Calls
  BY Zenon DEF TypeOK
<1>. QED  BY Zenon, <1>1 DEF Calls

\* What all steps that publish a part have in common
Publication(i, S, r) ==
    /\ Turn(i) /\ Publish(i) /\ Aside /\ UNCHANGED <<disk, log>>
    /\ unpublished' = Unregister({i} \cup S) /\ outcome' = Settle({i} \cup S, r) /\ open' = open \cup ({i} \cup S)
    /\ S \subseteq Range(queue) /\ r \in {"ok", "failed"} /\ (r = "ok" => S = {}) /\ call.result # "rejected"
    /\ call' \in Calls /\ queue' \in {<<>>, queue}
    /\ \/ UNCHANGED <<failAt, ownOutcomes, closing>>
       \/ /\ failed' /\ failAt' \in 0..(MaxJobs + 2) /\ ownOutcomes' = {}
          /\ closing' = closing \/ (closing = "open" /\ closing' = "sealed")

\* A publication is a turn with one of these ends.
LEMMA PublicationIs ==
    ASSUME IInv, NEW i, NEW S, NEW r, Publication(i, S, r)
    PROVE  /\ Published(i) /\ \A j \in Jobs : outcome'[j] = IF j \in {i} \cup S THEN r ELSE outcome[j]
           /\ \A j \in Range(queue) : j \in Jobs
<1>0. TypeOK /\ FlightOK /\ LogOK /\ TurnHas(i)
  BY Zenon, TurnFacts DEF IInv, Publication
<1>1. r \in Outcomes
  BY DEF Publication, Outcomes
<1>2. outcome' \in [Jobs -> Outcomes] /\ \A j \in Jobs : outcome'[j] = IF j \in {i} \cup S THEN r ELSE outcome[j]
  <2>1. PICK T : T = {i} \cup S
    OBVIOUS
  <2>2. outcome' = Settle(T, r)
    BY Zenon, <2>1 DEF Publication
  <2>3. outcome' \in [Jobs -> Outcomes] /\ \A j \in Jobs : outcome'[j] = IF j \in T THEN r ELSE outcome[j]
    BY <1>0, <1>1, <2>2, SettleType
  <2>. QED  BY Zenon, <2>1, <2>3
<1>3. unpublished' \in [Docs -> Nat] /\ \A k \in Docs : unpublished'[k] \in {0, unpublished[k]}
  BY Zenon, <1>0, UnregisterType DEF Publication
<1>4. \A j \in Range(queue) : j \in Jobs /\ HasPart(j) /\ outcome[j] = "none"
  BY Zenon, <1>0, InLogHasPart DEF FlightOK, Waiting
<1>5. i \in Jobs /\ HasPart(i) /\ outcome[i] = "none" /\ ownOutcomes = {}
  BY Zenon, <1>0 DEF TurnHas
<1>6. open \subseteq open' /\ open' \subseteq Jobs
  BY Zenon, <1>0, <1>4, <1>5 DEF Publication, TypeOK
<1>7. \A j \in Jobs : \/ outcome'[j] = outcome[j]
                      \/ HasPart(j) /\ outcome[j] = "none" /\ outcome'[j] = "failed"
                      \/ j = i /\ outcome'[i] = "ok" /\ call.result # "rejected"
  <2>1. CASE r = "ok"
    BY Zenon, <1>2, <2>1 DEF Publication
  <2>2. CASE r = "failed"
    <3>1. \A j \in {i} \cup S : HasPart(j) /\ outcome[j] = "none"
      BY Zenon, <1>4, <1>5 DEF Publication
    <3>. QED  BY Zenon, <1>2, <2>2, <3>1
  <2>. QED  BY Zenon, <2>1, <2>2 DEF Publication
<1>8. queue' \in Seq(Jobs)
  <2>1. queue' = <<>> \/ queue' = queue
    BY Zenon DEF Publication
  <2>2. queue \in Seq(Jobs)
    BY Zenon, <1>0 DEF TypeOK
  <2>3. <<>> \in Seq(Jobs)
    OBVIOUS
  <2>. QED  BY Zenon, <2>1, <2>2, <2>3
<1>9. /\ failAt' \in 0..(MaxJobs + 2) /\ ownOutcomes' = {}
      /\ closing' = closing \/ (closing = "open" /\ closing' = "sealed")
  BY Zenon, <1>0, <1>5 DEF Publication, TypeOK
<1>10. Turn(i) /\ Publish(i) /\ Aside /\ UNCHANGED <<disk, log>> /\ call' \in Calls
  BY Zenon DEF Publication
<1>. QED  BY Zenon, <1>2, <1>3, <1>4, <1>6, <1>7, <1>8, <1>9, <1>10 DEF Published

\* The turn is at a part of the call.
LEMMA TurnPlace ==
    ASSUME IInv, NEW i, Turn(i)
    PROVE  /\ call.at = "publishing" /\ call.at # "failing" /\ call.why = "none" /\ ~failed
           /\ call.next < Len(call.parts) \/ (call.next = Len(call.parts) /\ ~(call.next < Len(call.parts)))
           /\ TypeOK /\ outcome[i] = "none" /\ ownOutcomes = {} /\ i \in Jobs
<1>1. TurnHas(i) /\ TypeOK /\ call.at = "publishing" /\ ~failed
  BY Zenon, TurnFacts DEF IInv, Turn
<1>2. call.next \in DOMAIN call.parts /\ call.next \in Nat /\ call.parts \in Seq(Jobs)
  BY Zenon, <1>1 DEF TurnHas
<1>3. call.next < Len(call.parts) \/ (call.next = Len(call.parts) /\ ~(call.next < Len(call.parts)))
  BY <1>2
<1>4. call.at # "failing"
  BY <1>1
<1>. QED  BY Zenon, <1>1, <1>3, <1>4 DEF TurnHas

\* A part of a call that rejected: published, it is settled with the call's error.
LEMMA PublishRejected ==
    ASSUME IInv, PublishPart, call.result = "rejected"
    PROVE  IInv'
<1>0. PICK i : i = call.parts[call.next]
  OBVIOUS
<1>1. Turn(i) /\ Publish(i) /\ unpublished' = Unregister({i}) /\ outcome' = outcome /\ open' = open /\ Aside
      /\ UNCHANGED <<disk, log, failAt, ownOutcomes, closing>>
  BY Zenon, <1>0 DEF PublishPart, Turn, Aside, lineVars, sessionVars
<1>2. /\ call.at = "publishing" /\ call.why = "none" /\ ~failed
      /\ call.next < Len(call.parts) \/ (call.next = Len(call.parts) /\ ~(call.next < Len(call.parts)))
      /\ TypeOK /\ outcome[i] = "none" /\ ownOutcomes = {}
  BY Zenon, <1>1, TurnPlace
<1>3. unpublished' \in [Docs -> Nat] /\ \A k \in Docs : unpublished'[k] \in {0, unpublished[k]}
  BY Zenon, <1>1, <1>2, UnregisterType
<1>4. \/ call.next < Len(call.parts) /\ call' = [call EXCEPT !.next = call.next + 1]
      \/ call.next = Len(call.parts) /\ call' = [call EXCEPT !.at = "failing", !.next = call.next + 1]
  BY Zenon, <1>2 DEF PublishPart, Advance
<1>5. queue' = queue
  BY Zenon, <1>2 DEF PublishPart, Advance
<1>6. /\ call' \in Calls /\ call'.parts = call.parts /\ call'.received = call.received /\ call'.result = call.result
      /\ call'.next = call.next + 1 /\ call'.why = "none"
      /\ \/ call'.at = "publishing" /\ call.next < Len(call.parts)
         \/ call'.at = "failing" /\ call.next = Len(call.parts)
  <2>1. CASE call.next < Len(call.parts) /\ call' = [call EXCEPT !.next = call.next + 1]
    BY Zenon, <1>2, <2>1, CallGoesOn
  <2>2. CASE call.next = Len(call.parts) /\ call' = [call EXCEPT !.at = "failing", !.next = call.next + 1]
    BY Zenon, <1>2, <2>2, CallFails
  <2>. QED  BY Zenon, <1>4, <2>1, <2>2
<1>7. Published(i)
  BY Zenon, <1>1, <1>2, <1>3, <1>5, <1>6 DEF Published, TypeOK
<1>8. GoesOn(i)
  BY Zenon, <1>1, <1>2, <1>5, <1>6, <1>7 DEF GoesOn
<1>. QED  BY Zenon, <1>8, GoesOnInv

\* A part that is published with success
LEMMA PublishOk ==
    ASSUME IInv, PublishPart, call.result # "rejected"
    PROVE  IInv'
<1>0. PICK i : i = call.parts[call.next]
  OBVIOUS
<1>1. /\ Turn(i) /\ Publish(i) /\ unpublished' = Unregister({i}) /\ outcome' = Settle({i}, "ok") /\ open' = open \cup {i}
      /\ Aside /\ UNCHANGED <<disk, log, failAt, ownOutcomes, closing>>
  BY Zenon, <1>0 DEF PublishPart, Turn, Aside, lineVars, sessionVars
<1>2. /\ call.at = "publishing" /\ call.why = "none" /\ ~failed
      /\ call.next < Len(call.parts) \/ (call.next = Len(call.parts) /\ ~(call.next < Len(call.parts)))
      /\ TypeOK /\ i \in Jobs
  BY Zenon, <1>1, TurnPlace
<1>3. {i} \cup {} = {i} /\ ~failed'
  BY Zenon, <1>1, <1>2 DEF failed, NoFailure
<1>4. ASSUME call' \in Calls, queue' \in {<<>>, queue}
      PROVE  Published(i) /\ outcome'[i] = "ok" /\ \A j \in Jobs : j # i => outcome'[j] = outcome[j]
  <2>1. Publication(i, {}, "ok")
    BY Zenon, <1>1, <1>3, <1>4 DEF Publication
  <2>2. Published(i) /\ \A j \in Jobs : outcome'[j] = IF j \in {i} \cup {} THEN "ok" ELSE outcome[j]
    BY Zenon, <2>1, PublicationIs
  <2>. QED  BY Zenon, <1>2, <2>2
<1>5. "ok" # "none"
  OBVIOUS
<1>6. CASE call.next < Len(call.parts)
  <2>1. call' = [call EXCEPT !.next = call.next + 1] /\ queue' = queue
    BY Zenon, <1>6 DEF PublishPart, Advance
  <2>2. /\ call' \in Calls /\ call'.parts = call.parts /\ call'.received = call.received /\ call'.result = call.result
        /\ call'.at = call.at /\ call'.next = call.next + 1 /\ call'.why = call.why
    BY Zenon, <1>2, <2>1, CallGoesOn
  <2>3. GoesOn(i)
    BY Zenon, <1>1, <1>2, <1>4, <1>5, <1>6, <2>1, <2>2 DEF GoesOn
  <2>. QED  BY Zenon, <2>3, GoesOnInv
<1>7. CASE call.next = Len(call.parts)
  <2>1. call' = (IF queue = <<>> THEN NoCall ELSE Sent(queue)) /\ queue' = <<>>
    <3>1. call.parts \in Seq(Jobs) /\ call.next \in Nat
      BY Zenon, <1>2, CallType
    <3>2. ~(call.next < Len(call.parts))
      BY <1>7, <3>1
    <3>. QED  BY Zenon, <3>2 DEF PublishPart, Advance
  <2>2. CASE queue = <<>>
    <3>1. call' = NoCall /\ call' \in Calls
      BY Zenon, <2>1, <2>2, NoCallType
    <3>2. Range(queue) = {}
      BY Zenon, <2>2, NothingListed
    <3>3. GoesIdle(i)
      BY Zenon, <1>1, <1>3, <1>4, <1>5, <1>7, <2>1, <2>2, <3>1, <3>2 DEF GoesIdle
    <3>. QED  BY Zenon, <3>3, GoesIdleInv
  <2>3. CASE queue # <<>>
    <3>1. call' = Sent(queue) /\ call' \in Calls
      BY Zenon, <1>2, <2>1, <2>3, SentType DEF TypeOK
    <3>2. GoesNext(i)
      BY Zenon, <1>1, <1>3, <1>4, <1>7, <2>1, <2>3, <3>1 DEF GoesNext
    <3>. QED  BY Zenon, <3>2, GoesNextInv
  <2>. QED  BY Zenon, <2>2, <2>3
<1>. QED  BY Zenon, <1>2, <1>6, <1>7

\* An observer throws at a part that is published.
LEMMA ObserverInv ==
    ASSUME IInv, ObserverThrows
    PROVE  IInv'
<1>0. PICK i : i = call.parts[call.next]
  OBVIOUS
<1>1. /\ Turn(i) /\ Publish(i) /\ unpublished' = Unregister({i}) /\ outcome' = Settle({i}, "ok") /\ open' = open \cup {i}
      /\ Aside /\ UNCHANGED <<disk, log, failAt, ownOutcomes, closing, queue>> /\ call.result # "rejected"
      /\ call' = [call EXCEPT !.at = "failing", !.why = "observer"]
  BY Zenon, <1>0 DEF ObserverThrows, Stop, Turn, Aside, lineVars, sessionVars
<1>2. TypeOK /\ i \in Jobs
  BY Zenon, <1>1, TurnPlace
<1>3. /\ call' \in Calls /\ call'.parts = call.parts /\ call'.received = call.received /\ call'.result = call.result
      /\ call'.at = "failing" /\ call'.next = call.next /\ call'.why = "observer"
  BY Zenon, <1>1, <1>2, CallObserved
<1>4. {i} \cup {} = {i} /\ "ok" # "none" /\ ~Healthy'
  BY Zenon, <1>3 DEF Healthy
<1>5. Publication(i, {}, "ok")
  BY Zenon, <1>1, <1>3, <1>4 DEF Publication
<1>6. Published(i) /\ \A j \in Jobs : outcome'[j] = IF j \in {i} \cup {} THEN "ok" ELSE outcome[j]
  BY Zenon, <1>5, PublicationIs
<1>7. outcome'[i] = "ok" /\ \A j \in Jobs : j # i => outcome'[j] = outcome[j]
  BY Zenon, <1>2, <1>6
<1>8. GoesOn(i)
  BY Zenon, <1>1, <1>3, <1>4, <1>6, <1>7 DEF GoesOn
<1>. QED  BY Zenon, <1>8, GoesOnInv

\* The turn of the next part, whatever comes of it
LEMMA ScopeInv ==
    ASSUME IInv, FailsInScope
    PROVE  IInv'
<1>0. PICK i : i = call.parts[call.next]
  OBVIOUS
<1>1. PICK S : S = IF call.next = Len(call.parts) THEN Range(queue) ELSE {}
  OBVIOUS
<1>2. PICK at : at = IF line.job # 0 THEN line.job ELSE lastDelivered
  OBVIOUS
<1>3. /\ Turn(i) /\ Publish(i) /\ fail(at, {}) /\ Aside /\ UNCHANGED <<disk, log>> /\ call.result # "rejected"
      /\ unpublished' = Unregister({i} \cup S) /\ outcome' = Settle({i} \cup S, "failed") /\ open' = open \cup ({i} \cup S)
      /\ call' = (IF call.next = Len(call.parts) THEN NoCall ELSE [call EXCEPT !.next = call.next + 1])
      /\ queue' = (IF call.next = Len(call.parts) THEN <<>> ELSE queue)
  BY Zenon, <1>0, <1>1, <1>2 DEF FailsInScope, Discard, Turn, Aside, lineVars
<1>4. /\ call.at = "publishing" /\ call.why = "none" /\ ~failed /\ TypeOK /\ i \in Jobs
      /\ call.next < Len(call.parts) \/ (call.next = Len(call.parts) /\ ~(call.next < Len(call.parts)))
  BY Zenon, <1>3, TurnPlace
<1>5. at \in 0..(MaxJobs + 1)
  BY Zenon, <1>2, <1>4, LineType DEF TypeOK
<1>6. failed' /\ failAt' \in 0..(MaxJobs + 2) /\ ownOutcomes' = {} /\ (closing' = closing \/ (closing = "open" /\ closing' = "sealed"))
  BY Zenon, <1>3, <1>4, <1>5, FailType
<1>7. S \subseteq Range(queue) /\ ~Healthy' /\ "failed" # "none" /\ "failed" # "ok"
  BY Zenon, <1>1, <1>6 DEF Healthy
<1>8. call' \in Calls /\ queue' \in {<<>>, queue}
  <2>1. CASE call.next = Len(call.parts)
    BY Zenon, <1>3, <2>1, NoCallType
  <2>2. CASE call.next # Len(call.parts)
    BY Zenon, <1>3, <1>4, <2>2, CallGoesOn
  <2>. QED  BY Zenon, <2>1, <2>2
<1>9. Publication(i, S, "failed")
  BY Zenon, <1>3, <1>6, <1>7, <1>8 DEF Publication
<1>10. /\ Published(i) /\ \A j \in Jobs : outcome'[j] = IF j \in {i} \cup S THEN "failed" ELSE outcome[j]
       /\ \A j \in Range(queue) : j \in Jobs
  BY Zenon, <1>9, PublicationIs
<1>11. CASE call.next = Len(call.parts)
  <2>1. S = Range(queue) /\ call' = NoCall /\ queue' = <<>>
    BY Zenon, <1>1, <1>3, <1>11
  <2>2. GoesIdle(i)
    BY Zenon, <1>3, <1>4, <1>6, <1>7, <1>10, <1>11, <2>1 DEF GoesIdle
  <2>. QED  BY Zenon, <2>2, GoesIdleInv
<1>12. CASE call.next < Len(call.parts) /\ call.next # Len(call.parts)
  <2>1. S = {} /\ call' = [call EXCEPT !.next = call.next + 1] /\ queue' = queue /\ {i} \cup {} = {i}
    BY Zenon, <1>1, <1>3, <1>12
  <2>2. /\ call'.parts = call.parts /\ call'.received = call.received /\ call'.result = call.result
        /\ call'.at = call.at /\ call'.next = call.next + 1 /\ call'.why = call.why
    BY Zenon, <1>4, <2>1, CallGoesOn
  <2>3. outcome'[i] = "failed" /\ \A j \in Jobs : j # i => outcome'[j] = outcome[j]
    BY Zenon, <1>4, <1>10, <2>1
  <2>4. GoesOn(i)
    BY Zenon, <1>3, <1>4, <1>6, <1>7, <1>10, <1>12, <2>1, <2>2, <2>3 DEF GoesOn
  <2>. QED  BY Zenon, <2>4, GoesOnInv
<1>. QED  BY Zenon, <1>4, <1>11, <1>12

\* The inductive invariant: whatever the line, the writer, Storage and the callers do, in any order, and for any number of
\* jobs and documents, the commits on their way, what memory and Storage have, and what callers were told fit together.
THEOREM IInvAlways == Spec => []IInv
(* Types *)
<1>Steps. ASSUME [Next]_vars
          PROVE  \/ UNCHANGED vars
                 \/ \E kind \in Kinds \ Upkeep : enqueue(kind)
                 \/ HoldTimer \/ close \/ EnqueueClose \/ StartJob
                 \/ (\E k \in Docs : touch(k)) \/ PassGate \/ EndCallback \/ Throw
                 \/ CommitNothing \/ CommitHeld \/ CommitStored \/ storeHolds \/ HoldsStored \/ Closed
                 \/ StoreBatch \/ CallSettles \/ PublishPart \/ PartMissing \/ PartTooLate \/ FailCall
                 \/ ReadRejects \/ CallRejects \/ AdoptionThrows \/ ObserverThrows \/ FailsInScope
                 \/ \E i \in Jobs : Deliver(i)
  BY Zenon, <1>Steps DEF Next, Line, Callback, WriterStep, Faults
\* An empty Session has all of this.
<1>InitInv. Init => IInv
  <2>. SUFFICES ASSUME Init PROVE IInv
    OBVIOUS
  <2>1. /\ jobs = <<>> /\ started = 0 /\ line = Free /\ stale = {} /\ part = [i \in Jobs |-> NoPart] /\ queue = <<>> /\ call = NoCall
        /\ unpublished = [k \in Docs |-> 0] /\ open = {} /\ mem = [k \in Docs |-> <<>>] /\ disk = [k \in Docs |-> <<>>]
        /\ log = <<>> /\ holds = {} /\ pending = [k \in Docs |-> <<>>] /\ outcome = [i \in Jobs |-> "none"]
        /\ told = [i \in Jobs |-> "none"] /\ early = {} /\ lastDelivered = 0 /\ failAt = NoFailure /\ ownOutcomes = {}
        /\ closing = "open" /\ fired = FALSE
    BY Zenon DEF Init
  <2>2. /\ NoPart \in Parts /\ NoPart.stored = FALSE /\ DOMAIN NoPart.delta = {} /\ NoPart.taken = {} /\ NoPart.basis = {}
        /\ \A i \in Jobs : part[i] = NoPart
    BY Zenon, <2>1, NoPartType
  <2>3. /\ call.parts = <<>> /\ call.at = "none" /\ call.next = 1 /\ call.why = "none" /\ call \in Calls
    BY Zenon, <2>1, NoCallType
  <2>4. Range(<<>>) = {} /\ InOrder(<<>>) /\ DOMAIN <<>> = {}
    BY NothingListed
  <2>5. Range(queue) = {} /\ Range(call.parts) = {} /\ Flight = {} /\ Waiting = {} /\ Batches = {} /\ Range(log) = {}
    BY Zenon, <2>1, <2>3, <2>4 DEF Flight, Waiting, Batches
  <2>6. ~failed /\ \A i \in Jobs : ~HasPart(i)
    BY Zenon, <2>1, <2>2 DEF failed, HasPart
  <2>7. \A k, n : n \in Nat /\ n <= AllJobs => Writers(k, n) = {}
    <3>1. ASSUME NEW k, NEW n, n \in Nat, n <= AllJobs, NEW j \in 1..(n - 1) PROVE k \notin Own(j, part[j])
      <4>1. j \in Jobs
        BY <3>1, JobNumbers
      <4>. QED  BY Zenon, <2>2, <4>1 DEF Own
    <3>. QED  BY Zenon, <3>1 DEF Writers
  <2>8. \A k : Writers(k, AllJobs) = {}
    BY <2>7, JobNumbers
  <2>9. TypeOK
    <3>1. jobs \in Seq(Kinds) /\ started \in 0..Len(jobs) /\ queue \in Seq(Jobs) /\ log \in Seq(Jobs)
      BY <2>1
    <3>2. line \in Lines /\ call \in Calls
      BY Zenon, <2>1, <2>3, FreeType
    <3>3. /\ mem \in [Docs -> Seq(Jobs)] /\ pending \in [Docs -> Seq(Jobs)] /\ disk \in [Docs -> Seq(Jobs)]
          /\ unpublished \in [Docs -> Nat]
      BY <2>1
    <3>4. outcome \in [Jobs -> Outcomes] /\ told \in [Jobs -> Outcomes]
      BY <2>1 DEF Outcomes
    <3>5. part \in [Jobs -> Parts]
      BY Zenon, <2>1, <2>2
    <3>6. lastDelivered \in 0..(MaxJobs + 1) /\ failAt \in 0..(MaxJobs + 2)
      BY <2>1, JobNumbers
    <3>7. /\ stale \in SUBSET Jobs /\ open \in SUBSET Jobs /\ holds \in SUBSET Docs /\ early \in SUBSET Jobs
          /\ ownOutcomes \in SUBSET Jobs /\ closing \in {"open", "sealed", "closed"} /\ fired \in BOOLEAN
      BY Zenon, <2>1
    <3>. QED  BY Zenon, <3>1, <3>2, <3>3, <3>4, <3>5, <3>6, <3>7 DEF TypeOK
  <2>10. LineOK
    <3>1. line.at = "free" /\ line.job = 0 /\ DOMAIN line.read = {}
      BY Zenon, <2>1, FreeType
    <3>2. JobsOK
      BY <2>1, JobNumbers DEF JobsOK
    <3>3. \A i \in Jobs : outcome[i] = "none"
      BY Zenon, <2>1
    <3>4. closing # "closed"
      BY <2>1
    <3>. QED  BY <2>6, <3>1, <3>2, <3>3, <3>4 DEF LineOK
  <2>11. CallOK
    BY Zenon, <2>1, <2>3 DEF CallOK
  <2>12. FlightOK
    <3>1. \A i \in Jobs : part[i].taken \subseteq DOMAIN part[i].delta
      BY Zenon, <2>2
    <3>2. DOMAIN call.parts = {} /\ InOrder(call.parts) /\ InOrder(queue)
      BY Zenon, <2>1, <2>3, <2>4
    <3>. QED  BY Zenon, <2>1, <2>5, <2>6, <3>1, <3>2 DEF FlightOK
  <2>13. LogOK
    <3>1. Stored = {}
      BY Zenon, <2>2 DEF Stored
    <3>2. Begins(log, Stored)
      BY Zenon, <2>1, <2>4, <3>1 DEF Begins
    <3>. QED  BY Zenon, <2>3, <2>5, <3>1, <3>2 DEF LogOK
  <2>14. KeysOK
    <3>1. ASSUME NEW k \in Docs PROVE KeyOK(k)
      <4>1. unpublished[k] = 0 /\ mem[k] = <<>> /\ disk[k] = <<>> /\ pending[k] = <<>> /\ <<>> \o <<>> = <<>>
        BY <2>1
      <4>2. Lists(<<>>, {} \ {0})
        BY Zenon, <2>4 DEF Lists
      <4>3. Lands(k)
        BY Zenon, <2>8, <4>1, <4>2 DEF Lands
      <4>. QED  BY Zenon, <2>5, <2>8, <4>1, <4>2, <4>3 DEF KeyOK
    <3>. QED  BY Zenon, <3>1 DEF KeysOK
  <2>15. DiskOK
    <3>1. \A k \in Docs : Begins(disk[k], {})
      <4>1. \A k \in Docs : disk[k] = <<>>
        BY Zenon, <2>1
      <4>. QED  BY Zenon, <2>4, <4>1 DEF Begins
    <3>2. Bound = {} /\ call.at # "storing"
      BY Zenon, <2>3, <2>5 DEF Bound
    <3>. QED  BY Zenon, <2>5, <2>8, <3>1, <3>2 DEF DiskOK
  <2>16. ReadsOK
    <3>1. line.at = "free" /\ DOMAIN line.read = {}
      BY Zenon, <2>1, FreeType
    <3>2. line.at # "gate" /\ line.at # "settling"
      BY <3>1
    <3>3. Right
      BY Zenon, <3>1 DEF Right
    <3>. QED  BY Zenon, <2>1, <3>1, <3>2, <3>3 DEF ReadsOK
  <2>17. TellsOK
    <3>1. \A i \in Jobs : told[i] = "none" /\ outcome[i] = "none"
      BY Zenon, <2>1
    <3>. QED  BY Zenon, <2>1, <2>6, <3>1 DEF TellsOK
  <2>18. CloseOK
    <3>1. line.at = "free" /\ closing = "open"
      BY Zenon, <2>1, FreeType
    <3>. QED  BY <3>1 DEF CloseOK
  <2>. QED  BY Zenon, <2>9, <2>10, <2>11, <2>12, <2>13, <2>14, <2>15, <2>16, <2>17, <2>18 DEF IInv
\* A step that changes nothing keeps it.
<1>StutterInv. ASSUME IInv, UNCHANGED vars
               PROVE  IInv'
  <2>. USE <1>StutterInv
  <2>1. /\ UNCHANGED <<jobs, started, line, stale, part, queue, call, unpublished, open, mem, holds, pending, disk, log>>
        /\ UNCHANGED <<outcome, told, early, lastDelivered, failAt, ownOutcomes, closing, fired>>
    BY Zenon DEF vars, lineVars, writerVars, stateVars, outcomeVars, sessionVars
  <2>2. Still /\ Beside
    BY Zenon, <2>1 DEF Still, Beside, failed, NoFailure
  <2>3. CallOK' /\ FlightOK' /\ LogOK' /\ KeysOK' /\ DiskOK'
    BY Zenon, <2>2, BesideKeeps DEF IInv
  <2>4. /\ \A i : HasPart(i)' <=> HasPart(i)
        /\ \A i : Own(i, part[i])' = Own(i, part[i])
    BY Zenon, <2>2, StillSame
  <2>5. (Right' <=> Right) /\ (\A i : Poisoned(i)' <=> Poisoned(i)) /\ (Healthy' <=> Healthy) /\ (failed' <=> failed)
    <3>1. Aside
      BY Zenon, <2>1 DEF Aside
    <3>2. Right' <=> Right
      BY Zenon, <3>1, AsideSame
    <3>. QED  BY Zenon, <2>1, <3>2 DEF Poisoned, Healthy, failed, NoFailure
  <2>6. TypeOK'
    BY Zenon, <2>1 DEF IInv, TypeOK
  <2>7. LineOK'
    BY Zenon, <2>1, <2>4 DEF IInv, LineOK, JobsOK
  <2>8. ReadsOK'
    <3>1. Poisoned(line.job)' <=> Poisoned(line.job)
      BY Zenon, <2>1 DEF Poisoned, failed, NoFailure
    <3>. QED  BY Zenon, <2>1, <2>5, <3>1 DEF IInv, ReadsOK
  <2>9. TellsOK'
    BY Zenon, <2>1, <2>4, <2>5 DEF IInv, TellsOK
  <2>10. CloseOK'
    BY Zenon, <2>1, <2>4, <2>5 DEF IInv, CloseOK
  <2>. QED  BY Zenon, <2>3, <2>6, <2>7, <2>8, <2>9, <2>10 DEF IInv
<1>1. ASSUME IInv, [Next]_vars PROVE IInv'
  <2>1. ASSUME BesideStep PROVE IInv'
    BY Zenon, <1>1, <2>1, BesideInv
  <2>2. ASSUME PublishPart PROVE IInv'
    BY Zenon, <1>1, <2>2, PublishRejected, PublishOk
  <2>3. CASE UNCHANGED vars
    BY Zenon, <1>1, <2>3, <1>StutterInv
  <2>4. CASE CommitHeld \/ CommitStored \/ storeHolds
    BY Zenon, <1>1, <2>4, AdmitInv
  <2>5. CASE PartMissing \/ PartTooLate \/ AdoptionThrows
    BY Zenon, <1>1, <2>5, StopInv
  <2>6. CASE StoreBatch \/ CallSettles \/ FailCall
    BY Zenon, <1>1, <2>6, StoreBatchInv, CallSettlesInv, FailCallInv
  <2>7. CASE ObserverThrows \/ FailsInScope
    BY Zenon, <1>1, <2>7, ObserverInv, ScopeInv
  <2>8. \/ BesideStep \/ UNCHANGED vars \/ CommitHeld \/ CommitStored \/ storeHolds
        \/ PartMissing \/ PartTooLate \/ AdoptionThrows \/ StoreBatch \/ CallSettles \/ FailCall
        \/ ObserverThrows \/ FailsInScope \/ PublishPart
    BY Zenon, <1>1, <1>Steps DEF BesideStep
  <2>. QED  BY Zenon, <2>1, <2>2, <2>3, <2>4, <2>5, <2>6, <2>7, <2>8
<1>. QED  BY <1>1, <1>InitInv, PTL DEF Spec

\* Though storing overlaps the line, a job that is stored, or whose caller is told of success, has read exactly what the jobs
\* before it in the line left (touch waits at the gate of a key with an unpublished writer).
THEOREM SerialReadsAlways == Spec => []SerialReads
<1>1. IInv => SerialReads
  BY Zenon DEF IInv, ReadsOK, SerialReads, Durable
<1>. QED  BY <1>1, IInvAlways, PTL

\* A caller is told of success only when memory has its commit and, unless it was deferred, Storage has it, and when the
\* callers before it were told of success too (#publish goes in line order and stops at the first part without a receipt).
THEOREM OkMatchesStorageAlways == Spec => []OkMatchesStorage
<1>1. ASSUME IInv, NEW i \in Jobs, told[i] = "ok", HasPart(i)
      PROVE  /\ \A k \in Own(i, part[i]) : i \in Range(mem[k])
             /\ part[i].stored => Durable(i)
             /\ \A j \in 1..(i - 1) : (HasPart(j) /\ jobs[j] \notin Upkeep) => told[j] = "ok"
  <2>1. "ok" # "none" /\ "ok" # "failed"
    OBVIOUS
  <2>2. outcome[i] = "ok"
    BY Zenon, <1>1, <2>1 DEF IInv, TellsOK
  <2>. QED  BY Zenon, <1>1, <2>2 DEF IInv, TellsOK, Durable
<1>2. IInv => OkMatchesStorage
  BY Zenon, <1>1 DEF OkMatchesStorage
<1>. QED  BY <1>2, IInvAlways, PTL

\* Whenever the process dies, Storage is left with the first of the commits to be stored, each whole, and no document misses
\* or repeats an operation.
THEOREM CrashLeavesPrefixAlways == Spec => []CrashLeavesPrefix
<1>1. IInv => CrashLeavesPrefix
  BY Zenon DEF IInv, LogOK, DiskOK, CrashLeavesPrefix
<1>. QED  BY <1>1, IInvAlways, PTL

\* A stored commit is never ahead of what it has read: what was held of those documents is stored with it or before it.
THEOREM DurableReadsAlways == Spec => []DurableReads
<1>1. IInv => DurableReads
  BY Zenon DEF IInv, DiskOK, DurableReads, Durable
<1>. QED  BY <1>1, IInvAlways, PTL

\* A Session that closes without failing has stored everything, what it held included.
THEOREM CleanCloseStoresAllAlways == Spec => []CleanCloseStoresAll
<1>1. ASSUME IInv, closing = "closed", ~failed
      PROVE  Lists(log, Stored) /\ \A k \in Docs : Lists(disk[k], Writers(k, AllJobs))
  <2>1. call.at = "none" /\ holds = {}
    BY Zenon, <1>1 DEF IInv, LineOK, CloseOK
  <2>2. Flight = {} /\ Waiting = {}
    BY Zenon, <1>1, <2>1, NothingInFlight DEF IInv
  <2>3. Healthy
    BY Zenon, <1>1, <2>1 DEF Healthy
  <2>4. Lists(log, Stored)
    <3>1. Begins(log, Stored) /\ \A i \in Stored : i \in Range(log)
      BY Zenon, <1>1, <2>2 DEF IInv, LogOK
    <3>. QED  BY Zenon, <3>1 DEF Begins, Lists
  <2>5. ASSUME NEW k \in Docs PROVE Lists(disk[k], Writers(k, AllJobs))
    <3>1. KeyOK(k)
      BY Zenon, <1>1, <2>3 DEF IInv, KeysOK
    <3>2. unpublished[k] = 0 /\ pending[k] = <<>> /\ Lands(k)
      BY Zenon, <2>1, <2>2, <3>1 DEF KeyOK
    <3>3. Lists(disk[k] \o <<>>, Writers(k, AllJobs) \ {0})
      BY Zenon, <3>2 DEF Lands
    <3>4. disk[k] \in Seq(Jobs)
      BY Zenon, <1>1 DEF IInv, TypeOK
    <3>5. disk[k] \o <<>> = disk[k]
      BY <3>4
    <3>6. Writers(k, AllJobs) \ {0} = Writers(k, AllJobs)
      BY JobNumbers DEF Writers
    <3>. QED  BY Zenon, <3>3, <3>5, <3>6
  <2>. QED  BY Zenon, <2>4, <2>5
<1>2. IInv => CleanCloseStoresAll
  BY Zenon, <1>1 DEF CleanCloseStoresAll
<1>. QED  BY <1>2, IInvAlways, PTL
=============================================================================
