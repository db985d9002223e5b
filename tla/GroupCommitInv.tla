--------------------------- MODULE GroupCommitInv ---------------------------
(***************************************************************************)
(* The invariant that GroupCommit keeps, stated for any number of jobs and *)
(* documents.                                                              *)
(*                                                                         *)
(* The properties of GroupCommit speak of jobs that are stored or told.    *)
(* None of them is inductive: whether a job reads what it should depends   *)
(* on the commits between their admission and their publication, and on    *)
(* what Storage has of them. IInv says where those commits are (FlightOK,  *)
(* in line order), what of them is in the log (LogOK), and for each        *)
(* document what memory and disk have and will have when the part on its   *)
(* way lands (KeysOK, DiskOK). The line's own part of it is what is on the *)
(* line (LineOK), what it has read (ReadsOK), what callers were told       *)
(* (TellsOK) and what close has waited for (CloseOK). Once something has   *)
(* failed only what a failed Session still promises is asked for.          *)
(***************************************************************************)
EXTENDS GroupCommit

\* Outcomes, deltas, parts, lines and calls
Outcomes == {"none", "ok", "err", "failed"}
Deltas   == UNION {[D -> Seq(Jobs)] : D \in SUBSET Docs}
Parts    == [stored : BOOLEAN, delta : Deltas, taken : SUBSET Docs, basis : SUBSET Docs]
Lines    == [job : 0..(MaxJobs + 1),
             at : {"free", "callback", "gate", "settling", "barrier", "stored", "closing"},
             key : Docs \cup {NoKey}, gate : Nat, hit : BOOLEAN, read : Deltas]
Calls    == [parts : Seq(Jobs), at : {"none", "storing", "publishing", "failing"},
             durable : Nat, received : Nat, result : {"ok", "refused", "rejected"}, next : Nat,
             why : {"none", "unreceived", "external", "adoption", "observer"}]

\* What the variables are
TypeOK ==
    /\ jobs \in Seq(Kinds) /\ started \in 0..Len(jobs) /\ line \in Lines /\ stale \in SUBSET Jobs
    /\ part \in [Jobs -> Parts] /\ queue \in Seq(Jobs) /\ call \in Calls
    /\ unpublished \in [Docs -> Nat] /\ open \in SUBSET Jobs
    /\ mem \in [Docs -> Seq(Jobs)] /\ pending \in [Docs -> Seq(Jobs)] /\ disk \in [Docs -> Seq(Jobs)]
    /\ holds \in SUBSET Docs /\ log \in Seq(Jobs)
    /\ outcome \in [Jobs -> Outcomes] /\ told \in [Jobs -> Outcomes]
    /\ early \in SUBSET Jobs /\ lastDelivered \in 0..(MaxJobs + 1)
    /\ failAt \in 0..(MaxJobs + 2) /\ ownOutcomes \in SUBSET Jobs
    /\ closing \in {"open", "sealed", "closed"} /\ fired \in BOOLEAN

\* The job that closes is the last one.
JobsOK ==
    /\ Len(jobs) <= MaxJobs \/ (Len(jobs) = MaxJobs + 1 /\ jobs[Len(jobs)] = "close")
    /\ \A i \in DOMAIN jobs : jobs[i] = "close" => i = Len(jobs) /\ closing # "open"

\* The line: what is on it, and that what it admits comes after what is admitted
LineOK ==
    /\ JobsOK
    /\ line.at = "free" <=> line.job = 0
    /\ line.at = "free" => DOMAIN line.read = {}
    /\ line.at # "free" => line.job = started
    /\ line.at \in {"callback", "gate", "settling"} => jobs[started] \notin Upkeep
    /\ line.at \in {"barrier", "stored", "closing"} => jobs[started] \in Upkeep /\ DOMAIN line.read = {}
    /\ line.at = "closing" => jobs[started] = "close"
    /\ line.at = "gate" => line.key \in Docs /\ line.key \notin DOMAIN line.read
    /\ line.at = "stored" => HasPart(started)
    /\ \A i \in Jobs : HasPart(i) \/ outcome[i] # "none" =>
          i <= started /\ (i = line.job => line.at \in {"stored", "closing"})
    /\ closing = "closed" => line.at = "free" /\ started = Len(jobs) /\ call.at = "none"
                             /\ started # 0 /\ jobs[started] = "close"

\* The parts on their way: those of the call and those queued behind it
Flight == Range(call.parts) \cup Range(queue)

\* The parts that are neither published nor given up
Waiting ==
    Range(queue) \cup {call.parts[n] : n \in {m \in DOMAIN call.parts :
                          m >= call.next /\ ~(m = call.next /\ call.why = "observer")}}

\* The call: where it is
CallOK ==
    /\ call.at = "none" => call = NoCall /\ queue = <<>>
    /\ call.at # "none" => call.parts # <<>> /\ call.next >= 1
    /\ call.at \in {"storing", "publishing"} => call.why = "none" /\ call.next <= Len(call.parts)
    /\ call.at = "storing" => call.next = 1 /\ call.received = 0 /\ call.result = "ok"
    /\ call.at = "failing" => \/ call.why # "none" /\ call.next <= Len(call.parts)
                              \/ call.why = "none" /\ call.result = "rejected" /\ call.next = Len(call.parts) + 1
    /\ call.why = "observer" => call.result # "rejected"

\* The parts on their way, in line order behind all others
FlightOK ==
    /\ InOrder(call.parts) /\ InOrder(queue)
    /\ \A i \in Range(call.parts) : \A j \in Range(queue) : i < j
    /\ \A i \in Flight : HasPart(i)
    /\ \A i \in open : HasPart(i)
    /\ \A i \in Jobs : part[i].taken \subseteq DOMAIN part[i].delta
    /\ \A i \in Jobs : HasPart(i) /\ i \notin Flight =>
          i \in open /\ outcome[i] # "none" /\ \A j \in Flight : i < j
    /\ \A i \in Waiting : i \notin open /\ outcome[i] = "none"
    /\ \A n \in DOMAIN call.parts : n < call.next \/ (n = call.next /\ call.why = "observer") =>
          IF call.result = "rejected" THEN call.parts[n] \notin open /\ outcome[call.parts[n]] = "none"
          ELSE call.parts[n] \in open /\ outcome[call.parts[n]] # "none"
    /\ ~failed => \A i \in Jobs : HasPart(i) => outcome[i] \in {"none", "ok"}

\* The log, and what of it the call knows
LogOK ==
    /\ Begins(log, Stored)
    /\ \A i \in Range(queue) : i \notin Range(log)
    /\ call.at = "storing" => \A n \in Batches : n <= call.durable <=> call.parts[n] \in Range(log)
    /\ \A n \in Batches : n <= call.received => call.parts[n] \in Range(log)
    /\ call.at = "publishing" /\ call.result = "ok" => \A n \in Batches : call.parts[n] \in Range(log)
    /\ call.at = "publishing" /\ call.result = "refused" =>
          \E n \in Batches : n >= call.next /\ n > call.received
    /\ ~failed \/ call.at = "storing" => \A i \in Stored : i \in Range(log) \/ i \in Flight

\* Nothing has failed, neither the Session nor the call.
Healthy == ~failed /\ call.at # "failing"

\* What comes to the disk of key k once the part on its way is stored
Lands(k) ==
    LET u == unpublished[k] IN
    IF u # 0 /\ part[u].stored
    THEN pending[k] = <<>> /\ Lists(IF u \in Range(log) THEN disk[k] ELSE disk[k] \o part[u].delta[k], Writers(k, AllJobs))
    ELSE Lists(disk[k] \o pending[k], Writers(k, AllJobs) \ {u})

\* A key has one unpublished writer at most; memory lacks only what that one writes.
KeyOK(k) ==
    /\ unpublished[k] # 0 => /\ unpublished[k] \in Waiting /\ k \in DOMAIN part[unpublished[k]].delta
                             /\ \A j \in Writers(k, AllJobs) : j <= unpublished[k]
    /\ \A i \in Waiting : k \in DOMAIN part[i].delta => unpublished[k] = i
    /\ Lists(mem[k], Writers(k, AllJobs) \ {unpublished[k]})
    /\ Lands(k)
    /\ k \notin holds => pending[k] = <<>>

\* As long as nothing has failed this holds of every document.
KeysOK == Healthy => \A k \in Docs : KeyOK(k)

\* The parts that Storage may still get
Bound == IF Healthy THEN Flight ELSE IF call.at = "storing" THEN Range(call.parts) ELSE {}

\* The disk: it lists the first writers of each document, and the batches that are left will fit behind what it has.
DiskOK ==
    /\ \A k \in Docs : Begins(disk[k], Writers(k, AllJobs))
    /\ \A i \in Range(log) : \A k \in Own(i, part[i]) : i \in Range(disk[k])
    /\ \A i \in Range(log) : \A k \in part[i].basis : Writers(k, i) \subseteq Range(disk[k])
    /\ \A i \in Bound : part[i].stored => \A k \in part[i].basis :
          k \notin DOMAIN part[i].delta => Writers(k, i) \subseteq Range(disk[k])
    /\ call.at = "storing" => \A n \in Left : \A k \in DOMAIN part[call.parts[n]].delta :
          /\ Lists(disk[k] \o part[call.parts[n]].delta[k], Writers(k, call.parts[n] + 1))
          /\ \A m \in Left : k \in DOMAIN part[call.parts[m]].delta => m = n

\* The callback on the line has read what the jobs before it left.
Right == \A k \in DOMAIN line.read : Lists(line.read[k], Writers(k, line.job))

\* Job i has failed for its caller.
Poisoned(i) == failed /\ failAt < i /\ i \notin ownOutcomes

\* What is read on the line is right unless something has failed, and a job that has read otherwise is neither stored nor told.
ReadsOK ==
    /\ Healthy => Right
    /\ Healthy => \A k \in DOMAIN line.read : unpublished[k] = 0
    /\ Healthy /\ line.at = "gate" => unpublished[line.key] \in {0, line.gate}
    /\ line.at = "settling" /\ ~Right => (~failed /\ call.at = "failing") \/ Poisoned(line.job)
    /\ \A i \in stale : /\ ~Healthy /\ i <= started /\ i # line.job
                        /\ i \notin Range(log) /\ i \notin Range(call.parts)
                        /\ i \in Range(queue) => failed
                        /\ outcome[i] = "ok" => Poisoned(i)
                        /\ told[i] # "ok"

\* What has become of jobs and what their callers were told
TellsOK ==
    /\ \A i \in early : ~HasPart(i) /\ i <= started /\ i # line.job
    /\ \A i \in ownOutcomes : failed /\ outcome[i] = "err" /\ HasPart(i)
    /\ \A i \in Jobs : HasPart(i) /\ outcome[i] = "ok" =>
          /\ \A k \in Own(i, part[i]) : i \in Range(mem[k])
          /\ part[i].stored => i \in Range(log)
          /\ \A j \in 1..(i - 1) : HasPart(j) => outcome[j] = "ok"
    /\ \A i \in Jobs : told[i] # "none" => told[i] = outcome[i] \/ (told[i] = "failed" /\ outcome[i] # "none" /\ Poisoned(i))
    /\ \A i \in Jobs : told[i] = "ok" /\ HasPart(i) =>
          \A j \in 1..(i - 1) : HasPart(j) /\ jobs[j] \notin Upkeep => told[j] = "ok"

\* What close has waited for: the other parts are published and the holds are stored.
CloseOK ==
    /\ ~failed /\ line.at = "stored" =>
         /\ part[line.job].stored
         /\ \A j \in Jobs : HasPart(j) /\ j # line.job => j \in open
         /\ IF outcome[line.job] = "none" THEN holds \subseteq part[line.job].taken ELSE holds = {}
    /\ ~failed /\ line.at = "closing" => holds = {} /\ \A j \in Jobs : HasPart(j) => j \in open
    /\ ~failed /\ closing = "closed" => holds = {}

\* The inductive invariant of GroupCommit
IInv == /\ TypeOK /\ LineOK /\ CallOK /\ FlightOK /\ LogOK /\ KeysOK /\ DiskOK
        /\ ReadsOK /\ TellsOK /\ CloseOK
=============================================================================
