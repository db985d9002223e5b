-------------------------- MODULE GroupLineProofs ---------------------------
(***************************************************************************)
(* Lemmas towards the invariance of IInv: the steps of the line and of     *)
(* Storage.                                                                *)
(*                                                                         *)
(* A step beside the writer changes neither the parts nor the documents    *)
(* (Still), so it only has to keep the line's own part of the invariant    *)
(* (BesideInv). A step that admits a commit is an Admits(p) whose part     *)
(* fits what was read (AdmitInv): each conjunct follows from that,         *)
(* whichever of the three admissions it is. Then Storage: a batch becomes  *)
(* durable (StoreBatchInv), and the call returns (ResultsInv).             *)
(***************************************************************************)
EXTENDS GroupCommitInv, TLAPS

\* What a sequence has at a place is in its range, and conversely.
LEMMA InRange == ASSUME NEW s, NEW n \in DOMAIN s PROVE s[n] \in Range(s)
BY DEF Range

LEMMA RangeIs == ASSUME NEW s, NEW i \in Range(s) PROVE \E n \in DOMAIN s : s[n] = i
BY DEF Range

\* The range of a sequence, and what appending and joining make of it
LEMMA RangeType == ASSUME NEW T, NEW s \in Seq(T) PROVE Range(s) \subseteq T
BY DEF Range

LEMMA RangeAppend == ASSUME NEW T, NEW s \in Seq(T), NEW i \in T PROVE Range(Append(s, i)) = Range(s) \cup {i}
<1>1. Append(s, i) \in Seq(T) /\ DOMAIN Append(s, i) = (DOMAIN s) \cup {Len(s) + 1} /\ Append(s, i)[Len(s) + 1] = i
      /\ \A n \in DOMAIN s : Append(s, i)[n] = s[n]
  OBVIOUS
<1>. QED  BY <1>1 DEF Range

LEMMA RangeConcat == ASSUME NEW T, NEW s \in Seq(T), NEW t \in Seq(T) PROVE Range(s \o t) = Range(s) \cup Range(t)
<1>1. s \o t \in Seq(T) /\ Len(s \o t) = Len(s) + Len(t)
  OBVIOUS
<1>2. \A n \in DOMAIN s : n \in DOMAIN (s \o t) /\ (s \o t)[n] = s[n]
  BY <1>1
<1>3. \A n \in DOMAIN t : Len(s) + n \in DOMAIN (s \o t) /\ (s \o t)[Len(s) + n] = t[n]
  BY <1>1
<1>4. \A n \in DOMAIN (s \o t) : n \in DOMAIN s \/ (n - Len(s) \in DOMAIN t /\ (s \o t)[n] = t[n - Len(s)])
  BY <1>1
<1>5. Range(s) \cup Range(t) \subseteq Range(s \o t)
  BY Zenon, <1>2, <1>3 DEF Range
<1>6. Range(s \o t) \subseteq Range(s) \cup Range(t)
  <2>1. \A n \in DOMAIN (s \o t) : n \in DOMAIN s => (s \o t)[n] = s[n]
    BY <1>1
  <2>. QED  BY Zenon, <1>4, <2>1 DEF Range
<1>. QED  BY Zenon, <1>5, <1>6

\* Sequences of no job and of one are in order.
LEMMA NothingListed == Range(<<>>) = {} /\ InOrder(<<>>)
BY DEF Range, InOrder

LEMMA OneListed == ASSUME NEW i PROVE Range(<<i>>) = {i} /\ InOrder(<<i>>)
BY DEF Range, InOrder

\* A job behind all listed ones is listed last.
LEMMA ListsMore ==
    ASSUME NEW s \in Seq(Jobs), NEW S, Lists(s, S), NEW i \in Jobs, \A j \in S : j < i
    PROVE  Lists(Append(s, i), S \cup {i})
<1>1. Range(Append(s, i)) = S \cup {i}
  BY RangeAppend DEF Lists
<1>2. Append(s, i) \in Seq(Jobs) /\ DOMAIN Append(s, i) = (DOMAIN s) \cup {Len(s) + 1} /\ Append(s, i)[Len(s) + 1] = i
      /\ \A n \in DOMAIN s : Append(s, i)[n] = s[n] /\ s[n] < i
  BY InRange DEF Lists
<1>3. InOrder(Append(s, i))
  BY <1>2 DEF InOrder, Lists
<1>. QED  BY <1>1, <1>3 DEF Lists

\* Appending the next job of a set to its first ones gives its first ones again.
LEMMA BeginsMore ==
    ASSUME NEW s \in Seq(Jobs), NEW S \in SUBSET Jobs, Begins(s, S), NEW i \in S, \A j \in Range(s) : j < i,
           \A j \in S : j < i => j \in Range(s)
    PROVE  Begins(Append(s, i), S)
<1>1. Lists(s, Range(s)) /\ Range(s) \subseteq S
  BY DEF Lists, Begins
<1>2. Lists(Append(s, i), Range(s) \cup {i})
  BY <1>1, ListsMore
<1>. QED  BY <1>1, <1>2 DEF Begins, Lists

\* What lists an initial part of a set lists its first jobs.
LEMMA ListsBegins ==
    ASSUME NEW s, NEW S, NEW T, Lists(s, S), S \subseteq T, \A i \in S : \A j \in T : j < i => j \in S
    PROVE  Begins(s, T)
BY DEF Begins, Lists

\* ... and goes on doing so when later jobs join the set.
LEMMA BeginsStays ==
    ASSUME NEW s, NEW S, NEW T, Begins(s, S), S \subseteq T,
           \A i \in S : \A j \in T : j < i => j \in S
    PROVE  Begins(s, T)
BY DEF Begins

\* What a delta does to a document: it is appended.
LEMMA ConcatOne ==
    ASSUME NEW s \in Seq(Jobs), NEW t \in Seq(Jobs), NEW i \in Jobs
    PROVE  /\ s \o (t \o <<i>>) = Append(s \o t, i) /\ s \o <<>> = s /\ <<>> \o t = t
           /\ t \o <<i>> = Append(t, i) /\ s \o Append(t, i) = Append(s \o t, i)
           /\ s \o t \in Seq(Jobs)
<1>1. s \o <<>> = s /\ <<>> \o t = t /\ t \o <<i>> = Append(t, i) /\ s \o t \in Seq(Jobs)
  OBVIOUS
<1>2. s \o Append(t, i) = Append(s \o t, i)
  OBVIOUS
<1>. QED  BY <1>1, <1>2

-----------------------------------------------------------------------------
\* Jobs are numbered from 1; the number behind the last stands for no failure and for all jobs.
LEMMA JobNumbers ==
    /\ MaxJobs \in Nat /\ Jobs \subseteq Nat /\ \A i : i \in Jobs <=> i \in Nat /\ 1 <= i /\ i <= MaxJobs + 1
    /\ NoFailure = MaxJobs + 2 /\ AllJobs = MaxJobs + 2 /\ 0 \notin Jobs
BY JobsAssumption DEF Jobs, NoFailure, AllJobs

\* The values that stand for a free line, for no part and for no call are of their types.
LEMMA FreeType == Free \in Lines /\ Free.job = 0 /\ Free.at = "free" /\ DOMAIN Free.read = {}
<1>1. <<>> \in [{} -> Seq(Jobs)]
  OBVIOUS
<1>2. <<>> \in Deltas
  BY <1>1 DEF Deltas
<1>. QED  BY <1>2, JobNumbers DEF Free, Lines

LEMMA NoPartType == NoPart \in Parts /\ NoPart.stored = FALSE /\ DOMAIN NoPart.delta = {} /\ NoPart.taken = {} /\ NoPart.basis = {}
<1>1. <<>> \in [{} -> Seq(Jobs)]
  OBVIOUS
<1>2. <<>> \in Deltas
  BY <1>1 DEF Deltas
<1>. QED  BY <1>2 DEF NoPart, Parts

LEMMA NoCallType ==
    /\ NoCall \in Calls /\ NoCall.parts = <<>> /\ NoCall.at = "none" /\ NoCall.durable = 0 /\ NoCall.received = 0
    /\ NoCall.result = "ok" /\ NoCall.next = 1 /\ NoCall.why = "none"
BY DEF NoCall, Calls

\* Functions from some documents to sequences of jobs are deltas.
LEMMA DeltaIs ==
    ASSUME NEW D \in SUBSET Docs, NEW f, DOMAIN f = D, f = [k \in D |-> f[k]], \A k \in D : f[k] \in Seq(Jobs)
    PROVE  f \in Deltas
<1>1. f \in [D -> Seq(Jobs)]
  BY Zenon
<1>. QED  BY Zenon, <1>1 DEF Deltas

\* What a delta has
LEMMA DeltaType ==
    ASSUME NEW f \in Deltas
    PROVE  DOMAIN f \in SUBSET Docs /\ f = [k \in DOMAIN f |-> f[k]] /\ \A k \in DOMAIN f : f[k] \in Seq(Jobs)
<1>1. PICK D \in SUBSET Docs : f \in [D -> Seq(Jobs)]
  BY Zenon DEF Deltas
<1>. QED  BY <1>1

\* The fields of the line, of a part and of the call, for steps that the provers take apart
LEMMA LineType ==
    ASSUME TypeOK
    PROVE  /\ line.job \in 0..(MaxJobs + 1) /\ line.gate \in Nat /\ line.hit \in BOOLEAN /\ line.key \in Docs \cup {NoKey}
           /\ line.at \in {"free", "callback", "gate", "settling", "barrier", "stored", "closing"}
           /\ line.read \in Deltas /\ DOMAIN line.read \in SUBSET Docs
           /\ \A k \in DOMAIN line.read : line.read[k] \in Seq(Jobs)
<1>1. line \in Lines
  BY DEF TypeOK
<1>2. line.read \in Deltas
  BY <1>1 DEF Lines
<1>. QED  BY <1>1, <1>2, DeltaType DEF Lines

LEMMA PartType ==
    ASSUME TypeOK, NEW i \in Jobs
    PROVE  /\ part[i] \in Parts /\ part[i].stored \in BOOLEAN /\ part[i].taken \in SUBSET Docs
           /\ part[i].basis \in SUBSET Docs /\ part[i].delta \in Deltas /\ DOMAIN part[i].delta \in SUBSET Docs
           /\ \A k \in DOMAIN part[i].delta : part[i].delta[k] \in Seq(Jobs)
<1>1. part[i] \in Parts
  BY DEF TypeOK
<1>2. part[i].delta \in Deltas
  BY <1>1 DEF Parts
<1>. QED  BY <1>1, <1>2, DeltaType DEF Parts

LEMMA CallType ==
    ASSUME TypeOK
    PROVE  /\ call.parts \in Seq(Jobs) /\ call.at \in {"none", "storing", "publishing", "failing"}
           /\ call.durable \in Nat /\ call.received \in Nat /\ call.next \in Nat
           /\ call.result \in {"ok", "refused", "rejected"}
           /\ call.why \in {"none", "unreceived", "external", "adoption", "observer"}
BY DEF TypeOK, Calls

\* What the line's job becomes
LEMMA LineGoes ==
    ASSUME TypeOK, NEW a \in {"callback", "gate", "settling", "barrier", "stored", "closing"}
    PROVE  /\ [line EXCEPT !.at = a] \in Lines
           /\ [line EXCEPT !.at = a].job = line.job /\ [line EXCEPT !.at = a].at = a
           /\ [line EXCEPT !.at = a].read = line.read /\ [line EXCEPT !.at = a].hit = line.hit
<1>1. line \in Lines
  BY DEF TypeOK
<1>. QED  BY Zenon, <1>1 DEF Lines

\* ... at the gate of the newest unpublished writer of a key
Gated(k) == [line EXCEPT !.at = "gate", !.key = k, !.gate = unpublished[k], !.hit = TRUE]

Begun(i, a) == [Free EXCEPT !.job = i, !.at = a]

\* What settling and unregistering parts makes of the outcomes and of the unpublished writers
LEMMA SettleType ==
    ASSUME TypeOK, NEW S, NEW r \in Outcomes
    PROVE  Settle(S, r) \in [Jobs -> Outcomes] /\ \A i \in Jobs : Settle(S, r)[i] = IF i \in S THEN r ELSE outcome[i]
BY DEF Settle, TypeOK

LEMMA UnregisterType ==
    ASSUME TypeOK, NEW S
    PROVE  /\ Unregister(S) \in [Docs -> Nat]
           /\ \A k \in Docs : Unregister(S)[k] = IF unpublished[k] \in S THEN 0 ELSE unpublished[k]
BY DEF Unregister, TypeOK

\* The job on the line is a job, and the last one that was started.
LEMMA OnLine ==
    ASSUME TypeOK, LineOK, line.at # "free"
    PROVE  /\ line.job = started /\ started \in Jobs /\ line.job \in Jobs /\ started \in DOMAIN jobs
<1>1. line.job = started /\ line.job # 0
  BY Zenon DEF LineOK
<1>2. line.job \in 0..(MaxJobs + 1) /\ jobs \in Seq(Kinds) /\ started \in 0..Len(jobs)
  BY LineType DEF TypeOK
<1>. QED  BY <1>1, <1>2, JobNumbers

\* What a storage call starts with
LEMMA SentType ==
    ASSUME TypeOK, NEW s \in Seq(Jobs)
    PROVE  /\ Sent(s) \in Calls /\ Sent(s).parts = s /\ Sent(s).durable = 0 /\ Sent(s).received = 0
           /\ Sent(s).result = "ok" /\ Sent(s).next = 1 /\ Sent(s).why = "none"
           /\ Sent(s).at \in {"storing", "publishing"}
           /\ Sent(s).at = "storing" <=> \E n \in DOMAIN s : part'[s[n]].stored
<1>. DEFINE a == IF \E n \in DOMAIN s : part'[s[n]].stored THEN "storing" ELSE "publishing"
<1>1. a \in {"storing", "publishing"} /\ (a = "storing" <=> \E n \in DOMAIN s : part'[s[n]].stored)
  OBVIOUS
<1>2. Sent(s) = [NoCall EXCEPT !.parts = s, !.at = a]
  BY DEF Sent
<1>. HIDE DEF a
<1>3. Sent(s) \in Calls /\ Sent(s).parts = s /\ Sent(s).durable = 0 /\ Sent(s).received = 0
      /\ Sent(s).result = "ok" /\ Sent(s).next = 1 /\ Sent(s).why = "none" /\ Sent(s).at = a
  <2>1. a \in {"storing", "publishing"}
    BY Zenon, <1>1
  <2>2. NoCall \in Calls
    BY NoCallType
  <2>3. Sent(s) \in Calls
    BY Zenon, <1>2, <2>1, <2>2 DEF Calls
  <2>4. Sent(s).parts = s /\ Sent(s).at = a
    BY Zenon, <1>2, <2>2 DEF Calls
  <2>5. Sent(s).durable = NoCall.durable /\ Sent(s).received = NoCall.received
        /\ Sent(s).result = NoCall.result /\ Sent(s).next = NoCall.next /\ Sent(s).why = NoCall.why
    BY Zenon, <1>2, <2>2 DEF Calls
  <2>. QED  BY Zenon, <2>3, <2>4, <2>5, NoCallType
<1>. QED  BY Zenon, <1>1, <1>3

\* Failing: the first failure stands.
LEMMA FailType ==
    ASSUME TypeOK, NEW at \in 0..(MaxJobs + 1), NEW own \in SUBSET Jobs, fail(at, own)
    PROVE  /\ failAt' \in 0..(MaxJobs + 2) /\ ownOutcomes' \in SUBSET Jobs /\ closing' \in {"open", "sealed", "closed"}
           /\ failed' /\ (closing' = closing \/ (closing = "open" /\ closing' = "sealed"))
           /\ failed => failAt' = failAt /\ ownOutcomes' = ownOutcomes /\ closing' = closing
           /\ ~failed => failAt' = at /\ ownOutcomes' = own
<1>1. CASE failed
  BY <1>1, JobNumbers DEF fail, failed, TypeOK
<1>2. CASE ~failed
  <2>1. /\ failAt' = at /\ ownOutcomes' = own
        /\ closing' = IF closing = "open" THEN "sealed" ELSE closing
    BY Zenon, <1>2 DEF fail
  <2>2. failAt' \in 0..(MaxJobs + 2) /\ failAt' # NoFailure
    BY <2>1, JobNumbers
  <2>3. closing' \in {"open", "sealed", "closed"} /\ (closing' = closing \/ (closing = "open" /\ closing' = "sealed"))
    BY Zenon, <2>1 DEF TypeOK
  <2>4. failed'
    BY <2>2, JobNumbers DEF failed, NoFailure
  <2>. QED  BY Zenon, <1>2, <2>1, <2>2, <2>3, <2>4
<1>. QED  BY Zenon, <1>1, <1>2

\* The writer and what it keeps stay as they are.
Still == UNCHANGED <<part, queue, call, unpublished, open, mem, holds, pending, disk, log>>

\* A step beside the writer may fail the Session and settle jobs without a part.
Beside ==
    /\ Still
    /\ failed => failed'
    /\ \A i \in Jobs : HasPart(i) => outcome'[i] = outcome[i]

\* A step beside the writer keeps what is said of the call, the parts, the log, the keys and the disk.
LEMMA BesideKeeps ==
    ASSUME CallOK, FlightOK, LogOK, KeysOK, DiskOK, TypeOK, Beside
    PROVE  CallOK' /\ FlightOK' /\ LogOK' /\ KeysOK' /\ DiskOK'
<1>1. UNCHANGED <<part, queue, call, unpublished, open, mem, holds, pending, disk, log>>
  BY Zenon DEF Beside, Still
<1>2. /\ Flight' = Flight /\ Waiting' = Waiting /\ Batches' = Batches /\ Left' = Left /\ Stored' = Stored
      /\ \A i : HasPart(i)' = HasPart(i)
      /\ \A k, n : Writers(k, n)' = Writers(k, n)
  BY Zenon, <1>1 DEF Flight, Waiting, Batches, Left, Stored, HasPart, Writers, Own
<1>3. Flight \subseteq Jobs /\ Waiting \subseteq Flight
  <2>1. queue \in Seq(Jobs) /\ call.parts \in Seq(Jobs)
    BY CallType DEF TypeOK
  <2>2. Flight \subseteq Jobs
    BY Zenon, <2>1, RangeType DEF Flight
  <2>3. \A n \in DOMAIN call.parts : call.parts[n] \in Range(call.parts)
    BY Zenon, InRange
  <2>4. Waiting \subseteq Flight
    BY Zenon, <2>3 DEF Waiting, Flight
  <2>. QED  BY <2>2, <2>4
<1>4. CallOK'
  BY Zenon, <1>1 DEF CallOK
<1>5. FlightOK'
  <2>1. \A i \in Jobs : HasPart(i) => outcome'[i] = outcome[i]
    BY Zenon DEF Beside
  <2>2. \A i \in Flight : HasPart(i)
    BY Zenon DEF FlightOK
  <2>3. \A i \in Waiting : i \notin open' /\ outcome'[i] = "none"
    BY Zenon, <1>1, <1>3, <2>1, <2>2 DEF FlightOK
  <2>4. \A n \in DOMAIN call.parts : n < call.next \/ (n = call.next /\ call.why = "observer") =>
          IF call.result = "rejected" THEN call.parts[n] \notin open' /\ outcome'[call.parts[n]] = "none"
          ELSE call.parts[n] \in open' /\ outcome'[call.parts[n]] # "none"
    <3>1. \A n \in DOMAIN call.parts : call.parts[n] \in Jobs /\ HasPart(call.parts[n])
      BY Zenon, InRange, <1>3, <2>2 DEF Flight
    <3>. QED  BY Zenon, <1>1, <3>1, <2>1 DEF FlightOK
  <2>5. \A i \in Jobs : HasPart(i) /\ i \notin Flight =>
          i \in open' /\ outcome'[i] # "none" /\ \A j \in Flight : i < j
    BY Zenon, <1>1, <2>1 DEF FlightOK
  <2>6. ~failed' => \A i \in Jobs : HasPart(i) => outcome'[i] \in {"none", "ok"}
    BY Zenon, <2>1 DEF FlightOK, Beside
  <2>7. /\ InOrder(call.parts) /\ InOrder(queue)
        /\ \A i \in Range(call.parts) : \A j \in Range(queue) : i < j
    BY Zenon DEF FlightOK
  <2>8. (\A i \in open : HasPart(i)) /\ \A i \in Jobs : part[i].taken \subseteq DOMAIN part[i].delta
    BY Zenon DEF FlightOK
  <2>. QED  BY Zenon, <1>1, <1>2, <2>2, <2>3, <2>4, <2>5, <2>6, <2>7, <2>8 DEF FlightOK
<1>6. LogOK'
  BY Zenon, <1>1, <1>2 DEF LogOK, Beside
<1>7. KeysOK'
  <2>1. Healthy' => Healthy
    BY Zenon, <1>1 DEF Healthy, Beside
  <2>2. \A k \in Docs : KeyOK(k) => KeyOK(k)'
    BY Zenon, <1>1, <1>2 DEF KeyOK, Lands
  <2>. QED  BY Zenon, <2>1, <2>2 DEF KeysOK
<1>8. DiskOK'
  <2>1. Bound' \subseteq Bound
    BY Zenon, <1>1, <1>2 DEF Bound, Healthy, Beside, Flight
  <2>2. /\ \A k \in Docs : Begins(disk[k], Writers(k, AllJobs))'
        /\ \A i \in Range(log)' : \A k \in Own(i, part[i])' : i \in Range(disk[k])'
        /\ \A i \in Range(log)' : \A k \in part[i].basis' : Writers(k, i)' \subseteq Range(disk[k])'
    BY Zenon, <1>1, <1>2 DEF DiskOK
  <2>3. \A i \in Bound' : part[i].stored' => \A k \in part[i].basis' :
          k \notin DOMAIN part[i].delta' => Writers(k, i)' \subseteq Range(disk[k])'
    BY Zenon, <1>1, <1>2, <2>1 DEF DiskOK
  <2>4. (call.at = "storing" => \A n \in Left : \A k \in DOMAIN part[call.parts[n]].delta :
          /\ Lists(disk[k] \o part[call.parts[n]].delta[k], Writers(k, call.parts[n] + 1))
          /\ \A m \in Left : k \in DOMAIN part[call.parts[m]].delta => m = n)'
    BY Zenon, <1>1, <1>2 DEF DiskOK
  <2>. QED  BY Zenon, <2>2, <2>3, <2>4 DEF DiskOK
<1>. QED  BY Zenon, <1>4, <1>5, <1>6, <1>7, <1>8

Rest == TypeOK /\ LineOK /\ ReadsOK /\ TellsOK /\ CloseOK

\* What a step that leaves the writer alone keeps of the facts on jobs
LEMMA StillSame ==
    ASSUME Still
    PROVE  /\ \A i : HasPart(i)' <=> HasPart(i)
           /\ \A k, n : Writers(k, n)' = Writers(k, n)
           /\ \A i : Own(i, part[i])' = Own(i, part[i])
           /\ \A i \in Jobs : Durable(i)' <=> Durable(i)
BY Zenon DEF Still, HasPart, Writers, Own, Durable

\* A job joins the line, or close() seals it.
Joins ==
    /\ Still /\ UNCHANGED <<started, line, stale, outcome, told, early, lastDelivered, failAt, ownOutcomes>>
    /\ fired' \in BOOLEAN /\ closing # "closed"
    /\ \/ jobs' = jobs /\ closing' = "sealed"
       \/ /\ closing' = closing
          /\ \E kind \in Kinds : /\ jobs' = Append(jobs, kind)
                                 /\ \/ kind # "close" /\ closing = "open" /\ Len(jobs) < MaxJobs
                                    \/ kind = "close" /\ closing = "sealed" /\ "close" \notin Range(jobs)

Others == CallOK /\ FlightOK /\ LogOK /\ KeysOK /\ DiskOK

\* The jobs in the log and on their way to it have a part; so have those settled by the writer.
LEMMA InLogHasPart ==
    ASSUME TypeOK, FlightOK, LogOK
    PROVE  /\ \A i \in Range(log) : i \in Jobs /\ HasPart(i) /\ part[i].stored
           /\ \A i \in Range(call.parts) : i \in Jobs /\ HasPart(i)
           /\ \A i \in Range(queue) : i \in Jobs /\ HasPart(i)
<1>1. Range(log) \subseteq Stored
  BY Zenon DEF LogOK, Begins
<1>2. \A i \in Stored : i \in Jobs /\ HasPart(i) /\ part[i].stored
  BY NoPartType DEF Stored, HasPart
<1>3. Range(call.parts) \subseteq Jobs /\ Range(queue) \subseteq Jobs
  BY Zenon, RangeType, CallType DEF TypeOK
<1>4. \A i \in Flight : HasPart(i)
  BY Zenon DEF FlightOK
<1>. QED  BY Zenon, <1>1, <1>2, <1>3, <1>4 DEF Flight

\* A job that still runs its callback has neither part nor outcome.
LEMMA NewOnLine ==
    ASSUME Rest, line.at \in {"callback", "gate", "settling", "barrier"}
    PROVE  /\ line.job \in Jobs /\ line.job = started /\ started \in DOMAIN jobs
           /\ ~HasPart(line.job) /\ outcome[line.job] = "none" /\ told[line.job] = "none"
           /\ \A i \in Jobs : HasPart(i) => i < line.job
<1>1. line.job \in Jobs /\ line.job = started /\ started \in DOMAIN jobs
  BY OnLine DEF Rest
<1>2. ~HasPart(line.job) /\ outcome[line.job] = "none"
  BY Zenon, <1>1 DEF Rest, LineOK
<1>3. told[line.job] = "none"
  BY Zenon, <1>1, <1>2 DEF Rest, TellsOK
<1>4. \A i \in Jobs : HasPart(i) => i <= started
  BY Zenon DEF Rest, LineOK
<1>. QED  BY <1>1, <1>2, <1>3, <1>4, JobNumbers

\* What a job on the line leaves when it ends
LeavesIt(r) ==
    /\ line' = Free /\ jobs' = jobs /\ started' = started /\ told' = told /\ lastDelivered' = lastDelivered
    /\ \A i \in Jobs : outcome'[i] = IF i = line.job THEN r ELSE outcome[i]
    /\ early' \subseteq early \cup {line.job}
    /\ stale' = IF Right THEN stale ELSE stale \cup {line.job}
    /\ fired' = fired
    /\ \/ failAt' = failAt /\ ownOutcomes' = ownOutcomes /\ closing' = closing
       \/ /\ ~failed /\ failed' /\ failAt' \in 0..(MaxJobs + 2) /\ ownOutcomes' = {}
          /\ (closing' = closing \/ (closing = "open" /\ closing' = "sealed"))

\* The job on the line goes on.
Moves == /\ Still /\ UNCHANGED <<jobs, started, stale, outcomeVars, sessionVars>>
         /\ line' \in Lines /\ line'.job = line.job

\* What the job has read is right wherever it goes next.
ReadsWell ==
    /\ Healthy => Right'
    /\ Healthy => \A k \in DOMAIN line'.read : unpublished[k] = 0
    /\ Healthy /\ line'.at = "gate" => unpublished[line'.key] \in {0, line'.gate}
    /\ line'.at = "settling" /\ ~Right' => (~failed /\ call.at = "failing") \/ Poisoned(line.job)

\* All writers of a key come before the job that runs its callback.
LEMMA WritersBefore ==
    ASSUME Rest, line.at \in {"callback", "gate", "settling", "barrier"}, NEW k
    PROVE  Writers(k, AllJobs) = Writers(k, line.job)
<1>1. \A i \in Jobs : HasPart(i) => i < line.job
  BY Zenon, NewOnLine
<1>2. \A i \in Jobs : k \in Own(i, part[i]) => HasPart(i)
  BY NoPartType DEF Own, HasPart
<1>3. line.job \in Jobs
  BY Zenon, NewOnLine
<1>. HIDE DEF Own
<1>4. \A j : j \in 1..(AllJobs - 1) <=> j \in Jobs
  BY JobNumbers
<1>5. \A j : j \in 1..(line.job - 1) <=> j \in Jobs /\ j < line.job
  BY <1>3, JobNumbers
<1>. QED  BY <1>1, <1>2, <1>4, <1>5 DEF Writers

\* An upkeep job goes on to close, or ends.
UpkeepGoes ==
    /\ Still /\ UNCHANGED <<jobs, started, stale, outcomeVars, failAt, ownOutcomes, fired>>
    /\ closing' = closing
    /\ line.at \in {"barrier", "stored"}
    /\ failed \/ (holds = {} /\ \A j \in Jobs : HasPart(j) => j \in open)
    /\ \/ line' = Free
       \/ line' = [line EXCEPT !.at = "closing"] /\ jobs[line.job] = "close"

Closes ==
    /\ Still /\ UNCHANGED <<jobs, started, stale, outcomeVars, failAt, ownOutcomes, fired>>
    /\ line.at = "closing" /\ call.at = "none" /\ closing' = "closed" /\ line' = Free

\* What is settled is open.
LEMMA SettledIsOpen ==
    ASSUME TypeOK, FlightOK, NEW i \in Jobs, HasPart(i), outcome[i] # "none"
    PROVE  i \in open
<1>1. CASE i \notin Flight
  BY Zenon, <1>1 DEF FlightOK
<1>2. CASE i \in Flight
  <2>1. i \notin Waiting
    BY Zenon DEF FlightOK
  <2>2. i \in Range(call.parts)
    BY Zenon, <1>2, <2>1 DEF Flight, Waiting
  <2>3. PICK n \in DOMAIN call.parts : call.parts[n] = i
    BY Zenon, <2>2, RangeIs
  <2>4. ~(n >= call.next /\ ~(n = call.next /\ call.why = "observer"))
    BY Zenon, <2>1, <2>3 DEF Waiting
  <2>5. n < call.next \/ (n = call.next /\ call.why = "observer")
    <3>1. n \in Nat /\ call.next \in Nat
      BY CallType
    <3>. QED  BY <2>4, <3>1
  <2>. QED  BY Zenon, <2>3, <2>5 DEF FlightOK
<1>. QED  BY Zenon, <1>1, <1>2

\* The line starts job i.
Starts(i) ==
    /\ Still /\ UNCHANGED <<jobs, stale, told, lastDelivered, failAt, ownOutcomes, closing>>
    /\ line.at = "free" /\ i = started + 1 /\ i <= Len(jobs) /\ started' = i /\ fired' \in BOOLEAN
    /\ outcome' \in [Jobs -> Outcomes] /\ \A j \in Jobs : j # i => outcome'[j] = outcome[j]
    /\ early' \subseteq early \cup {i}
    /\ \/ line' = Free /\ outcome'[i] \in {outcome[i], "failed"}
       \/ line' = Begun(i, "callback") /\ jobs[i] \notin Upkeep /\ outcome' = outcome /\ early' = early
       \/ line' = Begun(i, "barrier") /\ jobs[i] \in Upkeep /\ outcome' = outcome /\ early' = early

\* The steps beside the writer
BesideStep ==
    \/ \E kind \in Kinds \ Upkeep : enqueue(kind)
    \/ HoldTimer \/ close \/ EnqueueClose \/ StartJob
    \/ (\E k \in Docs : touch(k)) \/ PassGate \/ EndCallback \/ Throw
    \/ CommitNothing \/ HoldsStored \/ Closed \/ ReadRejects \/ CallRejects
    \/ UpkeepGoes
    \/ \E i \in Jobs : Deliver(i)

\* Steps of the line that admit nothing, and deliveries: enqueue, the timer of the holds, close, the start and the callback
\* of a job and how it ends without a part, upkeep with nothing to store, a rejection that has yet to reach the writer.
LEMMA BesideInv ==
    ASSUME IInv, BesideStep
    PROVE  IInv'
\* enqueue, the timer, close
<1>JoinsKeep. ASSUME Rest, \/ \E kind \in Kinds \ Upkeep : enqueue(kind)
                           \/ HoldTimer \/ close \/ EnqueueClose
              PROVE  Rest' /\ Beside
  <2>. USE <1>JoinsKeep
  \* What joins the line is the next job; close seals it.
  <2>JoinsAre. ASSUME TypeOK, \/ \E kind \in Kinds \ Upkeep : enqueue(kind)
                              \/ HoldTimer \/ close \/ EnqueueClose
               PROVE  Joins
    <3>. USE <2>JoinsAre
    <3>. USE DEF Still, writerVars, stateVars, lineVars, outcomeVars, sessionVars, Joins
    <3>0. fired \in BOOLEAN
      BY DEF TypeOK
    <3>1. ASSUME NEW kind \in Kinds \ Upkeep, enqueue(kind) PROVE Joins
      BY Zenon, <3>0, <3>1 DEF enqueue, Upkeep
    <3>2. CASE HoldTimer
      <4>1. "store" \in Kinds /\ "store" # "close" /\ TRUE \in BOOLEAN
        BY DEF Kinds
      <4>. QED  BY Zenon, <3>0, <3>2, <4>1 DEF HoldTimer
    <3>3. CASE close
      BY Zenon, <3>0, <3>3 DEF close
    <3>4. CASE EnqueueClose
      <4>1. "close" \in Kinds
        BY DEF Kinds
      <4>. QED  BY Zenon, <3>0, <3>4, <4>1 DEF EnqueueClose
    <3>. QED  BY Zenon, <3>1, <3>2, <3>3, <3>4
  <2>JoinsBeside. ASSUME Joins PROVE Beside
    BY Zenon, <2>JoinsBeside DEF Joins, Beside, failed
  \* Jobs behind those that were started change nothing of what is said of the line.
  <2>JoinsRest. ASSUME Rest, Joins PROVE Rest'
    <3>. USE <2>JoinsRest
    <3>. USE DEF Rest
    <3>0. /\ UNCHANGED <<started, line, stale, outcome, told, early, lastDelivered, failAt, ownOutcomes>>
          /\ UNCHANGED <<part, queue, call, unpublished, open, mem, holds, pending, disk, log>>
          /\ (failed' <=> failed)
      BY Zenon DEF Joins, Still, failed
    <3>1. /\ jobs' \in Seq(Kinds) /\ Len(jobs') >= Len(jobs) /\ \A i \in DOMAIN jobs : i \in DOMAIN jobs' /\ jobs'[i] = jobs[i]
          /\ closing' \in {"open", "sealed", "closed"} /\ closing' # "closed"
      <4>1. closing' \in {"open", "sealed", "closed"} /\ closing' # "closed"
        BY Zenon DEF TypeOK, Joins
      <4>2. jobs \in Seq(Kinds)
        BY DEF TypeOK
      <4>3. jobs' = jobs \/ \E kind \in Kinds : jobs' = Append(jobs, kind)
        BY Zenon DEF Joins
      <4>. QED  BY <4>1, <4>2, <4>3
    <3>2. JobsOK'
      <4>1. CASE jobs' = jobs /\ closing' = "sealed"
        BY <4>1 DEF LineOK, JobsOK, TypeOK
      <4>2. ASSUME NEW kind \in Kinds, jobs' = Append(jobs, kind), closing' = closing, kind # "close",
                   closing = "open", Len(jobs) < MaxJobs
            PROVE  JobsOK'
        BY <4>2, JobNumbers DEF LineOK, JobsOK, TypeOK
      <4>3. ASSUME jobs' = Append(jobs, "close"), closing' = closing, closing = "sealed", "close" \notin Range(jobs)
            PROVE  JobsOK'
        <5>1. \A i \in DOMAIN jobs : jobs[i] # "close"
          BY <4>3 DEF Range
        <5>2. Len(jobs) <= MaxJobs
          BY <5>1, JobNumbers DEF LineOK, JobsOK, TypeOK
        <5>3. "close" \in Kinds
          BY DEF Kinds
        <5>. QED  BY <4>3, <5>1, <5>2, <5>3, JobNumbers DEF JobsOK, TypeOK
      <4>. QED  BY Zenon, <4>1, <4>2, <4>3 DEF Joins
    <3>3. TypeOK'
      <4>1. started' \in 0..Len(jobs')
        BY <3>0, <3>1 DEF TypeOK
      <4>2. fired' \in BOOLEAN
        BY Zenon DEF Joins
      <4>. QED  BY Zenon, <3>0, <3>1, <4>1, <4>2 DEF TypeOK
    <3>4. started # 0 => jobs'[started] = jobs[started]
      BY <3>1 DEF TypeOK
    <3>5. line.at # "free" => started # 0
      BY Zenon, JobNumbers, LineType DEF LineOK
    <3>6. LineOK'
      BY Zenon, <3>0, <3>1, <3>2, <3>4, <3>5 DEF LineOK, HasPart
    <3>7. ReadsOK'
      BY Zenon, <3>0 DEF ReadsOK, Healthy, Right, Writers, Own, Poisoned, Lists
    <3>8. TellsOK'
      <4>1. \A i \in Jobs : told[i] = "ok" => \A j \in 1..(i - 1) : HasPart(j) => jobs'[j] = jobs[j]
        <5>1. ASSUME NEW i \in Jobs, NEW j \in 1..(i - 1), HasPart(j) PROVE jobs'[j] = jobs[j]
          <6>1. j \in Jobs /\ j <= started
            BY <5>1, JobNumbers DEF LineOK
          <6>. QED  BY <3>1, <6>1, JobNumbers DEF TypeOK
        <5>. QED  BY Zenon, <5>1
      <4>. QED  BY Zenon, <3>0, <4>1 DEF TellsOK, HasPart, Own, Poisoned
    <3>9. CloseOK'
      BY Zenon, <3>0, <3>1 DEF CloseOK, HasPart
    <3>. QED  BY Zenon, <3>3, <3>6, <3>7, <3>8, <3>9
  <2>1. Joins
    BY Zenon, <2>JoinsAre DEF Rest
  <2>. QED  BY Zenon, <2>1, <2>JoinsBeside, <2>JoinsRest
\* A callback that ends before it settles
<1>ThrownRest. ASSUME Rest, Others, \/ Throw \/ ReadRejects \/ CommitNothing
                                    \/ (failed /\ EndCallback) \/ (failed /\ PassGate)
               PROVE  Rest' /\ Beside
  <2>. USE <1>ThrownRest
  \* A job that leaves the line
  <2>LeaveType. ASSUME TypeOK, Leave, line.job \in Jobs
                PROVE  line' = Free /\ line' \in Lines /\ stale' \in SUBSET Jobs /\ stale \subseteq stale' /\ stale' \subseteq stale \cup {line.job}
    <3>. USE <2>LeaveType
    <3>1. line' = Free /\ (stale' = stale \/ stale' = stale \cup {line.job})
      BY Zenon DEF Leave
    <3>. QED  BY <3>1, FreeType DEF TypeOK
  \* A job that ends without a part has an outcome and nothing else.
  <2>EndsType. ASSUME TypeOK, LineOK, line.at # "free", NEW r \in Outcomes, Ends(r)
               PROVE  /\ line' = Free /\ line' \in Lines /\ stale' \in SUBSET Jobs /\ stale \subseteq stale' /\ stale' \subseteq stale \cup {line.job}
                      /\ outcome' \in [Jobs -> Outcomes] /\ \A i \in Jobs : outcome'[i] = IF i = line.job THEN r ELSE outcome[i]
                      /\ early' \in SUBSET Jobs /\ early' \subseteq early \cup {line.job}
                      /\ jobs' = jobs /\ started' = started /\ told' = told /\ lastDelivered' = lastDelivered
    <3>. USE <2>EndsType
    <3>1. line.job \in Jobs
      BY OnLine
    <3>2. Leave /\ outcome' = Settle({line.job}, r) /\ UNCHANGED <<jobs, started, told, lastDelivered>>
          /\ (early' = early \/ early' = early \cup {line.job})
      BY Zenon DEF Ends, Unfenced
    <3>. QED  BY <3>1, <3>2, <2>LeaveType, SettleType DEF TypeOK
  <2>EndsRest. ASSUME Rest, Others, Still, line.at \in {"callback", "gate", "settling"},
                      NEW r \in Outcomes \ {"none"}, outcome' \in [Jobs -> Outcomes], LeavesIt(r),
                      r = "ok" /\ ~Right => Poisoned(line.job)
               PROVE  Rest' /\ Beside
    <3>. USE <2>EndsRest
    <3>0. /\ TypeOK /\ LineOK /\ ReadsOK /\ TellsOK /\ CloseOK /\ CallOK /\ FlightOK /\ LogOK /\ KeysOK
      BY Zenon DEF Rest, Others
    <3>1. /\ line.job \in Jobs /\ line.job = started /\ started \in DOMAIN jobs
          /\ ~HasPart(line.job) /\ outcome[line.job] = "none" /\ told[line.job] = "none"
      BY Zenon, NewOnLine
    <3>2. UNCHANGED <<part, queue, call, unpublished, open, mem, holds, pending, disk, log>>
      BY Zenon DEF Still
    <3>3. line' = Free /\ Free.at = "free" /\ Free.job = 0 /\ DOMAIN Free.read = {} /\ Free \in Lines
      BY Zenon, FreeType DEF LeavesIt
    <3>4. /\ \A i : HasPart(i)' <=> HasPart(i)
          /\ \A i \in Jobs : HasPart(i) => outcome'[i] = outcome[i]
          /\ \A i \in Jobs : outcome'[i] = IF i = line.job THEN r ELSE outcome[i]
          /\ failed => failed' /\ failAt' = failAt /\ ownOutcomes' = ownOutcomes
          /\ failAt' = failAt \/ failed'
          /\ \A i : Poisoned(i) => Poisoned(i)'
      <4>1. \A i : HasPart(i)' <=> HasPart(i)
        BY Zenon, <3>2 DEF HasPart
      <4>2. \A i \in Jobs : HasPart(i) => i # line.job
        BY Zenon, <3>1
      <4>3. failed => failed' /\ failAt' = failAt /\ ownOutcomes' = ownOutcomes
        BY Zenon DEF LeavesIt, failed
      <4>. QED  BY Zenon, <4>1, <4>2, <4>3 DEF LeavesIt, Poisoned
    <3>5. Beside
      BY Zenon, <3>4 DEF Beside
    <3>6. closing # "closed" /\ closing' # "closed" /\ closing' \in {"open", "sealed", "closed"}
          /\ (closing # "open" => closing' # "open")
      <4>1. closing # "closed"
        BY Zenon, <3>0 DEF LineOK
      <4>. QED  BY Zenon, <3>0, <4>1 DEF LeavesIt, TypeOK
    <3>7. TypeOK'
      <4>1. early' \in SUBSET Jobs /\ stale' \in SUBSET Jobs
        BY <3>0, <3>1 DEF TypeOK, LeavesIt
      <4>2. failAt' \in 0..(MaxJobs + 2) /\ ownOutcomes' \in SUBSET Jobs
        BY <3>0 DEF TypeOK, LeavesIt
      <4>3. /\ jobs' = jobs /\ started' = started /\ told' = told /\ lastDelivered' = lastDelivered /\ fired' = fired
        BY Zenon DEF LeavesIt
      <4>. QED  BY Zenon, <3>0, <3>2, <3>3, <3>6, <4>1, <4>2, <4>3 DEF TypeOK
    <3>8. LineOK'
      <4>1. jobs' = jobs /\ started' = started
        BY Zenon DEF LeavesIt
      <4>2. JobsOK'
        BY Zenon, <3>0, <3>6, <4>1 DEF LineOK, JobsOK
      <4>3. \A i \in Jobs : HasPart(i) \/ outcome'[i] # "none" => i <= started /\ i # 0
        <5>1. \A i \in Jobs : HasPart(i) \/ outcome'[i] # "none" => i = line.job \/ i <= started
          BY Zenon, <3>0, <3>4 DEF LineOK
        <5>2. line.job <= started
          BY <3>1, JobNumbers
        <5>. QED  BY Zenon, <5>1, <5>2, <3>1, JobNumbers
      <4>. QED  BY Zenon, <3>3, <3>4, <3>6, <4>1, <4>2, <4>3 DEF LineOK
    <3>9. ReadsOK'
      <4>1. Right'
        BY Zenon, <3>3 DEF Right
      <4>2. ASSUME NEW i \in stale'
            PROVE  /\ ~Healthy' /\ i <= started /\ i # 0
                   /\ i \notin Range(log) /\ i \notin Range(call.parts)
                   /\ i \in Range(queue) => failed'
                   /\ outcome'[i] = "ok" => Poisoned(i)'
                   /\ told[i] # "ok"
        <5>1. Healthy' => Healthy
          BY Zenon, <3>2, <3>4 DEF Healthy, failed
        <5>2. CASE i \in stale
          <6>1. i \in Jobs /\ i # line.job /\ i # 0
            BY Zenon, <3>0, <5>2, JobNumbers DEF ReadsOK, TypeOK
          <6>2. /\ ~Healthy /\ i <= started
                /\ i \notin Range(log) /\ i \notin Range(call.parts)
                /\ i \in Range(queue) => failed
                /\ outcome[i] = "ok" => Poisoned(i)
                /\ told[i] # "ok"
            BY Zenon, <3>0, <5>2 DEF ReadsOK
          <6>. QED  BY Zenon, <3>4, <5>1, <6>1, <6>2
        <5>3. CASE i \notin stale
          <6>1. i = line.job /\ ~Right
            BY Zenon, <4>2, <5>3 DEF LeavesIt
          <6>2. ~Healthy
            BY Zenon, <3>0, <6>1 DEF ReadsOK
          <6>3. i \notin Range(log) /\ i \notin Range(call.parts) /\ i \notin Range(queue)
            BY Zenon, <3>0, <3>1, <6>1, InLogHasPart
          <6>4. i <= started /\ i # 0
            BY <3>1, <6>1, JobNumbers
          <6>5. outcome'[i] = "ok" => Poisoned(i)'
            BY Zenon, <3>1, <3>4, <6>1
          <6>6. told[i] # "ok"
            BY <3>1, <6>1
          <6>. QED  BY Zenon, <5>1, <6>2, <6>3, <6>4, <6>5, <6>6
        <5>. QED  BY Zenon, <5>2, <5>3
      <4>3. started' = started /\ told' = told
        BY Zenon DEF LeavesIt
      <4>. QED  BY Zenon, <3>2, <3>3, <4>1, <4>2, <4>3 DEF ReadsOK
    <3>10. TellsOK'
      <4>1. jobs' = jobs /\ started' = started /\ told' = told /\ early' \subseteq early \cup {line.job}
            /\ (ownOutcomes' = ownOutcomes \/ ownOutcomes' = {})
        BY Zenon DEF LeavesIt
      <4>2. \A i \in early' : ~HasPart(i) /\ i <= started /\ i # 0
        <5>1. \A i \in early : ~HasPart(i) /\ i <= started /\ i \in Jobs
          BY Zenon, <3>0 DEF TellsOK, TypeOK
        <5>2. line.job <= started
          BY <3>1, JobNumbers
        <5>. QED  BY Zenon, <3>1, <4>1, <5>1, <5>2, JobNumbers
      <4>3. \A i \in ownOutcomes' : failed' /\ outcome'[i] = "err" /\ HasPart(i)
        <5>1. \A i \in ownOutcomes : failed /\ outcome[i] = "err" /\ HasPart(i) /\ i \in Jobs
          BY Zenon, <3>0 DEF TellsOK, TypeOK
        <5>. QED  BY Zenon, <3>4, <4>1, <5>1
      <4>4. \A i \in Jobs : HasPart(i) /\ outcome'[i] = "ok" =>
              /\ \A k \in Own(i, part[i]) : i \in Range(mem[k])
              /\ part[i].stored => i \in Range(log)
              /\ \A j \in 1..(i - 1) : HasPart(j) => outcome'[j] = "ok"
        <5>1. \A i \in Jobs : \A j \in 1..(i - 1) : j \in Jobs
          BY JobNumbers
        <5>. QED  BY Zenon, <3>0, <3>4, <5>1 DEF TellsOK
      <4>5. \A i \in Jobs : told[i] # "none" => told[i] = outcome'[i] \/ (told[i] = "failed" /\ outcome'[i] # "none" /\ Poisoned(i)')
        <5>1. \A i \in Jobs : told[i] # "none" => outcome'[i] = outcome[i]
          BY Zenon, <3>1, <3>4
        <5>. QED  BY Zenon, <3>0, <3>4, <5>1 DEF TellsOK
      <4>6. \A i \in Jobs : told[i] = "ok" /\ HasPart(i) =>
              \A j \in 1..(i - 1) : HasPart(j) /\ jobs[j] \notin Upkeep => told[j] = "ok"
        BY Zenon, <3>0 DEF TellsOK
      <4>. QED  BY Zenon, <3>2, <3>3, <3>4, <4>1, <4>2, <4>3, <4>4, <4>5, <4>6 DEF TellsOK, Own
    <3>11. CloseOK'
      BY Zenon, <3>3, <3>6 DEF CloseOK
    <3>. QED  BY Zenon, <3>5, <3>7, <3>8, <3>9, <3>10, <3>11 DEF Rest
  <2>EndsLeaves. ASSUME Rest, line.at \in {"callback", "gate", "settling"}, NEW r \in Outcomes, Ends(r), fired' = fired,
                        \/ failAt' = failAt /\ ownOutcomes' = ownOutcomes /\ closing' = closing
                        \/ /\ ~failed /\ failed' /\ failAt' \in 0..(MaxJobs + 2) /\ ownOutcomes' = {}
                           /\ (closing' = closing \/ (closing = "open" /\ closing' = "sealed"))
                 PROVE  LeavesIt(r) /\ outcome' \in [Jobs -> Outcomes]
    <3>. USE <2>EndsLeaves
    <3>0. TypeOK /\ LineOK /\ line.at # "free"
      BY DEF Rest
    <3>1. /\ line' = Free
          /\ outcome' \in [Jobs -> Outcomes] /\ \A i \in Jobs : outcome'[i] = IF i = line.job THEN r ELSE outcome[i]
          /\ early' \subseteq early \cup {line.job}
          /\ jobs' = jobs /\ started' = started /\ told' = told /\ lastDelivered' = lastDelivered
      BY Zenon, <3>0, <2>EndsType
    <3>2. stale' = IF Right THEN stale ELSE stale \cup {line.job}
      BY Zenon DEF Ends, Leave, Right
    <3>. QED  BY Zenon, <3>1, <3>2 DEF LeavesIt
  <2>. USE DEF Still, writerVars, stateVars
  <2>0. "ok" \in Outcomes \ {"none"} /\ "err" \in Outcomes \ {"none"} /\ "failed" \in Outcomes \ {"none"}
        /\ "err" # "ok" /\ "failed" # "ok"
    BY DEF Outcomes
  <2>1. ASSUME NEW r \in Outcomes \ {"none"}, r # "ok", Ends(r), line.at \in {"callback", "gate", "settling"},
               UNCHANGED <<writerVars, stateVars, sessionVars>>
        PROVE  Rest' /\ Beside
    <3>1. LeavesIt(r) /\ outcome' \in [Jobs -> Outcomes]
      BY Zenon, <2>1, <2>EndsLeaves DEF sessionVars
    <3>2. Still
      BY Zenon, <2>1
    <3>. QED  BY Zenon, <2>1, <3>1, <3>2, <2>EndsRest
  <2>2. CASE Throw
    BY Zenon, <2>0, <2>1, <2>2 DEF Throw, Running
  <2>3. CASE failed /\ EndCallback
    BY Zenon, <2>0, <2>1, <2>3 DEF EndCallback, Running
  <2>4. CASE failed /\ PassGate
    BY Zenon, <2>0, <2>1, <2>4 DEF PassGate, Running
  <2>5. CASE CommitNothing
    <3>1. line.at = "settling" /\ call.at # "failing" /\ Ends("ok") /\ UNCHANGED <<writerVars, stateVars, sessionVars>>
      BY Zenon, <2>5 DEF CommitNothing, Settling, Running
    <3>2. LeavesIt("ok") /\ outcome' \in [Jobs -> Outcomes]
      BY Zenon, <2>0, <3>1, <2>EndsLeaves DEF sessionVars
    <3>3. ~Right => Poisoned(line.job)
      BY Zenon, <3>1 DEF Rest, ReadsOK
    <3>4. Still
      BY Zenon, <3>1
    <3>. QED  BY Zenon, <2>0, <3>1, <3>2, <3>3, <3>4, <2>EndsRest
  <2>6. CASE ReadRejects
    <3>1. line.at = "callback" /\ ~failed /\ fail(line.job, {}) /\ Ends("err")
          /\ UNCHANGED <<writerVars, stateVars, fired>>
      BY Zenon, <2>6 DEF ReadRejects, Running
    <3>2. line.job \in 0..(MaxJobs + 1) /\ {} \in SUBSET Jobs /\ TypeOK
      BY LineType DEF Rest
    <3>3. /\ failed' /\ failAt' \in 0..(MaxJobs + 2) /\ ownOutcomes' = {}
          /\ (closing' = closing \/ (closing = "open" /\ closing' = "sealed"))
      BY Zenon, <3>1, <3>2, FailType
    <3>4. LeavesIt("err") /\ outcome' \in [Jobs -> Outcomes]
      BY Zenon, <2>0, <3>1, <3>3, <2>EndsLeaves
    <3>5. Still
      BY Zenon, <3>1
    <3>. QED  BY Zenon, <2>0, <3>1, <3>4, <3>5, <2>EndsRest
  <2>. QED  BY Zenon, <2>2, <2>3, <2>4, <2>5, <2>6
\* A callback that reads, or goes on behind a gate: what it sees lists the writers before it.
<1>CallbackRest. ASSUME Rest, Others, \/ \E k \in Docs : touch(k)
                                      \/ (~failed /\ EndCallback) \/ (~failed /\ PassGate)
                 PROVE  Rest' /\ Beside
  <2>. USE <1>CallbackRest
  \* What touch adds to the reads
  <2>SeesType. ASSUME TypeOK, NEW k \in Docs
               PROVE  /\ Sees(k) \in Lines /\ Sees(k).job = line.job /\ Sees(k).at = "callback"
                      /\ DOMAIN Sees(k).read = (DOMAIN line.read) \cup {k}
                      /\ Sees(k).hit = line.hit
                      /\ Sees(k).read = [x \in (DOMAIN line.read) \cup {k} |-> IF x = k THEN mem[k] ELSE line.read[x]]
    <3>. USE <2>SeesType
    <3>. DEFINE f == [x \in (DOMAIN line.read) \cup {k} |-> IF x = k THEN mem[k] ELSE line.read[x]]
    <3>1. f \in Deltas
      <4>1. \A x \in (DOMAIN line.read) \cup {k} : f[x] \in Seq(Jobs)
        BY LineType DEF TypeOK
      <4>2. (DOMAIN line.read) \cup {k} \in SUBSET Docs
        BY LineType
      <4>. QED  BY <4>1, <4>2, DeltaIs
    <3>2. Sees(k) = [line EXCEPT !.at = "callback", !.key = NoKey, !.gate = 0, !.read = f]
      BY DEF Sees
    <3>. HIDE DEF f
    <3>3. line \in Lines
      BY DEF TypeOK
    <3>4. Sees(k) \in Lines
      <4>1. 0 \in Nat
        OBVIOUS
      <4>. QED  BY Zenon, <3>1, <3>2, <3>3, <4>1 DEF Lines
    <3>5. Sees(k).job = line.job /\ Sees(k).at = "callback" /\ Sees(k).hit = line.hit /\ Sees(k).read = f
      BY Zenon, <3>1, <3>2, <3>3 DEF Lines
    <3>. QED  BY <3>4, <3>5 DEF f
  <2>LineGates. ASSUME TypeOK, NEW k \in Docs
                PROVE  /\ Gated(k) \in Lines /\ Gated(k).job = line.job /\ Gated(k).at = "gate" /\ Gated(k).key = k
                       /\ Gated(k).gate = unpublished[k] /\ Gated(k).read = line.read
    <3>. USE <2>LineGates
    <3>1. line \in Lines /\ unpublished[k] \in Nat
      BY DEF TypeOK
    <3>2. Gated(k) \in Lines
      BY Zenon, <3>1 DEF Lines, Gated
    <3>. QED  BY Zenon, <3>1, <3>2 DEF Lines, Gated
  <2>MovesRest. ASSUME Rest, Moves, line.at \in {"callback", "gate"}, line'.at \in {"callback", "gate", "settling"},
                       line'.at = "gate" => line'.key \in Docs /\ line'.key \notin DOMAIN line'.read, ReadsWell
                PROVE  Rest' /\ Beside
    <3>. USE <2>MovesRest
    <3>0. TypeOK /\ LineOK /\ ReadsOK /\ TellsOK /\ CloseOK
      BY Zenon DEF Rest
    <3>1. /\ UNCHANGED <<part, queue, call, unpublished, open, mem, holds, pending, disk, log>>
          /\ UNCHANGED <<jobs, started, stale, outcome, told, early, lastDelivered, failAt, ownOutcomes, closing, fired>>
      BY Zenon DEF Moves, Still, outcomeVars, sessionVars
    <3>2. /\ (failed' <=> failed) /\ (Healthy' <=> Healthy) /\ (\A i : HasPart(i)' <=> HasPart(i))
          /\ \A i : Poisoned(i)' <=> Poisoned(i)
      BY Zenon, <3>1 DEF failed, Healthy, HasPart, Poisoned
    <3>3. line.job \in Jobs /\ line.job = started /\ ~HasPart(line.job) /\ outcome[line.job] = "none"
      BY Zenon, NewOnLine
    <3>4. line'.at \notin {"free", "barrier", "stored", "closing"}
      BY Zenon
    <3>5. TypeOK'
      BY Zenon, <3>0, <3>1 DEF TypeOK, Moves
    <3>6. LineOK'
      <4>1. JobsOK'
        BY Zenon, <3>0, <3>1 DEF LineOK, JobsOK
      <4>2. line'.job # 0 /\ line'.job = started
        BY Zenon, <3>3, JobNumbers DEF Moves
      <4>3. jobs[started] \notin Upkeep /\ closing # "closed"
        BY Zenon, <3>0 DEF LineOK
      <4>4. \A i \in Jobs : HasPart(i) \/ outcome[i] # "none" => i <= started /\ i # line'.job
        BY Zenon, <3>0, <3>3, <4>2 DEF LineOK
      <4>. QED  BY Zenon, <3>1, <3>2, <3>4, <4>1, <4>2, <4>3, <4>4 DEF LineOK
    <3>7. ReadsOK'
      <4>1. line'.job = line.job
        BY Zenon DEF Moves
      <4>. QED  BY Zenon, <3>0, <3>1, <3>2, <4>1 DEF ReadsOK, ReadsWell
    <3>8. TellsOK'
      <4>1. line'.job = line.job
        BY Zenon DEF Moves
      <4>. QED  BY Zenon, <3>0, <3>1, <3>2, <4>1 DEF TellsOK, Own
    <3>9. CloseOK'
      <4>1. closing # "closed"
        BY Zenon, <3>0 DEF LineOK
      <4>. QED  BY Zenon, <3>1, <3>4, <4>1 DEF CloseOK
    <3>10. Beside
      BY Zenon, <3>1, <3>2 DEF Beside, Moves
    <3>. QED  BY Zenon, <3>5, <3>6, <3>7, <3>8, <3>9, <3>10 DEF Rest
  \* A key read with no unpublished writer shows what the jobs before left.
  <2>SeesRight. ASSUME Rest, Others, line.at \in {"callback", "gate"}, NEW k \in Docs, Healthy => unpublished[k] = 0,
                       k \notin DOMAIN line.read, Still, line' = Sees(k)
                PROVE  ReadsWell
    <3>. USE <2>SeesRight
    <3>1. /\ line'.job = line.job /\ line'.at = "callback"
          /\ DOMAIN line'.read = (DOMAIN line.read) \cup {k}
          /\ line'.read = [x \in (DOMAIN line.read) \cup {k} |-> IF x = k THEN mem[k] ELSE line.read[x]]
      BY Zenon, <2>SeesType DEF Rest
    <3>2. ASSUME Healthy PROVE Right' /\ \A x \in DOMAIN line'.read : unpublished[x] = 0
      <4>1. unpublished[k] = 0 /\ Right /\ \A x \in DOMAIN line.read : unpublished[x] = 0
        BY Zenon, <3>2 DEF Rest, ReadsOK
      <4>2. Lists(mem[k], Writers(k, AllJobs) \ {unpublished[k]})
        BY Zenon, <3>2 DEF Others, KeysOK, KeyOK
      <4>3. 0 \notin Writers(k, AllJobs)
        BY DEF Writers
      <4>4. Writers(k, AllJobs) \ {unpublished[k]} = Writers(k, AllJobs)
        BY Zenon, <4>1, <4>3
      <4>5. Lists(mem[k], Writers(k, line.job))
        BY Zenon, <4>2, <4>4, WritersBefore
      <4>6. \A x \in DOMAIN line'.read : Lists(line'.read[x], Writers(x, line.job))
        BY Zenon, <3>1, <4>1, <4>5 DEF Right
      <4>7. \A x, n : Writers(x, n)' = Writers(x, n)
        BY Zenon, StillSame
      <4>8. Right'
        BY Zenon, <3>1, <4>6, <4>7 DEF Right, Lists
      <4>. QED  BY Zenon, <3>1, <4>1, <4>8
    <3>. QED  BY Zenon, <3>1, <3>2 DEF ReadsWell
  <2>. USE DEF Still, writerVars, stateVars
  <2>0. TypeOK /\ LineOK /\ ReadsOK /\ line \in Lines
    BY DEF Rest, TypeOK
  <2>1. ASSUME NEW k \in Docs, touch(k) PROVE Rest' /\ Beside
    <3>0. /\ line.at = "callback" /\ k \notin DOMAIN line.read
          /\ Still /\ UNCHANGED <<jobs, started, stale, outcomeVars, sessionVars>>
      BY Zenon, <2>1 DEF touch, Running
    <3>1. CASE unpublished[k] = 0
      <4>1. line' = Sees(k)
        BY Zenon, <2>1, <3>1 DEF touch
      <4>2. ReadsWell
        BY Zenon, <3>0, <3>1, <4>1, <2>SeesRight
      <4>3. line' \in Lines /\ line'.job = line.job /\ line'.at = "callback"
        BY Zenon, <2>0, <4>1, <2>SeesType
      <4>4. Moves
        BY Zenon, <3>0, <4>3 DEF Moves
      <4>. QED  BY Zenon, <3>0, <4>2, <4>3, <4>4, <2>MovesRest
    <3>2. CASE unpublished[k] # 0
      <4>1. line' = Gated(k)
        BY Zenon, <2>1, <3>2 DEF touch, Gated
      <4>2. /\ line' \in Lines /\ line'.job = line.job /\ line'.at = "gate" /\ line'.key = k
            /\ line'.gate = unpublished[k] /\ line'.read = line.read
        BY Zenon, <2>0, <4>1, <2>LineGates
      <4>3. Moves
        BY Zenon, <3>0, <4>2 DEF Moves
      <4>4. Right' <=> Right
        BY Zenon, <3>0, <4>2, StillSame DEF Right, Lists
      <4>5. ReadsWell
        BY Zenon, <2>0, <4>2, <4>4 DEF ReadsWell, ReadsOK
      <4>. QED  BY Zenon, <3>0, <4>2, <4>3, <4>5, <2>MovesRest
    <3>. QED  BY Zenon, <3>1, <3>2
  <2>2. CASE ~failed /\ EndCallback
    <3>0. /\ line.at = "callback" /\ line' = [line EXCEPT !.at = "settling"] /\ ~failed
          /\ Still /\ UNCHANGED <<jobs, started, stale, outcomeVars, sessionVars>>
      BY Zenon, <2>2 DEF EndCallback, Running
    <3>1. line' \in Lines /\ line'.job = line.job /\ line'.at = "settling" /\ line'.read = line.read
      BY Zenon, <2>0, <3>0, LineGoes
    <3>2. Moves
      BY Zenon, <3>0, <3>1 DEF Moves
    <3>3. Right' <=> Right
      BY Zenon, <3>0, <3>1, StillSame DEF Right, Lists
    <3>4. ReadsWell
      BY Zenon, <2>0, <3>0, <3>1, <3>3 DEF ReadsWell, ReadsOK, Healthy
    <3>. QED  BY Zenon, <3>0, <3>1, <3>2, <3>4, <2>MovesRest
  <2>3. CASE ~failed /\ PassGate
    <3>0. /\ line.at = "gate" /\ line.gate \in open /\ line' = Sees(line.key)
          /\ Still /\ UNCHANGED <<jobs, started, stale, outcomeVars, sessionVars>>
      BY Zenon, <2>3 DEF PassGate, Running
    <3>1. line.key \in Docs /\ line.key \notin DOMAIN line.read
      BY Zenon, <2>0, <3>0 DEF LineOK
    <3>2. ASSUME Healthy, unpublished[line.key] # 0 PROVE FALSE
      <4>1. unpublished[line.key] = line.gate
        BY Zenon, <2>0, <3>0, <3>2 DEF ReadsOK
      <4>2. unpublished[line.key] \in Waiting
        BY Zenon, <3>1, <3>2 DEF Others, KeysOK, KeyOK
      <4>. QED  BY Zenon, <3>0, <4>1, <4>2 DEF Others, FlightOK
    <3>3. ReadsWell
      BY Zenon, <3>0, <3>1, <3>2, <2>SeesRight
    <3>4. line' \in Lines /\ line'.job = line.job /\ line'.at = "callback"
      BY Zenon, <2>0, <3>0, <3>1, <2>SeesType
    <3>5. Moves
      BY Zenon, <3>0, <3>4 DEF Moves
    <3>. QED  BY Zenon, <3>0, <3>3, <3>4, <3>5, <2>MovesRest
  <2>. QED  BY Zenon, <2>1, <2>2, <2>3
\* Upkeep with nothing to store, and the end of close
<1>UpkeepRest. ASSUME Rest, UpkeepGoes \/ Closes
               PROVE  Rest' /\ Beside
  <2>. USE <1>UpkeepRest
  <2>0. TypeOK /\ LineOK /\ ReadsOK /\ TellsOK /\ CloseOK
    BY Zenon DEF Rest
  <2>1. /\ UNCHANGED <<part, queue, call, unpublished, open, mem, holds, pending, disk, log>>
        /\ UNCHANGED <<jobs, started, stale, outcome, told, early, lastDelivered, failAt, ownOutcomes, fired>>
        /\ line.at \in {"barrier", "stored", "closing"}
    BY Zenon DEF UpkeepGoes, Closes, Still, outcomeVars
  <2>2. /\ (failed' <=> failed) /\ (Healthy' <=> Healthy) /\ (\A i : HasPart(i)' <=> HasPart(i))
        /\ \A i : Poisoned(i)' <=> Poisoned(i)
    BY Zenon, <2>1 DEF failed, Healthy, HasPart, Poisoned
  <2>3. line.job \in Jobs /\ line.job = started /\ started \in DOMAIN jobs /\ jobs[started] \in Upkeep
    <3>1. line.at # "free"
      BY Zenon, <2>1
    <3>. QED  BY Zenon, <2>0, <2>1, <3>1, OnLine DEF LineOK
  <2>4. /\ line' \in Lines /\ DOMAIN line'.read = {}
        /\ \/ line'.at = "free" /\ line'.job = 0
           \/ /\ line'.at = "closing" /\ line'.job = line.job /\ jobs[started] = "close" /\ closing' = closing
              /\ (failed \/ (holds = {} /\ \A j \in Jobs : HasPart(j) => j \in open))
    <3>1. DOMAIN line.read = {}
      BY Zenon, <2>0, <2>1 DEF LineOK
    <3>2. CASE line' = Free
      BY Zenon, <3>2, FreeType
    <3>3. CASE UpkeepGoes /\ line' = [line EXCEPT !.at = "closing"] /\ jobs[line.job] = "close"
      <4>1. line' \in Lines /\ line'.job = line.job /\ line'.at = "closing" /\ line'.read = line.read
        BY Zenon, <2>0, <3>3, LineGoes
      <4>. QED  BY Zenon, <2>3, <3>1, <3>3, <4>1 DEF UpkeepGoes
    <3>. QED  BY Zenon, <3>2, <3>3 DEF UpkeepGoes, Closes
  <2>5. closing # "closed" /\ closing' \in {"open", "sealed", "closed"} /\ (closing # "open" => closing' # "open")
        /\ (closing' = "closed" => Closes)
    <3>1. closing # "closed"
      BY Zenon, <2>0, <2>1 DEF LineOK
    <3>. QED  BY Zenon, <2>0, <3>1 DEF TypeOK, UpkeepGoes, Closes
  <2>6. TypeOK'
    BY Zenon, <2>0, <2>1, <2>4, <2>5 DEF TypeOK
  <2>7. LineOK'
    <3>1. JobsOK'
      BY Zenon, <2>0, <2>1, <2>5 DEF LineOK, JobsOK
    <3>2. closing' = "closed" => line'.at = "free" /\ started = Len(jobs) /\ call.at = "none"
                                 /\ started # 0 /\ jobs[started] = "close"
      <4>1. ASSUME Closes PROVE line'.at = "free" /\ call.at = "none" /\ jobs[started] = "close"
        BY Zenon, <2>0, <4>1, FreeType DEF Closes, LineOK
      <4>2. jobs[started] = "close" => started = Len(jobs)
        BY Zenon, <2>0, <2>3 DEF LineOK, JobsOK
      <4>3. started # 0
        BY Zenon, <2>3, JobNumbers
      <4>. QED  BY Zenon, <2>5, <4>1, <4>2, <4>3
    <3>3. \A i \in Jobs : HasPart(i) \/ outcome[i] # "none" => i <= started /\ (i = line'.job => line'.at = "closing")
      BY Zenon, <2>0, <2>4, JobNumbers DEF LineOK
    <3>4. /\ line'.at = "free" <=> line'.job = 0
          /\ line'.at # "free" => line'.job = started /\ line'.at = "closing" /\ jobs[started] = "close"
      BY Zenon, <2>3, <2>4, JobNumbers
    <3>. QED  BY Zenon, <2>1, <2>2, <2>3, <2>4, <3>1, <3>2, <3>3, <3>4 DEF LineOK
  <2>8. ReadsOK'
    <3>1. Right'
      BY Zenon, <2>4 DEF Right
    <3>2. \A i \in stale : i # line'.job
      BY Zenon, <2>0, <2>4, JobNumbers DEF ReadsOK, TypeOK
    <3>. QED  BY Zenon, <2>0, <2>1, <2>2, <2>4, <3>1, <3>2 DEF ReadsOK
  <2>9. TellsOK'
    <3>1. \A i \in early : i # line'.job
      <4>1. \A i \in early : i \in Jobs /\ i # line.job
        BY Zenon, <2>0 DEF TellsOK, TypeOK
      <4>. QED  BY Zenon, <2>4, <4>1, JobNumbers
    <3>. QED  BY Zenon, <2>0, <2>1, <2>2, <3>1 DEF TellsOK, Own
  <2>10. CloseOK'
    <3>1. ~failed /\ closing' = "closed" => holds = {}
      BY Zenon, <2>0, <2>5 DEF CloseOK, Closes
    <3>. QED  BY Zenon, <2>1, <2>2, <2>4, <3>1 DEF CloseOK
  <2>11. Beside
    BY Zenon, <2>1, <2>2 DEF Beside, Still
  <2>. QED  BY Zenon, <2>6, <2>7, <2>8, <2>9, <2>10, <2>11 DEF Rest
\* ... as steps of the model
<1>UpkeepSteps. ASSUME Rest, Others, HoldsStored \/ Closed
                PROVE  Rest' /\ Beside
  <2>. USE <1>UpkeepSteps
  <2>. USE DEF Still, writerVars, stateVars, sessionVars
  <2>1. CASE Closed
    <3>1. Closes
      BY Zenon, <2>1 DEF Closed, Closes, Running
    <3>. QED  BY Zenon, <3>1, <1>UpkeepRest
  <2>2. CASE HoldsStored
    <3>1. line.at = "stored" /\ outcome[line.job] # "none"
      BY Zenon, <2>2 DEF HoldsStored, Running
    <3>2. ASSUME ~failed PROVE holds = {} /\ \A j \in Jobs : HasPart(j) => j \in open
      <4>1. holds = {} /\ \A j \in Jobs : HasPart(j) /\ j # line.job => j \in open
        BY Zenon, <3>1, <3>2 DEF Rest, CloseOK
      <4>2. \A j \in Jobs : HasPart(j) /\ j = line.job => j \in open
        BY Zenon, <3>1, SettledIsOpen DEF Rest, Others
      <4>. QED  BY Zenon, <4>1, <4>2
    <3>3. UpkeepGoes
      BY Zenon, <2>2, <3>2 DEF HoldsStored, UpkeepGoes, Running
    <3>. QED  BY Zenon, <3>3, <1>UpkeepRest
  <2>. QED  BY Zenon, <2>1, <2>2
\* The next job starts when the line is free.
<1>StartJobRest. ASSUME Rest, Others, StartJob
                 PROVE  Rest' /\ Beside
  <2>. USE <1>StartJobRest
  \* What the line is when a job starts
  <2>JobStarts. ASSUME NEW i \in Jobs, NEW a \in {"callback", "barrier"}
                PROVE  Begun(i, a) \in Lines /\ Begun(i, a).job = i /\ Begun(i, a).at = a /\ DOMAIN Begun(i, a).read = {}
    <3>. USE <2>JobStarts
    <3>1. i \in 0..(MaxJobs + 1)
      BY DEF Jobs
    <3>2. Free \in Lines
      BY FreeType
    <3>3. Begun(i, a) \in Lines
      BY Zenon, <3>1, <3>2 DEF Lines, Begun
    <3>4. Begun(i, a).job = i /\ Begun(i, a).at = a /\ Begun(i, a).read = Free.read
      BY Zenon, <3>1, <3>2 DEF Lines, Begun
    <3>. QED  BY <3>3, <3>4, FreeType
  <2>StartIsNew. ASSUME TypeOK, LineOK, TellsOK, NEW i, i = started + 1, i <= Len(jobs)
                 PROVE  /\ i \in Jobs /\ started < i /\ i \in DOMAIN jobs /\ ~HasPart(i) /\ outcome[i] = "none" /\ told[i] = "none"
                        /\ closing # "closed"
                        /\ \A j \in Jobs : j <= started => j <= i /\ j # i
    <3>. USE <2>StartIsNew
    <3>1. i \in Jobs /\ started < i /\ i \in DOMAIN jobs
      <4>1. jobs \in Seq(Kinds) /\ started \in 0..Len(jobs)
        BY DEF TypeOK
      <4>2. Len(jobs) <= MaxJobs \/ Len(jobs) = MaxJobs + 1
        BY Zenon DEF LineOK, JobsOK
      <4>. QED  BY <4>1, <4>2, JobNumbers
    <3>2. ~(i <= started) /\ started # Len(jobs) /\ \A j \in Jobs : j <= started => j <= i /\ j # i
      BY <3>1, JobNumbers DEF TypeOK
    <3>3. ~HasPart(i) /\ outcome[i] = "none"
      BY Zenon, <3>1, <3>2 DEF LineOK
    <3>4. told[i] = "none"
      BY Zenon, <3>1, <3>3 DEF TellsOK
    <3>5. closing # "closed"
      BY Zenon, <3>2 DEF LineOK
    <3>. QED  BY Zenon, <3>1, <3>2, <3>3, <3>4, <3>5
  <2>StartsRest. ASSUME Rest, Others, NEW i, Starts(i)
                 PROVE  Rest' /\ Beside
    <3>. USE <2>StartsRest
    <3>0. TypeOK /\ LineOK /\ ReadsOK /\ TellsOK /\ CloseOK /\ CallOK /\ FlightOK /\ LogOK
      BY Zenon DEF Rest, Others
    <3>1. /\ UNCHANGED <<part, queue, call, unpublished, open, mem, holds, pending, disk, log>>
          /\ UNCHANGED <<jobs, stale, told, lastDelivered, failAt, ownOutcomes, closing>>
          /\ line.at = "free" /\ i = started + 1 /\ i <= Len(jobs) /\ started' = i
      BY Zenon DEF Starts, Still
    <3>2. /\ (failed' <=> failed) /\ (Healthy' <=> Healthy) /\ (\A j : HasPart(j)' <=> HasPart(j))
          /\ \A j : Poisoned(j)' <=> Poisoned(j)
      BY Zenon, <3>1 DEF failed, Healthy, HasPart, Poisoned
    <3>3. /\ i \in Jobs /\ started < i /\ i \in DOMAIN jobs /\ ~HasPart(i) /\ outcome[i] = "none" /\ told[i] = "none"
          /\ closing # "closed"
          /\ \A j \in Jobs : j <= started => j <= i /\ j # i
      BY Zenon, <3>0, <3>1, <2>StartIsNew
    <3>4. i <= i /\ i # 0
      BY <3>3, JobNumbers
    <3>5. /\ line' \in Lines /\ DOMAIN line'.read = {}
          /\ \/ line'.at = "free" /\ line'.job = 0
             \/ line'.at = "callback" /\ line'.job = i /\ jobs[i] \notin Upkeep /\ outcome' = outcome /\ early' = early
             \/ line'.at = "barrier" /\ line'.job = i /\ jobs[i] \in Upkeep /\ outcome' = outcome /\ early' = early
      <4>1. CASE line' = Free
        BY Zenon, <4>1, FreeType
      <4>2. CASE line' = Begun(i, "callback") /\ jobs[i] \notin Upkeep /\ outcome' = outcome /\ early' = early
        BY Zenon, <3>3, <4>2, <2>JobStarts
      <4>3. CASE line' = Begun(i, "barrier") /\ jobs[i] \in Upkeep /\ outcome' = outcome /\ early' = early
        BY Zenon, <3>3, <4>3, <2>JobStarts
      <4>. QED  BY Zenon, <4>1, <4>2, <4>3 DEF Starts
    <3>6. \A j \in Jobs : j # i => outcome'[j] = outcome[j]
      BY Zenon DEF Starts
    <3>7. outcome'[i] # "ok" /\ \A j \in Jobs : HasPart(j) => outcome'[j] = outcome[j]
      <4>1. outcome'[i] # "ok"
        BY Zenon, <3>3 DEF Starts
      <4>. QED  BY Zenon, <3>3, <3>6, <4>1
    <3>8. TypeOK'
      <4>1. started' \in 0..Len(jobs')
        BY <3>0, <3>1 DEF TypeOK
      <4>2. early' \in SUBSET Jobs
        BY Zenon, <3>0, <3>3 DEF TypeOK, Starts
      <4>3. outcome' \in [Jobs -> Outcomes] /\ fired' \in BOOLEAN
        BY Zenon DEF Starts
      <4>. QED  BY Zenon, <3>0, <3>1, <3>5, <4>1, <4>2, <4>3 DEF TypeOK
    <3>9. LineOK'
      <4>1. JobsOK'
        BY Zenon, <3>0, <3>1 DEF LineOK, JobsOK
      <4>2. \A j \in Jobs : HasPart(j) \/ outcome'[j] # "none" => j <= i /\ j # line'.job
        <5>1. \A j \in Jobs : HasPart(j) \/ outcome[j] # "none" => j <= started
          BY Zenon, <3>0 DEF LineOK
        <5>2. CASE line'.job = 0
          <6>1. \A j \in Jobs : HasPart(j) \/ outcome'[j] # "none" => j = i \/ j <= started
            BY Zenon, <3>6, <5>1
          <6>. QED  BY Zenon, <3>3, <3>4, <5>2, <6>1, JobNumbers
        <5>3. CASE line'.job = i /\ outcome' = outcome
          BY Zenon, <3>3, <5>1, <5>3
        <5>. QED  BY Zenon, <3>5, <5>2, <5>3
      <4>3. line'.at = "free" <=> line'.job = 0
        BY Zenon, <3>4, <3>5
      <4>. QED  BY Zenon, <3>1, <3>2, <3>3, <3>5, <4>1, <4>2, <4>3 DEF LineOK
    <3>10. ReadsOK'
      <4>1. Right'
        BY Zenon, <3>5 DEF Right
      <4>2. ASSUME NEW j \in stale
            PROVE  /\ ~Healthy /\ j <= i /\ j # line'.job
                   /\ j \notin Range(log) /\ j \notin Range(call.parts)
                   /\ j \in Range(queue) => failed
                   /\ outcome'[j] = "ok" => Poisoned(j)
                   /\ told[j] # "ok"
        <5>1. j \in Jobs /\ j <= started
          BY Zenon, <3>0 DEF ReadsOK, TypeOK
        <5>2. j <= i /\ j # i /\ j # 0
          BY Zenon, <3>3, <5>1, JobNumbers
        <5>3. outcome'[j] = outcome[j] /\ j # line'.job
          BY Zenon, <3>5, <3>6, <5>1, <5>2
        <5>. QED  BY Zenon, <3>0, <5>2, <5>3 DEF ReadsOK
      <4>. QED  BY Zenon, <3>1, <3>2, <3>5, <4>1, <4>2 DEF ReadsOK
    <3>11. TellsOK'
      <4>1. \A j \in early' : ~HasPart(j) /\ j <= i /\ j # line'.job
        <5>1. \A j \in early : j \in Jobs /\ ~HasPart(j) /\ j <= started
          BY Zenon, <3>0 DEF TellsOK, TypeOK
        <5>2. \A j \in early : ~HasPart(j) /\ j <= i /\ j # i /\ j # 0
          BY Zenon, <3>3, <5>1, JobNumbers
        <5>3. early' \subseteq early \cup {i}
          BY Zenon DEF Starts
        <5>. QED  BY Zenon, <3>3, <3>4, <3>5, <5>2, <5>3
      <4>2. \A j \in ownOutcomes : failed /\ outcome'[j] = "err" /\ HasPart(j)
        <5>1. \A j \in ownOutcomes : failed /\ outcome[j] = "err" /\ HasPart(j) /\ j \in Jobs
          BY Zenon, <3>0 DEF TellsOK, TypeOK
        <5>. QED  BY Zenon, <3>7, <5>1
      <4>3. \A j \in Jobs : HasPart(j) /\ outcome'[j] = "ok" =>
              /\ \A k \in Own(j, part[j]) : j \in Range(mem[k])
              /\ part[j].stored => j \in Range(log)
              /\ \A m \in 1..(j - 1) : HasPart(m) => outcome'[m] = "ok"
        <5>1. \A j \in Jobs : \A m \in 1..(j - 1) : m \in Jobs
          BY JobNumbers
        <5>. QED  BY Zenon, <3>0, <3>7, <5>1 DEF TellsOK
      <4>4. \A j \in Jobs : told[j] # "none" => told[j] = outcome'[j] \/ (told[j] = "failed" /\ outcome'[j] # "none" /\ Poisoned(j))
        <5>1. \A j \in Jobs : told[j] # "none" => outcome'[j] = outcome[j]
          BY Zenon, <3>3, <3>6
        <5>. QED  BY Zenon, <3>0, <5>1 DEF TellsOK
      <4>5. \A j \in Jobs : told[j] = "ok" /\ HasPart(j) =>
              \A m \in 1..(j - 1) : HasPart(m) /\ jobs[m] \notin Upkeep => told[m] = "ok"
        BY Zenon, <3>0 DEF TellsOK
      <4>. QED  BY Zenon, <3>1, <3>2, <4>1, <4>2, <4>3, <4>4, <4>5 DEF TellsOK, Own
    <3>12. CloseOK'
      BY Zenon, <3>1, <3>3, <3>5 DEF CloseOK
    <3>13. Beside
      BY Zenon, <3>2, <3>7 DEF Beside, Starts
    <3>. QED  BY Zenon, <3>8, <3>9, <3>10, <3>11, <3>12, <3>13 DEF Rest
  <2>. DEFINE i == started + 1
  <2>0. TypeOK /\ LineOK /\ TellsOK
    BY Zenon DEF Rest
  <2>1. /\ line.at = "free" /\ started < Len(jobs) /\ started' = i
        /\ \/ /\ jobs[i] \notin Upkeep
              /\ IF failed THEN line' = Free /\ outcome' = Settle({i}, "failed") /\ Unfenced(i, FALSE)
                 ELSE line' = Begun(i, "callback") /\ UNCHANGED <<outcome, early>>
              /\ UNCHANGED fired
           \/ /\ jobs[i] \in Upkeep
              /\ line' = IF jobs[i] = "store" /\ closing # "open" THEN Free ELSE Begun(i, "barrier")
              /\ fired' = (fired /\ jobs[i] # "store")
              /\ UNCHANGED <<outcome, early>>
        /\ UNCHANGED <<jobs, stale, writerVars, stateVars, told, lastDelivered, failAt, ownOutcomes, closing>>
    BY Zenon DEF StartJob, Running, Begun
  <2>2. i \in Jobs /\ i <= Len(jobs) /\ outcome[i] = "none"
    <3>1. i <= Len(jobs)
      BY <2>0, <2>1 DEF TypeOK
    <3>. QED  BY Zenon, <2>0, <3>1, <2>StartIsNew
  <2>. HIDE DEF i
  <2>3. outcome \in [Jobs -> Outcomes] /\ fired \in BOOLEAN /\ "failed" \in Outcomes
    BY <2>0 DEF TypeOK, Outcomes
  <2>4. Still /\ UNCHANGED <<jobs, stale, told, lastDelivered, failAt, ownOutcomes, closing>>
        /\ line.at = "free" /\ i = started + 1 /\ i <= Len(jobs) /\ started' = i /\ fired' \in BOOLEAN
    BY Zenon, <2>1, <2>2, <2>3 DEF Still, writerVars, stateVars, i
  <2>5. CASE jobs[i] \notin Upkeep /\ failed
    <3>1. line' = Free /\ outcome' = Settle({i}, "failed") /\ Unfenced(i, FALSE)
      BY Zenon, <2>1, <2>5
    <3>2. outcome' \in [Jobs -> Outcomes] /\ \A j \in Jobs : outcome'[j] = IF j \in {i} THEN "failed" ELSE outcome[j]
      <4>1. Settle({i}, "failed") \in [Jobs -> Outcomes]
            /\ \A j \in Jobs : Settle({i}, "failed")[j] = IF j \in {i} THEN "failed" ELSE outcome[j]
        BY <2>0, <2>3, SettleType
      <4>. QED  BY Zenon, <3>1, <4>1
    <3>3. early' \subseteq early \cup {i}
      BY Zenon, <3>1 DEF Unfenced
    <3>4. Starts(i)
      BY Zenon, <2>2, <2>4, <3>1, <3>2, <3>3 DEF Starts
    <3>. QED  BY Zenon, <3>4, <2>StartsRest
  <2>6. CASE ~(jobs[i] \notin Upkeep /\ failed)
    <3>1. Starts(i)
      BY Zenon, <2>1, <2>3, <2>4, <2>6 DEF Starts
    <3>. QED  BY Zenon, <3>1, <2>StartsRest
  <2>. QED  BY Zenon, <2>5, <2>6
\* A storage call that rejects shows only when the writer sees it.
<1>CallRejectsRest. ASSUME Rest, Others, CallRejects
                    PROVE  Rest' /\ Beside
  <2>. USE <1>CallRejectsRest
  <2>0. TypeOK /\ LineOK /\ ReadsOK /\ TellsOK /\ CloseOK
    BY Zenon DEF Rest
  <2>. DEFINE at == IF line.job # 0 THEN line.job ELSE lastDelivered
  <2>1. ~failed /\ closing # "closed" /\ call.at # "failing" /\ fail(at, {})
        /\ UNCHANGED <<lineVars, writerVars, stateVars, outcomeVars, fired>>
    BY Zenon DEF CallRejects
  <2>2. UNCHANGED <<part, queue, call, unpublished, open, mem, holds, pending, disk, log>>
        /\ UNCHANGED <<jobs, started, line, stale, outcome, told, early, lastDelivered, fired>>
    BY Zenon, <2>1 DEF lineVars, writerVars, stateVars, outcomeVars
  <2>3. at \in 0..(MaxJobs + 1) /\ {} \in SUBSET Jobs
    BY <2>0, LineType DEF TypeOK
  <2>. HIDE DEF at
  <2>4. /\ failAt' \in 0..(MaxJobs + 2) /\ ownOutcomes' = {} /\ closing' \in {"open", "sealed", "closed"}
        /\ failed' /\ (closing' = closing \/ (closing = "open" /\ closing' = "sealed"))
    BY Zenon, <2>0, <2>1, <2>3, FailType
  <2>5. Healthy /\ ~Healthy'
    BY Zenon, <2>1, <2>4 DEF Healthy
  <2>6. Right /\ stale = {} /\ Right'
    <3>1. Right /\ stale = {}
      BY Zenon, <2>0, <2>5 DEF ReadsOK
    <3>. QED  BY Zenon, <2>2, <3>1 DEF Right, Writers, Own, Lists
  <2>7. \A i : HasPart(i)' <=> HasPart(i)
    BY Zenon, <2>2 DEF HasPart
  <2>8. TypeOK'
    <3>1. ownOutcomes' \in SUBSET Jobs
      BY Zenon, <2>3, <2>4
    <3>. QED  BY Zenon, <2>0, <2>2, <2>4, <3>1 DEF TypeOK
  <2>9. LineOK'
    <3>1. JobsOK'
      BY Zenon, <2>0, <2>2, <2>4 DEF LineOK, JobsOK
    <3>. QED  BY Zenon, <2>0, <2>1, <2>2, <2>4, <2>7, <3>1 DEF LineOK
  <2>10. ReadsOK'
    BY Zenon, <2>2, <2>5, <2>6 DEF ReadsOK
  <2>11. TellsOK'
    <3>1. \A i \in Jobs : told[i] # "none" => told[i] = outcome[i]
      BY Zenon, <2>0, <2>1 DEF TellsOK, Poisoned
    <3>. QED  BY Zenon, <2>0, <2>2, <2>4, <2>7, <3>1 DEF TellsOK, Own
  <2>12. CloseOK'
    BY Zenon, <2>4 DEF CloseOK
  <2>13. Beside
    BY Zenon, <2>2, <2>4 DEF Beside, Still
  <2>. QED  BY Zenon, <2>8, <2>9, <2>10, <2>11, <2>12, <2>13 DEF Rest
\* What the code computes when it delivers, and what the invariant says of it
<1>PoisonedIs. ASSUME TypeOK, NEW i \in Jobs
               PROVE  poisoned(i) <=> Poisoned(i)
  <2>. USE <1>PoisonedIs
  <2>1. failAt \in 0..(MaxJobs + 2)
    BY DEF TypeOK
  <2>2. i > failAt <=> failed /\ failAt < i
    BY <2>1, JobNumbers DEF failed
  <2>. QED  BY Zenon, <2>2 DEF poisoned, Poisoned
\* A caller is told what became of its job.
<1>DeliverRest. ASSUME Rest, Others, NEW i \in Jobs, Deliver(i)
                PROVE  Rest' /\ Beside
  <2>. USE <1>DeliverRest
  <2>0. TypeOK /\ LineOK /\ ReadsOK /\ TellsOK /\ CloseOK
    BY Zenon DEF Rest
  <2>1. /\ UNCHANGED <<part, queue, call, unpublished, open, mem, holds, pending, disk, log>>
        /\ UNCHANGED <<jobs, started, line, stale, outcome, early, failAt, ownOutcomes, closing, fired>>
        /\ i <= started /\ jobs[i] \notin Upkeep /\ outcome[i] # "none" /\ told[i] = "none"
        /\ i \in early \/ \A j \in 1..(i - 1) : jobs[j] \in Upkeep \/ told[j] # "none"
        /\ told' = [told EXCEPT ![i] = IF poisoned(i) THEN "failed" ELSE outcome[i]]
        /\ lastDelivered' \in {lastDelivered, i}
    BY Zenon DEF Deliver, lineVars, writerVars, stateVars, sessionVars
  <2>2. /\ (failed' <=> failed) /\ (Healthy' <=> Healthy) /\ (\A j : HasPart(j)' <=> HasPart(j))
        /\ \A j : Poisoned(j)' <=> Poisoned(j)
    BY Zenon, <2>1 DEF failed, Healthy, HasPart, Poisoned
  <2>3. /\ told' \in [Jobs -> Outcomes] /\ \A j \in Jobs : j # i => told'[j] = told[j]
        /\ told'[i] = IF Poisoned(i) THEN "failed" ELSE outcome[i]
    <3>1. told \in [Jobs -> Outcomes] /\ outcome[i] \in Outcomes /\ "failed" \in Outcomes
      BY <2>0 DEF TypeOK, Outcomes
    <3>2. poisoned(i) <=> Poisoned(i)
      BY Zenon, <2>0, <1>PoisonedIs
    <3>. QED  BY Zenon, <2>1, <3>1, <3>2
  <2>4. TypeOK'
    <3>1. lastDelivered' \in 0..(MaxJobs + 1)
      BY <2>0, <2>1, JobNumbers DEF TypeOK
    <3>. QED  BY Zenon, <2>0, <2>1, <2>3, <3>1 DEF TypeOK
  <2>5. LineOK'
    BY Zenon, <2>0, <2>1, <2>2 DEF LineOK, JobsOK
  <2>6. ReadsOK'
    <3>1. \A j \in stale : told'[j] # "ok"
      BY Zenon, <2>0, <2>3 DEF ReadsOK, TypeOK
    <3>2. Right' <=> Right
      <4>1. Still
        BY Zenon, <2>1 DEF Still
      <4>. QED  BY Zenon, <2>1, <4>1, StillSame DEF Right, Lists
    <3>. QED  BY Zenon, <2>0, <2>1, <2>2, <3>1, <3>2 DEF ReadsOK
  <2>7. TellsOK'
    <3>1. \A j \in Jobs : told'[j] # "none" => told'[j] = outcome[j] \/ (told'[j] = "failed" /\ outcome[j] # "none" /\ Poisoned(j))
      BY Zenon, <2>0, <2>1, <2>3 DEF TellsOK
    <3>2. ASSUME NEW m \in Jobs, told'[m] = "ok", HasPart(m), NEW j \in 1..(m - 1), HasPart(j), jobs[j] \notin Upkeep
          PROVE  told'[j] = "ok"
      <4>0. j \in Jobs /\ j < m
        BY JobNumbers
      <4>1. CASE m # i
        <5>1. told[j] = "ok"
          BY Zenon, <2>0, <2>3, <3>2, <4>1 DEF TellsOK
        <5>. QED  BY Zenon, <2>1, <2>3, <4>0, <5>1
      <4>2. CASE m = i
        <5>1. outcome[i] = "ok" /\ ~Poisoned(i) /\ i \notin early
          BY Zenon, <2>0, <2>1, <2>3, <3>2, <4>2 DEF TellsOK
        <5>2. outcome[j] = "ok" /\ told[j] # "none"
          BY Zenon, <2>0, <2>1, <3>2, <4>2, <5>1 DEF TellsOK
        <5>3. j # i
          BY <4>0, <4>2, JobNumbers
        <5>4. ASSUME Poisoned(j) PROVE FALSE
          <6>1. failed /\ failAt < j
            BY Zenon, <5>4 DEF Poisoned
          <6>2. i \notin ownOutcomes
            BY Zenon, <2>0, <5>1 DEF TellsOK
          <6>3. failAt < i
            BY <2>0, <4>0, <4>2, <6>1, JobNumbers DEF TypeOK
          <6>. QED  BY Zenon, <5>1, <6>1, <6>2, <6>3 DEF Poisoned
        <5>5. told[j] = "ok"
          BY Zenon, <2>0, <4>0, <5>2, <5>4 DEF TellsOK
        <5>. QED  BY Zenon, <2>3, <4>0, <5>3, <5>5
      <4>. QED  BY Zenon, <4>1, <4>2
    <3>3. /\ \A j \in early : ~HasPart(j) /\ j <= started /\ j # line.job
          /\ \A j \in ownOutcomes : failed /\ outcome[j] = "err" /\ HasPart(j)
          /\ \A m \in Jobs : HasPart(m) /\ outcome[m] = "ok" =>
               /\ \A k \in Own(m, part[m]) : m \in Range(mem[k])
               /\ part[m].stored => m \in Range(log)
               /\ \A j \in 1..(m - 1) : HasPart(j) => outcome[j] = "ok"
      BY Zenon, <2>0 DEF TellsOK
    <3>. QED  BY Zenon, <2>1, <2>2, <3>1, <3>2, <3>3 DEF TellsOK, Own
  <2>8. CloseOK'
    BY Zenon, <2>0, <2>1, <2>2 DEF CloseOK
  <2>9. Beside
    BY Zenon, <2>1, <2>2 DEF Beside, Still
  <2>. QED  BY Zenon, <2>4, <2>5, <2>6, <2>7, <2>8, <2>9 DEF Rest
<1>0. Rest /\ Others
  BY Zenon DEF IInv, Rest, Others
<1>1. CASE (\E kind \in Kinds \ Upkeep : enqueue(kind)) \/ HoldTimer \/ close \/ EnqueueClose
  BY Zenon, <1>0, <1>1, <1>JoinsKeep, BesideKeeps DEF IInv, Rest, Others
<1>2. CASE ~((\E kind \in Kinds \ Upkeep : enqueue(kind)) \/ HoldTimer \/ close \/ EnqueueClose)
  <2>1. Rest' /\ Beside
    BY Zenon, <1>0, <1>2, <1>StartJobRest, <1>ThrownRest, <1>CallbackRest, <1>UpkeepSteps, <1>UpkeepRest,
       <1>CallRejectsRest, <1>DeliverRest DEF BesideStep
  <2>. QED  BY Zenon, <1>0, <2>1, BesideKeeps DEF IInv, Rest, Others
<1>. QED  BY Zenon, <1>1, <1>2

-----------------------------------------------------------------------------
(* Admission *)

\* Part p of the job on the line is admitted.
Admits(p) ==
    /\ line.at \in {"settling", "barrier"} /\ (line.at = "settling" => call.at # "failing")
    /\ p \in Parts /\ p # NoPart /\ p.taken \subseteq DOMAIN p.delta
    /\ admit(line.job, p)
    /\ UNCHANGED <<jobs, started, mem, holds, disk, log, told, early, lastDelivered, sessionVars>>
    /\ pending' \in [Docs -> Seq(Jobs)]
    /\ \/ line.at = "settling" /\ line' = Free
       \/ /\ line.at = "barrier" /\ line' = [line EXCEPT !.at = "stored"]
          /\ ~failed => p.stored /\ holds \subseteq p.taken /\ \A j \in Jobs : HasPart(j) => j \in open
    /\ stale' = IF Right THEN stale ELSE stale \cup {line.job}

\* What p writes of key k comes behind what is on disk and held of it.
Fits(k, p) ==
    /\ k \in DOMAIN p.delta =>
         /\ unpublished[k] = 0
         /\ p.delta[k] \in IF p.stored THEN {pending[k], pending[k] \o <<line.job>>} ELSE {<<line.job>>}
    /\ pending'[k] = IF p.stored /\ k \in DOMAIN p.delta THEN <<>> ELSE pending[k]
    /\ k \in p.basis \ DOMAIN p.delta => unpublished[k] = 0 /\ pending[k] = <<>>

\* Where the part goes
Queued(i)     == queue' = Append(queue, i) /\ call' = call /\ open' = open /\ outcome' = outcome
Dropped1(i)   == /\ failed /\ queue' = queue /\ call' = call /\ open' = open \cup {i}
                 /\ outcome' = Settle({i}, "failed")
SentAlone(i)  == /\ ~failed /\ call.at = "none" /\ call' = Sent(<<i>>) /\ queue' = queue /\ open' = open /\ outcome' = outcome
Registered(i, p) == unpublished' = [k \in Docs |-> IF k \in DOMAIN p.delta THEN i ELSE unpublished[k]]

\* Where the admitted part goes: behind the parts in the queue, nowhere in a Session that has
\* failed, or into a call of its own.
Queues(p) ==
    /\ call.at # "none" /\ Queued(line.job) /\ Registered(line.job, p)
    /\ Range(queue') = Range(queue) \cup {line.job}
    /\ Flight' = Flight \cup {line.job} /\ Waiting' = Waiting \cup {line.job}

Drops(p) ==
    /\ call.at = "none" /\ failed /\ unpublished' = Unregister({line.job})
    /\ queue' = queue /\ call' = call /\ call = NoCall /\ queue = <<>>
    /\ open' = open \cup {line.job} /\ outcome' = Settle({line.job}, "failed")
    /\ Flight = {} /\ Flight' = {} /\ Waiting = {} /\ Waiting' = {}

Sends(p) ==
    /\ call.at = "none" /\ ~failed /\ Registered(line.job, p)
    /\ queue' = queue /\ call = NoCall /\ queue = <<>> /\ call' \in Calls /\ call'.parts = <<line.job>>
    /\ call'.durable = 0 /\ call'.received = 0 /\ call'.result = "ok" /\ call'.next = 1 /\ call'.why = "none"
    /\ call'.at \in {"storing", "publishing"} /\ (call'.at = "storing" <=> p.stored)
    /\ open' = open /\ outcome' = outcome
    /\ Flight = {} /\ Flight' = {line.job} /\ Waiting = {} /\ Waiting' = {line.job}

\* Without a call nothing is on its way.
LEMMA NothingInFlight ==
    ASSUME CallOK, call.at = "none"
    PROVE  call = NoCall /\ queue = <<>> /\ Flight = {} /\ Waiting = {} /\ Batches = {}
<1>1. call = NoCall /\ queue = <<>> /\ call.parts = <<>>
  BY Zenon, NoCallType DEF CallOK
<1>2. Range(<<>>) = {} /\ DOMAIN <<>> = {}
  BY NothingListed
<1>3. {m \in DOMAIN call.parts : m >= call.next /\ ~(m = call.next /\ call.why = "observer")} = {}
  BY <1>1, <1>2
<1>4. Flight = {} /\ Batches = {}
  BY <1>1, <1>2 DEF Flight, Batches
<1>5. Waiting = {}
  BY Zenon, <1>1, <1>2, <1>3 DEF Waiting
<1>. QED  BY Zenon, <1>1, <1>4, <1>5

\* When no writer is behind job n, the writers up to it are all.
LEMMA WritersUpTo ==
    ASSUME NEW k, NEW n \in Jobs, \A j \in Writers(k, AllJobs) : j <= n
    PROVE  Writers(k, n + 1) = Writers(k, AllJobs)
<1>1. \A j : j \in 1..((n + 1) - 1) <=> j \in 1..(AllJobs - 1) /\ j <= n
  BY JobNumbers
<1>. QED  BY Zenon, <1>1 DEF Writers

\* What the new part changes of what is known of a key
AdmitKeyed(k, p) ==
    /\ unpublished'[k] = IF k \in DOMAIN p.delta THEN line.job ELSE unpublished[k]
    /\ Waiting' = Waiting \cup {line.job} /\ Flight' = Flight \cup {line.job}
    /\ Writers(k, AllJobs)' = Writers(k, AllJobs) \cup (IF k \in Own(line.job, p) THEN {line.job} ELSE {})

\* Bound parts are in flight.
LEMMA BoundIsFlight == Bound \subseteq Flight
BY Zenon DEF Bound, Flight

\* A commit that the line admits, held back or to be stored, and the store of what is held
LEMMA AdmitInv ==
    ASSUME IInv, CommitHeld \/ CommitStored \/ storeHolds
    PROVE  IInv'
\* An admitted part waits behind the call, starts one alone, or is dropped when the Session has failed.
<1>AdmitGoes. ASSUME NEW i, NEW p, admit(i, p)
              PROVE  /\ part' = [part EXCEPT ![i] = p]
                     /\ \/ call.at # "none" /\ Queued(i) /\ Registered(i, p)
                        \/ call.at = "none" /\ Dropped1(i) /\ unpublished' = Unregister({i})
                        \/ SentAlone(i) /\ Registered(i, p)
  BY Zenon, <1>AdmitGoes DEF admit, Queued, Dropped1, SentAlone, Registered, Discard
\* What the new part changes of the facts on parts
<1>AdmitParts. ASSUME Rest, NEW p, Admits(p)
               PROVE  /\ line.job \in Jobs /\ part' \in [Jobs -> Parts] /\ part'[line.job] = p
                      /\ \A j \in Jobs : j # line.job => part'[j] = part[j] /\ (HasPart(j)' <=> HasPart(j))
                      /\ \A j \in Jobs : HasPart(j) => j < line.job /\ j # line.job /\ part'[j] = part[j] /\ HasPart(j)'
                      /\ \A j \in Jobs : HasPart(j)' <=> HasPart(j) \/ j = line.job
                      /\ ~HasPart(line.job) /\ outcome[line.job] = "none" /\ told[line.job] = "none"
  <2>. USE <1>AdmitParts
  <2>1. /\ line.job \in Jobs /\ ~HasPart(line.job) /\ outcome[line.job] = "none" /\ told[line.job] = "none"
        /\ \A i \in Jobs : HasPart(i) => i < line.job
    BY Zenon, NewOnLine DEF Admits
  <2>2. part' = [part EXCEPT ![line.job] = p] /\ part \in [Jobs -> Parts] /\ p \in Parts /\ p # NoPart
    BY Zenon, <1>AdmitGoes DEF Admits, Rest, TypeOK
  <2>3. part' \in [Jobs -> Parts] /\ part'[line.job] = p /\ \A j \in Jobs : j # line.job => part'[j] = part[j]
    BY Zenon, <2>1, <2>2
  <2>. QED  BY Zenon, <2>1, <2>2, <2>3 DEF HasPart
\* Who writes a key has a part.
<1>OwnHasPart. ASSUME NEW j, NEW k \in Own(j, part[j])
               PROVE  HasPart(j) /\ k \in DOMAIN part[j].delta
  BY <1>OwnHasPart, NoPartType DEF Own, HasPart
\* The admitted job is behind all writers.
<1>AdmitWriters. ASSUME Rest, NEW p, Admits(p), NEW k
                 PROVE  /\ \A n \in Nat : n <= line.job => Writers(k, n)' = Writers(k, n)
                        /\ Writers(k, line.job) = Writers(k, AllJobs) /\ Writers(k, AllJobs) \subseteq Jobs
                        /\ \A j \in Writers(k, AllJobs) : j < line.job
                        /\ Writers(k, AllJobs)' = Writers(k, AllJobs) \cup (IF k \in Own(line.job, p) THEN {line.job} ELSE {})
                        /\ Stored' = Stored \cup (IF p.stored THEN {line.job} ELSE {})
                        /\ \A j \in Stored : j < line.job
  <2>. USE <1>AdmitWriters
  <2>1. /\ line.job \in Jobs /\ part'[line.job] = p
        /\ \A j \in Jobs : j # line.job => part'[j] = part[j]
        /\ \A j \in Jobs : HasPart(j) => j < line.job
    BY Zenon, <1>AdmitParts
  <2>2. line.at \in {"callback", "gate", "settling", "barrier"}
    BY Zenon DEF Admits
  <2>3. Writers(k, line.job) = Writers(k, AllJobs)
    BY Zenon, <2>2, WritersBefore
  <2>4. \A j : j \in 1..(AllJobs - 1) <=> j \in Jobs
    BY JobNumbers
  <2>5. Writers(k, AllJobs) = {j \in Jobs : k \in Own(j, part[j])}
    BY Zenon, <2>4 DEF Writers
  <2>6. Writers(k, AllJobs)' = {j \in Jobs : k \in Own(j, part'[j])}
    BY Zenon, <2>4 DEF Writers, AllJobs, Jobs, Own
  <2>7. \A j \in Writers(k, AllJobs) : j \in Jobs /\ HasPart(j) /\ j < line.job
    BY Zenon, <2>1, <2>5, <1>OwnHasPart
  <2>8. line.job \notin Writers(k, AllJobs)
    BY <2>1, <2>7, JobNumbers
  <2>9. Writers(k, AllJobs)' = Writers(k, AllJobs) \cup (IF k \in Own(line.job, p) THEN {line.job} ELSE {})
    <3>1. \A j \in Jobs : j # line.job => Own(j, part'[j]) = Own(j, part[j])
      BY Zenon, <2>1
    <3>. QED  BY Zenon, <2>1, <2>5, <2>6, <2>8, <3>1
  <2>10. ASSUME NEW n \in Nat, n <= line.job PROVE Writers(k, n)' = Writers(k, n)
    <3>1. \A j \in 1..(n - 1) : j \in Jobs /\ j # line.job
      BY <2>1, <2>10, JobNumbers
    <3>2. \A j \in 1..(n - 1) : part'[j] = part[j]
      BY Zenon, <2>1, <3>1
    <3>. QED  BY Zenon, <3>2 DEF Writers, Own
  <2>11. Stored' = Stored \cup (IF p.stored THEN {line.job} ELSE {})
    <3>1. line.job \notin Stored
      BY Zenon, <1>AdmitParts, NoPartType DEF Stored, HasPart
    <3>2. Stored' = {j \in Jobs : part'[j].stored}
      BY Zenon DEF Stored, Jobs
    <3>. QED  BY Zenon, <2>1, <3>1, <3>2 DEF Stored
  <2>12. \A j \in Stored : j < line.job
    BY Zenon, <2>1, NoPartType DEF Stored, HasPart
  <2>. QED  BY Zenon, <2>3, <2>5, <2>7, <2>9, <2>10, <2>11, <2>12
\* Where an admitted part goes, and what changes there
<1>AdmitWhere. ASSUME Rest, Others, NEW p, Admits(p)
               PROVE  Queues(p) \/ Drops(p) \/ Sends(p)
  <2>. USE <1>AdmitWhere
  <2>0. TypeOK /\ CallOK
    BY Zenon DEF Rest, Others
  <2>1. line.job \in Jobs /\ part'[line.job] = p
    BY Zenon, <1>AdmitParts
  <2>2. \/ call.at # "none" /\ Queued(line.job) /\ Registered(line.job, p)
        \/ call.at = "none" /\ Dropped1(line.job) /\ unpublished' = Unregister({line.job})
        \/ SentAlone(line.job) /\ Registered(line.job, p)
    BY Zenon, <1>AdmitGoes DEF Admits
  <2>3. CASE call.at # "none" /\ Queued(line.job) /\ Registered(line.job, p)
    <3>1. queue' = Append(queue, line.job) /\ call' = call /\ queue \in Seq(Jobs)
      BY Zenon, <2>0, <2>3 DEF Queued, TypeOK
    <3>2. Range(queue') = Range(queue) \cup {line.job}
      BY <2>1, <3>1, RangeAppend
    <3>3. Flight' = Flight \cup {line.job}
      BY Zenon, <3>1, <3>2 DEF Flight
    <3>4. Waiting' = Waiting \cup {line.job}
      BY Zenon, <3>1, <3>2 DEF Waiting
    <3>. QED  BY Zenon, <2>3, <3>2, <3>3, <3>4 DEF Queues
  <2>4. CASE call.at = "none" /\ Dropped1(line.job) /\ unpublished' = Unregister({line.job})
    <3>1. call = NoCall /\ queue = <<>> /\ Flight = {} /\ Waiting = {}
      BY Zenon, <2>0, <2>4, NothingInFlight
    <3>2. queue' = queue /\ call' = call
      BY Zenon, <2>4 DEF Dropped1
    <3>3. Flight' = Flight /\ Waiting' = Waiting
      BY Zenon, <3>2 DEF Flight, Waiting
    <3>. QED  BY Zenon, <2>4, <3>1, <3>2, <3>3 DEF Dropped1, Drops
  <2>5. CASE SentAlone(line.job) /\ Registered(line.job, p)
    <3>0. call.at = "none" /\ ~failed /\ call' = Sent(<<line.job>>) /\ queue' = queue
      BY Zenon, <2>5 DEF SentAlone
    <3>1. call = NoCall /\ queue = <<>> /\ Flight = {} /\ Waiting = {}
      BY Zenon, <2>0, <3>0, NothingInFlight
    <3>2. <<line.job>> \in Seq(Jobs) /\ DOMAIN <<line.job>> = {1} /\ <<line.job>>[1] = line.job
      BY <2>1
    <3>3. /\ call' \in Calls /\ call'.parts = <<line.job>>
          /\ call'.durable = 0 /\ call'.received = 0 /\ call'.result = "ok" /\ call'.next = 1 /\ call'.why = "none"
          /\ call'.at \in {"storing", "publishing"}
          /\ call'.at = "storing" <=> \E n \in DOMAIN <<line.job>> : part'[<<line.job>>[n]].stored
      BY Zenon, <2>0, <3>0, <3>2, SentType
    <3>4. call'.at = "storing" <=> p.stored
      BY Zenon, <2>1, <3>2, <3>3
    <3>5. Range(queue') = {} /\ Range(call'.parts) = {line.job}
      BY Zenon, <3>0, <3>1, <3>3, NothingListed, OneListed
    <3>6. Flight' = {line.job}
      BY Zenon, <3>5 DEF Flight
    <3>7. {m \in DOMAIN call'.parts : m >= call'.next /\ ~(m = call'.next /\ call'.why = "observer")} = {1}
      BY <3>2, <3>3
    <3>8. Waiting' = {line.job}
      BY Zenon, <3>2, <3>3, <3>5, <3>7 DEF Waiting
    <3>. QED  BY Zenon, <2>5, <3>1, <3>3, <3>4, <3>6, <3>8 DEF SentAlone, Sends
  <2>. QED  BY Zenon, <2>2, <2>3, <2>4, <2>5
\* What the admission does to the facts on all jobs
<1>AdmitJobs. ASSUME Rest, Others, NEW p, Admits(p)
              PROVE  /\ outcome' \in [Jobs -> Outcomes] /\ \A j \in Jobs : j # line.job => outcome'[j] = outcome[j]
                     /\ outcome'[line.job] = IF Drops(p) THEN "failed" ELSE "none"
                     /\ open \subseteq open' /\ open' \subseteq open \cup {line.job} /\ open' \subseteq Jobs
                     /\ queue' \in Seq(Jobs) /\ call' \in Calls /\ unpublished' \in [Docs -> Nat]
                     /\ Drops(p) => failed
                     /\ (failed' <=> failed) /\ (Healthy' => Healthy) /\ \A i : Poisoned(i)' <=> Poisoned(i)
  <2>. USE <1>AdmitJobs
  <2>0. TypeOK /\ line.job \in Jobs /\ outcome[line.job] = "none"
    BY Zenon, <1>AdmitParts DEF Rest
  <2>1. outcome \in [Jobs -> Outcomes] /\ open \in SUBSET Jobs /\ queue \in Seq(Jobs) /\ call \in Calls /\ unpublished \in [Docs -> Nat]
    BY Zenon, <2>0 DEF TypeOK
  <2>2. Queues(p) \/ Drops(p) \/ Sends(p)
    BY Zenon, <1>AdmitWhere
  <2>3. failAt' = failAt /\ ownOutcomes' = ownOutcomes
    BY Zenon DEF Admits, sessionVars
  <2>4. (failed' <=> failed) /\ \A i : Poisoned(i)' <=> Poisoned(i)
    BY Zenon, <2>3 DEF failed, Poisoned, NoFailure
  <2>5. ASSUME Registered(line.job, p) PROVE unpublished' \in [Docs -> Nat]
    BY <2>0, <2>1, <2>5, JobNumbers DEF Registered
  <2>6. CASE Queues(p)
    <3>1. /\ queue' = Append(queue, line.job) /\ call' = call /\ open' = open /\ outcome' = outcome /\ Registered(line.job, p)
          /\ call.at # "none"
      BY Zenon, <2>6 DEF Queues, Queued
    <3>2. queue' \in Seq(Jobs)
      BY <2>0, <2>1, <3>1
    <3>3. ~Drops(p)
      BY Zenon, <3>1 DEF Drops
    <3>4. Healthy' => Healthy
      BY Zenon, <2>4, <3>1 DEF Healthy
    <3>. QED  BY Zenon, <2>0, <2>1, <2>4, <2>5, <3>1, <3>2, <3>3, <3>4
  <2>7. CASE Drops(p)
    <3>1. /\ failed /\ unpublished' = Unregister({line.job}) /\ queue' = queue /\ call' = call
          /\ open' = open \cup {line.job} /\ outcome' = Settle({line.job}, "failed")
      BY Zenon, <2>7 DEF Drops
    <3>2. "failed" \in Outcomes
      BY DEF Outcomes
    <3>9. /\ Settle({line.job}, "failed") \in [Jobs -> Outcomes]
          /\ \A j \in Jobs : Settle({line.job}, "failed")[j] = IF j \in {line.job} THEN "failed" ELSE outcome[j]
      BY <2>0, <3>2, SettleType
    <3>3. outcome' \in [Jobs -> Outcomes] /\ \A j \in Jobs : outcome'[j] = IF j \in {line.job} THEN "failed" ELSE outcome[j]
      BY Zenon, <3>1, <3>9
    <3>4. unpublished' \in [Docs -> Nat]
      BY Zenon, <2>0, <3>1, UnregisterType
    <3>5. ~Healthy'
      BY Zenon, <2>4, <3>1 DEF Healthy
    <3>. QED  BY Zenon, <2>0, <2>1, <2>4, <2>7, <3>1, <3>3, <3>4, <3>5
  <2>8. CASE Sends(p)
    <3>1. /\ ~failed /\ call.at = "none" /\ queue' = queue /\ call' \in Calls /\ open' = open /\ outcome' = outcome /\ Registered(line.job, p)
      BY Zenon, <2>8 DEF Sends
    <3>3. ~Drops(p)
      BY Zenon, <3>1 DEF Drops
    <3>4. Healthy
      BY Zenon, <3>1 DEF Healthy
    <3>. QED  BY Zenon, <2>0, <2>1, <2>4, <2>5, <3>1, <3>3, <3>4
  <2>. QED  BY Zenon, <2>2, <2>6, <2>7, <2>8
\* The job leaves the line, or waits on it for the part to be stored.
<1>AdmitLine. ASSUME Rest, Others, NEW p, Admits(p)
              PROVE  /\ line' \in Lines /\ DOMAIN line'.read = {} /\ stale' \subseteq stale \cup {line.job}
                     /\ \/ line'.at = "free" /\ line'.job = 0
                        \/ line.at = "barrier" /\ line'.at = "stored" /\ line'.job = line.job
                     /\ line.job = started /\ started \in DOMAIN jobs /\ started \in Jobs /\ closing # "closed"
                     /\ jobs' = jobs /\ started' = started /\ told' = told /\ early' = early /\ closing' = closing
                     /\ mem' = mem /\ holds' = holds /\ disk' = disk /\ log' = log /\ ownOutcomes' = ownOutcomes
  <2>. USE <1>AdmitLine
  <2>0. TypeOK /\ LineOK /\ line.at \in {"settling", "barrier"}
    BY Zenon DEF Rest, Admits
  <2>1. line.job = started /\ started \in DOMAIN jobs /\ started \in Jobs
    BY Zenon, <2>0, OnLine
  <2>2. closing # "closed"
    BY Zenon, <2>0 DEF LineOK
  <2>3. /\ jobs' = jobs /\ started' = started /\ told' = told /\ early' = early /\ closing' = closing
        /\ mem' = mem /\ holds' = holds /\ disk' = disk /\ log' = log /\ ownOutcomes' = ownOutcomes
    BY Zenon DEF Admits, sessionVars
  <2>4. stale' \subseteq stale \cup {line.job}
    BY Zenon DEF Admits
  <2>5. CASE line' = Free
    BY Zenon, <2>1, <2>2, <2>3, <2>4, <2>5, FreeType
  <2>6. CASE line.at = "barrier" /\ line' = [line EXCEPT !.at = "stored"]
    <3>1. line' \in Lines /\ line'.job = line.job /\ line'.at = "stored" /\ line'.read = line.read
      BY Zenon, <2>0, <2>6, LineGoes
    <3>2. DOMAIN line.read = {}
      BY Zenon, <2>0, <2>6 DEF LineOK
    <3>. QED  BY Zenon, <2>1, <2>2, <2>3, <2>4, <2>6, <3>1, <3>2
  <2>. QED  BY Zenon, <2>5, <2>6 DEF Admits
\* Admission keeps each conjunct of the invariant.
<1>AdmitTypeOK. ASSUME Rest, Others, NEW p, Admits(p)
                PROVE  TypeOK'
  <2>. USE <1>AdmitTypeOK
  <2>1. /\ TypeOK /\ line' \in Lines /\ stale' \subseteq stale \cup {line.job} /\ line.job \in Jobs
        /\ part' \in [Jobs -> Parts] /\ pending' \in [Docs -> Seq(Jobs)]
        /\ outcome' \in [Jobs -> Outcomes] /\ open' \subseteq Jobs
        /\ queue' \in Seq(Jobs) /\ call' \in Calls /\ unpublished' \in [Docs -> Nat]
    BY Zenon, <1>AdmitLine, <1>AdmitJobs, <1>AdmitParts DEF Rest, Admits
  <2>2. stale' \in SUBSET Jobs
    BY Zenon, <2>1 DEF TypeOK
  <2>3. UNCHANGED <<jobs, started, mem, holds, disk, log, told, early, lastDelivered, failAt, ownOutcomes, closing, fired>>
    BY Zenon DEF Admits, sessionVars
  <2>. QED  BY Zenon, <2>1, <2>2, <2>3 DEF TypeOK
<1>AdmitLineOK. ASSUME Rest, Others, NEW p, Admits(p)
                PROVE  LineOK'
  <2>. USE <1>AdmitLineOK
  <2>0. TypeOK /\ LineOK /\ line.at \in {"settling", "barrier"}
    BY Zenon DEF Rest, Admits
  <2>1. /\ \/ line'.at = "free" /\ line'.job = 0
           \/ line.at = "barrier" /\ line'.at = "stored" /\ line'.job = line.job
        /\ DOMAIN line'.read = {}
        /\ line.job = started /\ started \in Jobs /\ closing # "closed"
        /\ jobs' = jobs /\ started' = started /\ closing' = closing
    BY Zenon, <1>AdmitLine
  <2>2. JobsOK'
    BY Zenon, <2>0, <2>1 DEF LineOK, JobsOK
  <2>3. /\ \A j \in Jobs : j # line.job => (HasPart(j)' <=> HasPart(j)) /\ outcome'[j] = outcome[j]
        /\ part'[line.job] = p /\ p # NoPart /\ started <= started
    BY <2>1, <1>AdmitParts, <1>AdmitJobs, JobNumbers DEF Admits
  <2>4. HasPart(started)'
    BY Zenon, <2>1, <2>3 DEF HasPart
  <2>5. ASSUME NEW j \in Jobs, HasPart(j)' \/ outcome'[j] # "none"
        PROVE  j <= started /\ (j = line'.job => line'.at \in {"stored", "closing"})
    <3>1. CASE j = line.job
      BY Zenon, <2>1, <2>3, <3>1, JobNumbers
    <3>2. CASE j # line.job
      <4>1. j <= started
        BY Zenon, <2>0, <2>3, <2>5, <3>2 DEF LineOK
      <4>. QED  BY Zenon, <2>1, <3>2, <4>1, JobNumbers
    <3>. QED  BY Zenon, <3>1, <3>2
  <2>6. line'.at = "stored" => jobs[started] \in Upkeep
    BY Zenon, <2>0, <2>1 DEF LineOK
  <2>7. line'.at = "free" <=> line'.job = 0
    BY Zenon, <2>1, JobNumbers
  <2>8. line'.at \in {"free", "stored"}
    BY Zenon, <2>1
  <2>. QED  BY Zenon, <2>1, <2>2, <2>4, <2>5, <2>6, <2>7, <2>8 DEF LineOK
<1>AdmitReads. ASSUME Rest, Others, NEW p, Admits(p)
               PROVE  ReadsOK'
  <2>. USE <1>AdmitReads
  <2>0. /\ TypeOK /\ LineOK /\ ReadsOK /\ FlightOK /\ LogOK /\ line.at \in {"settling", "barrier"}
        /\ line.job \in Jobs /\ outcome[line.job] = "none" /\ told[line.job] = "none" /\ ~HasPart(line.job)
    BY Zenon, <1>AdmitParts DEF Rest, Admits, Others
  <2>1. /\ \/ line'.at = "free" /\ line'.job = 0
           \/ line.at = "barrier" /\ line'.at = "stored" /\ line'.job = line.job
        /\ DOMAIN line'.read = {}
        /\ line.job = started /\ started' = started /\ told' = told /\ log' = log
    BY Zenon, <1>AdmitLine
  <2>2. Right' /\ line'.at \notin {"gate", "settling"}
    BY Zenon, <2>1 DEF Right
  <2>3. /\ \A j \in Jobs : j # line.job => outcome'[j] = outcome[j]
        /\ outcome'[line.job] \in {"none", "failed"}
        /\ (failed' <=> failed) /\ (Healthy' => Healthy) /\ \A i : Poisoned(i)' <=> Poisoned(i)
    BY Zenon, <1>AdmitJobs
  <2>4. Queues(p) \/ Drops(p) \/ Sends(p)
    BY Zenon, <1>AdmitWhere
  <2>5. line.job \notin Range(log) /\ line.job \notin Range(call.parts)
    BY Zenon, <2>0, InLogHasPart
  <2>6. /\ Sends(p) => Healthy
        /\ ~Sends(p) => call' = call /\ Range(queue') \subseteq Range(queue) \cup {line.job}
    BY Zenon, <2>4 DEF Sends, Queues, Drops, Queued, Healthy
  <2>7. ASSUME NEW i \in stale'
        PROVE  /\ ~Healthy' /\ i <= started /\ i # line'.job
               /\ i \notin Range(log) /\ i \notin Range(call'.parts)
               /\ i \in Range(queue') => failed'
               /\ outcome'[i] = "ok" => Poisoned(i)'
               /\ told[i] # "ok"
    <3>1. CASE i \in stale
      <4>1. /\ ~Healthy /\ i <= started /\ i # line.job /\ i \notin Range(log) /\ i \notin Range(call.parts)
            /\ i \in Range(queue) => failed
            /\ outcome[i] = "ok" => Poisoned(i)
            /\ told[i] # "ok" /\ i \in Jobs /\ i # 0
        BY Zenon, <2>0, <3>1, JobNumbers DEF ReadsOK, TypeOK
      <4>. QED  BY Zenon, <2>1, <2>3, <2>6, <4>1
    <3>2. CASE i \notin stale
      <4>1. i = line.job /\ ~Right
        BY Zenon, <2>7, <3>2 DEF Admits
      <4>2. line.at = "settling" /\ call.at # "failing"
        <5>1. line.at = "barrier" => DOMAIN line.read = {}
          BY Zenon, <2>0 DEF LineOK
        <5>2. line.at # "barrier"
          BY Zenon, <4>1, <5>1 DEF Right
        <5>. QED  BY Zenon, <2>0, <5>2 DEF Admits
      <4>3. Poisoned(line.job) /\ failed
        BY Zenon, <2>0, <4>1, <4>2 DEF ReadsOK, Poisoned
      <4>4. ~Healthy /\ ~Sends(p)
        BY Zenon, <4>3 DEF Healthy, Sends
      <4>5. line'.job # line.job /\ i <= started
        <5>1. line'.job = 0
          BY Zenon, <2>1, <4>2
        <5>. QED  BY <2>0, <2>1, <4>1, <5>1, JobNumbers
      <4>. QED  BY Zenon, <2>0, <2>1, <2>3, <2>5, <2>6, <4>1, <4>3, <4>4, <4>5
    <3>. QED  BY Zenon, <3>1, <3>2
  <2>. QED  BY Zenon, <2>1, <2>2, <2>7 DEF ReadsOK
<1>AdmitTells. ASSUME Rest, Others, NEW p, Admits(p)
               PROVE  TellsOK'
  <2>. USE <1>AdmitTells
  <2>0. /\ TypeOK /\ TellsOK /\ line.job \in Jobs /\ told[line.job] = "none"
        /\ \A j \in Jobs : j # line.job => part'[j] = part[j] /\ (HasPart(j)' <=> HasPart(j))
        /\ \A j \in Jobs : HasPart(j) => j < line.job /\ j # line.job
    BY Zenon, <1>AdmitParts DEF Rest
  <2>1. /\ line'.job = 0 \/ line'.job = line.job
        /\ line.job = started /\ started' = started /\ told' = told /\ log' = log /\ jobs' = jobs /\ mem' = mem
        /\ early' = early /\ ownOutcomes' = ownOutcomes
    BY Zenon, <1>AdmitLine
  <2>2. /\ \A j \in Jobs : j # line.job => outcome'[j] = outcome[j]
        /\ outcome'[line.job] \in {"none", "failed"}
        /\ (failed' <=> failed) /\ \A i : Poisoned(i)' <=> Poisoned(i)
    BY Zenon, <1>AdmitJobs
  <2>3. \A i \in early : ~HasPart(i)' /\ i <= started /\ i # line'.job
    <3>1. \A i \in early : ~HasPart(i) /\ i <= started /\ i # line.job /\ i \in Jobs
      BY Zenon, <2>0 DEF TellsOK, TypeOK
    <3>. QED  BY Zenon, <2>0, <2>1, <3>1, JobNumbers
  <2>4. \A i \in ownOutcomes : failed' /\ outcome'[i] = "err" /\ HasPart(i)'
    <3>1. \A i \in ownOutcomes : failed /\ outcome[i] = "err" /\ HasPart(i) /\ i \in Jobs
      BY Zenon, <2>0 DEF TellsOK, TypeOK
    <3>. QED  BY Zenon, <2>0, <2>2, <3>1
  <2>5. \A i \in Jobs : HasPart(i)' /\ outcome'[i] = "ok" => i # line.job /\ HasPart(i) /\ outcome[i] = "ok" /\ i < line.job /\ part'[i] = part[i]
    BY Zenon, <2>0, <2>2
  <2>6. \A i \in Jobs : i < line.job => \A j \in 1..(i - 1) : j \in Jobs /\ j # line.job
    BY <2>0, JobNumbers
  <2>7. \A i \in Jobs : HasPart(i)' /\ outcome'[i] = "ok" =>
            /\ \A k \in Own(i, part'[i]) : i \in Range(mem[k])
            /\ part'[i].stored => i \in Range(log)
            /\ \A j \in 1..(i - 1) : HasPart(j)' => outcome'[j] = "ok"
    <3>1. \A i \in Jobs : HasPart(i) /\ outcome[i] = "ok" =>
            /\ \A k \in Own(i, part[i]) : i \in Range(mem[k])
            /\ part[i].stored => i \in Range(log)
            /\ \A j \in 1..(i - 1) : HasPart(j) => outcome[j] = "ok"
      BY Zenon, <2>0 DEF TellsOK
    <3>. QED  BY Zenon, <2>0, <2>2, <2>5, <2>6, <3>1
  <2>8. \A i \in Jobs : told[i] # "none" => told[i] = outcome'[i] \/ (told[i] = "failed" /\ outcome'[i] # "none" /\ Poisoned(i)')
    BY Zenon, <2>0, <2>2 DEF TellsOK
  <2>9. \A i \in Jobs : told[i] = "ok" /\ HasPart(i)' =>
            \A j \in 1..(i - 1) : HasPart(j)' /\ jobs[j] \notin Upkeep => told[j] = "ok"
    <3>1. \A i \in Jobs : told[i] = "ok" /\ HasPart(i) =>
            \A j \in 1..(i - 1) : HasPart(j) /\ jobs[j] \notin Upkeep => told[j] = "ok"
      BY Zenon, <2>0 DEF TellsOK
    <3>2. \A i \in Jobs : told[i] = "ok" /\ HasPart(i)' => HasPart(i) /\ i < line.job
      BY Zenon, <2>0
    <3>. QED  BY Zenon, <2>0, <2>6, <3>1, <3>2
  <2>. QED  BY Zenon, <2>1, <2>3, <2>4, <2>7, <2>8, <2>9 DEF TellsOK, Own
<1>AdmitClose. ASSUME Rest, Others, NEW p, Admits(p)
               PROVE  CloseOK'
  <2>. USE <1>AdmitClose
  <2>1. /\ line'.at = "free" \/ (line.at = "barrier" /\ line'.at = "stored" /\ line'.job = line.job)
        /\ closing # "closed" /\ closing' = closing /\ holds' = holds
    BY Zenon, <1>AdmitLine
  <2>2. line.job \in Jobs /\ part'[line.job] = p /\ \A j \in Jobs : j # line.job => (HasPart(j)' <=> HasPart(j))
    BY Zenon, <1>AdmitParts
  <2>3. (failed' <=> failed) /\ open \subseteq open' /\ (~failed => outcome'[line.job] = "none")
    BY Zenon, <1>AdmitJobs
  <2>4. line.at = "barrier" /\ ~failed => p.stored /\ holds \subseteq p.taken /\ \A j \in Jobs : HasPart(j) => j \in open
    BY Zenon DEF Admits
  <2>. QED  BY Zenon, <2>1, <2>2, <2>3, <2>4 DEF CloseOK
\* A job behind all listed ones keeps the order.
<1>InOrderMore. ASSUME NEW s \in Seq(Jobs), InOrder(s), NEW i \in Jobs, \A j \in Range(s) : j < i
                PROVE  InOrder(Append(s, i))
  <2>. USE <1>InOrderMore
  <2>1. Lists(s, Range(s))
    BY DEF Lists
  <2>2. Lists(Append(s, i), Range(s) \cup {i})
    BY <2>1, ListsMore
  <2>. QED  BY <2>2 DEF Lists
<1>AdmitCallOK. ASSUME Rest, Others, NEW p, Admits(p)
                PROVE  CallOK'
  <2>. USE <1>AdmitCallOK
  <2>0. CallOK
    BY Zenon DEF Others
  <2>1. CASE Queues(p)
    <3>1. call' = call /\ call.at # "none"
      BY Zenon, <2>1 DEF Queues, Queued
    <3>. QED  BY Zenon, <2>0, <3>1 DEF CallOK
  <2>2. CASE Drops(p)
    BY Zenon, <2>0, <2>2 DEF CallOK, Drops
  <2>3. CASE Sends(p)
    <3>1. /\ call'.parts = <<line.job>> /\ call'.received = 0 /\ call'.result = "ok" /\ call'.next = 1 /\ call'.why = "none"
          /\ call'.at \in {"storing", "publishing"}
      BY Zenon, <2>3 DEF Sends
    <3>2. call'.parts # <<>> /\ call'.next >= 1 /\ call'.next <= Len(call'.parts)
      BY <3>1
    <3>. QED  BY Zenon, <3>1, <3>2 DEF CallOK
  <2>. QED  BY Zenon, <2>1, <2>2, <2>3, <1>AdmitWhere
\* Nothing before it is behind the new part.
<1>AdmitBehind. ASSUME Rest, Others, NEW p, Admits(p)
                PROVE  /\ \A j \in Flight : j \in Jobs /\ j < line.job /\ j # line.job /\ HasPart(j) /\ part'[j] = part[j]
                       /\ \A j \in Range(log) : j \in Jobs /\ j < line.job /\ j # line.job /\ HasPart(j) /\ part'[j] = part[j]
                       /\ \A j \in open : j \in Jobs /\ j # line.job
                       /\ Waiting \subseteq Flight /\ Range(queue) \subseteq Flight /\ Range(call.parts) \subseteq Flight
  <2>. USE <1>AdmitBehind
  <2>0. TypeOK /\ FlightOK /\ LogOK /\ open \subseteq Jobs
    BY Zenon DEF Rest, Others, TypeOK
  <2>1. \A j \in Jobs : HasPart(j) => j < line.job /\ j # line.job /\ part'[j] = part[j]
    BY Zenon, <1>AdmitParts
  <2>2. \A j \in Flight : j \in Jobs /\ HasPart(j)
    BY Zenon, <2>0, InLogHasPart DEF Flight
  <2>3. \A j \in Range(log) : j \in Jobs /\ HasPart(j)
    BY Zenon, <2>0, InLogHasPart
  <2>4. \A j \in open : j \in Jobs /\ HasPart(j)
    BY Zenon, <2>0 DEF FlightOK
  <2>5. Waiting \subseteq Flight /\ Range(queue) \subseteq Flight /\ Range(call.parts) \subseteq Flight
    BY Zenon, InRange DEF Waiting, Flight
  <2>. QED  BY Zenon, <2>1, <2>2, <2>3, <2>4, <2>5
<1>AdmitFlight. ASSUME Rest, Others, NEW p, Admits(p)
                PROVE  FlightOK'
  <2>. USE <1>AdmitFlight
  <2>0. TypeOK /\ FlightOK /\ line.job \in Jobs /\ outcome[line.job] = "none" /\ p.taken \subseteq DOMAIN p.delta
    BY Zenon, <1>AdmitParts DEF Rest, Others, Admits
  <2>1. /\ \A j \in Jobs : j # line.job => part'[j] = part[j] /\ (HasPart(j)' <=> HasPart(j))
        /\ part'[line.job] = p /\ p # NoPart
        /\ \A j \in Jobs : HasPart(j) => j < line.job
    BY Zenon, <1>AdmitParts DEF Admits
  <2>2. /\ \A j \in Jobs : j # line.job => outcome'[j] = outcome[j]
        /\ outcome'[line.job] = (IF Drops(p) THEN "failed" ELSE "none")
        /\ open' \subseteq open \cup {line.job}
        /\ (failed' <=> failed) /\ (Drops(p) => failed)
    BY Zenon, <1>AdmitJobs
  <2>3. /\ \A j \in Flight : j \in Jobs /\ j < line.job /\ j # line.job /\ HasPart(j)
        /\ \A j \in open : j \in Jobs /\ j # line.job
        /\ Waiting \subseteq Flight /\ Range(queue) \subseteq Flight /\ Range(call.parts) \subseteq Flight
    BY Zenon, <1>AdmitBehind
  <2>4. \A i \in Jobs : HasPart(i) /\ i \notin Flight =>
          i \in open /\ outcome[i] # "none" /\ \A j \in Flight : i < j
    BY Zenon, <2>0 DEF FlightOK
  <2>5. \A i \in open' : HasPart(i)'
    BY Zenon, <2>0, <2>1, <2>2, <2>3 DEF FlightOK, HasPart
  <2>6. \A i \in Jobs : part'[i].taken \subseteq DOMAIN part'[i].delta
    BY Zenon, <2>0, <2>1 DEF FlightOK
  <2>7. ~failed' => \A i \in Jobs : HasPart(i)' => outcome'[i] \in {"none", "ok"}
    BY Zenon, <2>0, <2>1, <2>2 DEF FlightOK
  <2>8. CASE Queues(p)
    <3>0. /\ queue' = Append(queue, line.job) /\ call' = call /\ open' = open /\ outcome' = outcome
          /\ Range(queue') = Range(queue) \cup {line.job}
          /\ Flight' = Flight \cup {line.job} /\ Waiting' = Waiting \cup {line.job}
      BY Zenon, <2>8 DEF Queues, Queued
    <3>1. InOrder(call.parts)
      BY Zenon, <2>0 DEF FlightOK
    <3>2. InOrder(queue')
      <4>1. InOrder(queue) /\ queue \in Seq(Jobs) /\ \A j \in Range(queue) : j < line.job
        BY Zenon, <2>0, <2>3 DEF FlightOK, TypeOK
      <4>2. InOrder(Append(queue, line.job))
        BY Zenon, <2>0, <4>1, <1>InOrderMore
      <4>. QED  BY Zenon, <3>0, <4>2
    <3>3. \A i \in Range(call.parts) : \A j \in Range(queue') : i < j
      <4>1. \A i \in Range(call.parts) : \A j \in Range(queue) : i < j
        BY Zenon, <2>0 DEF FlightOK
      <4>2. \A i \in Range(call.parts) : i < line.job
        BY Zenon, <2>3
      <4>. QED  BY <3>0, <4>1, <4>2
    <3>4. \A i \in Flight' : HasPart(i)'
      BY Zenon, <2>1, <2>3, <3>0 DEF HasPart
    <3>5. \A i \in Jobs : HasPart(i)' /\ i \notin Flight' =>
            i \in open /\ outcome[i] # "none" /\ \A j \in Flight' : i < j
      <4>1. ASSUME NEW i \in Jobs, HasPart(i)', i \notin Flight'
            PROVE  i \in open /\ outcome[i] # "none" /\ \A j \in Flight' : i < j
        <5>1. i # line.job /\ HasPart(i) /\ i \notin Flight /\ i < line.job
          BY Zenon, <2>1, <3>0, <4>1
        <5>2. i \in open /\ outcome[i] # "none" /\ \A j \in Flight : i < j
          BY Zenon, <2>4, <5>1
        <5>. QED  BY Zenon, <3>0, <5>1, <5>2
      <4>. QED  BY Zenon, <4>1
    <3>6. \A i \in Waiting' : i \notin open /\ outcome[i] = "none"
      BY Zenon, <2>0, <2>3, <3>0 DEF FlightOK
    <3>7. \A n \in DOMAIN call.parts : n < call.next \/ (n = call.next /\ call.why = "observer") =>
            IF call.result = "rejected" THEN call.parts[n] \notin open /\ outcome[call.parts[n]] = "none"
            ELSE call.parts[n] \in open /\ outcome[call.parts[n]] # "none"
      BY Zenon, <2>0 DEF FlightOK
    <3>. QED  BY Zenon, <2>5, <2>6, <2>7, <3>0, <3>1, <3>2, <3>3, <3>4, <3>5, <3>6, <3>7 DEF FlightOK
  <2>9. CASE Drops(p)
    <3>0. /\ queue' = queue /\ call' = call /\ open' = open \cup {line.job} /\ outcome'[line.job] = "failed"
          /\ Flight = {} /\ Flight' = {} /\ Waiting' = {} /\ queue = <<>> /\ call = NoCall
      BY Zenon, <2>2, <2>9 DEF Drops
    <3>1. InOrder(call'.parts) /\ InOrder(queue') /\ Range(call'.parts) = {} /\ DOMAIN call'.parts = {}
      <4>1. call'.parts = <<>> /\ queue' = <<>>
        BY Zenon, <3>0, NoCallType
      <4>. QED  BY <4>1, NothingListed
    <3>5. \A i \in Jobs : HasPart(i)' /\ i \notin Flight' =>
            i \in open' /\ outcome'[i] # "none" /\ \A j \in Flight' : i < j
      <4>1. ASSUME NEW i \in Jobs, HasPart(i)'
            PROVE  i \in open' /\ outcome'[i] # "none"
        <5>1. CASE i = line.job
          BY <3>0, <5>1
        <5>2. CASE i # line.job
          <6>1. HasPart(i) /\ i \notin Flight
            BY Zenon, <2>1, <3>0, <4>1, <5>2
          <6>2. i \in open /\ outcome[i] # "none"
            BY Zenon, <2>4, <6>1
          <6>. QED  BY Zenon, <2>2, <3>0, <5>2, <6>2
        <5>. QED  BY Zenon, <5>1, <5>2
      <4>. QED  BY Zenon, <3>0, <4>1
    <3>. QED  BY Zenon, <2>5, <2>6, <2>7, <3>0, <3>1, <3>5 DEF FlightOK
  <2>10. CASE Sends(p)
    <3>0. /\ queue' = queue /\ open' = open /\ outcome' = outcome /\ call'.parts = <<line.job>>
          /\ call'.next = 1 /\ call'.why = "none"
          /\ Flight = {} /\ Flight' = {line.job} /\ Waiting' = {line.job} /\ queue = <<>>
      BY Zenon, <2>10 DEF Sends
    <3>1. InOrder(call'.parts) /\ InOrder(queue') /\ Range(queue') = {}
      BY Zenon, <3>0, NothingListed, OneListed
    <3>2. \A n \in DOMAIN call'.parts : ~(n < call'.next)
      BY <3>0
    <3>4. \A i \in Flight' : HasPart(i)'
      BY Zenon, <2>1, <3>0 DEF HasPart
    <3>5. \A i \in Jobs : HasPart(i)' /\ i \notin Flight' =>
            i \in open /\ outcome[i] # "none" /\ \A j \in Flight' : i < j
      BY Zenon, <2>0, <2>1, <3>0 DEF FlightOK
    <3>6. \A i \in Waiting' : i \notin open /\ outcome[i] = "none"
      BY Zenon, <2>0, <2>3, <3>0
    <3>7. call'.why # "observer"
      BY <3>0
    <3>. QED  BY Zenon, <2>5, <2>6, <2>7, <3>0, <3>1, <3>2, <3>4, <3>5, <3>6, <3>7 DEF FlightOK
  <2>. QED  BY Zenon, <2>8, <2>9, <2>10, <1>AdmitWhere
<1>AdmitLog. ASSUME Rest, Others, NEW p, Admits(p)
             PROVE  LogOK'
  <2>. USE <1>AdmitLog
  <2>0. TypeOK /\ LogOK /\ line.job \in Jobs /\ p \in Parts
    BY Zenon, <1>AdmitParts DEF Rest, Others, Admits
  <2>1. /\ Stored' = Stored \cup (IF p.stored THEN {line.job} ELSE {})
        /\ \A j \in Stored : j < line.job
    BY Zenon, <1>AdmitWriters
  <2>2. /\ log' = log /\ part'[line.job] = p /\ (failed' <=> failed)
    BY Zenon, <1>AdmitLine, <1>AdmitParts, <1>AdmitJobs
  <2>3. /\ \A j \in Flight : j \in Jobs /\ j # line.job /\ part'[j] = part[j]
        /\ \A j \in Range(log) : j # line.job
        /\ Range(queue) \subseteq Flight /\ Range(call.parts) \subseteq Flight
    BY Zenon, <1>AdmitBehind
  <2>4. Begins(log, Stored')
    <3>1. Begins(log, Stored)
      BY Zenon, <2>0 DEF LogOK
    <3>2. Stored \subseteq Stored' /\ Stored \subseteq Jobs
      BY Zenon, <2>1 DEF Stored
    <3>3. \A i \in Stored : \A j \in Stored' : j < i => j \in Stored
      BY <2>0, <2>1, <3>2, JobNumbers
    <3>. QED  BY Zenon, <3>1, <3>2, <3>3, BeginsStays
  <2>5. CASE Queues(p)
    <3>0. /\ call' = call /\ Range(queue') = Range(queue) \cup {line.job} /\ Flight' = Flight \cup {line.job}
      BY Zenon, <2>5 DEF Queues, Queued
    <3>1. Batches' = Batches
      <4>1. \A n \in DOMAIN call.parts : part'[call.parts[n]] = part[call.parts[n]]
        BY Zenon, <2>3, InRange
      <4>. QED  BY Zenon, <3>0, <4>1 DEF Batches
    <3>2. \A i \in Range(queue') : i \notin Range(log)
      BY Zenon, <2>0, <2>3, <3>0 DEF LogOK
    <3>3. ~failed \/ call.at = "storing" => \A i \in Stored' : i \in Range(log) \/ i \in Flight'
      BY Zenon, <2>0, <2>1, <3>0 DEF LogOK
    <3>. QED  BY Zenon, <2>0, <2>2, <2>4, <3>0, <3>1, <3>2, <3>3 DEF LogOK
  <2>6. CASE Drops(p)
    <3>0. /\ call' = call /\ queue' = queue /\ failed /\ call.at = "none" /\ call = NoCall /\ queue = <<>>
      BY Zenon, <2>6 DEF Drops
    <3>1. Batches' = {} /\ Range(queue') = {}
      <4>1. call'.parts = <<>> /\ queue' = <<>>
        BY Zenon, <3>0, NoCallType
      <4>. QED  BY <4>1, NothingListed DEF Batches
    <3>. QED  BY Zenon, <2>2, <2>4, <3>0, <3>1 DEF LogOK
  <2>7. CASE Sends(p)
    <3>0. /\ queue' = queue /\ queue = <<>> /\ call'.parts = <<line.job>> /\ Flight = {} /\ Flight' = {line.job} /\ ~failed
          /\ call'.durable = 0 /\ call'.received = 0 /\ call'.result = "ok"
          /\ (call'.at = "storing" <=> p.stored) /\ call'.at \in {"storing", "publishing"}
      BY Zenon, <2>7 DEF Sends
    <3>1. /\ \A n \in Batches' : n = 1 /\ call'.parts[n] = line.job /\ p.stored
      <4>1. \A n \in DOMAIN call'.parts : n = 1 /\ call'.parts[n] = line.job
        BY <3>0
      <4>. QED  BY Zenon, <2>2, <4>1 DEF Batches
    <3>2. Range(queue') = {}
      BY Zenon, <3>0, NothingListed
    <3>3. \A n \in Batches' : ~(n <= call'.durable) /\ ~(n <= call'.received) /\ call'.parts[n] \notin Range(log)
      BY <2>3, <3>0, <3>1
    <3>4. call'.at = "publishing" => Batches' = {}
      BY Zenon, <3>0, <3>1
    <3>5. \A i \in Stored' : i \in Range(log) \/ i \in Flight'
      BY Zenon, <2>0, <2>1, <3>0 DEF LogOK
    <3>6. call'.result # "refused"
      BY <3>0
    <3>. QED  BY Zenon, <2>2, <2>4, <3>2, <3>3, <3>4, <3>5, <3>6 DEF LogOK
  <2>. QED  BY Zenon, <2>5, <2>6, <2>7, <1>AdmitWhere
\* As long as nothing has failed the part is queued or sent.
<1>AdmitHealthy. ASSUME Rest, Others, NEW p, Admits(p), Healthy, NEW k \in Docs
                 PROVE  AdmitKeyed(k, p) /\ Healthy'
  <2>. USE <1>AdmitHealthy
  <2>1. Queues(p) \/ Sends(p)
    BY Zenon, <1>AdmitWhere DEF Healthy, Drops
  <2>2. Registered(line.job, p) /\ Waiting' = Waiting \cup {line.job} /\ Flight' = Flight \cup {line.job}
    BY Zenon, <2>1 DEF Queues, Sends
  <2>3. unpublished'[k] = IF k \in DOMAIN p.delta THEN line.job ELSE unpublished[k]
    BY Zenon, <2>2 DEF Registered
  <2>4. failed' <=> failed
    BY Zenon, <1>AdmitJobs
  <2>5. call' = call \/ call'.at \in {"storing", "publishing"}
    BY Zenon, <2>1 DEF Queues, Queued, Sends
  <2>6. Healthy'
    BY Zenon, <2>4, <2>5 DEF Healthy
  <2>. QED  BY Zenon, <2>2, <2>3, <2>6, <1>AdmitWriters DEF AdmitKeyed
\* What is written of a key behind what is on disk and held of it
<1>FitsLists. ASSUME NEW d \in Seq(Jobs), NEW h \in Seq(Jobs), NEW W \in SUBSET Jobs, NEW i \in Jobs, \A j \in W : j < i,
                     Lists(d \o h, W)
              PROVE  /\ i \notin Range(h)
                     /\ i \in Range(h \o <<i>>) /\ Lists(d \o (h \o <<i>>), W \cup {i})
  <2>. USE <1>FitsLists
  <2>1. i \notin W
    BY JobNumbers
  <2>2. i \notin Range(h)
    <3>1. Range(d \o h) = Range(d) \cup Range(h)
      BY RangeConcat
    <3>. QED  BY Zenon, <2>1, <3>1 DEF Lists
  <2>3. d \o (h \o <<i>>) = Append(d \o h, i) /\ d \o h \in Seq(Jobs)
    BY ConcatOne
  <2>4. Lists(Append(d \o h, i), W \cup {i})
    BY <2>3, ListsMore
  <2>5. <<i>> \in Seq(Jobs)
    OBVIOUS
  <2>6. Range(h \o <<i>>) = Range(h) \cup Range(<<i>>)
    BY <2>5, RangeConcat
  <2>. QED  BY Zenon, <2>2, <2>3, <2>4, <2>6, OneListed
\* A key that the part writes: the part becomes its unpublished writer.
<1>AdmitKeyWritten. ASSUME Rest, Others, NEW p, Admits(p), Healthy, NEW k \in Docs, Fits(k, p), k \in DOMAIN p.delta
                    PROVE  KeyOK(k)'
  <2>. USE <1>AdmitKeyWritten
  <2>0. TypeOK /\ KeyOK(k) /\ line.job \in Jobs /\ p \in Parts
    BY Zenon, <1>AdmitParts DEF Rest, Others, KeysOK, Admits
  <2>1. /\ unpublished'[k] = line.job /\ unpublished[k] = 0 /\ Waiting' = Waiting \cup {line.job}
        /\ Writers(k, AllJobs)' = Writers(k, AllJobs) \cup (IF k \in Own(line.job, p) THEN {line.job} ELSE {})
    BY Zenon, <1>AdmitHealthy DEF AdmitKeyed, Fits
  <2>. DEFINE W == Writers(k, AllJobs)
  <2>2. W \subseteq Jobs /\ \A j \in W : j < line.job
    BY Zenon, <1>AdmitWriters
  <2>3. line.job \notin W /\ 0 \notin W
    BY <2>0, <2>2, JobNumbers
  <2>. HIDE DEF W
  <2>4. W \ {unpublished[k]} = W /\ Writers(k, AllJobs)' \ {line.job} = W
    BY Zenon, <2>1, <2>3 DEF W
  <2>5. /\ part'[line.job] = p /\ mem' = mem /\ disk' = disk /\ log' = log /\ holds' = holds
        /\ line.job \notin Range(log) /\ \A j \in Waiting : j \in Jobs /\ part'[j] = part[j]
    BY Zenon, <1>AdmitParts, <1>AdmitLine, <1>AdmitBehind
  <2>6. /\ pending'[k] = (IF p.stored THEN <<>> ELSE pending[k])
        /\ p.stored => p.delta[k] \in {pending[k], pending[k] \o <<line.job>>}
        /\ ~p.stored => p.delta[k] = <<line.job>>
    BY Zenon DEF Fits
  <2>7. disk[k] \in Seq(Jobs) /\ pending[k] \in Seq(Jobs)
    BY Zenon, <2>0 DEF TypeOK
  <2>8. Lists(disk[k] \o pending[k], W)
    <3>1. Lists(disk[k] \o pending[k], W \ {unpublished[k]})
      BY Zenon, <2>0, <2>1 DEF KeyOK, Lands, W
    <3>. QED  BY Zenon, <2>4, <3>1
  <2>9. p.stored => Lists(disk[k] \o p.delta[k], Writers(k, AllJobs)')
    <3>1. CASE p.stored /\ p.delta[k] = pending[k]
      <4>0. line.job \notin Range(pending[k])
        BY Zenon, <2>0, <2>2, <2>7, <2>8, <1>FitsLists
      <4>1. line.job \notin Range(p.delta[k]) /\ Lists(disk[k] \o p.delta[k], W)
        BY Zenon, <2>8, <3>1, <4>0
      <4>2. k \notin Own(line.job, p)
        BY Zenon, <4>1 DEF Own
      <4>. QED  BY Zenon, <2>1, <4>1, <4>2 DEF W
    <3>2. CASE p.stored /\ p.delta[k] = pending[k] \o <<line.job>>
      <4>0. /\ line.job \in Range(pending[k] \o <<line.job>>)
            /\ Lists(disk[k] \o (pending[k] \o <<line.job>>), W \cup {line.job})
        BY Zenon, <2>0, <2>2, <2>7, <2>8, <1>FitsLists
      <4>1. line.job \in Range(p.delta[k]) /\ Lists(disk[k] \o p.delta[k], W \cup {line.job})
        BY Zenon, <3>2, <4>0
      <4>2. k \in Own(line.job, p)
        BY Zenon, <4>1 DEF Own
      <4>. QED  BY Zenon, <2>1, <4>1, <4>2 DEF W
    <3>. QED  BY Zenon, <2>6, <3>1, <3>2
  <2>10. Lands(k)'
    <3>1. line.job # 0
      BY <2>0, JobNumbers
    <3>2. CASE p.stored
      <4>1. pending'[k] = <<>> /\ Lists(disk'[k] \o part'[line.job].delta[k], Writers(k, AllJobs)')
        BY Zenon, <2>5, <2>6, <2>9, <3>2
      <4>. QED  BY Zenon, <2>1, <2>5, <3>1, <3>2, <4>1 DEF Lands
    <3>3. CASE ~p.stored
      <4>1. Lists(disk'[k] \o pending'[k], Writers(k, AllJobs)' \ {line.job})
        BY Zenon, <2>4, <2>5, <2>6, <2>8, <3>3
      <4>. QED  BY Zenon, <2>1, <2>5, <3>1, <3>3, <4>1 DEF Lands
    <3>. QED  BY Zenon, <3>2, <3>3
  <2>11. Lists(mem'[k], Writers(k, AllJobs)' \ {unpublished'[k]})
    <3>1. Lists(mem[k], W \ {unpublished[k]})
      BY Zenon, <2>0 DEF KeyOK, W
    <3>. QED  BY Zenon, <2>1, <2>4, <2>5, <3>1
  <2>12. \A j \in Writers(k, AllJobs)' : j <= line.job
    BY <2>0, <2>1, <2>2, JobNumbers DEF W
  <2>13. ASSUME NEW j \in Waiting', k \in DOMAIN part'[j].delta PROVE unpublished'[k] = j
    <3>1. CASE j \in Waiting
      <4>1. j \in Jobs /\ k \in DOMAIN part[j].delta
        BY Zenon, <2>5, <2>13, <3>1
      <4>2. unpublished[k] = j
        BY Zenon, <2>0, <3>1, <4>1 DEF KeyOK
      <4>. QED  BY <2>1, <4>1, <4>2, JobNumbers
    <3>. QED  BY Zenon, <2>1, <2>13, <3>1
  <2>14. k \notin holds' => pending'[k] = <<>>
    BY Zenon, <2>0, <2>5, <2>6 DEF KeyOK
  <2>15. unpublished'[k] \in Waiting' /\ k \in DOMAIN part'[unpublished'[k]].delta
         /\ \A j \in Writers(k, AllJobs)' : j <= unpublished'[k]
    BY Zenon, <2>1, <2>5, <2>12
  <2>. QED  BY Zenon, <2>10, <2>11, <2>13, <2>14, <2>15 DEF KeyOK
\* Other keys stay as they are.
<1>AdmitKeyOther. ASSUME Rest, Others, NEW p, Admits(p), Healthy, NEW k \in Docs, Fits(k, p), k \notin DOMAIN p.delta
                  PROVE  KeyOK(k)'
  <2>. USE <1>AdmitKeyOther
  <2>0. TypeOK /\ KeyOK(k)
    BY Zenon DEF Rest, Others, KeysOK
  <2>1. /\ unpublished'[k] = unpublished[k] /\ Waiting' = Waiting \cup {line.job}
        /\ Writers(k, AllJobs)' = Writers(k, AllJobs)
    BY Zenon, <1>AdmitHealthy DEF AdmitKeyed, Own
  <2>2. pending'[k] = pending[k]
    BY Zenon DEF Fits
  <2>3. /\ part'[line.job] = p /\ mem' = mem /\ disk' = disk /\ log' = log /\ holds' = holds
        /\ \A j \in Waiting : j \in Jobs /\ part'[j] = part[j]
    BY Zenon, <1>AdmitParts, <1>AdmitLine, <1>AdmitBehind
  <2>4. unpublished[k] # 0 => unpublished[k] \in Waiting /\ part'[unpublished[k]] = part[unpublished[k]]
    BY Zenon, <2>0, <2>3 DEF KeyOK
  <2>5. Lands(k)'
    <3>1. Lands(k)
      BY Zenon, <2>0 DEF KeyOK
    <3>2. CASE unpublished[k] # 0 /\ part[unpublished[k]].stored
      BY Zenon, <2>1, <2>2, <2>3, <2>4, <3>1, <3>2 DEF Lands
    <3>3. CASE ~(unpublished[k] # 0 /\ part[unpublished[k]].stored)
      BY Zenon, <2>1, <2>2, <2>3, <2>4, <3>1, <3>3 DEF Lands
    <3>. QED  BY Zenon, <3>2, <3>3
  <2>6. \A j \in Waiting' : k \in DOMAIN part'[j].delta => unpublished'[k] = j
    BY Zenon, <2>0, <2>1, <2>3 DEF KeyOK
  <2>7. unpublished'[k] # 0 => /\ unpublished'[k] \in Waiting' /\ k \in DOMAIN part'[unpublished'[k]].delta
                               /\ \A j \in Writers(k, AllJobs)' : j <= unpublished'[k]
    BY Zenon, <2>0, <2>1, <2>4 DEF KeyOK
  <2>8. Lists(mem'[k], Writers(k, AllJobs)' \ {unpublished'[k]}) /\ (k \notin holds' => pending'[k] = <<>>)
    BY Zenon, <2>0, <2>1, <2>2, <2>3 DEF KeyOK
  <2>. QED  BY Zenon, <2>5, <2>6, <2>7, <2>8 DEF KeyOK
<1>AdmitKeys. ASSUME Rest, Others, NEW p, Admits(p), Healthy => \A k \in Docs : Fits(k, p)
              PROVE  KeysOK'
  <2>. USE <1>AdmitKeys
  <2>1. Healthy' => Healthy
    BY Zenon, <1>AdmitJobs
  <2>2. ASSUME Healthy, NEW k \in Docs PROVE KeyOK(k)'
    BY Zenon, <2>2, <1>AdmitKeyWritten, <1>AdmitKeyOther
  <2>. QED  BY Zenon, <2>1, <2>2 DEF KeysOK
\* The parts that may still come to Storage after an admission
<1>AdmitBound. ASSUME Rest, Others, NEW p, Admits(p), NEW j \in Bound'
               PROVE  j \in Bound \/ (j = line.job /\ Healthy)
  <2>. USE <1>AdmitBound
  <2>1. failed' <=> failed
    BY Zenon, <1>AdmitJobs
  <2>2. CASE Queues(p)
    <3>1. call' = call /\ Flight' = Flight \cup {line.job}
      BY Zenon, <2>2 DEF Queues, Queued
    <3>2. Healthy' <=> Healthy
      BY Zenon, <2>1, <3>1 DEF Healthy
    <3>. QED  BY Zenon, <3>1, <3>2 DEF Bound
  <2>3. CASE Drops(p)
    <3>1. failed /\ call' = call /\ call.at = "none"
      BY Zenon, <2>3 DEF Drops
    <3>2. ~Healthy' /\ call'.at # "storing"
      BY Zenon, <2>1, <3>1 DEF Healthy
    <3>. QED  BY Zenon, <3>2 DEF Bound
  <2>4. CASE Sends(p)
    <3>1. ~failed /\ call.at = "none" /\ Flight' = {line.job} /\ call'.at \in {"storing", "publishing"}
      BY Zenon, <2>4 DEF Sends
    <3>2. Healthy' /\ Healthy
      BY Zenon, <2>1, <3>1 DEF Healthy
    <3>. QED  BY Zenon, <3>1, <3>2 DEF Bound
  <2>. QED  BY Zenon, <2>2, <2>3, <2>4, <1>AdmitWhere
\* What the part lands on is what Storage will have by then.
<1>AdmitDisk. ASSUME Rest, Others, NEW p, Admits(p), Healthy => \A k \in Docs : Fits(k, p)
              PROVE  DiskOK'
  <2>. USE <1>AdmitDisk
  <2>0. TypeOK /\ DiskOK /\ line.job \in Jobs /\ disk' = disk /\ log' = log /\ part'[line.job] = p
    BY Zenon, <1>AdmitParts, <1>AdmitLine DEF Rest, Others
  <2>1. /\ \A j \in Flight : j \in Jobs /\ j < line.job /\ part'[j] = part[j]
        /\ \A j \in Range(log) : j \in Jobs /\ j < line.job /\ part'[j] = part[j]
    BY Zenon, <1>AdmitBehind
  <2>2. \A k : \A n \in Nat : n <= line.job => Writers(k, n)' = Writers(k, n)
    BY Zenon, <1>AdmitWriters
  <2>3. \A j \in Jobs : j < line.job => j \in Nat /\ j <= line.job /\ j + 1 \in Nat /\ j + 1 <= line.job
    BY <2>0, JobNumbers
  <2>4. ASSUME NEW k \in Docs PROVE Begins(disk'[k], Writers(k, AllJobs)')
    <3>1. Begins(disk[k], Writers(k, AllJobs))
      BY Zenon, <2>0 DEF DiskOK
    <3>2. /\ \A j \in Writers(k, AllJobs) : j < line.job
          /\ Writers(k, AllJobs) \subseteq Jobs
          /\ Writers(k, AllJobs)' = Writers(k, AllJobs) \cup (IF k \in Own(line.job, p) THEN {line.job} ELSE {})
      BY Zenon, <1>AdmitWriters
    <3>3. \A i \in Writers(k, AllJobs) : \A j \in Writers(k, AllJobs)' : j < i => j \in Writers(k, AllJobs)
      BY <2>0, <3>2, JobNumbers
    <3>4. Writers(k, AllJobs) \subseteq Writers(k, AllJobs)'
      BY Zenon, <3>2
    <3>. QED  BY Zenon, <2>0, <3>1, <3>3, <3>4, BeginsStays
  <2>5. \A i \in Range(log) : \A k \in Own(i, part'[i]) : i \in Range(disk[k])
    BY Zenon, <2>0, <2>1 DEF DiskOK
  <2>6. \A i \in Range(log) : \A k \in part'[i].basis : Writers(k, i)' \subseteq Range(disk[k])
    <3>1. \A i \in Range(log) : \A k \in part[i].basis : Writers(k, i) \subseteq Range(disk[k])
      BY Zenon, <2>0 DEF DiskOK
    <3>. QED  BY Zenon, <2>1, <2>2, <2>3, <3>1
  <2>7. ASSUME NEW i \in Bound', part'[i].stored, NEW k \in part'[i].basis, k \notin DOMAIN part'[i].delta
        PROVE  Writers(k, i)' \subseteq Range(disk[k])
    <3>1. CASE i \in Bound
      <4>1. i \in Jobs /\ i < line.job /\ part'[i] = part[i]
        BY Zenon, <2>1, <3>1, BoundIsFlight
      <4>2. Writers(k, i) \subseteq Range(disk[k])
        BY Zenon, <2>0, <2>7, <3>1, <4>1 DEF DiskOK
      <4>. QED  BY Zenon, <2>2, <2>3, <4>1, <4>2
    <3>2. CASE i = line.job /\ Healthy
      <4>1. k \in p.basis \ DOMAIN p.delta /\ k \in Docs
        <5>1. p \in Parts
          BY Zenon DEF Admits
        <5>2. p.basis \in SUBSET Docs
          BY Zenon, <5>1 DEF Parts
        <5>. QED  BY Zenon, <2>0, <2>7, <3>2, <5>2
      <4>2. KeyOK(k) /\ unpublished[k] = 0 /\ pending[k] = <<>>
        BY Zenon, <3>2, <4>1 DEF Others, KeysOK, Fits
      <4>3. Lists(disk[k] \o pending[k], Writers(k, AllJobs) \ {0})
        BY Zenon, <4>2 DEF KeyOK, Lands
      <4>4. disk[k] \o pending[k] = disk[k]
        BY <2>0, <4>1, <4>2 DEF TypeOK
      <4>5. Writers(k, i)' = Writers(k, AllJobs) /\ 0 \notin Writers(k, AllJobs)
        <5>1. i \in Nat /\ i <= line.job /\ 0 \notin Jobs
          BY <2>0, <3>2, JobNumbers
        <5>2. Writers(k, line.job) = Writers(k, AllJobs) /\ Writers(k, AllJobs) \subseteq Jobs
          BY Zenon, <1>AdmitWriters
        <5>. QED  BY Zenon, <2>2, <3>2, <5>1, <5>2
      <4>6. Writers(k, AllJobs) \ {0} = Writers(k, AllJobs)
        BY Zenon, <4>5
      <4>. QED  BY Zenon, <4>3, <4>4, <4>5, <4>6 DEF Lists
    <3>. QED  BY Zenon, <2>7, <3>1, <3>2, <1>AdmitBound
  <2>8. ASSUME call'.at = "storing", NEW n \in Left', NEW i, i = call'.parts[n], NEW k \in DOMAIN part'[i].delta
        PROVE  /\ Lists(disk[k] \o part'[i].delta[k], Writers(k, i + 1)')
               /\ \A m \in Left' : k \in DOMAIN part'[call'.parts[m]].delta => m = n
    <3>1. CASE Queues(p)
      <4>1. call' = call
        BY Zenon, <3>1 DEF Queues, Queued
      <4>2. \A m \in DOMAIN call.parts : /\ part'[call.parts[m]] = part[call.parts[m]]
                                         /\ call.parts[m] \in Jobs /\ call.parts[m] < line.job
        BY Zenon, <2>1, InRange DEF Flight
      <4>3. Left' = Left /\ Left \subseteq DOMAIN call.parts
        BY Zenon, <4>1, <4>2 DEF Left, Batches
      <4>4. n \in Left /\ n \in DOMAIN call.parts /\ i = call.parts[n] /\ k \in DOMAIN part[i].delta /\ call.at = "storing"
        BY Zenon, <2>8, <4>1, <4>2, <4>3
      <4>5. /\ Lists(disk[k] \o part[i].delta[k], Writers(k, i + 1))
            /\ \A m \in Left : k \in DOMAIN part[call.parts[m]].delta => m = n
        BY Zenon, <2>0, <4>4 DEF DiskOK
      <4>6. Writers(k, i + 1)' = Writers(k, i + 1)
        BY Zenon, <2>2, <2>3, <4>2, <4>4
      <4>. QED  BY Zenon, <4>1, <4>2, <4>3, <4>4, <4>5, <4>6
    <3>2. CASE Drops(p)
      BY Zenon, <2>8, <3>2 DEF Drops
    <3>3. CASE Sends(p)
      <4>1. call'.parts = <<line.job>> /\ ~failed /\ call.at = "none" /\ p.stored
        BY Zenon, <2>8, <3>3 DEF Sends
      <4>2. \A m \in DOMAIN call'.parts : m = 1 /\ call'.parts[m] = line.job
        BY <4>1
      <4>3. Left' \subseteq DOMAIN call'.parts
        BY Zenon DEF Left, Batches
      <4>4. Healthy
        BY Zenon, <4>1 DEF Healthy
      <4>5. i = line.job /\ k \in DOMAIN p.delta /\ k \in Docs
        <5>1. p \in Parts
          BY Zenon DEF Admits
        <5>2. p.delta \in Deltas
          BY Zenon, <5>1 DEF Parts
        <5>. QED  BY Zenon, <2>0, <2>8, <4>2, <4>3, <5>2, DeltaType
      <4>6. KeyOK(k)' /\ unpublished'[k] = i
        BY Zenon, <4>4, <4>5, <1>AdmitKeyWritten, <1>AdmitHealthy DEF AdmitKeyed
      <4>7. i # 0 /\ i \notin Range(log') /\ i \in Jobs
        BY Zenon, <2>0, <4>5, JobNumbers, <1>AdmitBehind
      <4>8. Lists(disk'[k] \o p.delta[k], Writers(k, AllJobs)')
        BY Zenon, <2>0, <4>1, <4>5, <4>6, <4>7 DEF KeyOK, Lands
      <4>9. Writers(k, i + 1)' = Writers(k, AllJobs)'
        <5>1. \A j \in Writers(k, AllJobs)' : j <= i
          BY Zenon, <4>6, <4>7 DEF KeyOK
        <5>2. \A j : j \in 1..((i + 1) - 1) <=> j \in 1..(AllJobs - 1) /\ j <= i
          BY <4>7, JobNumbers
        <5>3. Writers(k, AllJobs)' = {j \in 1..(AllJobs - 1) : k \in Own(j, part'[j])}
          BY Zenon DEF Writers, Own, AllJobs
        <5>4. {j \in 1..((i + 1) - 1) : k \in Own(j, part'[j])} = Writers(k, AllJobs)'
          BY Zenon, <5>1, <5>2, <5>3
        <5>5. Writers(k, i + 1)' = {j \in 1..((i + 1) - 1) : k \in Own(j, part'[j])}
          BY Zenon DEF Writers, Own
        <5>. QED  BY Zenon, <5>4, <5>5
      <4>. QED  BY Zenon, <2>0, <4>2, <4>3, <4>5, <4>8, <4>9
    <3>. QED  BY Zenon, <3>1, <3>2, <3>3, <1>AdmitWhere
  <2>9. \A i \in Range(log') : \A k \in Own(i, part[i])' : i \in Range(disk'[k])
    BY Zenon, <2>0, <2>5 DEF Own
  <2>10. (call.at = "storing" => \A n \in Left : \A k \in DOMAIN part[call.parts[n]].delta :
            /\ Lists(disk[k] \o part[call.parts[n]].delta[k], Writers(k, call.parts[n] + 1))
            /\ \A m \in Left : k \in DOMAIN part[call.parts[m]].delta => m = n)'
    <3>1. ASSUME call'.at = "storing", NEW n \in Left', NEW k \in DOMAIN part'[call'.parts[n]].delta
          PROVE  /\ Lists(disk[k] \o part[call.parts[n]].delta[k], Writers(k, call.parts[n] + 1))'
                 /\ \A m \in Left' : k \in DOMAIN part'[call'.parts[m]].delta => m = n
      <4>1. PICK i : i = call'.parts[n]
        OBVIOUS
      <4>2. /\ Lists(disk[k] \o part'[i].delta[k], Writers(k, i + 1)')
            /\ \A m \in Left' : k \in DOMAIN part'[call'.parts[m]].delta => m = n
        BY Zenon, <2>8, <3>1, <4>1
      <4>3. Writers(k, call.parts[n] + 1)' = Writers(k, i + 1)'
        BY Zenon, <4>1 DEF Writers, Own
      <4>4. Lists(disk'[k] \o part'[call'.parts[n]].delta[k], Writers(k, call.parts[n] + 1)')
        BY Zenon, <2>0, <4>1, <4>2, <4>3
      <4>. QED  BY Zenon, <4>2, <4>4 DEF Lists, InOrder
    <3>. QED  BY Zenon, <3>1
  <2>. QED  BY Zenon, <2>0, <2>4, <2>6, <2>7, <2>9, <2>10 DEF DiskOK
\* What comes to Storage of a key: what is held of it, then the commit's own change
<1>DeltaHas. ASSUME TypeOK, NEW i \in Jobs, NEW W \in SUBSET Docs, NEW H \in SUBSET Docs
             PROVE  /\ Delta(i, W, H) \in Deltas /\ DOMAIN Delta(i, W, H) = W \cup H
                    /\ \A k \in W \cup H : Delta(i, W, H)[k] =
                          IF k \in H THEN (IF k \in W THEN pending[k] \o <<i>> ELSE pending[k]) ELSE <<i>>
  <2>. USE <1>DeltaHas
  <2>1. \A k \in Docs : pending[k] \in Seq(Jobs)
    BY Zenon DEF TypeOK
  <2>2. \A s \in Seq(Jobs) : s \o <<>> = s /\ s \o <<i>> \in Seq(Jobs) /\ <<>> \o s = s
    OBVIOUS
  <2>3. <<i>> \in Seq(Jobs) /\ <<>> \in Seq(Jobs)
    OBVIOUS
  <2>4. DOMAIN Delta(i, W, H) = W \cup H /\ Delta(i, W, H) = [k \in W \cup H |-> Delta(i, W, H)[k]]
    BY Zenon DEF Delta
  <2>5. ASSUME NEW k \in W \cup H
        PROVE  Delta(i, W, H)[k] = IF k \in H THEN (IF k \in W THEN pending[k] \o <<i>> ELSE pending[k]) ELSE <<i>>
    <3>1. Delta(i, W, H)[k] = (IF k \in H THEN pending[k] ELSE <<>>) \o (IF k \in W THEN <<i>> ELSE <<>>)
      BY Zenon DEF Delta
    <3>2. k \in Docs
      BY Zenon
    <3>. QED  BY Zenon, <2>1, <2>2, <2>3, <2>5, <3>1, <3>2
  <2>6. \A k \in W \cup H : Delta(i, W, H)[k] \in Seq(Jobs)
    BY Zenon, <2>1, <2>2, <2>3, <2>5
  <2>7. W \cup H \in SUBSET Docs
    BY Zenon
  <2>8. Delta(i, W, H) \in Deltas
    BY Zenon, <2>4, <2>6, <2>7, DeltaIs
  <2>. QED  BY Zenon, <2>4, <2>5, <2>8
\* What a deferred commit admits fits: it goes to the keys it has read, which nobody else is writing.
<1>HeldAdmits. ASSUME Rest, Others, CommitHeld
               PROVE  \E p : Admits(p) /\ (Healthy => \A k \in Docs : Fits(k, p))
  <2>. USE <1>HeldAdmits
  <2>0. TypeOK /\ LineOK /\ ReadsOK /\ line.at = "settling" /\ call.at # "failing"
    BY Zenon DEF Rest, CommitHeld, Settling, Running
  <2>1. line.job \in Jobs
    BY Zenon, <2>0, OnLine
  <2>2. PICK W \in (SUBSET (Docs \cap DOMAIN line.read)) \ {{}} :
          admit(line.job, [NoPart EXCEPT !.delta = [k \in W |-> <<line.job>>]])
    BY Zenon DEF CommitHeld
  <2>. DEFINE d == [k \in W |-> <<line.job>>]
              p == [NoPart EXCEPT !.delta = d]
  <2>3. DOMAIN d = W /\ \A k \in W : d[k] = <<line.job>>
    OBVIOUS
  <2>4. d \in Deltas
    <3>1. <<line.job>> \in Seq(Jobs)
      BY <2>1
    <3>. QED  BY Zenon, <2>3, <3>1, DeltaIs
  <2>. HIDE DEF d
  <2>5. p \in Parts /\ p.delta = d /\ p.stored = FALSE /\ p.taken = {} /\ p.basis = {}
    BY Zenon, <2>4, NoPartType DEF Parts
  <2>6. p # NoPart
    BY Zenon, <2>3, <2>5, NoPartType
  <2>7. admit(line.job, p)
    BY Zenon, <2>2 DEF d
  <2>. HIDE DEF p
  <2>8. /\ UNCHANGED <<jobs, started, stateVars, told, early, lastDelivered, sessionVars>> /\ Leave
    BY Zenon DEF CommitHeld
  <2>9. pending' = pending /\ mem' = mem /\ holds' = holds /\ disk' = disk /\ log' = log
    BY Zenon, <2>8 DEF stateVars
  <2>10. line' = Free /\ stale' = (IF Right THEN stale ELSE stale \cup {line.job})
    BY Zenon, <2>8 DEF Leave, Right
  <2>11. Admits(p)
    <3>1. pending' \in [Docs -> Seq(Jobs)] /\ p.taken \subseteq DOMAIN p.delta
      BY Zenon, <2>0, <2>5, <2>9 DEF TypeOK
    <3>. QED  BY Zenon, <2>0, <2>5, <2>6, <2>7, <2>8, <2>9, <2>10, <3>1 DEF Admits
  <2>12. ASSUME Healthy, NEW k \in Docs PROVE Fits(k, p)
    <3>1. k \in DOMAIN p.delta => unpublished[k] = 0 /\ p.delta[k] = <<line.job>>
      BY Zenon, <2>0, <2>3, <2>5, <2>12 DEF ReadsOK
    <3>. QED  BY Zenon, <2>5, <2>9, <3>1 DEF Fits
  <2>. QED  BY Zenon, <2>11, <2>12
\* What a commit admits fits: it carries what was held of the keys it has read or writes.
<1>StoredAdmits. ASSUME Rest, Others, CommitStored
                 PROVE  \E p : Admits(p) /\ (Healthy => \A k \in Docs : Fits(k, p))
  <2>. USE <1>StoredAdmits
  <2>0. TypeOK /\ LineOK /\ ReadsOK /\ line.at = "settling" /\ call.at # "failing"
    BY Zenon DEF Rest, CommitStored, Settling, Running
  <2>1. line.job \in Jobs
    BY Zenon, <2>0, OnLine
  <2>. DEFINE H == holds \cap DOMAIN line.read
  <2>2. PICK W \in SUBSET (Docs \cap DOMAIN line.read) :
          /\ admit(line.job, [stored |-> TRUE, delta |-> Delta(line.job, W, H), taken |-> H, basis |-> DOMAIN line.read])
          /\ pending' = [k \in Docs |-> IF k \in H THEN <<>> ELSE pending[k]]
    BY Zenon DEF CommitStored
  <2>. DEFINE p == [stored |-> TRUE, delta |-> Delta(line.job, W, H), taken |-> H, basis |-> DOMAIN line.read]
  <2>3. H \in SUBSET Docs /\ W \in SUBSET Docs /\ DOMAIN line.read \in SUBSET Docs
    BY Zenon, <2>0, LineType
  <2>. HIDE DEF H
  <2>4. /\ Delta(line.job, W, H) \in Deltas /\ DOMAIN Delta(line.job, W, H) = W \cup H
        /\ \A k \in W \cup H : Delta(line.job, W, H)[k] =
              IF k \in H THEN (IF k \in W THEN pending[k] \o <<line.job>> ELSE pending[k]) ELSE <<line.job>>
    BY <2>0, <2>1, <2>3, <1>DeltaHas
  <2>5. /\ p \in Parts /\ p.delta = Delta(line.job, W, H) /\ p.stored = TRUE /\ p.taken = H
        /\ p.basis = DOMAIN line.read /\ admit(line.job, p)
    BY Zenon, <2>2, <2>3, <2>4 DEF Parts
  <2>6. p # NoPart /\ H \subseteq W \cup H
    BY Zenon, <2>5, NoPartType
  <2>. HIDE DEF p
  <2>8. /\ UNCHANGED <<jobs, started, mem, holds, disk, log, told, early, lastDelivered, sessionVars>> /\ Leave
    BY Zenon DEF CommitStored
  <2>9. pending' \in [Docs -> Seq(Jobs)]
    <3>1. <<>> \in Seq(Jobs)
      OBVIOUS
    <3>. QED  BY Zenon, <2>0, <2>2, <3>1 DEF TypeOK
  <2>10. line' = Free /\ stale' = (IF Right THEN stale ELSE stale \cup {line.job})
    BY Zenon, <2>8 DEF Leave, Right
  <2>11. Admits(p)
    BY Zenon, <2>0, <2>4, <2>5, <2>6, <2>8, <2>9, <2>10 DEF Admits
  <2>12. ASSUME Healthy, NEW k \in Docs PROVE Fits(k, p)
    <3>1. (k \notin holds => pending[k] = <<>>) /\ (k \in DOMAIN line.read => unpublished[k] = 0)
      BY Zenon, <2>0, <2>12 DEF Others, KeysOK, KeyOK, ReadsOK
    <3>2. W \subseteq DOMAIN line.read /\ (k \in H <=> k \in holds /\ k \in DOMAIN line.read)
      BY Zenon DEF H
    <3>3. pending'[k] = IF k \in H THEN <<>> ELSE pending[k]
      BY Zenon, <2>2
    <3>4. CASE k \in H
      <4>1. k \in DOMAIN p.delta /\ p.delta[k] \in {pending[k], pending[k] \o <<line.job>>}
        BY Zenon, <2>4, <2>5, <3>4
      <4>. QED  BY Zenon, <2>5, <3>1, <3>2, <3>3, <3>4, <4>1 DEF Fits
    <3>5. CASE k \notin H /\ k \in W
      <4>1. k \in DOMAIN p.delta /\ p.delta[k] = <<line.job>> /\ pending[k] = <<>> /\ unpublished[k] = 0
        BY Zenon, <2>4, <2>5, <3>1, <3>2, <3>5
      <4>2. pending[k] \o <<line.job>> = <<line.job>>
        BY <4>1
      <4>. QED  BY Zenon, <2>5, <3>3, <4>1, <4>2 DEF Fits
    <3>6. CASE k \notin H /\ k \notin W
      <4>1. k \notin DOMAIN p.delta /\ (k \in p.basis => unpublished[k] = 0 /\ pending[k] = <<>>)
        BY Zenon, <2>4, <2>5, <3>1, <3>2, <3>6
      <4>. QED  BY Zenon, <3>3, <3>6, <4>1 DEF Fits
    <3>. QED  BY Zenon, <3>4, <3>5, <3>6
  <2>. QED  BY Zenon, <2>11, <2>12
\* The upkeep job stores all that is held, or goes on at once.
<1>HoldsAdmits. ASSUME Rest, Others, storeHolds
                PROVE  \/ UpkeepGoes
                       \/ \E p : Admits(p) /\ (Healthy => \A k \in Docs : Fits(k, p))
  <2>. USE <1>HoldsAdmits
  <2>0. TypeOK /\ LineOK /\ line.at = "barrier" /\ \A i \in Jobs : HasPart(i) => i \in open
    BY Zenon DEF Rest, storeHolds, Running
  <2>1. line.job \in Jobs /\ DOMAIN line.read = {}
    BY Zenon, <2>0, OnLine DEF LineOK
  <2>2. UNCHANGED <<jobs, started, stale, mem, holds, disk, log, told, early, lastDelivered, sessionVars>>
    BY Zenon DEF storeHolds
  <2>3. CASE holds = {} \/ (failed /\ jobs[line.job] = "close")
    <3>1. /\ line' = (IF jobs[line.job] = "close" THEN [line EXCEPT !.at = "closing"] ELSE Free)
          /\ UNCHANGED <<writerVars, pending, outcome>>
      BY Zenon, <2>3 DEF storeHolds
    <3>2. /\ Still /\ UNCHANGED <<jobs, started, stale, outcomeVars, failAt, ownOutcomes, fired>> /\ closing' = closing
      BY Zenon, <2>2, <3>1 DEF Still, writerVars, stateVars, outcomeVars, sessionVars
    <3>3. UpkeepGoes
      BY Zenon, <2>0, <2>3, <3>1, <3>2 DEF UpkeepGoes
    <3>. QED  BY Zenon, <3>3
  <2>4. CASE ~(holds = {} \/ (failed /\ jobs[line.job] = "close"))
    <3>. DEFINE p == [stored |-> TRUE, delta |-> Delta(line.job, {}, holds), taken |-> holds, basis |-> {}]
    <3>1. /\ admit(line.job, p) /\ pending' = [k \in Docs |-> <<>>] /\ line' = [line EXCEPT !.at = "stored"]
      BY Zenon, <2>4 DEF storeHolds
    <3>2. holds \in SUBSET Docs /\ {} \in SUBSET Docs
      BY Zenon, <2>0 DEF TypeOK
    <3>9. /\ Delta(line.job, {}, holds) \in Deltas /\ DOMAIN Delta(line.job, {}, holds) = {} \cup holds
          /\ \A k \in {} \cup holds : Delta(line.job, {}, holds)[k] =
                IF k \in holds THEN (IF k \in {} THEN pending[k] \o <<line.job>> ELSE pending[k]) ELSE <<line.job>>
      BY <2>0, <2>1, <3>2, <1>DeltaHas
    <3>3. /\ Delta(line.job, {}, holds) \in Deltas /\ DOMAIN Delta(line.job, {}, holds) = holds
          /\ \A k \in holds : Delta(line.job, {}, holds)[k] = pending[k]
      BY Zenon, <3>9
    <3>4. /\ p \in Parts /\ p.delta = Delta(line.job, {}, holds) /\ p.stored = TRUE /\ p.taken = holds /\ p.basis = {}
      BY Zenon, <3>2, <3>3 DEF Parts
    <3>5. p # NoPart
      BY Zenon, <3>4, NoPartType
    <3>. HIDE DEF p
    <3>6. pending' \in [Docs -> Seq(Jobs)]
      <4>1. <<>> \in Seq(Jobs)
        OBVIOUS
      <4>. QED  BY Zenon, <3>1, <4>1
    <3>7. stale' = (IF Right THEN stale ELSE stale \cup {line.job})
      BY Zenon, <2>1, <2>2 DEF Right
    <3>8. Admits(p)
      BY Zenon, <2>0, <2>2, <3>1, <3>3, <3>4, <3>5, <3>6, <3>7 DEF Admits
    <3>10. ASSUME Healthy, NEW k \in Docs PROVE Fits(k, p)
      <4>0. KeyOK(k) /\ FlightOK
        BY Zenon, <3>10 DEF Others, KeysOK
      <4>1. unpublished[k] = 0
        <5>1. \A i \in Waiting : i \in Flight
          BY Zenon, InRange DEF Waiting, Flight
        <5>2. \A i \in Flight : i \in Jobs /\ HasPart(i)
          BY Zenon, <2>0, <4>0, InLogHasPart DEF Flight, Others
        <5>3. Waiting = {}
          BY Zenon, <2>0, <4>0, <5>1, <5>2 DEF FlightOK
        <5>. QED  BY Zenon, <4>0, <5>3 DEF KeyOK
      <4>2. pending'[k] = <<>> /\ (k \notin holds => pending[k] = <<>>)
        BY Zenon, <3>1, <4>0 DEF KeyOK
      <4>. QED  BY Zenon, <3>3, <3>4, <4>1, <4>2 DEF Fits
    <3>. QED  BY Zenon, <3>8, <3>10
  <2>. QED  BY Zenon, <2>3, <2>4
<1>1. Rest /\ Others
  BY Zenon DEF IInv, Rest, Others
<1>2. ASSUME NEW p, Admits(p), Healthy => \A k \in Docs : Fits(k, p) PROVE IInv'
  BY Zenon, <1>1, <1>2, <1>AdmitTypeOK, <1>AdmitLineOK, <1>AdmitReads, <1>AdmitTells, <1>AdmitClose, <1>AdmitCallOK, <1>AdmitFlight, <1>AdmitLog,
     <1>AdmitKeys, <1>AdmitDisk DEF IInv
<1>3. ASSUME UpkeepGoes PROVE IInv'
  BY Zenon, <1>3, BesideInv DEF BesideStep
<1>. QED  BY Zenon, <1>1, <1>2, <1>3, <1>HeldAdmits, <1>StoredAdmits, <1>HoldsAdmits

-----------------------------------------------------------------------------
(* The writer *)

\* The steps of the writer leave the line, the parts and the callers alone.
Aside == UNCHANGED <<jobs, started, line, stale, part, told, early, lastDelivered, fired>>

\* Steps of the writer leave the line and the parts alone.
LEMMA AsideSame ==
    ASSUME Aside
    PROVE  /\ \A i : HasPart(i)' <=> HasPart(i)
           /\ \A k, n : Writers(k, n)' = Writers(k, n)
           /\ \A i : Own(i, part[i])' = Own(i, part[i])
           /\ (Right' <=> Right) /\ Stored' = Stored
<1>1. UNCHANGED <<line, part>>
  BY Zenon DEF Aside
<1>2. \A k, n : Writers(k, n)' = Writers(k, n)
  BY Zenon, <1>1 DEF Writers, Own
<1>3. Right' <=> Right
  <2>1. \A k : Writers(k, line.job)' = Writers(k, line.job)
    BY Zenon, <1>1 DEF Writers, Own
  <2>2. Right' <=> \A k \in DOMAIN line.read : Lists(line.read[k], Writers(k, line.job)')
    BY Zenon, <1>1 DEF Right, Lists, InOrder
  <2>. QED  BY Zenon, <2>1, <2>2 DEF Right
<1>4. Stored' = Stored
  BY Zenon, <1>1 DEF Stored
<1>. QED  BY Zenon, <1>1, <1>2, <1>3, <1>4 DEF HasPart, Own

\* Only parts are settled, and the Session is sealed at most.
LEMMA AsideLine ==
    ASSUME TypeOK, LineOK, Aside, call.at # "none",
           \A i \in Jobs : outcome'[i] # outcome[i] => HasPart(i),
           closing' = closing \/ (closing = "open" /\ closing' = "sealed")
    PROVE  LineOK' /\ closing # "closed" /\ closing' # "closed"
<1>1. UNCHANGED <<jobs, started, line>> /\ \A i : HasPart(i)' <=> HasPart(i)
  BY Zenon, AsideSame DEF Aside
<1>2. closing # "closed" /\ closing' # "closed"
  BY Zenon DEF LineOK
<1>3. JobsOK'
  BY Zenon, <1>1 DEF LineOK, JobsOK
<1>4. \A i \in Jobs : HasPart(i)' \/ outcome'[i] # "none" => HasPart(i) \/ outcome[i] # "none"
  BY Zenon, <1>1
<1>5. line.at = "stored" => HasPart(started)'
  BY Zenon, <1>1 DEF LineOK
<1>6. \A i \in Jobs : HasPart(i)' \/ outcome'[i] # "none" =>
          i <= started /\ (i = line.job => line.at \in {"stored", "closing"})
  BY Zenon, <1>4 DEF LineOK
<1>. QED  BY Zenon, <1>1, <1>2, <1>3, <1>5, <1>6 DEF LineOK

\* Places and jobs of a list in order correspond.
LEMMA OrderedParts ==
    ASSUME NEW s \in Seq(Jobs), InOrder(s), NEW m \in DOMAIN s, NEW n \in DOMAIN s
    PROVE  /\ m \in Nat /\ n \in Nat /\ s[m] \in Jobs /\ s[n] \in Jobs
           /\ (s[m] < s[n] <=> m < n) /\ (s[m] = s[n] <=> m = n)
<1>1. m \in Nat /\ n \in Nat /\ s[m] \in Jobs /\ s[n] \in Jobs
  OBVIOUS
<1>2. (m < n => s[m] < s[n]) /\ (n < m => s[n] < s[m])
  BY DEF InOrder
<1>. QED  BY <1>1, <1>2, JobNumbers

\* While the call is being stored all of it waits.
LEMMA StoringWaits ==
    ASSUME TypeOK, CallOK, call.at = "storing"
    PROVE  Waiting = Flight /\ Range(call.parts) \subseteq Bound
<1>1. call.next = 1 /\ call.why = "none"
  BY Zenon DEF CallOK
<1>2. call.parts \in Seq(Jobs)
  BY Zenon, CallType
<1>3. {m \in DOMAIN call.parts : m >= call.next /\ ~(m = call.next /\ call.why = "observer")} = DOMAIN call.parts
  BY <1>1, <1>2
<1>4. Waiting = Flight
  BY Zenon, <1>3 DEF Waiting, Flight, Range
<1>. QED  BY Zenon, <1>4 DEF Bound, Flight

\* The batch that Storage stores next
NextBatch(n) ==
    /\ call.at = "storing" /\ n \in Left /\ \A m \in Left : n <= m
    /\ log' = Append(log, call.parts[n])
    /\ disk' = [k \in Docs |-> IF k \in DOMAIN part[call.parts[n]].delta
                               THEN disk[k] \o part[call.parts[n]].delta[k] ELSE disk[k]]
    /\ call' = [call EXCEPT !.durable = n]
    /\ Aside /\ UNCHANGED <<queue, unpublished, open, mem, holds, pending, outcome, sessionVars>>

BatchHas(n, i) ==
    /\ n \in DOMAIN call.parts /\ n \in Nat /\ i \in Jobs /\ i \in Range(call.parts) /\ part[i].stored
    /\ i \notin Range(log) /\ HasPart(i) /\ i \in Bound
    /\ \A m \in Batches : m \in DOMAIN call.parts /\ m \in Nat /\ (m < n => m <= call.durable) /\ (n < m => call.durable < m)
    /\ \A m \in DOMAIN call.parts : (call.parts[m] < i <=> m < n) /\ (call.parts[m] = i <=> m = n)
    /\ \A j \in Range(queue) : i < j
    /\ call.parts \in Seq(Jobs) /\ call.durable \in Nat

\* What the batch changes of what Storage holds
BatchDoes(n, i) ==
    /\ log' = Append(log, i) /\ log' \in Seq(Jobs) /\ Range(log') = Range(log) \cup {i}
    /\ disk' \in [Docs -> Seq(Jobs)]
    /\ \A k \in Docs : k \in DOMAIN part[i].delta =>
          disk'[k] = disk[k] \o part[i].delta[k] /\ Lists(disk'[k], Writers(k, i + 1))
    /\ \A k \in Docs : k \notin DOMAIN part[i].delta => disk'[k] = disk[k]
    /\ \A k \in Docs : Range(disk[k]) \subseteq Range(disk'[k])
    /\ call' \in Calls /\ call'.durable = n /\ call'.parts = call.parts /\ call'.at = call.at
    /\ call'.received = call.received /\ call'.result = call.result /\ call'.next = call.next /\ call'.why = call.why

\* Storage makes the next batch durable.
LEMMA StoreBatchInv ==
    ASSUME IInv, StoreBatch
    PROVE  IInv'
\* The batch, what is known of it, what it does and what it leaves
<1>BatchIs. ASSUME StoreBatch
            PROVE  \E n \in Left : NextBatch(n)
  BY Zenon, <1>BatchIs DEF StoreBatch, NextBatch, Aside, lineVars, outcomeVars, sessionVars
<1>BatchFacts. ASSUME IInv, NEW n, NextBatch(n), NEW i, i = call.parts[n]
               PROVE  BatchHas(n, i)
  <2>. USE <1>BatchFacts
  <2>0. TypeOK /\ CallOK /\ FlightOK /\ LogOK /\ call.at = "storing" /\ n \in Left
    BY Zenon DEF IInv, NextBatch
  <2>1. call.parts \in Seq(Jobs) /\ call.durable \in Nat /\ InOrder(call.parts)
    BY Zenon, <2>0, CallType DEF FlightOK
  <2>2. n \in DOMAIN call.parts /\ part[i].stored /\ n \in Batches /\ n > call.durable
    BY Zenon, <2>0 DEF Left, Batches
  <2>3. n \in Nat /\ i \in Jobs /\ i \in Range(call.parts)
    BY <2>1, <2>2, InRange
  <2>4. i \notin Range(log)
    <3>1. n <= call.durable <=> call.parts[n] \in Range(log)
      BY Zenon, <2>0, <2>2 DEF LogOK
    <3>. QED  BY <2>1, <2>2, <2>3, <3>1
  <2>5. HasPart(i) /\ \A j \in Range(queue) : i < j
    BY Zenon, <2>0, <2>3 DEF FlightOK, Flight
  <2>6. i \in Bound
    BY Zenon, <2>0, <2>3, StoringWaits
  <2>7. ASSUME NEW m \in Batches
        PROVE  m \in DOMAIN call.parts /\ m \in Nat /\ (m < n => m <= call.durable) /\ (n < m => call.durable < m)
    <3>1. m \in DOMAIN call.parts
      BY Zenon DEF Batches
    <3>2. m \in Nat
      BY <2>1, <3>1
    <3>3. m > call.durable => n <= m
      BY Zenon DEF NextBatch, Left
    <3>. QED  BY <2>1, <2>2, <2>3, <3>1, <3>2, <3>3
  <2>8. ASSUME NEW m \in DOMAIN call.parts
        PROVE  (call.parts[m] < i <=> m < n) /\ (call.parts[m] = i <=> m = n)
    BY Zenon, <2>1, <2>2, OrderedParts
  <2>. QED  BY Zenon, <2>1, <2>2, <2>3, <2>4, <2>5, <2>6, <2>7, <2>8 DEF BatchHas
<1>BatchStores. ASSUME IInv, NEW n, NextBatch(n), NEW i, i = call.parts[n]
                PROVE  BatchDoes(n, i)
  <2>. USE <1>BatchStores
  <2>0. TypeOK /\ i \in Jobs /\ n \in Left /\ n \in Nat /\ call.at = "storing" /\ DiskOK
    BY Zenon, <1>BatchFacts DEF IInv, NextBatch, BatchHas
  <2>1. /\ log \in Seq(Jobs) /\ disk \in [Docs -> Seq(Jobs)] /\ call \in Calls
        /\ \A k \in DOMAIN part[i].delta : part[i].delta[k] \in Seq(Jobs)
    BY Zenon, <2>0, PartType DEF TypeOK
  <2>2. /\ log' = Append(log, i) /\ call' = [call EXCEPT !.durable = n]
        /\ disk' = [k \in Docs |-> IF k \in DOMAIN part[i].delta THEN disk[k] \o part[i].delta[k] ELSE disk[k]]
    BY Zenon DEF NextBatch
  <2>3. log' \in Seq(Jobs) /\ Range(log') = Range(log) \cup {i}
    BY <2>0, <2>1, <2>2, RangeAppend
  <2>4. \A s, t \in Seq(Jobs) : s \o t \in Seq(Jobs)
    OBVIOUS
  <2>5. disk' \in [Docs -> Seq(Jobs)]
    BY Zenon, <2>1, <2>2, <2>4
  <2>6. ASSUME NEW k \in Docs, k \in DOMAIN part[i].delta
        PROVE  disk'[k] = disk[k] \o part[i].delta[k] /\ Lists(disk'[k], Writers(k, i + 1)) /\ Range(disk[k]) \subseteq Range(disk'[k])
    <3>1. disk'[k] = disk[k] \o part[i].delta[k]
      BY Zenon, <2>2, <2>6
    <3>2. Lists(disk[k] \o part[i].delta[k], Writers(k, i + 1))
      BY Zenon, <2>0, <2>6 DEF DiskOK
    <3>3. disk[k] \in Seq(Jobs) /\ part[i].delta[k] \in Seq(Jobs)
      BY Zenon, <2>1, <2>6
    <3>4. Range(disk[k] \o part[i].delta[k]) = Range(disk[k]) \cup Range(part[i].delta[k])
      BY <3>3, RangeConcat
    <3>. QED  BY Zenon, <3>1, <3>2, <3>4
  <2>7. \A k \in Docs : k \notin DOMAIN part[i].delta => disk'[k] = disk[k]
    BY Zenon, <2>2
  <2>8. call' \in Calls
    BY Zenon, <2>0, <2>1, <2>2 DEF Calls
  <2>9. /\ call'.durable = n /\ call'.parts = call.parts /\ call'.at = call.at
        /\ call'.received = call.received /\ call'.result = call.result /\ call'.next = call.next /\ call'.why = call.why
    BY Zenon, <2>1, <2>2 DEF Calls
  <2>. QED  BY Zenon, <2>2, <2>3, <2>5, <2>6, <2>7, <2>8, <2>9 DEF BatchDoes
\* What a batch leaves as it is
<1>BatchLeaves. ASSUME IInv, NEW n, NextBatch(n)
                PROVE  /\ Aside /\ UNCHANGED <<queue, unpublished, open, mem, holds, pending, outcome, failAt, ownOutcomes, closing>>
                       /\ UNCHANGED <<jobs, started, line, stale, part, told, early, lastDelivered, fired>>
                       /\ (failed' <=> failed) /\ (Healthy' <=> Healthy) /\ (\A i : Poisoned(i)' <=> Poisoned(i))
                       /\ Flight' = Flight /\ Waiting' = Waiting /\ Batches' = Batches /\ Bound' = Bound
  <2>. USE <1>BatchLeaves
  <2>1. Aside /\ UNCHANGED <<queue, unpublished, open, mem, holds, pending, outcome, failAt, ownOutcomes, closing>>
    BY Zenon DEF NextBatch, sessionVars
  <2>2. UNCHANGED <<jobs, started, line, stale, part, told, early, lastDelivered, fired>>
    BY Zenon, <2>1 DEF Aside
  <2>3. call'.parts = call.parts /\ call'.at = call.at /\ call'.next = call.next /\ call'.why = call.why
    <3>1. PICK i : i = call.parts[n]
      OBVIOUS
    <3>2. BatchDoes(n, i)
      BY <3>1, <1>BatchStores
    <3>. QED  BY Zenon, <3>2 DEF BatchDoes
  <2>4. (failed' <=> failed) /\ (Healthy' <=> Healthy) /\ \A i : Poisoned(i)' <=> Poisoned(i)
    BY Zenon, <2>1, <2>3 DEF failed, Healthy, Poisoned, NoFailure
  <2>5. Flight' = Flight /\ Waiting' = Waiting /\ Batches' = Batches
    BY Zenon, <2>1, <2>2, <2>3 DEF Flight, Waiting, Batches
  <2>6. Bound' = Bound
    BY Zenon, <2>3, <2>4, <2>5 DEF Bound
  <2>. QED  BY Zenon, <2>1, <2>2, <2>4, <2>5, <2>6
\* The log grows by the next of the stored parts.
<1>BatchLog. ASSUME IInv, NEW n, NextBatch(n)
             PROVE  LogOK'
  <2>. USE <1>BatchLog
  <2>0. TypeOK /\ CallOK /\ FlightOK /\ LogOK /\ call.at = "storing"
    BY Zenon DEF IInv, NextBatch
  <2>1. PICK i : i = call.parts[n]
    OBVIOUS
  <2>99. BatchHas(n, i) /\ BatchDoes(n, i)
    BY <2>1, <1>BatchFacts, <1>BatchStores
  <2>2. /\ n \in DOMAIN call.parts /\ n \in Nat /\ i \in Jobs /\ i \in Range(call.parts) /\ part[i].stored
        /\ i \notin Range(log) /\ HasPart(i) /\ call.durable \in Nat
        /\ \A m \in Batches : m \in DOMAIN call.parts /\ m \in Nat /\ (m < n => m <= call.durable) /\ (n < m => call.durable < m)
        /\ \A m \in DOMAIN call.parts : (call.parts[m] < i <=> m < n) /\ (call.parts[m] = i <=> m = n)
        /\ \A j \in Range(queue) : i < j
    BY Zenon, <2>99 DEF BatchHas
  <2>3. /\ log' = Append(log, i) /\ Range(log') = Range(log) \cup {i}
        /\ call'.durable = n /\ call'.parts = call.parts /\ call'.at = call.at /\ call'.received = call.received
    BY Zenon, <2>99 DEF BatchDoes
  <2>4. Aside /\ queue' = queue /\ (failed' <=> failed) /\ Flight' = Flight /\ Batches' = Batches /\ part' = part
    BY Zenon, <1>BatchLeaves
  <2>5. Stored' = Stored /\ Stored \subseteq Jobs /\ i \in Stored
    BY Zenon, <2>2, <2>4, AsideSame DEF Stored
  <2>6. Begins(log, Stored) /\ log \in Seq(Jobs) /\ Range(log) \subseteq Jobs
    BY Zenon, <2>0, RangeType DEF LogOK, TypeOK
  <2>7. ASSUME NEW j \in Stored, j < i PROVE j \in Range(log)
    <3>1. j \in Range(log) \/ j \in Flight
      BY Zenon, <2>0 DEF LogOK
    <3>2. j \notin Range(queue)
      <4>1. j \in Jobs /\ i \in Jobs
        BY Zenon, <2>2, <2>5
      <4>. QED  BY <2>2, <2>7, <4>1, JobNumbers
    <3>3. ASSUME NEW m \in DOMAIN call.parts, call.parts[m] = j PROVE j \in Range(log)
      <4>1. m \in Batches /\ m < n
        BY Zenon, <2>2, <2>7, <3>3 DEF Batches, Stored
      <4>2. m <= call.durable
        BY Zenon, <2>2, <4>1
      <4>. QED  BY Zenon, <2>0, <3>3, <4>1, <4>2 DEF LogOK
    <3>. QED  BY Zenon, <3>1, <3>2, <3>3, RangeIs DEF Flight
  <2>8. ASSUME NEW j \in Range(log) PROVE j < i
    <3>1. i < j => i \in Range(log)
      BY Zenon, <2>5, <2>6 DEF Begins
    <3>2. j \in Jobs /\ j # i
      BY Zenon, <2>2, <2>6
    <3>. QED  BY <2>2, <3>1, <3>2, JobNumbers
  <2>9. Begins(log', Stored')
    <3>1. Begins(Append(log, i), Stored)
      BY Zenon, <2>5, <2>6, <2>7, <2>8, BeginsMore
    <3>. QED  BY Zenon, <2>3, <2>5, <3>1
  <2>10. \A j \in Range(queue') : j \notin Range(log')
    <3>1. i \notin Range(queue)
      BY <2>2, JobNumbers
    <3>. QED  BY Zenon, <2>0, <2>3, <2>4, <3>1 DEF LogOK
  <2>11. ASSUME NEW m \in Batches PROVE m <= n <=> call.parts[m] \in Range(log')
    <3>1. m \in DOMAIN call.parts /\ m \in Nat /\ (call.parts[m] = i <=> m = n)
      BY Zenon, <2>2
    <3>2. m <= call.durable <=> call.parts[m] \in Range(log)
      BY Zenon, <2>0 DEF LogOK
    <3>3. CASE m = n
      <4>1. m <= n
        BY <2>2, <3>3
      <4>. QED  BY Zenon, <2>3, <3>1, <3>3, <4>1
    <3>4. CASE m < n
      <4>1. m <= n /\ m <= call.durable
        BY <2>2, <3>1, <3>4
      <4>. QED  BY Zenon, <2>3, <3>2, <4>1
    <3>5. CASE n < m
      <4>1. ~(m <= n) /\ ~(m <= call.durable) /\ m # n
        BY <2>2, <3>1, <3>5
      <4>. QED  BY Zenon, <2>3, <3>1, <3>2, <4>1
    <3>. QED  BY <2>2, <3>1, <3>3, <3>4, <3>5
  <2>12. \A m \in Batches : m <= call.received => call.parts[m] \in Range(log')
    BY Zenon, <2>0, <2>3 DEF LogOK
  <2>13. call'.at # "publishing"
    BY Zenon, <2>0, <2>3
  <2>14. \A j \in Stored' : j \in Range(log') \/ j \in Flight'
    BY Zenon, <2>0, <2>3, <2>4, <2>5 DEF LogOK
  <2>15. \A m \in Batches' : m <= call'.durable <=> call'.parts[m] \in Range(log')
    BY Zenon, <2>3, <2>4, <2>11
  <2>16. \A m \in Batches' : m <= call'.received => call'.parts[m] \in Range(log')
    BY Zenon, <2>3, <2>4, <2>12
  <2>. QED  BY Zenon, <2>9, <2>10, <2>13, <2>14, <2>15, <2>16 DEF LogOK
\* A key lands where its pending writer says.
<1>BatchKeys. ASSUME IInv, NEW n, NextBatch(n)
              PROVE  KeysOK'
  <2>. USE <1>BatchKeys
  <2>0. TypeOK /\ KeysOK /\ CallOK /\ call.at = "storing"
    BY Zenon DEF IInv, NextBatch
  <2>1. PICK i : i = call.parts[n]
    OBVIOUS
  <2>99. BatchHas(n, i) /\ BatchDoes(n, i)
    BY <2>1, <1>BatchFacts, <1>BatchStores
  <2>2. i \in Jobs /\ i \in Range(call.parts) /\ part[i].stored /\ i \notin Range(log) /\ i # 0
    BY Zenon, <2>99, JobNumbers DEF BatchHas
  <2>3. /\ Range(log') = Range(log) \cup {i}
        /\ \A k \in Docs : k \in DOMAIN part[i].delta => disk'[k] = disk[k] \o part[i].delta[k]
        /\ \A k \in Docs : k \notin DOMAIN part[i].delta => disk'[k] = disk[k]
    BY Zenon, <2>99 DEF BatchDoes
  <2>4. /\ Aside /\ UNCHANGED <<unpublished, mem, holds, pending, part>> /\ (Healthy' <=> Healthy) /\ Waiting' = Waiting
    BY Zenon, <1>BatchLeaves
  <2>5. \A k : Writers(k, AllJobs)' = Writers(k, AllJobs)
    <3>1. \A k, x : Writers(k, x)' = Writers(k, x)
      BY Zenon, <2>4, AsideSame
    <3>. QED  BY Zenon, <3>1 DEF AllJobs
  <2>6. i \in Waiting
    BY Zenon, <2>0, <2>2, StoringWaits DEF Flight
  <2>7. ASSUME Healthy, NEW k \in Docs PROVE KeyOK(k)'
    <3>0. KeyOK(k)
      BY Zenon, <2>0, <2>7 DEF KeysOK
    <3>1. Lands(k)'
      <4>0. Lands(k)
        BY Zenon, <3>0 DEF KeyOK
      <4>1. CASE k \in DOMAIN part[i].delta
        <5>1. unpublished[k] = i
          BY Zenon, <2>6, <3>0, <4>1 DEF KeyOK
        <5>2. pending[k] = <<>> /\ Lists(disk[k] \o part[i].delta[k], Writers(k, AllJobs))
          BY Zenon, <2>2, <4>0, <5>1 DEF Lands
        <5>3. i \in Range(log') /\ unpublished'[k] = i /\ part'[i].stored /\ pending'[k] = <<>>
              /\ Lists(disk'[k], Writers(k, AllJobs)')
          BY Zenon, <2>2, <2>3, <2>4, <2>5, <4>1, <5>1, <5>2
        <5>. QED  BY Zenon, <2>2, <5>3 DEF Lands
      <4>2. CASE k \notin DOMAIN part[i].delta
        <5>1. unpublished[k] # i
          BY Zenon, <2>2, <3>0, <4>2 DEF KeyOK
        <5>2. disk'[k] = disk[k] /\ (unpublished[k] \in Range(log') <=> unpublished[k] \in Range(log))
          BY Zenon, <2>3, <4>2, <5>1
        <5>3. CASE unpublished[k] # 0 /\ part[unpublished[k]].stored
          BY Zenon, <2>4, <2>5, <4>0, <5>2, <5>3 DEF Lands
        <5>4. CASE ~(unpublished[k] # 0 /\ part[unpublished[k]].stored)
          BY Zenon, <2>4, <2>5, <4>0, <5>2, <5>4 DEF Lands
        <5>. QED  BY Zenon, <5>3, <5>4
      <4>. QED  BY Zenon, <4>1, <4>2
    <3>2. unpublished'[k] # 0 => /\ unpublished'[k] \in Waiting' /\ k \in DOMAIN part'[unpublished'[k]].delta
                                 /\ \A j \in Writers(k, AllJobs)' : j <= unpublished'[k]
      BY Zenon, <2>4, <2>5, <3>0 DEF KeyOK
    <3>3. (\A j \in Waiting' : k \in DOMAIN part'[j].delta => unpublished'[k] = j) /\ (k \notin holds' => pending'[k] = <<>>)
      BY Zenon, <2>4, <3>0 DEF KeyOK
    <3>4. Lists(mem'[k], Writers(k, AllJobs)' \ {unpublished'[k]})
      BY Zenon, <2>4, <2>5, <3>0 DEF KeyOK
    <3>. QED  BY Zenon, <3>1, <3>2, <3>3, <3>4 DEF KeyOK
  <2>. QED  BY Zenon, <2>4, <2>7 DEF KeysOK
\* The disk of each key goes on listing its first writers.
<1>BatchDisk. ASSUME IInv, NEW n, NextBatch(n)
              PROVE  DiskOK'
  <2>. USE <1>BatchDisk
  <2>0. TypeOK /\ DiskOK /\ call.at = "storing" /\ n \in Left
    BY Zenon DEF IInv, NextBatch
  <2>1. PICK i : i = call.parts[n]
    OBVIOUS
  <2>99. BatchHas(n, i) /\ BatchDoes(n, i)
    BY <2>1, <1>BatchFacts, <1>BatchStores
  <2>2. i \in Jobs /\ part[i].stored /\ i \in Bound /\ n \in Nat /\ DOMAIN part[i].delta \subseteq Docs
    BY Zenon, <2>0, <2>99, PartType DEF BatchHas
  <2>3. /\ Range(log') = Range(log) \cup {i} /\ call'.durable = n /\ call'.parts = call.parts
        /\ \A k \in Docs : k \in DOMAIN part[i].delta => Lists(disk'[k], Writers(k, i + 1))
        /\ \A k \in Docs : k \notin DOMAIN part[i].delta => disk'[k] = disk[k]
        /\ \A k \in Docs : Range(disk[k]) \subseteq Range(disk'[k])
    BY Zenon, <2>99 DEF BatchDoes
  <2>4. Aside /\ part' = part /\ Bound' = Bound /\ Batches' = Batches
    BY Zenon, <1>BatchLeaves
  <2>5. /\ \A k, x : Writers(k, x)' = Writers(k, x)
        /\ \A j : Own(j, part[j])' = Own(j, part[j])
    BY Zenon, <2>4, AsideSame
  <2>6. \A j \in Jobs : DOMAIN part[j].delta \subseteq Docs /\ part[j].basis \subseteq Docs
    BY Zenon, <2>0, PartType
  <2>7. Range(log) \subseteq Jobs /\ Bound \subseteq Jobs
    BY Zenon, InLogHasPart, BoundIsFlight DEF IInv, Flight
  <2>8. ASSUME NEW k \in Docs PROVE Begins(disk'[k], Writers(k, AllJobs)')
    <3>0. Begins(disk[k], Writers(k, AllJobs))
      BY Zenon, <2>0 DEF DiskOK
    <3>9. Writers(k, AllJobs)' = Writers(k, AllJobs)
      BY Zenon, <2>5 DEF AllJobs
    <3>1. CASE k \in DOMAIN part[i].delta
      <4>1. Lists(disk'[k], Writers(k, i + 1))
        BY Zenon, <2>3, <3>1
      <4>2. \A j : j \in Writers(k, i + 1) <=> j \in Writers(k, AllJobs) /\ j <= i
        <5>1. \A j : j \in 1..((i + 1) - 1) <=> j \in 1..(AllJobs - 1) /\ j <= i
          BY <2>2, JobNumbers
        <5>. QED  BY Zenon, <5>1 DEF Writers
      <4>3. \A j : j \in Writers(k, AllJobs) => j \in Nat
        BY JobNumbers DEF Writers
      <4>4. \A x \in Writers(k, i + 1) : \A j \in Writers(k, AllJobs) : j < x => j \in Writers(k, i + 1)
        BY <2>2, <4>2, <4>3, JobNumbers
      <4>. QED  BY Zenon, <3>9, <4>1, <4>2, <4>4, ListsBegins
    <3>2. CASE k \notin DOMAIN part[i].delta
      BY Zenon, <2>3, <3>0, <3>2, <3>9
    <3>. QED  BY Zenon, <3>1, <3>2
  <2>9. ASSUME NEW k \in DOMAIN part[i].delta
        PROVE  /\ Writers(k, i) \subseteq Range(disk'[k]) /\ (k \in Own(i, part[i]) => i \in Range(disk'[k]))
    <3>1. Range(disk'[k]) = Writers(k, i + 1)
      BY Zenon, <2>2, <2>3 DEF Lists
    <3>2. \A j \in 1..(i - 1) : j \in 1..((i + 1) - 1)
      BY <2>2, JobNumbers
    <3>3. i \in 1..((i + 1) - 1)
      BY <2>2, JobNumbers
    <3>. QED  BY Zenon, <3>1, <3>2, <3>3 DEF Writers
  <2>10. ASSUME NEW j \in Range(log'), NEW k \in Own(j, part[j]) PROVE j \in Range(disk'[k])
    <3>1. CASE j = i
      BY Zenon, <2>9, <2>10, <3>1 DEF Own
    <3>2. CASE j \in Range(log)
      <4>1. j \in Range(disk[k]) /\ k \in Docs
        BY Zenon, <2>0, <2>6, <2>7, <2>10, <3>2 DEF DiskOK, Own
      <4>. QED  BY Zenon, <2>3, <4>1
    <3>. QED  BY Zenon, <2>3, <3>1, <3>2
  <2>11. ASSUME NEW j \in Range(log'), NEW k \in part[j].basis PROVE Writers(k, j) \subseteq Range(disk'[k])
    <3>1. CASE j \in Range(log)
      <4>1. Writers(k, j) \subseteq Range(disk[k]) /\ k \in Docs
        BY Zenon, <2>0, <2>6, <2>7, <2>11, <3>1 DEF DiskOK
      <4>. QED  BY Zenon, <2>3, <4>1
    <3>2. CASE j = i /\ k \in DOMAIN part[i].delta
      BY Zenon, <2>9, <3>2
    <3>3. CASE j = i /\ k \notin DOMAIN part[i].delta
      <4>1. Writers(k, i) \subseteq Range(disk[k]) /\ k \in Docs
        BY Zenon, <2>0, <2>2, <2>6, <2>11, <3>3 DEF DiskOK
      <4>. QED  BY Zenon, <2>3, <3>3, <4>1
    <3>. QED  BY Zenon, <2>3, <3>1, <3>2, <3>3
  <2>12. ASSUME NEW j \in Bound, part[j].stored, NEW k \in part[j].basis, k \notin DOMAIN part[j].delta
         PROVE  Writers(k, j) \subseteq Range(disk'[k])
    <3>1. Writers(k, j) \subseteq Range(disk[k]) /\ k \in Docs
      BY Zenon, <2>0, <2>6, <2>7, <2>12 DEF DiskOK
    <3>. QED  BY Zenon, <2>3, <3>1
  <2>13. \A m \in Left' : m \in Left /\ m # n /\ m \in DOMAIN call.parts
    <3>1. \A m \in Left' : m \in Batches /\ m > n
      BY Zenon, <2>3, <2>4 DEF Left
    <3>2. \A m \in Batches : m \in DOMAIN call.parts /\ m \in Nat /\ (n < m => call.durable < m)
      BY Zenon, <2>99 DEF BatchHas
    <3>3. call.durable \in Nat
      BY Zenon, <2>0, CallType
    <3>4. \A m \in Batches : m > n => m > call.durable /\ m # n
      BY <2>2, <3>2, <3>3
    <3>. QED  BY Zenon, <3>1, <3>2, <3>4 DEF Left
  <2>14. ASSUME NEW m \in Left', NEW j, j = call.parts[m], NEW k \in DOMAIN part[j].delta
         PROVE  /\ Lists(disk'[k] \o part[j].delta[k], Writers(k, j + 1))
                /\ \A x \in Left' : k \in DOMAIN part[call.parts[x]].delta => x = m
    <3>1. j \in Jobs /\ k \in Docs
      <4>1. call.parts \in Seq(Jobs) /\ m \in DOMAIN call.parts
        BY Zenon, <2>0, <2>13, CallType
      <4>2. j \in Jobs
        BY <2>14, <4>1
      <4>. QED  BY Zenon, <2>6, <4>2
    <3>2. /\ Lists(disk[k] \o part[j].delta[k], Writers(k, j + 1))
          /\ \A x \in Left : k \in DOMAIN part[call.parts[x]].delta => x = m
      BY Zenon, <2>0, <2>13, <2>14 DEF DiskOK
    <3>3. k \notin DOMAIN part[i].delta
      BY Zenon, <2>0, <2>1, <2>13, <3>2
    <3>. QED  BY Zenon, <2>3, <2>13, <3>1, <3>2, <3>3
  <2>15. \A m \in Left' : \A k \in DOMAIN part[call.parts[m]].delta :
            /\ Lists(disk'[k] \o part[call.parts[m]].delta[k], Writers(k, call.parts[m] + 1))
            /\ \A x \in Left' : k \in DOMAIN part[call.parts[x]].delta => x = m
    BY Zenon, <2>14
  <2>16. (\A m \in Left : \A k \in DOMAIN part[call.parts[m]].delta :
            /\ Lists(disk[k] \o part[call.parts[m]].delta[k], Writers(k, call.parts[m] + 1))
            /\ \A x \in Left : k \in DOMAIN part[call.parts[x]].delta => x = m)'
    <3>1. \A m, k : Writers(k, call.parts[m] + 1)' = Writers(k, call.parts[m] + 1)
      BY Zenon, <2>3, <2>4 DEF Writers, Own
    <3>2. ASSUME NEW m \in Left', NEW k \in DOMAIN part'[call'.parts[m]].delta
          PROVE  /\ Lists(disk[k] \o part[call.parts[m]].delta[k], Writers(k, call.parts[m] + 1))'
                 /\ \A x \in Left' : k \in DOMAIN part'[call'.parts[x]].delta => x = m
      <4>1. /\ Lists(disk'[k] \o part'[call'.parts[m]].delta[k], Writers(k, call.parts[m] + 1)')
            /\ \A x \in Left' : k \in DOMAIN part'[call'.parts[x]].delta => x = m
        <5>1. m \in Left' /\ k \in DOMAIN part[call.parts[m]].delta
          BY Zenon, <2>3, <2>4, <3>2
        <5>2. /\ Lists(disk'[k] \o part[call.parts[m]].delta[k], Writers(k, call.parts[m] + 1))
              /\ \A x \in Left' : k \in DOMAIN part[call.parts[x]].delta => x = m
          BY Zenon, <2>15, <5>1
        <5>3. \A x : part'[call'.parts[x]] = part[call.parts[x]]
          BY Zenon, <2>3, <2>4
        <5>. QED  BY Zenon, <3>1, <5>2, <5>3
      <4>. QED  BY Zenon, <4>1 DEF Lists, InOrder
    <3>. QED  BY Zenon, <3>2
  <2>17. \A j \in Range(log') : \A k \in Own(j, part[j])' : j \in Range(disk'[k])
    BY Zenon, <2>5, <2>10
  <2>18. \A j \in Range(log') : \A k \in part'[j].basis : Writers(k, j)' \subseteq Range(disk'[k])
    BY Zenon, <2>4, <2>5, <2>11
  <2>19. \A j \in Bound' : part'[j].stored => \A k \in part'[j].basis :
            k \notin DOMAIN part'[j].delta => Writers(k, j)' \subseteq Range(disk'[k])
    BY Zenon, <2>4, <2>5, <2>12
  <2>. QED  BY Zenon, <2>8, <2>16, <2>17, <2>18, <2>19 DEF DiskOK
<1>0. PICK n \in Left : NextBatch(n)
  BY Zenon, <1>BatchIs
<1>1. PICK i : i = call.parts[n]
  OBVIOUS
<1>2. BatchHas(n, i) /\ BatchDoes(n, i)
  BY <1>0, <1>1, <1>BatchFacts, <1>BatchStores
<1>3. /\ i \in Jobs /\ i \in Range(call.parts)
      /\ Range(log') = Range(log) \cup {i} /\ log' \in Seq(Jobs) /\ disk' \in [Docs -> Seq(Jobs)]
      /\ call' \in Calls /\ call'.parts = call.parts /\ call'.at = call.at
      /\ call'.received = call.received /\ call'.result = call.result /\ call'.next = call.next /\ call'.why = call.why
      /\ call.at = "storing"
  BY Zenon, <1>0, <1>2 DEF BatchHas, BatchDoes, NextBatch
<1>4. /\ Aside /\ UNCHANGED <<queue, unpublished, open, mem, holds, pending, outcome, failAt, ownOutcomes, closing>>
      /\ UNCHANGED <<jobs, started, line, stale, part, told, early, lastDelivered, fired>>
      /\ (failed' <=> failed) /\ (Healthy' <=> Healthy) /\ (\A j : Poisoned(j)' <=> Poisoned(j))
      /\ Flight' = Flight /\ Waiting' = Waiting
  BY Zenon, <1>0, <1>BatchLeaves
<1>5. /\ \A j : HasPart(j)' <=> HasPart(j)
      /\ \A k, x : Writers(k, x)' = Writers(k, x)
      /\ \A j : Own(j, part[j])' = Own(j, part[j])
      /\ (Right' <=> Right)
  BY Zenon, <1>4, AsideSame
<1>. USE DEF IInv
<1>6. TypeOK'
  BY Zenon, <1>3, <1>4 DEF TypeOK
<1>7. LineOK'
  <2>1. call.at # "none"
    BY Zenon, <1>3
  <2>. QED  BY Zenon, <1>4, <2>1, AsideLine
<1>8. CallOK'
  BY Zenon, <1>3, <1>4 DEF CallOK
<1>9. FlightOK'
  <2>1. \A m \in DOMAIN call'.parts : ~(m < call'.next) /\ ~(m = call'.next /\ call'.why = "observer")
    <3>1. call.parts \in Seq(Jobs) /\ call'.parts = call.parts /\ call'.next = 1 /\ call'.why = "none"
      BY Zenon, <1>3, CallType DEF CallOK
    <3>. QED  BY <3>1
  <2>. QED  BY Zenon, <1>3, <1>4, <1>5, <2>1 DEF FlightOK
<1>10. ReadsOK'
  <2>1. \A j \in stale' : /\ ~Healthy' /\ j <= started' /\ j # line'.job
                          /\ j \notin Range(log') /\ j \notin Range(call'.parts)
                          /\ j \in Range(queue') => failed'
                          /\ outcome'[j] = "ok" => Poisoned(j)'
                          /\ told'[j] # "ok"
    BY Zenon, <1>3, <1>4 DEF ReadsOK
  <2>2. Poisoned(line.job)' <=> Poisoned(line.job)
    BY Zenon, <1>4 DEF Poisoned, failed, NoFailure
  <2>3. line'.at = "settling" /\ ~Right' => (~failed' /\ call'.at = "failing") \/ Poisoned(line.job)'
    BY Zenon, <1>3, <1>4, <1>5, <2>2 DEF ReadsOK
  <2>4. /\ Healthy' => Right'
        /\ Healthy' => \A k \in DOMAIN line'.read : unpublished'[k] = 0
        /\ Healthy' /\ line'.at = "gate" => unpublished'[line'.key] \in {0, line'.gate}
    BY Zenon, <1>4, <1>5 DEF ReadsOK
  <2>. QED  BY Zenon, <2>1, <2>3, <2>4 DEF ReadsOK
<1>11. TellsOK'
  <2>1. \A j \in Jobs : HasPart(j)' /\ outcome'[j] = "ok" =>
          /\ \A k \in Own(j, part[j])' : j \in Range(mem'[k])
          /\ part'[j].stored => j \in Range(log')
          /\ \A x \in 1..(j - 1) : HasPart(x)' => outcome'[x] = "ok"
    BY Zenon, <1>3, <1>4, <1>5 DEF TellsOK
  <2>2. \A j \in early' : ~HasPart(j)' /\ j <= started' /\ j # line'.job
    BY Zenon, <1>4, <1>5 DEF TellsOK
  <2>3. \A j \in ownOutcomes' : failed' /\ outcome'[j] = "err" /\ HasPart(j)'
    BY Zenon, <1>4, <1>5 DEF TellsOK
  <2>4. \A j \in Jobs : told'[j] # "none" => told'[j] = outcome'[j] \/ (told'[j] = "failed" /\ outcome'[j] # "none" /\ Poisoned(j)')
    BY Zenon, <1>4 DEF TellsOK
  <2>5. \A j \in Jobs : told'[j] = "ok" /\ HasPart(j)' =>
          \A x \in 1..(j - 1) : HasPart(x)' /\ jobs'[x] \notin Upkeep => told'[x] = "ok"
    BY Zenon, <1>4, <1>5 DEF TellsOK
  <2>. QED  BY Zenon, <2>1, <2>2, <2>3, <2>4, <2>5 DEF TellsOK
<1>12. CloseOK'
  BY Zenon, <1>4, <1>5 DEF CloseOK
<1>. QED  BY Zenon, <1>0, <1>6, <1>7, <1>8, <1>9, <1>10, <1>11, <1>12, <1>BatchLog, <1>BatchKeys, <1>BatchDisk

\* The call resolves or rejects in a Session that has not failed.
Results(res, rec) ==
    /\ call.at = "storing" /\ ~failed
    /\ call' = [call EXCEPT !.at = "publishing", !.result = res, !.received = rec]
    /\ \/ res = "ok" /\ Left = {} /\ rec = call.durable
       \/ res = "refused" /\ Left # {} /\ rec = call.durable
       \/ res = "rejected" /\ rec \in {0} \cup (Batches \ Left)
    /\ Aside /\ UNCHANGED <<queue, unpublished, open, mem, holds, pending, disk, log, outcome, failAt, ownOutcomes, closing>>

\* What the writer learns of its call
LEMMA ResultsCall ==
    ASSUME TypeOK, NEW res, NEW rec, Results(res, rec)
    PROVE  /\ call' \in Calls /\ call'.at = "publishing" /\ call'.result = res /\ call'.received = rec
           /\ call'.parts = call.parts /\ call'.durable = call.durable /\ call'.next = call.next /\ call'.why = call.why
           /\ rec \in Nat /\ \A m \in Batches : m \in Nat /\ m >= 1 /\ (m <= rec => m <= call.durable)
<1>0. call \in Calls /\ call' = [call EXCEPT !.at = "publishing", !.result = res, !.received = rec]
      /\ res \in {"ok", "refused", "rejected"} /\ rec \in {0, call.durable} \cup (Batches \ Left)
  BY Zenon DEF TypeOK, Results
<1>1. call.parts \in Seq(Jobs) /\ call.durable \in Nat
  BY CallType
<1>2. \A m \in Batches : m \in Nat /\ m >= 1
  BY <1>1 DEF Batches
<1>3. rec \in Nat /\ \A m \in Batches : m <= rec => m <= call.durable
  BY <1>0, <1>1, <1>2 DEF Left
<1>4. call' \in Calls
  BY Zenon, <1>0, <1>3 DEF Calls
<1>. QED  BY Zenon, <1>0, <1>2, <1>3, <1>4 DEF Calls

\* The call returns, with all receipts or some, or rejects; publication starts.
LEMMA ResultsInv ==
    ASSUME IInv, NEW res, NEW rec, Results(res, rec)
    PROVE  IInv'
<1>. USE DEF IInv
<1>0. /\ Aside /\ UNCHANGED <<queue, unpublished, open, mem, holds, pending, disk, log, outcome, failAt, ownOutcomes, closing>>
      /\ call.at = "storing" /\ ~failed
  BY Zenon DEF Results
<1>1. UNCHANGED <<jobs, started, line, stale, part, told, early, lastDelivered, fired>>
  BY Zenon, <1>0 DEF Aside
<1>2. /\ call' \in Calls /\ call'.at = "publishing" /\ call'.result = res /\ call'.received = rec
      /\ call'.parts = call.parts /\ call'.durable = call.durable /\ call'.next = call.next /\ call'.why = call.why
      /\ rec \in Nat /\ \A m \in Batches : m \in Nat /\ m >= 1 /\ (m <= rec => m <= call.durable)
  BY Zenon, ResultsCall
<1>3. /\ \A i : HasPart(i)' <=> HasPart(i)
      /\ \A k, n : Writers(k, n)' = Writers(k, n)
      /\ \A i : Own(i, part[i])' = Own(i, part[i])
      /\ (Right' <=> Right) /\ Stored' = Stored
  BY Zenon, <1>0, AsideSame
<1>4. (failed' <=> failed) /\ Healthy' /\ Healthy /\ ~failed' /\ \A i : Poisoned(i)' <=> Poisoned(i)
  BY Zenon, <1>0, <1>2 DEF failed, Healthy, Poisoned, NoFailure
<1>5. /\ call.why = "none" /\ call.next <= Len(call.parts) /\ call.parts # <<>> /\ call.next >= 1 /\ call.next = 1
  BY Zenon, <1>0 DEF CallOK
<1>6. Flight' = Flight /\ Batches' = Batches /\ Waiting' = Waiting
  BY Zenon, <1>0, <1>1, <1>2 DEF Flight, Batches, Waiting
<1>8. TypeOK'
  BY Zenon, <1>0, <1>1, <1>2 DEF TypeOK
<1>9. LineOK'
  BY Zenon, <1>0, AsideLine
<1>10. CallOK'
  BY Zenon, <1>0, <1>2, <1>5 DEF CallOK
<1>11. FlightOK'
  <2>1. \A n \in DOMAIN call'.parts : ~(n < call'.next) /\ ~(n = call'.next /\ call'.why = "observer")
    <3>1. call.parts \in Seq(Jobs) /\ call'.next = 1 /\ call'.why = "none"
      BY Zenon, <1>2, <1>5, CallType
    <3>. QED  BY <1>2, <3>1
  <2>. QED  BY Zenon, <1>0, <1>1, <1>2, <1>3, <1>4, <1>6, <2>1 DEF FlightOK
<1>12. LogOK'
  <2>1. \A m \in Batches : m <= call.durable <=> call.parts[m] \in Range(log)
    BY Zenon, <1>0 DEF LogOK
  <2>2. \A m \in Batches' : m <= call'.received => call'.parts[m] \in Range(log')
    BY Zenon, <1>0, <1>2, <1>6, <2>1
  <2>3. res = "ok" => \A m \in Batches' : call'.parts[m] \in Range(log')
    <3>1. ASSUME res = "ok", NEW m \in Batches PROVE m <= call.durable
      <4>1. ~(m > call.durable)
        BY Zenon, <3>1 DEF Results, Left
      <4>2. m \in Nat /\ call.durable \in Nat
        BY Zenon, <1>2, CallType
      <4>. QED  BY <4>1, <4>2
    <3>. QED  BY Zenon, <1>0, <1>2, <1>6, <2>1, <3>1
  <2>4. res = "refused" => \E m \in Batches' : m >= call'.next /\ m > call'.received
    <3>1. ASSUME res = "refused" PROVE \E m \in Batches : m >= 1 /\ m > call.durable
      BY Zenon, <1>2, <3>1 DEF Results, Left
    <3>2. res = "refused" => rec = call.durable
      BY Zenon DEF Results
    <3>. QED  BY Zenon, <1>2, <1>5, <1>6, <3>1, <3>2
  <2>5. call'.at # "storing"
    BY Zenon, <1>2
  <2>. QED  BY Zenon, <1>0, <1>2, <1>3, <1>4, <1>6, <2>2, <2>3, <2>4, <2>5 DEF LogOK
<1>13. KeysOK'
  <2>1. ASSUME NEW k \in Docs PROVE KeyOK(k)'
    <3>1. KeyOK(k)
      BY Zenon, <1>4 DEF KeysOK
    <3>2. Writers(k, AllJobs)' = Writers(k, AllJobs)
      BY Zenon, <1>3 DEF AllJobs
    <3>3. Lands(k)'
      BY Zenon, <1>0, <1>1, <3>1, <3>2 DEF KeyOK, Lands
    <3>. QED  BY Zenon, <1>0, <1>1, <1>6, <3>1, <3>2, <3>3 DEF KeyOK
  <2>. QED  BY Zenon, <2>1 DEF KeysOK
<1>14. DiskOK'
  <2>1. Bound' = Bound /\ call'.at # "storing"
    BY Zenon, <1>2, <1>4, <1>6 DEF Bound
  <2>2. \A i \in Range(log') : \A k \in Own(i, part[i])' : i \in Range(disk'[k])
    BY Zenon, <1>0, <1>3 DEF DiskOK
  <2>3. \A k \in Docs : Begins(disk'[k], Writers(k, AllJobs)')
    BY Zenon, <1>0, <1>3 DEF DiskOK, AllJobs
  <2>. QED  BY Zenon, <1>0, <1>1, <1>3, <2>1, <2>2, <2>3 DEF DiskOK
<1>15. ReadsOK'
  <2>1. stale' = {}
    BY Zenon, <1>1, <1>4 DEF ReadsOK
  <2>2. Right' /\ Right
    BY Zenon, <1>3, <1>4 DEF ReadsOK
  <2>. QED  BY Zenon, <1>0, <1>1, <1>4, <2>1, <2>2 DEF ReadsOK
<1>16. TellsOK'
  BY Zenon, <1>0, <1>1, <1>3, <1>4 DEF TellsOK
<1>17. CloseOK'
  BY Zenon, <1>0, <1>1, <1>3, <1>4 DEF CloseOK
<1>. QED  BY Zenon, <1>8, <1>9, <1>10, <1>11, <1>12, <1>13, <1>14, <1>15, <1>16, <1>17
=============================================================================
