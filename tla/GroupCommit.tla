----------------------------- MODULE GroupCommit ----------------------------
(***************************************************************************)
(* The durable Session's mutation line and its writer                      *)
(* (packages/durable/src/session/session.ts and writer.ts).                *)
(*                                                                         *)
(* The line runs one job at a time: a commit's callback and settlement.  A *)
(* commit with writes is then admitted to the writer, and the line goes on *)
(* while it is stored: the writer stores all commits admitted meanwhile in *)
(* one storage call and publishes them one by one.  A job that touches a   *)
(* key with an unpublished writer waits for its publication.  A deferred   *)
(* commit is only held in memory, until something stores what is held.     *)
(*                                                                         *)
(* A job is its index in line order.  The value of a key is the sequence   *)
(* of the jobs whose operations made it.  A crash leaves what is on disk,  *)
(* so an invariant about `disk' is one about every crash.                  *)
(***************************************************************************)
EXTENDS Naturals, FiniteSets, Sequences, FiniteSetsExt

CONSTANTS
    Docs,               \* conversation documents: loaded before they are changed
    MaxJobs,            \* how many jobs there are
    MaxWaiting,         \* how many of them wait for the line
    MAX_OUTSTANDING,
    Entries,            \* the jobs that may write more than documents: an entry, say,
                        \* which no other job touches
    NoKey

ASSUME DocsAssumption ==
    IsFiniteSet(Docs) /\ NoKey \notin Docs
ASSUME JobsAssumption == MaxJobs \in Nat /\ MaxWaiting \in Nat /\ MAX_OUTSTANDING \in Nat \ {0}
ASSUME EntriesAssumption == Entries \subseteq 1..MaxJobs

Jobs  == 1..(MaxJobs + 1)       \* the last one may be that of close()
Kinds == {"commit", "deferred", "internal", "store", "close"}

\* What #maintain runs: it has no outcome to deliver.
Upkeep == {"store", "close"}

VARIABLES
    jobs,               \* the kinds of the jobs enqueued so far
    started,            \* how many of them the line has started
    line,               \* the job on the line: where it is, what it has read of each
                        \* key, the gate it waits at, whether it waited at one
    stale,              \* history: jobs that read other than what the jobs before left
    part,               \* what each job has admitted to the writer: the operations it
                        \* stores or holds, the holds it took, the keys it read
    queue,              \* admitted parts not sent yet
    call,               \* the storage call in flight and its publication
    unpublished,        \* the newest unpublished writer of each key, 0 without
    open,               \* jobs whose part's gate is open
    mem,                \* the documents and records as memory shows them
    holds,              \* documents with a hold
    pending,            \* the operations a hold has not stored yet
    disk,               \* the documents as Storage holds them
    log,                \* the parts stored, in the order of Storage
    outcome,            \* the outcome of each job once it is settled
    told,               \* what its caller was told
    early,              \* internal jobs delivered without a fence
    lastDelivered,
    failAt,             \* the line index the failure is at; NoFailure without
    ownOutcomes,
    closing,            \* "open", "sealed" or "closed"
    fired               \* the hold timer fired and its job has not run

lineVars    == <<jobs, started, line, stale>>
writerVars  == <<part, queue, call, unpublished, open>>
stateVars   == <<mem, holds, pending, disk, log>>
outcomeVars == <<outcome, told, early, lastDelivered>>
sessionVars == <<failAt, ownOutcomes, closing, fired>>
vars == <<lineVars, writerVars, stateVars, outcomeVars, sessionVars>>

NoFailure == MaxJobs + 2
failed    == failAt # NoFailure

Free   == [job |-> 0, at |-> "free", key |-> NoKey, gate |-> 0, hit |-> FALSE, read |-> <<>>]
NoPart == [stored |-> FALSE, delta |-> <<>>, taken |-> {}, basis |-> {}]
NoCall == [parts |-> <<>>, at |-> "none", durable |-> 0, received |-> 0,
           result |-> "ok", next |-> 1, why |-> "none"]

HasPart(i) == part[i] # NoPart

\* The keys part p of job i changes by itself, not by what was held of them
Own(i, p) == {k \in DOMAIN p.delta : i \in Range(p.delta[k])}

Init ==
    /\ jobs = <<>> /\ started = 0 /\ line = Free /\ stale = {}
    /\ part = [i \in Jobs |-> NoPart] /\ queue = <<>> /\ call = NoCall
    /\ unpublished = [k \in Docs |-> 0] /\ open = {}
    /\ mem = [k \in Docs |-> <<>>] /\ disk = [k \in Docs |-> <<>>] /\ log = <<>>
    /\ holds = {} /\ pending = [k \in Docs |-> <<>>]
    /\ outcome = [i \in Jobs |-> "none"] /\ told = [i \in Jobs |-> "none"]
    /\ early = {} /\ lastDelivered = 0
    /\ failAt = NoFailure /\ ownOutcomes = {} /\ closing = "open" /\ fired = FALSE
-----------------------------------------------------------------------------
(* Failing, sending, settling *)

\* The first failure wins; it closes the Session.
fail(at, own) ==
    IF failed THEN UNCHANGED <<failAt, ownOutcomes, closing>>
    ELSE /\ failAt' = at /\ ownOutcomes' = own
         /\ closing' = IF closing = "open" THEN "sealed" ELSE closing

\* #send with no call in flight: the parts become one storage call.  A call of
\* held parts only goes on to publish them.
Sent(parts) ==
    [NoCall EXCEPT !.parts = parts,
                   !.at = IF \E n \in DOMAIN parts : part'[parts[n]].stored THEN "storing"
                          ELSE "publishing"]

\* The newest writer of a key gives the key up once it is published or never will be.
Unregister(S) == [k \in Docs |-> IF unpublished[k] \in S THEN 0 ELSE unpublished[k]]

Settle(S, result) == [i \in Jobs |-> IF i \in S THEN result ELSE outcome[i]]

\* #unpublish for the parts in S, all of which get SessionFailed
Discard(S) ==
    /\ outcome' = Settle(S, "failed")
    /\ unpublished' = Unregister(S) /\ open' = open \cup S
-----------------------------------------------------------------------------
(* The line *)

\* commitWith, commitInternal or readOnLine of some caller
enqueue(kind) ==
    /\ closing = "open" /\ Len(jobs) < MaxJobs /\ Len(jobs) - started < MaxWaiting
    /\ jobs' = Append(jobs, kind)
    /\ UNCHANGED <<started, line, stale, writerVars, stateVars, outcomeVars, sessionVars>>

\* The hold timer fires: the deadline of something held has come.
HoldTimer ==
    /\ closing = "open" /\ holds # {} /\ ~fired /\ Len(jobs) < MaxJobs
    /\ jobs' = Append(jobs, "store") /\ fired' = TRUE
    /\ UNCHANGED <<started, line, stale, writerVars, stateVars, outcomeVars, failAt, ownOutcomes, closing>>

\* close() of the host; a failure closes the Session by itself.
close ==
    /\ closing = "open" /\ closing' = "sealed"
    /\ UNCHANGED <<lineVars, writerVars, stateVars, outcomeVars, failAt, ownOutcomes, fired>>

\* Once beforeClose has settled, the job that closes Storage joins the line.
EnqueueClose ==
    /\ closing = "sealed" /\ "close" \notin Range(jobs)
    /\ jobs' = Append(jobs, "close")
    /\ UNCHANGED <<started, line, stale, writerVars, stateVars, outcomeVars, sessionVars>>

Outstanding == {i \in 1..started : jobs[i] \notin Upkeep /\ told[i] = "none"}

Running(at) == line.at = at

\* An internal job that admits nothing and waited at no gate needs no fence.
Unfenced(i, hit) == early' = IF jobs[i] = "internal" /\ ~hit THEN early \cup {i} ELSE early

\* The jobs before n that changed key k
Writers(k, n) == {j \in 1..(n - 1) : k \in Own(j, part[j])}

\* s has the jobs of S in line order, or the first of them.
InOrder(s)   == \A m, n \in DOMAIN s : m < n => s[m] < s[n]
Lists(s, S)  == InOrder(s) /\ Range(s) = S
Begins(s, S) == InOrder(s) /\ Range(s) \subseteq S /\ \A i \in Range(s) : \A j \in S : j < i => j \in Range(s)

\* The job on the line leaves it.
Leave ==
    /\ line' = Free
    /\ stale' = IF \A k \in DOMAIN line.read : Lists(line.read[k], Writers(k, line.job)) THEN stale
                ELSE stale \cup {line.job}

\* It ends there, its outcome settled.
Ends(result) ==
    /\ Leave
    /\ outcome' = Settle({line.job}, result)
    /\ Unfenced(line.job, line.hit)
    /\ UNCHANGED <<jobs, started, told, lastDelivered>>

StartJob ==
    /\ Running("free") /\ started < Len(jobs)
    /\ LET i == started + 1 IN
       /\ jobs[i] \notin Upkeep => Cardinality(Outstanding) < MAX_OUTSTANDING
       /\ started' = i
       /\ \/ /\ jobs[i] \notin Upkeep
             /\ IF failed THEN line' = Free /\ outcome' = Settle({i}, "failed") /\ Unfenced(i, FALSE)
                ELSE line' = [Free EXCEPT !.job = i, !.at = "callback"] /\ UNCHANGED <<outcome, early>>
             /\ UNCHANGED fired
          \/ /\ jobs[i] \in Upkeep
             /\ line' = IF jobs[i] = "store" /\ closing # "open" THEN Free
                        ELSE [Free EXCEPT !.job = i, !.at = "barrier"]
             /\ fired' = (fired /\ jobs[i] # "store")
             /\ UNCHANGED <<outcome, early>>
    /\ UNCHANGED <<jobs, stale, writerVars, stateVars, told, lastDelivered, failAt, ownOutcomes, closing>>

\* What the job on the line sees of a key: for a document the tracker memory has
Sees(k) ==
    [line EXCEPT !.at = "callback", !.key = NoKey, !.gate = 0,
                 !.read = [x \in (DOMAIN @) \cup {k} |-> IF x = k THEN mem[k] ELSE @[x]]]

\* Faulty variant: reads at once, whoever is to publish the key.
touch_ungated(k) ==
    /\ Running("callback") /\ k \notin DOMAIN line.read
    /\ line' = Sees(k)
    /\ UNCHANGED <<jobs, started, stale, writerVars, stateVars, outcomeVars, sessionVars>>

\* The callback's first read of a key: at once, or once the gate of its newest
\* unpublished writer is open.
touch(k) ==
    /\ Running("callback") /\ k \notin DOMAIN line.read
    /\ line' = IF unpublished[k] = 0 THEN Sees(k)
               ELSE [line EXCEPT !.at = "gate", !.key = k, !.gate = unpublished[k], !.hit = TRUE]
    /\ UNCHANGED <<jobs, started, stale, writerVars, stateVars, outcomeVars, sessionVars>>

\* The gate is open: the read goes on, unless the Session failed meanwhile.
PassGate ==
    /\ Running("gate") /\ line.gate \in open
    /\ IF failed THEN Ends("failed")
       ELSE line' = Sees(line.key) /\ UNCHANGED <<jobs, started, stale, outcomeVars>>
    /\ UNCHANGED <<writerVars, stateVars, sessionVars>>

\* The callback, or its settlement, throws an error of its own.
Throw ==
    /\ Running("callback") \/ Running("settling")
    /\ Ends(IF failed THEN "failed" ELSE "err")
    /\ UNCHANGED <<writerVars, stateVars, sessionVars>>

\* A Storage read of the callback rejects: the Session fails with its error.
ReadRejects ==
    /\ Running("callback") /\ ~failed
    /\ fail(line.job, {}) /\ Ends("err")
    /\ UNCHANGED <<writerVars, stateVars, fired>>

\* A Storage call off the line rejects, though not in the microtask between a
\* part the writer stops at and the failure of the Session.
CallRejects ==
    /\ ~failed /\ closing # "closed" /\ call.at # "failing"
    /\ fail(IF line.job # 0 THEN line.job ELSE lastDelivered, {})
    /\ UNCHANGED <<lineVars, writerVars, stateVars, outcomeVars, fired>>

\* The callback returns to a healthy Session.
EndCallback ==
    /\ Running("callback")
    /\ IF failed THEN Ends("failed")
       ELSE line' = [line EXCEPT !.at = "settling"] /\ UNCHANGED <<jobs, started, stale, outcomeVars>>
    /\ UNCHANGED <<writerVars, stateVars, sessionVars>>
-----------------------------------------------------------------------------
(* Admission *)

\* Writer.admit: the keys are registered and the part queued; with no call in
\* flight it is sent, or given up if the Session has failed.
admit(i, p) ==
    /\ part' = [part EXCEPT ![i] = p]
    /\ IF call.at # "none"
       THEN /\ queue' = Append(queue, i)
            /\ unpublished' = [k \in Docs |-> IF k \in DOMAIN p.delta THEN i ELSE unpublished[k]]
            /\ UNCHANGED <<call, open, outcome>>
       ELSE IF failed THEN Discard({i}) /\ UNCHANGED <<queue, call>>
       ELSE /\ call' = Sent(<<i>>)
            /\ unpublished' = [k \in Docs |-> IF k \in DOMAIN p.delta THEN i ELSE unpublished[k]]
            /\ UNCHANGED <<queue, open, outcome>>

\* The job on the line settles.  That takes more microtasks than pass between a
\* part the writer stops at and the failure of the Session, so no callback that
\* began to read in between settles before the failure.
Settling == Running("settling") /\ call.at # "failing"

\* The commit settles without writes.
CommitNothing ==
    /\ Settling
    /\ Ends("ok")
    /\ UNCHANGED <<writerVars, stateVars, sessionVars>>

\* A deferred commit that only changes documents is a part without writes.
CommitHeld ==
    /\ Settling /\ jobs[line.job] = "deferred"
    /\ \E W \in (SUBSET (Docs \cap DOMAIN line.read)) \ {{}} :
         admit(line.job, [NoPart EXCEPT !.delta = [k \in W |-> <<line.job>>]])
    /\ Leave
    /\ UNCHANGED <<jobs, started, stateVars, told, early, lastDelivered, sessionVars>>

\* Faulty variant: what is held is written after the commit's own operations.
Delta_ownFirst(i, W, H) ==
    [k \in W \cup H |-> (IF k \in W THEN <<i>> ELSE <<>>) \o (IF k \in H THEN pending[k] ELSE <<>>)]

\* What is held of the documents in H goes to Storage with job i's own writes W.
Delta(i, W, H) ==
    [k \in W \cup H |-> (IF k \in H THEN pending[k] ELSE <<>>) \o (IF k \in W THEN <<i>> ELSE <<>>)]

\* Faulty variant: takes what is held only of the documents it writes.
CommitStored_writtenOnly ==
    /\ Settling
    /\ LET i == line.job
       IN \E W \in SUBSET (Docs \cap DOMAIN line.read) :
            LET taken == holds \cap W IN
            /\ (W = {} \/ jobs[i] = "deferred") => i \in Entries
            /\ admit(i, [stored |-> TRUE, delta |-> Delta(i, W, taken),
                         taken |-> taken, basis |-> DOMAIN line.read])
            /\ pending' = [k \in Docs |-> IF k \in taken THEN <<>> ELSE pending[k]]
    /\ Leave
    /\ UNCHANGED <<jobs, started, mem, holds, disk, log, told, early, lastDelivered, sessionVars>>

\* A commit that is not deferred, or writes more than documents, takes what is
\* held of the documents it has read, its keys after that, and is a part that is
\* stored.
CommitStored ==
    /\ Settling
    /\ LET i == line.job
           taken == holds \cap DOMAIN line.read
       IN \E W \in SUBSET (Docs \cap DOMAIN line.read) :
            /\ (W = {} \/ jobs[i] = "deferred") => i \in Entries
            /\ admit(i, [stored |-> TRUE, delta |-> Delta(i, W, taken),
                         taken |-> taken, basis |-> DOMAIN line.read])
            /\ pending' = [k \in Docs |-> IF k \in taken THEN <<>> ELSE pending[k]]
    /\ Leave
    /\ UNCHANGED <<jobs, started, mem, holds, disk, log, told, early, lastDelivered, sessionVars>>

\* Faulty variant: does not wait for what was admitted before.
storeHolds_eager ==
    /\ Running("barrier")
    /\ IF holds = {} \/ (failed /\ jobs[line.job] = "close")
       THEN /\ line' = IF jobs[line.job] = "close" THEN [line EXCEPT !.at = "closing"] ELSE Free
            /\ UNCHANGED <<writerVars, pending, outcome>>
       ELSE /\ admit(line.job, [stored |-> TRUE, delta |-> Delta(line.job, {}, holds),
                              taken |-> holds, basis |-> {}])
            /\ pending' = [k \in Docs |-> <<>>]
            /\ line' = [line EXCEPT !.at = "stored"]
    /\ UNCHANGED <<jobs, started, stale, mem, holds, disk, log, told, early, lastDelivered, sessionVars>>

\* #storeHolds: once all that was admitted before is published, everything held
\* is stored as one part, and the job waits for it.  A failed Session closes
\* without it.
storeHolds ==
    /\ Running("barrier") /\ \A i \in Jobs : HasPart(i) => i \in open
    /\ IF holds = {} \/ (failed /\ jobs[line.job] = "close")
       THEN /\ line' = IF jobs[line.job] = "close" THEN [line EXCEPT !.at = "closing"] ELSE Free
            /\ UNCHANGED <<writerVars, pending, outcome>>
       ELSE /\ admit(line.job, [stored |-> TRUE, delta |-> Delta(line.job, {}, holds),
                              taken |-> holds, basis |-> {}])
            /\ pending' = [k \in Docs |-> <<>>]
            /\ line' = [line EXCEPT !.at = "stored"]
    /\ UNCHANGED <<jobs, started, stale, mem, holds, disk, log, told, early, lastDelivered, sessionVars>>

\* The upkeep job goes on once the outcome of its part is settled.
HoldsStored ==
    /\ Running("stored") /\ outcome[line.job] # "none"
    /\ line' = IF jobs[line.job] = "close" THEN [line EXCEPT !.at = "closing"] ELSE Free
    /\ UNCHANGED <<jobs, started, stale, writerVars, stateVars, outcomeVars, sessionVars>>

\* Storage closes once its calls have settled; memory is dropped.
Closed ==
    /\ Running("closing") /\ call.at = "none"
    /\ closing' = "closed" /\ line' = Free
    /\ UNCHANGED <<jobs, started, stale, writerVars, stateVars, outcomeVars, failAt, ownOutcomes, fired>>
-----------------------------------------------------------------------------
(* The storage call *)

\* The places in the call of the parts that Storage gets, a batch each, and those
\* that it has not stored yet
Batches == {n \in DOMAIN call.parts : part[call.parts[n]].stored}
Left    == {n \in Batches : n > call.durable}

\* One more batch of the call becomes durable.
StoreBatch ==
    /\ call.at = "storing"
    /\ \E n \in Left :
         LET i == call.parts[n]
             d == part[i].delta
         IN /\ \A m \in Left : n <= m
            /\ log' = Append(log, i)
            /\ disk' = [k \in Docs |-> IF k \in DOMAIN d THEN disk[k] \o d[k] ELSE disk[k]]
            /\ call' = [call EXCEPT !.durable = n]
    /\ UNCHANGED <<lineVars, part, queue, unpublished, open, mem, holds, pending, outcomeVars, sessionVars>>

\* The call resolves with all batches stored, resolves with a batch refused, or
\* rejects, whatever it has stored and given receipts for.
CallResults ==
    [result : IF Left = {} THEN {"ok"} ELSE {"refused"}, received : {call.durable}] \cup
    [result : {"rejected"}, received : {0} \cup (Batches \ Left)]

\* The parts in flight and those in the queue are given up.
GiveUp ==
    /\ Discard(Range(call.parts) \cup Range(queue))
    /\ call' = NoCall /\ queue' = <<>>

\* In a Session that failed meanwhile nothing of the call is published.
CallSettles ==
    /\ call.at = "storing"
    /\ IF failed THEN GiveUp
       ELSE /\ \E r \in CallResults :
                 call' = [call EXCEPT !.at = "publishing", !.result = r.result, !.received = r.received]
            /\ UNCHANGED <<queue, unpublished, open, outcome>>
    /\ UNCHANGED <<lineVars, part, stateVars, told, early, lastDelivered, sessionVars>>
-----------------------------------------------------------------------------
(* Publication *)

\* What publishing part i does to memory: it adopts the part, and holds it or
\* releases the holds it has stored.
Publish(i) ==
    LET p == part[i] own == Own(i, p) IN
    /\ mem' = [k \in Docs |-> IF k \in own THEN Append(mem[k], i) ELSE mem[k]]
    /\ IF p.stored
       THEN /\ holds' = holds \ p.taken
            /\ pending' = [k \in Docs |-> IF k \in p.taken THEN <<>> ELSE pending[k]]
       ELSE /\ holds' = holds \cup own
            /\ pending' = [k \in Docs |-> IF k \in own THEN Append(pending[k], i) ELSE pending[k]]

\* Faulty variant: a part counts as stored with the receipt of the one before.
Received_offByOne(n) == \A m \in Batches : m < n => m <= call.received

\* Storage has given the receipt of the n-th part, if it is one to be stored.
Received(n) == n \in Batches => n <= call.received

\* The loop over the parts stops at this one; the call fails the Session next.
Stop(why) == call' = [call EXCEPT !.at = "failing", !.why = why]

\* After the last part the writer sends what was admitted meanwhile.
Advance ==
    IF call.next < Len(call.parts) THEN call' = [call EXCEPT !.next = @ + 1] /\ UNCHANGED queue
    ELSE IF call.result = "rejected"
         THEN call' = [call EXCEPT !.at = "failing", !.next = @ + 1] /\ UNCHANGED queue
    ELSE /\ call' = IF queue = <<>> THEN NoCall ELSE Sent(queue)
         /\ queue' = <<>>

\* A part of a call that resolved is published and its outcome settled.
PublishPart ==
    /\ call.at = "publishing" /\ ~failed /\ Received(call.next)
    /\ UNCHANGED <<lineVars, part, disk, log, told, early, lastDelivered, sessionVars>>
    /\ LET i == call.parts[call.next] IN
       /\ Publish(i)
       /\ unpublished' = Unregister({i})
       /\ IF call.result = "rejected" THEN UNCHANGED <<outcome, open>>
          ELSE outcome' = Settle({i}, "ok") /\ open' = open \cup {i}
    /\ Advance

\* No receipt for the part: it was refused, or its call rejected before.
PartMissing ==
    /\ call.at = "publishing" /\ ~failed /\ ~Received(call.next)
    /\ Stop("unreceived")
    /\ UNCHANGED <<lineVars, part, queue, unpublished, open, stateVars, outcomeVars, sessionVars>>

\* Something else failed the Session before the part's turn.
PartTooLate ==
    /\ call.at = "publishing" /\ failed
    /\ Stop("external")
    /\ UNCHANGED <<lineVars, part, queue, unpublished, open, stateVars, outcomeVars, sessionVars>>

\* Memory cannot adopt the part.
AdoptionThrows ==
    /\ call.at = "publishing" /\ ~failed /\ Received(call.next)
    /\ unpublished' = Unregister({call.parts[call.next]})
    /\ Stop("adoption")
    /\ UNCHANGED <<lineVars, part, queue, open, stateVars, outcomeVars, sessionVars>>

\* An own observer throws: the commit stands, the Session fails after it.
ObserverThrows ==
    /\ call.at = "publishing" /\ ~failed /\ Received(call.next) /\ call.result # "rejected"
    /\ LET i == call.parts[call.next] IN
       /\ Publish(i)
       /\ unpublished' = Unregister({i})
       /\ outcome' = Settle({i}, "ok") /\ open' = open \cup {i}
    /\ Stop("observer")
    /\ UNCHANGED <<lineVars, part, queue, disk, log, told, early, lastDelivered, sessionVars>>

\* The Storage's own scope runs the publication, and a Storage call off the line
\* rejects before the writer goes on: the part is published, its outcome is not.
FailsInScope ==
    /\ call.at = "publishing" /\ ~failed /\ Received(call.next) /\ call.result # "rejected"
    /\ fail(IF line.job # 0 THEN line.job ELSE lastDelivered, {})
    /\ LET i    == call.parts[call.next]
           last == call.next = Len(call.parts)
       IN /\ Publish(i)
          /\ Discard({i} \cup (IF last THEN Range(queue) ELSE {}))
          /\ call' = IF last THEN NoCall ELSE [call EXCEPT !.next = @ + 1]
          /\ queue' = IF last THEN <<>> ELSE queue
    /\ UNCHANGED <<lineVars, part, disk, log, told, early, lastDelivered, fired>>

\* The parts of the failing call that settle with an error of their own: all of
\* a call that rejected, unless something else stopped it, and the one it stopped at
OwnErrors ==
    {call.parts[n] : n \in {m \in DOMAIN call.parts :
        \/ call.result = "rejected" /\ m < call.next
        \/ m = call.next /\ call.why \in {"unreceived", "adoption"}
        \/ /\ call.result = "rejected" /\ m > call.next
           /\ call.why # "external" /\ part[call.parts[m]].stored}}

\* Faulty variant: what was admitted meanwhile stays in the queue.
FailCall_keepsQueue ==
    /\ call.at = "failing"
    /\ LET rest == {i \in Range(call.parts) : outcome[i] = "none"} IN
       /\ fail(IF call.result = "rejected" /\ OwnErrors # {} THEN Min(OwnErrors)
               ELSE call.parts[call.next], OwnErrors)
       /\ outcome' = [i \in Jobs |-> IF i \in OwnErrors THEN "err"
                                     ELSE IF i \in rest THEN "failed" ELSE outcome[i]]
       /\ unpublished' = Unregister(rest) /\ open' = open \cup rest
    /\ call' = NoCall /\ UNCHANGED queue
    /\ UNCHANGED <<lineVars, part, stateVars, told, early, lastDelivered, fired>>

\* The Session fails; then the rest of the call is settled and what was admitted
\* meanwhile given up.
FailCall ==
    /\ call.at = "failing"
    /\ LET rest == {i \in Range(call.parts) \cup Range(queue) : outcome[i] = "none"} IN
       /\ fail(IF call.result = "rejected" /\ OwnErrors # {} THEN Min(OwnErrors)
               ELSE call.parts[call.next], OwnErrors)
       /\ outcome' = [i \in Jobs |-> IF i \in OwnErrors THEN "err"
                                     ELSE IF i \in rest THEN "failed" ELSE outcome[i]]
       /\ unpublished' = Unregister(rest) /\ open' = open \cup rest
    /\ call' = NoCall /\ queue' = <<>>
    /\ UNCHANGED <<lineVars, part, stateVars, told, early, lastDelivered, fired>>
-----------------------------------------------------------------------------
(* Delivery *)

\* The outcome comes after the failure's, and is not its own.
poisoned(i) == i > failAt /\ i \notin ownOutcomes

\* A caller gets its outcome after the callers before it, unless unfenced.
Deliver(i) ==
    /\ i <= started /\ jobs[i] \notin Upkeep /\ outcome[i] # "none" /\ told[i] = "none"
    /\ i \in early \/ \A j \in 1..(i - 1) : jobs[j] \in Upkeep \/ told[j] # "none"
    /\ told' = [told EXCEPT ![i] = IF poisoned(i) THEN "failed" ELSE outcome[i]]
    /\ lastDelivered' = IF i \in early THEN lastDelivered ELSE i
    /\ UNCHANGED <<lineVars, writerVars, stateVars, outcome, early, sessionVars>>
-----------------------------------------------------------------------------
Callback == (\E k \in Docs : touch(k)) \/ PassGate \/ EndCallback \/ Throw

Line == StartJob \/ Callback \/ CommitNothing \/ CommitHeld \/ CommitStored
          \/ storeHolds \/ HoldsStored \/ Closed

WriterStep == StoreBatch \/ CallSettles \/ PublishPart \/ PartMissing \/ PartTooLate \/ FailCall

Faults == ReadRejects \/ CallRejects \/ AdoptionThrows \/ ObserverThrows \/ FailsInScope

Next ==
    \/ \E kind \in Kinds \ Upkeep : enqueue(kind)
    \/ HoldTimer \/ close \/ EnqueueClose
    \/ Line \/ WriterStep \/ Faults
    \/ \E i \in Jobs : Deliver(i)

Spec == Init /\ [][Next]_vars
-----------------------------------------------------------------------------
AllJobs == MaxJobs + 2

\* Job i has written to Storage.
Durable(i) == i \in Range(log)

\* The jobs with a part to store
Stored == {j \in Jobs : part[j].stored}

\* Though storage overlaps the line, every job that is stored or whose caller is
\* told of success has read what the jobs before it in the line left, and nothing
\* else (session.ts, touch; docs/spec.md invariant 7).
SerialReads ==
    \A i \in stale : told[i] # "ok" /\ ~Durable(i)

\* A caller told of success finds its changes in memory and, unless deferred, on
\* disk; so does every caller of a commit before it (writer.ts, #publish).
OkMatchesStorage ==
    \A i \in Jobs : (told[i] = "ok" /\ HasPart(i)) =>
        /\ \A k \in Own(i, part[i]) : i \in Range(mem[k])
        /\ part[i].stored => Durable(i)
        /\ \A j \in 1..(i - 1) : (HasPart(j) /\ jobs[j] \notin Upkeep) => told[j] = "ok"

\* Whenever the process dies, Storage is left with a prefix of the line's stored
\* commits, each whole, and no document misses or repeats an operation
\* (group-commit.md, "a stored prefix survives").
CrashLeavesPrefix ==
    /\ Begins(log, Stored)
    /\ \A k \in Docs : Begins(disk[k], Writers(k, AllJobs))
    /\ \A i \in Range(log) : \A k \in Own(i, part[i]) : i \in Range(disk[k])

\* A stored commit is never ahead of what it read: what was held of the
\* documents it read is stored with it (spec.md 4.1, "a normal commit that reads
\* a held document through tx stores it with whatever it derives").
DurableReads ==
    \A i \in Jobs : Durable(i) =>
        \A k \in part[i].basis : Writers(k, i) \subseteq Range(disk[k])

\* A Session that closes without failing has stored everything, what it held
\* included (session.ts, close).
CleanCloseStoresAll ==
    (closing = "closed" /\ ~failed) =>
        Lists(log, Stored) /\ \A k \in Docs : Lists(disk[k], Writers(k, AllJobs))

\* Every caller gets an outcome and close() ends, whatever fails: when nothing in
\* the Session can go on by itself, no gate, fence or barrier has anyone waiting
\* (writer.ts, #flush: "no outcome or gate is stranded").
NoOneIsStranded ==
    ~ENABLED (Line \/ WriterStep \/ EnqueueClose \/ \E i \in Jobs : Deliver(i)) =>
        /\ closing # "sealed"
        /\ \A i \in DOMAIN jobs : jobs[i] \in Upkeep \/ told[i] # "none"
=============================================================================
