-------------------------------- MODULE Cron --------------------------------
(***************************************************************************)
(* The cron scheduler (extensions/hummin-cron.ts with lib/cron-store.ts).  *)
(* Every session is a process that runs scheduler passes and tool calls;   *)
(* within it a read and write of cron.json is not interrupted, between     *)
(* processes it is.  The scheduler lock is taken here in one step (module  *)
(* DirLock has its system calls); a pass keeps it while it waits for       *)
(* dispatch reviews, and a dead owner's lock is taken over.                *)
(***************************************************************************)
EXTENDS CronSchedule, FiniteSets

CONSTANTS
    Sessions, Names,
    schedule,       \* the schedule of each name
    None,
    RETRIES,        \* rounds of recordExit after the first
    MaxTime, MaxKids, MaxMade, MaxCrashes

ASSUME CronBoundsAssumption ==
    /\ RETRIES \in Nat /\ MaxTime \in Nat /\ MaxKids \in Nat /\ MaxMade \in Nat
    /\ MaxCrashes \in Nat /\ Never \notin 0..MaxTime

VARIABLES
    now,
    store,          \* cron.json: the entry of each name, or None
    lock,           \* the owner of the scheduler lock, or None
    alive,          \* sessions that run
    pass,           \* the scheduler pass of each session
    tool,           \* the name its cron_create is reviewed for, or None
    io,             \* a read of cron.json whose write is to follow, or None
    kids,           \* the detached runs, by pid
    exits,          \* recordExit calls under way: rounds made, or None
    made,           \* history: entries created so far
    gone,           \* history: names deleted and not created again
    clobbered,      \* history: a write undid one of another process
    torn            \* history: processes that died between a read and its write

files == <<store, lock>>
sess  == <<alive, pass, tool, io>>
hist  == <<made, gone, clobbered, torn>>
vars  == <<now, files, sess, kids, exits, hist>>

Pids  == 1..MaxKids
Times == 0..MaxTime

\* An entry: which creation of the name it is (gen), lastRun, queuedSince and
\* lastPid.
Entries == [gen : Nat, lastRun : Times \cup {Never}, queued : Times \cup {Never}, pid : {0} \cup Pids]
Stores  == [Names -> Entries \cup {None}]

\* What updateEntries read and is about to write.
Updates == [copy : Stores, next : Stores, unlock : BOOLEAN, drop : SUBSET Names, add : SUBSET Names]

\* The detached runs: of which entry, by which session, since when
Kids == [name : Names, gen : Nat, by : Sessions, since : Times, running : BOOLEAN]

ASSUME NoneAssumption == None \notin Sessions \cup Entries \cup Updates \cup Kids

\* A pass has its instant, the due entries left, the one under review and the
\* snapshot it read.
NoPass == [at |-> "off", now |-> 0, left |-> {}, cur |-> None, snap |-> [n \in Names |-> None]]

Init ==
    /\ now = 0 /\ store = [n \in Names |-> None] /\ lock = None
    /\ alive = Sessions /\ pass = [s \in Sessions |-> NoPass]
    /\ tool = [s \in Sessions |-> None] /\ io = [s \in Sessions |-> None]
    /\ kids = [p \in Pids |-> None] /\ exits = [p \in Pids |-> None]
    /\ made = 0 /\ gone = {}
    /\ clobbered = FALSE /\ torn = {}

Free(s) == s \in alive /\ io[s] = None

\* The process is at an await: other calls in it may go on.
AtAwait(s) == Free(s) /\ pass[s].at # "loop"

LockAvailable == lock = None \/ lock \notin alive

\* updateEntries: the file is read; WriteBack replaces it.
Update(s, next, unlock, drop, add) ==
    io' = [io EXCEPT ![s] = [copy |-> store, next |-> next, unlock |-> unlock,
                             drop |-> drop, add |-> add]]

upsertEntry(s, n, e) == Update(s, [store EXCEPT ![n] = e], FALSE, {}, {})

\* writeCronStore: atomic by rename, whatever the file holds by now.
WriteBack(s) ==
    /\ s \in alive /\ io[s] # None
    /\ store' = io[s].next /\ clobbered' = (clobbered \/ store # io[s].copy)
    /\ lock' = IF io[s].unlock THEN None ELSE lock
    /\ gone' = (gone \cup io[s].drop) \ io[s].add
    /\ io' = [io EXCEPT ![s] = None]
    /\ UNCHANGED <<now, alive, pass, tool, kids, exits, made, torn>>
-----------------------------------------------------------------------------
(* runSchedulerPass *)

\* Faulty variant: whoever owns the lock.
StartPass_unlocked(s) ==
    /\ Free(s) /\ pass[s].at = "off"
    /\ lock' = s
    /\ pass' = [pass EXCEPT ![s] =
         [at |-> "loop", now |-> now, cur |-> None, snap |-> store,
          left |-> {n \in Names : store[n] # None /\ dueEntry(schedule[n], now, store[n])}]]
    /\ UNCHANGED <<now, store, alive, tool, io, kids, exits, hist>>

\* session_start or agent_end, unless this session's pass is in flight.
StartPass(s) ==
    /\ Free(s) /\ pass[s].at = "off" /\ LockAvailable
    /\ lock' = s
    /\ pass' = [pass EXCEPT ![s] =
         [at |-> "loop", now |-> now, cur |-> None, snap |-> store,
          left |-> {n \in Names : store[n] # None /\ dueEntry(schedule[n], now, store[n])}]]
    /\ UNCHANGED <<now, store, alive, tool, io, kids, exits, hist>>

\* The next due entry of the snapshot goes to review.
NextEntry(s) ==
    /\ Free(s) /\ pass[s].at = "loop"
    /\ \E n \in pass[s].left :
         pass' = [pass EXCEPT ![s].at = "review", ![s].cur = n, ![s].left = @ \ {n}]
    /\ UNCHANGED <<now, files, alive, tool, io, kids, exits, hist>>

\* The review holds the entry, which is written back, or lets it through.
Reviewed(s) ==
    /\ Free(s) /\ pass[s].at = "review"
    /\ LET n == pass[s].cur
       IN \/ upsertEntry(s, n, pass[s].snap[n]) /\ pass' = [pass EXCEPT ![s].at = "loop"]
          \/ pass' = [pass EXCEPT ![s].at = "brief"] /\ UNCHANGED io
    /\ UNCHANGED <<now, files, alive, tool, kids, exits, hist>>

\* The prompt is ready: the run is spawned and the entry marked, or the spawn fails.
Spawn(s) ==
    /\ Free(s) /\ pass[s].at = "brief"
    /\ pass' = [pass EXCEPT ![s].at = "loop"]
    /\ \/ UNCHANGED <<io, kids>>
       \/ \E p \in Pids :
            LET n == pass[s].cur   e == pass[s].snap[n]
            IN /\ kids[p] = None /\ \A q \in Pids : q < p => kids[q] # None
               /\ kids' = [kids EXCEPT ![p] = [name |-> n, gen |-> e.gen, by |-> s,
                                               since |-> pass[s].now, running |-> TRUE]]
               /\ upsertEntry(s, n, [e EXCEPT !.lastRun = pass[s].now,
                                              !.queued = pass[s].now, !.pid = p])
    /\ UNCHANGED <<now, files, alive, tool, exits, hist>>

EndPass(s) ==
    /\ Free(s) /\ pass[s].at = "loop" /\ pass[s].left = {}
    /\ pass' = [pass EXCEPT ![s] = NoPass] /\ lock' = None
    /\ UNCHANGED <<now, store, alive, tool, io, kids, exits, hist>>
-----------------------------------------------------------------------------
(* recordExit *)

\* A run ends; the session that spawned it hears of it while it lives.
KidExits(p) ==
    /\ kids[p] # None /\ kids[p].running
    /\ kids' = [kids EXCEPT ![p].running = FALSE]
    /\ exits' = [exits EXCEPT ![p] = IF kids[p].by \in alive THEN 0 ELSE None]
    /\ UNCHANGED <<now, files, sess, hist>>

\* Faulty variant: the pid of the last run is not compared.
Recorded_any(p) == kids[p] # None /\ store[kids[p].name] # None

\* The entry is still there and its last run is this one.
Recorded(p) == /\ kids[p] # None /\ store[kids[p].name] # None
               /\ store[kids[p].name].pid = p

\* Faulty variant: the exit is noted on the entry as it was when the run began.
recordExit_upsert(p) ==
    /\ exits[p] # None /\ AtAwait(kids[p].by)
    /\ LET s == kids[p].by   n == kids[p].name
       IN IF ~LockAvailable
          THEN /\ exits' = [exits EXCEPT ![p] = IF @ = RETRIES THEN None ELSE @ + 1]
               /\ UNCHANGED <<lock, io>>
          ELSE /\ exits' = [exits EXCEPT ![p] = None] /\ lock' = s
               /\ Update(s, [store EXCEPT ![n] = [gen |-> kids[p].gen, lastRun |-> kids[p].since,
                                                  queued |-> Never, pid |-> p]], TRUE, {}, {})
    /\ UNCHANGED <<now, store, alive, pass, tool, kids, hist>>

\* Another round: the exit is noted under the lock, or the lock is not free and
\* after the last round the exit is forgotten.
recordExit(p) ==
    /\ exits[p] # None /\ AtAwait(kids[p].by)
    /\ LET s == kids[p].by   n == kids[p].name
       IN IF ~LockAvailable
          THEN /\ exits' = [exits EXCEPT ![p] = IF @ = RETRIES THEN None ELSE @ + 1]
               /\ UNCHANGED <<lock, io>>
          ELSE /\ exits' = [exits EXCEPT ![p] = None]
               /\ IF Recorded(p)
                  THEN lock' = s /\ Update(s, [store EXCEPT ![n].queued = Never], TRUE, {}, {})
                  ELSE lock' = None /\ UNCHANGED io
    /\ UNCHANGED <<now, store, alive, pass, tool, kids, hist>>
-----------------------------------------------------------------------------
(* The tools; none of them takes the lock *)

cron_create(s, n) ==
    /\ AtAwait(s) /\ tool[s] = None /\ store[n] = None /\ made < MaxMade
    /\ tool' = [tool EXCEPT ![s] = n]
    /\ UNCHANGED <<now, files, alive, pass, io, kids, exits, hist>>

\* The review of a new entry refuses it or lets it through.
CreateReviewed(s) ==
    /\ AtAwait(s) /\ tool[s] # None
    /\ tool' = [tool EXCEPT ![s] = None]
    /\ \/ UNCHANGED <<io, made>>
       \/ /\ made < MaxMade /\ made' = made + 1
          /\ Update(s, [store EXCEPT ![tool[s]] =
                          [gen |-> made + 1, lastRun |-> Never, queued |-> Never, pid |-> 0]],
                    FALSE, {}, {tool[s]})
    /\ UNCHANGED <<now, files, alive, pass, kids, exits, gone, clobbered, torn>>

cron_delete(s, n) ==
    /\ AtAwait(s) /\ store[n] # None
    /\ Update(s, [store EXCEPT ![n] = None], FALSE, {n}, {})
    /\ UNCHANGED <<now, files, alive, pass, tool, kids, exits, hist>>
-----------------------------------------------------------------------------
Tick ==
    /\ now < MaxTime /\ now' = now + 1
    /\ UNCHANGED <<files, sess, kids, exits, hist>>

\* A session dies: its lock stays, and so do the runs it spawned.
Crash(s) ==
    /\ s \in alive /\ Cardinality(Sessions \ alive) < MaxCrashes
    /\ alive' = alive \ {s}
    /\ pass' = [pass EXCEPT ![s] = NoPass] /\ tool' = [tool EXCEPT ![s] = None]
    /\ io' = [io EXCEPT ![s] = None] /\ torn' = IF io[s] # None THEN torn \cup {s} ELSE torn
    /\ exits' = [p \in Pids |-> IF kids[p] # None /\ kids[p].by = s THEN None ELSE exits[p]]
    /\ UNCHANGED <<now, files, kids, made, gone, clobbered>>

PassStep(s) == NextEntry(s) \/ Reviewed(s) \/ Spawn(s) \/ EndPass(s)

Work(s) == WriteBack(s) \/ PassStep(s) \/ CreateReviewed(s)

Next ==
    \/ \E s \in Sessions : Work(s) \/ StartPass(s) \/ Crash(s)
    \/ \E s \in Sessions, n \in Names : cron_create(s, n) \/ cron_delete(s, n)
    \/ \E p \in Pids : KidExits(p) \/ recordExit(p)
    \/ Tick

Spec == Init /\ [][Next]_vars
-----------------------------------------------------------------------------
\* A run that goes on and whose session lived to note it, or lives to do so
Noted(p) == kids[p] # None /\ kids[p].running /\ kids[p].by \notin torn

SameEntry(p, q) == /\ kids[p] # None /\ kids[q] # None /\ p # q
                   /\ kids[p].gen = kids[q].gen /\ kids[p].since <= kids[q].since

\* docs/features/teamwork.md 36: "A single-scheduler lock prevents double-fires".
\* An entry is woken while a run of it goes on only when that one is abandoned,
\* as long as the tools, which do not take the lock, undo no write of the
\* scheduler.  The runs of a session that died before a write of its own are left
\* out, since the write may have been the note of one of them.  The runs of every
\* other session, also of the one that takes over, keep the entry from being woken.
NoDoubleFireUndisturbed ==
    ~clobbered =>
        \A p, q \in Pids : SameEntry(p, q) /\ Noted(p) /\ Noted(q)
                              => kids[q].since - kids[p].since >= QueuedTTL

\* "max 1 queued wake per entry" ends only with the run it stands for: the late
\* exit of an abandoned run does not clear the mark of the one that replaced it.
MarkClearedByItsRun ==
    [][\A n \in Names :
         LET e == store[n]  f == store'[n]
         IN ~clobbered' /\ e # None /\ f # None /\ e.queued # Never
               /\ f.queued = Never /\ f.gen = e.gen => ~kids[e.pid].running]_vars

\* cron_delete, hummin-cron.ts 290: "Delete a cron entry by exact name."  A name
\* that was deleted comes back without being created only from a pass that took
\* its snapshot before, as long as no tool undoes a write of another process;
\* the exit of a run, however late, does not bring it back.
DeletedReturnsOnlyByPass ==
    [][\A n \in gone \cap gone' :
         store[n] = None /\ store'[n] # None /\ ~clobbered'
            => \E s \in Sessions : pass[s].at # "off" /\ pass[s].snap[n] # None]_vars
=============================================================================
