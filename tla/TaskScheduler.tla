---------------------------- MODULE TaskScheduler ---------------------------
(***************************************************************************)
(* The durable Harness's task scheduler                                    *)
(* (packages/durable/src/harness/scheduler.ts).                            *)
(*                                                                         *)
(* Every transition of a task is decided and written by one job on the     *)
(* Session line.  What the job writes is stored and published later, while *)
(* the line runs on, so a decision reads memory, `mem', which lacks what   *)
(* the commits in `pend' will change.  A decision notes the keys it reads  *)
(* and waits for the publication of every commit that writes one of them;  *)
(* GroupCommit models how the Session does that.  Here a job is one step,  *)
(* enabled when nothing it reads is unpublished, and a publication is one. *)
(*                                                                         *)
(* Tasks are numbered as they are created.  A task's parent is its owner   *)
(* task, or the task that owns its conversation, or none.  Only a task of  *)
(* a conversation can be background; ordinary work holds what is above it. *)
(* `tree' says where each task goes if it is created: it is fixed by the   *)
(* plan a behaviour picks from `Plans'.                                    *)
(***************************************************************************)
EXTENDS Naturals, FiniteSets, Sequences, FiniteSetsExt

CONSTANTS
    MaxTasks,           \* how many tasks a plan has at most
    MaxPending,         \* how many commits are unpublished at a time
    MaxClock,           \* how far the clock goes
    RestartLimit,       \* settings.restartLimit
    Abandonable,        \* the tasks created with abandonOnRestart
    Plans               \* a sequence of [places, ops, kinds]: the <<parent, how>> of each task in
                        \* turn, how many operations there are, and of what kinds

Tasks    == 1..MaxTasks
Hows     == {"child", "conversation", "background"}
Statuses == {"none", "pending", "running", "waiting", "sleeping", "completing", "terminal"}
Outcomes == {"none", "completed", "failed"}    \* failed, faulted, orphaned, aborted
Marks    == {"none", "restart", "request"}
Kinds    == {"abort", "registry", "progress", "wait", "sleep", "stop"}

ASSUME BoundsAssumption ==
    /\ MaxTasks \in Nat /\ MaxPending \in Nat \ {0} /\ MaxClock \in Nat
    /\ RestartLimit \in Nat \ {0} /\ Abandonable \subseteq Tasks

ASSUME PlansAssumption ==
    \A n \in DOMAIN Plans :
        LET p == Plans[n].places
        IN /\ Plans[n].ops \in Nat /\ Plans[n].kinds \subseteq Kinds
           /\ p \in Seq(Nat \X Hows) /\ Len(p) <= MaxTasks
           /\ \A t \in DOMAIN p : p[t][1] < t /\ p[t] # <<0, "child">>

VARIABLES
    plan,               \* which of the plans the behaviour follows
    mem,                \* the task records as published; #live with the ended ones
    pend,               \* commits decided and not published: what they write, their keys
    inv,                \* the invocation of each task and where it is
    runnable,           \* #runnable, the candidates of a reservation pass
    finalizeChecks,     \* #finalizeChecks
    failFastChecks,     \* #failFastChecks
    abandoned,          \* #abandoned
    lost,               \* history: what #abandoned was at open
    dirty,              \* a reservation pass is due
    reconciling,        \* a reconcile pass is due
    cascadePending,     \* #cascadePending: it also withdraws queued inputs
    timer,              \* when the timer for sleeping tasks is due, 0 without one
    enabled,            \* resume() was called
    blocked,            \* the tasks no registered definition can take
    now,
    ops                 \* operations left

memory  == <<runnable, finalizeChecks, failFastChecks, abandoned, lost>>
cascade == <<reconciling, cascadePending>>
signals == <<dirty, cascade, timer, enabled>>
host    == <<plan, blocked, now, ops>>
vars    == <<mem, pend, inv, memory, signals, host>>

NoTask ==
    [st |-> "none", out |-> "none", mark |-> "none", restarts |-> 0, on |-> {},
     failFast |-> FALSE, until |-> 0]

NewTask == [NoTask EXCEPT !.st = "pending"]

\* The tasks that a walk up from t passes, by a function that gives the next, or 0
Above(up, t) ==
    {s \in Tasks \ {t} :
        \A R \in SUBSET Tasks : t \in R /\ (\A x \in R : up[x] \in R \cup {0}) => s \in R}

\* The tasks above a task never change: all of them, and those its ordinary work
\* holds, up to the first background task.
Laid(places) ==
    LET parent == [t \in Tasks |-> IF t > Len(places) THEN 0 ELSE places[t][1]]
        how    == [t \in Tasks |-> IF t > Len(places) THEN "never" ELSE places[t][2]]
        held   == [t \in Tasks |-> IF how[t] = "background" THEN 0 ELSE parent[t]]
    IN [t \in Tasks |-> [parent |-> parent[t], how |-> how[t],
                         above |-> Above(parent, t), over |-> Above(held, t)]]

Forest == [n \in DOMAIN Plans |-> Laid(Plans[n].places)]
tree   == Forest[plan]

Init ==
    /\ plan \in DOMAIN Plans /\ ops = Plans[plan].ops
    /\ mem = [t \in Tasks |-> NoTask] /\ pend = <<>> /\ inv = [t \in Tasks |-> "none"]
    /\ runnable = {} /\ finalizeChecks = {} /\ failFastChecks = {}
    /\ abandoned = {} /\ lost = {}
    /\ dirty = FALSE /\ reconciling = FALSE /\ cascadePending = FALSE
    /\ timer = 0 /\ enabled = TRUE
    /\ blocked = {} /\ now = 0
-----------------------------------------------------------------------------
(* What records say, in a view v of them *)

Live(v, t) == v[t].st \notin {"none", "terminal"}

\* It holds or ends with an outcome other than `completed'.
failedOutcome(r) == r.out \notin {"none", "completed"}

cancellationIntent(v, t) == Live(v, t) /\ (v[t].mark # "none" \/ failedOutcome(v[t]))

\* The live ordinary work below t
ownedLive(v, t) == {u \in Tasks : Live(v, u) /\ t \in tree[u].over}

belowCancelled(v, t) == \E s \in tree[t].over : cancellationIntent(v, s)

\* What a task waits for before its next invocation
waitingOn(v, t) ==
    IF v[t].mark # "none" THEN ownedLive(v, t)
    ELSE IF v[t].st = "waiting" THEN {u \in v[t].on : Live(v, u)} ELSE {}

notDue(v, t) == v[t].st = "sleeping" /\ v[t].mark = "none" /\ v[t].until > now

withAbortMark(r, reason) == [r EXCEPT !.mark = reason, !.restarts = 0]
withOutcome(r, st, out)  == [r EXCEPT !.st = st, !.out = out, !.restarts = 0,
                                      !.on = {}, !.failFast = FALSE, !.until = 0]
withStatus(r, st) == [r EXCEPT !.st = st, !.on = {}, !.failFast = FALSE, !.until = 0]
progressed(r)     == [r EXCEPT !.restarts = 0]

\* x cannot settle before y.
Edge(v, x, y) ==
    /\ Live(v, x) /\ Live(v, y)
    /\ \/ v[x].st = "waiting" /\ v[x].mark = "none" /\ y \in v[x].on
       \/ x \in tree[y].over

Closed(v, R) == \A x \in R, y \in Tasks : Edge(v, x, y) => y \in R

\* What the wait-for graph reaches from S
Reach(v, S) ==
    {y \in Tasks : \A R \in SUBSET Tasks : S \subseteq R /\ Closed(v, R) => y \in R}

Owns(t, u) == tree[u].how = "child" /\ tree[u].parent = t
-----------------------------------------------------------------------------
(* Keys: what a decision reads and a commit writes *)

TaskKeys(S)  == {"task"} \X S
OwnedKeys(S) == {"owned"} \X S
INTENT_KEY   == <<"intent", 0>>

\* #below lists x: it is live or something below it is.
Listed(v, x) == \E u \in Tasks : Live(v, u) /\ (u = x \/ x \in tree[u].above)

\* The nodes a walk down from t enters
walkDown(v, t) == OwnedKeys({t} \cup {x \in Tasks : t \in tree[x].over /\ Listed(v, x)})

\* The same when the walk stops at the first live task it finds
firstDown(v, t) ==
    IF ownedLive(v, t) = {} THEN walkDown(v, t)
    ELSE OwnedKeys({t} \cup {x \in tree[Min(ownedLive(v, t))].over : t \in tree[x].over})

\* The tasks above t up to and including the nearest live one
chain(v, t) == {a \in tree[t].above : \A x \in tree[t].above : Live(v, x) => x <= a}

Staged(w) == [t \in Tasks |-> IF t \in DOMAIN w THEN w[t] ELSE mem[t]]

Relisted(w) == {t \in DOMAIN w : mem[t].st = "none" \/ w[t].st = "terminal"}

Chains(w) == LET v == Staged(w) IN UNION {chain(v, t) : t \in Relisted(w)}

membershipKeys(w) == OwnedKeys(Chains(w))

intentChanges(w) ==
    \E t \in DOMAIN w :
        \/ mem[t].mark # w[t].mark
        \/ failedOutcome(mem[t]) # failedOutcome(w[t])
        \/ cancellationIntent(mem, t) # cancellationIntent(Staged(w), t)

Writes(w) ==
    TaskKeys(DOMAIN w) \cup membershipKeys(w) \cup (IF intentChanges(w) THEN {INTENT_KEY} ELSE {})

\* No unpublished commit writes one of these keys.
Published(keys) == \A n \in DOMAIN pend : pend[n].keys \cap keys = {}

\* A job that read `reads' commits w.  The chains above created and ended tasks
\* are read too, to find the memberships that change.
Commit(w, reads) ==
    /\ Published(reads \cup TaskKeys(Chains(w) \ DOMAIN w))
    /\ IF DOMAIN w = {} THEN UNCHANGED pend
       ELSE /\ Len(pend) < MaxPending
            /\ pend' = Append(pend, [w |-> w, keys |-> Writes(w)])

Nothing   == [x \in {} |-> NoTask]
One(t, r) == [x \in {t} |-> r]
Both(w1, w2) == [t \in DOMAIN w1 \cup DOMAIN w2 |-> IF t \in DOMAIN w2 THEN w2[t] ELSE w1[t]]

\* The records once everything decided is published
Tip == LET n == Len(pend)
           Writers(t) == {i \in 1..n : t \in DOMAIN pend[i].w}
       IN [t \in Tasks |-> IF Writers(t) = {} THEN mem[t] ELSE pend[Max(Writers(t))].w[t]]

Spend(kind) == ops > 0 /\ kind \in Plans[plan].kinds /\ ops' = ops - 1

\* The timer is kept for the earliest sleep not yet due.  The microtask that
\* recomputes it is part of the step that queues it.
scheduleWake(v, on) ==
    LET at == {v[t].until : t \in {u \in Tasks : notDue(v, u)}}
    IN timer' = IF on /\ at # {} THEN Min(at) ELSE 0

kick(v, on) == dirty' = TRUE /\ scheduleWake(v, on)
-----------------------------------------------------------------------------
(* Publication *)

\* Faulty variant: only the parent of an ended task is looked at.
released_parent(v, ended) == {tree[t].parent : t \in ended} \cap {s \in Tasks : Live(v, s)}

\* #release: the nearest live task above each ended ordinary one may be free now.
released(v, ended) ==
    LET liveOver(t) == {s \in tree[t].over : Live(v, s)}
    IN {Max(liveOver(t)) : t \in {u \in ended : liveOver(u) # {}}}

\* #observe: a commit's task changes reach memory and put what they may free
\* back among the candidates of the passes they make due.
Publish ==
    /\ pend # <<>>
    /\ LET w == Head(pend).w
           v == Staged(w)
           changed == DOMAIN w
           ended == {t \in changed : v[t].st = "terminal"}
           held == {t \in changed : v[t].st = "completing"}
           holding == {t \in held : mem[t].st # "completing"}
           marked == {t \in changed \ ended : v[t].mark # mem[t].mark}
           failed == {t \in changed : failedOutcome(v[t]) /\ ~failedOutcome(mem[t])}
           freed == released(v, ended)
           failFast == {t \in Tasks : v[t].st = "waiting" /\ v[t].failFast
                                      /\ (v[t].on \cap failed # {} \/ mem[t].st # "waiting")}
       IN /\ mem' = v /\ pend' = Tail(pend)
          /\ runnable' = (runnable \cup (changed \ held)
                              \cup {f \in freed : v[f].st # "completing" /\ v[f].mark # "none"}
                              \cup {t \in Tasks : v[t].st = "waiting" /\ v[t].on \cap ended # {}})
                         \ (held \cup ended)
          /\ finalizeChecks' = (finalizeChecks \cup held
                                    \cup {f \in freed : v[f].st = "completing"}) \ ended
          /\ failFastChecks' = (failFastChecks \cup failFast) \ ended
          /\ cascadePending' = (\/ cascadePending \/ marked # {}
                                \/ \E t \in holding : cancellationIntent(v, t)
                                \/ \E t \in changed : mem[t].st = "none" /\ belowCancelled(v, t))
          /\ reconciling' = (reconciling \/ cascadePending' \/ ended \cup holding \cup failFast # {})
    /\ kick(mem', enabled)
    /\ UNCHANGED <<inv, abandoned, lost, enabled, host>>
-----------------------------------------------------------------------------
(* What the host does *)

\* The next task of the plan: at most one
Unborn ==
    LET left == {t \in Tasks : /\ tree[t].how # "never" /\ mem[t].st = "none"
                               /\ \A n \in DOMAIN pend : t \notin DOMAIN pend[n].w}
    IN {t \in left : \A u \in left : t <= u}

\* New owned work needs an owner that is live, without outcome and unmarked.
Ownable(v, p) == Live(v, p) /\ v[p].st # "completing" /\ v[p].mark = "none"

\* Each task owns a conversation that was created with it, and the host one that no
\* task owns; a conversation takes tasks whatever became of its owner.
HasConversation(p) == p # 0 => mem[p].st # "none"

\* The place of t in the plan can take it.
Creatable(t) ==
    LET p == tree[t].parent
    IN IF tree[t].how = "child" THEN Ownable(mem, p) /\ Published(TaskKeys({p}))
       ELSE HasConversation(p)

createTask ==
    /\ \E t \in Unborn : Creatable(t) /\ Commit(One(t, NewTask), {})
    /\ UNCHANGED <<mem, inv, memory, signals, host>>

\* Faulty variant: work that the same commit creates below does not count.
terminate_committed(v, t, out) ==
    withOutcome(v[t], IF ownedLive(mem, t) = {} THEN "terminal" ELSE "completing", out)

\* The scheduler ends a task with an outcome of its own; live work below holds it.
terminate(v, t, out) ==
    withOutcome(v[t], IF ownedLive(v, t) = {} THEN "terminal" ELSE "completing", out)

\* A task that no definition can take and that owns nothing is orphaned at once.
abort(t) ==
    /\ Spend("abort")
    /\ Live(mem, t)
    /\ LET idle == inv[t] = "none" /\ mem[t].st # "completing"
           orphan == idle /\ ownedLive(mem, t) = {} /\ t \in blocked
       IN Commit(IF orphan THEN One(t, terminate(mem, t, "failed"))
                 ELSE IF mem[t].mark = "request" THEN Nothing
                 ELSE One(t, withAbortMark(mem[t], "request")),
                 TaskKeys({t}) \cup (IF idle THEN firstDown(mem, t) ELSE {}))
    /\ UNCHANGED <<mem, inv, memory, signals, plan, blocked, now>>

\* The tasks below the conversation of p, the root conversation for 0
InConversation(p, across) ==
    LET In[t \in 0..MaxTasks] ==
            t # 0 /\ \/ tree[t].parent = p /\ tree[t].how # "child"
                     \/ In[tree[t].parent] /\ (across \/ tree[tree[t].parent].how # "background")
    IN {t \in Tasks : Live(mem, t) /\ In[t] /\ (across \/ tree[t].how # "background")}

abortConversation ==
    /\ Spend("abort")
    /\ pend = <<>>
    /\ \E p \in 0..MaxTasks, across \in BOOLEAN :
          /\ HasConversation(p)
          /\ Commit([t \in {u \in InConversation(p, across) : mem[u].mark # "request"} |->
                        withAbortMark(mem[t], "request")], {})
    /\ UNCHANGED <<mem, inv, memory, signals, plan, blocked, now>>

\* The registry gains or loses the definition of t; for a task that has ended it
\* makes no difference.
RegistryChange(t) ==
    /\ Spend("registry")
    /\ Live(mem, t)
    /\ blocked' = IF t \in blocked THEN blocked \ {t} ELSE blocked \cup {t}
    /\ kick(mem, enabled)
    /\ UNCHANGED <<mem, pend, inv, memory, cascade, enabled, plan, now>>

Due == {t \in Tasks : mem[t].st = "sleeping" /\ ~notDue(mem, t)}

resume ==
    /\ ~enabled /\ enabled' = TRUE
    /\ runnable' = runnable \cup Due
    /\ kick(mem, TRUE)
    /\ UNCHANGED <<mem, pend, inv, finalizeChecks, failFastChecks, abandoned, lost,
                   cascade, host>>

Tick ==
    /\ now < MaxClock /\ now' = now + 1
    /\ \E t \in Tasks : mem[t].st = "sleeping"
    /\ UNCHANGED <<mem, pend, inv, memory, signals, plan, blocked, ops>>

TimerFires ==
    /\ timer # 0 /\ timer <= now
    /\ runnable' = runnable \cup Due
    /\ kick(mem, enabled)
    /\ UNCHANGED <<mem, pend, inv, finalizeChecks, failFastChecks, abandoned, lost,
                   cascade, enabled, host>>
-----------------------------------------------------------------------------
(* The passes *)

\* The first pass after open only marks the tasks an earlier Harness left behind.
reserveAbandoned ==
    /\ dirty /\ enabled /\ abandoned # {}
    /\ Commit([t \in {a \in abandoned : Live(mem, a) /\ mem[a].mark = "none"} |->
                  withAbortMark(mem[t], "restart")], TaskKeys(abandoned))
    /\ abandoned' = {}
    /\ UNCHANGED <<mem, inv, runnable, finalizeChecks, failFastChecks, lost, signals, host>>

Candidates == runnable \cup Due

\* What #planReservation drops: they return once what they wait for ends, their
\* record changes or their time comes.
Dropped(cands) ==
    {t \in cands : \/ inv[t] # "none" \/ ~Live(mem, t) \/ mem[t].st = "completing"
                  \/ waitingOn(mem, t) # {} \/ notDue(mem, t)}

\* Below a cancelled owner they wait for its cascade.
Cascading(kept) == {t \in kept : mem[t].mark = "none" /\ belowCancelled(mem, t)}

\* Faulty variant: the work below an aborting task is not read as a key.
reserveReads_records(cands, kept, cutOff) ==
    TaskKeys({t \in cands : inv[t] = "none"}) \cup {INTENT_KEY}

\* The keys it reads, with those for ending a task that was cut off
reserveReads(cands, kept, cutOff) ==
    LET free    == {t \in cands : inv[t] = "none"}
        aborted == {t \in free : Live(mem, t) /\ mem[t].mark # "none"}
    IN TaskKeys(free)
       \cup (IF \E t \in kept : mem[t].mark = "none" /\ tree[t].how # "background"
             THEN {INTENT_KEY} ELSE {})
       \cup UNION {firstDown(mem, t) : t \in aborted \cup cutOff}

\* Every candidate that can run is reserved.  One that was cut off too often
\* ends faulted; an aborting one without a definition ends orphaned, unless a
\* restart abandoned it.  Of those that end, live work below holds one unless it is
\* taken after that work has ended too.
reserve ==
    /\ dirty /\ enabled /\ abandoned = {}
    /\ LET cands == Candidates
           kept == cands \ Dropped(cands)
           cascading == Cascading(kept)
           ready == kept \ cascading
           cutOff == {t \in ready : mem[t].restarts >= RestartLimit}
           orphans == {t \in (ready \ cutOff) \cap blocked : mem[t].mark = "request"}
           ending == cutOff \cup orphans
           starting == ready \ (cutOff \cup blocked)
           taken == [t \in {u \in starting : mem[u].st # "running"} |->
                        withStatus(mem[t], "running")]
       IN /\ \E gone \in SUBSET ending :
                LET ended == [t \in ending |->
                                 withOutcome(mem[t], IF t \in gone THEN "terminal" ELSE "completing",
                                             "failed")]
                IN /\ \A t \in ending : ownedLive(mem, t) = {} => t \in gone
                   /\ \A t \in gone : ownedLive(mem, t) \subseteq gone
                   /\ Commit(Both(ended, taken), reserveReads(cands, kept, cutOff))
          /\ inv' = [t \in Tasks |-> IF t \notin starting THEN inv[t]
                                    ELSE IF mem[t].mark = "none" THEN "start" ELSE "abort"]
          /\ runnable' = kept \ starting
          /\ reconciling' = (reconciling \/ cascading # {})
          /\ cascadePending' = (cascadePending \/ cascading # {})
    /\ dirty' = FALSE
    /\ UNCHANGED <<mem, finalizeChecks, failFastChecks, abandoned, lost,
                   timer, enabled, host>>

\* The failFast waiters to check one of whose tasks failed
Failing == {t \in failFastChecks : /\ mem[t].st = "waiting"
                                   /\ \E u \in mem[t].on : failedOutcome(mem[u])}

\* The nearest cancelled owner above t
Canceller(t) == Max({s \in tree[t].over : cancellationIntent(mem, s)})

\* A mark below a task that a restart abandoned, and that has not failed, is one too.
restartBelow(s) == mem[s].mark = "restart" /\ ~failedOutcome(mem[s])

\* #planMarks: a request wins over a restart.
marks ==
    LET below   == {t \in Tasks : Live(mem, t) /\ belowCancelled(mem, t)}
        members == {t \in UNION {mem[x].on : x \in Failing} : Live(mem, t) /\ ~failedOutcome(mem[t])}
        requests == {t \in members \cup {b \in below : ~restartBelow(Canceller(b))} :
                        mem[t].mark # "request"}
        restarts == {t \in below \ requests : mem[t].mark = "none"}
    IN [t \in requests \cup restarts |->
            withAbortMark(mem[t], IF t \in requests THEN "request" ELSE "restart")]

\* Given that `done' are finalized, so is t: it holds its outcome for nothing else,
\* and it is to check, or the nearest task above one of them that is not.
Finalizes(t, done) ==
    /\ mem[t].st = "completing" /\ ownedLive(mem, t) \subseteq done
    /\ \/ t \in finalizeChecks
       \/ \E u \in done : /\ t \in tree[u].over
                          /\ \A s \in tree[u].over : s > t /\ Live(mem, s) => s \in done

\* #finalize: the held outcomes that nothing holds any more, in rounds until no
\* more come.
finalized ==
    {t \in Tasks : \A done \in SUBSET Tasks :
        (\A x \in Tasks : Finalizes(x, done) => x \in done) => t \in done}

reconcileReads(ended) ==
    LET cancelled == {t \in Tasks : cancellationIntent(mem, t)}
        below     == {t \in Tasks : Live(mem, t) /\ belowCancelled(mem, t)}
        checks    == {t \in finalizeChecks \cup ended : mem[t].st = "completing"}
        freed(t)  == {s \in tree[t].over :
                         \A x \in tree[t].over : Live(mem, x) /\ x \notin ended => x <= s}
    IN {INTENT_KEY} \cup TaskKeys(cancelled \cup below \cup finalizeChecks \cup ended)
       \cup TaskKeys(UNION {freed(t) : t \in ended})
       \cup (UNION {walkDown(mem, t) : t \in cancelled})
       \cup TaskKeys(failFastChecks \cup UNION {mem[t].on : t \in failFastChecks})
       \cup UNION {firstDown(mem, t) : t \in checks}

\* One commit that applies what the published records imply.  A cascade looks for
\* queued inputs to withdraw, a scan that waits for every unpublished commit.
reconcile ==
    /\ reconciling /\ (cascadePending => pend = <<>>)
    /\ LET m == marks
           ended == finalized
           w == [t \in ended |-> withOutcome(Staged(m)[t], "terminal", mem[t].out)]
       IN Commit(Both(m, w), reconcileReads(ended))
    /\ reconciling' = FALSE /\ cascadePending' = FALSE
    /\ finalizeChecks' = {} /\ failFastChecks' = {}
    /\ scheduleWake(mem, enabled)
    /\ UNCHANGED <<mem, inv, runnable, abandoned, lost, dirty, enabled, host>>
-----------------------------------------------------------------------------
(* Invocations: the step before each phase, and what a handler commits *)

\* #end, and the kick that follows: the task is free for another invocation.
end(t) ==
    /\ inv' = [inv EXCEPT ![t] = "none"]
    /\ runnable' = IF Live(mem, t) THEN runnable \cup {t} ELSE runnable
    /\ kick(mem, enabled)

\* Rules 1 and 3: it is not running any more, or a run finds an abort mark.
stepEnds(t) ==
    /\ inv[t] # "none"
    /\ Published(TaskKeys({t}))
    /\ mem[t].st # "running" \/ (inv[t] # "abort" /\ mem[t].mark # "none")
    /\ end(t)
    /\ UNCHANGED <<mem, pend, finalizeChecks, failFastChecks, abandoned, lost,
                   cascade, enabled, host>>

\* The record a step that goes on past rules 1 to 3 has read
Proceeds(t) ==
    /\ Published(TaskKeys({t}))
    /\ mem[t].st = "running" /\ mem[t].mark = "none"
    /\ tree[t].how # "background" => Published({INTENT_KEY})

\* An owner's cancellation reaches it before the cascade does.
stepCascade(t) ==
    /\ inv[t] \in {"start", "phase", "progressed"}
    /\ Proceeds(t) /\ belowCancelled(mem, t)
    /\ end(t) /\ reconciling' = TRUE /\ cascadePending' = TRUE
    /\ UNCHANGED <<mem, pend, finalizeChecks, failFastChecks, abandoned, lost, enabled, host>>

\* The first phase, or the next one after durable progress
stepContinue(t) ==
    /\ inv[t] \in {"start", "progressed"}
    /\ Proceeds(t) /\ ~belowCancelled(mem, t)
    /\ inv' = [inv EXCEPT ![t] = "phase"]
    /\ UNCHANGED <<mem, pend, memory, signals, host>>

\* Progress under a replaced definition that can take the task
stepHandover(t) ==
    /\ inv[t] = "progressed" /\ t \notin blocked
    /\ Proceeds(t) /\ ~belowCancelled(mem, t)
    /\ Commit(One(t, withStatus(mem[t], "pending")), {})
    /\ end(t)
    /\ UNCHANGED <<mem, finalizeChecks, failFastChecks, abandoned, lost,
                   cascade, enabled, host>>

\* Rules 4 and 6: the handler threw, or returned without progress; an abort
\* handler that leaves the task running faults either way.
stepFault(t) ==
    /\ \/ inv[t] \in {"phase", "progressed"} /\ Proceeds(t) /\ ~belowCancelled(mem, t)
       \/ inv[t] = "abort" /\ Published(TaskKeys({t})) /\ mem[t].st = "running"
    /\ Commit(One(t, terminate(mem, t, "failed")), firstDown(mem, t))
    /\ end(t)
    /\ UNCHANGED <<mem, finalizeChecks, failFastChecks, abandoned, lost,
                   cascade, enabled, host>>

\* #gated: the task is reread on the line.
gated(t) ==
    /\ inv[t] \in {"phase", "progressed", "abort"}
    /\ Published(TaskKeys({t}))
    /\ mem[t].st = "running"
    /\ inv[t] # "abort" => mem[t].mark = "none"

\* What a commit of t creates: nothing, or the next task.  The commit that ends t
\* cannot create owned work.
Created(t, ending) ==
    LET next == {u \in Unborn : Creatable(u) /\ ~(ending /\ Owns(t, u))}
    IN {Nothing} \cup {One(u, NewTask) : u \in next}

commitProgress(t) ==
    /\ Spend("progress")
    /\ gated(t)
    /\ \E created \in Created(t, FALSE) : Commit(Both(created, One(t, progressed(mem[t]))), {})
    /\ inv' = [inv EXCEPT ![t] = IF @ = "abort" THEN "abort" ELSE "progressed"]
    /\ UNCHANGED <<mem, memory, signals, plan, blocked, now>>

\* #checkWait: a wait names tasks there are, failFast only owned ones, and must
\* not close a cycle of tasks that wait for one another.
ValidWait(v, t, on, failFast) ==
    /\ \A u \in on : v[u].st # "none" /\ (failFast => Owns(t, u))
    /\ t \notin Reach(v, {u \in on : Live(v, u) /\ ~Owns(t, u)})

\* Faulty variant: the records the search passes are read without their keys.
waitReads_none(v, t, on) == {}

waitReads(v, t, on) ==
    LET reached == Reach(v, {u \in on : Live(v, u) /\ ~Owns(t, u)})
    IN TaskKeys(on \cup reached) \cup UNION {walkDown(v, x) : x \in reached}

commitWait(t) ==
    /\ Spend("wait")
    /\ gated(t) /\ inv[t] # "abort"
    /\ \E created \in Created(t, FALSE), on \in (SUBSET Tasks) \ {{}}, failFast \in BOOLEAN :
          LET v == Staged(created)
              r == [progressed(mem[t]) EXCEPT !.st = "waiting", !.on = on, !.failFast = failFast]
          IN /\ ValidWait(v, t, on, failFast)
             /\ Commit(Both(created, One(t, r)), waitReads(v, t, on))
    /\ UNCHANGED <<mem, inv, memory, signals, plan, blocked, now>>

sleepUntil(t) ==
    /\ Spend("sleep")
    /\ gated(t) /\ inv[t] # "abort" /\ now < MaxClock
    /\ Commit(One(t, [progressed(mem[t]) EXCEPT !.st = "sleeping", !.until = now + 1]), {})
    /\ UNCHANGED <<mem, inv, memory, signals, plan, blocked, now>>

\* An outcome is held while ordinary owned work is live.
commitOutcome(t) ==
    /\ gated(t)
    /\ \E created \in Created(t, TRUE), out \in {"completed", "failed"} :
          LET v == Staged(created)
          IN Commit(Both(created, One(t, terminate(v, t, out))), firstDown(v, t))
    /\ UNCHANGED <<mem, inv, memory, signals, host>>
-----------------------------------------------------------------------------
(* The end of the process, and the next one *)

\* Faulty variant: only the tasks that were running count.
leftBehind_running == {t \in Abandonable : mem[t].st = "running"}

\* The tasks with abandonOnRestart that an earlier Harness left
leftBehind == {t \in Abandonable : Live(mem, t)}

\* open: the live tasks are loaded, and those that were running are pending again,
\* counted as cut off.  `stopped' are those a close wrote back as pending before.
open(stopped) ==
    /\ Spend("stop")
    /\ pend' = <<>> /\ inv' = [t \in Tasks |-> "none"]
    /\ mem' = [t \in Tasks |->
                  IF mem[t].st # "running" THEN mem[t]
                  ELSE [withStatus(mem[t], "pending") EXCEPT
                           !.restarts = IF t \in stopped THEN @ ELSE @ + 1]]
    /\ runnable' = {t \in Tasks : Live(mem, t) /\ mem[t].st # "completing"}
    /\ finalizeChecks' = {t \in Tasks : mem[t].st = "completing"}
    /\ failFastChecks' = {t \in Tasks : mem[t].st = "waiting" /\ mem[t].failFast}
    /\ abandoned' = leftBehind /\ lost' = {t \in Abandonable : Live(mem, t)}
    /\ reconciling' = TRUE /\ cascadePending' = TRUE
    /\ enabled' = FALSE /\ dirty' = FALSE /\ timer' = 0
    /\ UNCHANGED <<plan, blocked, now>>

\* What is not published is not stored, or it is published first and lost with the rest.
Crash == open({})

\* join: invocations end, and the tasks they ran are written back as pending.
Close ==
    /\ pend = <<>>
    /\ open({t \in Tasks : inv[t] # "none"})

Next ==
    \/ createTask \/ abortConversation \/ Publish \/ reserveAbandoned \/ reserve \/ reconcile
    \/ resume \/ Tick \/ TimerFires \/ Crash \/ Close
    \/ \E t \in Tasks :
        \/ abort(t) \/ RegistryChange(t)
        \/ stepEnds(t) \/ stepCascade(t) \/ stepContinue(t) \/ stepHandover(t) \/ stepFault(t)
        \/ commitProgress(t) \/ commitWait(t) \/ sleepUntil(t) \/ commitOutcome(t)

Spec == Init /\ [][Next]_vars
-----------------------------------------------------------------------------
(* Properties *)

Promise == INSTANCE TaskPromise WITH
    life    <- [t \in Tasks |-> CASE mem[t].st = "none" -> "none"
                                 [] mem[t].st = "completing" -> "held"
                                 [] mem[t].st = "terminal" -> "ended"
                                 [] OTHER -> "live"],
    outcome <- [t \in Tasks |-> mem[t].out],
    over    <- [t \in Tasks |-> tree[t].over]

\* The published records implement TaskPromise: a task gets one outcome, which
\* then stays, and ends only when no ordinary work below it is live, although
\* what decides it lacks the commits that are not published yet.
KeepsTaskPromise == Promise!Spec

\* No task waits for one that cannot settle before it does, in the records as
\* all decided commits leave them: through waits and owned work, nothing that a
\* waiting task names leads back to it.  It is what #validateWait maintains by
\* checking each new wait against memory.
NoWaitCycle ==
    LET tip == Tip
    IN \A t \in Tasks : tip[t].st = "waiting" /\ tip[t].mark = "none" =>
          t \notin Reach(tip, {u \in tip[t].on : Live(tip, u)})

\* An abort handler starts only when no ordinary work below its task is live,
\* published or not: abort runs bottom-up.
AbortBottomUp ==
    [][\A t \in Tasks : inv[t] # "abort" /\ inv'[t] = "abort" => ownedLive(Tip, t) = {}]_vars

\* No task that an earlier Harness left behind with abandonOnRestart, and no
\* ordinary work below one that is live, runs a phase again (#abandoned).
AbandonedNeverRuns ==
    \A t \in Tasks :
        inv[t] \in {"phase", "progressed"} =>
            t \notin lost /\ \A s \in tree[t].over \cap lost : ~Live(mem, s)

\* When no pass, publication or timer is due, no task is forgotten: every
\* one without an invocation waits for a task that is live, for a definition, for
\* a time that the timer is set for, or holds its outcome for live work below; no
\* cancellation and no failed failFast wait is left unapplied.  A sleep whose time
\* has come is left out: a reconcile pass that writes nothing recomputes the wake,
\* and when it does so after that time and before the timer fires, it disarms the
\* timer, and the task sleeps on until the next reservation pass (#armTimer).
NothingForgotten ==
    pend = <<>> /\ ~dirty /\ ~reconciling /\ enabled /\ ~(timer # 0 /\ timer <= now) =>
        \A t \in Tasks : Live(mem, t) =>
            /\ \/ inv[t] # "none"
               \/ mem[t].st = "completing" /\ ownedLive(mem, t) # {}
               \/ mem[t].st # "completing" /\ waitingOn(mem, t) # {}
               \/ mem[t].st = "sleeping" /\ (notDue(mem, t) => timer # 0 /\ timer <= mem[t].until)
               \/ t \in blocked /\ t \in runnable /\ mem[t].mark # "request"
            /\ belowCancelled(mem, t) => mem[t].mark # "none"
            /\ mem[t].st = "waiting" /\ mem[t].failFast
                 /\ (\E u \in mem[t].on : failedOutcome(mem[u])) =>
                    \A u \in mem[t].on : Live(mem, u) => mem[u].mark = "request" \/ failedOutcome(mem[u])
=============================================================================
