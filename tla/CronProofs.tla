----------------------------- MODULE CronProofs -----------------------------
(***************************************************************************)
(* Theorems about Cron for any number of sessions, entries, runs and       *)
(* crashes.                                                                *)
(***************************************************************************)
EXTENDS Cron, TLAPS

Passes == [at : {"off", "loop", "review", "brief"}, now : Times, left : SUBSET Names,
           cur : Names \cup {None}, snap : Stores]

TypeOK ==
    /\ now \in Times /\ store \in Stores /\ alive \subseteq Sessions
    /\ pass \in [Sessions -> Passes]
    /\ io \in [Sessions -> Updates \cup {None}]
    /\ kids \in [Pids -> Kids \cup {None}]
    /\ made \in Nat

\* A pass or the record of an exit under way has the lock, and its process lives.
Locked ==
    \A s \in Sessions :
        /\ pass[s].at # "off" => s \in alive /\ lock = s
        /\ io[s] # None => s \in alive
        /\ io[s] # None /\ io[s].unlock => lock = s /\ pass[s].at = "off"

\* The entries a pass has still to wake
Todo(s) == pass[s].left \cup (IF pass[s].at \in {"review", "brief"} THEN {pass[s].cur} ELSE {})

\* They are entries of its snapshot without a mark that counts.
Selected ==
    \A s \in Sessions :
        /\ pass[s].at = "off" => pass[s].left = {}
        /\ pass[s].at \in {"review", "brief"} => pass[s].cur \in Names \ pass[s].left
        /\ \A n \in Todo(s) :
             /\ pass[s].snap[n] # None
             /\ pass[s].snap[n].queued # Never => pass[s].now - pass[s].snap[n].queued >= QueuedTTL

Over(p) == kids[p] # None /\ ~kids[p].running

\* What may be about to be written: a new entry, a file without an entry, an
\* entry without the mark of a run that has ended, or what a pass does to the
\* entry it has dealt with.
NewEntry(g) == [gen |-> g, lastRun |-> Never, queued |-> Never, pid |-> 0]

Creation(u, n) == /\ u.add = {n} /\ ~u.unlock /\ u.next[n] # None
                  /\ u.next = [u.copy EXCEPT ![n] = NewEntry(u.next[n].gen)]

Deletion(u, n) == u.add = {} /\ ~u.unlock /\ u.next = [u.copy EXCEPT ![n] = None]

Clearing(u, n) == /\ u.add = {} /\ u.unlock /\ u.copy[n] # None
                  /\ u.next = [u.copy EXCEPT ![n].queued = Never]
                  /\ u.copy[n].pid \in Pids /\ Over(u.copy[n].pid)

PassWrite(s) ==
    LET u == io[s]   n == pass[s].cur
    IN /\ u.add = {} /\ ~u.unlock /\ pass[s].at = "loop"
       /\ n \in Names \ pass[s].left /\ pass[s].snap[n] # None /\ u.next[n] # None
       /\ u.next = [u.copy EXCEPT ![n] = u.next[n]] /\ u.next[n].gen = pass[s].snap[n].gen

Shape(s) ==
    PassWrite(s) \/ \E n \in Names : Creation(io[s], n) \/ Deletion(io[s], n) \/ Clearing(io[s], n)

Shaped == \A s \in Sessions : io[s] # None => Shape(s)

\* A creation of name n is in sight.
Has(f, n, g) == f[n] # None /\ f[n].gen = g

Known(n, g) ==
    \/ Has(store, n, g)
    \/ \E s \in Sessions : Has(pass[s].snap, n, g) \/ (io[s] # None /\ Has(io[s].copy, n, g))
    \/ \E p \in Pids : kids[p] # None /\ kids[p].name = n /\ kids[p].gen = g

\* Every creation is one of one name, and one that is about to be written is new.
Adds(s, n, g) == io[s] # None /\ io[s].add = {n} /\ io[s].next[n].gen = g

GensApart ==
    /\ \A n \in Names, g \in Nat : Known(n, g) => g <= made
    /\ \A n, m \in Names, g \in Nat : Known(n, g) /\ Known(m, g) => n = m
    /\ \A s \in Sessions, n \in Names, g \in Nat : Adds(s, n, g) =>
         /\ g <= made /\ \A m \in Names : ~Known(m, g)
         /\ \A t \in Sessions, m \in Names : Adds(t, m, g) => s = t

\* No run is in the future.
Past(f, t) == \A n \in Names : f[n] # None /\ f[n].lastRun # Never => f[n].lastRun <= t

Timely ==
    /\ Past(store, now)
    /\ \A s \in Sessions : /\ pass[s].now <= now /\ Past(pass[s].snap, pass[s].now)
                           /\ io[s] # None => Past(io[s].next, now)

\* As long as no write is undone, what a pass has yet to deal with is in the file
\* as in the snapshot, if it is there.
Same(f, n, e) == Has(f, n, e.gen) => f[n] = e

Current ==
    \A s \in Sessions :
        /\ \A n \in Todo(s) : Same(store, n, pass[s].snap[n])
        /\ io[s] # None /\ PassWrite(s) /\ io[s].next[pass[s].cur].queued = Never
              => Same(store, pass[s].cur, io[s].next[pass[s].cur])

\* An entry shows a run that goes on: it bears its mark, or it was woken again
\* when that one was abandoned.
Shows(e, k, p) ==
    e.gen = k.gen =>
        \/ e.pid = p /\ e.queued = k.since
        \/ e.lastRun # Never /\ e.lastRun >= k.since + QueuedTTL

AllShow(f, k, p) == \A n \in Names : f[n] # None => Shows(f[n], k, p)

\* The mark of p is about to be written.
MarkComes(p) == LET s == kids[p].by
                IN io[s] # None /\ PassWrite(s) /\ pass[s].cur = kids[p].name

\* Every run that goes on is shown, unless the process that spawned it died
\* before a write.
Shown ==
    \A p \in Pids : Noted(p) =>
        /\ AllShow(store, kids[p], p) \/ MarkComes(p)
        /\ \A s \in Sessions :
             /\ \A n \in Todo(s) : Shows(pass[s].snap[n], kids[p], p)
             /\ io[s] # None /\ PassWrite(s) => Shows(io[s].next[pass[s].cur], kids[p], p)
        /\ \A q \in Pids : Noted(q) /\ SameEntry(p, q) => kids[q].since - kids[p].since >= QueuedTTL

\* Rounds are counted for runs that have ended; names are reviewed and deleted.
Ended ==
    /\ gone \subseteq Names
    /\ tool \in [Sessions -> Names \cup {None}] /\ exits \in [Pids -> Nat \cup {None}]
    /\ \A p \in Pids : exits[p] # None => kids[p] # None /\ ~kids[p].running

IInv ==
    /\ TypeOK /\ Ended /\ Locked /\ Selected /\ Shaped /\ GensApart /\ Timely
    /\ ~clobbered => Current
    /\ ~clobbered => Shown
-----------------------------------------------------------------------------
(* The steps, as far as the invariant can tell them apart *)

quiet == <<store, alive, kids, made, clobbered, torn>>

\* Nothing but the clock, what a tool is reviewed for or a count of rounds changes.
Idles == now' \in Times /\ now <= now' /\ UNCHANGED <<quiet, lock, pass, io>>

Writes(s) ==
    /\ s \in alive /\ io[s] # None
    /\ store' = io[s].next /\ (~clobbered' => ~clobbered /\ store = io[s].copy)
    /\ lock' = IF io[s].unlock THEN None ELSE lock
    /\ io' = [io EXCEPT ![s] = None]
    /\ UNCHANGED <<now, alive, pass, kids, made, torn>>

Starts(s) ==
    /\ s \in alive /\ io[s] = None /\ pass[s].at = "off" /\ LockAvailable /\ lock' = s
    /\ \E due \in SUBSET {n \in Names : store[n] # None /\ (store[n].queued # Never
                                               => now - store[n].queued >= QueuedTTL)} :
         pass' = [pass EXCEPT ![s] = [at |-> "loop", now |-> now, cur |-> None, snap |-> store,
                                      left |-> due]]
    /\ UNCHANGED <<now, io, quiet>>

Picks(s) ==
    /\ io[s] = None /\ pass[s].at = "loop"
    /\ \E n \in pass[s].left :
         pass' = [pass EXCEPT ![s].at = "review", ![s].cur = n, ![s].left = @ \ {n}]
    /\ UNCHANGED <<now, lock, io, quiet>>

Briefs(s) ==
    /\ io[s] = None /\ pass[s].at = "review" /\ pass' = [pass EXCEPT ![s].at = "brief"]
    /\ UNCHANGED <<now, lock, io, quiet>>

FailsToSpawn(s) ==
    /\ io[s] = None /\ pass[s].at = "brief" /\ pass' = [pass EXCEPT ![s].at = "loop"]
    /\ UNCHANGED <<now, lock, io, quiet>>

Changes(s, n, e, unlock, drop, add) == Update(s, [store EXCEPT ![n] = e], unlock, drop, add)

Holds(s) ==
    /\ s \in alive /\ io[s] = None /\ pass[s].at = "review"
    /\ pass' = [pass EXCEPT ![s].at = "loop"]
    /\ Changes(s, pass[s].cur, pass[s].snap[pass[s].cur], FALSE, {}, {})
    /\ UNCHANGED <<now, lock, quiet>>

Spawns(s, p) ==
    LET n == pass[s].cur   e == pass[s].snap[n]
    IN /\ s \in alive /\ io[s] = None /\ pass[s].at = "brief" /\ kids[p] = None
       /\ pass' = [pass EXCEPT ![s].at = "loop"]
       /\ kids' = [kids EXCEPT ![p] = [name |-> n, gen |-> e.gen, by |-> s,
                                       since |-> pass[s].now, running |-> TRUE]]
       /\ Changes(s, n, [e EXCEPT !.lastRun = pass[s].now, !.queued = pass[s].now, !.pid = p],
                  FALSE, {}, {})
       /\ UNCHANGED <<now, lock, store, alive, made, clobbered, torn>>

Stops(s) ==
    /\ io[s] = None /\ pass[s].at = "loop"
    /\ pass' = [pass EXCEPT ![s] = NoPass] /\ lock' = None
    /\ UNCHANGED <<now, io, quiet>>

Exits(p) ==
    /\ kids[p] # None /\ kids' = [kids EXCEPT ![p].running = FALSE]
    /\ UNCHANGED <<now, lock, store, alive, pass, io, made, clobbered, torn>>

Drops == LockAvailable /\ lock' = None /\ UNCHANGED <<now, pass, io, quiet>>

\* A run that has ended is recorded.
Records(s, n, p) ==
    /\ s \in alive /\ io[s] = None /\ LockAvailable /\ lock' = s
    /\ store[n] # None /\ store[n].pid = p /\ Over(p)
    /\ Changes(s, n, [store[n] EXCEPT !.queued = Never], TRUE, {}, {})
    /\ UNCHANGED <<now, pass, quiet>>

Deletes(s, n) ==
    /\ s \in alive /\ io[s] = None /\ pass[s].at # "loop"
    /\ Changes(s, n, None, FALSE, {n}, {})
    /\ UNCHANGED <<now, lock, pass, quiet>>

Creates(s, n) ==
    /\ s \in alive /\ io[s] = None /\ pass[s].at # "loop" /\ made' = made + 1
    /\ Changes(s, n, NewEntry(made + 1), FALSE, {}, {n})
    /\ UNCHANGED <<now, lock, pass, store, alive, kids, clobbered, torn>>

Dies(s) ==
    /\ alive' = alive \ {s} /\ pass' = [pass EXCEPT ![s] = NoPass]
    /\ io' = [io EXCEPT ![s] = None] /\ torn \subseteq torn' /\ (io[s] # None => s \in torn')
    /\ UNCHANGED <<now, lock, store, kids, made, clobbered>>

LEMMA Steps ==
    ASSUME TypeOK, Ended, [Next]_vars
    PROVE  \/ Idles \/ Drops
           \/ \E s \in Sessions : \/ Writes(s) \/ Starts(s) \/ Picks(s) \/ Briefs(s) \/ Stops(s)
                                  \/ FailsToSpawn(s) \/ Holds(s) \/ Dies(s)
           \/ \E s \in Sessions, p \in Pids : Spawns(s, p)
           \/ \E p \in Pids : Exits(p)
           \/ \E s \in Sessions, n \in Names, p \in Pids : Records(s, n, p)
           \/ \E s \in Sessions, n \in Names : Deletes(s, n) \/ Creates(s, n)
<1>. USE DEF quiet, files, sess, hist, Free, AtAwait
<1>1. ASSUME NEW s \in Sessions, WriteBack(s) PROVE Writes(s)
  BY Zenon, <1>1 DEF WriteBack, Writes
<1>2. ASSUME NEW s \in Sessions, StartPass(s) PROVE Starts(s)
  <2>. DEFINE due == {n \in Names : store[n] # None /\ dueEntry(schedule[n], now, store[n])}
  <2>1. due \in SUBSET {n \in Names : store[n] # None /\ (store[n].queued # Never
                                               => now - store[n].queued >= QueuedTTL)}
    BY Zenon DEF dueEntry
  <2>. HIDE DEF due
  <2>2. pass' = [pass EXCEPT ![s] = [at |-> "loop", now |-> now, cur |-> None, snap |-> store, left |-> due]]
    BY Zenon, <1>2 DEF StartPass, due
  <2>. QED  BY Zenon, <1>2, <2>1, <2>2 DEF StartPass, Starts
<1>3. ASSUME NEW s \in Sessions, NextEntry(s) PROVE Picks(s)
  BY Zenon, <1>3 DEF NextEntry, Picks
<1>4. ASSUME NEW s \in Sessions, Reviewed(s) PROVE Holds(s) \/ Briefs(s)
  BY Zenon, <1>4 DEF Reviewed, Holds, Briefs, Changes, upsertEntry
<1>5. ASSUME NEW s \in Sessions, Spawn(s) PROVE FailsToSpawn(s) \/ \E p \in Pids : Spawns(s, p)
  BY Zenon, <1>5 DEF Spawn, FailsToSpawn, Spawns, Changes, upsertEntry
<1>6. ASSUME NEW s \in Sessions, EndPass(s) PROVE Stops(s)
  BY Zenon, <1>6 DEF EndPass, Stops
<1>7. ASSUME NEW p \in Pids, KidExits(p) PROVE Exits(p)
  BY Zenon, <1>7 DEF KidExits, Exits
<1>8. ASSUME NEW p \in Pids, recordExit(p)
      PROVE  Idles \/ Drops \/ \E s \in Sessions, n \in Names : Records(s, n, p)
  <2>. DEFINE s == kids[p].by   n == kids[p].name
  <2>1. s \in Sessions /\ n \in Names /\ Over(p)
    BY <1>8 DEF recordExit, Ended, TypeOK, Kids, Over
  <2>2. /\ AtAwait(s) /\ UNCHANGED <<now, store, alive, pass, kids, hist>>
        /\ IF ~LockAvailable THEN UNCHANGED <<lock, io>>
           ELSE IF Recorded(p)
                THEN lock' = s /\ Update(s, [store EXCEPT ![n].queued = Never], TRUE, {}, {})
                ELSE lock' = None /\ UNCHANGED io
    BY Zenon, <1>8 DEF recordExit
  <2>. HIDE DEF s, n
  <2>3. CASE ~LockAvailable
    BY <2>2, <2>3, CronBoundsAssumption DEF Idles, TypeOK, Times
  <2>4. CASE LockAvailable /\ ~Recorded(p)
    BY Zenon, <2>2, <2>4 DEF Drops
  <2>5. CASE LockAvailable /\ Recorded(p)
    <3>1. store[n] # None /\ store[n].pid = p
      BY Zenon, <2>5 DEF Recorded, n
    <3>2. Changes(s, n, [store[n] EXCEPT !.queued = Never], TRUE, {}, {})
      BY Zenon, <2>2, <2>5 DEF Changes
    <3>3. Records(s, n, p)
      BY Zenon, <2>1, <2>2, <2>5, <3>1, <3>2 DEF Records
    <3>. QED  BY Zenon, <2>1, <3>3
  <2>. QED  BY Zenon, <2>3, <2>4, <2>5
<1>9. ASSUME NEW s \in Sessions, NEW n \in Names, cron_create(s, n) PROVE Idles
  BY <1>9, CronBoundsAssumption DEF cron_create, Idles, TypeOK, Times
<1>10. ASSUME NEW s \in Sessions, NEW n \in Names, cron_delete(s, n) PROVE Deletes(s, n)
  BY Zenon, <1>10 DEF cron_delete, Deletes, Changes
<1>11. ASSUME NEW s \in Sessions, CreateReviewed(s)
       PROVE  Idles \/ \E n \in Names : Creates(s, n)
  <2>1. CASE UNCHANGED <<io, made>>
    BY <1>11, <2>1, CronBoundsAssumption DEF CreateReviewed, Idles, TypeOK, Times
  <2>2. tool[s] \in Names
    BY <1>11 DEF CreateReviewed, Ended
  <2>. QED  BY Zenon, <1>11, <2>1, <2>2 DEF CreateReviewed, Creates, Changes, NewEntry
<1>12. ASSUME NEW s \in Sessions, Crash(s) PROVE Dies(s)
  BY Zenon, <1>12 DEF Crash, Dies
<1>13. CASE Tick \/ UNCHANGED vars
  BY <1>13, CronBoundsAssumption DEF Tick, vars, Idles, TypeOK, Times
<1>. QED  BY Zenon, <1>1, <1>2, <1>3, <1>4, <1>5, <1>6, <1>7, <1>8, <1>9, <1>10, <1>11, <1>12, <1>13
            DEF Next, Work, PassStep
-----------------------------------------------------------------------------
LEMMA EndedStep == ASSUME TypeOK, Ended, [Next]_vars PROVE Ended'
<1>. USE DEF Ended, files, sess, hist
<1>0. ASSUME NEW s \in Sessions, WriteBack(s) PROVE Ended'
  <2>1. UNCHANGED <<tool, kids, exits>> /\ gone' = (gone \cup io[s].drop) \ io[s].add /\ io[s] # None
    BY Zenon, <1>0 DEF WriteBack
  <2>2. io[s].drop \subseteq Names
    BY <2>1 DEF TypeOK, Updates
  <2>. QED  BY <2>1, <2>2
<1>1. ASSUME NEW s \in Sessions, StartPass(s) \/ NextEntry(s) \/ Reviewed(s) \/ EndPass(s)
      PROVE  Ended'
  BY Zenon, <1>1 DEF StartPass, NextEntry, Reviewed, EndPass
<1>2. ASSUME NEW s \in Sessions, Spawn(s) PROVE Ended'
  <2>1. UNCHANGED <<tool, exits, gone>> /\ \A p \in Pids : kids[p] # None => kids'[p] = kids[p]
    BY Zenon, <1>2 DEF Spawn, TypeOK
  <2>. QED  BY SMTT(60), <2>1
<1>3. ASSUME NEW p \in Pids, KidExits(p) PROVE Ended'
  <2>1. /\ kids[p] \in Kids /\ kids' = [kids EXCEPT ![p] = [kids[p] EXCEPT !.running = FALSE]]
        /\ UNCHANGED <<tool, gone>>
    BY <1>3 DEF KidExits, TypeOK
  <2>2. \E x \in Nat \cup {None} : exits' = [exits EXCEPT ![p] = x]
    BY Zenon, <1>3 DEF KidExits
  <2>3. kids'[p] \in Kids /\ kids'[p].running = FALSE
    BY Zenon, <2>1 DEF TypeOK, Kids
  <2>4. ~kids'[p].running /\ kids'[p] # None
    BY Zenon, <2>3, NoneAssumption
  <2>5. /\ exits' \in [Pids -> Nat \cup {None}]
        /\ \A q \in Pids \ {p} : exits'[q] = exits[q] /\ kids'[q] = kids[q]
    BY <2>1, <2>2 DEF TypeOK
  <2>. QED  BY <2>1, <2>4, <2>5
<1>4. ASSUME NEW p \in Pids, recordExit(p) PROVE Ended'
  <2>1. UNCHANGED <<tool, kids, gone>> /\ exits[p] # None
    BY Zenon, <1>4 DEF recordExit
  <2>2. \/ exits' = [exits EXCEPT ![p] = IF @ = RETRIES THEN None ELSE @ + 1]
        \/ exits' = [exits EXCEPT ![p] = None]
    BY Zenon, <1>4 DEF recordExit
  <2>. QED  BY <2>1, <2>2
<1>5. ASSUME NEW s \in Sessions, NEW n \in Names, cron_create(s, n) \/ cron_delete(s, n) PROVE Ended'
  BY Zenon, <1>5 DEF cron_create, cron_delete
<1>6. ASSUME NEW s \in Sessions, CreateReviewed(s) PROVE Ended'
  BY <1>6 DEF CreateReviewed
<1>7. ASSUME NEW s \in Sessions, Crash(s) PROVE Ended'
  BY <1>7 DEF Crash
<1>8. CASE Tick \/ UNCHANGED vars
  BY Zenon, <1>8 DEF Tick, vars
<1>. QED  BY Zenon, <1>0, <1>1, <1>2, <1>3, <1>4, <1>5, <1>6, <1>7, <1>8 DEF Next, Work, PassStep

\* An update of n to e is under way.
Updated(s, n, e, unlock, add) ==
    /\ io' \in [Sessions -> Updates \cup {None}]
    /\ io'[s] # None /\ \A t \in Sessions \ {s} : io'[t] = io[t]
    /\ io'[s].copy = store /\ io'[s].next = [store EXCEPT ![n] = e]
    /\ io'[s].unlock = unlock /\ io'[s].add = add

LEMMA UpdateType ==
    ASSUME TypeOK, NEW s \in Sessions, NEW n \in Names, NEW e, e \in Entries \cup {None},
           NEW unlock, unlock \in BOOLEAN, NEW drop, drop \in SUBSET Names,
           NEW add, add \in SUBSET Names, Changes(s, n, e, unlock, drop, add)
    PROVE  Updated(s, n, e, unlock, add)
<1>1. [store EXCEPT ![n] = e] \in Stores
  BY DEF TypeOK, Stores
<1>2. store \in Stores
  BY DEF TypeOK
<1>. DEFINE u == [copy |-> store, next |-> [store EXCEPT ![n] = e], unlock |-> unlock,
                  drop |-> drop, add |-> add]
<1>3. u \in Updates
  BY <1>1, <1>2 DEF Updates
<1>4. u.copy = store /\ u.next = [store EXCEPT ![n] = e] /\ u.unlock = unlock /\ u.add = add
  OBVIOUS
<1>5. io' = [io EXCEPT ![s] = u]
  BY Zenon DEF Update, Changes
<1>. HIDE DEF u
<1>6. io'[s] = u
  BY <1>5 DEF TypeOK
<1>. QED  BY <1>3, <1>4, <1>5, <1>6, NoneAssumption DEF TypeOK, Updated

LEMMA EntryType ==
    ASSUME NEW e \in Entries
    PROVE  /\ [e EXCEPT !.queued = Never] \in Entries
           /\ \A t \in Times, p \in Pids : [e EXCEPT !.lastRun = t, !.queued = t, !.pid = p] \in Entries
  BY Zenon DEF Entries

\* The entry a pass deals with
LEMMA AtHand ==
    ASSUME TypeOK, Selected, NEW s \in Sessions, pass[s].at \in {"review", "brief"}
    PROVE  /\ pass[s].cur \in Names \ pass[s].left /\ pass[s].now \in Times
           /\ pass[s].snap[pass[s].cur] \in Entries /\ pass[s].snap[pass[s].cur] # None
  BY DEF TypeOK, Selected, Todo, Passes, Stores

Woken(s, p) == [pass[s].snap[pass[s].cur] EXCEPT !.lastRun = pass[s].now,
                                                 !.queued = pass[s].now, !.pid = p]

\* The steps that begin an update
LEMMA Updating ==
    ASSUME TypeOK, Selected, NEW s \in Sessions
    PROVE  /\ Holds(s) => Updated(s, pass[s].cur, pass[s].snap[pass[s].cur], FALSE, {})
           /\ \A p \in Pids : Spawns(s, p) => Updated(s, pass[s].cur, Woken(s, p), FALSE, {})
           /\ \A n \in Names, p \in Pids :
                Records(s, n, p) => Updated(s, n, [store[n] EXCEPT !.queued = Never], TRUE, {})
           /\ \A n \in Names : Deletes(s, n) => Updated(s, n, None, FALSE, {})
           /\ \A n \in Names : Creates(s, n) => Updated(s, n, NewEntry(made + 1), FALSE, {n})
<1>. USE UpdateType
<1>0. /\ TRUE \in BOOLEAN /\ FALSE \in BOOLEAN /\ {} \in SUBSET Names
      /\ \A n \in Names : {n} \in SUBSET Names
  OBVIOUS
<1>1. ASSUME Holds(s) PROVE Updated(s, pass[s].cur, pass[s].snap[pass[s].cur], FALSE, {})
  <2>1. pass[s].cur \in Names /\ pass[s].snap[pass[s].cur] \in Entries \cup {None}
    BY <1>1, AtHand DEF Holds
  <2>. QED  BY Zenon, <1>0, <1>1, <2>1 DEF Holds
<1>2. ASSUME NEW p \in Pids, Spawns(s, p) PROVE Updated(s, pass[s].cur, Woken(s, p), FALSE, {})
  <2>1. pass[s].cur \in Names /\ Woken(s, p) \in Entries \cup {None}
    BY Zenon, <1>2, AtHand, EntryType DEF Spawns, Woken
  <2>2. Changes(s, pass[s].cur, Woken(s, p), FALSE, {}, {})
    BY Zenon, <1>2 DEF Spawns, Woken
  <2>. QED  BY Zenon, <1>0, <2>1, <2>2
<1>3. ASSUME NEW n \in Names, NEW p \in Pids, Records(s, n, p)
      PROVE  Updated(s, n, [store[n] EXCEPT !.queued = Never], TRUE, {})
  <2>1. [store[n] EXCEPT !.queued = Never] \in Entries \cup {None}
    BY Zenon, <1>3, EntryType DEF Records, TypeOK, Stores
  <2>. QED  BY Zenon, <1>0, <1>3, <2>1 DEF Records
<1>4. ASSUME NEW n \in Names, Deletes(s, n) PROVE Updated(s, n, None, FALSE, {})
  <2>1. None \in Entries \cup {None}
    OBVIOUS
  <2>. QED  BY Zenon, <1>0, <1>4, <2>1 DEF Deletes
<1>5. ASSUME NEW n \in Names, Creates(s, n) PROVE Updated(s, n, NewEntry(made + 1), FALSE, {n})
  <2>1. NewEntry(made + 1) \in Entries \cup {None}
    BY DEF NewEntry, Entries, TypeOK
  <2>. QED  BY Zenon, <1>0, <1>5, <2>1 DEF Creates
<1>. QED  BY Zenon, <1>1, <1>2, <1>3, <1>4, <1>5

LEMMA PassType ==
    ASSUME TypeOK, NEW s \in Sessions
    PROVE  /\ [pass EXCEPT ![s] = NoPass] \in [Sessions -> Passes]
           /\ \A a \in {"off", "loop", "review", "brief"} :
                [pass EXCEPT ![s].at = a] \in [Sessions -> Passes]
<1>. USE DEF TypeOK, Passes
<1>1. NoPass \in Passes
  BY CronBoundsAssumption DEF NoPass, Stores, Times
<1>2. \A a \in {"off", "loop", "review", "brief"} : [pass EXCEPT ![s].at = a] \in [Sessions -> Passes]
  OBVIOUS
<1>. QED  BY SMTT(60), <1>1, <1>2

LEMMA TypeStep == ASSUME TypeOK, Ended, Selected, [Next]_vars PROVE TypeOK'
<1>. USE DEF quiet
<1>1. CASE Idles \/ Drops
  BY <1>1 DEF Idles, Drops, TypeOK
<1>2. ASSUME NEW s \in Sessions, Writes(s) PROVE TypeOK'
  BY <1>2 DEF Writes, TypeOK, Updates
<1>3. ASSUME NEW s \in Sessions, Starts(s) PROVE TypeOK'
  <2>1. PICK due \in SUBSET Names :
          pass' = [pass EXCEPT ![s] = [at |-> "loop", now |-> now, cur |-> None, snap |-> store, left |-> due]]
    BY Zenon, <1>3 DEF Starts
  <2>2. [at |-> "loop", now |-> now, cur |-> None, snap |-> store, left |-> due] \in Passes
    BY DEF Passes, TypeOK
  <2>. QED  BY <1>3, <2>1, <2>2 DEF Starts, TypeOK
<1>4. ASSUME NEW s \in Sessions, Picks(s) PROVE TypeOK'
  <2>1. PICK n \in pass[s].left :
          pass' = [pass EXCEPT ![s].at = "review", ![s].cur = n, ![s].left = @ \ {n}]
    BY Zenon, <1>4 DEF Picks
  <2>2. n \in Names
    BY DEF TypeOK, Passes
  <2>3. pass' \in [Sessions -> Passes]
    BY <2>1, <2>2 DEF TypeOK, Passes
  <2>. QED  BY <1>4, <2>3 DEF Picks, TypeOK
<1>5. ASSUME NEW s \in Sessions, Briefs(s) \/ FailsToSpawn(s) \/ Stops(s) \/ Dies(s) PROVE TypeOK'
  <2>1. pass' \in [Sessions -> Passes]
    BY Zenon, <1>5, PassType DEF Briefs, FailsToSpawn, Stops, Dies
  <2>. QED  BY <1>5, <2>1 DEF Briefs, FailsToSpawn, Stops, Dies, TypeOK
<1>6. ASSUME NEW s \in Sessions, Holds(s) PROVE TypeOK'
  <2>1. pass' \in [Sessions -> Passes]
    BY Zenon, <1>6, PassType DEF Holds
  <2>2. io' \in [Sessions -> Updates \cup {None}]
    BY Zenon, <1>6, Updating DEF Updated
  <2>. QED  BY <1>6, <2>1, <2>2 DEF Holds, TypeOK
<1>7. ASSUME NEW s \in Sessions, NEW p \in Pids, Spawns(s, p) PROVE TypeOK'
  <2>1. pass' \in [Sessions -> Passes]
    BY Zenon, <1>7, PassType DEF Spawns
  <2>2. io' \in [Sessions -> Updates \cup {None}]
    BY Zenon, <1>7, Updating DEF Updated
  <2>3. kids' \in [Pids -> Kids \cup {None}]
    BY <1>7, AtHand DEF Spawns, TypeOK, Kids, Entries
  <2>. QED  BY <1>7, <2>1, <2>2, <2>3 DEF Spawns, TypeOK
<1>8. ASSUME NEW p \in Pids, Exits(p) PROVE TypeOK'
  BY ZenonT(60), <1>8 DEF Exits, TypeOK, Kids
<1>9. ASSUME NEW s \in Sessions, NEW n \in Names, NEW p \in Pids, Records(s, n, p) PROVE TypeOK'
  <2>1. io' \in [Sessions -> Updates \cup {None}]
    BY Zenon, <1>9, Updating DEF Updated
  <2>. QED  BY <1>9, <2>1 DEF Records, TypeOK
<1>10. ASSUME NEW s \in Sessions, NEW n \in Names, Deletes(s, n) PROVE TypeOK'
  <2>1. io' \in [Sessions -> Updates \cup {None}]
    BY Zenon, <1>10, Updating DEF Updated
  <2>. QED  BY <1>10, <2>1 DEF Deletes, TypeOK
<1>11. ASSUME NEW s \in Sessions, NEW n \in Names, Creates(s, n) PROVE TypeOK'
  <2>1. io' \in [Sessions -> Updates \cup {None}]
    BY Zenon, <1>11, Updating DEF Updated
  <2>. QED  BY <1>11, <2>1 DEF Creates, TypeOK
<1>. QED  BY Zenon, Steps, <1>1, <1>2, <1>3, <1>4, <1>5, <1>6, <1>7, <1>8, <1>9, <1>10, <1>11

\* What the steps do to the pass of a session
PassAt(s, a) ==
    /\ \A t \in Sessions \ {s} : pass'[t] = pass[t]
    /\ pass'[s].at = a /\ pass'[s].now = pass[s].now /\ pass'[s].left = pass[s].left
    /\ pass'[s].cur = pass[s].cur /\ pass'[s].snap = pass[s].snap

PassOver(s) ==
    /\ \A t \in Sessions \ {s} : pass'[t] = pass[t]
    /\ pass'[s].at = "off" /\ pass'[s].now = 0 /\ pass'[s].left = {}
    /\ pass'[s].cur = None /\ pass'[s].snap = [n \in Names |-> None]

PassPicks(s) ==
    /\ \A t \in Sessions \ {s} : pass'[t] = pass[t]
    /\ pass'[s].at = "review" /\ pass'[s].now = pass[s].now /\ pass'[s].snap = pass[s].snap
    /\ pass'[s].cur \in pass[s].left /\ pass'[s].left = pass[s].left \ {pass'[s].cur}

PassStarts(s) ==
    /\ \A t \in Sessions \ {s} : pass'[t] = pass[t]
    /\ pass'[s].at = "loop" /\ pass'[s].now = now /\ pass'[s].snap = store
    /\ \A n \in pass'[s].left : /\ n \in Names /\ store[n] # None
                                /\ store[n].queued # Never => now - store[n].queued >= QueuedTTL

LEMMA PassSteps ==
    ASSUME TypeOK, NEW s \in Sessions
    PROVE  /\ Briefs(s) => PassAt(s, "brief")
           /\ FailsToSpawn(s) \/ Holds(s) \/ (\E p \in Pids : Spawns(s, p)) => PassAt(s, "loop")
           /\ Stops(s) \/ Dies(s) => PassOver(s)
           /\ Picks(s) => PassPicks(s)
           /\ Starts(s) => PassStarts(s)
<1>1. ASSUME NEW a \in {"loop", "brief"}, pass' = [pass EXCEPT ![s].at = a] PROVE PassAt(s, a)
  BY <1>1 DEF TypeOK, Passes, PassAt
<1>2. ASSUME pass' = [pass EXCEPT ![s] = NoPass] PROVE PassOver(s)
  BY <1>2 DEF TypeOK, NoPass, PassOver
<1>3. ASSUME Picks(s) PROVE PassPicks(s)
  BY <1>3 DEF TypeOK, Passes, Picks, PassPicks
<1>4. ASSUME Starts(s) PROVE PassStarts(s)
  BY <1>4 DEF TypeOK, Starts, PassStarts
<1>. QED  BY Zenon, <1>1, <1>2, <1>3, <1>4 DEF Briefs, FailsToSpawn, Holds, Spawns, Stops, Dies

LEMMA LockedStep == ASSUME TypeOK, Ended, Selected, Locked, [Next]_vars PROVE Locked'
<1>. USE NoneAssumption DEF quiet, Locked
<1>0. \A s \in Sessions : pass[s].at # "off" => ~LockAvailable
  BY DEF LockAvailable
<1>1. CASE Idles \/ Drops
  BY <1>1, <1>0 DEF Idles, Drops, LockAvailable
<1>2. ASSUME NEW s \in Sessions, Writes(s) PROVE Locked'
  BY <1>2 DEF Writes, TypeOK
<1>3. ASSUME NEW s \in Sessions, Starts(s) PROVE Locked'
  <2>1. PassStarts(s)
    BY <1>3, PassSteps
  <2>. QED  BY <1>3, <1>0, <2>1 DEF Starts, PassStarts, LockAvailable
<1>4. ASSUME NEW s \in Sessions, Picks(s) PROVE Locked'
  <2>1. PassPicks(s)
    BY <1>4, PassSteps
  <2>. QED  BY ZenonT(60), <1>4, <2>1 DEF Picks, PassPicks
<1>5. ASSUME NEW s \in Sessions, Briefs(s) \/ FailsToSpawn(s) PROVE Locked'
  <2>1. PassAt(s, "brief") \/ PassAt(s, "loop")
    BY <1>5, PassSteps
  <2>. QED  BY <1>5, <2>1 DEF Briefs, FailsToSpawn, PassAt
<1>6. ASSUME NEW s \in Sessions, Stops(s) \/ Dies(s) PROVE Locked'
  <2>1. PassOver(s)
    BY <1>6, PassSteps
  <2>. QED  BY <1>6, <2>1 DEF Stops, Dies, TypeOK, PassOver
<1>7. ASSUME NEW s \in Sessions, Holds(s) PROVE Locked'
  <2>1. PassAt(s, "loop") /\ Updated(s, pass[s].cur, pass[s].snap[pass[s].cur], FALSE, {})
    BY Zenon, <1>7, PassSteps, Updating
  <2>. QED  BY <1>7, <2>1 DEF Holds, PassAt, Updated
<1>8. ASSUME NEW s \in Sessions, NEW p \in Pids, Spawns(s, p) PROVE Locked'
  <2>1. PassAt(s, "loop") /\ Updated(s, pass[s].cur, Woken(s, p), FALSE, {})
    BY Zenon, <1>8, PassSteps, Updating
  <2>. QED  BY <1>8, <2>1 DEF Spawns, PassAt, Updated
<1>9. ASSUME NEW p \in Pids, Exits(p) PROVE Locked'
  BY <1>9 DEF Exits
<1>10. ASSUME NEW s \in Sessions, NEW n \in Names, NEW p \in Pids, Records(s, n, p) PROVE Locked'
  <2>1. Updated(s, n, [store[n] EXCEPT !.queued = Never], TRUE, {})
    BY Zenon, <1>10, Updating
  <2>. QED  BY <1>10, <1>0, <2>1 DEF Records, Updated, LockAvailable
<1>11. ASSUME NEW s \in Sessions, NEW n \in Names, Deletes(s, n) PROVE Locked'
  <2>1. Updated(s, n, None, FALSE, {})
    BY Zenon, <1>11, Updating
  <2>. QED  BY <1>11, <2>1 DEF Deletes, Updated
<1>12. ASSUME NEW s \in Sessions, NEW n \in Names, Creates(s, n) PROVE Locked'
  <2>1. Updated(s, n, NewEntry(made + 1), FALSE, {n})
    BY Zenon, <1>12, Updating
  <2>. QED  BY <1>12, <2>1 DEF Creates, Updated
<1>. QED  BY Zenon, Steps, <1>1, <1>2, <1>3, <1>4, <1>5, <1>6, <1>7, <1>8, <1>9, <1>10, <1>11, <1>12

LEMMA SelectedStep == ASSUME TypeOK, Ended, Selected, [Next]_vars PROVE Selected'
<1>. USE DEF quiet, Selected, Todo
<1>1. CASE \/ Idles \/ Drops \/ \E p \in Pids : Exits(p)
           \/ \E s \in Sessions, n \in Names, p \in Pids : Records(s, n, p)
           \/ \E s \in Sessions, n \in Names : Deletes(s, n) \/ Creates(s, n)
           \/ \E s \in Sessions : Writes(s)
  <2>1. pass' = pass
    BY Zenon, <1>1 DEF Idles, Drops, Exits, Records, Deletes, Creates, Writes
  <2>. QED  BY <2>1
<1>2. ASSUME NEW s \in Sessions, PassStarts(s) PROVE Selected'
  BY <1>2 DEF PassStarts
<1>3. ASSUME NEW s \in Sessions, PassPicks(s), pass[s].at = "loop" PROVE Selected'
  <2>1. pass[s].left \subseteq Names
    BY DEF TypeOK, Passes
  <2>. QED  BY <1>3, <2>1 DEF PassPicks
<1>4. ASSUME NEW s \in Sessions, PassAt(s, "brief"), pass[s].at = "review" PROVE Selected'
  BY <1>4 DEF PassAt
<1>5. ASSUME NEW s \in Sessions, PassAt(s, "loop") PROVE Selected'
  BY <1>5 DEF PassAt
<1>6. ASSUME NEW s \in Sessions, PassOver(s) PROVE Selected'
  BY <1>6 DEF PassOver
<1>. QED  BY Zenon, Steps, PassSteps, <1>1, <1>2, <1>3, <1>4, <1>5, <1>6 DEF Picks, Briefs

LEMMA OverStays == ASSUME TypeOK, Ended, [Next]_vars, NEW p \in Pids, Over(p) PROVE Over(p)'
<1>. USE DEF quiet, Over
<1>1. ASSUME NEW q \in Pids, Exits(q) PROVE Over(p)'
  <2>1. kids[q] \in Kids /\ kids' = [kids EXCEPT ![q] = [kids[q] EXCEPT !.running = FALSE]]
    BY <1>1 DEF Exits, TypeOK
  <2>2. kids'[q] \in Kids /\ kids'[q].running = FALSE
    BY Zenon, <2>1 DEF TypeOK, Kids
  <2>3. Over(q)'
    BY Zenon, <2>2, NoneAssumption
  <2>4. p # q => kids'[p] = kids[p]
    BY <2>1 DEF TypeOK
  <2>. QED  BY Zenon, <2>3, <2>4
<1>2. ASSUME NEW s \in Sessions, NEW q \in Pids, Spawns(s, q) PROVE Over(p)'
  BY <1>2 DEF Spawns, TypeOK
<1>3. CASE \/ Idles \/ Drops
           \/ \E s \in Sessions : \/ Writes(s) \/ Starts(s) \/ Picks(s) \/ Briefs(s) \/ Stops(s)
                                  \/ FailsToSpawn(s) \/ Holds(s) \/ Dies(s)
           \/ \E s \in Sessions, n \in Names, q \in Pids : Records(s, n, q)
           \/ \E s \in Sessions, n \in Names : Deletes(s, n) \/ Creates(s, n)
  <2>1. kids' = kids
    BY Zenon, <1>3 DEF Idles, Drops, Writes, Starts, Picks, Briefs, Stops, FailsToSpawn, Holds, Dies,
                       Records, Deletes, Creates
  <2>. QED  BY Zenon, <2>1
<1>. QED  BY Zenon, Steps, <1>1, <1>2, <1>3

LEMMA ShapeStays ==
    ASSUME TypeOK, Ended, Shaped, [Next]_vars,
           NEW t \in Sessions, io'[t] = io[t], pass'[t] = pass[t] \/ (io[t] # None => ~PassWrite(t)),
           io'[t] # None
    PROVE  Shape(t)'
<1>1. Shape(t)
  BY DEF Shaped
<1>2. CASE PassWrite(t)
  BY SMTT(60), <1>2 DEF PassWrite, Shape
<1>3. ASSUME NEW n \in Names, Creation(io[t], n) \/ Deletion(io[t], n) PROVE Shape(t)'
  BY Zenon, <1>3 DEF Shape
<1>4. ASSUME NEW n \in Names, Clearing(io[t], n) PROVE Shape(t)'
  <2>1. io[t].copy[n].pid \in Pids /\ Over(io[t].copy[n].pid)'
    BY <1>4, OverStays DEF Clearing
  <2>2. Clearing(io[t], n)'
    BY SMTT(60), <1>4, <2>1 DEF Clearing
  <2>. QED  BY Zenon, <2>2 DEF Shape
<1>. QED  BY Zenon, <1>1, <1>2, <1>3, <1>4 DEF Shape

LEMMA PassWriting ==
    ASSUME TypeOK, Selected, NEW s \in Sessions, PassAt(s, "loop"), NEW e, e # None,
           pass[s].at \in {"review", "brief"}, Updated(s, pass[s].cur, e, FALSE, {}),
           e.gen = pass[s].snap[pass[s].cur].gen
    PROVE  PassWrite(s)'
<1>1. pass[s].cur \in Names \ pass[s].left /\ pass[s].snap[pass[s].cur] # None
  BY AtHand
<1>2. io'[s].copy = store /\ io'[s].next = [store EXCEPT ![pass[s].cur] = e]
  BY DEF Updated
<1>3. io'[s].next[pass[s].cur] = e
  BY <1>1, <1>2 DEF TypeOK, Stores
<1>. QED  BY Zenon, <1>1, <1>2, <1>3 DEF PassWrite, PassAt, Updated

LEMMA WokenEntry ==
    ASSUME TypeOK, Selected, NEW s \in Sessions, pass[s].at \in {"review", "brief"}, NEW p \in Pids
    PROVE  /\ Woken(s, p) \in Entries /\ Woken(s, p) # None
           /\ Woken(s, p).gen = pass[s].snap[pass[s].cur].gen /\ Woken(s, p).pid = p
           /\ Woken(s, p).queued = pass[s].now /\ Woken(s, p).lastRun = pass[s].now
<1>1. Woken(s, p) \in Entries
  BY Zenon, AtHand, EntryType DEF Woken
<1>. QED  BY Zenon, <1>1, AtHand, NoneAssumption DEF Woken, Entries

LEMMA ShapedStep == ASSUME TypeOK, Ended, Locked, Selected, Shaped, [Next]_vars PROVE Shaped'
<1>. USE DEF quiet
<1>1. CASE \/ Idles \/ Drops \/ \E p \in Pids : Exits(p)
  <2>1. io' = io /\ pass' = pass
    BY Zenon, <1>1 DEF Idles, Drops, Exits
  <2>. QED  BY <2>1, ShapeStays DEF Shaped
<1>2. ASSUME NEW s \in Sessions, Writes(s) PROVE Shaped'
  <2>1. pass' = pass /\ \A t \in Sessions : io'[t] = None \/ io'[t] = io[t]
    BY <1>2 DEF Writes, TypeOK
  <2>. QED  BY <2>1, ShapeStays DEF Shaped
<1>3. ASSUME NEW s \in Sessions, Starts(s) \/ Picks(s) \/ Briefs(s) \/ FailsToSpawn(s) \/ Stops(s)
      PROVE  Shaped'
  <2>1. io' = io /\ io[s] = None
    BY Zenon, <1>3 DEF Starts, Picks, Briefs, FailsToSpawn, Stops
  <2>2. \A t \in Sessions \ {s} : pass'[t] = pass[t]
    BY Zenon, <1>3, PassSteps DEF PassStarts, PassPicks, PassAt, PassOver
  <2>. QED  BY <2>1, <2>2, ShapeStays DEF Shaped
<1>4. ASSUME NEW s \in Sessions, Dies(s) PROVE Shaped'
  <2>1. io'[s] = None /\ \A t \in Sessions \ {s} : io'[t] = io[t] /\ pass'[t] = pass[t]
    BY <1>4 DEF Dies, TypeOK
  <2>. QED  BY <2>1, ShapeStays DEF Shaped
<1>5. ASSUME NEW s \in Sessions, PassAt(s, "loop"), NEW e, e # None,
             pass[s].at \in {"review", "brief"}, Updated(s, pass[s].cur, e, FALSE, {}),
             e.gen = pass[s].snap[pass[s].cur].gen
      PROVE  Shaped'
  <2>1. PassWrite(s)'
    BY Zenon, <1>5, PassWriting
  <2>2. \A t \in Sessions \ {s} : io'[t] = io[t] /\ pass'[t] = pass[t]
    BY <1>5 DEF Updated, PassAt
  <2>. QED  BY <2>1, <2>2, ShapeStays DEF Shaped, Shape
<1>6. ASSUME NEW s \in Sessions, Holds(s) PROVE Shaped'
  <2>1. PassAt(s, "loop") /\ Updated(s, pass[s].cur, pass[s].snap[pass[s].cur], FALSE, {})
    BY Zenon, <1>6, PassSteps, Updating
  <2>2. pass[s].at \in {"review", "brief"}
    BY <1>6 DEF Holds
  <2>. QED  BY Zenon, <1>5, <2>1, <2>2, AtHand
<1>7. ASSUME NEW s \in Sessions, NEW p \in Pids, Spawns(s, p) PROVE Shaped'
  <2>1. PassAt(s, "loop") /\ Updated(s, pass[s].cur, Woken(s, p), FALSE, {})
    BY Zenon, <1>7, PassSteps, Updating
  <2>2. pass[s].at \in {"review", "brief"}
    BY <1>7 DEF Spawns
  <2>3. Woken(s, p).gen = pass[s].snap[pass[s].cur].gen /\ Woken(s, p) # None
    BY <2>2, WokenEntry
  <2>. QED  BY Zenon, <1>5, <2>1, <2>2, <2>3
<1>8. ASSUME NEW s \in Sessions, NEW n \in Names, NEW p \in Pids, Records(s, n, p) PROVE Shaped'
  <2>1. Updated(s, n, [store[n] EXCEPT !.queued = Never], TRUE, {}) /\ pass' = pass
    BY Zenon, <1>8, Updating DEF Records
  <2>2. Over(p)' /\ store[n] # None /\ store[n].pid = p
    BY <1>8, OverStays DEF Records
  <2>3. Clearing(io[s], n)'
    BY <2>1, <2>2 DEF Clearing, Updated
  <2>. QED  BY <2>1, <2>3, ShapeStays DEF Shaped, Shape, Updated
<1>9. ASSUME NEW s \in Sessions, NEW n \in Names, Deletes(s, n) PROVE Shaped'
  <2>1. Updated(s, n, None, FALSE, {}) /\ pass' = pass
    BY Zenon, <1>9, Updating DEF Deletes
  <2>2. Deletion(io'[s], n)
    BY <2>1 DEF Deletion, Updated
  <2>. QED  BY <2>1, <2>2, ShapeStays DEF Shaped, Shape, Updated
<1>10. ASSUME NEW s \in Sessions, NEW n \in Names, Creates(s, n) PROVE Shaped'
  <2>1. Updated(s, n, NewEntry(made + 1), FALSE, {n}) /\ pass' = pass
    BY Zenon, <1>10, Updating DEF Creates
  <2>2. io'[s].next[n] = NewEntry(made + 1) /\ NewEntry(made + 1).gen = made + 1
    BY <2>1 DEF Updated, TypeOK, Stores, NewEntry
  <2>3. NewEntry(made + 1) # None
    BY NoneAssumption DEF NewEntry, Entries, TypeOK
  <2>4. Creation(io'[s], n)
    BY ZenonT(60), <2>1, <2>2, <2>3 DEF Creation, Updated
  <2>. QED  BY <2>1, <2>4, ShapeStays DEF Shaped, Shape, Updated
<1>. QED  BY Zenon, Steps, <1>1, <1>2, <1>3, <1>4, <1>6, <1>7, <1>8, <1>9, <1>10
-----------------------------------------------------------------------------
LEMMA TimelyStep == ASSUME TypeOK, Ended, Locked, Selected, Timely, [Next]_vars PROVE Timely'
<1>. USE CronBoundsAssumption DEF quiet, Timely
<1>0. now \in Int /\ \A s \in Sessions : pass[s].now \in Int
  BY DEF TypeOK, Passes, Times
<1>1. CASE Idles
  <2>1. \A n \in Names : store[n] # None /\ store[n].lastRun # Never => store[n].lastRun \in Int
    BY DEF TypeOK, Stores, Entries, Times
  <2>2. \A s \in Sessions, n \in Names : io[s] # None /\ io[s].next[n] # None /\ io[s].next[n].lastRun # Never
            => io[s].next[n].lastRun \in Int
    BY DEF TypeOK, Stores, Updates, Entries, Times
  <2>. QED  BY <1>1, <1>0, <2>1, <2>2 DEF Idles, Past, Times
<1>2. CASE Drops
  BY <1>2 DEF Drops, Past
<1>3. ASSUME NEW s \in Sessions, Writes(s) PROVE Timely'
  BY SMTT(60), <1>3 DEF Writes, Past, TypeOK
<1>4. ASSUME NEW s \in Sessions, Starts(s) PROVE Timely'
  <2>1. PassStarts(s)
    BY Zenon, <1>4, PassSteps
  <2>. QED  BY SMTT(60), <1>0, <1>4, <2>1 DEF Starts, PassStarts, Past
<1>5. ASSUME NEW s \in Sessions, PassAt(s, "brief") \/ PassAt(s, "loop") \/ PassPicks(s),
             UNCHANGED <<now, io, store>>
      PROVE  Timely'
  BY SMTT(60), <1>5 DEF PassAt, PassPicks, Past
<1>6. ASSUME NEW s \in Sessions, Stops(s) \/ Dies(s) PROVE Timely'
  <2>1. PassOver(s)
    BY Zenon, <1>6, PassSteps
  <2>2. /\ UNCHANGED <<now, store>> /\ Past(store, now)
        /\ \A t \in Sessions : io'[t] = io[t] \/ io'[t] = None
    BY SMTT(60), <1>6 DEF Stops, Dies, TypeOK
  <2>3. 0 <= now
    BY SMTT(60) DEF TypeOK, Times
  <2>. QED  BY SMTT(60), <2>1, <2>2, <2>3 DEF PassOver, Past
<1>7. ASSUME NEW s \in Sessions, NEW n \in Names, NEW e, NEW unlock, NEW add, Updated(s, n, e, unlock, add),
             e # None /\ e.lastRun # Never => e.lastRun <= now, UNCHANGED <<now, store>>,
             pass' = pass \/ PassAt(s, "loop")
      PROVE  Timely'
  <2>1. Past(io'[s].next, now)
    BY <1>7 DEF Updated, Past, TypeOK, Stores
  <2>2. \A t \in Sessions : pass'[t].now = pass[t].now /\ pass'[t].snap = pass[t].snap
    BY <1>7 DEF PassAt
  <2>. QED  BY ZenonT(60), <1>7, <2>1, <2>2 DEF Updated, Past
<1>8. ASSUME NEW s \in Sessions, Holds(s) PROVE Timely'
  <2>1. PassAt(s, "loop") /\ Updated(s, pass[s].cur, pass[s].snap[pass[s].cur], FALSE, {})
    BY Zenon, <1>8, PassSteps, Updating
  <2>2. /\ pass[s].cur \in Names /\ UNCHANGED <<now, store>>
        /\ pass[s].snap[pass[s].cur] \in Entries
    BY <1>8, AtHand DEF Holds
  <2>3. pass[s].snap[pass[s].cur].lastRun # Never => pass[s].snap[pass[s].cur].lastRun <= now
    BY <1>0, <1>8, <2>2, AtHand DEF Past, Entries, Times, Holds
  <2>. QED  BY Zenon, <1>7, <2>1, <2>2, <2>3
<1>9. ASSUME NEW s \in Sessions, NEW p \in Pids, Spawns(s, p) PROVE Timely'
  <2>1. PassAt(s, "loop") /\ Updated(s, pass[s].cur, Woken(s, p), FALSE, {})
    BY Zenon, <1>9, PassSteps, Updating
  <2>2. pass[s].cur \in Names /\ UNCHANGED <<now, store>> /\ pass[s].snap[pass[s].cur] \in Entries
    BY <1>9, AtHand DEF Spawns
  <2>3. Woken(s, p).lastRun <= now
    BY <2>2 DEF Woken, Entries
  <2>. QED  BY Zenon, <1>7, <2>1, <2>2, <2>3
<1>10. ASSUME NEW p \in Pids, Exits(p) PROVE Timely'
  BY <1>10 DEF Exits, Past
<1>11. ASSUME NEW s \in Sessions, NEW n \in Names, NEW p \in Pids, Records(s, n, p) PROVE Timely'
  <2>1. Updated(s, n, [store[n] EXCEPT !.queued = Never], TRUE, {}) /\ UNCHANGED <<now, store, pass>>
    BY Zenon, <1>11, Updating DEF Records
  <2>2. store[n] \in Entries /\ store[n] # None
    BY <1>11 DEF Records, TypeOK, Stores
  <2>3. [store[n] EXCEPT !.queued = Never].lastRun = store[n].lastRun
    BY <2>2 DEF Entries
  <2>4. store[n].lastRun # Never => store[n].lastRun <= now
    BY <2>2 DEF Past
  <2>. QED  BY Zenon, <1>7, <2>1, <2>3, <2>4
<1>12. ASSUME NEW s \in Sessions, NEW n \in Names, Deletes(s, n) PROVE Timely'
  <2>1. Updated(s, n, None, FALSE, {}) /\ UNCHANGED <<now, store, pass>>
    BY Zenon, <1>12, Updating DEF Deletes
  <2>. QED  BY Zenon, <1>7, <2>1
<1>13. ASSUME NEW s \in Sessions, NEW n \in Names, Creates(s, n) PROVE Timely'
  <2>1. Updated(s, n, NewEntry(made + 1), FALSE, {n}) /\ UNCHANGED <<now, store, pass>>
    BY Zenon, <1>13, Updating DEF Creates
  <2>2. NewEntry(made + 1).lastRun = Never
    BY DEF NewEntry
  <2>. QED  BY Zenon, <1>7, <2>1, <2>2
<1>14. ASSUME NEW s \in Sessions, Picks(s) \/ Briefs(s) \/ FailsToSpawn(s) PROVE Timely'
  BY Zenon, <1>5, <1>14, PassSteps DEF Picks, Briefs, FailsToSpawn
<1>. QED  BY Zenon, Steps, <1>1, <1>2, <1>3, <1>4, <1>6, <1>8, <1>9, <1>10, <1>11, <1>12, <1>13, <1>14
-----------------------------------------------------------------------------
\* What is about to be written is in sight, but for a new entry.
LEMMA NextKnown ==
    ASSUME TypeOK, Selected, Shaped, NEW s \in Sessions, io[s] # None,
           NEW n \in Names, NEW g \in Nat, Has(io[s].next, n, g)
    PROVE  Known(n, g) \/ Adds(s, n, g)
<1>. USE DEF Adds
<1>0. io[s].copy \in Stores
  BY DEF TypeOK, Updates
<1>1. Has(io[s].copy, n, g) \/ Has(pass[s].snap, n, g) => Known(n, g)
  BY Zenon DEF Known
<1>2. CASE PassWrite(s)
  BY <1>0, <1>1, <1>2 DEF PassWrite, Has, Stores
<1>3. ASSUME NEW m \in Names, Creation(io[s], m) PROVE Known(n, g) \/ (io[s].add = {n} /\ io[s].next[n].gen = g)
  BY <1>0, <1>1, <1>3 DEF Creation, Has, Stores
<1>4. ASSUME NEW m \in Names, Deletion(io[s], m) PROVE Known(n, g)
  BY <1>0, <1>1, <1>4 DEF Deletion, Has, Stores
<1>5. ASSUME NEW m \in Names, Clearing(io[s], m) PROVE Known(n, g)
  <2>1. io[s].copy[m] \in Entries
    BY <1>0, <1>5 DEF Clearing, Stores
  <2>2. io[s].next[m].gen = io[s].copy[m].gen /\ \A k \in Names \ {m} : io[s].next[k] = io[s].copy[k]
    BY <1>0, <1>5, <2>1 DEF Clearing, Stores, Entries
  <2>. QED  BY <1>1, <1>5, <2>2 DEF Has, Clearing
<1>. QED  BY Zenon, <1>2, <1>3, <1>4, <1>5 DEF Shaped, Shape

\* In sight, and about to be written, after a step
KnownNext(n, g)   == Known(n, g)'
AddsNext(s, n, g) == Adds(s, n, g)'

\* Only the write of a new entry brings a creation into sight.
LEMMA KnownBefore ==
    ASSUME TypeOK, Ended, Selected, Shaped, [Next]_vars, NEW n \in Names, NEW g \in Nat, KnownNext(n, g)
    PROVE  Known(n, g) \/ \E s \in Sessions : io'[s] = None /\ Adds(s, n, g)
<1>. DEFINE Goal == \E s \in Sessions : io'[s] = None /\ Adds(s, n, g)
<1>1. ASSUME Has(store, n, g)', ~Has(store, n, g) PROVE Known(n, g) \/ Goal
  <2>1. PICK s \in Sessions : Writes(s)
    <3>1. store' # store
      BY Zenon, <1>1 DEF Has
    <3>. QED  BY Zenon, <3>1, Steps DEF quiet, Idles, Drops, Starts, Picks, Briefs, Stops, FailsToSpawn,
                Holds, Dies, Spawns, Exits, Records, Deletes, Creates
  <2>2. io[s] # None /\ io'[s] = None /\ store' = io[s].next
    BY <2>1 DEF Writes, TypeOK
  <2>3. Has(io[s].next, n, g)
    BY Zenon, <1>1, <2>2 DEF Has
  <2>. QED  BY Zenon, <2>2, <2>3, NextKnown
<1>2. ASSUME NEW s \in Sessions, Has(pass[s].snap, n, g)' PROVE Known(n, g)
  <2>1. \A t \in Sessions : pass'[t].snap = pass[t].snap \/ pass'[t].snap = store
                              \/ pass'[t].snap = [m \in Names |-> None]
    <3>1. CASE pass' = pass
      BY Zenon, <3>1
    <3>2. ASSUME NEW r \in Sessions, PassAt(r, "loop") \/ PassAt(r, "brief") \/ PassOver(r)
                                        \/ PassPicks(r) \/ PassStarts(r)
          PROVE  \A t \in Sessions : pass'[t].snap = pass[t].snap \/ pass'[t].snap = store
                              \/ pass'[t].snap = [m \in Names |-> None]
      BY <3>2 DEF PassAt, PassOver, PassPicks, PassStarts
    <3>. QED  BY Zenon, <3>1, <3>2, Steps, PassSteps DEF quiet, Idles, Drops, Writes, Exits, Records, Deletes, Creates
  <2>2. Has(pass[s].snap, n, g) \/ Has(store, n, g)
    BY <1>2, <2>1 DEF Has
  <2>. QED  BY Zenon, <2>2 DEF Known
<1>3. ASSUME NEW s \in Sessions, io'[s] # None, Has(io[s].copy, n, g)' PROVE Known(n, g)
  <2>1. \A t \in Sessions : io'[t] = io[t] \/ io'[t] = None \/ io'[t].copy = store
    <3>1. CASE io' = io
      BY Zenon, <3>1
    <3>2. ASSUME NEW r \in Sessions, Writes(r) \/ Dies(r)
          PROVE  \A t \in Sessions : io'[t] = io[t] \/ io'[t] = None \/ io'[t].copy = store
      BY <3>2 DEF Writes, Dies, TypeOK
    <3>3. ASSUME NEW r \in Sessions, NEW m, NEW e, NEW unlock, NEW add, Updated(r, m, e, unlock, add)
          PROVE  \A t \in Sessions : io'[t] = io[t] \/ io'[t] = None \/ io'[t].copy = store
      BY <3>3 DEF Updated
    <3>4. CASE \/ Idles \/ Drops \/ \E t \in Sessions : Starts(t) \/ Picks(t) \/ Briefs(t) \/ Stops(t) \/ FailsToSpawn(t)
               \/ \E p \in Pids : Exits(p)
      BY Zenon, <3>1, <3>4 DEF quiet, Idles, Drops, Starts, Picks, Briefs, Stops, FailsToSpawn, Exits
    <3>. QED  BY Zenon, <3>2, <3>3, <3>4, Steps, Updating
  <2>2. (Has(io[s].copy, n, g) /\ io[s] # None) \/ Has(store, n, g)
    BY <1>3, <2>1 DEF Has
  <2>. QED  BY Zenon, <2>2 DEF Known
<1>4. ASSUME NEW p \in Pids, kids'[p] # None, kids'[p].name = n, kids'[p].gen = g PROVE Known(n, g)
  <2>1. CASE kids[p] # None /\ kids'[p].name = kids[p].name /\ kids'[p].gen = kids[p].gen
    BY Zenon, <1>4, <2>1 DEF Known
  <2>2. CASE kids' = kids
    BY Zenon, <1>4, <2>1, <2>2
  <2>3. ASSUME NEW q \in Pids, Exits(q) PROVE Known(n, g)
    <3>1. kids[q] \in Kids /\ kids' = [kids EXCEPT ![q] = [kids[q] EXCEPT !.running = FALSE]]
      BY <2>3 DEF Exits, TypeOK
    <3>. QED  BY <1>4, <2>1, <3>1, NoneAssumption DEF TypeOK, Kids
  <2>4. ASSUME NEW s \in Sessions, NEW q \in Pids, Spawns(s, q) PROVE Known(n, g)
    <3>1. CASE p # q
      BY <2>1, <2>4, <3>1, <1>4 DEF Spawns, TypeOK
    <3>2. CASE p = q
      <4>1. kids'[p].name = pass[s].cur /\ kids'[p].gen = pass[s].snap[pass[s].cur].gen
        BY <2>4, <3>2 DEF Spawns, TypeOK
      <4>2. pass[s].snap[pass[s].cur] # None
        BY <2>4, AtHand DEF Spawns
      <4>. QED  BY Zenon, <1>4, <4>1, <4>2 DEF Known, Has
    <3>. QED  BY <3>1, <3>2
  <2>. QED  BY Zenon, <2>2, <2>3, <2>4, Steps DEF quiet, Idles, Drops, Writes, Starts, Picks, Briefs, Stops,
              FailsToSpawn, Holds, Dies, Records, Deletes, Creates
<1>5. Has(store, n, g) => Known(n, g)
  BY Zenon DEF Known
<1>6. Has(store, n, g)' \/ (\E s \in Sessions : Has(pass[s].snap, n, g)' \/ (io'[s] # None /\ Has(io[s].copy, n, g)'))
        \/ \E p \in Pids : kids'[p] # None /\ kids'[p].name = n /\ kids'[p].gen = g
  BY Zenon DEF KnownNext, Known
<1>. QED  BY Zenon, <1>1, <1>2, <1>3, <1>4, <1>5, <1>6

\* A creation under way is an earlier one, or the next in number.
LEMMA CreationBefore ==
    ASSUME TypeOK, Ended, Selected, [Next]_vars, NEW s \in Sessions, NEW n \in Names,
           NEW g \in Nat, AddsNext(s, n, g)
    PROVE  \/ Adds(s, n, g) /\ io'[s] # None
           \/ g = made + 1 /\ made' = made + 1 /\ \A t \in Sessions \ {s} : io'[t] = io[t]
<1>. DEFINE Goal == \/ Adds(s, n, g) /\ io'[s] # None
                    \/ g = made + 1 /\ made' = made + 1 /\ \A t \in Sessions \ {s} : io'[t] = io[t]
<1>0. io'[s] # None /\ io'[s].add = {n} /\ io'[s].next[n].gen = g
  BY Zenon DEF AddsNext, Adds
<1>1. CASE io'[s] = io[s]
  BY Zenon, <1>0, <1>1 DEF Adds
<1>2. ASSUME NEW r \in Sessions, Writes(r) \/ Dies(r) PROVE Goal
  <2>1. io'[s] = io[s] \/ io'[s] = None
    BY <1>2 DEF Writes, Dies, TypeOK
  <2>. QED  BY Zenon, <1>0, <1>1, <2>1
<1>3. ASSUME NEW r \in Sessions, NEW m, NEW e, NEW unlock, Updated(r, m, e, unlock, {}) PROVE Goal
  <2>1. io'[s] = io[s] \/ io'[s].add = {}
    BY <1>3 DEF Updated
  <2>. QED  BY <1>0, <1>1, <2>1
<1>4. ASSUME NEW r \in Sessions, NEW m \in Names, Creates(r, m) PROVE Goal
  <2>1. Updated(r, m, NewEntry(made + 1), FALSE, {m}) /\ made' = made + 1
    BY Zenon, <1>4, Updating DEF Creates
  <2>2. CASE r # s
    BY <1>1, <2>1, <2>2 DEF Updated
  <2>3. CASE r = s
    <3>1. m = n
      BY <1>0, <2>1, <2>3 DEF Updated
    <3>2. io'[s].next[n] = NewEntry(made + 1)
      BY Zenon, <2>1, <2>3, <3>1 DEF Updated, TypeOK, Stores
    <3>3. NewEntry(made + 1).gen = made + 1
      BY DEF NewEntry
    <3>. QED  BY <1>0, <2>1, <2>3, <3>2, <3>3 DEF Updated
  <2>. QED  BY <2>2, <2>3
<1>5. CASE \/ Idles \/ Drops \/ \E t \in Sessions : Starts(t) \/ Picks(t) \/ Briefs(t) \/ Stops(t) \/ FailsToSpawn(t)
           \/ \E p \in Pids : Exits(p)
  BY Zenon, <1>1, <1>5 DEF quiet, Idles, Drops, Starts, Picks, Briefs, Stops, FailsToSpawn, Exits
<1>. QED  BY Zenon, <1>2, <1>3, <1>4, <1>5, Steps, Updating

LEMMA MadeGrows == ASSUME TypeOK, Ended, [Next]_vars PROVE made' = made \/ made' = made + 1
  BY Zenon, Steps DEF quiet, Idles, Drops, Writes, Starts, Picks, Briefs, Stops, FailsToSpawn,
                Holds, Dies, Spawns, Exits, Records, Deletes, Creates

LEMMA GensApartStep ==
    ASSUME TypeOK, Ended, Selected, Shaped, GensApart, [Next]_vars PROVE GensApart'
<1>0. made \in Nat /\ (made' = made \/ made' = made + 1)
  BY MadeGrows DEF TypeOK
<1>1. \A n \in Names, g \in Nat : Known(n, g) => g <= made
  BY Zenon DEF GensApart
<1>2. \A n, m \in Names, g \in Nat : Known(n, g) /\ Known(m, g) => n = m
  BY Zenon DEF GensApart
<1>3. \A s \in Sessions, n \in Names, g \in Nat : Adds(s, n, g) => g <= made
  BY Zenon DEF GensApart
<1>4. \A s \in Sessions, n, m \in Names, g \in Nat : Adds(s, n, g) => ~Known(m, g)
  BY Zenon DEF GensApart
<1>5. \A s, t \in Sessions, n, m \in Names, g \in Nat : Adds(s, n, g) /\ Adds(t, m, g) => s = t
  BY Zenon DEF GensApart
<1>6. ASSUME NEW n \in Names, NEW g \in Nat, KnownNext(n, g)
      PROVE  Known(n, g) \/ \E s \in Sessions : io'[s] = None /\ Adds(s, n, g)
  BY Zenon, <1>6, KnownBefore
<1>7. ASSUME NEW n \in Names, NEW g \in Nat, KnownNext(n, g) PROVE g <= made /\ g <= made'
  <2>1. g <= made
    BY Zenon, <1>1, <1>3, <1>6, <1>7
  <2>. QED  BY <1>0, <2>1
<1>8. ASSUME NEW n \in Names, NEW m \in Names, NEW g \in Nat, KnownNext(n, g), KnownNext(m, g) PROVE n = m
  <2>1. ASSUME NEW s \in Sessions, NEW t \in Sessions, Adds(s, n, g), Adds(t, m, g) PROVE n = m
    <3>1. s = t
      BY Zenon, <1>5, <2>1
    <3>2. io[s].add = {n} /\ io[s].add = {m}
      BY Zenon, <2>1, <3>1 DEF Adds
    <3>. QED  BY <3>2
  <2>. QED  BY Zenon, <1>2, <1>4, <1>6, <1>8, <2>1
<1>9. ASSUME NEW s \in Sessions, NEW n \in Names, NEW g \in Nat, AddsNext(s, n, g)
      PROVE  \/ Adds(s, n, g) /\ io'[s] # None
             \/ g = made + 1 /\ made' = made + 1 /\ \A t \in Sessions \ {s} : io'[t] = io[t]
  BY Zenon, <1>9, CreationBefore
<1>10. ASSUME NEW s \in Sessions, NEW n \in Names, NEW g \in Nat, AddsNext(s, n, g) PROVE g <= made'
  <2>1. Adds(s, n, g) => g <= made
    BY Zenon, <1>3
  <2>2. Adds(s, n, g) \/ (g = made + 1 /\ made' = made + 1)
    BY Zenon, <1>9, <1>10
  <2>. QED  BY <1>0, <2>1, <2>2
<1>11. ASSUME NEW s \in Sessions, NEW n \in Names, NEW g \in Nat, AddsNext(s, n, g),
              NEW m \in Names, KnownNext(m, g)
       PROVE  FALSE
  <2>1. g # made + 1
    BY <1>0, <1>7, <1>11
  <2>2. Adds(s, n, g) /\ io'[s] # None
    BY Zenon, <1>9, <1>11, <2>1
  <2>3. PICK t \in Sessions : io'[t] = None /\ Adds(t, m, g)
    BY Zenon, <1>4, <1>6, <1>11, <2>2
  <2>. QED  BY Zenon, <1>5, <2>2, <2>3
<1>12. ASSUME NEW s \in Sessions, NEW n \in Names, NEW g \in Nat, AddsNext(s, n, g),
              NEW t \in Sessions, NEW m \in Names, AddsNext(t, m, g), s # t
       PROVE  FALSE
  <2>1. CASE Adds(s, n, g) /\ Adds(t, m, g)
    BY Zenon, <1>5, <1>12, <2>1
  <2>2. ASSUME NEW r \in Sessions, NEW k \in Names, NEW q \in Sessions, NEW l \in Names, r # q,
               AddsNext(q, l, g), g = made + 1, \A x \in Sessions \ {r} : io'[x] = io[x]
        PROVE  FALSE
    <3>1. io'[q] = io[q]
      BY Zenon, <2>2
    <3>2. Adds(q, l, g)
      BY Zenon, <2>2, <3>1 DEF Adds, AddsNext
    <3>3. g <= made
      BY Zenon, <1>3, <3>2
    <3>. QED  BY <1>0, <2>2, <3>3
  <2>. QED  BY Zenon, <1>9, <1>12, <2>1, <2>2
<1>. QED  BY Zenon, <1>7, <1>8, <1>10, <1>11, <1>12 DEF GensApart, KnownNext, AddsNext
-----------------------------------------------------------------------------
\* What a write that undoes none of another process does to the entry of n
Added(t, n)   == store'[n] # None /\ store'[n].gen \in Nat /\ Adds(t, n, store'[n].gen)
Cleared(t, n) == /\ io[t].unlock /\ store[n] # None /\ store[n].pid \in Pids /\ Over(store[n].pid)
                 /\ store'[n] = [store[n] EXCEPT !.queued = Never]
Passed(t, n)  == PassWrite(t) /\ n = pass[t].cur /\ store'[n] = io[t].next[n]

LEMMA WriteAt ==
    ASSUME TypeOK, Shaped, NEW t \in Sessions, Writes(t), ~clobbered', NEW n \in Names
    PROVE  \/ store'[n] = store[n] \/ store'[n] = None
           \/ Added(t, n) \/ Cleared(t, n) \/ Passed(t, n)
<1>. DEFINE Goal == \/ store'[n] = store[n] \/ store'[n] = None
                    \/ Added(t, n) \/ Cleared(t, n) \/ Passed(t, n)
<1>1. /\ io[t] # None /\ store' = io[t].next /\ store = io[t].copy
      /\ store \in Stores /\ store' \in Stores
  BY DEF Writes, TypeOK, Updates
<1>2. CASE PassWrite(t)
  <2>1. store' = [store EXCEPT ![pass[t].cur] = io[t].next[pass[t].cur]] /\ pass[t].cur \in Names
    BY <1>1, <1>2 DEF PassWrite
  <2>2. n # pass[t].cur => store'[n] = store[n]
    BY <1>1, <2>1 DEF Stores
  <2>3. n = pass[t].cur => Passed(t, n)
    BY Zenon, <1>1, <1>2 DEF Passed
  <2>. QED  BY Zenon, <2>2, <2>3
<1>3. ASSUME NEW m \in Names, Creation(io[t], m) PROVE Goal
  <2>1. /\ io[t].add = {m} /\ store'[m] # None
        /\ n # m => store'[n] = store[n]
    BY <1>1, <1>3 DEF Creation, Stores
  <2>2. n = m => store'[n].gen \in Nat
    BY <1>1, <2>1 DEF Stores, Entries
  <2>. QED  BY Zenon, <1>1, <2>1, <2>2 DEF Added, Adds
<1>4. ASSUME NEW m \in Names, Deletion(io[t], m) PROVE Goal
  BY <1>1, <1>4 DEF Deletion, Stores
<1>5. ASSUME NEW m \in Names, Clearing(io[t], m) PROVE Goal
  <2>1. /\ io[t].unlock /\ store[m] # None /\ store[m].pid \in Pids /\ Over(store[m].pid)
        /\ store' = [store EXCEPT ![m] = [store[m] EXCEPT !.queued = Never]]
    BY Zenon, <1>1, <1>5 DEF Clearing
  <2>2. n # m => store'[n] = store[n]
    BY <1>1, <2>1 DEF Stores
  <2>3. store'[m] = [store[m] EXCEPT !.queued = Never]
    BY <1>1, <2>1 DEF Stores
  <2>. QED  BY Zenon, <2>1, <2>2, <2>3 DEF Cleared
<1>. QED  BY Zenon, <1>1, <1>2, <1>3, <1>4, <1>5 DEF Shaped, Shape

\* What a pass relies on stays as another process writes, or as it writes itself.
LEMMA SameStays ==
    ASSUME TypeOK, Shaped, GensApart, Locked, NEW t \in Sessions, Writes(t), ~clobbered',
           NEW s \in Sessions, pass[s].at # "off", NEW n \in Names,
           s = t /\ PassWrite(t) => n # pass[t].cur,
           NEW e, e.gen \in Nat, Known(n, e.gen), Same(store, n, e)
    PROVE  Same(store', n, e)
<1>. SUFFICES ASSUME store'[n] # None, store'[n].gen = e.gen PROVE store'[n] = e
  BY Zenon DEF Same, Has
<1>1. CASE store'[n] = store[n]
  BY <1>1 DEF Same, Has
<1>2. CASE Added(t, n)
  <2>1. Adds(t, n, e.gen)
    BY Zenon, <1>2 DEF Added
  <2>. QED  BY Zenon, <2>1 DEF GensApart
<1>3. CASE Cleared(t, n)
  BY SMTT(60), <1>3 DEF Cleared, Locked, Writes
<1>4. CASE Passed(t, n)
  BY Zenon, <1>4 DEF Passed, PassWrite, Locked
<1>. QED  BY Zenon, <1>1, <1>2, <1>3, <1>4, WriteAt

\* The write of a pass under way was so before.
WriteStays(s) == /\ io[s] # None /\ PassWrite(s) /\ io'[s].next = io[s].next
                 /\ pass'[s].cur = pass[s].cur
TodoNext(s) == Todo(s)'
PassWriteNext(s) == io'[s] # None /\ PassWrite(s)'

LEMMA TodoBefore ==
    ASSUME TypeOK, Ended, Selected, Locked, [Next]_vars, NEW s \in Sessions
    PROVE  \/ Starts(s)
           \/ TodoNext(s) \subseteq Todo(s) /\ \A n \in TodoNext(s) : pass'[s].snap[n] = pass[s].snap[n]
<1>. DEFINE Goal == TodoNext(s) \subseteq Todo(s) /\ \A n \in TodoNext(s) : pass'[s].snap[n] = pass[s].snap[n]
<1>. USE DEF Todo, TodoNext
<1>1. ASSUME pass'[s] = pass[s] PROVE Goal
  BY SMTT(60), <1>1
<1>2. ASSUME NEW r \in Sessions, PassAt(r, "loop") \/ PassOver(r) \/ PassPicks(r) PROVE Goal
  BY <1>2 DEF PassAt, PassOver, PassPicks
<1>3. ASSUME NEW r \in Sessions, PassAt(r, "brief"), pass[r].at = "review" PROVE Goal
  BY <1>3 DEF PassAt
<1>4. ASSUME NEW r \in Sessions, r # s, PassStarts(r) PROVE Goal
  BY <1>4 DEF PassStarts
<1>5. CASE \/ Idles \/ Drops \/ \E p \in Pids : Exits(p)
           \/ \E r \in Sessions, n \in Names, p \in Pids : Records(r, n, p)
           \/ \E r \in Sessions, n \in Names : Deletes(r, n) \/ Creates(r, n)
           \/ \E r \in Sessions : Writes(r)
  <2>1. pass' = pass
    BY Zenon, <1>5 DEF Idles, Drops, Exits, Records, Deletes, Creates, Writes
  <2>. QED  BY <2>1
<1>. QED  BY Zenon, <1>2, <1>3, <1>4, <1>5, Steps, PassSteps DEF Briefs

LEMMA PassWriteBefore ==
    ASSUME TypeOK, Ended, Selected, Locked, [Next]_vars, NEW s \in Sessions, PassWriteNext(s)
    PROVE  Holds(s) \/ (\E p \in Pids : Spawns(s, p)) \/ WriteStays(s)
<1>0. io'[s] # None /\ io'[s].add = {} /\ ~io'[s].unlock /\ pass'[s].at = "loop"
  BY Zenon DEF PassWriteNext, PassWrite
<1>. DEFINE Goal == Holds(s) \/ (\E p \in Pids : Spawns(s, p)) \/ WriteStays(s)
<1>1. ASSUME io'[s] = io[s], pass'[s] = pass[s] PROVE Goal
  BY <1>0, <1>1 DEF PassWriteNext, PassWrite, WriteStays
<1>2. CASE Idles \/ Drops \/ \E p \in Pids : Exits(p)
  BY Zenon, <1>1, <1>2 DEF Idles, Drops, Exits
<1>3. ASSUME NEW r \in Sessions, Writes(r) \/ Dies(r) PROVE Goal
  <2>1. io'[s] = None \/ (io'[s] = io[s] /\ pass'[s] = pass[s])
    BY SMTT(60), <1>3 DEF Writes, Dies, TypeOK
  <2>. QED  BY Zenon, <1>0, <1>1, <2>1
<1>4. ASSUME NEW r \in Sessions, Starts(r) \/ Picks(r) \/ Briefs(r) \/ Stops(r) \/ FailsToSpawn(r) PROVE Goal
  <2>1. io' = io /\ io[r] = None
    BY Zenon, <1>4 DEF Starts, Picks, Briefs, Stops, FailsToSpawn
  <2>2. \A t \in Sessions \ {r} : pass'[t] = pass[t]
    BY Zenon, <1>4, PassSteps DEF PassStarts, PassPicks, PassAt, PassOver
  <2>. QED  BY <1>0, <1>1, <2>1, <2>2
<1>5. ASSUME NEW r \in Sessions, r # s, NEW n, NEW e, NEW unlock, NEW add, Updated(r, n, e, unlock, add),
             pass' = pass \/ PassAt(r, "loop")
      PROVE  Goal
  BY <1>1, <1>5 DEF Updated, PassAt
<1>6. ASSUME NEW n \in Names, NEW p \in Pids, Records(s, n, p) PROVE FALSE
  <2>1. Updated(s, n, [store[n] EXCEPT !.queued = Never], TRUE, {})
    BY Zenon, <1>6, Updating
  <2>. QED  BY <1>0, <2>1 DEF Updated
<1>7. ASSUME NEW n \in Names, Deletes(s, n) PROVE FALSE
  BY <1>0, <1>7 DEF Deletes
<1>8. ASSUME NEW n \in Names, Creates(s, n) PROVE FALSE
  BY <1>0, <1>8 DEF Creates
<1>9. ASSUME NEW r \in Sessions, r # s,
             \/ Holds(r) \/ \E p \in Pids : Spawns(r, p)
             \/ \E n \in Names, p \in Pids : Records(r, n, p)
             \/ \E n \in Names : Deletes(r, n) \/ Creates(r, n)
      PROVE  Goal
  <2>1. pass' = pass \/ PassAt(r, "loop")
    BY Zenon, <1>9, PassSteps DEF Records, Deletes, Creates
  <2>2. \E n, e, unlock, add : Updated(r, n, e, unlock, add)
    BY Zenon, <1>9, Updating
  <2>. QED  BY Zenon, <1>5, <1>9, <2>1, <2>2
<1>. QED  BY Zenon, <1>2, <1>3, <1>4, <1>6, <1>7, <1>8, <1>9, Steps

\* What a pass is about to write to its entry
PassNext(s) == io'[s].next[pass'[s].cur]

LEMMA HeldOrWoken ==
    ASSUME TypeOK, Selected, NEW s \in Sessions
    PROVE  /\ Holds(s) => PassNext(s) = pass[s].snap[pass[s].cur] /\ pass'[s].cur = pass[s].cur
           /\ \A p \in Pids : Spawns(s, p) => PassNext(s) = Woken(s, p) /\ pass'[s].cur = pass[s].cur
<1>1. ASSUME NEW e, pass[s].cur \in Names, Updated(s, pass[s].cur, e, FALSE, {}), PassAt(s, "loop")
      PROVE  PassNext(s) = e /\ pass'[s].cur = pass[s].cur
  BY SMTT(60), <1>1 DEF Updated, PassAt, PassNext, TypeOK, Stores
<1>2. Holds(s) \/ (\E p \in Pids : Spawns(s, p)) => pass[s].cur \in Names
  BY Zenon, AtHand DEF Holds, Spawns
<1>. QED  BY Zenon, <1>1, <1>2, Updating, PassSteps

LEMMA StoreStays ==
    ASSUME TypeOK, Ended, [Next]_vars
    PROVE  (store' = store /\ (~clobbered' => ~clobbered)) \/ \E t \in Sessions : Writes(t)
<1>. QED  BY Zenon, Steps DEF quiet, Idles, Drops, Starts, Picks, Briefs, Stops, FailsToSpawn,
                Holds, Dies, Spawns, Exits, Records, Deletes, Creates

LEMMA CurrentStep ==
    ASSUME TypeOK, Ended, Locked, Selected, Shaped, GensApart, ~clobbered => Current, [Next]_vars, ~clobbered'
    PROVE  Current'
<1>0. Current
  BY StoreStays DEF Writes
<1>1. ASSUME NEW s \in Sessions, NEW n \in TodoNext(s) PROVE Same(store', n, pass'[s].snap[n])
  <2>1. CASE Starts(s)
    <3>1. PassStarts(s) /\ store' = store
      BY Zenon, <2>1, PassSteps DEF Starts, quiet
    <3>. QED  BY <3>1 DEF PassStarts, Same
  <2>2. CASE ~Starts(s)
    <3>1. n \in Todo(s) /\ pass'[s].snap[n] = pass[s].snap[n]
      BY SMTT(60), <1>1, <2>2, TodoBefore
    <3>2. Same(store, n, pass[s].snap[n])
      BY SMTT(60), <1>0, <3>1 DEF Current
    <3>3. n \in Names /\ pass[s].snap[n] # None /\ pass[s].at # "off" /\ (PassWrite(s) => n # pass[s].cur)
      BY <3>1 DEF Selected, Todo, TypeOK, Passes, PassWrite
    <3>6. pass[s].snap[n].gen \in Nat
      BY <3>3 DEF TypeOK, Passes, Stores, Entries
    <3>4. Known(n, pass[s].snap[n].gen)
      BY Zenon, <3>3 DEF Known, Has
    <3>5. ASSUME NEW t \in Sessions, Writes(t) PROVE Same(store', n, pass[s].snap[n])
      BY Zenon, <3>2, <3>3, <3>4, <3>5, <3>6, SameStays
    <3>. QED  BY Zenon, <3>1, <3>2, <3>5, StoreStays
  <2>. QED  BY <2>1, <2>2
<1>2. ASSUME NEW s \in Sessions, PassWriteNext(s), PassNext(s).queued = Never
      PROVE  Same(store', pass'[s].cur, PassNext(s))
  <2>1. CASE Holds(s)
    <3>1. PassNext(s) = pass[s].snap[pass[s].cur] /\ pass'[s].cur = pass[s].cur /\ store' = store
      BY Zenon, <2>1, HeldOrWoken DEF Holds, quiet
    <3>2. pass[s].cur \in Todo(s)
      BY SMTT(60), <2>1 DEF Holds, Todo
    <3>. QED  BY <1>0, <3>1, <3>2 DEF Current
  <2>2. ASSUME NEW p \in Pids, Spawns(s, p) PROVE FALSE
    <3>1. PassNext(s) = Woken(s, p)
      BY Zenon, <2>2, HeldOrWoken
    <3>2. pass[s].at \in {"review", "brief"}
      BY <2>2 DEF Spawns
    <3>3. pass[s].now \in Times /\ Woken(s, p).queued = pass[s].now
      BY <3>2, AtHand, WokenEntry
    <3>. QED  BY <1>2, <3>1, <3>3, CronBoundsAssumption DEF Times
  <2>3. CASE WriteStays(s)
    <3>. DEFINE n == pass[s].cur   e == io[s].next[n]
    <3>1. PassNext(s) = e /\ pass'[s].cur = n /\ io[s] # None /\ PassWrite(s)
      BY Zenon, <2>3 DEF WriteStays, PassNext
    <3>2. Same(store, n, e)
      BY Zenon, <1>0, <1>2, <3>1 DEF Current
    <3>3. /\ n \in Names /\ pass[s].snap[n] # None /\ e.gen = pass[s].snap[n].gen
          /\ pass[s].at # "off" /\ io[s].next[n] # None
      BY SMTT(60), <3>1 DEF PassWrite
    <3>4. e.gen \in Nat
      BY <3>1, <3>3 DEF TypeOK, Updates, Stores, Entries
    <3>5. Known(n, e.gen)
      BY Zenon, <3>3 DEF Known, Has
    <3>. HIDE DEF n, e
    <3>6. ASSUME NEW t \in Sessions, Writes(t) PROVE Same(store', n, e)
      <4>1. s # t
        BY <1>2, <3>6 DEF Writes, TypeOK, PassWriteNext
      <4>. QED  BY Zenon, <3>2, <3>3, <3>4, <3>5, <3>6, <4>1, SameStays
    <3>. QED  BY Zenon, <3>1, <3>2, <3>6, StoreStays
  <2>. QED  BY Zenon, <1>2, <2>1, <2>2, <2>3, PassWriteBefore
<1>. QED  BY Zenon, <1>1, <1>2 DEF Current, TodoNext, PassWriteNext, PassNext
-----------------------------------------------------------------------------
\* A run that goes on after a step went on before it, or was spawned by it.
RunNext(p) == Noted(p)'

LEMMA TornGrows ==
    ASSUME TypeOK, Ended, [Next]_vars PROVE torn \subseteq torn'
<1>1. torn' = torn \/ \E s \in Sessions : Dies(s)
  BY Zenon, Steps DEF quiet, Idles, Drops, Writes, Starts, Picks, Briefs, Stops, FailsToSpawn,
              Holds, Spawns, Exits, Records, Deletes, Creates
<1>. QED  BY Zenon, <1>1 DEF Dies

LEMMA RunKept ==
    ASSUME TypeOK, Ended, [Next]_vars, NEW p \in Pids, RunNext(p), kids'[p] = kids[p]
    PROVE  Noted(p)
<1>1. kids'[p] # None /\ kids'[p].running /\ kids'[p].by \notin torn'
  BY Zenon DEF RunNext, Noted
<1>. QED  BY Zenon, <1>1, TornGrows DEF Noted

LEMMA RunBefore ==
    ASSUME TypeOK, Ended, [Next]_vars, NEW p \in Pids, RunNext(p)
    PROVE  (kids'[p] = kids[p] /\ Noted(p)) \/ \E s \in Sessions : Spawns(s, p)
<1>. USE DEF quiet
<1>1. ASSUME NEW q \in Pids, Exits(q) PROVE kids'[p] = kids[p] /\ Noted(p)
  <2>1. kids[q] \in Kids /\ kids' = [kids EXCEPT ![q] = [kids[q] EXCEPT !.running = FALSE]]
    BY <1>1 DEF Exits, TypeOK
  <2>2. kids'[q].running = FALSE
    BY <2>1 DEF TypeOK, Kids
  <2>3. p # q
    BY Zenon, <2>2 DEF RunNext, Noted
  <2>4. kids'[p] = kids[p]
    BY <2>1, <2>3 DEF TypeOK
  <2>. QED  BY Zenon, <2>4, RunKept
<1>2. ASSUME NEW s \in Sessions, NEW q \in Pids, Spawns(s, q), q # p PROVE kids'[p] = kids[p] /\ Noted(p)
  <2>1. kids'[p] = kids[p]
    BY <1>2 DEF Spawns, TypeOK
  <2>. QED  BY Zenon, <2>1, RunKept
<1>3. CASE \/ Idles \/ Drops
           \/ \E s \in Sessions : \/ Writes(s) \/ Starts(s) \/ Picks(s) \/ Briefs(s) \/ Stops(s)
                                  \/ FailsToSpawn(s) \/ Holds(s) \/ Dies(s)
           \/ \E s \in Sessions, n \in Names, q \in Pids : Records(s, n, q)
           \/ \E s \in Sessions, n \in Names : Deletes(s, n) \/ Creates(s, n)
  <2>1. kids' = kids
    BY Zenon, <1>3 DEF Idles, Drops, Writes, Starts, Picks, Briefs, Stops, FailsToSpawn, Holds, Dies,
                       Records, Deletes, Creates
  <2>. QED  BY Zenon, <2>1, RunKept
<1>. QED  BY Zenon, Steps, <1>1, <1>2, <1>3

\* The run that is spawned
LEMMA NewRun ==
    ASSUME TypeOK, Selected, NEW s \in Sessions, NEW p \in Pids, Spawns(s, p)
    PROVE  /\ kids'[p].gen = pass[s].snap[pass[s].cur].gen /\ kids'[p].since = pass[s].now
           /\ kids'[p].by = s /\ kids'[p].name = pass[s].cur
           /\ pass[s].at \in {"review", "brief"} /\ pass[s].cur \in Todo(s)
           /\ \A q \in Pids \ {p} : kids'[q] = kids[q]
  BY SMTT(60) DEF Spawns, TypeOK, Todo

\* An entry is woken only when a run of it that goes on is abandoned.
LEMMA Abandoned ==
    ASSUME TypeOK, Selected, Timely, Shown, NEW s \in Sessions, pass[s].at \in {"review", "brief"},
           NEW p \in Pids, Noted(p), kids[p].gen = pass[s].snap[pass[s].cur].gen
    PROVE  pass[s].now >= kids[p].since + QueuedTTL
<1>. DEFINE e == pass[s].snap[pass[s].cur]
<1>1. /\ pass[s].cur \in Todo(s) /\ pass[s].cur \in Names /\ pass[s].now \in Times
      /\ e \in Entries /\ e # None
  BY AtHand DEF Todo
<1>2. Shows(e, kids[p], p)
  BY Zenon, <1>1 DEF Shown
<1>3. kids[p].since \in Times
  BY SMTT(60) DEF Noted, TypeOK, Kids
<1>4. e.queued # Never => pass[s].now - e.queued >= QueuedTTL
  BY SMTT(60), <1>1 DEF Selected
<1>5. e.lastRun # Never => e.lastRun \in Times /\ e.lastRun <= pass[s].now
  BY <1>1 DEF Timely, Past, Entries
<1>. HIDE DEF e
<1>6. (e.pid = p /\ e.queued = kids[p].since) \/ (e.lastRun # Never /\ e.lastRun >= kids[p].since + QueuedTTL)
  BY Zenon, <1>2 DEF Shows, e
<1>. QED  BY SMTT(60), <1>1, <1>3, <1>4, <1>5, <1>6, DayAssumption, CronBoundsAssumption DEF Times

\* An update under way is left alone, made or lost with its process.
LEMMA UpdateStays ==
    ASSUME TypeOK, Ended, Selected, [Next]_vars, NEW t \in Sessions, io[t] # None
    PROVE  Writes(t) \/ Dies(t) \/ (io'[t] = io[t] /\ pass'[t] = pass[t])
<1>. DEFINE Goal == Writes(t) \/ Dies(t) \/ (io'[t] = io[t] /\ pass'[t] = pass[t])
<1>1. CASE Idles \/ Drops \/ \E p \in Pids : Exits(p)
  BY Zenon, <1>1 DEF Idles, Drops, Exits
<1>2. ASSUME NEW r \in Sessions, Writes(r) \/ Dies(r) PROVE Goal
  BY <1>2 DEF Writes, Dies, TypeOK
<1>3. ASSUME NEW r \in Sessions, Starts(r) \/ Picks(r) \/ Briefs(r) \/ Stops(r) \/ FailsToSpawn(r) PROVE Goal
  <2>1. io' = io /\ io[r] = None
    BY Zenon, <1>3 DEF Starts, Picks, Briefs, Stops, FailsToSpawn
  <2>2. \A x \in Sessions \ {r} : pass'[x] = pass[x]
    BY Zenon, <1>3, PassSteps DEF PassStarts, PassPicks, PassAt, PassOver
  <2>. QED  BY <2>1, <2>2
<1>4. ASSUME NEW r \in Sessions,
             \/ Holds(r) \/ \E p \in Pids : Spawns(r, p)
             \/ \E n \in Names, p \in Pids : Records(r, n, p)
             \/ \E n \in Names : Deletes(r, n) \/ Creates(r, n)
      PROVE  Goal
  <2>1. pass' = pass \/ PassAt(r, "loop")
    BY Zenon, <1>4, PassSteps DEF Records, Deletes, Creates
  <2>2. PICK n, e, unlock, add : Updated(r, n, e, unlock, add)
    BY Zenon, <1>4, Updating
  <2>3. io[r] = None
    BY Zenon, <1>4 DEF Holds, Spawns, Records, Deletes, Creates
  <2>. QED  BY <2>1, <2>2, <2>3 DEF Updated, PassAt
<1>. QED  BY Zenon, <1>1, <1>2, <1>3, <1>4, Steps

MarkNext(p) == MarkComes(p)'

\* A write that undoes none of another process leaves a run shown.
LEMMA ShownAfterWrite ==
    ASSUME TypeOK, Shaped, GensApart, Shown, NEW t \in Sessions, Writes(t), ~clobbered',
           NEW p \in Pids, Noted(p), AllShow(store, kids[p], p) \/ (MarkComes(p) /\ t = kids[p].by)
    PROVE  AllShow(store', kids[p], p)
<1>0. /\ kids[p].gen \in Nat /\ kids[p].name \in Names /\ Known(kids[p].name, kids[p].gen)
      /\ io[t] # None
  BY Zenon DEF Noted, TypeOK, Kids, Known, Writes
<1>. SUFFICES ASSUME NEW n \in Names, store'[n] # None, store'[n].gen = kids[p].gen
              PROVE  Shows(store'[n], kids[p], p)
  BY Zenon DEF AllShow, Shows
<1>1. CASE Passed(t, n)
  <2>1. PassWrite(t) /\ store'[n] = io[t].next[pass[t].cur]
    BY Zenon, <1>1 DEF Passed
  <2>. QED  BY Zenon, <1>0, <2>1 DEF Shown
<1>2. CASE Added(t, n)
  <2>1. Adds(t, n, kids[p].gen)
    BY Zenon, <1>2 DEF Added
  <2>. QED  BY Zenon, <1>0, <2>1 DEF GensApart
<1>3. CASE store'[n] = store[n]
  <2>1. CASE AllShow(store, kids[p], p)
    BY Zenon, <1>3, <2>1 DEF AllShow
  <2>2. CASE MarkComes(p) /\ t = kids[p].by
    <3>1. Known(n, kids[p].gen)
      BY Zenon, <1>3 DEF Known, Has
    <3>2. n = pass[t].cur /\ PassWrite(t)
      BY Zenon, <1>0, <2>2, <3>1 DEF GensApart, MarkComes
    <3>3. store'[n] = io[t].next[pass[t].cur]
      BY <3>2 DEF Writes
    <3>. QED  BY Zenon, <1>0, <3>2, <3>3 DEF Shown
  <2>. QED  BY <2>1, <2>2
<1>4. CASE Cleared(t, n)
  <2>1. /\ store[n] \in Entries /\ store[n] # None /\ store[n].pid # p
        /\ store'[n] = [store[n] EXCEPT !.queued = Never] /\ io[t].unlock
    BY <1>4 DEF Cleared, Over, Noted, TypeOK, Stores
  <2>2. /\ store'[n].gen = store[n].gen /\ store'[n].lastRun = store[n].lastRun
    BY SMTT(60), <2>1 DEF Entries
  <2>3. AllShow(store, kids[p], p)
    BY Zenon, <2>1 DEF MarkComes, PassWrite
  <2>4. Shows(store[n], kids[p], p)
    BY Zenon, <2>1, <2>3 DEF AllShow
  <2>. QED  BY Zenon, <2>1, <2>2, <2>4 DEF Shows
<1>. QED  BY Zenon, <1>1, <1>2, <1>3, <1>4, WriteAt

LEMMA MarkStays ==
    ASSUME TypeOK, Ended, Selected, [Next]_vars, NEW p \in Pids, Noted(p), RunNext(p), kids'[p] = kids[p],
           MarkComes(p), ~Writes(kids[p].by)
    PROVE  MarkNext(p)
<1>. DEFINE s == kids[p].by
<1>1. s \in Sessions
  BY Zenon DEF Noted, TypeOK, Kids
<1>2. io[s] # None /\ PassWrite(s) /\ pass[s].cur = kids[p].name
  BY Zenon DEF MarkComes
<1>3. ~Dies(s)
  BY Zenon, <1>2 DEF Dies, RunNext, Noted
<1>4. io'[s] = io[s] /\ pass'[s] = pass[s]
  BY Zenon, <1>1, <1>2, <1>3, UpdateStays
<1>. QED  BY ZenonT(60), <1>2, <1>4 DEF MarkNext, MarkComes, PassWrite

LEMMA ShownStep ==
    ASSUME TypeOK, Ended, Locked, Selected, Shaped, GensApart, Timely, ~clobbered => Shown,
           [Next]_vars, ~clobbered'
    PROVE  Shown'
<1>0. Shown
  BY Zenon, StoreStays DEF Writes
<1>1. ASSUME NEW p \in Pids, RunNext(p) PROVE AllShow(store', kids'[p], p) \/ MarkNext(p)
  <2>1. ASSUME NEW s \in Sessions, Spawns(s, p) PROVE MarkNext(p)
    <3>1. PassAt(s, "loop") /\ Updated(s, pass[s].cur, Woken(s, p), FALSE, {})
      BY Zenon, <2>1, PassSteps, Updating
    <3>2. kids'[p].by = s /\ kids'[p].name = pass[s].cur /\ pass[s].at \in {"review", "brief"}
      BY SMTT(60), <2>1, NewRun
    <3>3. Woken(s, p).gen = pass[s].snap[pass[s].cur].gen /\ Woken(s, p) # None
      BY Zenon, <3>2, WokenEntry
    <3>4. PassWrite(s)'
      BY Zenon, <3>1, <3>2, <3>3, PassWriting
    <3>5. io'[s] # None /\ pass'[s].cur = pass[s].cur
      BY Zenon, <3>1 DEF Updated, PassAt
    <3>. QED  BY Zenon, <3>2, <3>4, <3>5 DEF MarkNext, MarkComes
  <2>2. CASE kids'[p] = kids[p] /\ Noted(p)
    <3>1. AllShow(store, kids[p], p) \/ MarkComes(p)
      BY Zenon, <1>0, <2>2 DEF Shown
    <3>2. ASSUME NEW t \in Sessions, Writes(t), AllShow(store, kids[p], p) \/ t = kids[p].by
          PROVE  AllShow(store', kids'[p], p)
      BY Zenon, <1>0, <2>2, <3>1, <3>2, ShownAfterWrite
    <3>3. kids[p].by \in Sessions
      BY <2>2 DEF Noted, TypeOK, Kids
    <3>. QED  BY Zenon, <1>1, <2>2, <3>1, <3>2, <3>3, MarkStays, StoreStays
  <2>. QED  BY Zenon, <1>1, <2>1, <2>2, RunBefore
<1>2. ASSUME NEW p \in Pids, RunNext(p), NEW s \in Sessions, NEW n \in TodoNext(s)
      PROVE  Shows(pass'[s].snap[n], kids'[p], p)
  <2>1. CASE Starts(s)
    <3>1. PassStarts(s) /\ kids' = kids
      BY Zenon, <2>1, PassSteps DEF Starts, quiet
    <3>2. pass'[s].snap = store /\ n \in Names /\ store[n] # None
      BY SMTT(60), <1>2, <3>1 DEF PassStarts, TodoNext, Todo
    <3>3. Noted(p) /\ kids[p].by \in Sessions
      <4>1. Noted(p)
        BY Zenon, <1>2, <3>1, RunKept
      <4>. QED  BY SMTT(60), <4>1 DEF Noted, TypeOK, Kids
    <3>4. ~MarkComes(p)
      BY ZenonT(60), <2>1, <3>3, NoneAssumption DEF MarkComes, PassWrite, Starts, LockAvailable, Locked
    <3>5. Shows(store[n], kids[p], p)
      BY Zenon, <1>0, <3>2, <3>3, <3>4 DEF Shown, AllShow
    <3>. QED  BY Zenon, <3>1, <3>2, <3>5
  <2>2. CASE ~Starts(s)
    <3>1. n \in Todo(s) /\ pass'[s].snap[n] = pass[s].snap[n]
      BY <1>2, <2>2, TodoBefore
    <3>2. CASE kids'[p] = kids[p] /\ Noted(p)
      BY Zenon, <1>0, <3>1, <3>2 DEF Shown
    <3>3. ASSUME NEW r \in Sessions, Spawns(r, p) PROVE pass[s].snap[n].gen # kids'[p].gen
      <4>1. PassAt(r, "loop") /\ pass[r].at = "brief"
        BY Zenon, <3>3, PassSteps DEF Spawns
      <4>2. n \in Names /\ pass[s].snap[n] # None /\ pass[s].at # "off"
        BY <3>1 DEF Selected, Todo, TypeOK, Passes
      <4>3. s = r
        BY SMTT(60), <4>1, <4>2 DEF Locked
      <4>4. n \in pass[s].left /\ pass[s].cur \in Names \ pass[s].left /\ pass[s].snap[pass[s].cur] # None
        BY SMTT(60), <1>2, <4>1, <4>3, AtHand DEF PassAt, TodoNext, Todo
      <4>5. pass[s].snap[n].gen \in Nat
        BY <4>2 DEF TypeOK, Passes, Stores, Entries
      <4>6. Known(n, pass[s].snap[n].gen) /\ Known(pass[s].cur, pass[s].snap[pass[s].cur].gen)
        BY Zenon, <4>2, <4>4 DEF Known, Has
      <4>7. n # pass[s].cur
        BY Zenon, <4>4
      <4>8. kids'[p].gen = pass[s].snap[pass[s].cur].gen
        BY <3>3, <4>3, NewRun
      <4>. QED  BY Zenon, <4>2, <4>4, <4>5, <4>6, <4>7, <4>8 DEF GensApart
    <3>. QED  BY Zenon, <1>2, <3>1, <3>2, <3>3, RunBefore DEF Shows
  <2>. QED  BY <2>1, <2>2
<1>3. ASSUME NEW p \in Pids, RunNext(p), NEW s \in Sessions, PassWriteNext(s)
      PROVE  Shows(PassNext(s), kids'[p], p)
  <2>1. CASE Holds(s)
    <3>1. PassNext(s) = pass[s].snap[pass[s].cur] /\ kids' = kids /\ pass[s].cur \in Todo(s)
      BY ZenonT(60), <2>1, HeldOrWoken DEF Holds, quiet, Todo
    <3>2. Noted(p)
      BY Zenon, <1>3, <3>1, RunKept
    <3>. QED  BY Zenon, <1>0, <3>1, <3>2 DEF Shown
  <2>2. ASSUME NEW q \in Pids, Spawns(s, q) PROVE Shows(PassNext(s), kids'[p], p)
    <3>1. PassNext(s) = Woken(s, q) /\ pass[s].at \in {"review", "brief"}
      BY <2>2, HeldOrWoken, NewRun
    <3>2. /\ Woken(s, q).gen = pass[s].snap[pass[s].cur].gen /\ Woken(s, q).pid = q
          /\ Woken(s, q).queued = pass[s].now /\ Woken(s, q).lastRun = pass[s].now
      BY <3>1, WokenEntry
    <3>3. CASE p = q
      <4>1. kids'[p].since = pass[s].now
        BY SMTT(60), <2>2, <3>3, NewRun
      <4>. QED  BY SMTT(60), <3>1, <3>2, <3>3, <4>1 DEF Shows
    <3>4. CASE p # q
      <4>1. kids'[p] = kids[p]
        BY <2>2, <3>4, NewRun
      <4>2. Noted(p)
        BY Zenon, <1>3, <4>1, RunKept
      <4>3. kids[p].gen = pass[s].snap[pass[s].cur].gen => pass[s].now >= kids[p].since + QueuedTTL
        BY Zenon, <1>0, <3>1, <4>2, Abandoned
      <4>4. pass[s].now # Never
        BY <3>1, AtHand, CronBoundsAssumption DEF Times
      <4>. QED  BY SMTT(60), <3>1, <3>2, <4>1, <4>3, <4>4 DEF Shows
    <3>. QED  BY <3>3, <3>4
  <2>3. CASE WriteStays(s)
    <3>1. PassNext(s) = io[s].next[pass[s].cur] /\ io[s] # None /\ PassWrite(s)
      BY Zenon, <2>3 DEF WriteStays, PassNext
    <3>2. ASSUME NEW r \in Sessions, Spawns(r, p) PROVE FALSE
      BY <3>1, <3>2 DEF Spawns, Locked, PassWrite
    <3>. QED  BY Zenon, <1>0, <1>3, <3>1, <3>2, RunBefore DEF Shown
  <2>. QED  BY Zenon, <1>3, <2>1, <2>2, <2>3, PassWriteBefore
<1>4. ASSUME NEW p \in Pids, NEW q \in Pids, RunNext(p), RunNext(q), p # q,
             kids'[p].gen = kids'[q].gen, kids'[p].since <= kids'[q].since
      PROVE  kids'[q].since - kids'[p].since >= QueuedTTL
  <2>0. kids'[p].since \in Times /\ kids'[q].since \in Times
    <3>1. TypeOK'
      BY TypeStep
    <3>. QED  BY <1>4, <3>1 DEF TypeOK, Kids, RunNext, Noted
  <2>1. CASE kids'[p] = kids[p] /\ Noted(p) /\ kids'[q] = kids[q] /\ Noted(q)
    <3>1. SameEntry(p, q)
      BY Zenon, <1>4, <2>1 DEF SameEntry, Noted
    <3>2. kids[q].since - kids[p].since >= QueuedTTL
      BY Zenon, <1>0, <2>1, <3>1 DEF Shown
    <3>. QED  BY <2>1, <3>2
  <2>2. ASSUME NEW x \in Pids, NEW y \in Pids, x # y, RunNext(x), kids'[x].gen = kids'[y].gen,
               NEW s \in Sessions, Spawns(s, y)
        PROVE  kids'[y].since >= kids'[x].since + QueuedTTL
    <3>1. /\ kids'[x] = kids[x] /\ kids'[y].gen = pass[s].snap[pass[s].cur].gen
          /\ kids'[y].since = pass[s].now /\ pass[s].at \in {"review", "brief"}
      BY <2>2, NewRun
    <3>2. Noted(x)
      BY Zenon, <2>2, <3>1, RunKept
    <3>3. kids[x].gen = pass[s].snap[pass[s].cur].gen
      BY Zenon, <2>2, <3>1
    <3>4. pass[s].now >= kids[x].since + QueuedTTL
      BY Zenon, <1>0, <3>1, <3>2, <3>3, Abandoned
    <3>. QED  BY SMTT(60), <3>1, <3>4
  <2>3. CASE kids'[q].since >= kids'[p].since + QueuedTTL
    BY SMTT(60), <2>0, <2>3, DayAssumption DEF Times
  <2>4. CASE kids'[p].since >= kids'[q].since + QueuedTTL
    BY <1>4, <2>0, <2>4, DayAssumption DEF Times
  <2>. QED  BY Zenon, <1>4, <2>1, <2>2, <2>3, <2>4, RunBefore
<1>. QED  BY Zenon, <1>1, <1>2, <1>3, <1>4
            DEF Shown, RunNext, MarkNext, TodoNext, PassWriteNext, PassNext, SameEntry
-----------------------------------------------------------------------------
LEMMA InitInv == Init => IInv
<1>. SUFFICES ASSUME Init PROVE IInv
  OBVIOUS
<1>1. \A s \in Sessions : /\ pass[s].at = "off" /\ pass[s].now = 0 /\ pass[s].left = {} /\ io[s] = None
                          /\ pass[s].snap = [n \in Names |-> None]
  BY DEF Init, NoPass
<1>2. TypeOK
  <2>1. NoPass \in Passes /\ 0 \in Times /\ [n \in Names |-> None] \in Stores
    BY SMTT(60), CronBoundsAssumption DEF NoPass, Passes, Stores, Times
  <2>. QED  BY <2>1 DEF Init, TypeOK
<1>3. Ended /\ Locked /\ Shaped
  <2>1. Shaped
    BY Zenon, <1>1 DEF Shaped
  <2>2. Ended /\ Locked
    BY SMTT(60), <1>1 DEF Init, Ended, Locked
  <2>. QED  BY Zenon, <2>1, <2>2
<1>4. Selected /\ \A s \in Sessions : Todo(s) = {}
  BY <1>1 DEF Selected, Todo
<1>5. GensApart
  <2>1. \A n \in Names, g \in Nat : ~Known(n, g)
    BY <1>1 DEF Init, Known, Has
  <2>2. \A s \in Sessions, n \in Names, g \in Nat : ~Adds(s, n, g)
    BY <1>1 DEF Adds
  <2>. QED  BY Zenon, <2>1, <2>2 DEF GensApart
<1>6. Timely
  BY SMTT(60), <1>1 DEF Init, Timely, Past
<1>7. Current
  BY SMTT(60), <1>1, <1>4 DEF Current
<1>8. Shown
  BY DEF Init, Shown, Noted
<1>. QED  BY Zenon, <1>2, <1>3, <1>4, <1>5, <1>6, <1>7, <1>8 DEF IInv

\* What holds of the lock, the passes, the updates under way and the runs after
\* any number of steps
THEOREM Inductive == Spec => []IInv
<1>1. IInv /\ [Next]_vars => IInv'
  <2>. SUFFICES ASSUME IInv, [Next]_vars PROVE IInv'
    OBVIOUS
  <2>1. /\ TypeOK /\ Ended /\ Locked /\ Selected /\ Shaped /\ GensApart /\ Timely
        /\ ~clobbered => Current
        /\ ~clobbered => Shown
    BY Zenon DEF IInv
  <2>2. TypeOK' /\ Ended' /\ Locked' /\ Selected' /\ Shaped' /\ GensApart' /\ Timely'
    BY Zenon, <2>1, TypeStep, EndedStep, LockedStep, SelectedStep, ShapedStep, GensApartStep, TimelyStep
  <2>3. ~clobbered' => Current'
    BY Zenon, <2>1, CurrentStep
  <2>4. ~clobbered' => Shown'
    BY Zenon, <2>1, ShownStep
  <2>. QED  BY Zenon, <2>2, <2>3, <2>4 DEF IInv
<1>. QED  BY <1>1, InitInv, PTL DEF Spec

\* Whatever the sessions, entries, crashes and interleavings, an entry of which a
\* run goes on is woken again only after QUEUED_TTL, as long as no tool call undid
\* a write of the scheduler; a session that died before a write of its own is
\* excused for the runs it spawned, and for no other.
THEOREM NoDoubleFire == Spec => []NoDoubleFireUndisturbed
<1>1. IInv => NoDoubleFireUndisturbed
  BY Zenon DEF IInv, Shown, NoDoubleFireUndisturbed, Noted, SameEntry
<1>. QED  BY <1>1, Inductive, PTL

LEMMA OnlyWrites ==
    ASSUME [Next]_vars, store' # store PROVE \E t \in Sessions : WriteBack(t)
  BY Zenon DEF Next, Work, PassStep, vars, files, sess, hist, StartPass, NextEntry, Reviewed, Spawn, EndPass,
               KidExits, recordExit, cron_create, CreateReviewed, cron_delete, Tick, Crash

LEMMA WriteBackWrites == ASSUME NEW t \in Sessions, WriteBack(t) PROVE Writes(t)
  BY Zenon DEF WriteBack, Writes

\* The mark of an entry is taken away only once the run it stands for has ended,
\* however late the exits of earlier runs are recorded.
THEOREM MarkCleared == Spec => MarkClearedByItsRun
<1>. DEFINE A == \A n \in Names :
                   LET e == store[n]  f == store'[n]
                   IN ~clobbered' /\ e # None /\ f # None /\ e.queued # Never
                         /\ f.queued = Never /\ f.gen = e.gen => ~kids[e.pid].running
<1>1. ASSUME IInv, [Next]_vars PROVE A
  <2>. SUFFICES ASSUME NEW n \in Names, ~clobbered', store[n] # None, store'[n] # None, store[n].queued # Never,
                       store'[n].queued = Never, store'[n].gen = store[n].gen
                PROVE  ~kids[store[n].pid].running
    BY Zenon
  <2>1. TypeOK /\ Shaped /\ GensApart /\ (~clobbered => Current)
    BY Zenon, <1>1 DEF IInv
  <2>2. PICK t \in Sessions : Writes(t)
    BY Zenon, <1>1, OnlyWrites, WriteBackWrites
  <2>3. ~Added(t, n)
    <3>1. Known(n, store[n].gen)
      BY Zenon DEF Known, Has
    <3>. QED  BY Zenon, <2>1, <3>1 DEF Added, GensApart
  <2>4. ~Passed(t, n)
    <3>. SUFFICES ASSUME Passed(t, n) PROVE FALSE
      OBVIOUS
    <3>1. io[t] # None /\ PassWrite(t) /\ store'[n] = io[t].next[pass[t].cur] /\ n = pass[t].cur /\ Current
      BY Zenon, <2>1, <2>2 DEF Passed, Writes
    <3>2. Same(store, n, store'[n])
      BY Zenon, <3>1 DEF Current
    <3>3. store[n] = store'[n]
      BY Zenon, <3>2 DEF Same, Has
    <3>. QED  BY Zenon, <3>3
  <2>5. Cleared(t, n)
    BY Zenon, <2>1, <2>2, <2>3, <2>4, WriteAt
  <2>. QED  BY Zenon, <2>5 DEF Cleared, Over
<1>2. IInv /\ [Next]_vars => [A]_vars
  BY Zenon, <1>1
<1>. QED  BY <1>2, Inductive, PTL DEF Spec, MarkClearedByItsRun

\* A deleted entry comes back only with a new creation or from a pass that had it
\* in its snapshot, never from the exit of a run.
THEOREM DeletedReturns == Spec => DeletedReturnsOnlyByPass
<1>. DEFINE A == \A n \in gone \cap gone' :
                   store[n] = None /\ store'[n] # None /\ ~clobbered'
                      => \E s \in Sessions : pass[s].at # "off" /\ pass[s].snap[n] # None
<1>1. ASSUME IInv, [Next]_vars PROVE A
  <2>. SUFFICES ASSUME NEW n \in Names, n \in gone', store[n] = None, store'[n] # None, ~clobbered'
                PROVE  \E s \in Sessions : pass[s].at # "off" /\ pass[s].snap[n] # None
    BY <1>1 DEF IInv, Ended
  <2>1. TypeOK /\ Shaped
    BY Zenon, <1>1 DEF IInv
  <2>2. PICK t \in Sessions : WriteBack(t)
    BY Zenon, <1>1, OnlyWrites
  <2>3. ~Added(t, n)
    BY <2>2 DEF WriteBack, Added, Adds
  <2>4. Passed(t, n)
    BY Zenon, <2>1, <2>2, <2>3, WriteAt, WriteBackWrites DEF Cleared
  <2>5. pass[t].at # "off" /\ pass[t].snap[n] # None
    BY Zenon, <2>4 DEF Passed, PassWrite
  <2>. QED  BY Zenon, <2>5
<1>2. IInv /\ [Next]_vars => [A]_vars
  BY Zenon, <1>1
<1>. QED  BY <1>2, Inductive, PTL DEF Spec, DeletedReturnsOnlyByPass
-----------------------------------------------------------------------------
(* What isDue and nextDue compute, for days of any length *)

\* A day's number times its length grows with the number.
LEMMA DaysGrow ==
    ASSUME NEW d \in Nat, NEW e \in Nat, d <= e
    PROVE  /\ d * Day \in Nat /\ e * Day \in Nat
           /\ d * Day <= e * Day
           /\ d < e => d * Day + Day <= e * Day
  <1>1. d * Day \in Nat /\ e * Day \in Nat
    BY DayAssumption
  <1>2. PICK k \in Nat : e = d + k
    BY SMT
  <1>3. e * Day = d * Day + k * Day
    BY <1>2, DayAssumption, SMTT(30)
  <1>4. k = 0 \/ k * Day >= Day
    BY DayAssumption, SMTT(30)
  <1>5. k * Day \in Nat
    BY DayAssumption
  <1> QED
    BY <1>1, <1>2, <1>3, <1>4, <1>5, DayAssumption

\* dayStart is the first instant of the day an instant is in.
LEMMA DayStarts ==
    ASSUME NEW t \in Nat
    PROVE  /\ t \div Day \in Nat
           /\ dayStart(t) = (t \div Day) * Day
           /\ dayStart(t) \in Nat /\ dayStart(t) <= t /\ t < dayStart(t) + Day
  BY DayAssumption, SMTT(30) DEF dayStart

\* isDue, "daily rollover aware" (cron-store.ts): once it has run, a daily entry
\* is due exactly when a slot has passed since, however many days ago that was.
THEOREM DailyDueIffSlotPassed ==
    ASSUME NEW at \in 0..(Day - 1), NEW nw \in Nat, NEW last \in 0..nw, Never \notin Nat
    PROVE  isDue([kind |-> "daily", at |-> at], nw, last) <=> SlotPassed(at, nw, last)
  <1> DEFINE q == nw \div Day
             slot == dayStart(nw) + at
             lastSlot == IF nw >= slot THEN slot ELSE slot - Day
  <1>0. at \in Nat /\ at < Day /\ Day \in Nat \ {0}
    BY DayAssumption
  <1>1. /\ q \in Nat /\ dayStart(nw) = q * Day
        /\ dayStart(nw) \in Nat /\ dayStart(nw) <= nw /\ nw < dayStart(nw) + Day
    BY DayStarts
  <1>2. isDue([kind |-> "daily", at |-> at], nw, last) <=> lastSlot > last
    BY DEF isDue, slotOnDay
  <1>3. ASSUME lastSlot > last PROVE SlotPassed(at, nw, last)
    <2>1. CASE nw >= slot
      BY <1>0, <1>1, <1>3, <2>1 DEF SlotPassed, slotOnDay
    <2>2. CASE ~(nw >= slot)
      <3>1. q > 0
        BY <1>0, <1>1, <1>3, <2>2
      <3>2. (q - 1) * Day = q * Day - Day
        BY <1>0, <1>1, SMTT(30)
      <3>3. q - 1 \in 0..q
        BY <1>1, <3>1
      <3>4. last < (q - 1) * Day + at /\ (q - 1) * Day + at <= nw
        BY <1>0, <1>1, <1>3, <2>2, <3>2
      <3> QED
        BY <3>3, <3>4 DEF SlotPassed, slotOnDay
    <2> QED
      BY <2>1, <2>2
  <1>4. ASSUME SlotPassed(at, nw, last) PROVE lastSlot > last
    <2>1. PICK d \in 0..q : last < d * Day + at /\ d * Day + at <= nw
      BY <1>4 DEF SlotPassed, slotOnDay
    <2>2. d \in Nat /\ d <= q
      BY <1>1, <2>1
    <2>3. /\ d * Day \in Nat /\ q * Day \in Nat /\ d * Day <= q * Day
          /\ d < q => d * Day + Day <= q * Day
      BY <1>1, <2>2, DaysGrow
    <2>4. CASE nw >= slot
      BY <1>0, <1>1, <2>1, <2>3, <2>4
    <2>5. CASE ~(nw >= slot)
      <3>1. d # q
        BY <1>0, <1>1, <2>1, <2>5
      <3> QED
        BY <1>0, <1>1, <2>1, <2>2, <2>3, <2>5, <3>1
    <2> QED
      BY <2>4, <2>5
  <1> QED
    BY <1>2, <1>3, <1>4

\* The day of an instant is the only one that holds it.
LEMMA DayOf ==
    ASSUME NEW t \in Nat, NEW u \in Nat, dayStart(t) <= u, u < dayStart(t) + Day
    PROVE  dayStart(u) = dayStart(t)
  <1> DEFINE q == t \div Day
             r == u \div Day
  <1>1. q \in Nat /\ dayStart(t) = q * Day /\ dayStart(t) \in Nat
    BY DayStarts
  <1>2. r \in Nat /\ dayStart(u) = r * Day /\ dayStart(u) \in Nat /\ dayStart(u) <= u /\ u < dayStart(u) + Day
    BY DayStarts
  <1>3. ~(q < r)
    BY <1>1, <1>2, DaysGrow, DayAssumption
  <1>4. ~(r < q)
    BY <1>1, <1>2, DaysGrow, DayAssumption
  <1> QED
    BY <1>1, <1>2, <1>3, <1>4

\* The next slot of a daily schedule: today's if it is still to come, or tomorrow's.
LEMMA NextSlot ==
    ASSUME NEW at \in 0..(Day - 1), NEW nw \in Nat, NEW last
    PROVE  nextDue([kind |-> "daily", at |-> at], nw, last)
             = IF nw < dayStart(nw) + at THEN dayStart(nw) + at ELSE dayStart(nw) + Day + at
  <1> DEFINE s == dayStart(nw)
             C == {c \in {slotOnDay(s + d * Day, at) : d \in 0..2} : c > nw}
             n == IF nw < s + at THEN s + at ELSE s + Day + at
  <1>1. at \in Nat /\ at < Day /\ Day \in Nat \ {0} /\ s \in Nat /\ s <= nw /\ nw < s + Day
    BY DayStarts, DayAssumption
  <1>2. 0 * Day = 0 /\ 1 * Day = Day /\ 2 * Day = Day + Day
    BY <1>1
  <1>3. {slotOnDay(s + d * Day, at) : d \in 0..2} = {s + at, s + Day + at, s + Day + Day + at}
    <2>1. 0..2 = {0, 1, 2}
      BY SMT
    <2>2. {slotOnDay(s + d * Day, at) : d \in {0, 1, 2}}
            = {slotOnDay(s + 0 * Day, at), slotOnDay(s + 1 * Day, at), slotOnDay(s + 2 * Day, at)}
      BY Zenon
    <2>3. /\ slotOnDay(s + 0 * Day, at) = s + at
          /\ slotOnDay(s + 1 * Day, at) = s + Day + at
          /\ slotOnDay(s + 2 * Day, at) = s + Day + Day + at
      BY <1>1, <1>2 DEF slotOnDay
    <2> QED
      BY <2>1, <2>2, <2>3
  <1>4. n \in C /\ n \in Nat /\ \A c \in C : n <= c
    BY SMTT(60), <1>1, <1>3
  <1>5. Min(C) = n
    <2>1. \A x \in C : x \in Nat
      BY <1>1, <1>3
    <2>2. \A x \in C : (\A y \in C : x <= y) => x = n
      BY <1>4, <2>1
    <2> QED
      BY <1>4, <2>2 DEF Min
  <1> QED
    BY <1>5 DEF nextDue

\* The next run that cron_list shows for an entry that is not due (nextDue) is the
\* first instant at which the scheduler finds it due (isDue).
THEOREM ListedNextIsFirstDue ==
    ASSUME NEW sched \in [kind : {"daily"}, at : 0..(Day - 1)] \cup [kind : {"every"}, every : Nat \ {0}],
           NEW nw \in Nat, NEW last \in (0..nw) \cup {Never}, Never \notin Nat,
           ~isDue(sched, nw, last)
    PROVE  /\ nextDue(sched, nw, last) \in Nat
           /\ isDue(sched, nextDue(sched, nw, last), last)
           /\ \A t \in nw..(nextDue(sched, nw, last) - 1) : ~isDue(sched, t, last)
  <1> DEFINE next == nextDue(sched, nw, last)
  <1>1. CASE sched \in [kind : {"every"}, every : Nat \ {0}]
    <2>1. sched.kind = "every" /\ sched.every \in Nat \ {0}
      BY <1>1
    <2>2. last \in 0..nw /\ nw - last < sched.every
      BY <2>1 DEF isDue
    <2>3. next = Max({last + sched.every, nw})
      BY <2>1, <2>2 DEF nextDue
    <2>4. Max({last + sched.every, nw}) = last + sched.every
      BY <2>1, <2>2 DEF Max
    <2> QED
      BY SMTT(60), <2>1, <2>2, <2>3, <2>4 DEF isDue
  <1>2. CASE sched \in [kind : {"daily"}, at : 0..(Day - 1)]
    <2>1. PICK at \in 0..(Day - 1) : sched = [kind |-> "daily", at |-> at]
      BY <1>2
    <2> DEFINE s == dayStart(nw)
    <2>2. at \in Nat /\ at < Day /\ Day \in Nat \ {0} /\ s \in Nat /\ s <= nw /\ nw < s + Day
      BY DayStarts, DayAssumption
    <2>3. next = IF nw < s + at THEN s + at ELSE s + Day + at
      BY <2>1, NextSlot
    <2>4. \A t \in Nat : isDue(sched, t, last) <=>
             LET slot == dayStart(t) + at
             IN IF last = Never THEN t >= slot
                ELSE (IF t >= slot THEN slot ELSE slot - Day) > last
      BY <2>1 DEF isDue, slotOnDay
    <2>5. CASE nw < s + at
      <3>1. next = s + at /\ next \in Nat /\ s <= next /\ next < s + Day
        BY <2>2, <2>3, <2>5
      <3>2. \A t \in nw..next : dayStart(t) = s
        BY <2>2, <3>1, DayOf
      <3>3. isDue(sched, next, last)
        BY <2>2, <2>4, <2>5, <3>1, <3>2
      <3>4. \A t \in nw..(next - 1) : ~isDue(sched, t, last)
        BY <2>2, <2>4, <2>5, <3>1, <3>2
      <3> QED
        BY <3>1, <3>3, <3>4
    <2>6. CASE ~(nw < s + at)
      <3>1. next = s + Day + at /\ next \in Nat
        BY <2>2, <2>3, <2>6
      <3>2. last # Never /\ last \in 0..nw /\ s + at <= last
        BY <2>2, <2>4, <2>6
      <3>3. dayStart(s + Day) = s + Day
        <4>1. PICK q \in Nat : s = q * Day
          BY DayStarts
        <4>2. s + Day = (q + 1) * Day
          BY <2>2, <4>1, SMTT(30)
        <4>3. ((q + 1) * Day) % Day = 0
          BY <2>2, <4>1, SMTT(30)
        <4> QED
          BY <2>2, <4>2, <4>3 DEF dayStart
      <3>4. \A t \in (s + Day)..next : dayStart(t) = s + Day
        BY <2>2, <3>1, <3>3, DayOf
      <3>5. \A t \in nw..(s + Day - 1) : dayStart(t) = s
        BY <2>2, DayOf
      <3>6. isDue(sched, next, last)
        BY <2>2, <2>4, <3>1, <3>2, <3>4
      <3>7. ASSUME NEW t \in nw..(next - 1) PROVE ~isDue(sched, t, last)
        <4>1. CASE t < s + Day
          BY <2>2, <2>4, <2>6, <3>1, <3>2, <3>5, <4>1
        <4>2. CASE ~(t < s + Day)
          BY <2>2, <2>4, <3>1, <3>2, <3>4, <4>2
        <4> QED
          BY <4>1, <4>2
      <3> QED
        BY <3>1, <3>6, <3>7
    <2> QED
      BY <2>5, <2>6
  <1> QED
    BY <1>1, <1>2
=============================================================================
