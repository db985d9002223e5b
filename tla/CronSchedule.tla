---------------------------- MODULE CronSchedule ----------------------------
(***************************************************************************)
(* When a cron entry runs (extensions/lib/cron-store.ts).  A schedule is   *)
(* [kind |-> "every", every |-> n] or [kind |-> "daily", at |-> m], in     *)
(* ticks; a day has Day ticks.  Never stands for an undefined last run.    *)
(***************************************************************************)
EXTENDS Integers, FiniteSetsExt

CONSTANTS Day, QueuedTTL, Never

ASSUME DayAssumption == Day \in Nat \ {0} /\ QueuedTTL \in Nat

dayStart(t) == t - (t % Day)

slotOnDay(start, at) == start + at

nextDue(sched, from, last) ==
    IF sched.kind = "every"
    THEN IF last = Never THEN from ELSE Max({last + sched.every, from})
    ELSE Min({c \in {slotOnDay(dayStart(from) + d * Day, sched.at) : d \in 0..2} : c > from})

isDue(sched, now, last) ==
    IF sched.kind = "every"
    THEN last = Never \/ now - last >= sched.every
    ELSE LET slot == slotOnDay(dayStart(now), sched.at)
             lastSlot == IF now >= slot THEN slot ELSE slot - Day
         IN IF last = Never THEN now >= slot ELSE lastSlot > last

\* An entry whose wake is in flight is left alone until it counts as abandoned.
dueEntry(sched, now, e) ==
    /\ e.queued # Never => now - e.queued >= QueuedTTL
    /\ isDue(sched, now, e.lastRun)

\* What a daily schedule means: some slot has passed since the last run.
SlotPassed(at, now, last) ==
    \E d \in 0..(now \div Day) : last < slotOnDay(d * Day, at) /\ slotOnDay(d * Day, at) <= now
=============================================================================
