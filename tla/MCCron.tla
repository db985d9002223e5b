------------------------------- MODULE MCCron -------------------------------
(* Cron with two sessions and one entry for TLC. *)
EXTENDS Cron

CONSTANTS s1, s2, e1

TwoSessions == {s1, s2}
OneName     == {e1}

EveryTick == [n \in Names |-> [kind |-> "every", every |-> 1]]

MCNever == -1
=============================================================================
