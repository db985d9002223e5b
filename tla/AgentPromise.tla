---------------------------- MODULE AgentPromise ----------------------------
(***************************************************************************)
(* What the Agent of packages/agent promises about the messages it is      *)
(* given, without its queues, polls and turns.  A message waits until a    *)
(* run takes it; what a run has taken it says, in the order of the log, or *)
(* loses by failing; a run ends with nothing taken and unsaid.             *)
(***************************************************************************)
EXTENDS Naturals, Sequences

CONSTANT MaxMsg     \* messages handed to the agent, numbered as they come

VARIABLES
    running,    \* a run is active
    place,      \* where each message is
    log         \* what was said, in order

vars == <<running, place, log>>

Msg    == 1..MaxMsg
Places == {"new", "waiting", "taken", "said", "dropped"}

At(p) == {m \in Msg : place[m] = p}

\* The messages in S move to place p.
Move(S, p) == place' = [m \in Msg |-> IF m \in S THEN p ELSE place[m]]

Init ==
    /\ running = FALSE
    /\ place = [m \in Msg |-> "new"]
    /\ log = <<>>

\* The host queues a message, at any time.
Queue(m) ==
    /\ place[m] = "new"
    /\ Move({m}, "waiting")
    /\ UNCHANGED <<running, log>>

\* A run starts with a new message or with messages that wait, or bare.
Start(S) ==
    /\ ~running /\ running' = TRUE
    /\ S \subseteq At("waiting") \/ (S \subseteq At("new") /\ \E m \in S : S = {m})
    /\ Move(S, "taken")
    /\ UNCHANGED log

\* A run takes messages that wait, or one a hook of the run hands over.
Take(S) ==
    /\ running
    /\ S \subseteq At("waiting") \/ (S \subseteq At("new") /\ \E m \in S : S = {m})
    /\ Move(S, "taken")
    /\ UNCHANGED <<running, log>>

\* A run says a message it has taken.
Say(m) ==
    /\ running /\ place[m] = "taken"
    /\ Move({m}, "said")
    /\ log' = Append(log, m)
    /\ UNCHANGED running

\* The host removes messages that wait.
Remove(S) ==
    /\ S \subseteq At("waiting")
    /\ Move(S, "dropped")
    /\ UNCHANGED <<running, log>>

\* A failing run loses what it has taken and not said.
Lose ==
    /\ running
    /\ Move(At("taken"), "dropped")
    /\ UNCHANGED <<running, log>>

End ==
    /\ running /\ running' = FALSE
    /\ At("taken") = {}
    /\ UNCHANGED <<place, log>>

\* The host starts over, between runs only.
Reset ==
    /\ ~running
    /\ Move(At("waiting") \cup At("said"), "dropped")
    /\ log' = <<>>
    /\ UNCHANGED running

Next ==
    \/ \E m \in Msg : Queue(m) \/ Say(m)
    \/ \E S \in SUBSET Msg : Start(S) \/ Take(S) \/ Remove(S)
    \/ Lose \/ End \/ Reset

Spec == Init /\ [][Next]_vars
=============================================================================
