--------------------------- MODULE MCTaskScheduler --------------------------
(* TaskScheduler for TLC: where two or three tasks are created, and what may *)
(* happen to them.                                                           *)
EXTENDS TaskScheduler

Root == <<0, "conversation">>

Pairs == <<[places |-> <<Root, Root>>, ops |-> 2, kinds |-> Kinds],
           [places |-> <<Root, <<1, "child">> >>, ops |-> 2, kinds |-> Kinds],
           [places |-> <<Root, <<1, "background">> >>, ops |-> 2, kinds |-> Kinds]>>

Triples == <<[places |-> <<Root, <<1, "child">>, <<2, "conversation">> >>, ops |-> 1,
              kinds |-> {"abort", "stop"}],
             [places |-> <<Root, <<1, "child">>, <<1, "child">> >>, ops |-> 1,
              kinds |-> {"abort", "wait"}]>>

PairsAndTriples == Pairs \o Triples
=============================================================================
