------------------------------ MODULE MCTransport ------------------------------
(***************************************************************************)
(* Two connections.  What is asked: a client with two calls (batches of more *)
(* than one response), two clients with a call each (nothing meant for one   *)
(* reaches the other), a client that sends garbage and gives up a call whose *)
(* responses may not be encodable, and a worker thread that is asked for     *)
(* metrics and may die.                                                      *)
(***************************************************************************)
EXTENDS WebsocketTransport, TLC

MCClient == {0, 1}
MCAllCalls == {"a", "b", "c"}

Scenario(first, second) ==
  [calls |-> 0 :> first @@ 1 :> second, chunks |-> 1, bad |-> {}, rude |-> FALSE, metrics |-> 0, crash |-> FALSE]

TwoCalls == Scenario({"a", "b"}, {})
TwoClients == Scenario({"a"}, {"c"})
Rude == {[Scenario({"a"}, {}) EXCEPT !.rude = TRUE, !.chunks = 2, !.bad = bad] : bad \in {{}, {"a"}}}
Crash == [Scenario({"a"}, {}) EXCEPT !.metrics = 1, !.crash = TRUE]

MCDemands == {TwoCalls, TwoClients, Crash} \cup Rude
==============================================================================
