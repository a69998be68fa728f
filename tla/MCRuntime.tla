------------------------------ MODULE MCRuntime ------------------------------
(* A runtime with the health topic, a topic fed by three records in batches   *)
(* of two, and a topic that one client publishes or subscribes to.            *)
EXTENDS ServerRuntime, TLC

Scenario(bads, policy, operation, nUpsets, nFlushes) ==
  [bad |-> bads, commitPolicy |-> policy, operation |-> operation, upsets |-> nUpsets, flushes |-> nFlushes]
MCScenarios == {Scenario({}, "after-ingest", "subscribe", 0, 0), Scenario({1}, "after-ingest", "none", 0, 0),
                Scenario({2}, "after-ingest", "none", 0, 1), Scenario({3}, "after-ingest", "none", 0, 0),
                Scenario({}, "none", "publish", 1, 0)}
MCChdbStatuses == {"ready", "restarting"}
=============================================================================
