----------------------------- MODULE KafkaSource -----------------------------
(* A Kafka source of a topic: the consumer that gathers the records of its    *)
(* stream into batches (kafka/platformatic-consumer.ts), the ingest of a      *)
(* batch (kafka/ingest.ts) and the fate its supervisor sees                   *)
(* (server/kafka-source-supervisor.ts).  A source is a value here; the        *)
(* runtime's actions take its steps.  Records are their places in the log the *)
(* stream delivers, and a bad record is one that does not decode, lacks its   *)
(* id, or that the worker rejects, such as a patch of a row it does not have. *)
EXTENDS Integers, Sequences, SequencesExt

CONSTANTS Records,     \* how many records the stream delivers
          BatchSize    \* records that make the consumer flush

ASSUME KafkaAssumption == Records \in Nat /\ BatchSize \in Nat \ {0}

(* pc: "reading" the stream, a "batch" to ingest, "dispatched" to the worker, *)
(* "committing", "closing" what is left of the consumer, or "over".           *)
NewSource == [pc |-> "reading", fetched |-> 0, pending |-> <<>>, batch |-> <<>>, commits |-> 0,
              last |-> FALSE, aborted |-> FALSE, fate |-> "running"]

Flushed(source, last) ==
  [source EXCEPT !.pc = IF source.pending = <<>> THEN IF last THEN "closing" ELSE "reading" ELSE "batch",
                 !.batch = source.pending, !.pending = <<>>, !.last = last]

(* A message of the stream, and the flush of a full batch; nothing flushes a  *)
(* smaller one but the end of the stream.                                     *)
Received(source) ==
  LET next == [source EXCEPT !.fetched = @ + 1, !.pending = Append(@, source.fetched + 1)]
  IN IF Len(next.pending) >= BatchSize THEN Flushed(next, FALSE) ELSE next

(* Decoding and applying stop at the first bad record. *)
Safe(batch, bad) ==
  LET stops == {i \in DOMAIN batch : batch[i] \in bad}
  IN IF stops = {} THEN batch ELSE SubSeq(batch, 1, Min(stops) - 1)

IsSafe(batch, bad) == ToSet(batch) \cap bad = {}

(* onBatch fails: the promise rejects through its finally block. *)
Failing(source) == [source EXCEPT !.pc = "closing"]

Dispatched(source) == [source EXCEPT !.pc = "dispatched"]
BatchDone(source) ==
  [source EXCEPT !.pc = IF source.last THEN "closing" ELSE "reading", !.batch = <<>>, !.commits = 0]

(* mutateBatch is done: a batch with a bad record fails although what comes   *)
(* before that record was applied; any other is committed, if it is to be.    *)
IngestedCommitsPrefix(source, bad, commitPolicy) ==
  IF commitPolicy = "after-ingest" THEN [source EXCEPT !.pc = "committing"] ELSE BatchDone(source)

Ingested(source, bad, commitPolicy) ==
  IF ~IsSafe(source.batch, bad) THEN Failing(source)
  ELSE IF commitPolicy = "after-ingest" THEN [source EXCEPT !.pc = "committing"]
  ELSE BatchDone(source)

(* kafkaBatchMetrics, of which the offset of the last record is kept. *)
BatchOffset(batch) == Last(batch)

(* commitMessages: one message after the other. *)
NextCommit(source) == source.batch[source.commits + 1]
Committed(source) ==
  IF source.commits + 1 = Len(source.batch) THEN BatchDone(source) ELSE [source EXCEPT !.commits = @ + 1]

(* The source's fiber ends with its promise, whichever way that ends, and     *)
(* the supervisor records a failure: "Source exited" is one.                  *)
Closed(source) ==
  [source EXCEPT !.pc = "over", !.fate = IF @ = "running" THEN "failed" ELSE @]

(* Interrupting the fiber aborts the promise and does not wait for it. *)
Interrupted(source) ==
  [source EXCEPT !.aborted = TRUE, !.fate = IF @ = "running" THEN "interrupted" ELSE @]
=============================================================================
