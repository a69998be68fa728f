---------------------------- MODULE ServerRuntime ----------------------------
(* The runtime around the topic workers: its operations                       *)
(* (server/runtime-operations.ts), the health topic and the scheduler of its  *)
(* syncs (server/runtime.ts, runtime-health-sync-scheduler.ts), the Kafka     *)
(* source of one topic under its supervisor, and closing                      *)
(* (runtime-shutdown-controller.ts).  A fiber may be overtaken wherever the   *)
(* code waits: for a policy, a gate, a commit or a delay.  What a topic holds *)
(* is the sequence of records and the set of subscribers that reached it.     *)
EXTENDS HealthProjection, KafkaSource

CONSTANTS KafkaTopic, ClientTopic,
          ChdbStatuses,  \* what the backend of the Kafka topic may say
          Scenarios      \* which log and configuration, which operation of a client, how many
                         \* upsets (of a backend, a mark, a queue) and queries of the health topic

(* The reserved topic is not the user's, a row of the server is not a topic's *)
(* (theirs are "topic:" and the name), and a log is that of its source.       *)
ASSUME RuntimeAssumption ==
  /\ KafkaTopic # ClientTopic /\ {KafkaTopic, ClientTopic} \cap {HealthTopic, "server"} = {}
  /\ ChdbStatuses \subseteq {"ready", "degraded", "restarting", "stopped"}
  /\ Scenarios \subseteq [bad : SUBSET (1..Records), commitPolicy : {"after-ingest", "none"},
                          operation : {"publish", "subscribe", "none"}, upsets : Nat, flushes : Nat]

UserTopics == {KafkaTopic, ClientTopic}
Topics == UserTopics \cup {HealthTopic}
RowIds == <<"server", KafkaTopic, ClientTopic>>
Workers == <<KafkaTopic, ClientTopic, HealthTopic>>
(* loop: the scheduler's fiber; reader: a query of the health topic; closer:  *)
(* the runtime's close.                                                       *)
Syncers == {"loop", "reader", "closer"}

VARIABLES
  bad, commitPolicy,   \* the source's log and configuration
  source, applied, committed, offset,
  worker,      \* topic -> mark, chdb, pressure, subscribers
  op,          \* a client's publish or subscribe, and how far it is
  upsets, flushes,     \* how many are left
  closing, closer,
  sched,       \* the scheduler's three flags
  sync,        \* syncer -> the rows it has still to publish, the Kafka topic's status among them
  shown,       \* the status that the health topic's row of the Kafka topic has
  unserved,    \* a health sync was requested, and none that started since is complete
  hungUp,      \* a reader hung up in the middle of its flush
  overlapped   \* two syncs were under way together

sourceVars == <<bad, commitPolicy, source, applied, committed, offset>>
healthVars == <<sched, sync, shown, unserved, hungUp, overlapped>>
bounds == <<upsets, flushes>>
vars == <<sourceVars, worker, op, bounds, closing, closer, healthVars>>

NoSync == [left |-> <<>>, status |-> "ready", fresh |-> FALSE]
Syncing(s) == sync[s].left # <<>>

Failed == source.fate = "failed"
Topic(t) ==
  ProjectTopicHealth(closing, t = KafkaTopic /\ Failed, IF t = KafkaTopic THEN offset ELSE 0,
                     WorkerMetrics(worker[t]))
CollectHealth == RuntimeHealth(closing, [t \in Topics |-> Topic(t)])

(* Startup is over: the topics are verified, the health topic is synced once  *)
(* and the source has started.                                                *)
Init ==
  /\ \E s \in Scenarios :
       /\ bad = s.bad /\ commitPolicy = s.commitPolicy
       /\ op = [kind |-> s.operation, at |-> "none"]
       /\ upsets = s.upsets /\ flushes = s.flushes
  /\ source = NewSource /\ applied = <<>> /\ committed = {} /\ offset = 0
  /\ worker = [t \in Topics |-> [mark |-> "ready", chdb |-> "ready", pressure |-> FALSE, subscribers |-> {}]]
  /\ closing = FALSE /\ closer = "open"
  /\ sched = [scheduled |-> FALSE, pending |-> FALSE, closed |-> FALSE]
  /\ sync = [s \in Syncers |-> NoSync]
  /\ shown = "ready"
  /\ unserved = FALSE /\ hungUp = FALSE /\ overlapped = FALSE

(* ------------------------------ health syncs ----------------------------- *)
(* RuntimeHealthSyncScheduler.request: what every change ends with. *)
Request ==
  /\ unserved' = TRUE
  /\ sync' = [s \in Syncers |-> [sync[s] EXCEPT !.fresh = FALSE]]
  /\ sched' = IF sched.closed THEN sched ELSE [sched EXCEPT !.pending = TRUE, !.scheduled = TRUE]
  /\ UNCHANGED <<shown, hungUp, overlapped>>

(* syncHealthTopicNow: the metrics of every worker, then row after row. *)
BeginSync(s) ==
  /\ sync' = [sync EXCEPT ![s] = [left |-> RowIds, status |-> HealthRows(CollectHealth)[KafkaTopic].status, fresh |-> TRUE]]
  /\ overlapped' = (overlapped \/ \E other \in Syncers \ {s} : Syncing(other))

(* A loop that clears its flag when the sync is done. *)
PublishRowClearsLate(s) ==
  /\ Syncing(s)
  /\ LET rest == Tail(sync[s].left)
     IN /\ shown' = IF Head(sync[s].left) = KafkaTopic THEN sync[s].status ELSE shown
        /\ sync' = [sync EXCEPT ![s] = IF rest = <<>> THEN NoSync ELSE [@ EXCEPT !.left = rest]]
        /\ unserved' = (unserved /\ ~(rest = <<>> /\ sync[s].fresh))
        /\ sched' = [sched EXCEPT !.pending = @ /\ rest # <<>>]
  /\ UNCHANGED <<sourceVars, worker, op, bounds, closing, closer, hungUp, overlapped>>

PublishRow(s) ==
  /\ Syncing(s)
  /\ LET id == Head(sync[s].left)
         rest == Tail(sync[s].left)
     IN /\ shown' = IF id = KafkaTopic THEN sync[s].status ELSE shown
        /\ sync' = [sync EXCEPT ![s] = IF rest = <<>> THEN NoSync ELSE [@ EXCEPT !.left = rest]]
        /\ unserved' = (unserved /\ ~(rest = <<>> /\ sync[s].fresh))
  /\ UNCHANGED <<sourceVars, worker, op, bounds, closing, closer, sched, hungUp, overlapped>>

(* scheduledFlush: after its delay, again and again while something pends. *)
LoopSync ==
  /\ sched.scheduled /\ ~Syncing("loop") /\ sched.pending /\ ~sched.closed
  /\ BeginSync("loop")
  /\ sched' = [sched EXCEPT !.pending = FALSE]
  /\ UNCHANGED <<sourceVars, worker, op, bounds, closing, closer, shown, unserved, hungUp>>

LoopEnds ==
  /\ sched.scheduled /\ ~Syncing("loop") /\ (~sched.pending \/ sched.closed)
  /\ sched' = [sched EXCEPT !.scheduled = FALSE]
  /\ UNCHANGED <<sourceVars, worker, op, bounds, closing, closer, sync, shown, unserved, hungUp, overlapped>>

(* A query of the health topic flushes first, and may be interrupted there. *)
ReaderFlush ==
  /\ flushes > 0 /\ flushes' = flushes - 1
  /\ ~closing /\ ~sched.closed /\ ~Syncing("reader")
  /\ BeginSync("reader")
  /\ sched' = [sched EXCEPT !.pending = FALSE]
  /\ UNCHANGED <<sourceVars, worker, op, upsets, closing, closer, shown, unserved, hungUp>>

ReaderHangsUp ==
  /\ Syncing("reader")
  /\ sync' = [sync EXCEPT !["reader"] = NoSync]
  /\ hungUp' = TRUE
  /\ UNCHANGED <<sourceVars, worker, op, bounds, closing, closer, sched, shown, unserved, overlapped>>

(* ------------------------------ Kafka source ----------------------------- *)
Receive ==
  /\ source.pc = "reading" /\ ~source.aborted /\ source.fetched < Records
  /\ source' = Received(source)
  /\ UNCHANGED <<bad, commitPolicy, applied, committed, offset, worker, op, bounds, closing, closer, healthVars>>

(* The stream ends, by itself or because it was aborted, or breaks. *)
StreamEnds ==
  /\ source.pc = "reading"
  /\ \/ source' = Flushed(source, TRUE)
     \/ ~source.aborted /\ source' = Failing(source)
  /\ UNCHANGED <<bad, commitPolicy, applied, committed, offset, worker, op, bounds, closing, closer, healthVars>>

(* ingestKafkaBatch up to the runtime's check: nothing to apply fails at      *)
(* once, and a runtime that is closing refuses the batch.                     *)
DispatchBatch ==
  /\ source.pc = "batch"
  /\ source' = IF Safe(source.batch, bad) = <<>> \/ closing THEN Failing(source) ELSE Dispatched(source)
  /\ UNCHANGED <<bad, commitPolicy, applied, committed, offset, worker, op, bounds, closing, closer, healthVars>>

(* The worker applies the batch, or what comes before its bad record, which   *)
(* requests no sync; a good one requests a sync and records its metrics.      *)
ApplyBatch ==
  /\ source.pc = "dispatched"
  /\ applied' = applied \o Safe(source.batch, bad)
  /\ source' = Ingested(source, bad, commitPolicy)
  /\ IF IsSafe(source.batch, bad)
     THEN offset' = BatchOffset(source.batch) /\ Request
     ELSE UNCHANGED <<offset, healthVars>>
  /\ UNCHANGED <<bad, commitPolicy, committed, worker, op, bounds, closing, closer>>

CommitRecord ==
  /\ source.pc = "committing"
  /\ \/ /\ committed' = committed \cup {NextCommit(source)}
        /\ source' = Committed(source)
     \/ source' = Failing(source) /\ UNCHANGED committed
  /\ UNCHANGED <<bad, commitPolicy, applied, offset, worker, op, bounds, closing, closer, healthVars>>

(* A failure that is recorded without a word to the health topic. *)
SourceOverSilent ==
  /\ source.pc = "closing"
  /\ source' = Closed(source)
  /\ UNCHANGED <<bad, commitPolicy, applied, committed, offset, worker, op, bounds, closing, closer, healthVars>>

(* monitorSource, recordSourceFailure. *)
SourceOver ==
  /\ source.pc = "closing"
  /\ source' = Closed(source)
  /\ IF source.fate = "running" THEN Request ELSE UNCHANGED healthVars
  /\ UNCHANGED <<bad, commitPolicy, applied, committed, offset, worker, op, bounds, closing, closer>>

(* ----------------------- workers and their backends ---------------------- *)
BackendChanges ==
  /\ upsets > 0 /\ upsets' = upsets - 1
  /\ \E status \in ChdbStatuses : worker' = [worker EXCEPT ![KafkaTopic].chdb = status]
  /\ UNCHANGED <<sourceVars, op, flushes, closing, closer, healthVars>>

(* The forked applyBatch of a mutation ends. *)
BatchPersisted ==
  /\ upsets > 0 /\ upsets' = upsets - 1
  /\ applied # <<>>
  /\ \/ worker' = [worker EXCEPT ![KafkaTopic].mark = MarkReadyIfDegraded(@)]
     \/ worker' = [worker EXCEPT ![KafkaTopic].mark = MarkDegraded(@)]
  /\ UNCHANGED <<sourceVars, op, flushes, closing, closer, healthVars>>

Pressure ==
  /\ upsets > 0 /\ upsets' = upsets - 1
  /\ worker' = [worker EXCEPT ![HealthTopic].pressure = ~@]
  /\ UNCHANGED <<sourceVars, op, flushes, closing, closer, healthVars>>

(* ---------------------------- client operations -------------------------- *)
(* ensureOpen comes first; the policy, which may wait, before the worker. *)
Check ==
  /\ op.at = "none" /\ op.kind # "none"
  /\ op' = [op EXCEPT !.at = IF closing THEN "refused" ELSE "checked"]
  /\ UNCHANGED <<sourceVars, worker, bounds, closing, closer, healthVars>>

Publish ==
  /\ op = [kind |-> "publish", at |-> "checked"]
  /\ op' = [op EXCEPT !.at = "done"]
  /\ Request
  /\ UNCHANGED <<sourceVars, worker, bounds, closing, closer>>

Subscribe ==
  /\ op = [kind |-> "subscribe", at |-> "checked"]
  /\ op' = [op EXCEPT !.at = "live"]
  /\ worker' = [worker EXCEPT ![ClientTopic].subscribers = {op.kind}]
  /\ Request
  /\ UNCHANGED <<sourceVars, bounds, closing, closer>>

(* Unsubscribed, hung up, or failed by the worker's shutdown. *)
StreamDone ==
  /\ op.at = "live"
  /\ op' = [op EXCEPT !.at = "done"]
  /\ worker' = [worker EXCEPT ![ClientTopic].subscribers = {}]
  /\ Request
  /\ UNCHANGED <<sourceVars, bounds, closing, closer>>

(* -------------------------------- closing -------------------------------- *)
Close ==
  /\ closer = "open"
  /\ closing' = TRUE /\ closer' = "flushing"
  /\ BeginSync("closer")
  /\ sched' = [sched EXCEPT !.pending = FALSE]
  /\ UNCHANGED <<sourceVars, worker, op, bounds, shown, unserved, hungUp>>

(* A second close returns from the controller at once and closes the scheduler. *)
CloseAgain ==
  /\ closing
  /\ sched' = [sched EXCEPT !.closed = TRUE, !.pending = FALSE]
  /\ UNCHANGED <<sourceVars, worker, op, bounds, closing, closer, sync, shown, unserved, hungUp, overlapped>>

(* A shutdown that waits for the promise of its source. *)
StopSourcesWaits ==
  /\ closer = "flushing" /\ ~Syncing("closer") /\ source.pc = "over"
  /\ closer' = "stopping"
  /\ source' = Interrupted(source)
  /\ UNCHANGED <<bad, commitPolicy, applied, committed, offset, worker, op, bounds, closing, healthVars>>

StopSources ==
  /\ closer = "flushing" /\ ~Syncing("closer")
  /\ closer' = "stopping"
  /\ source' = Interrupted(source)
  /\ UNCHANGED <<bad, commitPolicy, applied, committed, offset, worker, op, bounds, closing, healthVars>>

(* Worker after worker marks itself and fails its subscribers' queues. *)
Running == SelectSeq(Workers, LAMBDA t : worker[t].mark # "stopping")
StopWorker(t) ==
  /\ closer = "stopping" /\ Running # <<>> /\ t = Head(Running)
  /\ worker' = [worker EXCEPT ![t].mark = "stopping", ![t].subscribers = {}]
  /\ op' = IF worker[t].subscribers = {} THEN op ELSE [op EXCEPT !.at = "done"]
  /\ IF worker[t].subscribers = {} THEN UNCHANGED healthVars ELSE Request
  /\ UNCHANGED <<sourceVars, bounds, closing, closer>>

CloseDone ==
  /\ closer = "stopping" /\ Running = <<>>
  /\ closer' = "done"
  /\ sched' = [sched EXCEPT !.closed = TRUE, !.pending = FALSE]
  /\ UNCHANGED <<sourceVars, worker, op, bounds, closing, sync, shown, unserved, hungUp, overlapped>>

Loop == LoopSync \/ LoopEnds \/ PublishRow("loop")
Closing == PublishRow("closer") \/ StopSources \/ (\E t \in Topics : StopWorker(t)) \/ CloseDone
Source == Receive \/ StreamEnds \/ DispatchBatch \/ ApplyBatch \/ CommitRecord \/ SourceOver
Next ==
  \/ Loop \/ ReaderFlush \/ PublishRow("reader") \/ ReaderHangsUp
  \/ Source
  \/ BackendChanges \/ BatchPersisted \/ Pressure
  \/ Check \/ Publish \/ Subscribe \/ StreamDone
  \/ Close \/ CloseAgain \/ Closing

(* The scheduler's fiber, a flush and the closer run on; sources and brokers  *)
(* owe nothing.                                                               *)
Fairness ==
  /\ WF_vars(Loop) /\ WF_vars(PublishRow("reader"))
  /\ WF_vars(Closing)
Spec == Init /\ [][Next]_vars /\ Fairness

(* ------------------------------- properties ------------------------------ *)
TypeOK ==
  /\ bad \subseteq 1..Records /\ commitPolicy \in {"after-ingest", "none"}
  /\ source.pc \in {"reading", "batch", "dispatched", "committing", "closing", "over"}
  /\ source.fate \in {"running", "failed", "interrupted"}
  /\ source.fetched \in 0..Records /\ Len(source.pending) < BatchSize /\ Len(source.batch) <= BatchSize
  /\ ToSet(applied) \cup committed \subseteq 1..source.fetched /\ offset \in 0..source.fetched
  /\ \A t \in Topics : worker[t].mark \in {"ready", "degraded", "stopping"}
  /\ closer \in {"open", "flushing", "stopping", "done"} /\ closing = (closer # "open")
  /\ sched \in [scheduled : BOOLEAN, pending : BOOLEAN, closed : BOOLEAN]
  /\ shown \in {"ready", "degraded", "stopping"}

(* The worker has every record of the log up to some place, in order and      *)
(* once, and a bad one among them is where it ends: no record is dropped,     *)
(* overtaken or applied again, whatever the batches and where ingest failed.  *)
AppliedIsLogPrefix ==
  /\ \A i \in DOMAIN applied : applied[i] = i /\ i \notin bad

(* What Kafka is told is done, or health reports as the last offset, is in    *)
(* the worker, and with it the whole of its batch: a batch that failed half   *)
(* way is not committed, not even the records before the bad one.             *)
AcknowledgedIsApplied ==
  /\ committed \cup (1..offset) \subseteq ToSet(applied)
  /\ ToSet(source.batch) \cap committed # {} => ToSet(source.batch) \subseteq ToSet(applied)

(* The worker follows the log of its topic, and acknowledges what it followed. *)
LogFollowed == TypeOK /\ AppliedIsLogPrefix /\ AcknowledgedIsApplied

(* No request for a health sync is forgotten: until a sync that began after   *)
(* it is complete, the loop has it to do or one is under way.  The exceptions *)
(* are a reader that hangs up in its flush, which cleared the flag for it,    *)
(* and a scheduler that is closed.                                            *)
NoRequestForgotten ==
  unserved => \/ sched.scheduled /\ sched.pending
              \/ \E s \in Syncers : Syncing(s) /\ sync[s].fresh
              \/ hungUp \/ sched.closed

(* Health is never better than what it sums up: no row calls ready what fails *)
(* or closes, a closing runtime shows nothing but stopping although degraded  *)
(* hides it in the worker, and readiness is refused whenever a row is.  A     *)
(* "stopped" backend is none: a topic without one says so too.                *)
HealthTellsTheWorst ==
  LET health == CollectHealth
      rows == HealthRows(health)
      topicRows == {rows[t] : t \in UserTopics}
  IN /\ closing => \A r \in DOMAIN rows : rows[r].status = "stopping"
     /\ rows["server"].status = "ready" => health.ok /\ \A row \in topicRows : row.status = "ready"
     /\ health.ok => rows["server"].status = "ready"
     /\ Failed => ~health.ok /\ rows[KafkaTopic].status # "ready"
     /\ \A row \in topicRows :
          row.chdb \in {"degraded", "restarting"} => rows["server"].chdb # "ready" /\ ~health.ok

(* The failure of a source is shown by the health topic, without anyone       *)
(* asking for it; an overlapping sync with older rows may undo that.          *)
FailureIsShown ==
  Failed ~> (shown # "ready" \/ hungUp \/ overlapped \/ sched.closed)

(* Closing ends although the source is stuck in its stream, its ingest or its *)
(* commits (fault-tolerance.md).                                              *)
CloseEnds == closing ~> closer = "done"

(* fault-tolerance.md: health after shutdown shows no subscribers. *)
NoSubscriberLeft == closer = "done" => HealthRows(CollectHealth)["server"].subscribers = 0
=============================================================================
