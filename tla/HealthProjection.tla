--------------------------- MODULE HealthProjection ---------------------------
(* What a worker and the runtime report of themselves: the status a worker    *)
(* derives from its marks, its backend and its queues                         *)
(* (worker/worker-health-projection.ts), what becomes of it per topic, and    *)
(* the rows of the health topic (server/runtime-health-projection.ts).  Of    *)
(* the counters one that is summed, subscribers, and one whose maximum is     *)
(* taken, the Kafka offset, stand for the others of their kind.               *)
EXTENDS Integers, FiniteSets, FiniteSetsExt

HealthTopic == "__view_server_health"

(* The marks a worker sets: degraded never replaces stopping, and only what   *)
(* was degraded becomes ready again.                                          *)
MarkDegraded(mark) == IF mark = "stopping" THEN mark ELSE "degraded"
MarkReadyIfDegraded(mark) == IF mark = "degraded" THEN "ready" ELSE mark

(* statusForPressure: a degraded backend hides every mark, stopping too. *)
WorkerStatus(worker) ==
  IF worker.chdb \in {"degraded", "restarting"} THEN "degraded"
  ELSE IF worker.mark = "ready" /\ worker.pressure THEN "degraded"
  ELSE worker.mark

WorkerMetrics(worker) ==
  [status |-> WorkerStatus(worker), chdb |-> worker.chdb, subscribers |-> Cardinality(worker.subscribers)]

(* Closing asked for last, after what the worker says. *)
ProjectTopicHealthLate(closing, sourceFailed, offset, metrics) ==
  [status |-> IF metrics.status # "ready" THEN metrics.status
              ELSE IF closing THEN "stopping" ELSE IF sourceFailed THEN "degraded" ELSE "ready",
   chdb |-> metrics.chdb, subscribers |-> metrics.subscribers, offset |-> offset]

ProjectTopicHealth(closing, sourceFailed, offset, metrics) ==
  [status |-> IF closing THEN "stopping" ELSE IF sourceFailed THEN "degraded" ELSE metrics.status,
   chdb |-> metrics.chdb, subscribers |-> metrics.subscribers, offset |-> offset]

(* projectRuntimeHealth: the health topic counts for ok, and for nothing else. *)
RuntimeHealth(closing, topics) ==
  [ok |-> ~closing /\ \A t \in DOMAIN topics : topics[t].status = "ready", topics |-> topics]

SumTopicMetric(topics, metric) == MapThenSumSet(LAMBDA t : topics[t][metric], DOMAIN topics)
MaxTopicMetric(topics, metric) == Max({0} \cup {topics[t][metric] : t \in DOMAIN topics})

AggregateChdbStatus(topics) ==
  LET statuses == {topics[t].chdb : t \in DOMAIN topics}
  IN CASE "degraded" \in statuses -> "degraded"
       [] "degraded" \notin statuses /\ "restarting" \in statuses -> "restarting"
       [] statuses = {"stopped"} -> "stopped"
       [] OTHER -> "ready"

HealthRows(health) ==
  LET topics == [t \in DOMAIN health.topics \ {HealthTopic} |-> health.topics[t]]
      server == [status |-> IF \E t \in DOMAIN topics : topics[t].status = "stopping" THEN "stopping"
                            ELSE IF health.ok THEN "ready" ELSE "degraded",
                 chdb |-> AggregateChdbStatus(topics),
                 subscribers |-> SumTopicMetric(topics, "subscribers"),
                 offset |-> MaxTopicMetric(topics, "offset")]
  IN [r \in DOMAIN topics \cup {"server"} |-> IF r = "server" THEN server ELSE topics[r]]
=============================================================================
