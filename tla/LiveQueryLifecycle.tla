------------------------- MODULE LiveQueryLifecycle -------------------------
(* The state machine a live query shows to its reader: what the store holds   *)
(* (rows, status, connection) and the AsyncResult derived from it             *)
(* (client/live-query-lifecycle.ts), and the store that applies the events of *)
(* a subscription to it (client/live-query-store.ts).  Rows are abstract, and *)
(* the times of the last connection and disconnection are left out.           *)
EXTENDS Integers

NoVersion == -1

(* AsyncResult, as far as a reader tells its cases apart. *)
Initial == [kind |-> "initial", waiting |-> TRUE]
Success(waiting) == [kind |-> "success", waiting |-> waiting]
Failure(hasPrevious) == [kind |-> "failure", waiting |-> hasPrevious]

WaitingResult(life) == IF life.hasValue THEN Success(TRUE) ELSE Initial

StatusFromLifecycle(life, status) ==
  IF status = "live" /\ life.connected THEN "live"
  ELSE IF life.attempt > 1 THEN "reconnecting"
  ELSE IF life.hasValue THEN "stale"
  ELSE "connecting"

(* The four ways to leave the connection, and the three to be on it. *)
TransitionLifecycleStatus(life, status) ==
  LET next == [life EXCEPT !.status = StatusFromLifecycle(life, status),
                           !.connected = @ /\ status # "closed"]
  IN [life |-> next, result |-> IF status = "live" THEN Success(FALSE) ELSE WaitingResult(next)]

TransitionError(life) ==
  LET next == [life EXCEPT !.status = IF life.attempt > 1 THEN "reconnecting" ELSE "stale",
                           !.connected = FALSE]
  IN [life |-> next, result |-> Failure(next.hasValue)]

TransitionBeginAttempt(life, attempt) ==
  LET next == [life EXCEPT !.status = IF life.hasValue THEN "stale" ELSE "connecting",
                           !.connected = FALSE, !.attempt = attempt]
  IN [life |-> next, result |-> WaitingResult(next)]

TransitionRetryAttempt(life, attempt) ==
  LET next == [life EXCEPT !.status = IF life.hasValue THEN "reconnecting" ELSE "connecting",
                           !.connected = FALSE, !.attempt = attempt]
  IN [life |-> next, result |-> WaitingResult(next)]

TransitionSnapshot(life, rows) ==
  [life |-> [life EXCEPT !.hasValue = TRUE, !.rows = rows, !.status = "live", !.connected = TRUE],
   result |-> Success(FALSE)]

TransitionStatusEvent(life, status) ==
  LET next == [life EXCEPT !.hasValue = TRUE, !.status = status, !.connected = TRUE]
  IN [life |-> next, result |-> WaitingResult(next)]

TransitionDelta(life, rows) == TransitionSnapshot(life, rows)

(* LiveQueryStore: the lifecycle, what it shows, and the version of its rows. *)
NewStore(hasInitialData, rows) ==
  LET life == [hasValue |-> hasInitialData, rows |-> rows, connected |-> FALSE, attempt |-> 0,
               status |-> IF hasInitialData THEN "stale" ELSE "connecting"]
  IN [life |-> life, result |-> WaitingResult(life), version |-> NoVersion]

Applied(store, transition) ==
  [store EXCEPT !.life = transition.life, !.result = transition.result]

SetStatus(store, status) == Applied(store, TransitionLifecycleStatus(store.life, status))
SetError(store) == Applied(store, TransitionError(store.life))
BeginAttempt(store, attempt) == Applied(store, TransitionBeginAttempt(store.life, attempt))
RetryAttempt(store, attempt) == Applied(store, TransitionRetryAttempt(store.life, attempt))

(* apply throws on a delta that does not start where the store is. *)
VersionGap(store, event) ==
  /\ event.type = "delta"
  /\ store.version # NoVersion
  /\ store.version # event.from

(* A snapshot that leaves the version of the rows it replaces. *)
ApplyEventKeepsVersion(store, event) ==
  CASE event.type = "status" -> Applied(store, TransitionStatusEvent(store.life, "stale"))
    [] event.type = "snapshot" ->
         [Applied(store, TransitionSnapshot(store.life, event.rows)) EXCEPT
            !.version = IF @ = NoVersion THEN event.to ELSE @]
    [] event.type = "delta" ->
         [Applied(store, TransitionDelta(store.life, event.rows)) EXCEPT !.version = event.to]

ApplyEvent(store, event) ==
  CASE event.type = "status" -> Applied(store, TransitionStatusEvent(store.life, "stale"))
    [] event.type = "snapshot" ->
         [Applied(store, TransitionSnapshot(store.life, event.rows)) EXCEPT !.version = event.to]
    [] event.type = "delta" ->
         [Applied(store, TransitionDelta(store.life, event.rows)) EXCEPT !.version = event.to]
=============================================================================
