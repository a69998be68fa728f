------------------------- MODULE ClientSubscription -------------------------
(* One live query of the generated client against a server                    *)
(* (client/create-client.ts subscribe and createStore, the hook of            *)
(* packages/react/src/index.ts): attempts under fresh request ids, the loop   *)
(* that takes their events, retries and resubscriptions, closing, unmounting  *)
(* and mounting again, over connections that are lost at either end.  Every   *)
(* RPC of the node client opens a connection of its own, so requests overtake *)
(* one another.  The server is the part of runtime and topic worker that      *)
(* answers: it registers a request id, sends a snapshot and then what         *)
(* changes, and ends a stream it unsubscribes, cannot feed or shuts down.     *)
(* Rows are the number of the last mutation that changed what the query sees. *)
EXTENDS LiveQueryLifecycle, Sequences, SequencesExt, FiniteSets

CONSTANTS MaxRequests,   \* request ids the model hands out
          MaxVersion,    \* mutations of the topic
          PipeLimit,     \* events that wait between server and loop: queue depths, sockets
          MaxLosses      \* connections lost

ASSUME ClientAssumption ==
  /\ MaxRequests \in Nat \ {0} /\ MaxVersion \in Nat
  /\ PipeLimit \in Nat \ {0} /\ MaxLosses \in Nat

Requests == 1..MaxRequests
Terminals == {"TransportError", "BackpressureExceeded", "ServerShutdown"}

VARIABLES
  history,   \* the rows the query sees at each version of the topic so far
  open,      \* the runtime accepts subscriptions
  server,    \* request id -> "none", "live" or "dirty": what the worker has registered
  asked,     \* Subscribe and Unsubscribe requests under way
  pipe,      \* request id -> events on the way to the loop, the last perhaps terminal
  gone,      \* request ids whose client end hung up or was lost
  losses,
  owner,     \* "hook" or "store": who mounted the subscription
  loop,      \* pc, request and attempt number of the subscription's loop
  closed,    \* the flag that close sets
  closer,    \* "none", "unsubscribing" or "done"
  store

vars == <<history, open, server, asked, pipe, gone, losses, owner, loop, closed, closer, store>>
serverVars == <<history, open, server, gone, losses>>

Version == Len(history) - 1
Ask(type, r) == [type |-> type, request |-> r]
Terminal(tag) == [type |-> tag]
Snapshot == [type |-> "snapshot", rows |-> history[Version + 1], to |-> Version]
Delta(rows) == [type |-> "delta", rows |-> rows, from |-> Version, to |-> Version + 1]
Status == [type |-> "status", rows |-> 0, to |-> Version]

Init ==
  /\ history = <<0>>
  /\ open = TRUE
  /\ server = [r \in Requests |-> "none"]
  /\ asked = {}
  /\ pipe = [r \in Requests |-> <<>>]
  /\ gone = {}
  /\ losses = 0
  /\ owner \in {"hook", "store"}
  /\ loop = [pc |-> "idle", request |-> 0, attempt |-> 0]
  /\ closed = FALSE
  /\ closer = "none"
  /\ \E hasInitialData \in BOOLEAN : store = NewStore(hasInitialData, 0)

(* ------------------------------- the client ------------------------------ *)
(* The hook's effect or createStore: the hook keeps its store between mounts. *)
Mount ==
  /\ loop.pc = "idle" /\ loop.request < MaxRequests
  /\ loop' = [loop EXCEPT !.pc = "attempting", !.attempt = 0]
  /\ closed' = FALSE /\ closer' = "none"
  /\ store' = SetStatus(IF owner = "store" THEN NewStore(FALSE, 0) ELSE store, "syncing")
  /\ UNCHANGED <<serverVars, asked, pipe, owner>>

(* A hook under a provider that has no client: still connecting, or failed. *)
MountUnconnected ==
  /\ owner = "hook" /\ loop.pc = "idle"
  /\ loop' = [loop EXCEPT !.pc = "unconnected"]
  /\ \/ store' = SetStatus(store, "connecting")
     \/ store' = SetError(store)
  /\ UNCHANGED <<serverVars, asked, pipe, owner, closed, closer>>

(* An attempt under the request id of the one before. *)
AttemptSameRequest ==
  /\ loop.pc = "attempting" /\ ~closed /\ loop.request < MaxRequests
  /\ LET r == IF loop.request = 0 THEN 1 ELSE loop.request
     IN /\ loop' = [pc |-> "taking", request |-> r, attempt |-> IF loop.attempt < MaxRequests THEN loop.attempt + 1 ELSE loop.attempt]
        /\ asked' = asked \cup {Ask("Subscribe", r)}
  /\ store' = BeginAttempt(store, loop.attempt + 1)
  /\ UNCHANGED <<serverVars, pipe, owner, closed, closer>>

(* runAttempt: a fresh request id, told to the store before it is asked for. *)
Attempt ==
  /\ loop.pc = "attempting" /\ ~closed /\ loop.request < MaxRequests
  /\ loop' = [pc |-> "taking", request |-> loop.request + 1, attempt |-> loop.attempt + 1]
  /\ store' = BeginAttempt(store, loop.attempt + 1)
  /\ asked' = asked \cup {Ask("Subscribe", loop.request + 1)}
  /\ UNCHANGED <<serverVars, pipe, owner, closed, closer>>

StopAttempting ==
  /\ loop.pc = "attempting" /\ closed
  /\ loop' = [loop EXCEPT !.pc = "ended"]
  /\ UNCHANGED <<serverVars, asked, pipe, owner, closed, closer, store>>

Current == loop.request
Head1 == Head(pipe[Current])

(* An event of the current attempt reaches the store, or kills the loop:      *)
(* versionGap is thrown inside Effect.sync, and nothing catches a defect.     *)
TakeEvent ==
  /\ loop.pc = "taking" /\ pipe[Current] # <<>> /\ Head1.type \notin Terminals
  /\ pipe' = [pipe EXCEPT ![Current] = Tail(@)]
  /\ IF VersionGap(store, Head1)
     THEN /\ loop' = [loop EXCEPT !.pc = "died"]
          /\ UNCHANGED store
     ELSE /\ loop' = [loop EXCEPT !.pc = IF closed THEN "ended" ELSE "taking"]
          /\ store' = ApplyEvent(store, Head1)
  /\ UNCHANGED <<serverVars, asked, owner, closed, closer>>

RetryAction(tag) ==
  CASE tag = "TransportError" -> "retry"
    [] tag = "BackpressureExceeded" -> "resubscribe"
    [] OTHER -> "fail"

(* retrySubscription, on the error that ended the stream. *)
TakeError ==
  /\ loop.pc = "taking" /\ pipe[Current] # <<>> /\ Head1.type \in Terminals
  /\ pipe' = [pipe EXCEPT ![Current] = Tail(@)]
  /\ LET action == RetryAction(Head1.type)
         retries == ~closed /\ action # "fail"
     IN /\ loop' = [loop EXCEPT !.pc = IF closed THEN "ended"
                                       ELSE IF action = "fail" THEN "failed"
                                       ELSE IF action = "resubscribe" THEN "unsubscribing"
                                       ELSE "sleeping"]
        /\ store' = IF retries THEN RetryAttempt(store, loop.attempt) ELSE store
        /\ asked' = IF retries /\ action = "resubscribe"
                    THEN asked \cup {Ask("Unsubscribe", Current)} ELSE asked
  /\ UNCHANGED <<serverVars, owner, closed, closer>>

Answered == Ask("Unsubscribe", Current) \notin asked

Unsubscribed ==
  /\ loop.pc = "unsubscribing" /\ Answered
  /\ loop' = [loop EXCEPT !.pc = "sleeping"]
  /\ UNCHANGED <<serverVars, asked, pipe, owner, closed, closer, store>>

Wake ==
  /\ loop.pc = "sleeping"
  /\ loop' = [loop EXCEPT !.pc = "attempting"]
  /\ UNCHANGED <<serverVars, asked, pipe, owner, closed, closer, store>>

(* ActiveSubscription.close, createStore's finalizer. *)
Close ==
  /\ owner = "store" /\ loop.pc # "idle" /\ closer = "none"
  /\ closed' = TRUE /\ closer' = "unsubscribing"
  /\ asked' = IF Current = 0 THEN asked ELSE asked \cup {Ask("Unsubscribe", Current)}
  /\ UNCHANGED <<serverVars, pipe, owner, loop, store>>

CloseAnswered ==
  /\ closer = "unsubscribing" /\ Answered
  /\ closer' = "done"
  /\ loop' = [loop EXCEPT !.pc = "ended"]
  /\ UNCHANGED <<serverVars, asked, pipe, owner, closed, store>>

(* A scope that interrupts the loop and leaves the streams it made. *)
CloseScopeKeepsStreams ==
  /\ loop.pc # "idle"
  /\ owner = "store" => closer = "done"
  /\ loop' = [loop EXCEPT !.pc = "idle"]
  /\ store' = IF owner = "hook" THEN SetStatus(store, "closed") ELSE store
  /\ pipe' = [r \in Requests |-> <<>>]
  /\ UNCHANGED <<serverVars, asked, owner, closed, closer>>

(* The scope closes: it interrupts the loop and every stream of the           *)
(* subscription, which hangs up their requests.  The hook says so first.      *)
CloseScope ==
  /\ loop.pc # "idle"
  /\ owner = "store" => closer = "done"
  /\ loop' = [loop EXCEPT !.pc = "idle"]
  /\ store' = IF owner = "hook" THEN SetStatus(store, "closed") ELSE store
  /\ gone' = gone \cup 1..Current
  /\ pipe' = [r \in Requests |-> <<>>]
  /\ UNCHANGED <<history, open, server, asked, losses, owner, closed, closer>>

(* ------------------------------- the server ------------------------------ *)
(* What the server writes to a client end that is gone is dropped. *)
Sent(r, event) == IF r \in gone THEN pipe[r] ELSE Append(pipe[r], event)

(* Stream.unwrap(operations.subscribe): refused while closing, or registered. *)
HandleSubscribe(r) ==
  /\ Ask("Subscribe", r) \in asked
  /\ asked' = asked \ {Ask("Subscribe", r)}
  /\ IF open
     THEN /\ server' = [server EXCEPT ![r] = "live"]
          /\ pipe' = [pipe EXCEPT ![r] = Sent(r, Snapshot)]
     ELSE /\ pipe' = [pipe EXCEPT ![r] = Sent(r, Terminal("ServerShutdown"))]
          /\ UNCHANGED server
  /\ UNCHANGED <<history, open, gone, losses, owner, loop, closed, closer, store>>

(* An unsubscribe that forgets to end the stream it removes. *)
HandleUnsubscribeSilent(r) ==
  /\ Ask("Unsubscribe", r) \in asked
  /\ asked' = asked \ {Ask("Unsubscribe", r)}
  /\ server' = [server EXCEPT ![r] = "none"]
  /\ UNCHANGED <<history, open, pipe, gone, losses, owner, loop, closed, closer, store>>

HandleUnsubscribe(r) ==
  /\ Ask("Unsubscribe", r) \in asked
  /\ asked' = asked \ {Ask("Unsubscribe", r)}
  /\ server' = [server EXCEPT ![r] = "none"]
  /\ pipe' = IF server[r] = "none" THEN pipe
             ELSE [pipe EXCEPT ![r] = Sent(r, Terminal("TransportError"))]
  /\ UNCHANGED <<history, open, gone, losses, owner, loop, closed, closer, store>>

Full(r) == r \notin gone /\ Len(pipe[r]) >= PipeLimit

Fed == {r \in Requests : server[r] = "live"}

(* A mutation; one that leaves the query's rows alone sends nothing, and a    *)
(* subscription that waits for a refresh gets it later.                       *)
Mutate(visible) ==
  LET rows == history[Version + 1] + 1
  IN /\ Version < MaxVersion /\ open
     /\ history' = Append(history, IF visible THEN rows ELSE history[Version + 1])
     /\ server' = [r \in Requests |-> IF visible /\ r \in Fed /\ Full(r) THEN "none" ELSE server[r]]
     /\ pipe' = [r \in Requests |->
                   IF ~visible \/ r \notin Fed THEN pipe[r]
                   ELSE Sent(r, IF Full(r) THEN Terminal("BackpressureExceeded") ELSE Delta(rows))]
     /\ UNCHANGED <<open, asked, gone, losses, owner, loop, closed, closer, store>>

(* A subscription is marked stale, and refreshed by a snapshot later. *)
MarkStale(r) ==
  /\ server[r] = "live" /\ ~Full(r)
  /\ server' = [server EXCEPT ![r] = "dirty"]
  /\ pipe' = [pipe EXCEPT ![r] = Sent(r, Status)]
  /\ UNCHANGED <<history, open, asked, gone, losses, owner, loop, closed, closer, store>>

Refresh(r) ==
  /\ server[r] = "dirty"
  /\ server' = [server EXCEPT ![r] = IF Full(r) THEN "none" ELSE "live"]
  /\ pipe' = [pipe EXCEPT ![r] = Sent(r, IF Full(r) THEN Terminal("BackpressureExceeded") ELSE Snapshot)]
  /\ UNCHANGED <<history, open, asked, gone, losses, owner, loop, closed, closer, store>>

(* The stream's finalizer, once the server knows that nobody reads. *)
NoticeGone(r) ==
  /\ r \in gone /\ Ask("Subscribe", r) \notin asked /\ server[r] # "none"
  /\ server' = [server EXCEPT ![r] = "none"]
  /\ UNCHANGED <<history, open, asked, pipe, gone, losses, owner, loop, closed, closer, store>>

Shutdown ==
  /\ open
  /\ open' = FALSE
  /\ server' = [r \in Requests |-> "none"]
  /\ pipe' = [r \in Requests |-> IF server[r] = "none" THEN pipe[r]
                                 ELSE Sent(r, Terminal("ServerShutdown"))]
  /\ UNCHANGED <<history, asked, gone, losses, owner, loop, closed, closer, store>>

(* ------------------------------ connections ------------------------------ *)
(* The client end sees a stream's connection go: what was on its way may be   *)
(* lost with it, a Subscribe too.                                             *)
Ended(r) == pipe[r] # <<>> /\ Last(pipe[r]).type \in Terminals
Lose(r) ==
  /\ losses < MaxLosses /\ r \notin gone /\ ~Ended(r)
  /\ Ask("Subscribe", r) \in asked \/ server[r] # "none"
  /\ \E kept \in 0..Len(pipe[r]), arrives \in BOOLEAN :
       /\ pipe' = [pipe EXCEPT ![r] = Append(SubSeq(@, 1, kept), Terminal("TransportError"))]
       /\ asked' = IF arrives THEN asked ELSE asked \ {Ask("Subscribe", r)}
  /\ gone' = gone \cup {r}
  /\ losses' = losses + 1
  /\ UNCHANGED <<history, open, server, owner, loop, closed, closer, store>>

(* An Unsubscribe is lost; close and retrySubscription ignore its error. *)
LoseUnsubscribe(r) ==
  /\ losses < MaxLosses /\ Ask("Unsubscribe", r) \in asked
  /\ asked' = asked \ {Ask("Unsubscribe", r)}
  /\ losses' = losses + 1
  /\ UNCHANGED <<history, open, server, pipe, gone, owner, loop, closed, closer, store>>

ClientNext == Mount \/ MountUnconnected \/ Attempt \/ StopAttempting \/ TakeEvent \/ TakeError \/ Unsubscribed \/ Wake
              \/ Close \/ CloseAnswered \/ CloseScope
Serve(r) == HandleSubscribe(r) \/ HandleUnsubscribe(r) \/ NoticeGone(r)
Next ==
  \/ ClientNext
  \/ \E r \in Requests : Serve(r) \/ MarkStale(r) \/ Refresh(r) \/ Lose(r) \/ LoseUnsubscribe(r)
  \/ \E visible \in BOOLEAN : Mutate(visible)
  \/ Shutdown

(* Fibers run on: the loop and the closer, which closes the scope it is a     *)
(* finalizer of, and a server that answers and notices closed connections.    *)
Fairness ==
  /\ WF_vars(Attempt \/ StopAttempting \/ TakeEvent \/ TakeError \/ Unsubscribed \/ Wake)
  /\ WF_vars(CloseAnswered)
  /\ WF_vars(CloseScope /\ closer = "done")
  /\ \A r \in Requests : WF_vars(Serve(r)) /\ WF_vars(Refresh(r))
Spec == Init /\ [][Next]_vars /\ Fairness

(* ------------------------------- properties ------------------------------ *)
PCs == {"idle", "unconnected", "attempting", "taking", "unsubscribing", "sleeping", "ended", "failed", "died"}
TypeOK ==
  /\ Version \in 0..MaxVersion /\ open \in BOOLEAN /\ losses \in 0..MaxLosses
  /\ server \in [Requests -> {"none", "live", "dirty"}]
  /\ \A a \in asked : a.type \in {"Subscribe", "Unsubscribe"} /\ a.request \in Requests
  /\ \A r \in Requests : Len(pipe[r]) <= PipeLimit + 1
  /\ gone \subseteq Requests /\ owner \in {"hook", "store"}
  /\ loop.pc \in PCs /\ loop.request \in 0..MaxRequests /\ loop.attempt \in 0..MaxRequests
  /\ closed \in BOOLEAN /\ closer \in {"none", "unsubscribing", "done"}
  /\ store.life.status \in {"connecting", "stale", "reconnecting", "live"}

(* Whatever was lost, retried, resubscribed or mounted again, the rows a      *)
(* reader sees are those the query had at the version the store is at: no     *)
(* event of another attempt, or older than the snapshot, changed them.        *)
ShowsServedRows == store.version # NoVersion => store.life.rows = history[store.version + 1]

(* A loop that waits for events is fed: its request is on the way, the worker *)
(* has it registered, or what ends the stream is on its way to it.            *)
ReaderIsFed ==
  loop.pc = "taking" =>
    \/ Ask("Subscribe", Current) \in asked
    \/ server[Current] # "none" /\ Current \notin gone
    \/ \E i \in DOMAIN pipe[Current] : pipe[Current][i].type \in Terminals

ShownLive == store.result = Success(FALSE)

(* A reader is shown live rows only while the loop takes events of the        *)
(* attempt that brought them: not while it retries, sleeps or reconnects.     *)
(* A loop that was ended, failed or died is another matter (DeadLoopIsShown). *)
LiveWhileTaking ==
  ShownLive => \/ loop.pc \in {"taking", "ended", "failed", "died"}
               \/ loop.pc = "idle" /\ owner = "store"

(* Who is shown live rows is fed: the loop, what it waits for and what the     *)
(* store shows fit together.                                                  *)
ReaderSound == TypeOK /\ ReaderIsFed /\ LiveWhileTaking

(* A subscription nobody wants any more leaves nothing behind at the worker,  *)
(* even when its Unsubscribe overtook its Subscribe or was lost.              *)
Released == (loop.pc = "idle") ~> (loop.pc # "idle" \/ \A r \in Requests : server[r] = "none")

(* A lost stream does not stay lost: the loop gets to live rows again, or it  *)
(* is closed, or the server refused it (or it wants an id the model lacks).   *)
Recovers ==
  (loop.pc = "sleeping") ~>
     (\/ ShownLive
      \/ loop.pc \in {"idle", "ended", "failed", "died"}
      \/ (loop.pc = "attempting" /\ loop.request = MaxRequests))

(* plan.md:1027-1034: the client store detects version gaps, reconnects and   *)
(* resubscribes, and exposes status transitions.  A subscription whose loop   *)
(* is over without having been closed would not be shown as live.             *)
DeadLoopIsShown == loop.pc \in {"died", "failed"} => ~ShownLive
=============================================================================
