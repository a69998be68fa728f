--------------------------- MODULE IsolatedTransport ---------------------------
(***************************************************************************)
(* The isolated websocket transport: the sockets live in a worker thread    *)
(* (rpc/websocket-transport-worker-entry.ts) and a bridge in the parent     *)
(* (rpc/websocket-isolated-transport.ts) is the RPC server's protocol.      *)
(* Between them are two message ports, which keep their order.              *)
(***************************************************************************)
EXTENDS WebsocketClients

VARIABLES
  thread,          \* the worker thread: "up", "exiting" (its exit event is due), "gone"
  toParent,        \* the port to the parent
  toWorker,        \* the port to the worker
  serving,         \* the parent's writeRequest is the RPC server's
  pendingSends,    \* pendingServerMessages and serverMessageFlushScheduled
  pendingMetrics,  \* the metrics requests that wait for an answer
  pendingShutdown, \* the shutdown request that waits for an answer
  requestId,       \* the requests made
  shuttingDown,    \* the parent has begun to shut the transport down
  shutdownStarted, \* the worker has
  ackDue           \* the worker's server.close has not called back: the request

threadVars == <<thread, toParent, toWorker, serving, pendingSends, pendingMetrics,
                pendingShutdown, requestId, shuttingDown, shutdownStarted, ackDue>>

\* The messages of the two ports; each end drops, and logs, what is none of its
\* own.  The responses of a batch go to the queues of their clients one after the
\* other: a batch is, for each client, the sequence of its own.
Batch == [Client -> Seq(Response)]
WorkerMessage ==
  [type : {"clientConnected", "clientDisconnected"}, client : Client]
    \cup [type : {"clientMessage"}, client : Client, message : Message]
    \cup [type : {"metrics"}, id : 1 .. requestId, activeClients : Nat]
    \cup [type : {"shutdownAck"}, id : 1 .. requestId]
ServerMessage ==
  [type : {"serverBatch"}, entries : Batch] \cup [type : {"metrics", "shutdown"}, id : 1 .. requestId]

NoEntries == [c \in Client |-> <<>>]

ThreadTypeOK ==
  /\ requestId \in Nat
  /\ toParent \in Seq(WorkerMessage) /\ toWorker \in Seq(ServerMessage)
  /\ thread \in {"up", "exiting", "gone"}
  /\ {serving, shuttingDown, shutdownStarted} \subseteq BOOLEAN
  /\ pendingMetrics \cup pendingShutdown \cup ackDue \subseteq 1 .. requestId
  /\ pendingSends \in [entries : Batch, scheduled : BOOLEAN]
  /\ pendingSends.scheduled = (pendingSends.entries # NoEntries)

ThreadInit ==
  /\ thread = "up"
  /\ toParent = <<>> /\ toWorker = <<>>
  /\ serving = FALSE
  /\ pendingSends = [entries |-> NoEntries, scheduled |-> FALSE]
  /\ pendingMetrics = {} /\ pendingShutdown = {}
  /\ requestId = 0
  /\ shuttingDown = FALSE /\ shutdownStarted = FALSE
  /\ ackDue = {}

PostToParent(messages) == toParent' = toParent \o messages
\* postMessage to a thread that is gone does nothing.
PostToWorker(message) == toWorker' = IF thread = "up" THEN Append(toWorker, message) ELSE toWorker

------------------------------------------------------------------------------
(* The worker thread.                                                       *)

\* A connection: once a shutdown has begun it is closed at once.
Connection ==
  LET c == nextClientId
  IN /\ thread = "up" /\ c \in Client /\ Calls(c) # {}
     /\ nextClientId' = c + 1
     /\ IF shutdownStarted
        THEN /\ socket' = [socket EXCEPT ![c] = "refused"]
             /\ UNCHANGED <<gauge, toParent>>
        ELSE /\ socket' = [socket EXCEPT ![c] = "open"]
             /\ gauge' = Recorded(c, 0)
             /\ PostToParent(<<[type |-> "clientConnected", client |-> c]>>)
     /\ UNCHANGED <<scenario, mode, peer, calls, sent, received, queue, writing, flush, clientIds, disconnects>>
     /\ UNCHANGED <<thread, toWorker, serving, pendingSends, pendingMetrics, pendingShutdown, requestId, shuttingDown, shutdownStarted, ackDue>>

\* A frame: its messages are posted to the parent, a defect goes straight to the socket.
HandleClientData(c) ==
  \E frame \in Frames(c) :
    LET decoded == DecodeClientMessages(frame)
    IN /\ thread = "up" /\ FrameArrives(c, frame)
       /\ IF decoded.tag = "Defect"
          THEN received' = [received EXCEPT ![c] = Append(@, Defect)] /\ UNCHANGED toParent
          ELSE /\ PostToParent([i \in DOMAIN frame |-> [type |-> "clientMessage", client |-> c, message |-> frame[i]]])
               /\ UNCHANGED received
       /\ UNCHANGED <<scenario, mode, nextClientId, socket, calls, sent, queue, writing, flush, gauge, clientIds, disconnects>>
       /\ UNCHANGED <<thread, toWorker, serving, pendingSends, pendingMetrics, pendingShutdown, requestId, shuttingDown, shutdownStarted, ackDue>>

ScheduledFlush(f) == IF f \cap {"scheduled", "flushing"} = {} THEN f \cup {"scheduled"} ELSE f

\* enqueueServerResponse, for each entry of a batch: a client that is gone or
\* whose socket is not open is skipped.
Enqueued(c, entries) ==
  IF gauge[c] # Absent /\ socket[c] = "open" THEN queue[c] \o entries[c] ELSE queue[c]

ServerBatch(entries) ==
  /\ queue' = [c \in Client |-> Enqueued(c, entries)]
  /\ gauge' = [c \in Client |-> IF Enqueued(c, entries) = queue[c] THEN gauge[c] ELSE Len(Enqueued(c, entries))]
  /\ flush' = [c \in Client |-> IF Enqueued(c, entries) = queue[c] THEN flush[c] ELSE ScheduledFlush(flush[c])]
  /\ UNCHANGED <<socket, toParent, shutdownStarted, ackDue>>

\* The answer is computed at once and posted.
MetricsAsked(id) ==
  /\ PostToParent(<<[type |-> "metrics", id |-> id, activeClients |-> Cardinality({c \in Client : gauge[c] # Absent})]>>)
  /\ UNCHANGED <<socket, queue, gauge, flush, shutdownStarted, ackDue>>

\* Open sockets are closed and the others terminated; server.close calls back
\* when there is none left.
ShutdownTransport(id) ==
  /\ shutdownStarted' = TRUE
  /\ socket' = [c \in Client |-> IF socket[c] = "open" THEN "closing" ELSE socket[c]]
  /\ ackDue' = {id}
  /\ UNCHANGED <<queue, gauge, flush, toParent>>

HandleParentMessage ==
  /\ thread = "up" /\ toWorker # <<>>
  /\ toWorker' = Tail(toWorker)
  /\ LET m == Head(toWorker)
     IN \/ m.type = "serverBatch" /\ ServerBatch(m.entries)
        \/ m.type = "metrics" /\ MetricsAsked(m.id)
        \/ m.type = "shutdown" /\ ShutdownTransport(m.id)
  /\ UNCHANGED <<scenario, mode, nextClientId, peer, calls, sent, received, writing, clientIds, disconnects>>
  /\ UNCHANGED <<thread, serving, pendingSends, pendingMetrics, pendingShutdown, requestId, shuttingDown>>

\* The timer of a flush: the whole queue becomes the batch that is written.
FlushClient(c) ==
  /\ thread = "up" /\ "scheduled" \in flush[c]
  /\ IF "flushing" \in flush[c] \/ queue[c] = <<>> \/ socket[c] # "open"
     THEN /\ flush' = [flush EXCEPT ![c] = @ \ {"scheduled"}]
          /\ UNCHANGED <<queue, writing, gauge>>
     ELSE /\ flush' = [flush EXCEPT ![c] = {"flushing"}]
          /\ writing' = [writing EXCEPT ![c] = EncodeServerBatch(queue[c])]
          /\ queue' = [queue EXCEPT ![c] = <<>>]
          /\ gauge' = Recorded(c, 0)
  /\ UNCHANGED <<scenario, mode, nextClientId, socket, peer, calls, sent, received, clientIds, disconnects>>
  /\ UNCHANGED threadVars

\* Seeded fault: what was queued during the write waits for the next response.
WriteDoneSleeps(c) ==
  /\ thread = "up" /\ "flushing" \in flush[c]
  /\ writing' = [writing EXCEPT ![c] = <<>>]
  /\ gauge' = Recorded(c, 0)
  /\ flush' = [flush EXCEPT ![c] = @ \ {"flushing"}]
  /\ received' = [received EXCEPT ![c] = @ \o writing[c]]
  /\ UNCHANGED <<scenario, mode, nextClientId, socket, peer, calls, sent, queue, clientIds, disconnects>>
  /\ UNCHANGED threadVars

\* The callback of a write: another flush is scheduled, or the socket is closed.
\* A write may fail by itself, and the one under way when the socket closes does.
WriteDone(c) ==
  /\ thread = "up" /\ "flushing" \in flush[c]
  /\ writing' = [writing EXCEPT ![c] = <<>>]
  /\ gauge' = Recorded(c, 0)
  /\ \/ /\ socket[c] = "open"
        /\ received' = [received EXCEPT ![c] = @ \o writing[c]]
        /\ flush' = [flush EXCEPT ![c] = ScheduledFlush(@ \ {"flushing"})]
        /\ UNCHANGED socket
     \/ /\ flush' = [flush EXCEPT ![c] = @ \ {"flushing"}]
        /\ socket' = [socket EXCEPT ![c] = IF @ = "open" THEN "closing" ELSE @]
        /\ UNCHANGED received
  /\ UNCHANGED <<scenario, mode, nextClientId, peer, calls, sent, queue, clientIds, disconnects>>
  /\ UNCHANGED threadVars

\* Seeded fault: a client is taken out at the socket's error event, before the
\* callback of the write under way.
DisconnectClientAtError(c) ==
  /\ thread = "up" /\ socket[c] = "closing"
  /\ socket' = [socket EXCEPT ![c] = "closed"]
  /\ gauge' = Recorded(c, Absent)
  /\ PostToParent(<<[type |-> "clientDisconnected", client |-> c]>>)
  /\ UNCHANGED <<scenario, mode, nextClientId, peer, calls, sent, received, queue, writing, flush, clientIds, disconnects>>
  /\ UNCHANGED <<thread, toWorker, serving, pendingSends, pendingMetrics, pendingShutdown, requestId, shuttingDown, shutdownStarted, ackDue>>

\* The close event of a socket.  The socket library has called the callback of
\* the write under way before it.
DisconnectClient(c) ==
  /\ thread = "up" /\ socket[c] = "closing" /\ "flushing" \notin flush[c]
  /\ socket' = [socket EXCEPT ![c] = "closed"]
  /\ gauge' = Recorded(c, Absent)
  /\ PostToParent(<<[type |-> "clientDisconnected", client |-> c]>>)
  /\ UNCHANGED <<scenario, mode, nextClientId, peer, calls, sent, received, queue, writing, flush, clientIds, disconnects>>
  /\ UNCHANGED <<thread, toWorker, serving, pendingSends, pendingMetrics, pendingShutdown, requestId, shuttingDown, shutdownStarted, ackDue>>

ServerClosed ==
  /\ thread = "up" /\ ackDue # {}
  /\ \A c \in Client : socket[c] \notin {"open", "closing"}
  /\ PostToParent(<<[type |-> "shutdownAck", id |-> CHOOSE id \in ackDue : TRUE]>>)
  /\ ackDue' = {}
  /\ UNCHANGED <<clientVars, thread, toWorker, serving, pendingSends, pendingMetrics, pendingShutdown, requestId, shuttingDown, shutdownStarted>>

CloseSocket(c) ==
  /\ thread = "up" /\ ClientCloses(c)
  /\ UNCHANGED <<scenario, mode, nextClientId, peer, calls, sent, received, queue, writing, flush, gauge, clientIds, disconnects>>
  /\ UNCHANGED threadVars

\* The thread ends, by itself or terminated: its sockets end with it.
ThreadEnds ==
  /\ thread' = "exiting"
  /\ socket' = [c \in Client |-> IF socket[c] \in {"open", "closing"} THEN "closed" ELSE socket[c]]
  /\ writing' = [c \in Client |-> <<>>] /\ queue' = [c \in Client |-> <<>>]
  /\ flush' = [c \in Client |-> {}] /\ gauge' = [c \in Client |-> Absent]
  /\ toWorker' = <<>> /\ ackDue' = {}

ThreadDies ==
  /\ scenario.crash /\ thread = "up"
  /\ ThreadEnds
  /\ UNCHANGED <<scenario, mode, nextClientId, peer, calls, sent, received, clientIds, disconnects>>
  /\ UNCHANGED <<toParent, serving, pendingSends, pendingMetrics, pendingShutdown, requestId, shuttingDown, shutdownStarted>>

------------------------------------------------------------------------------
(* The bridge in the parent.                                                *)

\* The RPC server runs the protocol; until then writeRequest does nothing.
Run ==
  /\ ~serving /\ ~shuttingDown
  /\ serving' = TRUE
  /\ UNCHANGED <<clientVars, thread, toParent, toWorker, pendingSends, pendingMetrics, pendingShutdown, requestId, shuttingDown, shutdownStarted, ackDue>>

ClientConnected(c) ==
  /\ clientIds' = clientIds \cup {c}
  /\ UNCHANGED <<calls, disconnects, pendingMetrics, pendingShutdown>>
ClientDisconnectedSilently(c) ==   \* seeded fault
  /\ clientIds' = clientIds \ {c}
  /\ UNCHANGED <<calls, disconnects, pendingMetrics, pendingShutdown>>
ClientDisconnected(c) ==
  /\ clientIds' = clientIds \ {c}
  /\ disconnects' = Append(disconnects, c)
  /\ UNCHANGED <<calls, pendingMetrics, pendingShutdown>>
ClientMessage(c, message) ==
  /\ IF serving THEN WriteRequests(c, <<message>>) ELSE UNCHANGED calls
  /\ UNCHANGED <<clientIds, disconnects, pendingMetrics, pendingShutdown>>
MetricsAnswered(id) ==
  /\ pendingMetrics' = pendingMetrics \ {id}
  /\ UNCHANGED <<calls, clientIds, disconnects, pendingShutdown>>
ShutdownAcked(id) ==
  /\ pendingShutdown' = pendingShutdown \ {id}
  /\ UNCHANGED <<calls, clientIds, disconnects, pendingMetrics>>

ParentReceives ==
  /\ toParent # <<>>
  /\ toParent' = Tail(toParent)
  /\ LET m == Head(toParent)
     IN \/ m.type = "clientConnected" /\ ClientConnected(m.client)
        \/ m.type = "clientDisconnected" /\ ClientDisconnected(m.client)
        \/ m.type = "clientMessage" /\ ClientMessage(m.client, m.message)
        \/ m.type = "metrics" /\ MetricsAnswered(m.id)
        \/ m.type = "shutdownAck" /\ ShutdownAcked(m.id)
  /\ UNCHANGED <<scenario, mode, nextClientId, socket, peer, sent, received, queue, writing, flush, gauge>>
  /\ UNCHANGED <<thread, toWorker, serving, pendingSends, requestId, shuttingDown, shutdownStarted, ackDue>>

\* The exit event comes after what the thread had posted.
ThreadExits ==
  /\ thread = "exiting" /\ toParent = <<>>
  /\ thread' = "gone"
  /\ pendingMetrics' = {} /\ pendingShutdown' = {}
  /\ UNCHANGED <<clientVars, toParent, toWorker, serving, pendingSends, requestId, shuttingDown, shutdownStarted, ackDue>>

\* protocol.send: the response waits for the parent's next turn, with those of
\* every other client.
SendIsolated(c, r) ==
  \E x \in Response :
    /\ Responds(c, r, x)
    /\ sent' = [sent EXCEPT ![c] = Append(@, x)]
    /\ pendingSends' = [entries |-> [pendingSends.entries EXCEPT ![c] = Append(@, x)], scheduled |-> TRUE]
    /\ UNCHANGED <<scenario, mode, nextClientId, socket, peer, received, queue, writing, flush, gauge, clientIds, disconnects>>
    /\ UNCHANGED <<thread, toParent, toWorker, serving, pendingMetrics, pendingShutdown, requestId, shuttingDown, shutdownStarted, ackDue>>

\* The timer: what waits is posted to the worker as one batch.
FlushServerMessages ==
  /\ pendingSends.scheduled
  /\ pendingSends' = [entries |-> NoEntries, scheduled |-> FALSE]
  /\ PostToWorker([type |-> "serverBatch", entries |-> pendingSends.entries])
  /\ UNCHANGED <<clientVars, thread, toParent, serving, pendingMetrics, pendingShutdown, requestId, shuttingDown, shutdownStarted, ackDue>>

RequestMetrics ==
  /\ requestId < scenario.metrics /\ ~shuttingDown
  /\ requestId' = requestId + 1
  /\ pendingMetrics' = pendingMetrics \cup {requestId + 1}
  /\ PostToWorker([type |-> "metrics", id |-> requestId + 1])
  /\ UNCHANGED <<clientVars, thread, toParent, serving, pendingSends, pendingShutdown, shuttingDown, shutdownStarted, ackDue>>

\* Seeded fault: there is no timer for a thread that is gone.
MetricsTimeoutWhileUp(id) ==
  /\ id \in pendingMetrics /\ thread = "up"
  /\ pendingMetrics' = pendingMetrics \ {id}
  /\ UNCHANGED <<clientVars, thread, toParent, toWorker, serving, pendingSends, pendingShutdown, requestId, shuttingDown, shutdownStarted, ackDue>>

\* A request that takes too long is answered with empty metrics.
MetricsTimeout(id) ==
  /\ id \in pendingMetrics
  /\ pendingMetrics' = pendingMetrics \ {id}
  /\ UNCHANGED <<clientVars, thread, toParent, toWorker, serving, pendingSends, pendingShutdown, requestId, shuttingDown, shutdownStarted, ackDue>>

\* The layer's finalizer: the RPC server is over, the worker is asked to shut down, ...
RequestShutdown ==
  /\ serving /\ ~shuttingDown
  /\ shuttingDown' = TRUE
  /\ serving' = FALSE
  /\ calls' = [c \in Client |-> [r \in AllCalls |-> IF calls[c][r] = "none" THEN "none" ELSE "over"]]
  /\ requestId' = requestId + 1
  /\ pendingShutdown' = {requestId + 1}
  /\ PostToWorker([type |-> "shutdown", id |-> requestId + 1])
  /\ UNCHANGED <<scenario, mode, nextClientId, socket, peer, sent, received, queue, writing, flush, gauge, clientIds, disconnects>>
  /\ UNCHANGED <<thread, toParent, pendingSends, pendingMetrics, shutdownStarted, ackDue>>

ShutdownTimeout ==
  /\ pendingShutdown # {}
  /\ pendingShutdown' = {}
  /\ UNCHANGED <<clientVars, thread, toParent, toWorker, serving, pendingSends, pendingMetrics, requestId, shuttingDown, shutdownStarted, ackDue>>

\* ... and when it has, or when it took too long, the thread is terminated.
Terminate ==
  /\ shuttingDown /\ pendingShutdown = {} /\ thread = "up"
  /\ ThreadEnds
  /\ UNCHANGED <<scenario, mode, nextClientId, peer, calls, sent, received, clientIds, disconnects>>
  /\ UNCHANGED <<toParent, serving, pendingSends, pendingMetrics, pendingShutdown, requestId, shuttingDown, shutdownStarted>>
==============================================================================
