-------------------------- MODULE WebsocketTransport --------------------------
(***************************************************************************)
(* The two websocket transports side by side: a behaviour is one of the     *)
(* in-process transport (SocketFanout) or one of the isolated transport     *)
(* (IsolatedTransport), and what they promise the RPC server and the        *)
(* clients is the same.                                                     *)
(***************************************************************************)
EXTENDS SocketFanout, IsolatedTransport

transportVars == <<clientVars, threadVars>>

TransportTypeOK == mode \in {"in-process", "isolated"} /\ ClientsTypeOK /\ ThreadTypeOK

TransportInit == mode \in {"in-process", "isolated"} /\ ClientsInit /\ ThreadInit

InProcess ==
  /\ mode = "in-process"
  /\ UNCHANGED threadVars
  /\ \/ OnSocket \/ TakeDisconnect
     \/ \E c \in Client :
          \/ HandleSocketData(c) \/ TakeFirst(c) \/ TakeRest(c) \/ Written(c) \/ SocketOver(c) \/ Closes(c)
          \/ \E r \in Calls(c) : Send(c, r)

WorkerThread ==
  /\ mode = "isolated"
  /\ \/ Connection \/ HandleParentMessage \/ ServerClosed \/ ThreadDies
     \/ \E c \in Client : HandleClientData(c) \/ FlushClient(c) \/ WriteDone(c) \/ DisconnectClient(c) \/ CloseSocket(c)

Bridge ==
  /\ mode = "isolated"
  /\ \/ Run \/ ParentReceives \/ ThreadExits \/ FlushServerMessages
     \/ RequestMetrics \/ RequestShutdown \/ ShutdownTimeout \/ Terminate
     \/ (TakeDisconnect /\ UNCHANGED threadVars)
     \/ \E id \in pendingMetrics : MetricsTimeout(id)
     \/ \E c \in Client : \E r \in Calls(c) : SendIsolated(c, r)

TransportNext == InProcess \/ WorkerThread \/ Bridge

\* What the event loops and the RPC server's fibers run in the end: message and
\* timer callbacks, the flush fiber, the close of a socket that is closing (the
\* library gives the peer a time limit) and the disconnects.  Clients need not
\* connect, ask or close, calls need not stream, the RPC server need not start.
\* It is asked of all these steps together, which is less than what event loops
\* give each of them.
Due ==
  \/ /\ mode = "in-process" /\ UNCHANGED threadVars
     /\ \/ TakeDisconnect
        \/ \E c \in Client : SocketOver(c) \/ TakeFirst(c) \/ TakeRest(c) \/ Written(c)
  \/ /\ mode = "isolated"
     /\ \/ ParentReceives \/ FlushServerMessages \/ ThreadExits \/ ShutdownTimeout \/ Terminate
        \/ (TakeDisconnect /\ UNCHANGED threadVars)
        \/ \E id \in pendingMetrics : MetricsTimeout(id)
        \/ HandleParentMessage
        \/ \E c \in Client : DisconnectClient(c) \/ FlushClient(c) \/ WriteDone(c)

TransportSpec == TransportInit /\ [][TransportNext]_transportVars /\ WF_transportVars(Due)

------------------------------------------------------------------------------
(* What the transports promise.                                             *)

\* Where the responses for a client are on their way, the oldest first.
EntriesFor(m, c) == IF m.type = "serverBatch" THEN m.entries[c] ELSE <<>>
BatchesFor(messages, c) ==
  LET posted[n \in 0 .. Len(messages)] == IF n = 0 THEN <<>> ELSE posted[n - 1] \o EntriesFor(messages[n], c)
  IN  posted[Len(messages)]
OnTheWay(c) == writing[c] \o queue[c] \o BatchesFor(toWorker, c) \o pendingSends.entries[c]

\* A client whose socket is open and that was not told of a defect has, in its
\* order and without a gap, what the RPC server sent it up to what is on its way,
\* through the turns of two threads, the ports between them and the client's
\* flushes (rpc/websocket-fanout.ts:216, rpc/websocket-transport-worker-entry.ts:205).
DeliveredInOrder ==
  \A c \in Client :
    socket[c] = "open" /\ Defect \notin Range(received[c] \o writing[c]) => received[c] \o OnTheWay(c) = sent[c]

\* The queues of a client have no limit of their own: the acks give them one.  Of
\* each call there is at most one chunk on its way, and its exit.
NoCallFloods ==
  \A c \in Client : \A r \in AllCalls : \A kind \in {"Chunk", "Exit"} : Count(OnTheWay(c), kind, r) <= 1

\* The clients that the metrics count are those that have a socket: a write that
\* is under way when its client goes does not bring it back
\* (rpc/websocket-fanout.ts:393, docs/capacity-soak.md:60).
ActiveClientsExact ==
  \A c \in Client : (gauge[c] # Absent) = (socket[c] \in {"open", "closing"})

\* What the transport keeps of its clients, and counts of them, is exact and bounded.
ClientsSound == TransportTypeOK /\ ActiveClientsExact /\ NoCallFloods

\* A client that has gone is a client whose calls end, and stay ended, and that
\* the protocol reports no more (docs/fault-tolerance.md:27, "On disconnect,
\* server-side subscription state must drain").  A thread that died has told
\* nobody of its clients: see DeadThreadDrains.
Drained(c) == (c \notin clientIds \/ shuttingDown) /\ \A r \in Calls(c) : calls[c][r] \in {"none", "over"}
Died == scenario.crash /\ thread # "up"
DisconnectDrains == \A c \in Client : <>[](socket[c] = "closed" => Drained(c) \/ Died)

\* The same, also of the clients of a thread that died
\* (rpc/websocket-isolated-transport.ts:192).
DeadThreadDrains ==
  \A c \in Client : (socket[c] = "closed") ~> (\A r \in Calls(c) : calls[c][r] \in {"none", "over"})

\* A response queued for a client is written, or the client's socket is not open
\* any more: no flush is forgotten (rpc/websocket-transport-worker-entry.ts:222).
QueuedIsWritten == \A c \in Client : (queue[c] # <<>>) ~> (queue[c] = <<>> \/ socket[c] # "open" \/ flush[c] = {"dead"})

\* What the parent asks of the thread is answered, also when the thread dies, and
\* shutting down ends with the thread gone, also when a peer does not finish its
\* closing handshake (rpc/websocket-isolated-transport.ts:185, :338).
AsksEnd ==
  /\ \A id \in {1} : (id \in pendingMetrics) ~> (id \notin pendingMetrics)
  /\ shuttingDown ~> (thread = "gone")
==============================================================================
