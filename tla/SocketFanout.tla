----------------------------- MODULE SocketFanout -----------------------------
(***************************************************************************)
(* The in-process websocket transport (rpc/websocket-fanout.ts): every       *)
(* socket has an unbounded queue of responses and a fiber that takes what is *)
(* in it, encodes it as one batch and writes it; the end of the socket runs  *)
(* a finalizer that forgets the client and tells the RPC server.             *)
(***************************************************************************)
EXTENDS WebsocketClients

\* A socket is accepted: the client is registered and its flush fiber started.
OnSocket ==
  LET c == nextClientId
  IN /\ c \in Client /\ Calls(c) # {}
     /\ nextClientId' = c + 1
     /\ socket' = [socket EXCEPT ![c] = "open"]
     /\ clientIds' = clientIds \cup {c}
     /\ gauge' = Recorded(c, 0)
     /\ UNCHANGED <<scenario, mode, peer, calls, sent, received, queue, writing, flush, disconnects>>

\* A frame is handled: its messages go to the RPC server one after the other, a
\* defect goes straight to the socket.
HandleSocketData(c) ==
  \E frame \in Frames(c) :
    LET decoded == DecodeClientMessages(frame)
    IN /\ FrameArrives(c, frame)
       /\ IF decoded.tag = "Defect"
          THEN received' = [received EXCEPT ![c] = Append(@, Defect)] /\ UNCHANGED calls
          ELSE WriteRequests(c, decoded.messages) /\ UNCHANGED received
       /\ UNCHANGED <<scenario, mode, nextClientId, socket, sent, queue, writing, flush, gauge, clientIds, disconnects>>

\* protocol.send: a response for a client that is not registered is dropped.
Send(c, r) ==
  \E x \in Response :
    /\ Responds(c, r, x)
    /\ sent' = [sent EXCEPT ![c] = Append(@, x)]
    /\ IF c \in clientIds
       THEN Offer(c, x) /\ gauge' = Recorded(c, Len(queue[c]) + 1)
       ELSE UNCHANGED <<queue, gauge>>
    /\ UNCHANGED <<scenario, mode, nextClientId, socket, peer, received, writing, flush, clientIds, disconnects>>

\* flushClientWrites: the fiber takes the first response and yields, ...
TakeFirst(c) ==
  /\ c \in clientIds /\ flush[c] = {} /\ queue[c] # <<>>
  /\ writing' = [writing EXCEPT ![c] = <<Head(queue[c])>>]
  /\ queue' = [queue EXCEPT ![c] = Tail(@)]
  /\ flush' = [flush EXCEPT ![c] = {"scheduled"}]
  /\ UNCHANGED <<scenario, mode, nextClientId, socket, peer, calls, sent, received, gauge, clientIds, disconnects>>

\* Seeded fault: the first response is taken and not put at the head of the batch.
TakeRestLoses(c) ==
  /\ c \in clientIds /\ flush[c] = {"scheduled"}
  /\ writing' = [writing EXCEPT ![c] = EncodeServerBatch(queue[c])]
  /\ queue' = [queue EXCEPT ![c] = <<>>]
  /\ flush' = [flush EXCEPT ![c] = {"flushing"}]
  /\ gauge' = Recorded(c, 0)
  /\ UNCHANGED <<scenario, mode, nextClientId, socket, peer, calls, sent, received, clientIds, disconnects>>

\* ... clears the rest, encodes the batch and starts to write it, ...
TakeRest(c) ==
  /\ c \in clientIds /\ flush[c] = {"scheduled"}
  /\ writing' = [writing EXCEPT ![c] = EncodeServerBatch(@ \o queue[c])]
  /\ queue' = [queue EXCEPT ![c] = <<>>]
  /\ flush' = [flush EXCEPT ![c] = {"flushing"}]
  /\ gauge' = Recorded(c, 0)
  /\ UNCHANGED <<scenario, mode, nextClientId, socket, peer, calls, sent, received, clientIds, disconnects>>

\* ... and takes the next when the write is done.  A write that fails ends the fiber.
Written(c) ==
  /\ c \in clientIds /\ flush[c] = {"flushing"}
  /\ writing' = [writing EXCEPT ![c] = <<>>]
  /\ \/ /\ socket[c] = "open"
        /\ received' = [received EXCEPT ![c] = @ \o writing[c]]
        /\ flush' = [flush EXCEPT ![c] = {}]
        /\ gauge' = Recorded(c, 0)
     \/ /\ socket[c] = "closing"
        /\ flush' = [flush EXCEPT ![c] = {"dead"}]
        /\ UNCHANGED <<received, gauge>>
  /\ UNCHANGED <<scenario, mode, nextClientId, socket, peer, calls, sent, queue, clientIds, disconnects>>

\* The socket is over: the scope's finalizer, and the end of the flush fiber.
SocketOver(c) ==
  /\ socket[c] = "closing"
  /\ socket' = [socket EXCEPT ![c] = "closed"]
  /\ clientIds' = clientIds \ {c}
  /\ gauge' = Recorded(c, Absent)
  /\ disconnects' = Append(disconnects, c)
  /\ flush' = [flush EXCEPT ![c] = {"dead"}]
  /\ queue' = [queue EXCEPT ![c] = <<>>]
  /\ writing' = [writing EXCEPT ![c] = <<>>]
  /\ UNCHANGED <<scenario, mode, nextClientId, peer, calls, sent, received>>

Closes(c) ==
  ClientCloses(c)
    /\ UNCHANGED <<scenario, mode, nextClientId, peer, calls, sent, received, queue, writing, flush, gauge, clientIds, disconnects>>
==============================================================================
