--------------------------- MODULE WebsocketClients ---------------------------
(***************************************************************************)
(* What the two websocket transports of the server share                    *)
(* (rpc/websocket-fanout.ts, rpc/websocket-transport-worker-entry.ts): the  *)
(* sockets, the queue of responses each of them has, the frames a client    *)
(* sends, and the RPC server above and the RPC client below, which are a    *)
(* library's and are modelled from how the transports use them.             *)
(*                                                                         *)
(* A client is its id: ids are given in the order of connection and never   *)
(* again.  A response is a chunk of a call's stream or its exit; what is in *)
(* it does not matter here, except that some cannot be encoded.             *)
(***************************************************************************)
EXTENDS Integers, Sequences, FiniteSets, SequencesExt

CONSTANTS
  Client,     \* 0 .. n - 1, the connections that may be made
  AllCalls,   \* the names of calls
  Demands     \* bounds of the environment, one of which a behaviour has:
              \*   calls[c], the calls client c makes (none: it does not
              \*   connect); chunks, how many chunks a call streams at most
              \*   before its exit; bad, the calls whose chunks cannot be
              \*   encoded; rude, whether clients send garbage and give calls
              \*   up; metrics, how many metrics requests the parent makes;
              \*   crash, whether the worker thread may die

ASSUME ClientsAssumption ==
  /\ IsFiniteSet(Client) /\ Client = 0 .. Cardinality(Client) - 1
  /\ IsFiniteSet(AllCalls)
  /\ Demands \subseteq [calls : [Client -> SUBSET AllCalls], chunks : Nat, bad : SUBSET AllCalls,
                        rude : BOOLEAN, metrics : Nat, crash : BOOLEAN]

VARIABLES
  scenario,      \* the demands of this behaviour
  mode,          \* the transport: "in-process" or "isolated"
  nextClientId,  \* the next connection's id
  socket,        \* socket[c]: "none", "open", "closing" or "closed"; "refused"
  peer,          \* peer[c][r]: what the client has sent of the call
  calls,         \* calls[c][r]: the RPC server's state of the call
  sent,          \* sent[c]: every response the RPC server sent to the client
  received,      \* received[c]: what the client got, in order
  queue,         \* queue[c]: the responses that wait for a flush
  writing,       \* writing[c]: the batch taken from the queue and not yet written
  flush,         \* flush[c]: the flags of the client's flush loop
  gauge,         \* gauge[c]: clientQueuedMessages of the metrics, Absent or a count
  clientIds,     \* the clients the protocol reports
  disconnects    \* the disconnected clients the RPC server has not taken yet

clientVars == <<scenario, mode, nextClientId, socket, peer, calls, sent, received, queue,
                writing, flush, gauge, clientIds, disconnects>>

Absent == -1
Defect == [kind |-> "Defect"]
Garbage == [kind |-> "Garbage"]

Calls(c) == scenario.calls[c]
Response == [kind : {"Chunk"}, call : AllCalls, n : 1 .. scenario.chunks] \cup [kind : {"Exit"}, call : AllCalls]
Message == [kind : {"Request", "Ack", "Interrupt"}, call : AllCalls]

ClientsTypeOK ==
  /\ scenario \in Demands
  /\ nextClientId \in 0 .. Cardinality(Client)
  /\ socket \in [Client -> {"none", "open", "closing", "closed", "refused"}]
  /\ peer \in [Client -> [AllCalls -> [asked : BOOLEAN, acked : 0 .. scenario.chunks, gaveUp : BOOLEAN]]]
  /\ calls \in [Client -> [AllCalls -> {"none", "ready", "unacked", "ending", "over"}]]
  /\ queue \in [Client -> Seq(Response)] /\ sent \in [Client -> Seq(Response)]
  /\ writing \in [Client -> Seq(Response \cup {Defect})] /\ received \in [Client -> Seq(Response \cup {Defect})]
  /\ flush \in [Client -> SUBSET {"scheduled", "flushing", "dead"}]
  /\ clientIds \subseteq Client
  /\ disconnects \in Seq(Client)
  \* what waits for a client has a bound, though no queue has one
  /\ gauge \in [Client -> {Absent} \cup 0 .. 2 * Cardinality(AllCalls)]

ClientsInit ==
  /\ scenario \in Demands
  /\ nextClientId = 0
  /\ socket = [c \in Client |-> "none"]
  /\ peer = [c \in Client |-> [r \in AllCalls |-> [asked |-> FALSE, acked |-> 0, gaveUp |-> FALSE]]]
  /\ calls = [c \in Client |-> [r \in AllCalls |-> "none"]]
  /\ sent = [c \in Client |-> <<>>] /\ received = [c \in Client |-> <<>>]
  /\ queue = [c \in Client |-> <<>>] /\ writing = [c \in Client |-> <<>>]
  /\ flush = [c \in Client |-> {}]
  /\ gauge = [c \in Client |-> Absent]
  /\ clientIds = {} /\ disconnects = <<>>

------------------------------------------------------------------------------
(* Frames and batches.                                                      *)

\* A frame is decoded whole: one message of it that is not a request, an ack or
\* an interrupt makes a defect of the frame, and its other messages are dropped.
DecodeClientMessages(frame) ==
  IF Garbage \in Range(frame) THEN [tag |-> "Defect"] ELSE [tag |-> "Messages", messages |-> frame]

\* A batch is encoded whole: one response that cannot be encoded makes a defect
\* of the batch.
EncodeServerBatch(batch) ==
  IF \E i \in DOMAIN batch : batch[i].kind = "Chunk" /\ batch[i].call \in scenario.bad
  THEN <<Defect>> ELSE batch

\* The order of a connection's own responses is what its queue keeps.
Offer(c, response) == queue' = [queue EXCEPT ![c] = Append(@, response)]

\* the metrics: recordQueued, recordFlush and the end of a connection
Recorded(c, n) == [gauge EXCEPT ![c] = n]

------------------------------------------------------------------------------
(* The RPC client (external).  It sends a request once, acknowledges each    *)
(* chunk it got, may give a call up, and takes a defect as the end of all    *)
(* its calls: it then sends nothing more.                                    *)

Told(c) == Defect \in Range(received[c])
\* How many responses of a kind and a call there are in s.
Count(s, kind, r) == Cardinality({i \in DOMAIN s : s[i].kind = kind /\ s[i].call = r})
Ended(c, r) == Count(received[c], "Exit", r) > 0

Unasked(c) == {r \in Calls(c) : ~peer[c][r].asked}
Waiting(c) == {r \in Calls(c) : ~peer[c][r].gaveUp /\ ~Ended(c, r) /\ Count(received[c], "Chunk", r) > 0}
MayAck(c) == {r \in Waiting(c) : peer[c][r].acked < Count(received[c], "Chunk", r)}

Sends(kind, r) == [kind |-> kind, call |-> r]
\* A frame has one message, which garbage may follow.
Frames(c) ==
  {<<Sends("Request", r)>> : r \in Unasked(c)}
    \cup {<<Sends("Request", r), Garbage>> : r \in IF scenario.rude THEN Unasked(c) ELSE {}}
    \cup {<<Sends("Ack", r)>> : r \in MayAck(c)}
    \cup {<<Sends("Interrupt", r)>> : r \in IF scenario.rude THEN Waiting(c) \ MayAck(c) ELSE {}}

AfterSending(p, m) ==
  CASE m.kind = "Request" -> [p EXCEPT ![m.call].asked = TRUE]
    [] m.kind = "Ack" -> [p EXCEPT ![m.call].acked = @ + 1]
    [] m.kind = "Interrupt" -> [p EXCEPT ![m.call].gaveUp = TRUE]

\* A frame arrives on an open socket.
FrameArrives(c, frame) ==
  /\ socket[c] = "open" /\ ~Told(c)
  /\ frame \in Frames(c)
  /\ peer' = [peer EXCEPT ![c] = AfterSending(@, Head(frame))]

\* The peer goes away, or starts the closing handshake.
ClientCloses(c) ==
  /\ socket[c] = "open"
  /\ socket' = [socket EXCEPT ![c] = "closing"]

------------------------------------------------------------------------------
(* The RPC server (external): what writeRequest does with a message, and the *)
(* sends of a call, which waits for the ack of a chunk because the protocol  *)
(* says that it supports acks.                                               *)

SupportsAck == TRUE

AfterMessage(state, m) ==
  CASE m.kind = "Request" -> [state EXCEPT ![m.call] = "ready"]
    [] m.kind = "Ack" -> [state EXCEPT ![m.call] = IF @ = "unacked" THEN "ready" ELSE @]
    [] m.kind = "Interrupt" -> [state EXCEPT ![m.call] = IF @ \in {"ready", "unacked"} THEN "ending" ELSE @]

\* A frame's messages are taken one after the other.
WriteRequests(c, messages) ==
  LET after[n \in 0 .. Len(messages)] == IF n = 0 THEN calls[c] ELSE AfterMessage(after[n - 1], messages[n])
  IN  calls' = [calls EXCEPT ![c] = after[Len(messages)]]

NextChunk(c, r) == [kind |-> "Chunk", call |-> r, n |-> Count(sent[c], "Chunk", r) + 1]

\* The call r of client c has the response x to send.
Responds(c, r, x) ==
  \/ /\ calls[c][r] = "ready" /\ Count(sent[c], "Chunk", r) < scenario.chunks
     /\ x = NextChunk(c, r)
     /\ calls' = [calls EXCEPT ![c][r] = IF SupportsAck THEN "unacked" ELSE "ready"]
  \/ /\ calls[c][r] \in {"ready", "ending"}
     /\ x = [kind |-> "Exit", call |-> r]
     /\ calls' = [calls EXCEPT ![c][r] = "over"]

\* The RPC server takes a disconnected client and interrupts its calls.
TakeDisconnect ==
  /\ disconnects # <<>>
  /\ disconnects' = Tail(disconnects)
  /\ calls' = [calls EXCEPT ![Head(disconnects)] = [r \in AllCalls |-> IF @[r] = "none" THEN "none" ELSE "over"]]
  /\ UNCHANGED <<scenario, mode, nextClientId, socket, peer, sent, received, queue, writing, flush, gauge, clientIds>>
==============================================================================
