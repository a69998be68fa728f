---------------------------- MODULE SnapshotFence ----------------------------
(***************************************************************************)
(* One topic's chDB mirror and the fence its answers pass.  The worker     *)
(* forks a fiber per mutation batch that copies the batch into the         *)
(* parent's mirror and sends it to a child process; queries, which hold    *)
(* the worker's gate, and grouped refreshes, which do not, ask the child   *)
(* for rows and take them only at the very version they asked for.  A      *)
(* child may die at any time; the first to use it again may start another  *)
(* one from the parent's mirror.                                           *)
(*                                                                         *)
(* A step of a fiber is what it runs between two awaits; a step of a child *)
(* is one message with the flush it causes, for the flush is a microtask.  *)
(* Each mutation writes one row and a row's value is the version that      *)
(* wrote it last (a deletion is such a value too).  The forked fibers      *)
(* start in the order of their batches, as the scheduler's queue has it.   *)
(***************************************************************************)
EXTENDS Sequences, FiniteSetsExt

CONSTANTS
  NumRows,       (* the topic's rows are 1 .. NumRows                               *)
  Queries,       (* fibers that query under the gate                                *)
  Refreshes,     (* fibers of grouped refreshes, outside the gate                   *)
  Nobody,        (* the addressee of an answer that nobody awaits any more          *)
  RestartOnExit, (* the supervisor's restartWorkerOnUnexpectedExit                  *)
  ChunkedInit,   (* the mirror has more rows than an init request may carry         *)
  InitMayFail,   (* TRUE: the child's database may refuse the rows of an init       *)
  MaxVersion,    (* bound of the model on the number of mutations                   *)
  MaxCrashes     (* bound of the model on the number of children that die           *)

ASSUME SnapshotFenceConstants ==
  /\ {NumRows, MaxVersion, MaxCrashes} \subseteq Nat
  /\ {RestartOnExit, ChunkedInit, InitMayFail} \subseteq BOOLEAN

VARIABLES
  changed,   (* sequence: the row that each mutation of the store wrote             *)
  mirror,    (* [rows, version]: the parent's mirror                                *)
  known,     (* knownBackendVersion, which health reports                           *)
  worker,    (* the child the process client talks to, a number                     *)
  children,  (* every child ever spawned, a sequence                                *)
  exited,    (* the process client's exitMessage is set                             *)
  stopping,  (* the process client's closed: its worker's exit is expected          *)
  closed,    (* the backend is closed: "no", "closing" or "yes"                     *)
  fiber,     (* fiber -> [at, target, copy, chunk]: "idle", "forked", "respawn",    *)
             (* "init" or "request", the version a reader asks for, the restart     *)
             (* snapshot it sends and the requests of it that it has sent           *)
  answer     (* the last answer to a reader: [rows, target]                         *)

vars == <<changed, mirror, known, worker, children, exited, stopping, closed, fiber, answer>>

Rows    == 1 .. NumRows
Batches == 1 .. MaxVersion
Readers == Queries \cup Refreshes
Fibers  == Batches \cup Readers
Version == Len(changed)

ASSUME FibersDiffer == Readers \cap Batches = {} /\ Nobody \notin Fibers

Missing == -1                       (* the value of a row the child's table lacks *)
NoRows  == [r \in Rows |-> Missing]

(* The rows once the mutations above version a up to version b are applied. *)
After(rows, a, b) ==
  [r \in Rows |-> Max({rows[r]} \cup {u \in a + 1 .. b : changed[u] = r})]

RowsAt(v) == After([r \in Rows |-> 0], 0, v)

(* The end of the contiguous run of pending versions that starts above v. *)
Contiguous(v, pending) == Max({u \in v .. MaxVersion : v + 1 .. u \subseteq pending})

NoInit == [version |-> 0, rows |-> {}, open |-> FALSE]

Idle == [at |-> "idle", target |-> 0, copy |-> [rows |-> NoRows, version |-> 0], chunk |-> 0]

At(place) == {f \in Fibers : fiber[f].at = place}

NewChild == [alive |-> TRUE, noticed |-> FALSE, version |-> 0, rows |-> NoRows,
             pending |-> {}, failed |-> FALSE, init |-> NoInit, inbox |-> <<>>, outbox |-> <<>>]

Init ==
  /\ changed = <<>>
  /\ mirror = [rows |-> RowsAt(0), version |-> 0]
  /\ known = 0 /\ worker = 1
  /\ children = <<[NewChild EXCEPT !.rows = RowsAt(0)]>>
  /\ exited = FALSE /\ stopping = FALSE /\ closed = "no"
  /\ fiber = [f \in Fibers |-> Idle]
  /\ answer = [rows |-> RowsAt(0), target |-> 0]

-----------------------------------------------------------------------------
(* A mutation of the store, which needs the gate, forks the batch's fiber. *)
Mutate(r) ==
  /\ closed = "no" /\ Version < MaxVersion
  /\ Queries \subseteq At("idle")
  /\ changed' = Append(changed, r)
  /\ fiber' = [fiber EXCEPT ![Version + 1].at = "forked"]
  /\ UNCHANGED <<mirror, known, worker, children, exited, stopping, closed, answer>>

(* A query takes the gate, or a grouped refresh begins, at the store's version. *)
Ask(q) ==
  /\ closed = "no" /\ q \in At("idle")
  /\ q \in Queries => Queries \subseteq At("idle")
  /\ fiber' = [fiber EXCEPT ![q].at = "forked", ![q].target = Version]
  /\ UNCHANGED <<changed, mirror, known, worker, children, exited, stopping, closed, answer>>

(* The rows a query falls back to: the store's own. *)
FromMemory(F) ==
  answer' = IF \E q \in F \cap Queries : TRUE
              THEN LET q == CHOOSE g \in F \cap Queries : TRUE
                   IN  [rows |-> RowsAt(Version), target |-> fiber[q].target]
              ELSE answer

Request(type, f, version, rows) == [type |-> type, from |-> f, version |-> version, rows |-> rows]

OwnRequest(f) == IF f \in Batches THEN Request("apply", f, f, {}) ELSE Request("query", f, 0, {})

Pairs(rows) == {<<r, rows[r]>> : r \in Rows}

(* The k-th request of the init that carries the copy c. *)
InitRequest(f, c, k) ==
  CASE ~ChunkedInit              -> Request("init", f, c.version, Pairs(c.rows))
    [] ChunkedInit /\ k = 0      -> Request("initStart", f, c.version, {})
    [] ChunkedInit /\ k \in Rows -> Request("initRows", f, c.version, {<<k, c.rows[k]>>})
    [] OTHER                     -> Request("initCommit", f, c.version, {})

LastInitRequest == IF ChunkedInit THEN NumRows + 1 ELSE 0

(* ChdbProcessClient.request: rejected once the exit is known; a child that *)
(* died unnoticed takes no message, and the send may already fail.          *)
Send(cs, f, request, next) ==
  \/ /\ ~cs[worker].noticed
     /\ children' = IF cs[worker].alive
                      THEN [cs EXCEPT ![worker].inbox = Append(@, request)] ELSE cs
     /\ fiber' = [fiber EXCEPT ![f] = next]
     /\ UNCHANGED answer
  \/ /\ ~cs[worker].alive
     /\ children' = cs
     /\ fiber' = [fiber EXCEPT ![f] = Idle]
     /\ FromMemory({f})

(* The fiber's state once its own request is sent. *)
Asking(f) == [Idle EXCEPT !.at = "request", !.target = fiber[f].target]

(* A fiber starts: a batch enters the mirror; then ensureReady, which may   *)
(* begin a restart, and the fiber's own request.                            *)
Start(f) ==
  /\ f \in At("forked")
  /\ f \in Batches => \A u \in At("forked") \cap Batches : u >= f
  /\ mirror' = IF f \in Batches
                 THEN [rows |-> After(mirror.rows, mirror.version, f), version |-> f]
                 ELSE mirror
  /\ \/ /\ exited /\ RestartOnExit /\ closed = "no"
        /\ fiber' = [fiber EXCEPT ![f].at = "respawn"]
        /\ stopping' = TRUE
        /\ UNCHANGED <<children, answer>>
     \/ /\ ~(exited /\ RestartOnExit /\ closed = "no")
        /\ Send(children, f, OwnRequest(f), Asking(f))
        /\ UNCHANGED stopping
  /\ UNCHANGED <<changed, known, worker, exited, closed>>

(* The rest of restart: the old child is dead, so its termination settles at *)
(* once, before the event loop turns to the children; another is spawned and *)
(* sent the first request of its init.                                       *)
Respawn(f) ==
  /\ f \in At("respawn")
  /\ worker' = Len(children) + 1
  /\ exited' = FALSE /\ stopping' = FALSE
  /\ fiber' = [fiber EXCEPT ![f].at = "init", ![f].copy = mirror]
  /\ children' = Append(children, [NewChild EXCEPT !.inbox = <<InitRequest(f, mirror, 0)>>])
  /\ UNCHANGED <<changed, mirror, known, closed, answer>>

NoRespawn == At("respawn") = {}

-----------------------------------------------------------------------------
(* Seeded fault of Flushed: a write that fails takes its mutations with it. *)
FlushedForgets(c) ==
  LET end == Contiguous(c.version, c.pending)
  IN  IF end = c.version
        THEN {c}
        ELSE {[c EXCEPT !.rows = After(@, c.version, end), !.version = end,
                        !.pending = @ \ (c.version .. end), !.failed = FALSE],
              [c EXCEPT !.failed = TRUE, !.pending = @ \ (c.version .. end)]}

(* What a child may become when it flushes: the contiguous run is written   *)
(* or the write fails and is kept for the next flush.                       *)
Flushed(c) ==
  LET end == Contiguous(c.version, c.pending)
  IN  IF end = c.version
        THEN {c}
        ELSE {[c EXCEPT !.rows = After(@, c.version, end), !.version = end,
                        !.pending = @ \ (c.version .. end), !.failed = FALSE],
              [c EXCEPT !.failed = TRUE]}

(* The child p has taken its first message and become c; ok is its answer. *)
Answer(p, c, ok) ==
  LET m == Head(c.inbox)
      response == [from |-> m.from, ok |-> ok,
                   version |-> IF m.type = "query" THEN c.version ELSE 0,
                   rows |-> IF m.type = "query" THEN c.rows ELSE NoRows]
  IN  children' = [children EXCEPT ![p] =
        [c EXCEPT !.inbox = Tail(@),
                  !.outbox = IF m.from = Nobody THEN @ ELSE Append(@, response)]]

(* InProcessChdbSnapshotBackend.init: version and pending mutations are     *)
(* replaced before the rows are written, which may fail; of two values for  *)
(* a row at one version the table answers with either.                      *)
LoadRows(p, c, version, pairs) ==
  LET bare == [c EXCEPT !.version = version, !.pending = {}, !.failed = FALSE, !.rows = NoRows]
  IN  \/ \E table \in [Rows -> {pair[2] : pair \in pairs} \cup {Missing}] :
            /\ \A r \in Rows : \/ <<r, table[r]>> \in pairs
                               \/ table[r] = Missing /\ \A pair \in pairs : pair[1] # r
            /\ Answer(p, [bare EXCEPT !.rows = table, !.init = NoInit], TRUE)
      \/ InitMayFail /\ Answer(p, bare, FALSE)

(* InProcessChdbSnapshotBackend.applyBatch: what is newer than the child    *)
(* joins the pending mutations, and the flush it schedules comes before the *)
(* next message.                                                            *)
ApplyBatch(p, c, version) ==
  \E d \in Flushed([c EXCEPT !.pending = IF version > c.version THEN @ \cup {version} ELSE @]) :
     Answer(p, d, TRUE)

(* snapshot and groupedRefreshSnapshot: flush, then the rows of the table   *)
(* with the child's version; the SQL may fail, and a failed flush fails it. *)
Snapshot(p, c) ==
  \E d \in Flushed(c), ok \in BOOLEAN : (ok => ~d.failed) /\ Answer(p, d, ok)

(* The child handles its next message. *)
Handle(p) ==
  LET c == children[p]
      m == Head(c.inbox)
  IN  /\ c.alive /\ c.inbox # <<>>
      /\ \/ m.type = "init" /\ LoadRows(p, c, m.version, m.rows)
         \/ /\ m.type = "initStart"
            /\ Answer(p, [c EXCEPT !.init = [version |-> m.version, rows |-> {}, open |-> TRUE]], TRUE)
         \/ /\ m.type = "initRows"
            /\ Answer(p, [c EXCEPT !.init.rows = IF c.init.open THEN @ \cup m.rows ELSE @], TRUE)
         \/ /\ m.type = "initCommit" /\ c.init.open
            /\ LoadRows(p, c, c.init.version, c.init.rows)
         \/ m.type = "initCommit" /\ ~c.init.open /\ Answer(p, c, FALSE)
         \/ m.type = "apply" /\ ApplyBatch(p, c, m.version)
         \/ m.type = "query" /\ Snapshot(p, c)
      /\ UNCHANGED <<changed, mirror, known, worker, exited, stopping, closed, fiber, answer>>

-----------------------------------------------------------------------------
(* Seeded fault of Settle: rows of an older version are taken as well. *)
SettleBehind(f, m) ==
  /\ fiber' = [fiber EXCEPT ![f] = Idle]
  /\ known' = CASE m.ok /\ f \in Batches -> mirror.version
                [] m.ok /\ f \in Readers -> m.version
                [] OTHER                 -> known
  /\ IF m.ok /\ f \in Readers /\ m.version <= fiber[f].target
       THEN answer' = IF f \in Queries \/ closed = "no"
                        THEN [rows |-> m.rows, target |-> fiber[f].target] ELSE answer
       ELSE FromMemory({f})

(* A fiber whose own request is answered. *)
Settle(f, m) ==
  /\ fiber' = [fiber EXCEPT ![f] = Idle]
  /\ known' = CASE m.ok /\ f \in Batches -> mirror.version
                [] m.ok /\ f \in Readers -> m.version
                [] OTHER                 -> known
  /\ IF m.ok /\ f \in Readers /\ m.version = fiber[f].target
       THEN answer' = IF f \in Queries \/ closed = "no"
                        THEN [rows |-> m.rows, target |-> fiber[f].target] ELSE answer
       ELSE FromMemory({f})

(* A response of child p reaches the parent, and the fiber that awaits it   *)
(* runs on: to the next request of its init, from there to its own request. *)
Receive(p) ==
  LET m == Head(children[p].outbox)
      f == m.from
      taken == [children EXCEPT ![p].outbox = Tail(@)]
      sent == fiber[f].chunk
      last == sent = LastInitRequest
  IN  /\ children[p].outbox # <<>> /\ NoRespawn
      /\ \/ /\ f \in At("init") /\ m.ok /\ ~last
            /\ Send(taken, f, InitRequest(f, fiber[f].copy, sent + 1),
                    [fiber[f] EXCEPT !.chunk = sent + 1])
            /\ UNCHANGED known
         \/ /\ f \in At("init") /\ m.ok /\ last
            /\ known' = fiber[f].copy.version
            /\ Send(taken, f, OwnRequest(f), Asking(f))
         \/ /\ f \in At("init") /\ ~m.ok
            /\ fiber' = [fiber EXCEPT ![f] = Idle]
            /\ FromMemory({f})
            /\ children' = taken
            /\ UNCHANGED known
         \/ /\ f \in At("request")
            /\ Settle(f, m)
            /\ children' = taken
      /\ UNCHANGED <<changed, mirror, worker, exited, stopping, closed>>

(* A child dies; what it has sent may still arrive until its exit does. *)
Crash(p) ==
  /\ children[p].alive
  /\ Cardinality({k \in DOMAIN children : ~children[k].alive}) < MaxCrashes
  /\ children' = [children EXCEPT ![p].alive = FALSE, ![p].inbox = <<>>]
  /\ UNCHANGED <<changed, mirror, known, worker, exited, stopping, closed, fiber, answer>>

(* Seeded fault of NoticeExit: the pending requests stay pending. *)
NoticeExitQuietly(p) ==
  /\ ~children[p].alive /\ ~children[p].noticed /\ NoRespawn
  /\ children' = [children EXCEPT ![p] = [NewChild EXCEPT !.alive = FALSE, !.noticed = TRUE]]
  /\ exited' = (exited \/ (p = worker /\ ~stopping))
  /\ UNCHANGED <<changed, mirror, known, worker, stopping, closed, fiber, answer>>

(* The exit of child p is noticed: every pending request fails, whichever   *)
(* child it was sent to.                                                    *)
NoticeExit(p) ==
  LET waiting == At("init") \cup At("request")
      Disowned(c) == [c EXCEPT !.outbox = <<>>,
                               !.inbox = [i \in DOMAIN @ |-> [@[i] EXCEPT !.from = Nobody]]]
  IN  /\ ~children[p].alive /\ ~children[p].noticed /\ NoRespawn
      /\ children' = [k \in DOMAIN children |->
                        IF k = p THEN [NewChild EXCEPT !.alive = FALSE, !.noticed = TRUE]
                                 ELSE Disowned(children[k])]
      /\ exited' = (exited \/ (p = worker /\ ~stopping))
      /\ fiber' = [f \in Fibers |-> IF f \in waiting THEN Idle ELSE fiber[f]]
      /\ FromMemory(waiting)
      /\ UNCHANGED <<changed, mirror, known, worker, stopping, closed>>

(* The backend closes once the worker's shutdown has let go of the gate. *)
CloseBegin ==
  /\ closed = "no"
  /\ Queries \subseteq At("idle")
  /\ closed' = "closing" /\ stopping' = TRUE
  /\ UNCHANGED <<changed, mirror, known, worker, children, exited, fiber, answer>>

(* terminate: SIGTERM, and SIGKILL a little later, end the child whatever   *)
(* it has left to do.                                                       *)
Terminated(c) == [c EXCEPT !.alive = FALSE, !.inbox = <<>>]

(* The child that is the worker now is asked to close, and terminated when  *)
(* it answers or its time is up.                                            *)
CloseEnd ==
  /\ closed = "closing"
  /\ closed' = "yes"
  /\ children' = [children EXCEPT ![worker] = Terminated(@)]
  /\ UNCHANGED <<changed, mirror, known, worker, exited, stopping, fiber, answer>>

Next ==
  \/ \E r \in Rows : Mutate(r)
  \/ \E q \in Readers : Ask(q)
  \/ \E f \in Fibers : Start(f) \/ Respawn(f)
  \/ \E p \in DOMAIN children : Handle(p) \/ Receive(p) \/ Crash(p) \/ NoticeExit(p)
  \/ CloseBegin \/ CloseEnd

Spec == Init /\ [][Next]_vars

(* The scheduler runs every fiber on, and a child that lives answers.       *)
Fairness ==
  /\ \A f \in Fibers : WF_vars(Start(f)) /\ WF_vars(Respawn(f))
  /\ \A p \in 1 .. 1 + MaxCrashes * Cardinality(Fibers) :
        /\ WF_vars(p \in DOMAIN children /\ Handle(p))
        /\ WF_vars(p \in DOMAIN children /\ Receive(p))
        /\ WF_vars(p \in DOMAIN children /\ NoticeExit(p))

FairSpec == Spec /\ Fairness

-----------------------------------------------------------------------------
Values == {Missing} \cup 0 .. MaxVersion

Messages == [type : {"init", "initStart", "initRows", "initCommit", "apply", "query"},
             from : Fibers \cup {Nobody}, version : 0 .. MaxVersion, rows : SUBSET (Rows \X Values)]

(* Types; only awaited answers travel, and a child no longer needed by      *)
(* anybody is never written to: the boxes of a dead child are empty.        *)
TypeOK ==
  /\ changed \in Seq(Rows) /\ Version <= MaxVersion
  /\ mirror \in [rows : [Rows -> Values], version : 0 .. MaxVersion]
  /\ known \in 0 .. MaxVersion /\ worker = Len(children)
  /\ {exited, stopping} \subseteq BOOLEAN /\ closed \in {"no", "closing", "yes"}
  /\ fiber \in [Fibers -> [at : {"idle", "forked", "respawn", "init", "request"},
                             target : 0 .. MaxVersion, chunk : 0 .. NumRows + 1,
                             copy : [rows : [Rows -> Values], version : 0 .. MaxVersion]]]
  /\ answer \in [rows : [Rows -> Values], target : 0 .. MaxVersion]
  /\ \A p \in DOMAIN children : LET c == children[p] IN
        /\ {c.alive, c.noticed, c.failed, c.init.open} \subseteq BOOLEAN
        /\ c.version \in 0 .. MaxVersion /\ c.rows \in [Rows -> Values]
        /\ c.pending \subseteq Batches
        /\ \A i \in DOMAIN c.inbox : c.inbox[i] \in Messages
        /\ \A i \in DOMAIN c.outbox : c.outbox[i].from \in Fibers
        /\ ~c.alive => c.inbox = <<>>

(* The fence: whatever answer a reader takes, from the child or from memory, *)
(* holds the rows of the version it asked for, across lost and repeated      *)
(* mutations, failed writes, crashes and restarts.                           *)
AcceptedExact == answer.rows = RowsAt(answer.target)

(* What a query takes is well typed and exact. *)
FenceSound == TypeOK /\ AcceptedExact

(* No mutation is lost for good: while the worker lives, each one is in its  *)
(* table or its pending ones, on its way to it, or carried by a copy of the  *)
(* mirror that a fiber has sent or is about to send.                         *)
NoMutationLost ==
  LET c == children[worker]
      OnItsWay(u) == \E i \in DOMAIN c.inbox : LET m == c.inbox[i] IN
                       \/ m.type = "apply" /\ m.version = u
                       \/ m.type \in {"init", "initStart"} /\ m.version >= u
  IN  c.alive /\ ~exited =>
        \A u \in 1 .. Version :
           \/ u <= c.version
           \/ u \in c.pending
           \/ OnItsWay(u)
           \/ c.init.open /\ c.init.version >= u
           \/ u \in At("forked") \cup At("init")
           \/ ~NoRespawn

(* Every query ends, whatever happens to the children. *)
AnswersCome == \A q \in Readers : q \notin At("idle") ~> q \in At("idle")
=============================================================================
