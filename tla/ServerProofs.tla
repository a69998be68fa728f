----------------------------- MODULE ServerProofs -----------------------------
(***************************************************************************)
(* What the server promises around its queries, for any log, batch size,   *)
(* bad records and configuration, and for any clients and calls.           *)
(*                                                                         *)
(* First the runtime: the worker follows its log and only what it applied  *)
(* is acknowledged, no request for a health sync is forgotten, and health  *)
(* is never better than what it sums up.  The proof of the first follows   *)
(* the source through its states; of the second it tells which of the      *)
(* three flags of the scheduler imply one another.                         *)
(*                                                                         *)
(* Then the websocket transports: a client gets what it was sent, in order *)
(* and without a gap, what is counted of it is exact, and what waits for   *)
(* it has a bound.  The proof keeps, of each client, the sequence of all   *)
(* its responses wherever they are, and of each call the books of its      *)
(* requests, chunks and acks.                                              *)
(***************************************************************************)
EXTENDS ServerRuntime, WebsocketTransport, FanoutQueueProofs, FiniteSetTheorems

(****************************************************************************)
(*                              THE RUNTIME                                 *)
(****************************************************************************)

Statuses == {"ready", "degraded", "stopping"}

(* The records of the log after place a, up to place b. *)
LogRun(a, b) == [i \in 1..(b - a) |-> a + i]

SourceRecord ==
  [pc : {"reading", "batch", "dispatched", "committing", "closing", "over"},
   fetched : 0..Records, pending : Seq(Nat), batch : Seq(Nat), commits : Nat,
   last : BOOLEAN, aborted : BOOLEAN, fate : {"running", "failed", "interrupted"}]
WorkerRecord ==
  [mark : Statuses, chdb : {"ready", "degraded", "restarting", "stopped"},
   pressure : BOOLEAN, subscribers : SUBSET {"subscribe"}]
SyncRecord == [left : Seq({"server", KafkaTopic, ClientTopic}), status : Statuses, fresh : BOOLEAN]

SourceShape == source \in SourceRecord

RuntimeShape ==
  /\ worker \in [Topics -> WorkerRecord]
  /\ sync \in [Syncers -> SyncRecord]
  /\ sched \in [scheduled : BOOLEAN, pending : BOOLEAN, closed : BOOLEAN]
  /\ shown \in Statuses
  /\ closer \in {"open", "flushing", "stopping", "done"}
  /\ closing = (closer # "open")

(* A flush that pends has a fiber to do it in a scheduler that is open,    *)
(* and only a sync that is under way can still answer what was asked       *)
(* before it.                                                              *)
FlagsSound ==
  /\ sched.pending => sched.scheduled /\ ~sched.closed
  /\ \A s \in Syncers : sync[s].fresh => Syncing(s)

(* Where the source is, in terms of how far the worker has followed.       *)
SourceFollows ==
  LET at == Len(applied)
      pending == source.pending
      batch == source.batch
  IN /\ bad \subseteq 1..Records /\ commitPolicy \in {"after-ingest", "none"}
     /\ at \in 0..source.fetched /\ applied = LogRun(0, at)
     /\ \A r \in 1..at : r \notin bad
     /\ committed \subseteq 1..at /\ offset \in 0..at
     /\ Len(pending) < BatchSize /\ Len(batch) <= BatchSize
     /\ source.pc \in {"reading", "batch", "dispatched"} => source.commits = 0
     /\ source.pc = "reading" => batch = <<>> /\ pending = LogRun(at, source.fetched)
     /\ source.pc \in {"batch", "dispatched"} =>
          pending = <<>> /\ batch # <<>> /\ batch = LogRun(at, source.fetched)
     /\ source.pc = "committing" =>
          /\ pending = <<>> /\ at = source.fetched /\ source.commits < Len(batch) /\ Len(batch) <= at
          /\ batch = LogRun(at - Len(batch), at)
     /\ source.pc \in {"closing", "over"} =>
          (ToSet(batch) \cap committed # {} => ToSet(batch) \subseteq 1..at)

SourceInv == SourceShape /\ SourceFollows
SyncInv == RuntimeShape /\ FlagsSound /\ NoRequestForgotten
IInv == SourceInv /\ SyncInv

-----------------------------------------------------------------------------
(* A set of naturals that is not empty has a least element, which is what  *)
(* Min chooses.                                                            *)
LEMMA MinIsLeast ==
  ASSUME NEW S \in SUBSET Nat, S # {}
  PROVE  Min(S) \in S /\ \A k \in S : Min(S) <= k
<1>1. PICK m \in S : \A k \in S : ~ (<<k, m>> \in OpToRel(<, Nat))
  BY NatLessThanWellFounded, WFMin
<1>2. \A k \in S : ~ (k < m)
  BY <1>1 DEF OpToRel
<1>3. \A k \in S : m <= k
  BY <1>2
<1> QED BY <1>3 DEF Min

(* A run of the log as a sequence: its length, and which records it has.   *)
LEMMA RunFacts ==
  ASSUME NEW a \in Nat, NEW b \in Nat, a <= b
  PROVE  /\ LogRun(a, b) \in Seq(Nat) /\ Len(LogRun(a, b)) = b - a
         /\ DOMAIN LogRun(a, b) = 1..(b - a)
         /\ ToSet(LogRun(a, b)) = (a + 1)..b
         /\ LogRun(a, b) = <<>> <=> a = b
<1> DEFINE r == LogRun(a, b)
<1>1. r \in [1..(b - a) -> Nat] /\ b - a \in Nat
  BY DEF LogRun
<1>2. r \in Seq(Nat) /\ Len(r) = b - a /\ DOMAIN r = 1..(b - a)
  BY <1>1
<1>3. \A i \in 1..(b - a) : r[i] = a + i
  BY DEF LogRun
<1>4. \A n \in (a + 1)..b : n - a \in 1..(b - a) /\ r[n - a] = n
  BY <1>3
<1>5. ToSet(r) = (a + 1)..b
  BY <1>2, <1>3, <1>4 DEF ToSet
<1>6. r = <<>> <=> a = b
  BY <1>2
<1> QED BY <1>2, <1>5, <1>6

(* A run that ends where it begins is empty.                               *)
LEMMA EmptyRun ==
  ASSUME NEW a \in Nat
  PROVE  LogRun(a, a) = <<>> /\ ToSet(<<>>) = {}
<1>1. LogRun(a, a) = <<>>
  BY RunFacts
<1>2. ToSet(<<>>) = {}
  BY DEF ToSet
<1> QED BY <1>1, <1>2

(* One record more, and one run after the other.                           *)
LEMMA RunAppended ==
  ASSUME NEW a \in Nat, NEW b \in Nat, a <= b
  PROVE  Append(LogRun(a, b), b + 1) = LogRun(a, b + 1)
BY RunFacts DEF LogRun

(* Two runs of records that meet are one. *)
LEMMA RunsJoined ==
  ASSUME NEW a \in Nat, NEW b \in Nat, a <= b
  PROVE  LogRun(0, a) \o LogRun(a, b) = LogRun(0, b)
<1> DEFINE s == LogRun(0, a)
           t == LogRun(a, b)
<1>1. s \in Seq(Nat) /\ Len(s) = a /\ t \in Seq(Nat) /\ Len(t) = b - a
  BY SMTT(30), RunFacts
<1>2. (\A i \in 1..a : s[i] = i) /\ (\A i \in 1..(b - a) : t[i] = a + i)
  BY DEF LogRun
<1> HIDE DEF s, t
<1>3. s \o t \in Seq(Nat) /\ Len(s \o t) = b /\ DOMAIN (s \o t) = 1..b
  BY <1>1
<1>4. ASSUME NEW i \in 1..b PROVE (s \o t)[i] = i
  <2>1. CASE i <= a
    BY <1>1, <1>2, <2>1
  <2>2. CASE i > a
    <3>1. i - a \in 1..(b - a) /\ (s \o t)[i] = t[i - a]
      BY <1>1, <2>2
    <3> QED BY <1>2, <3>1
  <2>3. i <= a \/ i > a
    OBVIOUS
  <2> QED BY <2>1, <2>2, <2>3
<1>5. [i \in 1..b |-> i] \in Seq(Nat) /\ Len([i \in 1..b |-> i]) = b
  OBVIOUS
<1>6. s \o t = [i \in 1..b |-> i]
  BY <1>3, <1>4, <1>5, SeqEqual
<1> QED BY <1>6 DEF LogRun, s, t

(* What ingest applies of a batch is the run of it before its first bad    *)
(* record: all of it when it has none.                                     *)
LEMMA SafeIsRun ==
  ASSUME NEW a \in Nat, NEW b \in Nat, a <= b, NEW bads \in SUBSET Nat
  PROVE  \E m \in a..b : /\ Safe(LogRun(a, b), bads) = LogRun(a, m)
                         /\ \A r \in (a + 1)..m : r \notin bads
                         /\ IsSafe(LogRun(a, b), bads) => m = b
<1> DEFINE batch == LogRun(a, b)
           stops == {i \in DOMAIN batch : batch[i] \in bads}
<1>1. DOMAIN batch = 1..(b - a) /\ \A i \in 1..(b - a) : batch[i] = a + i
  BY RunFacts DEF LogRun
<1>2. ToSet(batch) = (a + 1)..b
  BY RunFacts
<1>3. CASE stops = {}
  <2>1. Safe(batch, bads) = batch
    BY <1>3 DEF Safe
  <2>2. \A r \in (a + 1)..b : r \notin bads
    <3> SUFFICES ASSUME NEW r \in (a + 1)..b PROVE r \notin bads
      OBVIOUS
    <3>1. r - a \in 1..(b - a) /\ batch[r - a] = r
      BY <1>1
    <3> QED BY <1>1, <1>3, <3>1
  <2> QED BY <2>1, <2>2
<1>4. CASE stops # {}
  <2>1. stops \in SUBSET Nat
    BY <1>1
  <2>2. Min(stops) \in stops /\ \A k \in stops : Min(stops) <= k
    BY <1>4, <2>1, MinIsLeast
  <2> DEFINE first == Min(stops)
             m == a + first - 1
  <2>3. Safe(batch, bads) = SubSeq(batch, 1, first - 1)
    BY <1>4 DEF Safe
  <2>4. first \in 1..(b - a) /\ \A k \in stops : first <= k
    BY <1>1, <2>2
  <2> HIDE DEF first
  <2>5. m \in a..b /\ m - a = first - 1
    BY <2>4
  <2>6. SubSeq(batch, 1, first - 1) = LogRun(a, m)
    <3>1. SubSeq(batch, 1, first - 1) = [i \in 1..(first - 1) |-> batch[i]]
      BY <2>4, RunFacts
    <3> QED BY <1>1, <2>4, <2>5, <3>1 DEF LogRun
  <2>7. \A r \in (a + 1)..m : r \notin bads
    <3> SUFFICES ASSUME NEW r \in (a + 1)..m PROVE r \notin bads
      OBVIOUS
    <3>1. r - a \in 1..(b - a) /\ batch[r - a] = r /\ r - a < first
      BY <1>1, <2>4, <2>5
    <3>2. r - a \notin stops
      BY <2>4, <3>1
    <3> QED BY <1>1, <3>1, <3>2
  <2>8. ~IsSafe(batch, bads)
    <3>1. batch[first] \in bads /\ batch[first] \in ToSet(batch)
      BY <1>1, <1>2, <2>2, <2>4 DEF first
    <3> QED BY <3>1 DEF IsSafe
  <2> QED BY <2>3, <2>5, <2>6, <2>7, <2>8
<1> QED BY <1>3, <1>4


-----------------------------------------------------------------------------
(* A record more is pending, or makes the batch full.                      *)
LEMMA ReceiveFollows ==
  ASSUME SourceInv, Receive
  PROVE  SourceInv'
<1> USE KafkaAssumption DEF SourceInv
<1> DEFINE at == Len(applied)
           more == Append(source.pending, source.fetched + 1)
<1>1. source.pc = "reading" /\ source.fetched \in 0..(Records - 1) /\ at \in 0..source.fetched
  BY DEF Receive, SourceShape, SourceRecord, SourceFollows
<1>0. source.fetched + 1 \in 0..Records /\ source.pending \in Seq(Nat)
  BY <1>1 DEF SourceShape, SourceRecord
<1>a. source.pending = LogRun(at, source.fetched) /\ at \in Nat /\ source.fetched \in Nat /\ at <= source.fetched
  BY <1>1 DEF SourceFollows
<1>b. more = LogRun(at, source.fetched + 1)
  BY <1>1, <1>a, RunAppended
<1>c. more \in Seq(Nat) /\ Len(more) = Len(source.pending) + 1 /\ more # <<>>
  BY <1>0
<1>2. /\ more = LogRun(at, source.fetched + 1) /\ more \in Seq(Nat)
      /\ Len(more) = Len(source.pending) + 1 /\ more # <<>>
  BY <1>b, <1>c
<1> HIDE DEF more
<1>3. Len(source.pending) < BatchSize /\ Len(source.pending) \in Nat
  BY DEF SourceFollows, SourceShape, SourceRecord
<1>4. UNCHANGED <<bad, commitPolicy, applied, committed, offset>> /\ source' = Received(source)
  BY DEF Receive
<1>5. CASE Len(more) >= BatchSize
  <2>1. source' = [source EXCEPT !.pc = "batch", !.batch = more, !.pending = <<>>, !.last = FALSE,
                                 !.fetched = source.fetched + 1]
    BY <1>2, <1>4, <1>5 DEF Received, Flushed, SourceShape, SourceRecord, more
  <2>2. SourceShape'
    <3>1. <<>> \in Seq(Nat)
      OBVIOUS
    <3> QED BY <1>0, <1>2, <2>1, <3>1 DEF SourceShape, SourceRecord
  <2>3. /\ source'.pc = "batch" /\ source'.batch = more /\ source'.pending = <<>>
        /\ source'.fetched = source.fetched + 1 /\ source'.commits = source.commits
    BY <2>1 DEF SourceShape, SourceRecord
  <2>4. SourceFollows'
    BY SMTT(30), <1>1, <1>2, <1>3, <1>4, <2>3 DEF SourceFollows
  <2> QED BY <2>2, <2>4
<1>6. CASE ~(Len(more) >= BatchSize)
  <2>1. source' = [source EXCEPT !.fetched = source.fetched + 1, !.pending = more]
    BY <1>2, <1>4, <1>6 DEF Received, SourceShape, SourceRecord, more
  <2>2. SourceShape'
    BY <1>0, <1>2, <2>1 DEF SourceShape, SourceRecord
  <2>3. /\ source'.pc = "reading" /\ source'.batch = source.batch /\ source'.pending = more
        /\ source'.fetched = source.fetched + 1 /\ source'.commits = source.commits
    BY <1>1, <2>1 DEF SourceShape, SourceRecord
  <2>4. SourceFollows'
    BY <1>1, <1>2, <1>3, <1>4, <1>6, <2>3 DEF SourceFollows
  <2> QED BY <2>2, <2>4
<1> QED BY <1>5, <1>6

(* What fails keeps what it was doing, and nothing follows it.             *)
LEMMA FailingFollows ==
  ASSUME SourceInv, source' = Failing(source), UNCHANGED <<bad, commitPolicy, applied, committed, offset>>,
         ToSet(source.batch) \cap committed # {} => ToSet(source.batch) \subseteq 1..Len(applied)
  PROVE  SourceInv'
<1> USE DEF SourceInv
<1>1. SourceShape'
  BY DEF SourceShape, SourceRecord, Failing
<1>2. /\ source'.pc = "closing" /\ source'.batch = source.batch /\ source'.pending = source.pending
      /\ source'.fetched = source.fetched
  BY DEF Failing, SourceShape, SourceRecord
<1>3. SourceFollows'
  BY <1>2 DEF SourceFollows
<1> QED BY <1>1, <1>3

(* The records of a batch that is not applied come after what is, so none  *)
(* of them is committed.                                                   *)
LEMMA UnappliedIsUncommitted ==
  ASSUME SourceInv, source.pc \in {"reading", "batch", "dispatched"}
  PROVE  ToSet(source.batch) \cap committed = {}
<1>1. CASE source.pc = "reading"
  BY <1>1 DEF SourceInv, SourceFollows, ToSet
<1>2. CASE source.pc # "reading"
  <2>1. ToSet(source.batch) = (Len(applied) + 1)..source.fetched
    BY SMTT(30), <1>2, RunFacts DEF SourceInv, SourceFollows, SourceShape, SourceRecord
  <2>2. committed \subseteq 1..Len(applied) /\ Len(applied) \in Nat
    BY DEF SourceInv, SourceFollows, SourceShape, SourceRecord
  <2> QED BY <2>1, <2>2
<1> QED BY <1>1, <1>2

(* The stream of the consumer ends. *)
LEMMA StreamEndsFollows ==
  ASSUME SourceInv, StreamEnds
  PROVE  SourceInv'
<1> USE KafkaAssumption
<1>1. source.pc = "reading" /\ UNCHANGED <<bad, commitPolicy, applied, committed, offset>>
  BY DEF StreamEnds
<1>2. CASE source' = Failing(source)
  BY <1>1, <1>2, FailingFollows, UnappliedIsUncommitted
<1>3. CASE source' = Flushed(source, TRUE)
  <2> USE DEF SourceInv
  <2> DEFINE next == IF source.pending = <<>> THEN "closing" ELSE "batch"
  <2>0. source' = [source EXCEPT !.pc = next, !.batch = source.pending, !.pending = <<>>, !.last = TRUE]
    BY <1>3 DEF Flushed
  <2>1. SourceShape'
    <3>1. next \in {"batch", "closing"} /\ source.pending \in Seq(Nat) /\ <<>> \in Seq(Nat)
      BY DEF SourceShape, SourceRecord
    <3> HIDE DEF next
    <3> QED BY <2>0, <3>1 DEF SourceShape, SourceRecord
  <2>2. /\ source'.pc = (IF source.pending = <<>> THEN "closing" ELSE "batch")
        /\ source'.batch = source.pending /\ source'.pending = <<>>
        /\ source'.fetched = source.fetched /\ source'.commits = source.commits
    BY <1>3 DEF Flushed, SourceShape, SourceRecord
  <2>3. source.pending = <<>> => ToSet(source.pending) = {}
    BY DEF ToSet
  <2>4. SourceFollows'
    BY <1>1, <2>2, <2>3 DEF SourceFollows, SourceShape, SourceRecord
  <2> QED BY <2>1, <2>4
<1> QED BY <1>2, <1>3 DEF StreamEnds

(* A batch is handed to the source. *)
LEMMA DispatchBatchFollows ==
  ASSUME SourceInv, DispatchBatch
  PROVE  SourceInv'
<1>1. source.pc = "batch" /\ UNCHANGED <<bad, commitPolicy, applied, committed, offset>>
  BY DEF DispatchBatch
<1>2. CASE source' = Failing(source)
  BY <1>1, <1>2, FailingFollows, UnappliedIsUncommitted
<1>3. CASE source' = Dispatched(source)
  <2> USE DEF SourceInv
  <2>1. SourceShape'
    BY <1>3 DEF SourceShape, SourceRecord, Dispatched
  <2>2. /\ source'.pc = "dispatched" /\ source'.batch = source.batch /\ source'.pending = source.pending
        /\ source'.fetched = source.fetched /\ source'.commits = source.commits
    BY <1>3 DEF Dispatched, SourceShape, SourceRecord
  <2>3. SourceFollows'
    BY <1>1, <2>2 DEF SourceFollows
  <2> QED BY <2>1, <2>3
<1> QED BY <1>2, <1>3 DEF DispatchBatch


(* A batch that is done is forgotten, and the source reads on or closes.   *)
LEMMA BatchDoneShape ==
  ASSUME SourceShape
  PROVE  /\ BatchDone(source) \in SourceRecord
         /\ BatchDone(source).pc \in {"reading", "closing"} /\ BatchDone(source).batch = <<>>
         /\ BatchDone(source).pending = source.pending /\ BatchDone(source).fetched = source.fetched
         /\ BatchDone(source).commits = 0
<1> DEFINE next == IF source.last THEN "closing" ELSE "reading"
<1>1. next \in {"reading", "closing"} /\ <<>> \in Seq(Nat)
  OBVIOUS
<1>2. BatchDone(source) = [source EXCEPT !.pc = next, !.batch = <<>>, !.commits = 0]
  BY DEF BatchDone
<1> HIDE DEF next
<1> DEFINE done == [source EXCEPT !.pc = next, !.batch = <<>>, !.commits = 0]
<1>3. done \in SourceRecord
  BY <1>1 DEF SourceShape, SourceRecord
<1>4. /\ done.pc = next /\ done.batch = <<>> /\ done.pending = source.pending
      /\ done.fetched = source.fetched /\ done.commits = 0
  BY DEF SourceShape, SourceRecord
<1> QED BY <1>1, <1>2, <1>3, <1>4

(* The worker follows the batch to its end, or to its first bad record and *)
(* then the source closes.                                                 *)
LEMMA ApplyBatchFollows ==
  ASSUME SourceInv, ApplyBatch
  PROVE  SourceInv'
<1> USE KafkaAssumption
<1> DEFINE at == Len(applied)
           batch == source.batch
<1>1. /\ source.pc = "dispatched" /\ UNCHANGED <<bad, commitPolicy, committed>>
      /\ applied' = applied \o Safe(batch, bad) /\ source' = Ingested(source, bad, commitPolicy)
      /\ IsSafe(batch, bad) => offset' = BatchOffset(batch)
      /\ ~IsSafe(batch, bad) => offset' = offset
  BY DEF ApplyBatch, healthVars
<1>2. /\ at \in Nat /\ source.fetched \in Nat /\ at <= source.fetched /\ source.fetched <= Records
      /\ applied = LogRun(0, at) /\ batch = LogRun(at, source.fetched) /\ batch # <<>>
      /\ source.pending = <<>> /\ source.commits = 0
      /\ bad \in SUBSET Nat /\ Len(batch) <= BatchSize
  BY <1>1 DEF SourceInv, SourceFollows, SourceShape, SourceRecord
<1>a. \E m \in at..source.fetched :
        /\ Safe(LogRun(at, source.fetched), bad) = LogRun(at, m)
        /\ \A r \in (at + 1)..m : r \notin bad
        /\ IsSafe(LogRun(at, source.fetched), bad) => m = source.fetched
  <2> HIDE DEF at
  <2> QED BY <1>2, SafeIsRun
<1>3. PICK m \in at..source.fetched :
        /\ Safe(batch, bad) = LogRun(at, m)
        /\ \A r \in (at + 1)..m : r \notin bad
        /\ IsSafe(batch, bad) => m = source.fetched
  <2> HIDE DEF at, batch
  <2> QED BY <1>2, <1>a
<1>b. m \in Nat /\ at <= m /\ m <= source.fetched
  BY <1>2, <1>3
<1>4. applied' = LogRun(0, m) /\ Len(applied') = m
  <2> HIDE DEF at, batch
  <2>1. applied' = LogRun(0, at) \o LogRun(at, m)
    BY <1>1, <1>2, <1>3
  <2>2. applied' = LogRun(0, m)
    BY <1>2, <1>b, <2>1, RunsJoined
  <2> QED BY <1>b, <2>2, RunFacts
<1>5. \A r \in 1..m : r \notin bad
  BY <1>2, <1>3 DEF SourceInv, SourceFollows
<1>c. /\ bad \subseteq 1..Records /\ commitPolicy \in {"after-ingest", "none"}
      /\ committed \subseteq 1..m /\ offset \in 0..m
  BY <1>2, <1>b DEF SourceInv, SourceFollows
<1> HIDE DEF at, batch
<1>6. Len(batch) = source.fetched - at /\ Len(batch) >= 1
      /\ ToSet(batch) = (at + 1)..source.fetched
  <2> HIDE DEF at, batch
  <2>1. /\ Len(LogRun(at, source.fetched)) = source.fetched - at
        /\ ToSet(LogRun(at, source.fetched)) = (at + 1)..source.fetched
        /\ LogRun(at, source.fetched) = <<>> <=> at = source.fetched
    BY ZenonT(30), <1>2, RunFacts
  <2> QED BY <1>2, <2>1
<1>7. CASE ~IsSafe(batch, bad)
  <2>1. source' = Failing(source)
    BY <1>1, <1>7 DEF Ingested, batch
  <2>2. SourceShape'
    BY <2>1 DEF SourceInv, SourceShape, SourceRecord, Failing
  <2>3. /\ source'.pc = "closing" /\ source'.batch = batch /\ source'.pending = source.pending
        /\ source'.fetched = source.fetched
    BY <2>1 DEF SourceInv, SourceShape, SourceRecord, Failing, batch
  <2>4. ToSet(batch) \cap committed = {}
    BY <1>1, UnappliedIsUncommitted DEF batch
  <2>5. SourceFollows'
    BY SMTT(30), <1>1, <1>2, <1>b, <1>c, <1>4, <1>5, <1>7, <2>3, <2>4 DEF SourceFollows
  <2> QED BY <2>2, <2>5 DEF SourceInv
<1>8. CASE IsSafe(batch, bad)
  <2>1. m = source.fetched /\ offset' = source.fetched
    <3>1. batch[Len(batch)] = source.fetched
      BY <1>2, <1>6 DEF LogRun
    <3> QED BY <1>1, <1>3, <1>8, <3>1 DEF BatchOffset, Last
  <2>2. CASE commitPolicy = "after-ingest"
    <3>1. source' = [source EXCEPT !.pc = "committing"]
      BY <1>1, <1>8, <2>2 DEF Ingested, batch
    <3>2. SourceShape'
      BY <3>1 DEF SourceInv, SourceShape, SourceRecord
    <3>3. /\ source'.pc = "committing" /\ source'.batch = batch /\ source'.pending = source.pending
          /\ source'.fetched = source.fetched /\ source'.commits = source.commits
      BY <3>1 DEF SourceInv, SourceShape, SourceRecord, batch
    <3>4. batch = LogRun(source.fetched - Len(batch), source.fetched)
      BY <1>2, <1>6
    <3>5. SourceFollows'
      <4>1. Len(applied') \in 0..source'.fetched /\ applied' = LogRun(0, Len(applied'))
        BY <1>2, <1>b, <1>4, <2>1, <3>3
      <4>2. /\ bad' \subseteq 1..Records /\ commitPolicy' \in {"after-ingest", "none"}
            /\ \A r \in 1..Len(applied') : r \notin bad'
            /\ committed' \subseteq 1..Len(applied') /\ offset' \in 0..Len(applied')
        BY <1>1, <1>b, <1>c, <1>4, <1>5, <2>1
      <4>3. Len(source'.pending) < BatchSize /\ Len(source'.batch) <= BatchSize
        BY <1>2, <3>3
      <4>4. /\ source'.pending = <<>> /\ Len(applied') = source'.fetched
            /\ source'.commits < Len(source'.batch) /\ Len(source'.batch) <= Len(applied')
            /\ source'.batch = LogRun(Len(applied') - Len(source'.batch), Len(applied'))
        BY <1>2, <1>4, <1>6, <2>1, <3>3, <3>4
      <4> QED BY <3>3, <4>1, <4>2, <4>3, <4>4 DEF SourceFollows
    <3> QED BY <3>2, <3>5 DEF SourceInv
  <2>3. CASE commitPolicy # "after-ingest"
    <3>1. source' = BatchDone(source)
      BY <1>1, <1>8, <2>3 DEF Ingested, batch
    <3>2. SourceShape'
      BY <3>1, BatchDoneShape DEF SourceInv, SourceShape, SourceRecord
    <3>3. /\ source'.pc \in {"reading", "closing"} /\ source'.batch = <<>> /\ source'.pending = <<>>
          /\ source'.fetched = source.fetched /\ source'.commits = 0
      BY <1>2, <3>1, BatchDoneShape DEF SourceInv
    <3>4. <<>> = LogRun(source.fetched, source.fetched) /\ ToSet(<<>>) = {}
      BY <1>2, EmptyRun
    <3>5. SourceFollows'
      <4>1. Len(applied') = source'.fetched /\ applied' = LogRun(0, Len(applied'))
        BY <1>2, <1>b, <1>4, <2>1, <3>3
      <4>2. /\ bad' \subseteq 1..Records /\ commitPolicy' \in {"after-ingest", "none"}
            /\ \A r \in 1..Len(applied') : r \notin bad'
            /\ committed' \subseteq 1..Len(applied') /\ offset' \in 0..Len(applied')
        BY <1>1, <1>b, <1>c, <1>4, <1>5, <2>1
      <4>3. Len(source'.pending) < BatchSize /\ Len(source'.batch) <= BatchSize
        BY <1>2, <3>3
      <4>4. source'.pending = LogRun(Len(applied'), source'.fetched) /\ ToSet(source'.batch) = {}
        BY <2>1, <3>3, <3>4, <4>1
      <4>5. Len(applied') \in 0..source'.fetched
        BY <1>2, <3>3, <4>1
      <4> QED BY <3>3, <4>1, <4>2, <4>3, <4>4, <4>5 DEF SourceFollows
    <3> QED BY <3>2, <3>5 DEF SourceInv
  <2> QED BY <2>2, <2>3
<1> QED BY <1>7, <1>8

(* The source commits a record it has applied. *)
LEMMA CommitRecordFollows ==
  ASSUME SourceInv, CommitRecord
  PROVE  SourceInv'
<1> USE KafkaAssumption
<1> DEFINE at == Len(applied)
           batch == source.batch
<1>1. source.pc = "committing" /\ UNCHANGED <<bad, commitPolicy, applied, offset>>
  BY DEF CommitRecord
<1>2. /\ at \in Nat /\ at = source.fetched /\ source.pending = <<>> /\ source.commits \in Nat
      /\ source.commits < Len(batch) /\ Len(batch) \in Nat /\ Len(batch) <= at /\ Len(batch) <= BatchSize
      /\ batch = LogRun(at - Len(batch), at)
  BY <1>1 DEF SourceInv, SourceFollows, SourceShape, SourceRecord
<1> DEFINE from == at - Len(batch)
<1>a. from \in Nat /\ at \in Nat /\ Len(batch) \in Nat /\ from <= at /\ at - from = Len(batch)
  BY <1>2
<1>3. ToSet(batch) \subseteq 1..at /\ \A i \in 1..Len(batch) : batch[i] \in 1..at
  <2> HIDE DEF from, at
  <2>1. ToSet(LogRun(from, at)) = (from + 1)..at
    BY <1>2, <1>a, RunFacts
  <2>2. batch = LogRun(from, at)
    BY <1>2 DEF from
  <2>3. \A i \in 1..(at - from) : LogRun(from, at)[i] = from + i
    BY DEF LogRun
  <2> HIDE DEF batch
  <2>4. ToSet(batch) \subseteq 1..at
    BY <1>a, <2>1, <2>2
  <2>5. \A i \in 1..Len(batch) : batch[i] = from + i
    BY <1>a, <2>2, <2>3
  <2>6. ASSUME NEW i \in 1..Len(batch) PROVE batch[i] \in 1..at
    <3>1. batch[i] = from + i /\ i \in Nat /\ 1 <= i /\ i <= Len(batch)
      BY <1>a, <2>5
    <3> QED BY <1>a, <3>1
  <2> QED BY <2>4, <2>6
<1>4. CASE source' = Failing(source) /\ UNCHANGED committed
  BY <1>1, <1>3, <1>4, FailingFollows
<1>5. CASE committed' = committed \cup {NextCommit(source)} /\ source' = Committed(source)
  <2>1. NextCommit(source) \in 1..at
    BY <1>2, <1>3 DEF NextCommit
  <2>2. committed' \subseteq 1..at
    BY <1>5, <2>1 DEF SourceInv, SourceFollows
  <2>3. CASE source.commits + 1 = Len(batch)
    <3>1. source' = BatchDone(source)
      BY <1>5, <2>3 DEF Committed
    <3>2. SourceShape'
      BY <3>1, BatchDoneShape DEF SourceInv, SourceShape, SourceRecord
    <3>3. /\ source'.pc \in {"reading", "closing"} /\ source'.batch = <<>> /\ source'.pending = <<>>
          /\ source'.fetched = source.fetched /\ source'.commits = 0
      BY <1>2, <3>1, BatchDoneShape DEF SourceInv
    <3>4. <<>> = LogRun(at, at) /\ ToSet(<<>>) = {}
      <4> HIDE DEF at
      <4> QED BY <1>2, EmptyRun
    <3>5. SourceFollows'
      BY <1>1, <1>2, <2>2, <3>3, <3>4 DEF SourceInv, SourceFollows
    <3> QED BY <3>2, <3>5 DEF SourceInv
  <2>4. CASE source.commits + 1 # Len(batch)
    <3>1. source' = [source EXCEPT !.commits = source.commits + 1]
      BY <1>5, <2>4 DEF Committed
    <3>2. SourceShape'
      BY SMTT(30), <1>2, <3>1 DEF SourceInv, SourceShape, SourceRecord
    <3>3. /\ source'.pc = "committing" /\ source'.batch = batch /\ source'.pending = source.pending
          /\ source'.fetched = source.fetched /\ source'.commits = source.commits + 1
      BY <1>1, <3>1 DEF SourceInv, SourceShape, SourceRecord
    <3>4. SourceFollows'
      BY <1>1, <1>2, <2>2, <2>4, <3>3 DEF SourceInv, SourceFollows
    <3> QED BY <3>2, <3>4 DEF SourceInv
  <2> QED BY <2>3, <2>4
<1> QED BY <1>4, <1>5 DEF CommitRecord

(* The end of the source's fiber, and its interruption, leave the log.     *)
LEMMA SourceOverFollows ==
  ASSUME SourceInv, SourceOver \/ StopSources
  PROVE  SourceInv'
<1>1. UNCHANGED <<bad, commitPolicy, applied, committed, offset>>
  BY DEF SourceOver, StopSources
<1>2. CASE SourceOver
  <2>1. source' = Closed(source) /\ source.pc = "closing"
    BY <1>2 DEF SourceOver
  <2>2. SourceShape'
    BY <2>1 DEF SourceInv, SourceShape, SourceRecord, Closed
  <2>3. /\ source'.pc = "over" /\ source'.batch = source.batch /\ source'.pending = source.pending
        /\ source'.fetched = source.fetched
    BY <2>1 DEF SourceInv, SourceShape, SourceRecord, Closed
  <2> QED BY <1>1, <2>1, <2>2, <2>3 DEF SourceInv, SourceFollows
<1>3. CASE StopSources
  <2>1. source' = Interrupted(source)
    BY <1>3 DEF StopSources
  <2>2. SourceShape'
    BY <2>1 DEF SourceInv, SourceShape, SourceRecord, Interrupted
  <2>3. /\ source'.pc = source.pc /\ source'.batch = source.batch /\ source'.pending = source.pending
        /\ source'.fetched = source.fetched /\ source'.commits = source.commits
    BY <2>1 DEF SourceInv, SourceShape, SourceRecord, Interrupted
  <2> QED BY <1>1, <2>2, <2>3 DEF SourceInv, SourceFollows
<1> QED BY <1>2, <1>3

(* The invariant of the source holds at first. *)
LEMMA SourceInitially == Init => SourceInv
<1> USE KafkaAssumption, RuntimeAssumption
<1> SUFFICES ASSUME Init PROVE SourceInv
  OBVIOUS
<1>1. PICK s \in Scenarios : bad = s.bad /\ commitPolicy = s.commitPolicy
  BY DEF Init
<1>2. bad \subseteq 1..Records /\ commitPolicy \in {"after-ingest", "none"}
  BY <1>1
<1>3. source = NewSource /\ applied = <<>> /\ committed = {} /\ offset = 0
  BY DEF Init
<1>4. SourceShape
  BY <1>3 DEF SourceShape, SourceRecord, NewSource
<1>5. <<>> = LogRun(0, 0)
  BY RunFacts
<1>6. SourceFollows
  BY <1>2, <1>3, <1>5 DEF SourceFollows, NewSource
<1> QED BY <1>4, <1>6 DEF SourceInv

(* Only these steps touch the source or what the worker has of its log.    *)
LEMMA OnlySourceMovesLog ==
  ASSUME [Next]_vars, ~Source, ~StopSources
  PROVE  UNCHANGED sourceVars
BY Zenon DEF Next, vars, Loop, LoopSync, LoopEnds, PublishRow, ReaderFlush, ReaderHangsUp, BackendChanges,
   BatchPersisted, Pressure, Check, Publish, Subscribe, StreamDone, Close, CloseAgain, Closing, StopWorker,
   CloseDone

(* Every step keeps the invariant of the source. *)
LEMMA SourceKeeps ==
  ASSUME SourceInv, [Next]_vars
  PROVE  SourceInv'
<1>1. CASE Source
  BY <1>1, ReceiveFollows, StreamEndsFollows, DispatchBatchFollows, ApplyBatchFollows, CommitRecordFollows,
     SourceOverFollows DEF Source
<1>2. CASE StopSources
  BY <1>2, SourceOverFollows
<1>3. CASE ~Source /\ ~StopSources
  <2>1. UNCHANGED sourceVars
    BY <1>3, OnlySourceMovesLog
  <2> QED BY <2>1 DEF sourceVars, SourceInv, SourceShape, SourceRecord, SourceFollows
<1> QED BY <1>1, <1>2, <1>3


-----------------------------------------------------------------------------
(* What a topic reports, from what its worker and its source say.          *)
LEMMA TopicReports ==
  ASSUME RuntimeShape, NEW t \in Topics
  PROVE  /\ Topic(t).status = (IF closing THEN "stopping"
                               ELSE IF t = KafkaTopic /\ Failed THEN "degraded"
                               ELSE WorkerStatus(worker[t]))
         /\ Topic(t).status \in Statuses
         /\ Topic(t).chdb = worker[t].chdb
         /\ worker[t].chdb \in {"degraded", "restarting"} => WorkerStatus(worker[t]) = "degraded"
<1>1. worker[t].mark \in Statuses /\ closing \in BOOLEAN
  BY DEF RuntimeShape, WorkerRecord
<1>2. WorkerStatus(worker[t]) \in Statuses
  BY <1>1 DEF WorkerStatus, Statuses
<1>3. worker[t].chdb \in {"degraded", "restarting"} => WorkerStatus(worker[t]) = "degraded"
  BY DEF WorkerStatus
<1>4. Topic(t).status = (IF closing THEN "stopping"
                         ELSE IF t = KafkaTopic /\ Failed THEN "degraded"
                         ELSE WorkerStatus(worker[t]))
      /\ Topic(t).chdb = worker[t].chdb
  BY DEF Topic, ProjectTopicHealth, WorkerMetrics
<1> QED BY <1>1, <1>2, <1>3, <1>4 DEF Statuses

(* The rows of the health topic: one of the server, one of each topic.     *)
LEMMA RowsOfHealth ==
  LET health == CollectHealth
      rows == HealthRows(health)
  IN /\ DOMAIN rows = UserTopics \cup {"server"}
     /\ \A t \in UserTopics : rows[t] = Topic(t)
     /\ health.ok = (~closing /\ \A t \in Topics : Topic(t).status = "ready")
     /\ rows["server"].status = (IF \E t \in UserTopics : Topic(t).status = "stopping" THEN "stopping"
                                 ELSE IF health.ok THEN "ready" ELSE "degraded")
     /\ rows["server"].chdb = AggregateChdbStatus([t \in UserTopics |-> Topic(t)])
<1> USE RuntimeAssumption
<1> DEFINE health == CollectHealth
           topics == [t \in UserTopics |-> Topic(t)]
           server == [status |-> IF \E t \in DOMAIN topics : topics[t].status = "stopping" THEN "stopping"
                                 ELSE IF health.ok THEN "ready" ELSE "degraded",
                      chdb |-> AggregateChdbStatus(topics),
                      subscribers |-> SumTopicMetric(topics, "subscribers"),
                      offset |-> MaxTopicMetric(topics, "offset")]
<1>1. health.topics = [t \in Topics |-> Topic(t)]
      /\ health.ok = (~closing /\ \A t \in Topics : Topic(t).status = "ready")
  BY DEF CollectHealth, RuntimeHealth
<1>2. Topics \ {HealthTopic} = UserTopics /\ UserTopics \subseteq Topics /\ "server" \notin UserTopics
  BY DEF Topics, UserTopics
<1>3. topics = [t \in DOMAIN health.topics \ {HealthTopic} |-> health.topics[t]]
  BY <1>1, <1>2
<1>4. HealthRows(health) = [r \in DOMAIN topics \cup {"server"} |-> IF r = "server" THEN server ELSE topics[r]]
  BY <1>3 DEF HealthRows
<1>5. server.status = (IF \E t \in UserTopics : Topic(t).status = "stopping" THEN "stopping"
                       ELSE IF health.ok THEN "ready" ELSE "degraded")
  OBVIOUS
<1>6. server.chdb = AggregateChdbStatus(topics) /\ DOMAIN topics = UserTopics
      /\ \A t \in UserTopics : topics[t] = Topic(t)
  OBVIOUS
<1> HIDE DEF server, topics, health
<1>7. DOMAIN HealthRows(health) = UserTopics \cup {"server"} /\ HealthRows(health)["server"] = server
      /\ \A t \in UserTopics : HealthRows(health)[t] = Topic(t)
  BY <1>2, <1>4, <1>6
<1> QED BY <1>1, <1>5, <1>6, <1>7 DEF health, topics

(* A backend that is out of order is counted whatever the others say.      *)
LEMMA WorstBackendCounts ==
  ASSUME NEW topics, NEW t \in DOMAIN topics, topics[t].chdb \in {"degraded", "restarting"}
  PROVE  AggregateChdbStatus(topics) # "ready"
<1> DEFINE statuses == {topics[u].chdb : u \in DOMAIN topics}
<1>1. topics[t].chdb \in statuses
  OBVIOUS
<1>2. CASE "degraded" \in statuses
  <2>1. AggregateChdbStatus(topics) = "degraded"
    BY <1>2 DEF AggregateChdbStatus
  <2> QED BY <2>1
<1>3. CASE "degraded" \notin statuses
  <2>1. "restarting" \in statuses
    BY <1>1, <1>3
  <2>2. AggregateChdbStatus(topics) = "restarting"
    BY <1>3, <2>1 DEF AggregateChdbStatus
  <2> QED BY <2>2
<1> QED BY <1>2, <1>3

(* Health sums up as it should in every state of the right shape. *)
LEMMA HealthIsTrue ==
  ASSUME RuntimeShape
  PROVE  HealthTellsTheWorst
<1> USE RuntimeAssumption
<1> DEFINE health == CollectHealth
           rows == HealthRows(health)
<1>1. /\ DOMAIN rows = UserTopics \cup {"server"}
      /\ \A t \in UserTopics : rows[t] = Topic(t)
      /\ health.ok = (~closing /\ \A t \in Topics : Topic(t).status = "ready")
      /\ rows["server"].status = (IF \E t \in UserTopics : Topic(t).status = "stopping" THEN "stopping"
                                  ELSE IF health.ok THEN "ready" ELSE "degraded")
      /\ rows["server"].chdb = AggregateChdbStatus([t \in UserTopics |-> Topic(t)])
  BY RowsOfHealth
<1>2. \A t \in Topics :
        /\ Topic(t).status = (IF closing THEN "stopping"
                              ELSE IF t = KafkaTopic /\ Failed THEN "degraded"
                              ELSE WorkerStatus(worker[t]))
        /\ Topic(t).status \in Statuses
        /\ Topic(t).chdb = worker[t].chdb
        /\ worker[t].chdb \in {"degraded", "restarting"} => WorkerStatus(worker[t]) = "degraded"
  BY TopicReports
<1>3. UserTopics \subseteq Topics /\ UserTopics # {} /\ KafkaTopic \in UserTopics
  BY DEF Topics, UserTopics
<1>4. \A t \in UserTopics : Topic(t).chdb \in {"degraded", "restarting"} => rows["server"].chdb # "ready"
  BY <1>1, WorstBackendCounts
<1> HIDE DEF health, rows
<1>5. closing => \A r \in DOMAIN rows : rows[r].status = "stopping"
  BY <1>1, <1>2, <1>3
<1>6. rows["server"].status = "ready" => health.ok /\ \A t \in UserTopics : rows[t].status = "ready"
  BY <1>1, <1>3
<1>7. health.ok => rows["server"].status = "ready"
  BY <1>1, <1>3
<1>8. Failed => ~health.ok /\ rows[KafkaTopic].status # "ready"
  BY <1>1, <1>2, <1>3
<1>9. \A t \in UserTopics : rows[t].chdb \in {"degraded", "restarting"} =>
        rows["server"].chdb # "ready" /\ ~health.ok
  <2> SUFFICES ASSUME NEW t \in UserTopics, rows[t].chdb \in {"degraded", "restarting"}
               PROVE  rows["server"].chdb # "ready" /\ ~health.ok
    OBVIOUS
  <2>1. rows[t] = Topic(t) /\ Topic(t).chdb = worker[t].chdb /\ t \in Topics
    BY <1>1, <1>2, <1>3
  <2>2. rows["server"].chdb # "ready"
    BY <1>4, <2>1
  <2>3. WorkerStatus(worker[t]) = "degraded"
    BY <1>2, <2>1
  <2>4. Topic(t).status # "ready"
    BY <1>2, <2>1, <2>3
  <2> QED BY <1>1, <2>1, <2>2, <2>4
<1> QED BY <1>5, <1>6, <1>7, <1>8, <1>9 DEF HealthTellsTheWorst, health, rows


-----------------------------------------------------------------------------
(* A request leaves the loop with something to do, unless it is closed.    *)
LEMMA RequestKeeps ==
  ASSUME SyncInv, Request, UNCHANGED <<closing, closer>>,
         worker' \in [Topics -> WorkerRecord]
  PROVE  SyncInv'
<1> USE DEF SyncInv
<1>1. sync' = [s \in Syncers |-> [sync[s] EXCEPT !.fresh = FALSE]] /\ UNCHANGED <<shown, hungUp>>
      /\ sched' = IF sched.closed THEN sched ELSE [sched EXCEPT !.pending = TRUE, !.scheduled = TRUE]
  BY DEF Request
<1>2. \A s \in Syncers : sync'[s].fresh = FALSE
  BY <1>1 DEF RuntimeShape, SyncRecord
<1>3. CASE sched.closed
  <2>1. sched' = sched
    BY <1>1, <1>3
  <2>2. RuntimeShape'
    BY <1>1, <2>1 DEF RuntimeShape, SyncRecord
  <2> QED BY <1>2, <1>3, <2>1, <2>2 DEF FlagsSound, NoRequestForgotten
<1>4. CASE ~sched.closed
  <2>1. sched' = [sched EXCEPT !.pending = TRUE, !.scheduled = TRUE]
    BY <1>1, <1>4
  <2>a. /\ sched' \in [scheduled : BOOLEAN, pending : BOOLEAN, closed : BOOLEAN]
        /\ sched'.pending /\ sched'.scheduled /\ ~sched'.closed
    BY <1>4, <2>1 DEF RuntimeShape
  <2>b. sync' \in [Syncers -> SyncRecord]
    BY <1>1 DEF RuntimeShape, SyncRecord
  <2>2. RuntimeShape' /\ sched'.pending /\ sched'.scheduled
    BY <1>1, <2>a, <2>b DEF RuntimeShape
  <2> QED BY <1>2, <2>a, <2>2 DEF FlagsSound, NoRequestForgotten
<1> QED BY <1>3, <1>4

(* A sync that begins answers every request made so far.                   *)
LEMMA BeginSyncKeeps ==
  ASSUME SyncInv, NEW s \in Syncers, BeginSync(s), sched' = [sched EXCEPT !.pending = FALSE],
         UNCHANGED <<worker, shown, unserved, hungUp>>,
         closer' \in {"open", "flushing", "stopping", "done"}, closing' = (closer' # "open")
  PROVE  SyncInv'
<1> USE DEF SyncInv
<1> DEFINE status == HealthRows(CollectHealth)[KafkaTopic].status
           begun == [left |-> RowIds, status |-> status, fresh |-> TRUE]
<1>1. status \in Statuses
  BY RowsOfHealth, TopicReports DEF UserTopics, Topics
<1>2. RowIds \in Seq({"server", KafkaTopic, ClientTopic}) /\ RowIds # <<>>
  BY DEF RowIds
<1>3. sync' = [sync EXCEPT ![s] = begun]
  BY DEF BeginSync
<1> HIDE DEF status
<1>4. begun.fresh /\ begun.left # <<>>
      /\ begun \in SyncRecord
  BY <1>1, <1>2 DEF SyncRecord
<1> HIDE DEF begun
<1>5. sync'[s] = begun /\ \A other \in Syncers \ {s} : sync'[other] = sync[other]
  BY <1>3 DEF RuntimeShape
<1>6. RuntimeShape' /\ ~sched'.pending
  BY <1>3, <1>4 DEF RuntimeShape
<1>7. FlagsSound'
  BY <1>4, <1>5, <1>6 DEF FlagsSound, Syncing
<1>8. NoRequestForgotten'
  BY <1>4, <1>5 DEF NoRequestForgotten, Syncing
<1> QED BY <1>6, <1>7, <1>8

(* A row more is published: the last one ends the sync, and answers what   *)
(* it can.                                                                 *)
LEMMA PublishRowKeeps ==
  ASSUME SyncInv, NEW s \in Syncers, PublishRow(s)
  PROVE  SyncInv'
<1> USE DEF SyncInv
<1> DEFINE rest == Tail(sync[s].left)
           next == IF rest = <<>> THEN NoSync ELSE [sync[s] EXCEPT !.left = rest]
<1>1. sync[s].left \in Seq({"server", KafkaTopic, ClientTopic}) /\ sync[s].left # <<>>
  BY DEF RuntimeShape, PublishRow, Syncing, SyncRecord
<1>2. rest \in Seq({"server", KafkaTopic, ClientTopic})
  BY <1>1
<1>3. /\ sync' = [sync EXCEPT ![s] = next] /\ UNCHANGED <<worker, closing, closer, sched, hungUp>>
      /\ unserved' = (unserved /\ ~(rest = <<>> /\ sync[s].fresh))
      /\ shown' = IF Head(sync[s].left) = KafkaTopic THEN sync[s].status ELSE shown
  BY DEF PublishRow
<1>4. shown' \in Statuses
  BY <1>3 DEF RuntimeShape, SyncRecord
<1>5. next \in SyncRecord
  <2>1. NoSync \in SyncRecord
    BY DEF NoSync, Statuses, SyncRecord
  <2> HIDE DEF rest
  <2>2. [sync[s] EXCEPT !.left = rest]
          \in SyncRecord
    BY <1>2 DEF RuntimeShape, SyncRecord
  <2> QED BY <2>1, <2>2
<1>6. IF rest = <<>> THEN next = NoSync ELSE next.left # <<>> /\ next.fresh = sync[s].fresh
  BY DEF RuntimeShape
<1> HIDE DEF next, rest
<1>7. sync'[s] = next /\ \A other \in Syncers \ {s} : sync'[other] = sync[other]
  BY <1>3 DEF RuntimeShape
<1>8. RuntimeShape'
  BY <1>3, <1>4, <1>5 DEF RuntimeShape
<1>9. FlagsSound'
  BY <1>3, <1>6, <1>7 DEF FlagsSound, Syncing, NoSync
<1>10. NoRequestForgotten'
  <2> SUFFICES ASSUME unserved', ~hungUp', ~sched'.closed, ~(sched'.scheduled /\ sched'.pending)
               PROVE  \E t \in Syncers : Syncing(t)' /\ sync'[t].fresh
    BY DEF NoRequestForgotten, Syncing
  <2>1. unserved /\ ~(rest = <<>> /\ sync[s].fresh)
    BY <1>3
  <2>2. PICK t \in Syncers : Syncing(t) /\ sync[t].fresh
    BY <1>3, <2>1 DEF NoRequestForgotten
  <2>3. Syncing(t)' /\ sync'[t].fresh
    BY <1>6, <1>7, <2>1, <2>2 DEF Syncing
  <2> QED BY <2>3
<1> QED BY <1>8, <1>9, <1>10


(* The loop's end, a reader that hangs up, and a scheduler that is closed. *)
LEMMA LoopEndsKeeps ==
  ASSUME SyncInv, LoopEnds
  PROVE  SyncInv'
<1> USE DEF SyncInv
<1>1. sched' = [sched EXCEPT !.scheduled = FALSE] /\ UNCHANGED <<worker, closing, closer, sync, shown, unserved, hungUp>>
  BY DEF LoopEnds
<1>2. ~sched.pending
  BY DEF LoopEnds, FlagsSound
<1>3. /\ sched' \in [scheduled : BOOLEAN, pending : BOOLEAN, closed : BOOLEAN]
      /\ ~sched'.pending /\ (sched'.closed <=> sched.closed)
  BY <1>1, <1>2 DEF RuntimeShape
<1>4. RuntimeShape'
  BY <1>1, <1>3 DEF RuntimeShape
<1> QED BY <1>1, <1>2, <1>3, <1>4 DEF FlagsSound, NoRequestForgotten, Syncing

(* A reader that hangs up in its flush. *)
LEMMA HangsUpKeeps ==
  ASSUME SyncInv, ReaderHangsUp
  PROVE  SyncInv'
<1> USE DEF SyncInv
<1>1. /\ sync' = [sync EXCEPT !["reader"] = NoSync] /\ hungUp'
      /\ UNCHANGED <<worker, closing, closer, sched, shown, unserved>>
  BY DEF ReaderHangsUp
<1>2. NoSync \in SyncRecord
  BY DEF NoSync, Statuses, SyncRecord
<1>3. RuntimeShape'
  BY <1>1, <1>2 DEF RuntimeShape
<1>4. \A s \in Syncers : sync'[s].fresh => sync'[s] = sync[s]
  BY <1>1 DEF RuntimeShape, NoSync
<1> QED BY <1>1, <1>3, <1>4 DEF FlagsSound, NoRequestForgotten, Syncing

(* Closing ends the scheduler and what is pending in it. *)
LEMMA ClosedKeeps ==
  ASSUME SyncInv, sched' = [sched EXCEPT !.closed = TRUE, !.pending = FALSE],
         UNCHANGED <<worker, sync, shown, unserved, hungUp>>,
         closer' \in {"open", "flushing", "stopping", "done"}, closing' = (closer' # "open")
  PROVE  SyncInv'
<1> USE DEF SyncInv
<1>1. /\ sched' \in [scheduled : BOOLEAN, pending : BOOLEAN, closed : BOOLEAN]
      /\ ~sched'.pending /\ sched'.closed
  BY DEF RuntimeShape
<1>2. RuntimeShape'
  BY <1>1 DEF RuntimeShape
<1> QED BY <1>1, <1>2 DEF FlagsSound, NoRequestForgotten, Syncing

(* A step that asks for no sync and touches none.                          *)
LEMMA QuietKeeps ==
  ASSUME SyncInv, UNCHANGED healthVars,
         worker' \in [Topics -> WorkerRecord],
         closer' \in {"open", "flushing", "stopping", "done"}, closing' = (closer' # "open")
  PROVE  SyncInv'
<1>1. UNCHANGED <<sched, sync, shown, unserved, hungUp>>
  BY DEF healthVars
<1> QED BY <1>1 DEF SyncInv, RuntimeShape, FlagsSound, NoRequestForgotten, Syncing

(* What happens to a worker leaves it a worker.                            *)
LEMMA WorkersKeepShape ==
  ASSUME RuntimeShape, BackendChanges \/ BatchPersisted \/ Pressure \/ Subscribe \/ StreamDone
                       \/ \E t \in Topics : StopWorker(t)
  PROVE  worker' \in [Topics -> WorkerRecord]
<1>0. worker \in [Topics -> WorkerRecord] /\ {KafkaTopic, ClientTopic, HealthTopic} \subseteq Topics
  BY DEF RuntimeShape, Topics, UserTopics
<1>1. CASE BackendChanges
  <2>1. PICK status \in ChdbStatuses : worker' = [worker EXCEPT ![KafkaTopic].chdb = status]
    BY <1>1 DEF BackendChanges
  <2>2. [worker[KafkaTopic] EXCEPT !.chdb = status] \in WorkerRecord
    BY <1>0, RuntimeAssumption DEF WorkerRecord
  <2> QED BY <1>0, <2>1, <2>2
<1>2. CASE BatchPersisted
  <2>1. PICK mark \in {MarkReadyIfDegraded(worker[KafkaTopic].mark), MarkDegraded(worker[KafkaTopic].mark)} :
          worker' = [worker EXCEPT ![KafkaTopic].mark = mark]
    BY <1>2 DEF BatchPersisted
  <2>2. mark \in Statuses
    BY <1>0 DEF MarkReadyIfDegraded, MarkDegraded, Statuses, WorkerRecord
  <2>3. [worker[KafkaTopic] EXCEPT !.mark = mark] \in WorkerRecord
    BY <1>0, <2>2 DEF WorkerRecord
  <2> QED BY <1>0, <2>1, <2>3
<1>3. CASE Pressure
  <2>1. worker' = [worker EXCEPT ![HealthTopic].pressure = ~worker[HealthTopic].pressure]
    BY <1>3 DEF Pressure
  <2>2. [worker[HealthTopic] EXCEPT !.pressure = ~worker[HealthTopic].pressure] \in WorkerRecord
    BY <1>0 DEF WorkerRecord
  <2> QED BY <1>0, <2>1, <2>2
<1>4. CASE Subscribe \/ StreamDone
  <2>1. \/ worker' = [worker EXCEPT ![ClientTopic].subscribers = {"subscribe"}]
        \/ worker' = [worker EXCEPT ![ClientTopic].subscribers = {}]
    BY <1>4 DEF Subscribe, StreamDone
  <2>2. /\ [worker[ClientTopic] EXCEPT !.subscribers = {"subscribe"}] \in WorkerRecord
        /\ [worker[ClientTopic] EXCEPT !.subscribers = {}] \in WorkerRecord
    BY <1>0 DEF WorkerRecord
  <2> QED BY <1>0, <2>1, <2>2
<1>5. ASSUME NEW t \in Topics, StopWorker(t)
      PROVE  worker' \in [Topics -> WorkerRecord]
  <2>1. worker' = [worker EXCEPT ![t] = [worker[t] EXCEPT !.mark = "stopping", !.subscribers = {}]]
    BY <1>0, <1>5 DEF StopWorker, WorkerRecord
  <2>2. [worker[t] EXCEPT !.mark = "stopping", !.subscribers = {}] \in WorkerRecord
    BY <1>0 DEF WorkerRecord, Statuses
  <2> QED BY <1>0, <2>1, <2>2
<1> QED BY <1>1, <1>2, <1>3, <1>4, <1>5

(* Every step keeps the invariant of the health syncs. *)
LEMMA SyncKeeps ==
  ASSUME SyncInv, [Next]_vars
  PROVE  SyncInv'
<1>0. /\ worker \in [Topics -> WorkerRecord] /\ RuntimeShape
      /\ closer \in {"open", "flushing", "stopping", "done"} /\ closing = (closer # "open")
  BY DEF SyncInv, RuntimeShape
<1>1. CASE LoopSync
  <2>1. BeginSync("loop") /\ sched' = [sched EXCEPT !.pending = FALSE]
        /\ UNCHANGED <<worker, shown, unserved, hungUp, closer, closing>>
    BY <1>1 DEF LoopSync
  <2> QED BY <1>0, <2>1, BeginSyncKeeps DEF Syncers
<1>2. CASE LoopEnds
  BY <1>2, LoopEndsKeeps
<1>3. CASE \E s \in Syncers : PublishRow(s)
  BY <1>3, PublishRowKeeps
<1>4. CASE ReaderFlush
  <2>1. BeginSync("reader") /\ sched' = [sched EXCEPT !.pending = FALSE]
        /\ UNCHANGED <<worker, shown, unserved, hungUp, closer, closing>>
    BY <1>4 DEF ReaderFlush
  <2> QED BY <1>0, <2>1, BeginSyncKeeps DEF Syncers
<1>5. CASE ReaderHangsUp
  BY <1>5, HangsUpKeeps
<1>6. CASE Close
  <2>1. BeginSync("closer") /\ sched' = [sched EXCEPT !.pending = FALSE]
        /\ UNCHANGED <<worker, shown, unserved, hungUp>> /\ closer' = "flushing" /\ closing' = TRUE
    BY <1>6 DEF Close
  <2>2. closing' = (closer' # "open")
    BY <2>1
  <2> QED BY <1>0, <2>1, <2>2, BeginSyncKeeps DEF Syncers
<1>7. CASE CloseAgain
  <2>1. sched' = [sched EXCEPT !.closed = TRUE, !.pending = FALSE]
        /\ UNCHANGED <<worker, sync, shown, unserved, hungUp, closer, closing>>
    BY <1>7 DEF CloseAgain
  <2> QED BY <1>0, <2>1, ClosedKeeps
<1>8. CASE CloseDone
  <2>1. sched' = [sched EXCEPT !.closed = TRUE, !.pending = FALSE] /\ closer = "stopping" /\ closer' = "done"
        /\ UNCHANGED <<worker, sync, shown, unserved, hungUp, closing>>
    BY <1>8 DEF CloseDone
  <2>2. closing' = (closer' # "open")
    BY <1>0, <2>1
  <2> QED BY <2>1, <2>2, ClosedKeeps
<1>9. CASE Publish \/ ApplyBatch \/ SourceOver
  <2>1. UNCHANGED <<worker, closer, closing>> /\ (Request \/ UNCHANGED healthVars)
    BY <1>9 DEF Publish, ApplyBatch, SourceOver
  <2> QED BY <1>0, <2>1, RequestKeeps, QuietKeeps
<1>10. CASE Subscribe \/ StreamDone \/ \E t \in Topics : StopWorker(t)
  <2>1. UNCHANGED <<closer, closing>> /\ (Request \/ UNCHANGED healthVars)
    BY <1>10 DEF Subscribe, StreamDone, StopWorker
  <2>2. worker' \in [Topics -> WorkerRecord]
    BY <1>0, <1>10, WorkersKeepShape
  <2> QED BY <1>0, <2>1, <2>2, RequestKeeps, QuietKeeps
<1>11. CASE BackendChanges \/ BatchPersisted \/ Pressure
  <2>1. UNCHANGED <<closer, closing, healthVars>>
    BY <1>11 DEF BackendChanges, BatchPersisted, Pressure
  <2>2. worker' \in [Topics -> WorkerRecord]
    BY <1>0, <1>11, WorkersKeepShape
  <2> QED BY <1>0, <2>1, <2>2, QuietKeeps
<1>12. CASE Receive \/ StreamEnds \/ DispatchBatch \/ CommitRecord \/ Check \/ UNCHANGED vars
  <2>1. UNCHANGED <<worker, closer, closing, healthVars>>
    BY <1>12 DEF Receive, StreamEnds, DispatchBatch, CommitRecord, Check, vars
  <2> QED BY <1>0, <2>1, QuietKeeps
<1>13. CASE StopSources
  <2>1. UNCHANGED <<worker, closing, healthVars>> /\ closer = "flushing" /\ closer' = "stopping"
    BY <1>13 DEF StopSources
  <2>2. closing' = (closer' # "open")
    BY <1>0, <2>1
  <2> QED BY <1>0, <2>1, <2>2, QuietKeeps
<1> QED
  BY Zenon, <1>1, <1>2, <1>3, <1>4, <1>5, <1>6, <1>7, <1>8, <1>9, <1>10, <1>11, <1>12, <1>13
     DEF Next, Loop, Closing, Source, Syncers

(* The invariant of the health syncs holds at first. *)
LEMMA SyncInitially == Init => SyncInv
<1> USE RuntimeAssumption
<1> SUFFICES ASSUME Init PROVE SyncInv
  OBVIOUS
<1>1. /\ worker = [t \in Topics |-> [mark |-> "ready", chdb |-> "ready", pressure |-> FALSE, subscribers |-> {}]]
      /\ closing = FALSE /\ closer = "open" /\ shown = "ready" /\ unserved = FALSE
      /\ sched = [scheduled |-> FALSE, pending |-> FALSE, closed |-> FALSE]
      /\ sync = [s \in Syncers |-> NoSync]
  BY DEF Init
<1>2. NoSync \in SyncRecord
  BY DEF NoSync, Statuses, SyncRecord
<1>3. RuntimeShape
  BY <1>1, <1>2 DEF RuntimeShape, Statuses, WorkerRecord, SyncRecord
<1>4. FlagsSound /\ NoRequestForgotten
  BY <1>1 DEF FlagsSound, NoRequestForgotten, NoSync
<1> QED BY <1>3, <1>4 DEF SyncInv

-----------------------------------------------------------------------------
(* The invariants always hold. *)
LEMMA InvariantHolds == Spec => []IInv
<1>1. Init => IInv
  BY SourceInitially, SyncInitially DEF IInv
<1>2. IInv /\ [Next]_vars => IInv'
  BY SourceKeeps, SyncKeeps DEF IInv
<1> QED BY <1>1, <1>2, PTL DEF Spec

(* The worker of a topic has the records of its log up to some place, in   *)
(* order, each once and none of them bad, and what Kafka is told is done,  *)
(* or health reports, is in it with its whole batch: for any log, batch    *)
(* size, bad records and commit policy, although any batch may fail half   *)
(* way, any commit too, and the runtime may close at any time.             *)
THEOREM LogAlwaysFollowed == Spec => []LogFollowed
<1>1. IInv => LogFollowed
  <2> SUFFICES ASSUME IInv PROVE LogFollowed
    OBVIOUS
  <2> USE KafkaAssumption DEF IInv, SourceInv, SyncInv
  <2> DEFINE at == Len(applied)
  <2>1. at \in Nat /\ applied = LogRun(0, at) /\ (\A r \in 1..at : r \notin bad) /\ at \in 0..source.fetched
        /\ committed \subseteq 1..at /\ offset \in 0..at /\ source.fetched \in 0..Records
    BY DEF SourceFollows, SourceShape, SourceRecord
  <2>2. ToSet(applied) = 1..at
    <3> HIDE DEF at
    <3> QED BY <2>1, RunFacts
  <2>3. \A i \in DOMAIN applied : applied[i] = i /\ i \in 1..at
    <3> HIDE DEF at
    <3>1. DOMAIN LogRun(0, at) = 1..at /\ \A i \in 1..at : LogRun(0, at)[i] = i
      BY <2>1, RunFacts DEF LogRun
    <3> QED BY <2>1, <3>1
  <2>4. AppliedIsLogPrefix
    BY <2>1, <2>3 DEF AppliedIsLogPrefix
  <2>5. ToSet(source.batch) \cap committed # {} => ToSet(source.batch) \subseteq 1..at
    <3>1. CASE source.pc \in {"reading", "batch", "dispatched"}
      BY <3>1, UnappliedIsUncommitted
    <3>2. CASE source.pc = "committing"
      <4>1. at - Len(source.batch) \in Nat /\ source.batch = LogRun(at - Len(source.batch), at) /\ at - Len(source.batch) <= at
        BY <3>2 DEF SourceFollows, SourceShape, SourceRecord
      <4>2. ToSet(source.batch) = (at - Len(source.batch) + 1)..at
        <5> DEFINE from == at - Len(source.batch)
        <5>1. from \in Nat /\ from <= at /\ source.batch = LogRun(from, at)
          BY <4>1
        <5> HIDE DEF at, from
        <5>2. ToSet(source.batch) = (from + 1)..at
          BY <2>1, <5>1, RunFacts
        <5> QED BY <5>2 DEF from
      <4>3. ToSet(source.batch) \subseteq 1..at
        <5> DEFINE from == at - Len(source.batch)
        <5>1. from \in Nat /\ ToSet(source.batch) = (from + 1)..at
          BY <4>1, <4>2
        <5> HIDE DEF at, from
        <5> QED BY <2>1, <5>1
      <4> QED BY <4>3
    <3>3. CASE source.pc \in {"closing", "over"}
      BY <3>3 DEF SourceFollows
    <3> QED BY <3>1, <3>2, <3>3 DEF SourceShape, SourceRecord
  <2>6. AcknowledgedIsApplied
    BY <2>1, <2>2, <2>5 DEF AcknowledgedIsApplied
  <2>7. TypeOK
    <3>1. \A t \in Topics : worker[t].mark \in {"ready", "degraded", "stopping"}
      BY DEF RuntimeShape, Statuses, WorkerRecord
    <3>2. ToSet(applied) \cup committed \subseteq 1..source.fetched /\ offset \in 0..source.fetched
      <4> HIDE DEF at
      <4>1. ToSet(applied) \subseteq 1..source.fetched /\ committed \subseteq 1..source.fetched
        BY <2>1, <2>2
      <4>2. offset \in 0..source.fetched
        BY <2>1
      <4> QED BY <4>1, <4>2
    <3>3. /\ source.pc \in {"reading", "batch", "dispatched", "committing", "closing", "over"}
          /\ source.fate \in {"running", "failed", "interrupted"}
      BY DEF SourceShape, SourceRecord
    <3> QED BY <2>1, <3>1, <3>2, <3>3 DEF TypeOK, SourceFollows, RuntimeShape, Statuses
  <2> QED BY <2>4, <2>6, <2>7 DEF LogFollowed
<1> QED BY <1>1, InvariantHolds, PTL

(* No request for a health sync is forgotten, whatever the interleaving of *)
(* the loop, the readers' flushes and the closer's: until a sync that      *)
(* began after it is complete the loop has it to do, or one is under way.  *)
THEOREM RequestsAlwaysAnswered == Spec => []NoRequestForgotten
<1>1. IInv => NoRequestForgotten
  BY DEF IInv, SyncInv
<1> QED BY <1>1, InvariantHolds, PTL

(* Health is never better than what it sums up, for any topics, backends   *)
(* and sources.                                                            *)
THEOREM HealthAlwaysTrue == Spec => []HealthTellsTheWorst
<1>1. IInv => HealthTellsTheWorst
  BY HealthIsTrue DEF IInv, SyncInv
<1> QED BY <1>1, InvariantHolds, PTL

(****************************************************************************)
(*                       THE WEBSOCKET TRANSPORTS                           *)
(****************************************************************************)

(* Counting in sequences.                                                   *)

(* Where s has an element of S, and how many there are.                     *)
Places(s, S) == {i \in DOMAIN s : s[i] \in S}
Tally(s, S) == Cardinality(Places(s, S))

(* The places of a sequence are finitely many.                              *)
LEMMA PlacesFinite ==
  ASSUME NEW X, NEW s \in Seq(X), NEW S
  PROVE  IsFiniteSet(Places(s, S)) /\ Tally(s, S) \in Nat
<1>1. Len(s) \in Nat /\ DOMAIN s = 1 .. Len(s)
  BY LenProperties
<1>2. IsFiniteSet(1 .. Len(s))
  BY <1>1, FS_Interval
<1>3. Places(s, S) \in SUBSET (1 .. Len(s))
  BY <1>1 DEF Places
<1> QED BY <1>2, <1>3, FS_Subset, FS_CardinalityType DEF Tally

(* A shift moves places and keeps how many they are.                        *)
LEMMA ShiftedPlaces ==
  ASSUME NEW A \in SUBSET Nat, IsFiniteSet(A), NEW n \in Nat
  PROVE  IsFiniteSet({i + n : i \in A}) /\ Cardinality({i + n : i \in A}) = Cardinality(A)
<1> DEFINE B == {i + n : i \in A}
           f == [i \in A |-> i + n]
<1>1. f \in [A -> B] /\ \A b \in B : \E i \in A : f[i] = b
  OBVIOUS
<1>2. \A i, j \in A : f[i] = f[j] => i = j
  OBVIOUS
<1>3. f \in Bijection(A, B)
  BY <1>1, <1>2 DEF Bijection, Injection, IsInjective, Surjection
<1>4. ExistsBijection(A, B)
  BY <1>3 DEF ExistsBijection
<1> HIDE DEF B, f
<1>5. IsFiniteSet(B) /\ Cardinality(B) = Cardinality(A)
  BY <1>4, FS_Bijection
<1> QED BY <1>5 DEF B

(* Of two sequences one after the other the counts add up.                  *)
LEMMA TallyJoined ==
  ASSUME NEW X, NEW s \in Seq(X), NEW t \in Seq(X), NEW S
  PROVE  Tally(s \o t, S) = Tally(s, S) + Tally(t, S)
<1> DEFINE A == Places(s, S)
           B == {i + Len(s) : i \in Places(t, S)}
<1>1. /\ Len(s) \in Nat /\ DOMAIN s = 1 .. Len(s)
      /\ Len(t) \in Nat /\ DOMAIN t = 1 .. Len(t)
  BY LenProperties
<1>2. /\ s \o t \in Seq(X) /\ DOMAIN (s \o t) = 1 .. Len(s) + Len(t)
      /\ \A i \in 1 .. Len(s) + Len(t) : (s \o t)[i] = IF i <= Len(s) THEN s[i] ELSE t[i - Len(s)]
  BY ConcatProperties, LenProperties
<1>3. A \subseteq 1 .. Len(s) /\ Places(t, S) \subseteq 1 .. Len(t)
  BY <1>1 DEF Places
<1>4. Places(s \o t, S) = A \cup B
  <2>1. ASSUME NEW i \in Places(s \o t, S) PROVE i \in A \cup B
    <3>1. i \in 1 .. Len(s) + Len(t) /\ (s \o t)[i] \in S
      BY <1>2 DEF Places
    <3>2. CASE i <= Len(s)
      BY <3>1, <3>2, <1>1, <1>2 DEF Places
    <3>3. CASE ~ (i <= Len(s))
      <4>1. i - Len(s) \in Places(t, S)
        BY <3>1, <3>3, <1>1, <1>2 DEF Places
      <4>2. i = (i - Len(s)) + Len(s)
        BY <3>1, <1>1
      <4> QED BY <4>1, <4>2
    <3> QED BY <3>2, <3>3
  <2>2. ASSUME NEW i \in A PROVE i \in Places(s \o t, S)
    BY <1>1, <1>2 DEF Places
  <2>3. ASSUME NEW i \in B PROVE i \in Places(s \o t, S)
    <3>1. PICK j \in Places(t, S) : i = j + Len(s)
      BY DEF B
    <3>2. j \in 1 .. Len(t) /\ t[j] \in S
      BY <1>1 DEF Places
    <3>3. i \in 1 .. Len(s) + Len(t) /\ ~ (i <= Len(s)) /\ i - Len(s) = j
      BY <3>1, <3>2, <1>1
    <3> QED BY <3>2, <3>3, <1>2 DEF Places
  <2> QED BY <2>1, <2>2, <2>3
<1>5. A \cap B = {}
  BY <1>1, <1>3
<1>6. IsFiniteSet(A) /\ Cardinality(A) \in Nat
  BY PlacesFinite DEF Tally
<1>7. IsFiniteSet(B) /\ Cardinality(B) = Tally(t, S) /\ Tally(t, S) \in Nat
  <2>1. Places(t, S) \in SUBSET Nat
    BY <1>3
  <2> QED BY <1>1, <2>1, PlacesFinite, ShiftedPlaces DEF Tally
<1>8. Tally(s, S) = Cardinality(A)
  BY DEF Tally
<1> HIDE DEF A, B
<1>9. Cardinality(A \cup B) = Cardinality(A) + Cardinality(B) - Cardinality(A \cap B)
  BY <1>6, <1>7, FS_Union
<1>10. Cardinality(A \cap B) = 0
  BY <1>5, FS_EmptySet
<1> QED BY <1>4, <1>6, <1>7, <1>8, <1>9, <1>10 DEF Tally

(* Nothing is in the empty sequence, and one element counts as one.         *)
LEMMA TallyOfOne ==
  ASSUME NEW S, NEW x
  PROVE  Tally(<<>>, S) = 0 /\ Tally(<<x>>, S) = IF x \in S THEN 1 ELSE 0
<1>1. Places(<<>>, S) = {}
  BY DEF Places
<1>2. Places(<<x>>, S) = IF x \in S THEN {1} ELSE {}
  BY DEF Places
<1> QED BY <1>1, <1>2, FS_EmptySet, FS_Singleton DEF Tally

(* Appending an element.                                                    *)
LEMMA TallyAppended ==
  ASSUME NEW X, NEW s \in Seq(X), NEW x \in X, NEW S
  PROVE  Tally(Append(s, x), S) = Tally(s, S) + (IF x \in S THEN 1 ELSE 0)
<1>1. <<x>> \in Seq(X)
  OBVIOUS
<1>2. Append(s, x) = s \o <<x>>
  BY AppendIsConcat
<1>3. Tally(s \o <<x>>, S) = Tally(s, S) + Tally(<<x>>, S)
  BY <1>1, TallyJoined
<1> QED BY <1>2, <1>3, TallyOfOne

(* A sequence is its head and its tail.                                     *)
LEMMA HeadAndTail ==
  ASSUME NEW X, NEW s \in Seq(X), s # <<>>
  PROVE  /\ Head(s) \in X /\ Tail(s) \in Seq(X) /\ <<Head(s)>> \in Seq(X)
         /\ s = <<Head(s)>> \o Tail(s)
<1>1. /\ Head(s) \in X /\ Tail(s) \in Seq(X) /\ Len(Tail(s)) = Len(s) - 1
      /\ \A i \in 1 .. Len(Tail(s)) : Tail(s)[i] = s[i + 1]
  BY HeadTailProperties
<1>2. <<Head(s)>> \in Seq(X) /\ Len(<<Head(s)>>) = 1 /\ <<Head(s)>>[1] = s[1]
  BY <1>1
<1>3. Len(s) \in Nat /\ Len(s) > 0
  BY EmptySeq, LenProperties
<1> DEFINE h == <<Head(s)>>
           t == Tail(s)
<1>4. h \in Seq(X) /\ t \in Seq(X) /\ Len(h) = 1 /\ h[1] = s[1] /\ Len(t) = Len(s) - 1
      /\ \A i \in 1 .. Len(t) : t[i] = s[i + 1]
  BY <1>1, <1>2
<1> HIDE DEF h, t
<1>5. /\ h \o t \in Seq(X) /\ Len(h \o t) = Len(s)
      /\ \A i \in 1 .. Len(s) : (h \o t)[i] = IF i <= 1 THEN h[i] ELSE t[i - 1]
  <2>1. /\ h \o t \in Seq(X) /\ Len(h \o t) = Len(h) + Len(t)
        /\ \A i \in 1 .. Len(h) + Len(t) : (h \o t)[i] = IF i <= Len(h) THEN h[i] ELSE t[i - Len(h)]
    <3>1. h \in Seq(X) /\ t \in Seq(X)
      BY <1>4
    <3> QED BY <3>1, ConcatProperties
  <2>2. Len(h) + Len(t) = Len(s)
    BY <1>3, <1>4
  <2> QED BY <1>4, <2>1, <2>2
<1>6. \A i \in 1 .. Len(s) : (h \o t)[i] = s[i]
  BY <1>3, <1>4, <1>5
<1>7. h \o t = s
  BY <1>5, <1>6, SeqEqual
<1> QED BY <1>1, <1>2, <1>7 DEF h, t

(* Taking the head.                                                         *)
LEMMA TallyTaken ==
  ASSUME NEW X, NEW s \in Seq(X), s # <<>>, NEW S
  PROVE  /\ Tally(s, S) = Tally(<<Head(s)>>, S) + Tally(Tail(s), S)
         /\ Tally(s, S) = (IF Head(s) \in S THEN 1 ELSE 0) + Tally(Tail(s), S)
<1>1. <<Head(s)>> \in Seq(X) /\ Tail(s) \in Seq(X) /\ s = <<Head(s)>> \o Tail(s)
  BY HeadAndTail
<1>2. Tally(<<Head(s)>> \o Tail(s), S) = Tally(<<Head(s)>>, S) + Tally(Tail(s), S)
  BY <1>1, TallyJoined
<1> QED BY <1>1, <1>2, TallyOfOne

-----------------------------------------------------------------------------
(* Responses, counted by kind and call.                                     *)

Item == Response \cup {Defect}
Of(kind, r) == {x \in Item : x.kind = kind /\ x.call = r}

(* Counting by kind and call is counting a set.                             *)
LEMMA CountIsTally ==
  ASSUME NEW s \in Seq(Item), NEW kind, NEW r
  PROVE  Count(s, kind, r) = Tally(s, Of(kind, r))
<1>1. \A i \in DOMAIN s : s[i] \in Item
  BY LenProperties, ElementOfSeq
<1>2. {i \in DOMAIN s : s[i].kind = kind /\ s[i].call = r} = Places(s, Of(kind, r))
  BY <1>1 DEF Places, Of
<1> QED BY <1>2 DEF Count, Tally

(* What a response counts for.                                              *)
Weight(x, kind, r) == IF x \in Of(kind, r) THEN 1 ELSE 0

(* Counts of responses: of none, of one, of two sequences in a row, after   *)
(* an element is appended and when one is taken.                            *)
LEMMA CountFacts ==
  ASSUME NEW kind, NEW r
  PROVE  /\ Count(<<>>, kind, r) = 0
         /\ \A x \in Item : Count(<<x>>, kind, r) = Weight(x, kind, r)
         /\ \A s \in Seq(Item) : Count(s, kind, r) \in Nat
         /\ \A s, t \in Seq(Item) : Count(s \o t, kind, r) = Count(s, kind, r) + Count(t, kind, r)
         /\ \A s \in Seq(Item) : \A x \in Item :
              Count(Append(s, x), kind, r) = Count(s, kind, r) + Weight(x, kind, r)
         /\ \A s \in Seq(Item) : s # <<>> =>
              Count(s, kind, r) = Count(<<Head(s)>>, kind, r) + Count(Tail(s), kind, r)
<1> DEFINE T == Of(kind, r)
<1>1. <<>> \in Seq(Item) /\ \A x \in Item : <<x>> \in Seq(Item)
  OBVIOUS
<1>2. \A s \in Seq(Item) : Count(s, kind, r) = Tally(s, T)
  BY CountIsTally
<1>3. Tally(<<>>, T) = 0 /\ \A x \in Item : Tally(<<x>>, T) = Weight(x, kind, r)
  BY TallyOfOne DEF Weight
<1> HIDE DEF T
<1>4. \A s \in Seq(Item) : Tally(s, T) \in Nat
  BY PlacesFinite
<1>5. ASSUME NEW s \in Seq(Item), NEW t \in Seq(Item)
      PROVE  Count(s \o t, kind, r) = Count(s, kind, r) + Count(t, kind, r)
  <2>1. s \o t \in Seq(Item)
    BY ConcatProperties
  <2>2. Tally(s \o t, T) = Tally(s, T) + Tally(t, T)
    BY TallyJoined
  <2> QED BY <1>2, <2>1, <2>2
<1>6. ASSUME NEW s \in Seq(Item), NEW x \in Item
      PROVE  Count(Append(s, x), kind, r) = Count(s, kind, r) + Weight(x, kind, r)
  <2>1. Append(s, x) = s \o <<x>> /\ <<x>> \in Seq(Item)
    BY <1>1, AppendIsConcat
  <2>2. Count(s \o <<x>>, kind, r) = Count(s, kind, r) + Count(<<x>>, kind, r)
    BY <1>5, <2>1
  <2>3. Count(<<x>>, kind, r) = Weight(x, kind, r)
    BY <1>2, <1>3, <2>1
  <2> QED BY <2>1, <2>2, <2>3
<1>7. ASSUME NEW s \in Seq(Item), s # <<>>
      PROVE  Count(s, kind, r) = Count(<<Head(s)>>, kind, r) + Count(Tail(s), kind, r)
  <2>1. <<Head(s)>> \in Seq(Item) /\ Tail(s) \in Seq(Item)
    BY <1>7, HeadAndTail
  <2>2. Tally(s, T) = Tally(<<Head(s)>>, T) + Tally(Tail(s), T)
    BY <1>7, TallyTaken
  <2> QED BY <1>2, <2>1, <2>2
<1>8. Count(<<>>, kind, r) = 0
  BY <1>1, <1>2, <1>3
<1>9. \A x \in Item : Count(<<x>>, kind, r) = Weight(x, kind, r)
  BY <1>1, <1>2, <1>3
<1>10. \A s \in Seq(Item) : Count(s, kind, r) \in Nat
  BY <1>2, <1>4
<1> QED BY <1>5, <1>6, <1>7, <1>8, <1>9, <1>10

(* Two of them: of two sequences in a row, ...                              *)
LEMMA CountJoined ==
  ASSUME NEW s \in Seq(Item), NEW t \in Seq(Item), NEW kind, NEW r
  PROVE  /\ Count(s \o t, kind, r) = Count(s, kind, r) + Count(t, kind, r)
         /\ Count(s, kind, r) \in Nat /\ Count(t, kind, r) \in Nat
<1>1. Count(s \o t, kind, r) = Count(s, kind, r) + Count(t, kind, r)
  BY CountFacts, ZenonT(40)
<1>2. Count(s, kind, r) \in Nat /\ Count(t, kind, r) \in Nat
  BY CountFacts, ZenonT(40)
<1> QED BY <1>1, <1>2
(* ... and of a sequence with one more.                                     *)
LEMMA CountAppended ==
  ASSUME NEW s \in Seq(Item), NEW x \in Item, NEW kind, NEW r
  PROVE  Count(Append(s, x), kind, r) = Count(s, kind, r) + Weight(x, kind, r)
BY CountFacts, ZenonT(40)

(* A set with at most one element has no two.                               *)
LEMMA AtMostOne ==
  ASSUME NEW S, IsFiniteSet(S), Cardinality(S) <= 1, NEW i \in S, NEW j \in S
  PROVE  i = j
<1>1. Cardinality({i, j}) <= Cardinality(S)
  BY FS_Subset
<1>2. IsFiniteSet({i}) /\ Cardinality({i}) = 1
  BY FS_Singleton
<1>3. Cardinality({i} \cup {j}) = IF j \in {i} THEN Cardinality({i}) ELSE Cardinality({i}) + 1
  BY <1>2, FS_AddElement
<1>4. {i} \cup {j} = {i, j} /\ Cardinality(S) \in Nat
  BY FS_CardinalityType
<1> QED BY <1>1, <1>2, <1>3, <1>4

(* At most one response of a kind and a call: their number has a bound.     *)
LEMMA FewResponses ==
  ASSUME NEW s \in Seq(Response), IsFiniteSet(AllCalls),
         \A r \in AllCalls : \A kind \in {"Chunk", "Exit"} : Count(s, kind, r) <= 1
  PROVE  Len(s) <= 2 * Cardinality(AllCalls)
<1> DEFINE K == {"Chunk", "Exit"}
           D == 1 .. Len(s)
           f == [i \in D |-> <<s[i].kind, s[i].call>>]
<1>1. Len(s) \in Nat /\ DOMAIN s = D /\ \A i \in D : s[i] \in Response
  BY LenProperties, ElementOfSeq
<1>2. \A i \in D : s[i].kind \in K /\ s[i].call \in AllCalls
  BY <1>1 DEF Response
<1>3. f \in [D -> K \X AllCalls]
  BY <1>2
<1>4. ASSUME NEW i \in D, NEW j \in D, f[i] = f[j] PROVE i = j
  <2> DEFINE kind == s[i].kind
             r == s[i].call
             P == {n \in DOMAIN s : s[n].kind = kind /\ s[n].call = r}
  <2>1. kind \in K /\ r \in AllCalls /\ i \in P /\ j \in P
    BY <1>1, <1>2, <1>4
  <2>2. IsFiniteSet(P)
    <3>1. P \in SUBSET D
      BY <1>1
    <3>2. IsFiniteSet(D)
      BY <1>1, FS_Interval
    <3> QED BY <3>1, <3>2, FS_Subset
  <2>3. Cardinality(P) <= 1
    BY <2>1 DEF Count
  <2> HIDE DEF P
  <2> QED BY <2>1, <2>2, <2>3, AtMostOne
<1>5. f \in Injection(D, K \X AllCalls)
  BY <1>3, <1>4 DEF Injection, IsInjective
<1>6. IsFiniteSet(K) /\ Cardinality(K) = 2
  <2>1. IsFiniteSet({"Chunk"}) /\ Cardinality({"Chunk"}) = 1
    BY FS_Singleton
  <2>2. IsFiniteSet({"Chunk"} \cup {"Exit"})
        /\ Cardinality({"Chunk"} \cup {"Exit"}) = 
             IF "Exit" \in {"Chunk"} THEN Cardinality({"Chunk"}) ELSE Cardinality({"Chunk"}) + 1
    BY <2>1, FS_AddElement
  <2>3. {"Chunk"} \cup {"Exit"} = K /\ "Exit" \notin {"Chunk"}
    OBVIOUS
  <2> QED BY <2>1, <2>2, <2>3
<1>7. IsFiniteSet(K \X AllCalls) /\ Cardinality(K \X AllCalls) = 2 * Cardinality(AllCalls)
  <2> HIDE DEF K
  <2> QED BY <1>6, FS_Product
<1>8. Cardinality(D) = Len(s)
  <2>1. Cardinality(1 .. Len(s)) = IF 1 > Len(s) THEN 0 ELSE Len(s) - 1 + 1
    BY <1>1, FS_Interval
  <2> QED BY <1>1, <2>1
<1> HIDE DEF D, K, f
<1>9. Cardinality(D) <= Cardinality(K \X AllCalls)
  BY <1>5, <1>7, FS_Injection
<1> QED BY <1>7, <1>8, <1>9

-----------------------------------------------------------------------------
(* What is in the port to the worker for a client (BatchesFor).             *)

(* Every message of M has responses of R for the client, or none.           *)
Addressed(M, R, c) == \A m \in M : EntriesFor(m, c) \in Seq(R)

(* What the first n messages of s have for the client.                      *)
PostedTrace(f, R, s, c) ==
  /\ f \in [0 .. Len(s) -> Seq(R)] /\ f[0] = <<>>
  /\ \A n \in 1 .. Len(s) : f[n] = f[n - 1] \o EntriesFor(s[n], c)

(* Collecting them is a run along the messages, ...                         *)
LEMMA PostedExists ==
  ASSUME NEW M, NEW R, NEW c, Addressed(M, R, c), NEW s \in Seq(M)
  PROVE  \E f : PostedTrace(f, R, s, c)
<1> DEFINE N == Len(s)
           E == Seq(R)
           joined(so, m) == so \o EntriesFor(m, c)
           step == [n \in 1 .. N |-> [so \in E |-> joined(so, s[n])]]
<1>1. N \in Nat /\ \A n \in 1 .. N : s[n] \in M
  BY LenProperties, ElementOfSeq
<1>2. \A n \in 1 .. N : EntriesFor(s[n], c) \in Seq(R)
  BY <1>1, Zenon DEF Addressed
<1>3. \A n \in 1 .. N, so \in E : joined(so, s[n]) \in E
  BY <1>2, ConcatProperties
<1>4. <<>> \in E
  OBVIOUS
<1> HIDE DEF joined, E, N
<1>5. step \in [1 .. N -> [E -> E]]
  BY <1>3
<1>6. \E f : Recursion(f, N, E, <<>>, step)
  <2> HIDE DEF step
  <2> QED BY <1>1, <1>4, <1>5, RecursionExists
<1>7. PICK f : Recursion(f, N, E, <<>>, step)
  BY <1>6, Zenon
<1>8. ASSUME NEW n \in 1 .. N PROVE f[n] = joined(f[n - 1], s[n])
  <2>1. f[n - 1] \in E
    BY <1>1, <1>7 DEF Recursion
  <2>2. f[n] = step[n][f[n - 1]]
    BY <1>7 DEF Recursion
  <2> QED BY <2>1, <2>2
<1>9. f \in [0 .. N -> E] /\ f[0] = <<>>
  BY <1>7 DEF Recursion
<1>10. PostedTrace(f, R, s, c)
  BY <1>8, <1>9 DEF PostedTrace, joined, E, N
<1> QED BY <1>10

(* ... and whatever run there is ends with it.                              *)
LEMMA PostedShows ==
  ASSUME NEW R, NEW c, NEW s, Len(s) \in Nat, NEW f, PostedTrace(f, R, s, c)
  PROVE  BatchesFor(s, c) = f[Len(s)]
<1> DEFINE N == Len(s)
           Is(h) == h = [n \in 0 .. Len(s) |-> IF n = 0 THEN <<>> ELSE h[n - 1] \o EntriesFor(s[n], c)]
           g == CHOOSE h : Is(h)
<1>1. BatchesFor(s, c) = g[Len(s)]
  BY Zenon DEF BatchesFor
<1>2. Is(f)
  <2>1. \A n \in 0 .. N : f[n] = IF n = 0 THEN <<>> ELSE f[n - 1] \o EntriesFor(s[n], c)
    <3>1. f[0] = <<>> /\ \A n \in 1 .. N : f[n] = f[n - 1] \o EntriesFor(s[n], c)
      BY DEF PostedTrace
    <3>2. \A n \in 0 .. N : n = 0 \/ n \in 1 .. N
      OBVIOUS
    <3>3. \A n \in 1 .. N : n # 0
      OBVIOUS
    <3> HIDE DEF N
    <3> QED BY <3>1, <3>2, <3>3, Zenon
  <2>2. f = [n \in 0 .. N |-> f[n]]
    BY DEF PostedTrace
  <2> QED BY <2>1, <2>2
<1>3. Is(g)
  <2> HIDE DEF Is
  <2> QED BY <1>2
<1> HIDE DEF g
<1>4. g[0] = <<>> /\ f[0] = <<>>
  BY <1>3 DEF PostedTrace
<1>5. ASSUME NEW n \in 1 .. N PROVE g[n] = g[n - 1] \o EntriesFor(s[n], c)
  <2>1. n \in 0 .. Len(s) /\ n # 0
    OBVIOUS
  <2> QED BY <1>3, <2>1, Zenon
<1>6. \A n \in 1 .. N : g[n - 1] = f[n - 1] => g[n] = f[n]
  BY <1>5 DEF PostedTrace
<1> HIDE DEF Is
<1>7. Agree(g, f, N)
  BY <1>4, <1>6 DEF Agree
<1>8. N \in Nat
  OBVIOUS
<1> HIDE DEF N
<1>9. \A n \in 0 .. N : g[n] = f[n]
  BY <1>7, <1>8, RecursionUnique
<1>10. g[N] = f[N]
  BY <1>8, <1>9
<1> QED BY <1>1, <1>10 DEF N

(* An empty port has nothing for the client, and there are only responses.  *)
LEMMA BatchesType ==
  ASSUME NEW M, NEW R, NEW c, Addressed(M, R, c)
  PROVE  BatchesFor(<<>>, c) = <<>> /\ \A s \in Seq(M) : BatchesFor(s, c) \in Seq(R)
<1>1. ASSUME NEW s \in Seq(M)
      PROVE  BatchesFor(s, c) \in Seq(R) /\ (Len(s) = 0 => BatchesFor(s, c) = <<>>)
  <2>1. PICK f : PostedTrace(f, R, s, c)
    BY PostedExists
  <2>2. Len(s) \in Nat
    BY LenProperties
  <2>3. BatchesFor(s, c) = f[Len(s)]
    BY <2>1, <2>2, PostedShows
  <2>4. f[Len(s)] \in Seq(R) /\ f[0] = <<>>
    BY <2>1, <2>2 DEF PostedTrace
  <2> QED BY <2>3, <2>4
<1>2. <<>> \in Seq(M) /\ Len(<<>>) = 0
  OBVIOUS
<1> QED BY <1>1, <1>2

(* A message posted comes after the others.                                 *)
LEMMA BatchesAppended ==
  ASSUME NEW M, NEW R, NEW c, Addressed(M, R, c), NEW s \in Seq(M), NEW m \in M
  PROVE  BatchesFor(Append(s, m), c) = BatchesFor(s, c) \o EntriesFor(m, c)
<1> DEFINE t == Append(s, m)
           N == Len(s)
<1>1. /\ t \in Seq(M) /\ Len(t) = N + 1 /\ t[N + 1] = m
      /\ \A n \in 1 .. N : t[n] = s[n]
  BY AppendProperties
<1>2. N \in Nat
  BY LenProperties
<1> HIDE DEF t
<1>3. PICK f : PostedTrace(f, R, t, c)
  BY <1>1, PostedExists
<1>4. BatchesFor(t, c) = f[N + 1]
  BY <1>1, <1>2, <1>3, PostedShows
<1>5. f \in [0 .. (N + 1) -> Seq(R)] /\ f[0] = <<>>
  BY <1>1, <1>3 DEF PostedTrace
<1>6. \A n \in 1 .. (N + 1) : f[n] = f[n - 1] \o EntriesFor(t[n], c)
  BY <1>1, <1>3 DEF PostedTrace
<1> DEFINE g == [n \in 0 .. N |-> f[n]]
<1>7. PostedTrace(g, R, s, c)
  <2>1. g \in [0 .. N -> Seq(R)] /\ g[0] = <<>>
    BY <1>2, <1>5
  <2>2. ASSUME NEW n \in 1 .. N PROVE g[n] = g[n - 1] \o EntriesFor(s[n], c)
    <3>1. g[n] = f[n] /\ g[n - 1] = f[n - 1] /\ t[n] = s[n] /\ n \in 1 .. (N + 1)
      BY <1>1, <1>2
    <3>2. f[n] = f[n - 1] \o EntriesFor(t[n], c)
      BY <1>6, <3>1
    <3> HIDE DEF g
    <3> QED BY <3>1, <3>2
  <2> HIDE DEF g
  <2> QED BY <2>1, <2>2 DEF PostedTrace
<1>8. g[N] = f[N]
  BY <1>2
<1> HIDE DEF g
<1>9. BatchesFor(s, c) = f[N]
  BY <1>2, <1>7, <1>8, PostedShows
<1>10. f[N + 1] = f[N] \o EntriesFor(m, c)
  <2>1. N + 1 \in 1 .. (N + 1) /\ (N + 1) - 1 = N
    BY <1>2
  <2>2. f[N + 1] = f[(N + 1) - 1] \o EntriesFor(t[N + 1], c)
    BY <1>6, <2>1
  <2> QED BY <1>1, <2>1, <2>2
<1> QED BY <1>4, <1>9, <1>10 DEF t

(* The first message of the port has the oldest responses.                  *)
LEMMA BatchesTaken ==
  ASSUME NEW M, NEW R, NEW c, Addressed(M, R, c), NEW s \in Seq(M), s # <<>>
  PROVE  BatchesFor(s, c) = EntriesFor(Head(s), c) \o BatchesFor(Tail(s), c)
<1> DEFINE t == Tail(s)
           h == EntriesFor(Head(s), c)
           N == Len(s)
<1>1. /\ N \in Nat \ {0} /\ t \in Seq(M) /\ Len(t) = N - 1
      /\ Head(s) = s[1] /\ \A n \in 1 .. (N - 1) : t[n] = s[n + 1]
  <2>1. t \in Seq(M) /\ Len(t) = N - 1 /\ \A n \in 1 .. Len(t) : t[n] = s[n + 1]
    BY HeadTailProperties
  <2>2. N \in Nat \ {0} /\ Head(s) = s[1]
    BY EmptySeq
  <2> QED BY <2>1, <2>2
<1>2. \A n \in 1 .. N : EntriesFor(s[n], c) \in Seq(R)
  BY ElementOfSeq DEF Addressed
<1> HIDE DEF t, N
<1>3. h \in Seq(R)
  BY <1>1, <1>2
<1> HIDE DEF h
<1>4. PICK f : PostedTrace(f, R, t, c)
  BY <1>1, PostedExists
<1>5. BatchesFor(t, c) = f[N - 1]
  BY <1>1, <1>4, PostedShows
<1>6. f \in [0 .. (N - 1) -> Seq(R)] /\ f[0] = <<>>
  BY <1>1, <1>4 DEF PostedTrace
<1>7. \A n \in 1 .. (N - 1) : f[n] = f[n - 1] \o EntriesFor(t[n], c)
  BY <1>1, <1>4 DEF PostedTrace
<1> DEFINE g == [n \in 0 .. N |-> IF n = 0 THEN <<>> ELSE h \o f[n - 1]]
<1>8. g[0] = <<>> /\ \A n \in 1 .. N : g[n] = h \o f[n - 1]
  BY <1>1
<1>9. g \in [0 .. N -> Seq(R)]
  <2>1. \A n \in 1 .. N : f[n - 1] \in Seq(R)
    BY <1>1, <1>6
  <2>2. \A n \in 1 .. N : h \o f[n - 1] \in Seq(R)
    BY <1>3, <2>1, ConcatProperties
  <2>3. <<>> \in Seq(R)
    OBVIOUS
  <2> DEFINE E == Seq(R)
  <2> HIDE DEF E
  <2>4. g \in [0 .. N -> E]
    BY <1>1, <2>2, <2>3 DEF E
  <2> QED BY <2>4 DEF E
<1> HIDE DEF g
<1>10. ASSUME NEW n \in 1 .. N PROVE g[n] = g[n - 1] \o EntriesFor(s[n], c)
  <2>1. CASE n = 1
    <3>1. h \o <<>> = h /\ <<>> \o h = h
      BY <1>3, ConcatEmptySeq
    <3>2. g[1] = h \o f[0] /\ g[0] = <<>>
      BY <1>1, <1>8
    <3>3. EntriesFor(s[1], c) = h
      BY <1>1 DEF h
    <3>4. n - 1 = 0
      BY <2>1
    <3>5. g[n] = h \o <<>>
      BY <1>6, <2>1, <3>2
    <3>6. g[n - 1] \o EntriesFor(s[n], c) = <<>> \o h
      BY <2>1, <3>2, <3>3, <3>4
    <3> QED BY <3>1, <3>5, <3>6
  <2>2. CASE n # 1
    <3>1. n - 1 \in 1 .. (N - 1) /\ n - 1 \in 1 .. N /\ (n - 1) + 1 = n /\ n - 2 \in 0 .. (N - 1) /\ (n - 1) - 1 = n - 2
      BY <1>1, <2>2
    <3>2. f[n - 1] = f[n - 2] \o EntriesFor(s[n], c)
      <4>1. f[n - 1] = f[(n - 1) - 1] \o EntriesFor(t[n - 1], c)
        BY <1>7, <3>1
      <4>2. t[n - 1] = s[(n - 1) + 1]
        BY <1>1, <3>1
      <4> QED BY <3>1, <4>1, <4>2
    <3>3. g[n] = h \o f[n - 1]
      BY <1>8
    <3>4. g[n - 1] = h \o f[n - 2]
      <4>1. g[n - 1] = h \o f[(n - 1) - 1]
        BY <1>8, <3>1
      <4> QED BY <3>1, <4>1
    <3>5. f[n - 2] \in Seq(R) /\ EntriesFor(s[n], c) \in Seq(R)
      BY <1>2, <1>6, <3>1
    <3>6. (h \o f[n - 2]) \o EntriesFor(s[n], c) = h \o (f[n - 2] \o EntriesFor(s[n], c))
      <4> DEFINE x == f[n - 2]
                 y == EntriesFor(s[n], c)
      <4>1. x \in Seq(R) /\ y \in Seq(R)
        BY <3>5
      <4> HIDE DEF x, y
      <4>2. (h \o x) \o y = h \o (x \o y)
        BY <1>3, <4>1, ConcatAssociative, SMTT(40)
      <4> QED BY <4>2 DEF x, y
    <3> QED BY <3>2, <3>3, <3>4, <3>6
  <2> QED BY <2>1, <2>2
<1>11. PostedTrace(g, R, s, c)
  BY <1>8, <1>9, <1>10 DEF PostedTrace, N
<1>12. BatchesFor(s, c) = g[N]
  <2>1. Len(s) \in Nat
    BY <1>1 DEF N
  <2> QED BY <1>11, <2>1, PostedShows DEF N
<1>13. g[N] = h \o f[N - 1]
  BY <1>1, <1>8
<1> QED BY <1>5, <1>12, <1>13 DEF h, t

(* A frame of one message: the RPC server takes that one.                   *)
LEMMA OneRequestWritten ==
  ASSUME NEW c, NEW m, WriteRequests(c, <<m>>)
  PROVE  calls' = [calls EXCEPT ![c] = AfterMessage(calls[c], m)]
<1> DEFINE s == <<m>>
           Is(h) == h = [n \in 0 .. Len(s) |-> IF n = 0 THEN calls[c] ELSE AfterMessage(h[n - 1], s[n])]
           g == CHOOSE h : Is(h)
           f == [n \in 0 .. 1 |-> IF n = 0 THEN calls[c] ELSE AfterMessage(calls[c], m)]
<1>1. calls' = [calls EXCEPT ![c] = g[Len(s)]]
  BY Zenon DEF WriteRequests
<1>2. Len(s) = 1 /\ s[1] = m
  OBVIOUS
<1> HIDE DEF s
<1>3. Is(f)
  <2> DEFINE b == calls[c]
             a == AfterMessage(calls[c], m)
  <2>1. f = [n \in 0 .. 1 |-> IF n = 0 THEN b ELSE a]
    OBVIOUS
  <2>2. \A n \in 0 .. 1 : n = 0 \/ n = 1
    OBVIOUS
  <2>3. f[0] = b /\ f[1] = a /\ a = AfterMessage(f[0], s[1])
    BY <1>2
  <2> HIDE DEF f
  <2>4. \A n \in 0 .. 1 : (IF n = 0 THEN b ELSE AfterMessage(f[n - 1], s[n])) = IF n = 0 THEN b ELSE a
    BY <2>2, <2>3
  <2> HIDE DEF a, b
  <2>5. f = [n \in 0 .. 1 |-> IF n = 0 THEN b ELSE AfterMessage(f[n - 1], s[n])]
    BY <2>1, <2>4
  <2> QED BY <1>2, <2>5 DEF b
<1>4. Is(g)
  <2> HIDE DEF Is, f
  <2> QED BY <1>3
<1> HIDE DEF g, f
<1>5. g[1] = AfterMessage(g[0], m) /\ g[0] = calls[c]
  BY <1>2, <1>4
<1> QED BY <1>1, <1>2, <1>5

-----------------------------------------------------------------------------
(* The inductive invariant.                                                 *)

(* The types, without the two bounds that the acks give.                    *)
PeerRecord == [asked : BOOLEAN, acked : Nat, gaveUp : BOOLEAN]
CallStates == {"none", "ready", "unacked", "ending", "over"}
ClientsShape ==
  /\ mode \in {"in-process", "isolated"} /\ scenario \in Demands
  /\ nextClientId \in 0 .. Cardinality(Client)
  /\ socket \in [Client -> {"none", "open", "closing", "closed", "refused"}]
  /\ peer \in [Client -> [AllCalls -> PeerRecord]]
  /\ calls \in [Client -> [AllCalls -> CallStates]]
  /\ queue \in [Client -> Seq(Response)] /\ sent \in [Client -> Seq(Response)]
  /\ writing \in [Client -> Seq(Item)] /\ received \in [Client -> Seq(Item)]
  /\ flush \in [Client -> SUBSET {"scheduled", "flushing", "dead"}]
  /\ clientIds \subseteq Client
  /\ disconnects \in Seq(Client)
  /\ gauge \in [Client -> Int]
Shape == ClientsShape /\ ThreadTypeOK

(* The thread of the isolated transport does nothing in a behaviour of the  *)
(* other one.                                                               *)
ThreadIdle ==
  mode = "in-process" => toWorker = <<>> /\ toParent = <<>> /\ pendingSends.entries = NoEntries

(* All responses of a client: those it got and those on their way to it.    *)
Joined(got, written, queued, posted, pending) == got \o (((written \o queued) \o posted) \o pending)
Whole(c) == Joined(received[c], writing[c], queue[c], BatchesFor(toWorker, c), pendingSends.entries[c])

(* The client was told of no defect, and will not be by the batch on its way. *)
Clean(s, t) == Defect \notin Range(s) /\ Defect \notin Range(t)

(* What the state of a client's socket says of the rest: it is what the     *)
(* metrics and the protocol report, it lives in a thread that is up, a      *)
(* batch is being written only in a flush, and a client that has not        *)
(* connected has asked nothing and was sent nothing.                        *)
Alive(c) == socket[c] \in {"open", "closing"}
Placed(c) ==
  /\ nextClientId <= c => socket[c] = "none"
  /\ (gauge[c] # Absent) = Alive(c)
  /\ mode = "in-process" => (c \in clientIds <=> Alive(c)) /\ (flush[c] = {} => writing[c] = <<>>)
  /\ mode = "isolated" =>
       /\ Alive(c) => thread = "up"
       /\ "flushing" \in flush[c] => Alive(c)
       /\ "flushing" \notin flush[c] => writing[c] = <<>>
  /\ socket[c] = "none" =>
       /\ sent[c] = <<>> /\ Clean(received[c], writing[c])
       /\ \A r \in AllCalls : ~peer[c][r].asked

(* What DeliveredInOrder says, also of a client that has not connected.     *)
Ordered(c) ==
  socket[c] \in {"none", "open"} /\ Clean(received[c], writing[c]) => Whole(c) = sent[c]

(* The books of a call: how many of its messages are on their way to the    *)
(* RPC server, and how many of its responses are on theirs to the client.   *)
Coming(kind, c, r) ==
  Tally(toParent, {[type |-> "clientMessage", client |-> c, message |-> Sends(kind, r)]})

(* A request is under way before the call starts.  A chunk was got, is on   *)
(* its way or is lost; there are no more than one for each ack the client   *)
(* sent and one more; and the call is ready for the next one when the ack   *)
(* of the last has come.  The exit is on its way when the call is over.     *)
Account(state, asked, acked, chunks, got, whole, exits, acks, requests, most) ==
  /\ whole <= chunks /\ chunks <= most
  /\ acked <= got /\ chunks <= acked + 1
  /\ acks <= 1 /\ (acks = 1 => chunks = acked)
  /\ requests <= 1 /\ (requests = 1 => state = "none")
  /\ ~asked => state = "none" /\ requests = 0
  /\ state = "none" => chunks = 0 /\ acks = 0
  /\ state = "ready" => chunks = acked /\ acks = 0
  /\ state = "unacked" => chunks = acked + 1 - acks
  /\ exits <= 1 /\ (exits = 1 => state = "over")
Balanced(c, r) ==
  Account(calls[c][r], peer[c][r].asked, peer[c][r].acked, Count(sent[c], "Chunk", r),
          Count(received[c], "Chunk", r), Count(Whole(c), "Chunk", r), Count(Whole(c), "Exit", r),
          Coming("Ack", c, r), Coming("Request", c, r), scenario.chunks)

(* Until the RPC server runs, and after it is over, no call goes on.         *)
Unserved ==
  mode = "isolated" /\ ~serving =>
    \A c \in Client : \A r \in AllCalls : calls[c][r] \in {"none", "over"}

CountsBounded == \A c \in Client : gauge[c] <= 2 * Cardinality(AllCalls) /\ gauge[c] >= Absent

TransportInv ==
  /\ Shape /\ ThreadIdle /\ Unserved /\ CountsBounded
  /\ \A c \in Client : Placed(c) /\ Ordered(c)
  /\ \A c \in Client : \A r \in AllCalls : Balanced(c, r)

-----------------------------------------------------------------------------
(* Types.                                                                   *)

(* The demands and the transport of a behaviour are chosen once.            *)
LEMMA NeverChanges ==
  ASSUME TransportNext
  PROVE  scenario' = scenario /\ mode' = mode
<1>1. CASE InProcess
  BY <1>1 DEF InProcess, OnSocket, TakeDisconnect, HandleSocketData, TakeFirst, TakeRest, Written,
              SocketOver, Closes, Send
<1>2. CASE WorkerThread
  BY <1>2 DEF WorkerThread, Connection, HandleParentMessage, ServerClosed, ThreadDies, HandleClientData,
              FlushClient, WriteDone, DisconnectClient, CloseSocket, clientVars
<1>3. CASE Bridge
  BY <1>3 DEF Bridge, Run, ParentReceives, ThreadExits, FlushServerMessages, RequestMetrics, RequestShutdown,
              ShutdownTimeout, Terminate, TakeDisconnect, MetricsTimeout, SendIsolated, clientVars
<1> QED BY <1>1, <1>2, <1>3 DEF TransportNext

(* What a demand is.                                                        *)
LEMMA DemandFacts ==
  ASSUME scenario \in Demands
  PROVE  /\ scenario.chunks \in Nat /\ scenario.calls \in [Client -> SUBSET AllCalls]
         /\ \A c \in Client : Calls(c) \subseteq AllCalls
         /\ IsFiniteSet(AllCalls) /\ Cardinality(AllCalls) \in Nat
<1> DEFINE D == [calls : [Client -> SUBSET AllCalls], chunks : Nat, bad : SUBSET AllCalls,
                 rude : BOOLEAN, metrics : Nat, crash : BOOLEAN]
<1>1. scenario \in D
  BY ClientsAssumption
<1>2. scenario.chunks \in Nat /\ scenario.calls \in [Client -> SUBSET AllCalls]
  BY <1>1
<1>3. IsFiniteSet(AllCalls)
  BY ClientsAssumption
<1>4. Cardinality(AllCalls) \in Nat
  BY <1>3, FS_CardinalityType
<1> QED BY <1>2, <1>3, <1>4 DEF Calls

(* Responses and messages are the same after a step.                        *)
LEMMA SameItems ==
  ASSUME scenario' = scenario
  PROVE  Response' = Response /\ Item' = Item
BY DEF Response, Item

(* What may be sent is a response.                                          *)
LEMMA RespondsFacts ==
  ASSUME ClientsShape, NEW c \in Client, NEW r \in AllCalls, NEW x \in Response, Responds(c, r, x)
  PROVE  /\ calls' \in [Client -> [AllCalls -> CallStates]]
         /\ \A d \in Client, q \in AllCalls : d # c \/ q # r => calls'[d][q] = calls[d][q]
         /\ \/ /\ calls[c][r] = "ready" /\ calls'[c][r] = "unacked" /\ x.kind = "Chunk" /\ x.call = r
               /\ Count(sent[c], "Chunk", r) < scenario.chunks
            \/ /\ calls[c][r] \in {"ready", "ending"} /\ calls'[c][r] = "over" /\ x.kind = "Exit" /\ x.call = r
<1>1. calls \in [Client -> [AllCalls -> CallStates]]
  BY DEF ClientsShape
<1>2. CASE /\ calls[c][r] = "ready" /\ Count(sent[c], "Chunk", r) < scenario.chunks
           /\ x = NextChunk(c, r)
           /\ calls' = [calls EXCEPT ![c][r] = IF SupportsAck THEN "unacked" ELSE "ready"]
  BY <1>1, <1>2 DEF SupportsAck, NextChunk, CallStates
<1>3. CASE /\ calls[c][r] \in {"ready", "ending"}
           /\ x = [kind |-> "Exit", call |-> r]
           /\ calls' = [calls EXCEPT ![c][r] = "over"]
  BY <1>1, <1>3 DEF CallStates
<1> QED BY <1>2, <1>3 DEF Responds

(* A frame of a client: a message of a call of its own, and garbage or not. *)
LEMMA FrameFacts ==
  ASSUME scenario \in Demands, NEW c \in Client, NEW frame \in Frames(c)
  PROVE  \E r \in AllCalls :
           \/ /\ frame = <<Sends("Request", r)>> /\ ~peer[c][r].asked
           \/ /\ frame = <<Sends("Request", r), Garbage>> /\ ~peer[c][r].asked
           \/ /\ frame = <<Sends("Ack", r)>> /\ peer[c][r].acked < Count(received[c], "Chunk", r)
           \/ /\ frame = <<Sends("Interrupt", r)>>
<1>1. Calls(c) \subseteq AllCalls
  BY DemandFacts
<1>2. Unasked(c) \subseteq AllCalls /\ \A r \in Unasked(c) : ~peer[c][r].asked
  BY <1>1 DEF Unasked
<1>3. Waiting(c) \subseteq AllCalls /\ MayAck(c) \subseteq AllCalls
       /\ \A r \in MayAck(c) : peer[c][r].acked < Count(received[c], "Chunk", r)
  BY <1>1 DEF Waiting, MayAck
<1>4. CASE frame \in {<<Sends("Request", r)>> : r \in Unasked(c)}
  BY <1>2, <1>4
<1>5. CASE frame \in {<<Sends("Request", r), Garbage>> : r \in IF scenario.rude THEN Unasked(c) ELSE {}}
  BY <1>2, <1>5
<1>6. CASE frame \in {<<Sends("Ack", r)>> : r \in MayAck(c)}
  BY <1>3, <1>6
<1>7. CASE frame \in {<<Sends("Interrupt", r)>> : r \in IF scenario.rude THEN Waiting(c) \ MayAck(c) ELSE {}}
  BY <1>3, <1>7
<1> QED BY <1>4, <1>5, <1>6, <1>7 DEF Frames

(* What a frame that arrives does: it is remembered by the client that sent *)
(* it, and its message is decoded unless garbage follows it.                *)
FrameOf(c, frame, kind, r) ==
  /\ \/ frame = <<Sends(kind, r)>> /\ DecodeClientMessages(frame) = [tag |-> "Messages", messages |-> frame]
     \/ kind = "Request" /\ DecodeClientMessages(frame) = [tag |-> "Defect"]
  /\ \A d \in Client, q \in AllCalls : d # c \/ q # r => peer'[d][q] = peer[d][q]
  /\ kind = "Request" => /\ ~peer[c][r].asked /\ peer'[c][r].asked
                         /\ peer'[c][r].acked = peer[c][r].acked
  /\ kind = "Ack" => /\ peer[c][r].acked < Count(received[c], "Chunk", r)
                     /\ peer'[c][r].asked = peer[c][r].asked /\ peer'[c][r].acked = peer[c][r].acked + 1
  /\ kind = "Interrupt" => peer'[c][r].asked = peer[c][r].asked /\ peer'[c][r].acked = peer[c][r].acked

(* A frame that arrives is one message of one call, and changes nothing     *)
(* that other calls of the clients keep.                                    *)
LEMMA FrameTaken ==
  ASSUME ClientsShape, NEW c \in Client, NEW frame, FrameArrives(c, frame)
  PROVE  /\ socket[c] = "open"
         /\ peer' \in [Client -> [AllCalls -> PeerRecord]]
         /\ \E r \in AllCalls : \E kind \in {"Request", "Ack", "Interrupt"} : FrameOf(c, frame, kind, r)
<1>1. socket[c] = "open" /\ frame \in Frames(c) /\ peer' = [peer EXCEPT ![c] = AfterSending(@, Head(frame))]
  BY DEF FrameArrives
<1>2. peer \in [Client -> [AllCalls -> PeerRecord]] /\ scenario \in Demands
  BY DEF ClientsShape
<1>3. ASSUME NEW r \in AllCalls, NEW kind \in {"Request", "Ack", "Interrupt"}, Head(frame) = Sends(kind, r)
      PROVE  /\ peer' \in [Client -> [AllCalls -> PeerRecord]]
             /\ \A d \in Client, q \in AllCalls : d # c \/ q # r => peer'[d][q] = peer[d][q]
             /\ peer'[c][r].asked = IF kind = "Request" THEN TRUE ELSE peer[c][r].asked
             /\ peer'[c][r].acked = IF kind = "Ack" THEN peer[c][r].acked + 1 ELSE peer[c][r].acked
  <2> DEFINE old == peer[c][r]
             new == IF kind = "Request" THEN [old EXCEPT !.asked = TRUE]
                    ELSE IF kind = "Ack" THEN [old EXCEPT !.acked = old.acked + 1]
                    ELSE [old EXCEPT !.gaveUp = TRUE]
  <2>1. old \in PeerRecord
    BY <1>2
  <2>2. /\ new \in PeerRecord
        /\ new.asked = IF kind = "Request" THEN TRUE ELSE old.asked
        /\ new.acked = IF kind = "Ack" THEN old.acked + 1 ELSE old.acked
    <3> HIDE DEF old
    <3>1. old.acked \in Nat /\ old.acked + 1 \in Nat
      BY <2>1 DEF PeerRecord
    <3>2. CASE kind = "Request"
      <4>1. new = [old EXCEPT !.asked = TRUE]
        BY <3>2
      <4>2. new \in PeerRecord
        BY <2>1, <4>1 DEF PeerRecord
      <4>3. new.asked = TRUE
        BY <2>1, <4>1 DEF PeerRecord
      <4>4. new.acked = old.acked
        BY <2>1, <4>1 DEF PeerRecord
      <4> HIDE DEF new
      <4> QED BY <3>2, <4>2, <4>3, <4>4
    <3>3. CASE kind = "Ack"
      <4>1. new = [old EXCEPT !.acked = old.acked + 1]
        BY <3>3
      <4>2. new \in PeerRecord
        BY <2>1, <3>1, <4>1 DEF PeerRecord
      <4>3. new.asked = old.asked
        BY <2>1, <4>1 DEF PeerRecord
      <4>4. new.acked = old.acked + 1
        BY <2>1, <4>1 DEF PeerRecord
      <4> HIDE DEF new
      <4> QED BY <3>3, <4>2, <4>3, <4>4
    <3>4. CASE kind = "Interrupt"
      <4>1. new = [old EXCEPT !.gaveUp = TRUE]
        BY <3>4
      <4>2. new \in PeerRecord
        BY <2>1, <4>1 DEF PeerRecord
      <4>3. new.asked = old.asked
        BY <2>1, <4>1 DEF PeerRecord
      <4>4. new.acked = old.acked
        BY <2>1, <4>1 DEF PeerRecord
      <4> HIDE DEF new
      <4> QED BY <3>4, <4>2, <4>3, <4>4
    <3> QED BY <3>2, <3>3, <3>4
  <2>3. Sends(kind, r).kind = kind /\ Sends(kind, r).call = r
    BY DEF Sends
  <2>4. AfterSending(peer[c], Head(frame)) = [peer[c] EXCEPT ![r] = new]
    BY <1>3, <2>3 DEF AfterSending
  <2>5. peer' = [peer EXCEPT ![c] = [peer[c] EXCEPT ![r] = new]]
    BY <1>1, <2>4
  <2> HIDE DEF new, old
  <2>6. peer' \in [Client -> [AllCalls -> PeerRecord]] /\ peer'[c][r] = new
        /\ \A d \in Client, q \in AllCalls : d # c \/ q # r => peer'[d][q] = peer[d][q]
    BY <1>2, <2>2, <2>5
  <2> QED BY <2>2, <2>6 DEF old
<1>4. \A kind \in {"Request", "Ack", "Interrupt"} : \A r \in AllCalls : Sends(kind, r) # Garbage
  BY DEF Sends, Garbage
<1>5. ASSUME NEW m, m # Garbage, frame = <<m>>
      PROVE  Head(frame) = m /\ DecodeClientMessages(frame) = [tag |-> "Messages", messages |-> frame]
  <2>1. Garbage \notin Range(frame)
    BY <1>5 DEF Range
  <2> QED BY <1>5, <2>1 DEF DecodeClientMessages
<1>6. ASSUME NEW m, frame = <<m, Garbage>>
      PROVE  Head(frame) = m /\ DecodeClientMessages(frame) = [tag |-> "Defect"]
  <2>1. frame[2] = Garbage /\ 2 \in DOMAIN frame
    BY <1>6
  <2>2. Garbage \in Range(frame)
    BY <2>1 DEF Range
  <2> QED BY <1>6, <2>2 DEF DecodeClientMessages
<1>7. PICK r \in AllCalls :
        \/ /\ frame = <<Sends("Request", r)>> /\ ~peer[c][r].asked
        \/ /\ frame = <<Sends("Request", r), Garbage>> /\ ~peer[c][r].asked
        \/ /\ frame = <<Sends("Ack", r)>> /\ peer[c][r].acked < Count(received[c], "Chunk", r)
        \/ /\ frame = <<Sends("Interrupt", r)>>
  BY <1>1, <1>2, FrameFacts
<1>8. CASE frame = <<Sends("Request", r)>> /\ ~peer[c][r].asked
  <2>1. Head(frame) = Sends("Request", r) /\ DecodeClientMessages(frame) = [tag |-> "Messages", messages |-> frame]
    BY <1>4, <1>5, <1>8
  <2> QED BY <1>1, <1>3, <1>8, <2>1 DEF FrameOf
<1>9. CASE frame = <<Sends("Request", r), Garbage>> /\ ~peer[c][r].asked
  <2>1. Head(frame) = Sends("Request", r) /\ DecodeClientMessages(frame) = [tag |-> "Defect"]
    BY <1>6, <1>9
  <2> QED BY <1>1, <1>3, <1>9, <2>1 DEF FrameOf
<1>10. CASE frame = <<Sends("Ack", r)>> /\ peer[c][r].acked < Count(received[c], "Chunk", r)
  <2>1. Head(frame) = Sends("Ack", r) /\ DecodeClientMessages(frame) = [tag |-> "Messages", messages |-> frame]
    BY <1>4, <1>5, <1>10
  <2> QED BY <1>1, <1>3, <1>10, <2>1 DEF FrameOf
<1>11. CASE frame = <<Sends("Interrupt", r)>>
  <2>1. Head(frame) = Sends("Interrupt", r) /\ DecodeClientMessages(frame) = [tag |-> "Messages", messages |-> frame]
    BY <1>4, <1>5, <1>11
  <2> QED BY <1>1, <1>3, <1>11, <2>1 DEF FrameOf
<1> QED BY <1>7, <1>8, <1>9, <1>10, <1>11

(* What the RPC server makes of a message.                                  *)
LEMMA MessageTaken ==
  ASSUME calls \in [Client -> [AllCalls -> CallStates]], NEW c \in Client, NEW r \in AllCalls,
         NEW kind \in {"Request", "Ack", "Interrupt"}, WriteRequests(c, <<Sends(kind, r)>>)
  PROVE  /\ calls' \in [Client -> [AllCalls -> CallStates]]
         /\ \A d \in Client, q \in AllCalls : d # c \/ q # r => calls'[d][q] = calls[d][q]
         /\ kind = "Request" => calls'[c][r] = "ready"
         /\ kind = "Ack" => calls'[c][r] = IF calls[c][r] = "unacked" THEN "ready" ELSE calls[c][r]
         /\ kind = "Interrupt" => calls'[c][r] = IF calls[c][r] \in {"ready", "unacked"} THEN "ending" ELSE calls[c][r]
<1> DEFINE old == calls[c][r]
           new == IF kind = "Request" THEN "ready"
                  ELSE IF kind = "Ack" THEN IF old = "unacked" THEN "ready" ELSE old
                  ELSE IF old \in {"ready", "unacked"} THEN "ending" ELSE old
<1>1. Sends(kind, r).kind = kind /\ Sends(kind, r).call = r
  BY DEF Sends
<1>2. AfterMessage(calls[c], Sends(kind, r)) = [calls[c] EXCEPT ![r] = new]
  BY <1>1 DEF AfterMessage
<1>3. calls' = [calls EXCEPT ![c] = [calls[c] EXCEPT ![r] = new]]
  BY <1>2, OneRequestWritten
<1>4. new \in CallStates
  BY DEF CallStates
<1> HIDE DEF new
<1>5. calls' \in [Client -> [AllCalls -> CallStates]] /\ calls'[c][r] = new
      /\ \A d \in Client, q \in AllCalls : d # c \/ q # r => calls'[d][q] = calls[d][q]
  BY <1>3, <1>4
<1> QED BY <1>5 DEF new

(* What a message of a port is.                                             *)
LEMMA WorkerMessageFacts ==
  ASSUME NEW m \in WorkerMessage
  PROVE  /\ m.type \in {"clientConnected", "clientDisconnected"} => m.client \in Client
         /\ m.type = "clientMessage" => /\ m.client \in Client /\ m.message \in Message
                                        /\ m = [type |-> "clientMessage", client |-> m.client, message |-> m.message]
         /\ m.type \in {"metrics", "shutdownAck"} => m.id \in 1 .. requestId
         /\ m.type \in {"clientConnected", "clientDisconnected", "clientMessage", "metrics", "shutdownAck"}
BY DEF WorkerMessage

(* The same of what the parent posts to the worker ...                      *)
LEMMA ServerMessageFacts ==
  ASSUME NEW m \in ServerMessage
  PROVE  /\ m.type = "serverBatch" => m.entries \in Batch
         /\ m.type \in {"metrics", "shutdown"} => m.id \in 1 .. requestId
         /\ m.type \in {"serverBatch", "metrics", "shutdown"}
BY DEF ServerMessage

(* ... and of what a client says.                                           *)
LEMMA MessageFacts ==
  ASSUME NEW m \in Message
  PROVE  /\ m.kind \in {"Request", "Ack", "Interrupt"} /\ m.call \in AllCalls
         /\ m = Sends(m.kind, m.call)
BY DEF Message, Sends

(* A batch encoded is responses, or a defect.                               *)
LEMMA EncodedType ==
  ASSUME NEW s \in Seq(Item)
  PROVE  EncodeServerBatch(s) \in Seq(Item) /\ EncodeServerBatch(s) \in {s, <<Defect>>}
<1>1. Defect \in Item
  BY DEF Item
<1>2. <<Defect>> \in Seq(Item)
  BY <1>1
<1> QED BY <1>2 DEF EncodeServerBatch

(* Responses are items.                                                     *)
LEMMA ResponsesAreItems ==
  ASSUME NEW s \in Seq(Response)
  PROVE  s \in Seq(Item)
<1>1. Response \subseteq Item
  BY DEF Item
<1> QED BY <1>1, SeqMonotonic

(* The types of the clients after a step.                                   *)
Responses == Seq(Response)
Items == Seq(Item)
ClientsTypedNext ==
  /\ nextClientId' \in 0 .. Cardinality(Client)
  /\ socket' \in [Client -> {"none", "open", "closing", "closed", "refused"}]
  /\ peer' \in [Client -> [AllCalls -> PeerRecord]]
  /\ calls' \in [Client -> [AllCalls -> CallStates]]
  /\ queue' \in [Client -> Responses] /\ sent' \in [Client -> Responses]
  /\ writing' \in [Client -> Items] /\ received' \in [Client -> Items]
  /\ flush' \in [Client -> SUBSET {"scheduled", "flushing", "dead"}]
  /\ clientIds' \subseteq Client
  /\ disconnects' \in Seq(Client)
  /\ gauge' \in [Client -> Int]
ClientsTyped ==
  /\ mode \in {"in-process", "isolated"} /\ scenario \in Demands
  /\ nextClientId \in 0 .. Cardinality(Client)
  /\ socket \in [Client -> {"none", "open", "closing", "closed", "refused"}]
  /\ peer \in [Client -> [AllCalls -> PeerRecord]]
  /\ calls \in [Client -> [AllCalls -> CallStates]]
  /\ queue \in [Client -> Responses] /\ sent \in [Client -> Responses]
  /\ writing \in [Client -> Items] /\ received \in [Client -> Items]
  /\ flush \in [Client -> SUBSET {"scheduled", "flushing", "dead"}]
  /\ clientIds \subseteq Client
  /\ disconnects \in Seq(Client)
  /\ gauge \in [Client -> Int]

(* They are the shape again, since the demands do not change.               *)
LEMMA TypedIsShape ==
  /\ ClientsShape => ClientsTyped
  /\ ClientsShape /\ scenario' = scenario /\ mode' = mode /\ ClientsTypedNext => ClientsShape'
<1>1. ClientsShape => ClientsTyped
  BY DEF ClientsShape, ClientsTyped, Responses, Items
<1>2. ASSUME ClientsShape, scenario' = scenario, mode' = mode, ClientsTypedNext
      PROVE  ClientsShape'
  <2>1. Response' = Response /\ Item' = Item
    BY <1>2, SameItems
  <2> QED BY <1>2, <2>1 DEF ClientsShape, ClientsTypedNext, Responses, Items
<1> QED BY <1>1, <1>2

(* Sequences of responses and of items, put together.                       *)
LEMMA ItemFacts ==
  /\ \A s \in Responses : s \in Items /\ Len(s) \in Nat
  /\ \A s \in Responses, x \in Response : Append(s, x) \in Responses
  /\ \A s \in Responses : s # <<>> => <<Head(s)>> \in Items /\ Tail(s) \in Responses
  /\ \A s, t \in Responses : s \o t \in Responses
  /\ \A s \in Items : EncodeServerBatch(s) \in Items
  /\ \A s, t \in Items : s \o t \in Items
  /\ \A s \in Items : Append(s, Defect) \in Items
  /\ <<>> \in Responses /\ <<>> \in Items
<1>1. \A s \in Responses : s \in Items /\ Len(s) \in Nat
  BY ResponsesAreItems, LenProperties DEF Responses, Items
<1>2. \A s \in Responses, x \in Response : Append(s, x) \in Responses
  BY AppendProperties DEF Responses
<1>3. \A s \in Responses : s # <<>> => <<Head(s)>> \in Items /\ Tail(s) \in Responses
  <2>1. \A s \in Responses : s # <<>> => <<Head(s)>> \in Responses /\ Tail(s) \in Responses
    BY HeadAndTail DEF Responses
  <2> QED BY <1>1, <2>1
<1>4. \A s \in Items : EncodeServerBatch(s) \in Items
  BY EncodedType DEF Items
<1>5. \A s, t \in Items : s \o t \in Items
  BY ConcatProperties DEF Items
<1>6. \A s \in Items : Append(s, Defect) \in Items
  BY AppendProperties DEF Item, Items
<1>7. \A s, t \in Responses : s \o t \in Responses
  BY ConcatProperties DEF Responses
<1>8. <<>> \in Responses /\ <<>> \in Items
  BY DEF Responses, Items
<1> QED BY <1>1, <1>2, <1>3, <1>4, <1>5, <1>6, <1>7, <1>8

(* The steps of the in-process transport keep the types of the clients.     *)
LEMMA InProcessShape ==
  ASSUME ClientsShape, InProcess
  PROVE  ClientsShape'
<1>1. scenario' = scenario /\ mode' = mode
  BY NeverChanges DEF TransportNext
<1>4. ClientsTyped
  BY TypedIsShape
<1>5. Client = 0 .. Cardinality(Client) - 1 /\ Cardinality(Client) \in Nat
  BY ClientsAssumption, FS_CardinalityType
<1>7. \A c \in Client : Calls(c) \subseteq AllCalls
  BY <1>4, DemandFacts DEF ClientsTyped
<1> USE DEF ClientsTyped, ClientsTypedNext
<1>8. ASSUME OnSocket PROVE ClientsTypedNext
  BY <1>4, <1>5, <1>8 DEF OnSocket, Recorded
<1>9. ASSUME TakeDisconnect PROVE ClientsTypedNext
  <2>1. Head(disconnects) \in Client /\ disconnects' \in Seq(Client)
    BY <1>4, <1>9, HeadTailProperties DEF TakeDisconnect
  <2> DEFINE d == Head(disconnects)
             over == [r \in AllCalls |-> IF calls[d][r] = "none" THEN "none" ELSE "over"]
  <2>2. calls' = [calls EXCEPT ![d] = over]
    BY <1>9 DEF TakeDisconnect
  <2>3. over \in [AllCalls -> CallStates]
    BY DEF CallStates
  <2> HIDE DEF over, d
  <2>4. calls' \in [Client -> [AllCalls -> CallStates]]
    BY <1>4, <2>1, <2>2, <2>3 DEF d
  <2> QED BY <1>4, <1>9, <2>1, <2>4 DEF TakeDisconnect
<1>10. ASSUME NEW c \in Client, HandleSocketData(c) PROVE ClientsTypedNext
  <2>1. PICK frame : /\ frame \in Frames(c) /\ FrameArrives(c, frame)
                     /\ IF DecodeClientMessages(frame).tag = "Defect"
                        THEN received' = [received EXCEPT ![c] = Append(@, Defect)] /\ UNCHANGED calls
                        ELSE WriteRequests(c, DecodeClientMessages(frame).messages) /\ UNCHANGED received
    BY <1>10 DEF HandleSocketData
  <2>2. /\ peer' \in [Client -> [AllCalls -> PeerRecord]]
        /\ \E r \in AllCalls : \E kind \in {"Request", "Ack", "Interrupt"} : FrameOf(c, frame, kind, r)
    BY <2>1, FrameTaken
  <2>3. PICK r \in AllCalls, kind \in {"Request", "Ack", "Interrupt"} : FrameOf(c, frame, kind, r)
    BY <2>2
  <2>4. calls' \in [Client -> [AllCalls -> CallStates]] /\ received' \in [Client -> Items]
    <3>1. CASE DecodeClientMessages(frame).tag = "Defect"
      <4>1. received' = [received EXCEPT ![c] = Append(received[c], Defect)] /\ calls' = calls
        BY <2>1, <3>1
      <4>2. Append(received[c], Defect) \in Items
        BY ItemFacts, <1>4
      <4> QED BY <1>4, <4>1, <4>2
    <3>2. CASE DecodeClientMessages(frame).tag # "Defect"
      <4>1. frame = <<Sends(kind, r)>> /\ DecodeClientMessages(frame).messages = frame
        BY <2>3, <3>2 DEF FrameOf
      <4>2. WriteRequests(c, <<Sends(kind, r)>>) /\ received' = received
        BY <2>1, <3>2, <4>1
      <4>3. calls' \in [Client -> [AllCalls -> CallStates]]
        BY <1>4, <4>2, MessageTaken
      <4> QED BY <1>4, <4>2, <4>3
    <3> QED BY <3>1, <3>2
  <2> QED BY <1>4, <1>10, <2>2, <2>4 DEF HandleSocketData
<1>11. ASSUME NEW c \in Client, NEW r \in Calls(c), Send(c, r) PROVE ClientsTypedNext
  <2>1. r \in AllCalls
    BY <1>7, <1>11
  <2>2. PICK x \in Response : /\ Responds(c, r, x)
                              /\ sent' = [sent EXCEPT ![c] = Append(@, x)]
                              /\ IF c \in clientIds
                                 THEN Offer(c, x) /\ gauge' = Recorded(c, Len(queue[c]) + 1)
                                 ELSE UNCHANGED <<queue, gauge>>
    BY <1>11 DEF Send
  <2>3. calls' \in [Client -> [AllCalls -> CallStates]]
    BY <2>1, <2>2, RespondsFacts
  <2>4. Append(sent[c], x) \in Responses /\ Append(queue[c], x) \in Responses /\ Len(queue[c]) + 1 \in Int
    BY ItemFacts, <1>4
  <2>5. sent' \in [Client -> Responses]
    BY <1>4, <2>2, <2>4
  <2>6. queue' \in [Client -> Responses] /\ gauge' \in [Client -> Int]
    <3>1. CASE c \in clientIds
      BY <1>4, <2>2, <2>4, <3>1, ZenonT(60) DEF Offer, Recorded
    <3>2. CASE c \notin clientIds
      BY <1>4, <2>2, <3>2
    <3> QED BY <3>1, <3>2
  <2> QED BY <1>4, <1>11, <2>3, <2>5, <2>6 DEF Send
<1>12. ASSUME NEW c \in Client, TakeFirst(c) PROVE ClientsTypedNext
  BY ItemFacts, <1>4, <1>12 DEF TakeFirst
<1>13. ASSUME NEW c \in Client, TakeRest(c) PROVE ClientsTypedNext
  BY ItemFacts, <1>4, <1>13 DEF TakeRest, Recorded
<1>14. ASSUME NEW c \in Client, Written(c) PROVE ClientsTypedNext
  <2>1. received[c] \o writing[c] \in Items
    BY ItemFacts, <1>4
  <2>2. received' \in [Client -> Items]
    BY <1>4, <1>14, <2>1 DEF Written
  <2>3. flush' \in [Client -> SUBSET {"scheduled", "flushing", "dead"}]
    <3> DEFINE F == SUBSET {"scheduled", "flushing", "dead"}
    <3>1. {} \in F /\ {"dead"} \in F /\ flush \in [Client -> F]
      BY <1>4
    <3> HIDE DEF F
    <3>2. flush' = [flush EXCEPT ![c] = {}] \/ flush' = [flush EXCEPT ![c] = {"dead"}]
      BY <1>14 DEF Written
    <3>3. flush' \in [Client -> F]
      BY <3>1, <3>2
    <3> QED BY <3>3 DEF F
  <2>4. gauge' \in [Client -> Int] /\ writing' \in [Client -> Items]
    BY ItemFacts, <1>4, <1>14 DEF Written, Recorded
  <2> QED BY <1>4, <1>14, <2>2, <2>3, <2>4 DEF Written
<1>15. ASSUME NEW c \in Client, SocketOver(c) PROVE ClientsTypedNext
  <2>1. Append(disconnects, c) \in Seq(Client)
    BY <1>4, AppendProperties
  <2> QED BY ItemFacts, <1>4, <1>15, <2>1 DEF SocketOver, Recorded, Absent
<1>16. ASSUME NEW c \in Client, Closes(c) PROVE ClientsTypedNext
  BY <1>4, <1>16 DEF Closes, ClientCloses
<1>17. ClientsTypedNext
  <2> HIDE DEF ClientsTypedNext
  <2> QED BY <1>8, <1>9, <1>10, <1>11, <1>12, <1>13, <1>14, <1>15, <1>16, Zenon DEF InProcess
<1> QED BY <1>1, <1>17, TypedIsShape

(* The steps of the worker thread do, ...                                   *)
LEMMA WorkerThreadShape ==
  ASSUME ClientsShape, ThreadTypeOK, WorkerThread
  PROVE  ClientsShape'
<1>1. scenario' = scenario /\ mode' = mode
  BY NeverChanges DEF TransportNext
<1>2. ClientsTyped
  BY TypedIsShape
<1>3. Client = 0 .. Cardinality(Client) - 1 /\ Cardinality(Client) \in Nat
  BY ClientsAssumption, FS_CardinalityType
<1> DEFINE F == SUBSET {"scheduled", "flushing", "dead"}
<1>4. /\ \A f \in F : ScheduledFlush(f) \in F /\ f \ {"scheduled"} \in F /\ f \ {"flushing"} \in F
      /\ {} \in F /\ {"flushing"} \in F
  BY DEF ScheduledFlush
<1>5. flush \in [Client -> F]
  BY <1>2 DEF ClientsTyped
<1>6. flush' \in [Client -> F] => flush' \in [Client -> SUBSET {"scheduled", "flushing", "dead"}]
  OBVIOUS
<1> HIDE DEF F
<1> USE DEF ClientsTyped, ClientsTypedNext
<1>7. ASSUME Connection PROVE ClientsTypedNext
  <2>1. nextClientId' \in 0 .. Cardinality(Client)
    BY <1>2, <1>3, <1>7 DEF Connection
  <2>2. /\ socket' \in [Client -> {"none", "open", "closing", "closed", "refused"}]
        /\ gauge' \in [Client -> Int]
    <3>1. CASE shutdownStarted
      BY <1>2, <1>7, <3>1 DEF Connection
    <3>2. CASE ~ shutdownStarted
      BY <1>2, <1>7, <3>2 DEF Connection, Recorded
    <3> QED BY <3>1, <3>2
  <2> QED BY <1>2, <1>7, <2>1, <2>2 DEF Connection
<1>8. ASSUME NEW entries \in Batch, ServerBatch(entries)
      PROVE  /\ queue' \in [Client -> Responses] /\ gauge' \in [Client -> Int] /\ flush' \in [Client -> F]
             /\ socket' = socket
  <2>1. \A c \in Client : entries[c] \in Responses
    BY DEF Batch, Responses
  <2>2. \A c \in Client : Enqueued(c, entries) \in Responses
    BY <1>2, <2>1, ItemFacts DEF Enqueued
  <2>3. \A c \in Client : Len(Enqueued(c, entries)) \in Int
    BY <2>2, ItemFacts
  <2>4. queue' \in [Client -> Responses]
    BY <1>8, <2>2 DEF ServerBatch
  <2>5. gauge' \in [Client -> Int]
    BY <1>2, <1>8, <2>3 DEF ServerBatch
  <2>6. flush' \in [Client -> F]
    BY <1>4, <1>5, <1>8 DEF ServerBatch
  <2> QED BY <1>8, <2>4, <2>5, <2>6 DEF ServerBatch
<1>9. ASSUME HandleParentMessage PROVE ClientsTypedNext
  <2> DEFINE m == Head(toWorker)
  <2>1. m \in ServerMessage
    BY <1>9, HeadTailProperties DEF HandleParentMessage, ThreadTypeOK
  <2>2. CASE m.type = "serverBatch" /\ ServerBatch(m.entries)
    <3>1. m.entries \in Batch
      BY <2>1, <2>2, ServerMessageFacts
    <3> HIDE DEF m
    <3>2. /\ queue' \in [Client -> Responses] /\ gauge' \in [Client -> Int] /\ flush' \in [Client -> F]
          /\ socket' = socket
      BY <1>8, <2>2, <3>1
    <3> QED BY <1>2, <1>6, <1>9, <3>2 DEF HandleParentMessage
  <2>3. CASE m.type = "metrics" /\ MetricsAsked(m.id)
    BY <1>2, <1>9, <2>3 DEF HandleParentMessage, MetricsAsked
  <2>4. CASE m.type = "shutdown" /\ ShutdownTransport(m.id)
    BY <1>2, <1>9, <2>4 DEF HandleParentMessage, ShutdownTransport
  <2> HIDE DEF ClientsTypedNext
  <2> QED BY <1>9, <2>2, <2>3, <2>4 DEF HandleParentMessage
<1>10. ASSUME ServerClosed PROVE ClientsTypedNext
  BY <1>2, <1>10 DEF ServerClosed, clientVars
<1>11. ASSUME ThreadEnds, UNCHANGED <<nextClientId, peer, calls, sent, received, clientIds, disconnects>>
       PROVE  ClientsTypedNext
  <2>1. queue' \in [Client -> Responses] /\ writing' \in [Client -> Items]
    BY <1>11, ItemFacts DEF ThreadEnds
  <2>2. flush' \in [Client -> F]
    BY <1>4, <1>11 DEF ThreadEnds
  <2>3. gauge' \in [Client -> Int]
    BY <1>11 DEF ThreadEnds, Absent
  <2>4. socket' \in [Client -> {"none", "open", "closing", "closed", "refused"}]
    BY <1>2, <1>11 DEF ThreadEnds
  <2> QED BY <1>2, <1>6, <1>11, <2>1, <2>2, <2>3, <2>4
<1>12. ASSUME ThreadDies PROVE ClientsTypedNext
  <2>1. ThreadEnds /\ UNCHANGED <<nextClientId, peer, calls, sent, received, clientIds, disconnects>>
    BY <1>12 DEF ThreadDies
  <2> HIDE DEF ClientsTypedNext
  <2> QED BY <1>11, <2>1
<1>13. ASSUME NEW c \in Client, HandleClientData(c) PROVE ClientsTypedNext
  <2>1. PICK frame : /\ FrameArrives(c, frame)
                     /\ received' = received \/ received' = [received EXCEPT ![c] = Append(@, Defect)]
    BY <1>13 DEF HandleClientData
  <2>2. peer' \in [Client -> [AllCalls -> PeerRecord]]
    BY <2>1, FrameTaken
  <2>3. received' \in [Client -> Items]
    <3>1. Append(received[c], Defect) \in Items
      BY <1>2, ItemFacts
    <3> QED BY <1>2, <2>1, <3>1
  <2> QED BY <1>2, <1>13, <2>2, <2>3 DEF HandleClientData
<1>14. ASSUME NEW c \in Client, FlushClient(c) PROVE ClientsTypedNext
  <2>1. flush[c] \ {"scheduled"} \in F /\ {"flushing"} \in F
    BY <1>4, <1>5
  <2>2. EncodeServerBatch(queue[c]) \in Items
    BY <1>2, ItemFacts
  <2>3. flush' \in [Client -> F]
    BY <1>5, <1>14, <2>1 DEF FlushClient
  <2>4. /\ queue' \in [Client -> Responses] /\ writing' \in [Client -> Items] /\ gauge' \in [Client -> Int]
    <3>1. CASE UNCHANGED <<queue, writing, gauge>>
      BY <1>2, <3>1
    <3>2. CASE /\ writing' = [writing EXCEPT ![c] = EncodeServerBatch(queue[c])]
               /\ queue' = [queue EXCEPT ![c] = <<>>]
               /\ gauge' = Recorded(c, 0)
      BY <1>2, <2>2, <3>2, ItemFacts DEF Recorded
    <3> QED BY <1>14, <3>1, <3>2 DEF FlushClient
  <2> QED BY <1>2, <1>6, <1>14, <2>3, <2>4 DEF FlushClient
<1>15. ASSUME NEW c \in Client, WriteDone(c) PROVE ClientsTypedNext
  <2>1. /\ flush[c] \ {"flushing"} \in F /\ ScheduledFlush(flush[c] \ {"flushing"}) \in F
    BY <1>4, <1>5
  <2>2. received[c] \o writing[c] \in Items
    BY <1>2, ItemFacts
  <2>3. /\ flush' \in [Client -> F] /\ received' \in [Client -> Items]
        /\ socket' \in [Client -> {"none", "open", "closing", "closed", "refused"}]
    <3>1. CASE /\ received' = [received EXCEPT ![c] = received[c] \o writing[c]]
               /\ flush' = [flush EXCEPT ![c] = ScheduledFlush(flush[c] \ {"flushing"})]
               /\ UNCHANGED socket
      BY <1>2, <1>5, <2>1, <2>2, <3>1
    <3>2. CASE /\ flush' = [flush EXCEPT ![c] = flush[c] \ {"flushing"}]
               /\ socket' = [socket EXCEPT ![c] = IF @ = "open" THEN "closing" ELSE @]
               /\ UNCHANGED received
      BY <1>2, <1>5, <2>1, <3>2
    <3> QED BY <1>15, <3>1, <3>2 DEF WriteDone
  <2>4. writing' \in [Client -> Items] /\ gauge' \in [Client -> Int]
    BY <1>2, <1>15, ItemFacts DEF WriteDone, Recorded
  <2> QED BY <1>2, <1>6, <1>15, <2>3, <2>4 DEF WriteDone
<1>16. ASSUME NEW c \in Client, DisconnectClient(c) PROVE ClientsTypedNext
  BY <1>2, <1>16 DEF DisconnectClient, Recorded, Absent
<1>17. ASSUME NEW c \in Client, CloseSocket(c) PROVE ClientsTypedNext
  BY <1>2, <1>17 DEF CloseSocket, ClientCloses
<1>18. ClientsTypedNext
  <2> HIDE DEF ClientsTypedNext
  <2> QED BY <1>7, <1>9, <1>10, <1>12, <1>13, <1>14, <1>15, <1>16, <1>17, Zenon DEF WorkerThread
<1> QED BY <1>1, <1>18, TypedIsShape

(* ... and so do those of the bridge.                                       *)
LEMMA BridgeShape ==
  ASSUME ClientsShape, ThreadTypeOK, Bridge
  PROVE  ClientsShape'
<1>1. scenario' = scenario /\ mode' = mode
  BY NeverChanges DEF TransportNext
<1>2. ClientsTyped
  BY TypedIsShape
<1>3. \A c \in Client : Calls(c) \subseteq AllCalls
  BY <1>2, DemandFacts DEF ClientsTyped
<1> USE DEF ClientsTyped, ClientsTypedNext
<1>4. ASSUME UNCHANGED clientVars PROVE ClientsTypedNext
  BY <1>2, <1>4 DEF clientVars
<1>5. ASSUME TakeDisconnect PROVE ClientsTypedNext
  <2>1. Head(disconnects) \in Client /\ disconnects' \in Seq(Client)
    BY <1>2, <1>5, HeadTailProperties DEF TakeDisconnect
  <2> DEFINE d == Head(disconnects)
             over == [r \in AllCalls |-> IF calls[d][r] = "none" THEN "none" ELSE "over"]
  <2>2. calls' = [calls EXCEPT ![d] = over]
    BY <1>5 DEF TakeDisconnect
  <2>3. over \in [AllCalls -> CallStates]
    BY DEF CallStates
  <2> HIDE DEF over, d
  <2>4. calls' \in [Client -> [AllCalls -> CallStates]]
    BY <1>2, <2>1, <2>2, <2>3 DEF d
  <2> QED BY <1>2, <1>5, <2>1, <2>4 DEF TakeDisconnect
<1>6. ASSUME ParentReceives PROVE ClientsTypedNext
  <2> DEFINE m == Head(toParent)
  <2>1. m \in WorkerMessage
    BY <1>6, HeadTailProperties DEF ParentReceives, ThreadTypeOK
  <2>connected. CASE m.type = "clientConnected" /\ ClientConnected(m.client)
    <3>1. m.client \in Client
      BY <2>1, <2>connected, WorkerMessageFacts
    <3> QED BY <1>2, <1>6, <2>connected, <3>1 DEF ParentReceives, ClientConnected
  <2>disconnected. CASE m.type = "clientDisconnected" /\ ClientDisconnected(m.client)
    <3>1. m.client \in Client
      BY <2>1, <2>disconnected, WorkerMessageFacts
    <3>2. disconnects' \in Seq(Client)
      BY <1>2, <2>disconnected, <3>1, AppendProperties DEF ClientDisconnected
    <3> QED BY <1>2, <1>6, <2>disconnected, <3>1, <3>2 DEF ParentReceives, ClientDisconnected
  <2>message. CASE m.type = "clientMessage" /\ ClientMessage(m.client, m.message)
    <3> DEFINE c == m.client
               kind == m.message.kind
               r == m.message.call
    <3>1. c \in Client /\ m.message \in Message
      BY <2>1, <2>message, WorkerMessageFacts
    <3>2. kind \in {"Request", "Ack", "Interrupt"} /\ r \in AllCalls /\ m.message = Sends(kind, r)
      BY <3>1, MessageFacts
    <3>3. WriteRequests(c, <<m.message>>) \/ calls' = calls
      BY <2>message DEF ClientMessage
    <3>4. calls' \in [Client -> [AllCalls -> CallStates]]
      <4>1. CASE WriteRequests(c, <<m.message>>)
        <5>1. WriteRequests(c, <<Sends(kind, r)>>)
          BY <3>2, <4>1
        <5>2. calls \in [Client -> [AllCalls -> CallStates]]
          BY <1>2
        <5> HIDE DEF c, kind, r
        <5> QED BY <3>1, <3>2, <5>1, <5>2, MessageTaken
      <4>2. CASE calls' = calls
        BY <1>2, <4>2
      <4> QED BY <3>3, <4>1, <4>2
    <3> QED BY <1>2, <1>6, <2>message, <3>4 DEF ParentReceives, ClientMessage
  <2>metrics. CASE m.type = "metrics" /\ MetricsAnswered(m.id)
    BY <1>2, <1>6, <2>metrics DEF ParentReceives, MetricsAnswered
  <2>acked. CASE m.type = "shutdownAck" /\ ShutdownAcked(m.id)
    BY <1>2, <1>6, <2>acked DEF ParentReceives, ShutdownAcked
  <2> HIDE DEF ClientsTypedNext
  <2> QED BY <1>6, <2>connected, <2>disconnected, <2>message, <2>metrics, <2>acked DEF ParentReceives
<1>7. ASSUME RequestShutdown PROVE ClientsTypedNext
  <2>1. calls' \in [Client -> [AllCalls -> CallStates]]
    BY <1>7 DEF RequestShutdown, CallStates
  <2> QED BY <1>2, <1>7, <2>1 DEF RequestShutdown
<1>8. ASSUME Terminate PROVE ClientsTypedNext
  <2>1. queue' \in [Client -> Responses] /\ writing' \in [Client -> Items]
    BY <1>8, ItemFacts DEF Terminate, ThreadEnds
  <2>2. flush' \in [Client -> SUBSET {"scheduled", "flushing", "dead"}]
    BY <1>8 DEF Terminate, ThreadEnds
  <2>3. gauge' \in [Client -> Int]
    BY <1>8 DEF Terminate, ThreadEnds, Absent
  <2>4. socket' \in [Client -> {"none", "open", "closing", "closed", "refused"}]
    BY <1>2, <1>8 DEF Terminate, ThreadEnds
  <2> QED BY <1>2, <1>8, <2>1, <2>2, <2>3, <2>4 DEF Terminate
<1>9. ASSUME NEW c \in Client, NEW r \in Calls(c), SendIsolated(c, r) PROVE ClientsTypedNext
  <2>1. r \in AllCalls
    BY <1>3, <1>9
  <2>2. PICK x \in Response : /\ Responds(c, r, x)
                              /\ sent' = [sent EXCEPT ![c] = Append(@, x)]
    BY <1>9 DEF SendIsolated
  <2>3. calls' \in [Client -> [AllCalls -> CallStates]]
    BY <2>1, <2>2, RespondsFacts
  <2>4. Append(sent[c], x) \in Responses
    BY <1>2, ItemFacts
  <2>5. sent' \in [Client -> Responses]
    BY <1>2, <2>2, <2>4
  <2> QED BY <1>2, <1>9, <2>3, <2>5 DEF SendIsolated
<1>10. ASSUME \/ Run \/ ThreadExits \/ FlushServerMessages \/ RequestMetrics \/ ShutdownTimeout
              \/ \E id \in pendingMetrics : MetricsTimeout(id)
       PROVE  ClientsTypedNext
  <2>1. UNCHANGED clientVars
    BY <1>10 DEF Run, ThreadExits, FlushServerMessages, RequestMetrics, ShutdownTimeout, MetricsTimeout
  <2> HIDE DEF ClientsTypedNext
  <2> QED BY <1>4, <2>1
<1>11. ClientsTypedNext
  <2> HIDE DEF ClientsTypedNext
  <2> QED BY <1>5, <1>6, <1>7, <1>8, <1>9, <1>10, Zenon DEF Bridge
<1> QED BY <1>1, <1>11, TypedIsShape

(* As requests are made, the messages that were possible stay possible.     *)
LEMMA PortsGrow ==
  ASSUME scenario' = scenario, requestId \in Nat, requestId' \in Nat, requestId <= requestId'
  PROVE  /\ Batch' = Batch
         /\ WorkerMessage \subseteq WorkerMessage' /\ ServerMessage \subseteq ServerMessage'
         /\ Seq(WorkerMessage) \subseteq Seq(WorkerMessage')
         /\ Seq(ServerMessage) \subseteq Seq(ServerMessage')
         /\ 1 .. requestId \subseteq 1 .. requestId'
<1>1. Batch' = Batch
  BY SameItems DEF Batch
<1>2. Message' = Message
  BY DEF Message
<1>3. 1 .. requestId \subseteq 1 .. requestId'
  OBVIOUS
<1>4. WorkerMessage \subseteq WorkerMessage'
  <2> DEFINE A == [type : {"clientConnected", "clientDisconnected"}, client : Client]
             B == [type : {"clientMessage"}, client : Client, message : Message]
             C(ids) == [type : {"metrics"}, id : ids, activeClients : Nat]
             D(ids) == [type : {"shutdownAck"}, id : ids]
  <2>1. C(1 .. requestId) \subseteq C(1 .. requestId') /\ D(1 .. requestId) \subseteq D(1 .. requestId')
    BY <1>3
  <2>2. WorkerMessage = A \cup B \cup C(1 .. requestId) \cup D(1 .. requestId)
    BY DEF WorkerMessage
  <2>3. WorkerMessage' = A \cup B \cup C(1 .. requestId') \cup D(1 .. requestId')
    BY <1>2 DEF WorkerMessage
  <2> HIDE DEF A, B, C, D
  <2> QED BY <2>1, <2>2, <2>3
<1>5. ServerMessage \subseteq ServerMessage'
  <2> DEFINE A == [type : {"serverBatch"}, entries : Batch]
             B(ids) == [type : {"metrics", "shutdown"}, id : ids]
  <2>1. B(1 .. requestId) \subseteq B(1 .. requestId')
    BY <1>3
  <2>2. ServerMessage = A \cup B(1 .. requestId)
    BY DEF ServerMessage
  <2>3. ServerMessage' = A \cup B(1 .. requestId')
    BY <1>1 DEF ServerMessage
  <2> HIDE DEF A, B
  <2> QED BY <2>1, <2>2, <2>3
<1> QED BY <1>1, <1>3, <1>4, <1>5, SeqMonotonic

(* What an end of a port may post.                                          *)
LEMMA PostFacts ==
  /\ \A c \in Client : /\ [type |-> "clientConnected", client |-> c] \in WorkerMessage
                       /\ [type |-> "clientDisconnected", client |-> c] \in WorkerMessage
                       /\ \A m \in Message : [type |-> "clientMessage", client |-> c, message |-> m] \in WorkerMessage
  /\ \A id \in 1 .. requestId : [type |-> "shutdownAck", id |-> id] \in WorkerMessage
  /\ \A id \in 1 .. requestId : \A n \in Nat :
       [type |-> "metrics", id |-> id, activeClients |-> n] \in WorkerMessage
  /\ \A entries \in Batch : [type |-> "serverBatch", entries |-> entries] \in ServerMessage
  /\ \A id \in 1 .. requestId : /\ [type |-> "metrics", id |-> id] \in ServerMessage
                                /\ [type |-> "shutdown", id |-> id] \in ServerMessage
BY DEF WorkerMessage, ServerMessage

(* What is posted to the parent comes last.                                 *)
LEMMA PostedToParent ==
  ASSUME NEW M, toParent \in Seq(M), NEW m \in M, PostToParent(<<m>>)
  PROVE  toParent' \in Seq(M) /\ toParent' = Append(toParent, m)
<1>1. Append(toParent, m) = toParent \o <<m>>
  BY AppendIsConcat
<1>2. toParent' = Append(toParent, m)
  BY <1>1 DEF PostToParent
<1> QED BY <1>2, AppendProperties

(* What is posted to the worker comes last, or is lost.                     *)
LEMMA PostedToWorker ==
  ASSUME NEW M, toWorker \in Seq(M), NEW m \in M, PostToWorker(m)
  PROVE  /\ toWorker' \in Seq(M)
         /\ toWorker' = Append(toWorker, m) \/ (toWorker' = toWorker /\ thread # "up")
<1>1. Append(toWorker, m) \in Seq(M)
  BY AppendProperties
<1> QED BY <1>1 DEF PostToWorker

(* A frame handled by the worker: a defect is told, or its message posted.  *)
FrameHandled(c, kind, r) ==
  /\ socket[c] = "open"
  /\ \A d \in Client, q \in AllCalls : d # c \/ q # r => peer'[d][q] = peer[d][q]
  /\ kind = "Request" => /\ ~peer[c][r].asked /\ peer'[c][r].asked
                         /\ peer'[c][r].acked = peer[c][r].acked
  /\ kind = "Ack" => /\ peer[c][r].acked < Count(received[c], "Chunk", r)
                     /\ peer'[c][r].asked = peer[c][r].asked /\ peer'[c][r].acked = peer[c][r].acked + 1
  /\ kind = "Interrupt" => peer'[c][r].asked = peer[c][r].asked /\ peer'[c][r].acked = peer[c][r].acked

(* The worker thread posts what it decoded of a frame, or answers with a    *)
(* defect.                                                                  *)
LEMMA DataHandled ==
  ASSUME ClientsShape, NEW c \in Client, HandleClientData(c)
  PROVE  \E r \in AllCalls : \E kind \in {"Request", "Ack", "Interrupt"} :
           /\ FrameHandled(c, kind, r)
           /\ \/ /\ PostToParent(<<[type |-> "clientMessage", client |-> c, message |-> Sends(kind, r)]>>)
                 /\ received' = received
              \/ /\ kind = "Request" /\ toParent' = toParent
                 /\ received' = [received EXCEPT ![c] = Append(received[c], Defect)]
<1>1. PICK frame : /\ FrameArrives(c, frame)
                   /\ IF DecodeClientMessages(frame).tag = "Defect"
                      THEN received' = [received EXCEPT ![c] = Append(@, Defect)] /\ UNCHANGED toParent
                      ELSE /\ PostToParent([i \in DOMAIN frame |->
                                [type |-> "clientMessage", client |-> c, message |-> frame[i]]])
                           /\ UNCHANGED received
  BY DEF HandleClientData
<1>2. PICK r \in AllCalls, kind \in {"Request", "Ack", "Interrupt"} : FrameOf(c, frame, kind, r)
  BY <1>1, FrameTaken
<1>3. socket[c] = "open"
  BY <1>1, FrameTaken
<1>4. FrameHandled(c, kind, r)
  BY <1>2, <1>3 DEF FrameHandled, FrameOf
<1>5. CASE frame = <<Sends(kind, r)>> /\ DecodeClientMessages(frame) = [tag |-> "Messages", messages |-> frame]
  <2> DEFINE P(x) == [type |-> "clientMessage", client |-> c, message |-> x]
             f == [i \in DOMAIN frame |-> P(frame[i])]
             m == Sends(kind, r)
  <2>1. frame = <<m>> /\ PostToParent(f) /\ received' = received
    BY <1>1, <1>5
  <2> HIDE DEF P, m
  <2>2. DOMAIN frame = 1 .. 1 /\ frame[1] = m
    BY <2>1
  <2>3. f = [i \in 1 .. 1 |-> P(m)]
    BY <2>2
  <2>4. [i \in 1 .. 1 |-> P(m)] = <<P(m)>>
    OBVIOUS
  <2> QED BY <1>4, <2>1, <2>3, <2>4 DEF P, m
<1>6. CASE kind = "Request" /\ DecodeClientMessages(frame) = [tag |-> "Defect"]
  BY <1>1, <1>4, <1>6
<1> QED BY <1>2, <1>5, <1>6 DEF FrameOf

(* The types of the thread after a step.                                    *)
ToParentNext == Seq(WorkerMessage')
ToWorkerNext == Seq(ServerMessage')
ThreadTypedNext ==
  /\ requestId' \in Nat
  /\ toParent' \in ToParentNext /\ toWorker' \in ToWorkerNext
  /\ thread' \in {"up", "exiting", "gone"}
  /\ {serving', shuttingDown', shutdownStarted'} \subseteq BOOLEAN
  /\ pendingMetrics' \cup pendingShutdown' \cup ackDue' \subseteq 1 .. requestId'
  /\ pendingSends' \in [entries : Batch, scheduled : BOOLEAN]
  /\ pendingSends'.scheduled = (pendingSends'.entries # NoEntries)

(* What was well typed stays so when no step of the thread's is taken.      *)
ThreadStays ==
  /\ requestId \in Nat
  /\ toParent \in ToParentNext /\ toWorker \in ToWorkerNext
  /\ thread \in {"up", "exiting", "gone"}
  /\ {serving, shuttingDown, shutdownStarted} \subseteq BOOLEAN
  /\ pendingMetrics \cup pendingShutdown \cup ackDue \subseteq 1 .. requestId
  /\ pendingSends \in [entries : Batch, scheduled : BOOLEAN]
  /\ pendingSends.scheduled = (pendingSends.entries # NoEntries)

(* The ports may hold what they held, and the conditions at the end of a    *)
(* step are the types again.                                                *)
LEMMA ThreadTypes ==
  /\ ThreadTypeOK /\ scenario' = scenario /\ requestId' \in Nat /\ requestId <= requestId' =>
       /\ ThreadStays
       /\ \A m \in WorkerMessage : m \in WorkerMessage'
       /\ \A m \in ServerMessage : m \in ServerMessage'
       /\ \A s \in ToParentNext : s # <<>> => Tail(s) \in ToParentNext
       /\ \A s \in ToWorkerNext : s # <<>> => Tail(s) \in ToWorkerNext
       /\ <<>> \in ToWorkerNext
  /\ scenario' = scenario /\ ThreadTypedNext => ThreadTypeOK'
<1>1. ASSUME ThreadTypeOK, scenario' = scenario, requestId' \in Nat, requestId <= requestId'
      PROVE  /\ ThreadStays
             /\ \A m \in WorkerMessage : m \in WorkerMessage'
             /\ \A m \in ServerMessage : m \in ServerMessage'
             /\ \A s \in ToParentNext : s # <<>> => Tail(s) \in ToParentNext
             /\ \A s \in ToWorkerNext : s # <<>> => Tail(s) \in ToWorkerNext
             /\ <<>> \in ToWorkerNext
  <2>grow. /\ Seq(WorkerMessage) \subseteq ToParentNext /\ Seq(ServerMessage) \subseteq ToWorkerNext
           /\ WorkerMessage \subseteq WorkerMessage' /\ ServerMessage \subseteq ServerMessage'
    BY <1>1, PortsGrow DEF ThreadTypeOK, ToParentNext, ToWorkerNext
  <2>parentTail. \A s \in ToParentNext : s # <<>> => Tail(s) \in ToParentNext
    BY HeadTailProperties DEF ToParentNext
  <2>workerTail. \A s \in ToWorkerNext : s # <<>> => Tail(s) \in ToWorkerNext
    BY HeadTailProperties DEF ToWorkerNext
  <2>empty. <<>> \in ToWorkerNext
    BY DEF ToWorkerNext
  <2> DEFINE S == Seq(WorkerMessage)
             T == Seq(ServerMessage)
  <2>held. toParent \in S /\ toWorker \in T
    BY <1>1 DEF ThreadTypeOK
  <2> HIDE DEF S, T
  <2>ports. toParent \in ToParentNext /\ toWorker \in ToWorkerNext
    BY <2>grow, <2>held DEF S, T
  <2>stays. ThreadStays
    BY <1>1, <2>ports DEF ThreadTypeOK, ThreadStays
  <2> QED BY <2>grow, <2>parentTail, <2>workerTail, <2>empty, <2>stays
<1>2. ASSUME scenario' = scenario, ThreadTypedNext PROVE ThreadTypeOK'
  <2>1. Batch' = Batch
    BY <1>2, SameItems DEF Batch
  <2> DEFINE S == Seq(WorkerMessage')
             T == Seq(ServerMessage')
  <2>2. toParent' \in S /\ toWorker' \in T
    BY <1>2 DEF ThreadTypedNext, ToParentNext, ToWorkerNext
  <2>3. NoEntries' = NoEntries
    BY DEF NoEntries
  <2> QED BY <1>2, <2>1, <2>2, <2>3 DEF ThreadTypeOK, ThreadTypedNext
<1> QED BY <1>1, <1>2

(* A step of the in-process transport leaves the thread alone.              *)
LEMMA ThreadKept ==
  ASSUME ThreadTypeOK, scenario' = scenario, UNCHANGED threadVars
  PROVE  ThreadTypeOK'
<1>1. requestId' \in Nat /\ requestId <= requestId'
  BY DEF threadVars, ThreadTypeOK
<1>2. ThreadStays
  BY <1>1, ThreadTypes
<1>3. ThreadTypedNext
  BY <1>2 DEF ThreadStays, ThreadTypedNext, threadVars
<1> QED BY <1>3, ThreadTypes

(* How many connections there are is a number.                              *)
LEMMA ConnectionsCounted ==
  Cardinality({c \in Client : gauge[c] # Absent}) \in Nat
<1>1. {c \in Client : gauge[c] # Absent} \subseteq Client /\ IsFiniteSet(Client)
  BY ClientsAssumption
<1> QED BY <1>1, FS_Subset, FS_CardinalityType

(* The steps of the worker thread keep its types, ...                       *)
LEMMA WorkerThreadTyped ==
  ASSUME ClientsShape, ThreadTypeOK, WorkerThread
  PROVE  ThreadTypeOK'
<1>1. scenario' = scenario
  BY NeverChanges DEF TransportNext
<1>2. requestId' = requestId /\ requestId \in Nat
  BY DEF WorkerThread, Connection, HandleParentMessage, ServerClosed, ThreadDies, HandleClientData,
         FlushClient, WriteDone, DisconnectClient, CloseSocket, threadVars, ThreadTypeOK
<1>3. requestId' \in Nat /\ requestId <= requestId'
  BY <1>2
<1>4. ThreadStays
  BY <1>1, <1>3, ThreadTypes
<1>5. /\ \A m \in WorkerMessage : m \in WorkerMessage'
      /\ \A s \in ToParentNext : s # <<>> => Tail(s) \in ToParentNext
      /\ \A s \in ToWorkerNext : s # <<>> => Tail(s) \in ToWorkerNext
      /\ <<>> \in ToWorkerNext
  BY <1>1, <1>3, ThreadTypes
<1>6. ASSUME NEW m \in WorkerMessage, PostToParent(<<m>>) PROVE toParent' \in ToParentNext
  <2> DEFINE M == WorkerMessage'
  <2>1. m \in M /\ toParent \in Seq(M)
    BY <1>4, <1>5, <1>6 DEF ThreadStays, ToParentNext
  <2> HIDE DEF M
  <2>2. toParent' \in Seq(M)
    BY <1>6, <2>1, PostedToParent
  <2> QED BY <2>2 DEF M, ToParentNext
<1> USE DEF ThreadStays, ThreadTypedNext
<1>7. ASSUME UNCHANGED threadVars PROVE ThreadTypedNext
  BY <1>4, <1>7 DEF threadVars
<1>8. ASSUME Connection PROVE ThreadTypedNext
  <2>1. nextClientId \in Client
    BY <1>8 DEF Connection
  <2>2. toParent' = toParent \/ PostToParent(<<[type |-> "clientConnected", client |-> nextClientId]>>)
    BY <1>8 DEF Connection
  <2>3. toParent' \in ToParentNext
    BY <1>4, <1>6, <2>1, <2>2, PostFacts
  <2> QED BY <1>4, <1>8, <2>3 DEF Connection
<1>9. ASSUME HandleParentMessage PROVE ThreadTypedNext
  <2> DEFINE m == Head(toWorker)
  <2>1. m \in ServerMessage
    BY <1>9, HeadTailProperties DEF HandleParentMessage, ThreadTypeOK
  <2>2. toWorker' \in ToWorkerNext
    BY <1>4, <1>5, <1>9 DEF HandleParentMessage
  <2>3. CASE m.type = "serverBatch" /\ ServerBatch(m.entries)
    BY <1>4, <1>9, <2>2, <2>3 DEF HandleParentMessage, ServerBatch
  <2>4. CASE m.type = "metrics" /\ MetricsAsked(m.id)
    <3> DEFINE n == Cardinality({c \in Client : gauge[c] # Absent})
    <3>1. m.id \in 1 .. requestId
      BY <2>1, <2>4, ServerMessageFacts
    <3>2. n \in Nat
      BY ConnectionsCounted
    <3>3. PostToParent(<<[type |-> "metrics", id |-> m.id, activeClients |-> n]>>)
      BY <2>4 DEF MetricsAsked
    <3> HIDE DEF n, m
    <3>4. [type |-> "metrics", id |-> m.id, activeClients |-> n] \in WorkerMessage
      BY <3>1, <3>2, PostFacts
    <3>5. toParent' \in ToParentNext
      BY <1>6, <3>3, <3>4
    <3> QED BY <1>4, <1>9, <2>2, <2>4, <3>5 DEF HandleParentMessage, MetricsAsked
  <2>5. CASE m.type = "shutdown" /\ ShutdownTransport(m.id)
    <3>1. m.id \in 1 .. requestId
      BY <2>1, <2>5, ServerMessageFacts
    <3> QED BY <1>2, <1>4, <1>9, <2>2, <2>5, <3>1 DEF HandleParentMessage, ShutdownTransport
  <2> HIDE DEF ThreadTypedNext
  <2> QED BY <1>9, <2>3, <2>4, <2>5 DEF HandleParentMessage
<1>10. ASSUME ServerClosed PROVE ThreadTypedNext
  <2> DEFINE id == CHOOSE i \in ackDue : TRUE
  <2>1. id \in ackDue
    BY <1>10 DEF ServerClosed
  <2>2. PostToParent(<<[type |-> "shutdownAck", id |-> id]>>)
    BY <1>10 DEF ServerClosed
  <2> HIDE DEF id
  <2>3. id \in 1 .. requestId
    BY <1>4, <2>1
  <2>4. toParent' \in ToParentNext
    BY <1>6, <2>2, <2>3, PostFacts
  <2> QED BY <1>4, <1>10, <2>4 DEF ServerClosed
<1>11. ASSUME ThreadDies PROVE ThreadTypedNext
  BY <1>4, <1>5, <1>11 DEF ThreadDies, ThreadEnds
<1>12. ASSUME NEW c \in Client, HandleClientData(c) PROVE ThreadTypedNext
  <2>1. PICK r \in AllCalls, kind \in {"Request", "Ack", "Interrupt"} :
          \/ PostToParent(<<[type |-> "clientMessage", client |-> c, message |-> Sends(kind, r)]>>)
          \/ toParent' = toParent
    BY <1>12, DataHandled
  <2>2. Sends(kind, r) \in Message
    BY DEF Sends, Message
  <2>3. toParent' \in ToParentNext
    BY <1>4, <1>6, <2>1, <2>2, PostFacts
  <2> QED BY <1>4, <1>12, <2>3 DEF HandleClientData
<1>13. ASSUME NEW c \in Client, DisconnectClient(c) PROVE ThreadTypedNext
  <2>1. toParent' \in ToParentNext
    BY <1>6, <1>13, PostFacts DEF DisconnectClient
  <2> QED BY <1>4, <1>13, <2>1 DEF DisconnectClient
<1>14. ASSUME NEW c \in Client, FlushClient(c) \/ WriteDone(c) \/ CloseSocket(c) PROVE ThreadTypedNext
  <2>1. UNCHANGED threadVars
    BY <1>14 DEF FlushClient, WriteDone, CloseSocket
  <2> HIDE DEF ThreadTypedNext
  <2> QED BY <1>7, <2>1
<1>15. ThreadTypedNext
  <2> HIDE DEF ThreadTypedNext
  <2> QED BY <1>8, <1>9, <1>10, <1>11, <1>12, <1>13, <1>14, Zenon DEF WorkerThread
<1> QED BY <1>1, <1>15, ThreadTypes

(* ... and so do those of the bridge.                                       *)
LEMMA BridgeTyped ==
  ASSUME ClientsShape, ThreadTypeOK, Bridge
  PROVE  ThreadTypeOK'
<1>1. scenario' = scenario
  BY NeverChanges DEF TransportNext
<1>2. requestId \in Nat /\ requestId' \in {requestId, requestId + 1}
  BY DEF Bridge, Run, ParentReceives, ThreadExits, FlushServerMessages, RequestMetrics, RequestShutdown,
         ShutdownTimeout, Terminate, MetricsTimeout, SendIsolated, threadVars, ThreadTypeOK
<1>3. requestId' \in Nat /\ requestId <= requestId'
  BY <1>2
<1>4. ThreadStays
  BY <1>1, <1>3, ThreadTypes
<1>5. /\ \A m \in ServerMessage : m \in ServerMessage'
      /\ \A s \in ToParentNext : s # <<>> => Tail(s) \in ToParentNext
      /\ <<>> \in ToWorkerNext
  BY <1>1, <1>3, ThreadTypes
<1>6. ASSUME NEW m, m \in ServerMessage', PostToWorker(m) PROVE toWorker' \in ToWorkerNext
  <2> DEFINE M == ServerMessage'
  <2>1. m \in M /\ toWorker \in Seq(M)
    BY <1>4, <1>6 DEF ThreadStays, ToWorkerNext
  <2> HIDE DEF M
  <2>2. toWorker' \in Seq(M)
    BY <1>6, <2>1, PostedToWorker
  <2> QED BY <2>2 DEF M, ToWorkerNext
<1>7. \A id \in 1 .. requestId' : /\ [type |-> "metrics", id |-> id] \in ServerMessage'
                                  /\ [type |-> "shutdown", id |-> id] \in ServerMessage'
  BY DEF ServerMessage
<1>8. NoEntries \in Batch /\ \A c \in Client : \A s \in Batch : s[c] \in Responses
  BY ItemFacts DEF NoEntries, Batch, Responses
<1> USE DEF ThreadStays, ThreadTypedNext
<1>9. ASSUME Run PROVE ThreadTypedNext
  BY <1>4, <1>9 DEF Run
<1>10. ASSUME ParentReceives PROVE ThreadTypedNext
  <2>1. toParent' \in ToParentNext
    BY <1>4, <1>5, <1>10 DEF ParentReceives
  <2>2. pendingMetrics' \subseteq pendingMetrics /\ pendingShutdown' \subseteq pendingShutdown
    BY <1>10 DEF ParentReceives, ClientConnected, ClientDisconnected, ClientMessage, MetricsAnswered, ShutdownAcked
  <2> QED BY <1>4, <1>10, <2>1, <2>2 DEF ParentReceives
<1>11. ASSUME ThreadExits PROVE ThreadTypedNext
  BY <1>4, <1>11 DEF ThreadExits
<1>12. ASSUME FlushServerMessages PROVE ThreadTypedNext
  <2>1. pendingSends.entries \in Batch
    BY <1>4
  <2>2. toWorker' \in ToWorkerNext
    BY <1>5, <1>6, <1>12, <2>1, PostFacts DEF FlushServerMessages
  <2> QED BY <1>4, <1>8, <1>12, <2>2 DEF FlushServerMessages
<1>13. ASSUME RequestMetrics PROVE ThreadTypedNext
  <2>1. requestId' = requestId + 1 /\ requestId' \in 1 .. requestId'
    BY <1>2, <1>13 DEF RequestMetrics
  <2>2. PostToWorker([type |-> "metrics", id |-> requestId'])
    BY <1>13, <2>1 DEF RequestMetrics
  <2>3. toWorker' \in ToWorkerNext
    BY <1>6, <1>7, <2>1, <2>2
  <2> QED BY <1>2, <1>4, <1>13, <2>1, <2>3 DEF RequestMetrics
<1>14. ASSUME RequestShutdown PROVE ThreadTypedNext
  <2>1. requestId' = requestId + 1 /\ requestId' \in 1 .. requestId'
    BY <1>2, <1>14 DEF RequestShutdown
  <2>2. PostToWorker([type |-> "shutdown", id |-> requestId'])
    BY <1>14, <2>1 DEF RequestShutdown
  <2>3. toWorker' \in ToWorkerNext
    BY <1>6, <1>7, <2>1, <2>2
  <2>4. /\ pendingShutdown' = {requestId'} /\ shuttingDown' = TRUE /\ serving' = FALSE
        /\ UNCHANGED <<thread, toParent, pendingSends, pendingMetrics, shutdownStarted, ackDue>>
    BY <1>14, <2>1 DEF RequestShutdown
  <2>5. pendingMetrics' \cup pendingShutdown' \cup ackDue' \subseteq 1 .. requestId'
    <3>1. pendingMetrics \cup ackDue \subseteq 1 .. requestId'
      BY <1>2, <1>4, <2>1
    <3> QED BY <2>1, <2>4, <3>1
  <2>6. /\ thread' \in {"up", "exiting", "gone"} /\ toParent' \in ToParentNext
        /\ pendingSends' \in [entries : Batch, scheduled : BOOLEAN]
        /\ pendingSends'.scheduled = (pendingSends'.entries # NoEntries)
    BY <1>4, <2>4
  <2>7. {serving', shuttingDown', shutdownStarted'} \subseteq BOOLEAN
    BY <1>4, <2>4
  <2> QED BY <1>3, <2>3, <2>5, <2>6, <2>7
<1>15. ASSUME ShutdownTimeout PROVE ThreadTypedNext
  BY <1>4, <1>15 DEF ShutdownTimeout
<1>16. ASSUME Terminate PROVE ThreadTypedNext
  BY <1>4, <1>5, <1>16 DEF Terminate, ThreadEnds
<1>17. ASSUME UNCHANGED threadVars PROVE ThreadTypedNext
  BY <1>4, <1>17 DEF threadVars
<1>18. ASSUME NEW id \in pendingMetrics, MetricsTimeout(id) PROVE ThreadTypedNext
  BY <1>4, <1>18 DEF MetricsTimeout
<1>19. ASSUME NEW c \in Client, NEW r \in Calls(c), SendIsolated(c, r) PROVE ThreadTypedNext
  <2>1. PICK x \in Response : 
          pendingSends' = [entries |-> [pendingSends.entries EXCEPT ![c] = Append(@, x)], scheduled |-> TRUE]
    BY <1>19 DEF SendIsolated
  <2> DEFINE old == pendingSends.entries
             new == [old EXCEPT ![c] = Append(old[c], x)]
  <2>2. old \in Batch /\ old[c] \in Responses
    BY <1>4, <1>8
  <2> HIDE DEF old
  <2>3. Append(old[c], x) \in Responses /\ Append(old[c], x) # <<>>
    <3>1. Append(old[c], x) # <<>>
      BY <2>2, AppendProperties DEF Responses
    <3> QED BY <2>2, <3>1, ItemFacts
  <2>4. new \in Batch /\ new # NoEntries
    <3>1. new \in Batch
      BY <2>2, <2>3 DEF Batch, Responses
    <3>2. new[c] # <<>> /\ NoEntries[c] = <<>>
      BY <2>2, <2>3 DEF Batch, NoEntries
    <3> QED BY <3>1, <3>2
  <2> HIDE DEF new
  <2>5. pendingSends' = [entries |-> new, scheduled |-> TRUE]
    BY <2>1 DEF old, new
  <2> QED BY <1>4, <1>19, <2>4, <2>5 DEF SendIsolated
<1>20. ThreadTypedNext
  <2> HIDE DEF ThreadTypedNext
  <2> QED BY <1>9, <1>10, <1>11, <1>12, <1>13, <1>14, <1>15, <1>16, <1>17, <1>18, <1>19, Zenon DEF Bridge
<1> QED BY <1>1, <1>20, ThreadTypes

-----------------------------------------------------------------------------
(* Responses on their way.                                                  *)

(* Putting sequences of items together.                                     *)
LEMMA ItemsJoin ==
  /\ \A s, t \in Items : s \o t \in Items
  /\ \A s \in Items : s \o <<>> = s /\ <<>> \o s = s
  /\ <<>> \in Items
BY ConcatProperties, ConcatEmptySeq DEF Items
Regroups(s, t, u) == (s \o t) \o u = s \o (t \o u)

(* Joining is associative.                                                  *)
LEMMA ItemsRegroup ==
  \A s, t, u \in Items : Regroups(s, t, u)
BY ConcatAssociative DEF Items, Regroups

(* One more is joined as a sequence of one, ...                             *)
LEMMA ItemAppended ==
  ASSUME NEW s \in Items, NEW x \in Item
  PROVE  Append(s, x) = s \o <<x>> /\ <<x>> \in Items /\ Append(s, x) \in Items
BY AppendIsConcat, AppendProperties DEF Items

(* ... and the first is taken as one.                                       *)
LEMMA ItemTaken ==
  ASSUME NEW s \in Items, s # <<>>
  PROVE  <<Head(s)>> \o Tail(s) = s /\ <<Head(s)>> \in Items /\ Tail(s) \in Items
BY HeadAndTail DEF Items

(* Responses move on: from the queue into a batch, from a batch to the      *)
(* client, from the port into the queue, from the parent's turn into the    *)
(* port; and a new one comes last.                                          *)
LEMMA JoinedType ==
  ASSUME NEW g \in Items, NEW w \in Items, NEW q \in Items, NEW b \in Items, NEW p \in Items
  PROVE  Joined(g, w, q, b, p) \in Items
<1>1. w \o q \in Items
  BY ItemsJoin
<1>2. (w \o q) \o b \in Items
  BY <1>1, ItemsJoin
<1>3. ((w \o q) \o b) \o p \in Items
  BY <1>2, ItemsJoin
<1> QED BY <1>3, ItemsJoin DEF Joined

(* The queue goes to the end of the batch.                                  *)
LEMMA QueueJoined ==
  ASSUME NEW g \in Items, NEW w \in Items, NEW q \in Items, NEW b \in Items, NEW p \in Items
  PROVE  Joined(g, w \o q, <<>>, b, p) = Joined(g, w, q, b, p)
<1>1. w \o q \in Items
  BY ItemsJoin
<1>2. (w \o q) \o <<>> = w \o q
  BY <1>1, ItemsJoin
<1> QED BY <1>2 DEF Joined

(* The queue becomes the batch.                                             *)
LEMMA QueueWritten ==
  ASSUME NEW g \in Items, NEW q \in Items, NEW b \in Items, NEW p \in Items
  PROVE  Joined(g, q, <<>>, b, p) = Joined(g, <<>>, q, b, p)
<1>1. q \o <<>> = q /\ <<>> \o q = q
  BY ItemsJoin
<1> QED BY <1>1 DEF Joined

(* The first of the queue becomes the batch.                                *)
LEMMA QueueTaken ==
  ASSUME NEW g \in Items, NEW q \in Items, NEW b \in Items, NEW p \in Items, q # <<>>
  PROVE  Joined(g, <<Head(q)>>, Tail(q), b, p) = Joined(g, <<>>, q, b, p)
<1>1. <<>> \o q = q
  BY ItemsJoin
<1>2. <<Head(q)>> \o Tail(q) = q
  BY ItemTaken
<1> QED BY <1>1, <1>2 DEF Joined

(* The batch is got.                                                        *)
LEMMA BatchWritten ==
  ASSUME NEW g \in Items, NEW w \in Items, NEW q \in Items, NEW b \in Items, NEW p \in Items
  PROVE  Joined(g \o w, <<>>, q, b, p) = Joined(g, w, q, b, p)
<1> DEFINE wq == w \o q
           qb == q \o b
           rest == qb \o p
<1>1. wq \in Items /\ qb \in Items
  BY ItemsJoin
<1>2. rest \in Items
  BY <1>1, ItemsJoin
<1>3. <<>> \o q = q
  BY ItemsJoin
<1>4. wq \o b = w \o qb
  <2>1. Regroups(w, q, b)
    BY ItemsRegroup
  <2> QED BY <2>1 DEF Regroups
<1> HIDE DEF qb
<1>5. (w \o qb) \o p = w \o rest
  <2>1. Regroups(w, qb, p)
    BY <1>1, ItemsRegroup
  <2> QED BY <2>1 DEF Regroups
<1> HIDE DEF wq, rest
<1>6. (g \o w) \o rest = g \o (w \o rest)
  <2>1. Regroups(g, w, rest)
    BY <1>2, ItemsRegroup
  <2> QED BY <2>1 DEF Regroups
<1>7. Joined(g \o w, <<>>, q, b, p) = (g \o w) \o rest
  BY <1>3 DEF Joined, rest, qb
<1>8. Joined(g, w, q, b, p) = g \o (w \o rest)
  BY <1>4, <1>5 DEF Joined, wq
<1> QED BY <1>6, <1>7, <1>8

(* The first batch of the port goes to the end of the queue.                *)
LEMMA BatchQueued ==
  ASSUME NEW g \in Items, NEW w \in Items, NEW q \in Items, NEW e \in Items, NEW b \in Items, NEW p \in Items
  PROVE  Joined(g, w, q \o e, b, p) = Joined(g, w, q, e \o b, p)
<1> DEFINE wq == w \o q
           qe == q \o e
<1>1. wq \in Items /\ qe \in Items
  BY ItemsJoin
<1>2. w \o qe = wq \o e
  <2>1. Regroups(w, q, e)
    BY ItemsRegroup
  <2> QED BY <2>1 DEF Regroups
<1> HIDE DEF wq, qe
<1>3. (wq \o e) \o b = wq \o (e \o b)
  <2>1. Regroups(wq, e, b)
    BY <1>1, ItemsRegroup
  <2> QED BY <2>1 DEF Regroups
<1>4. (w \o qe) \o b = wq \o (e \o b)
  BY <1>2, <1>3
<1> QED BY <1>4 DEF Joined, wq, qe

(* What the parent's turn collected goes to the end of the port.            *)
LEMMA BatchPosted ==
  ASSUME NEW g \in Items, NEW w \in Items, NEW q \in Items, NEW b \in Items, NEW p \in Items
  PROVE  Joined(g, w, q, b \o p, <<>>) = Joined(g, w, q, b, p)
<1> DEFINE wq == w \o q
           bp == b \o p
<1>1. wq \in Items /\ bp \in Items
  BY ItemsJoin
<1> HIDE DEF wq
<1>2. (wq \o b) \o p = wq \o bp
  <2>1. Regroups(wq, b, p)
    BY <1>1, ItemsRegroup
  <2> QED BY <2>1 DEF Regroups
<1> HIDE DEF bp
<1>3. wq \o bp \in Items
  BY <1>1, ItemsJoin
<1>4. (wq \o bp) \o <<>> = wq \o bp
  BY <1>3, ItemsJoin
<1> QED BY <1>2, <1>4 DEF Joined, wq, bp
PendingLast(g, w, q, b, p, x) == Joined(g, w, q, b, Append(p, x)) = Append(Joined(g, w, q, b, p), x)

(* A new response is the last that the parent's turn collected.             *)
LEMMA ResponsePending ==
  ASSUME NEW g \in Items, NEW w \in Items, NEW q \in Items, NEW b \in Items, NEW p \in Items, NEW x \in Item
  PROVE  PendingLast(g, w, q, b, p, x)
<1> DEFINE v == (w \o q) \o b
           vp == v \o p
           y == <<x>>
           all == Joined(g, w, q, b, p)
<1>1. w \o q \in Items
  BY ItemsJoin
<1>2. v \in Items
  BY <1>1, ItemsJoin
<1>3. y \in Items /\ Append(p, x) = p \o y
  BY ItemAppended
<1>4. all \in Items
  BY JoinedType
<1> HIDE DEF all
<1>5. Append(all, x) = all \o y
  BY <1>4, ItemAppended
<1> HIDE DEF v, y
<1>6. vp \in Items
  BY <1>2, ItemsJoin
<1>7. v \o (p \o y) = vp \o y
  <2>1. Regroups(v, p, y)
    BY <1>2, <1>3, ItemsRegroup
  <2> QED BY <2>1 DEF Regroups
<1> HIDE DEF vp
<1>8. g \o (vp \o y) = (g \o vp) \o y
  <2>1. Regroups(g, vp, y)
    BY <1>3, <1>6, ItemsRegroup
  <2> QED BY <2>1 DEF Regroups
<1>9. all = g \o vp
  BY DEF Joined, v, vp, all
<1>10. Joined(g, w, q, b, Append(p, x)) = g \o (v \o (p \o y))
  BY <1>3 DEF Joined, v
<1>11. Joined(g, w, q, b, Append(p, x)) = Append(all, x)
  BY <1>5, <1>7, <1>8, <1>9, <1>10
<1> QED BY <1>11, Zenon DEF all, PendingLast

(* In process it is the last of the queue.                                  *)
LEMMA ResponseQueued ==
  ASSUME NEW g \in Items, NEW w \in Items, NEW q \in Items, NEW x \in Item
  PROVE  Joined(g, w, Append(q, x), <<>>, <<>>) = Append(Joined(g, w, q, <<>>, <<>>), x)
<1> DEFINE wq == w \o q
           y == <<x>>
           gwq == g \o wq
           qy == q \o y
           wqy == w \o qy
<1>1. y \in Items /\ Append(q, x) = qy
  BY ItemAppended
<1>2. wq \in Items
  BY ItemsJoin
<1> HIDE DEF y
<1>3. qy \in Items
  BY <1>1, ItemsJoin
<1>4. wqy = wq \o y
  <2>1. Regroups(w, q, y)
    BY <1>1, ItemsRegroup
  <2> QED BY <2>1 DEF Regroups
<1> HIDE DEF wq, qy
<1>5. gwq \in Items /\ wqy \in Items
  BY <1>2, <1>3, ItemsJoin
<1>6. gwq \o y = g \o (wq \o y)
  <2>1. Regroups(g, wq, y)
    BY <1>1, <1>2, ItemsRegroup
  <2> QED BY <2>1 DEF Regroups
<1>7. wq \o <<>> = wq
  BY <1>2, ItemsJoin
<1>8. Joined(g, w, q, <<>>, <<>>) = gwq
  BY <1>7 DEF Joined, wq
<1> HIDE DEF gwq, wqy
<1>9. wqy \o <<>> = wqy
  BY <1>5, ItemsJoin
<1>10. Joined(g, w, qy, <<>>, <<>>) = g \o wqy
  BY <1>9 DEF Joined, wqy
<1>11. Append(gwq, x) = gwq \o y
  BY <1>5, ItemAppended DEF y
<1> QED BY <1>1, <1>4, <1>6, <1>8, <1>10, <1>11

(* Where nothing is on its way, nothing is in any place.                    *)
LEMMA NothingJoined ==
  ASSUME NEW g \in Items, NEW w \in Items, NEW q \in Items, NEW b \in Items, NEW p \in Items,
         Joined(g, w, q, b, p) = <<>>
  PROVE  g = <<>> /\ w = <<>> /\ q = <<>> /\ b = <<>> /\ p = <<>>
<1>1. ASSUME NEW s \in Items, NEW t \in Items, s \o t = <<>> PROVE s = <<>> /\ t = <<>>
  <2>1. Len(s \o t) = Len(s) + Len(t) /\ Len(s) \in Nat /\ Len(t) \in Nat
    BY ConcatProperties, LenProperties DEF Items
  <2>2. Len(s) = 0 /\ Len(t) = 0
    BY <1>1, <2>1
  <2> QED BY <2>2, EmptySeq DEF Items
<1>2. w \o q \in Items /\ (w \o q) \o b \in Items /\ ((w \o q) \o b) \o p \in Items
  BY ItemsJoin
<1>3. g = <<>> /\ ((w \o q) \o b) \o p = <<>>
  BY <1>1, <1>2 DEF Joined
<1>4. (w \o q) \o b = <<>> /\ p = <<>>
  BY <1>1, <1>2, <1>3
<1>5. w \o q = <<>> /\ b = <<>>
  BY <1>1, <1>2, <1>4
<1> QED BY <1>1, <1>3, <1>4, <1>5

(* Counts of all of them.                                                   *)
LEMMA JoinedCounts ==
  ASSUME NEW g \in Items, NEW w \in Items, NEW q \in Items, NEW b \in Items, NEW p \in Items,
         NEW kind, NEW r
  PROVE  /\ Count(Joined(g, w, q, b, p), kind, r)
              = Count(g, kind, r) + Count(w, kind, r) + Count(q, kind, r) + Count(b, kind, r) + Count(p, kind, r)
         /\ Count(g, kind, r) \in Nat /\ Count(w, kind, r) \in Nat /\ Count(q, kind, r) \in Nat
         /\ Count(b, kind, r) \in Nat /\ Count(p, kind, r) \in Nat
<1>1. /\ \A s \in Items : Count(s, kind, r) \in Nat
      /\ \A s, t \in Items : Count(s \o t, kind, r) = Count(s, kind, r) + Count(t, kind, r)
  <2>1. \A s \in Seq(Item) : Count(s, kind, r) \in Nat
    BY CountJoined
  <2>2. \A s, t \in Seq(Item) : Count(s \o t, kind, r) = Count(s, kind, r) + Count(t, kind, r)
    BY CountJoined
  <2> QED BY <2>1, <2>2, Zenon DEF Items
<1>2. w \o q \in Items /\ (w \o q) \o b \in Items /\ ((w \o q) \o b) \o p \in Items
  BY ItemsJoin
<1>3. Count(Joined(g, w, q, b, p), kind, r) = Count(g, kind, r) + Count(((w \o q) \o b) \o p, kind, r)
  BY <1>1, <1>2 DEF Joined
<1>4. Count(((w \o q) \o b) \o p, kind, r) = Count((w \o q) \o b, kind, r) + Count(p, kind, r)
  BY <1>1, <1>2
<1>5. Count((w \o q) \o b, kind, r) = Count(w \o q, kind, r) + Count(b, kind, r)
  BY <1>1, <1>2
<1>6. Count(w \o q, kind, r) = Count(w, kind, r) + Count(q, kind, r)
  BY <1>1
<1> QED BY <1>1, <1>3, <1>4, <1>5, <1>6

(* What a client got is counted in the whole.                               *)
LEMMA GotIsPart ==
  ASSUME NEW g \in Items, NEW w \in Items, NEW q \in Items, NEW b \in Items, NEW p \in Items,
         NEW kind, NEW r
  PROVE  Count(g, kind, r) <= Count(Joined(g, w, q, b, p), kind, r)
<1> DEFINE all == Count(Joined(g, w, q, b, p), kind, r)
<1>1. /\ all = Count(g, kind, r) + Count(w, kind, r) + Count(q, kind, r) + Count(b, kind, r) + Count(p, kind, r)
      /\ Count(g, kind, r) \in Nat /\ Count(w, kind, r) \in Nat /\ Count(q, kind, r) \in Nat
      /\ Count(b, kind, r) \in Nat /\ Count(p, kind, r) \in Nat
  BY JoinedCounts
<1> HIDE DEF all
<1>2. Count(g, kind, r) <= all
  BY <1>1
<1> QED BY <1>2 DEF all

(* A defect counts for nothing, and who was told of it is not clean.        *)
LEMMA DefectFacts ==
  ASSUME NEW kind \in {"Chunk", "Exit"}, NEW r
  PROVE  /\ Count(<<Defect>>, kind, r) = 0
         /\ \A s \in Items : Count(Append(s, Defect), kind, r) = Count(s, kind, r)
<1>1. Defect \in Item /\ Defect \notin Of(kind, r)
  BY DEF Defect, Item, Of
<1>2. Weight(Defect, kind, r) = 0
  BY <1>1 DEF Weight
<1>3. \A s \in Items : Count(s, kind, r) \in Nat
  BY CountFacts, Zenon DEF Items
<1>4. \A s \in Items : Count(Append(s, Defect), kind, r) = Count(s, kind, r) + Weight(Defect, kind, r)
  BY <1>1, CountFacts, Zenon DEF Items
<1>5. Count(<<Defect>>, kind, r) = Weight(Defect, kind, r)
  BY <1>1, CountFacts, Zenon
<1> QED BY <1>2, <1>3, <1>4, <1>5

(* A defect is in none of the responses: what is written and what is queued *)
(* may be joined, and a first response written, and a client that was told  *)
(* of no defect is still told of none.                                      *)
LEMMA CleanFacts ==
  /\ \A s, t \in Items : Clean(s \o t, <<>>) <=> Clean(s, t)
  /\ \A s, t \in Items : ~ Clean(Append(s, Defect), t) /\ ~ Clean(s, <<Defect>>)
  /\ \A s \in Items : \A t \in Responses : Clean(s, t) <=> Clean(s, <<>>)
  /\ \A s, t, u \in Items : u \in Responses => (Clean(s, t \o u) <=> Clean(s, t))
  /\ \A s \in Items : \A t \in Responses : t # <<>> => (Clean(s, <<Head(t)>>) <=> Clean(s, <<>>))
<1>1. ASSUME NEW s \in Items, NEW t \in Items PROVE Range(s \o t) = Range(s) \cup Range(t)
  <2>1. s \in Seq(Item) /\ t \in Seq(Item)
    BY DEF Items
  <2>2. DOMAIN s = 1 .. Len(s) /\ DOMAIN t = 1 .. Len(t) /\ Len(s) \in Nat /\ Len(t) \in Nat
    BY <2>1, LenProperties
  <2>3. /\ s \o t \in Seq(Item) /\ Len(s \o t) = Len(s) + Len(t)
        /\ \A i \in 1 .. Len(s) + Len(t) : (s \o t)[i] = IF i <= Len(s) THEN s[i] ELSE t[i - Len(s)]
    BY <2>1, ConcatProperties
  <2> DEFINE u == s \o t
  <2>4. DOMAIN u = 1 .. Len(s) + Len(t)
    BY <2>3, LenProperties
  <2> HIDE DEF u
  <2>5. \A i \in 1 .. Len(s) : i \in DOMAIN u /\ u[i] = s[i]
    BY <2>2, <2>3, <2>4 DEF u
  <2>6. \A i \in 1 .. Len(t) : i + Len(s) \in DOMAIN u /\ u[i + Len(s)] = t[i]
    BY <2>2, <2>3, <2>4 DEF u
  <2>7. \A i \in DOMAIN u : (i \in DOMAIN s /\ u[i] = s[i]) \/ (i - Len(s) \in DOMAIN t /\ u[i] = t[i - Len(s)])
    BY <2>2, <2>3, <2>4 DEF u
  <2>8. Range(u) \subseteq Range(s) \cup Range(t)
    BY <2>7 DEF Range
  <2>9. Range(s) \subseteq Range(u) /\ Range(t) \subseteq Range(u)
    BY <2>2, <2>5, <2>6 DEF Range
  <2> QED BY <2>8, <2>9 DEF u
<1>2. Range(<<>>) = {} /\ \A x : Range(<<x>>) = {x}
  BY DEF Range
<1>3. Defect \notin Response
  BY DEF Defect, Response
<1>4. \A t \in Responses : Defect \notin Range(t)
  BY <1>3, ElementOfSeq, LenProperties DEF Range, Responses
<1>5. Defect \in Item
  BY DEF Item
<1>6. <<Defect>> \in Items /\ \A s \in Items : Append(s, Defect) = s \o <<Defect>>
  <2>1. <<Defect>> \in Items
    BY <1>5 DEF Items
  <2>2. ASSUME NEW s \in Items PROVE Append(s, Defect) = s \o <<Defect>>
    BY <1>5, ItemAppended
  <2> QED BY <2>1, <2>2
<1>7. \A t \in Responses : t # <<>> => Head(t) \in Response
  BY HeadTailProperties DEF Responses
<1>8. \A s, t \in Items : Clean(s \o t, <<>>) <=> Clean(s, t)
  BY <1>1, <1>2 DEF Clean
<1>9. ASSUME NEW s \in Items, NEW t \in Items PROVE ~ Clean(Append(s, Defect), t) /\ ~ Clean(s, <<Defect>>)
  <2>1. Range(s \o <<Defect>>) = Range(s) \cup Range(<<Defect>>)
    BY <1>1, <1>6
  <2>2. Defect \in Range(<<Defect>>)
    BY <1>2
  <2>3. Defect \in Range(Append(s, Defect))
    BY <1>6, <2>1, <2>2
  <2> QED BY <2>2, <2>3 DEF Clean
<1>10. \A s \in Items : \A t \in Responses : Clean(s, t) <=> Clean(s, <<>>)
  BY <1>2, <1>4 DEF Clean
<1>11. ASSUME NEW s \in Items, NEW t \in Items, NEW u \in Items, u \in Responses
       PROVE  Clean(s, t \o u) <=> Clean(s, t)
  BY <1>1, <1>4, <1>11 DEF Clean
<1>12. ASSUME NEW s \in Items, NEW t \in Responses, t # <<>>
       PROVE  Clean(s, <<Head(t)>>) <=> Clean(s, <<>>)
  BY <1>2, <1>3, <1>7, <1>12 DEF Clean
<1> QED BY <1>8, <1>9, <1>10, <1>11, <1>12

-----------------------------------------------------------------------------
(* What a step does to the books.                                           *)

(* What is on its way to a client is responses.                             *)
LEMMA WayTyped ==
  ASSUME Shape, NEW c \in Client
  PROVE  /\ received[c] \in Items /\ writing[c] \in Items
         /\ queue[c] \in Responses /\ BatchesFor(toWorker, c) \in Responses
         /\ pendingSends.entries[c] \in Responses /\ sent[c] \in Responses
         /\ Addressed(ServerMessage, Response, c)
<1>1. Addressed(ServerMessage, Response, c)
  BY DEF Addressed, ServerMessage, Batch, EntriesFor
<1>2. BatchesFor(toWorker, c) \in Seq(Response)
  <2>1. toWorker \in Seq(ServerMessage)
    BY DEF Shape, ThreadTypeOK
  <2> QED BY <1>1, <2>1, BatchesType
<1>3. pendingSends.entries \in Batch
  BY DEF Shape, ThreadTypeOK
<1>4. pendingSends.entries[c] \in Seq(Response)
  BY <1>3 DEF Batch
<1> QED BY <1>1, <1>2, <1>4 DEF Shape, ClientsShape, Items, Responses

(* It is so after a step.                                                   *)
LEMMA WayTypedNext ==
  ASSUME Shape', scenario' = scenario, NEW c \in Client
  PROVE  /\ received'[c] \in Items /\ writing'[c] \in Items
         /\ queue'[c] \in Responses /\ BatchesFor(toWorker', c) \in Responses
         /\ pendingSends'.entries[c] \in Responses /\ sent'[c] \in Responses
         /\ Addressed(ServerMessage', Response, c)
<1>0. Response' = Response /\ Item' = Item /\ Batch' = Batch
  BY SameItems DEF Batch
<1>1. Addressed(ServerMessage', Response, c)
  BY <1>0 DEF Addressed, ServerMessage, Batch, EntriesFor
<1> DEFINE M == ServerMessage'
           s == toWorker'
<1>2. BatchesFor(s, c) \in Seq(Response)
  <2>1. s \in Seq(M)
    BY DEF Shape, ThreadTypeOK
  <2>2. Addressed(M, Response, c)
    BY <1>1
  <2> HIDE DEF M, s
  <2> QED BY <2>1, <2>2, BatchesType
<1>3. pendingSends'.entries \in Batch
  BY <1>0 DEF Shape, ThreadTypeOK
<1>4. pendingSends'.entries[c] \in Seq(Response)
  BY <1>3 DEF Batch
<1> QED BY <1>0, <1>1, <1>2, <1>4 DEF Shape, ClientsShape, Items, Responses

(* The books are numbers.                                                   *)
Reckonable(c, r) ==
  /\ calls[c][r] \in CallStates /\ peer[c][r].asked \in BOOLEAN /\ peer[c][r].acked \in Nat
  /\ Count(sent[c], "Chunk", r) \in Nat /\ Count(received[c], "Chunk", r) \in Nat
  /\ Count(Whole(c), "Chunk", r) \in Nat /\ Count(Whole(c), "Exit", r) \in Nat
  /\ Count(received[c], "Chunk", r) <= Count(Whole(c), "Chunk", r)
  /\ Coming("Ack", c, r) \in Nat /\ Coming("Request", c, r) \in Nat
  /\ scenario.chunks \in Nat

(* They are, of a state that has its types ...                              *)
LEMMA Counted ==
  ASSUME Shape, NEW c \in Client, NEW r \in AllCalls
  PROVE  Reckonable(c, r)
<1>1. \A s \in Items : \A kind : Count(s, kind, r) \in Nat
  BY CountFacts, Zenon DEF Items
<1>2. received[c] \in Items /\ sent[c] \in Items /\ Whole(c) \in Items
  BY WayTyped, ItemFacts, JoinedType DEF Whole
<1>3. calls[c][r] \in CallStates /\ peer[c][r] \in PeerRecord /\ scenario.chunks \in Nat
  BY DemandFacts DEF Shape, ClientsShape
<1>4. peer[c][r].asked \in BOOLEAN /\ peer[c][r].acked \in Nat
  BY <1>3 DEF PeerRecord
<1>5. \A S : Tally(toParent, S) \in Nat
  BY PlacesFinite DEF Shape, ThreadTypeOK
<1>6. Coming("Ack", c, r) \in Nat /\ Coming("Request", c, r) \in Nat
  BY <1>5 DEF Coming
<1>7. Count(received[c], "Chunk", r) <= Count(Whole(c), "Chunk", r)
  <2>1. /\ received[c] \in Items /\ writing[c] \in Items /\ queue[c] \in Items
        /\ BatchesFor(toWorker, c) \in Items /\ pendingSends.entries[c] \in Items
    BY WayTyped, ItemFacts
  <2> QED BY <2>1, GotIsPart DEF Whole
<1> QED BY <1>1, <1>2, <1>3, <1>4, <1>6, <1>7 DEF Reckonable

(* ... and after a step.                                                    *)
LEMMA CountedNext ==
  ASSUME Shape', scenario' = scenario, NEW c \in Client, NEW r \in AllCalls
  PROVE  Reckonable(c, r)'
<1>1. \A s \in Items : \A kind : Count(s, kind, r) \in Nat
  BY CountFacts, Zenon DEF Items
<1>2. received'[c] \in Items /\ sent'[c] \in Items /\ Whole(c)' \in Items
  BY WayTypedNext, ItemFacts, JoinedType DEF Whole
<1>3. calls'[c][r] \in CallStates /\ peer'[c][r] \in PeerRecord /\ scenario'.chunks \in Nat
  BY DemandFacts DEF Shape, ClientsShape
<1>4. peer'[c][r].asked \in BOOLEAN /\ peer'[c][r].acked \in Nat
  BY <1>3 DEF PeerRecord
<1> DEFINE s == toParent'
           M == WorkerMessage'
<1>5. \A S : Tally(s, S) \in Nat
  <2>1. s \in Seq(M)
    BY DEF Shape, ThreadTypeOK
  <2> HIDE DEF s, M
  <2> QED BY <2>1, PlacesFinite
<1>6. Coming("Ack", c, r)' \in Nat /\ Coming("Request", c, r)' \in Nat
  BY <1>5 DEF Coming
<1>7. Count(received'[c], "Chunk", r) <= Count(Whole(c)', "Chunk", r)
  <2>1. /\ received'[c] \in Items /\ writing'[c] \in Items /\ queue'[c] \in Items
        /\ BatchesFor(toWorker', c) \in Items /\ pendingSends'.entries[c] \in Items
    BY WayTypedNext, ItemFacts
  <2> QED BY <2>1, GotIsPart DEF Whole
<1> QED BY <1>1, <1>2, <1>3, <1>4, <1>6, <1>7 DEF Reckonable

(* A step that sends the client nothing: what it got and what is on its way *)
(* stays in order, or is lost with its socket or with a defect.             *)
Steady(c) ==
  /\ sent'[c] = sent[c]
  /\ \A r \in AllCalls : Count(received'[c], "Chunk", r) >= Count(received[c], "Chunk", r)
  /\ \A r \in AllCalls : /\ Count(Whole(c)', "Chunk", r) <= Count(Whole(c), "Chunk", r)
                         /\ Count(Whole(c)', "Exit", r) <= Count(Whole(c), "Exit", r)
  /\ socket'[c] \in {"none", "open"} /\ Clean(received'[c], writing'[c]) =>
       /\ socket[c] \in {"none", "open"} /\ Clean(received[c], writing[c])
       /\ Whole(c)' = Whole(c)
  /\ socket'[c] = "none" => socket[c] = "none" /\ Clean(received'[c], writing'[c])

(* A step in which nobody asks, acknowledges or takes a message of the call. *)
Fades(c, r) ==
  \/ calls'[c][r] = calls[c][r]
  \/ calls[c][r] # "none" /\ calls'[c][r] = "over"
  \/ calls[c][r] \in {"ready", "unacked"} /\ calls'[c][r] = "ending"
Quiet(c, r) ==
  /\ Fades(c, r)
  /\ peer[c][r].asked => peer'[c][r].asked
  /\ peer'[c][r].acked = peer[c][r].acked
  /\ Coming("Ack", c, r)' = Coming("Ack", c, r) /\ Coming("Request", c, r)' = Coming("Request", c, r)

(* Then the call's books stay balanced.                                     *)
LEMMA QuietBalanced ==
  ASSUME scenario' = scenario, NEW c, NEW r \in AllCalls, Reckonable(c, r), Reckonable(c, r)',
         Steady(c), Quiet(c, r), Balanced(c, r)
  PROVE  Balanced(c, r)'
BY DEF Reckonable, Steady, Fades, Quiet, Balanced, Account, CallStates

(* A request or an ack is handled in one step, in process.                  *)
Handles(c, r, kind) ==
  /\ kind = "Request" => /\ ~peer[c][r].asked /\ peer'[c][r].asked
                         /\ peer'[c][r].acked = peer[c][r].acked
                         /\ calls'[c][r] = "ready"
  /\ kind = "Ack" => /\ peer[c][r].acked < Count(received[c], "Chunk", r)
                     /\ peer'[c][r].asked = peer[c][r].asked /\ peer'[c][r].acked = peer[c][r].acked + 1
                     /\ calls'[c][r] = IF calls[c][r] = "unacked" THEN "ready" ELSE calls[c][r]
  /\ Coming("Ack", c, r)' = Coming("Ack", c, r) /\ Coming("Request", c, r)' = Coming("Request", c, r)
  /\ Coming("Ack", c, r) = 0

(* The books stay balanced when it is.                                      *)
LEMMA HandledBalanced ==
  ASSUME scenario' = scenario, NEW c, NEW r \in AllCalls, Reckonable(c, r), Reckonable(c, r)',
         Steady(c), NEW kind \in {"Request", "Ack"}, Handles(c, r, kind), Balanced(c, r)
  PROVE  Balanced(c, r)'
<1>1. CASE kind = "Request"
  BY <1>1 DEF Reckonable, Steady, Handles, Balanced, Account, CallStates
<1>2. CASE kind = "Ack"
  BY <1>2 DEF Reckonable, Steady, Handles, Balanced, Account, CallStates
<1> QED BY <1>1, <1>2

(* A request or an ack is posted to the parent ...                          *)
Posts(c, r, kind) ==
  /\ calls'[c][r] = calls[c][r]
  /\ kind = "Request" => /\ ~peer[c][r].asked /\ peer'[c][r].asked
                         /\ peer'[c][r].acked = peer[c][r].acked
                         /\ Coming("Ack", c, r)' = Coming("Ack", c, r)
                         /\ Coming("Request", c, r)' = Coming("Request", c, r) + 1
  /\ kind = "Ack" => /\ peer[c][r].acked < Count(received[c], "Chunk", r)
                     /\ peer'[c][r].asked = peer[c][r].asked /\ peer'[c][r].acked = peer[c][r].acked + 1
                     /\ Coming("Ack", c, r)' = Coming("Ack", c, r) + 1
                     /\ Coming("Request", c, r)' = Coming("Request", c, r)

(* The books stay balanced when it is on its way.                           *)
LEMMA PostedBalanced ==
  ASSUME scenario' = scenario, NEW c, NEW r \in AllCalls, Reckonable(c, r), Reckonable(c, r)',
         Steady(c), NEW kind \in {"Request", "Ack"}, Posts(c, r, kind), Balanced(c, r)
  PROVE  Balanced(c, r)'
<1>1. CASE kind = "Request"
  BY <1>1 DEF Reckonable, Steady, Posts, Balanced, Account, CallStates
<1>2. CASE kind = "Ack"
  BY <1>2 DEF Reckonable, Steady, Posts, Balanced, Account, CallStates
<1> QED BY <1>1, <1>2

(* ... and taken there, by the RPC server or by nobody.                     *)
Takes(c, r, kind) ==
  /\ peer'[c][r].asked = peer[c][r].asked /\ peer'[c][r].acked = peer[c][r].acked
  /\ kind = "Request" => /\ calls'[c][r] \in {"ready", calls[c][r]}
                         /\ Coming("Ack", c, r)' = Coming("Ack", c, r)
                         /\ Coming("Request", c, r) = Coming("Request", c, r)' + 1
  /\ kind = "Ack" => /\ \/ calls'[c][r] = IF calls[c][r] = "unacked" THEN "ready" ELSE calls[c][r]
                        \/ calls'[c][r] = calls[c][r] /\ calls[c][r] \in {"none", "over"}
                     /\ Coming("Ack", c, r) = Coming("Ack", c, r)' + 1
                     /\ Coming("Request", c, r)' = Coming("Request", c, r)

(* The books stay balanced when it is taken.                                *)
LEMMA TakenBalanced ==
  ASSUME scenario' = scenario, NEW c, NEW r \in AllCalls, Reckonable(c, r), Reckonable(c, r)',
         Steady(c), NEW kind \in {"Request", "Ack"}, Takes(c, r, kind), Balanced(c, r)
  PROVE  Balanced(c, r)'
<1>1. CASE kind = "Request"
  BY <1>1 DEF Reckonable, Steady, Takes, Balanced, Account, CallStates
<1>2. CASE kind = "Ack"
  BY <1>2 DEF Reckonable, Steady, Takes, Balanced, Account, CallStates
<1> QED BY <1>1, <1>2

(* A response is sent.                                                      *)
Sending(c, r, x) ==
  /\ sent'[c] = Append(sent[c], x) /\ received'[c] = received[c] /\ writing'[c] = writing[c]
  /\ socket'[c] = socket[c] /\ socket[c] # "none"
  /\ \/ Whole(c)' = Append(Whole(c), x)
     \/ Whole(c)' = Whole(c) /\ socket[c] # "open"
  /\ peer'[c][r] = peer[c][r]
  /\ Coming("Ack", c, r)' = Coming("Ack", c, r) /\ Coming("Request", c, r)' = Coming("Request", c, r)

(* The books of every call of the client stay balanced when it is.          *)
LEMMA SendingBalanced ==
  ASSUME Shape, scenario' = scenario, NEW c \in Client, NEW r \in AllCalls, Reckonable(c, r), Reckonable(c, r)',
         NEW x \in Response, NEW q \in AllCalls, Responds(c, q, x), Sending(c, r, x), Balanced(c, r)
  PROVE  Balanced(c, r)'
<1>1. x \in Item /\ Whole(c) \in Seq(Item) /\ sent[c] \in Seq(Item)
  <2>1. Whole(c) \in Items /\ sent[c] \in Items
    BY WayTyped, ItemFacts, JoinedType DEF Whole
  <2> QED BY <2>1 DEF Item, Items
<1>2. \A kind \in {"Chunk", "Exit"} :
        /\ Count(sent'[c], kind, r) = Count(sent[c], kind, r) + Weight(x, kind, r)
        /\ \/ Count(Whole(c)', kind, r) = Count(Whole(c), kind, r) + Weight(x, kind, r)
           \/ Count(Whole(c)', kind, r) = Count(Whole(c), kind, r)
  <2>1. \A kind \in {"Chunk", "Exit"} :
          /\ Count(Append(sent[c], x), kind, r) = Count(sent[c], kind, r) + Weight(x, kind, r)
          /\ Count(Append(Whole(c), x), kind, r) = Count(Whole(c), kind, r) + Weight(x, kind, r)
    BY <1>1, CountAppended
  <2> QED BY <2>1 DEF Sending
<1>3. /\ \A d \in Client, p \in AllCalls : d # c \/ p # q => calls'[d][p] = calls[d][p]
      /\ \/ /\ calls[c][q] = "ready" /\ calls'[c][q] = "unacked" /\ x.kind = "Chunk" /\ x.call = q
            /\ Count(sent[c], "Chunk", q) < scenario.chunks
         \/ /\ calls[c][q] \in {"ready", "ending"} /\ calls'[c][q] = "over" /\ x.kind = "Exit" /\ x.call = q
  <2>1. ClientsShape
    BY DEF Shape
  <2> QED BY <2>1, RespondsFacts
<1>4. \A kind \in {"Chunk", "Exit"} : Weight(x, kind, r) = IF x.kind = kind /\ x.call = r THEN 1 ELSE 0
  BY <1>1 DEF Weight, Of
<1>5. CASE q # r
  <2>1. Weight(x, "Chunk", r) = 0 /\ Weight(x, "Exit", r) = 0 /\ calls'[c][r] = calls[c][r]
    BY <1>3, <1>4, <1>5
  <2> QED BY <1>2, <2>1 DEF Reckonable, Sending, Balanced, Account, CallStates
<1>6. CASE q = r /\ calls[c][q] = "ready" /\ calls'[c][q] = "unacked" /\ x.kind = "Chunk" /\ x.call = q
           /\ Count(sent[c], "Chunk", q) < scenario.chunks
  <2>1. Weight(x, "Chunk", r) = 1 /\ Weight(x, "Exit", r) = 0
    BY <1>4, <1>6
  <2>2. /\ Count(sent'[c], "Chunk", r) = Count(sent[c], "Chunk", r) + 1
        /\ \/ Count(Whole(c)', "Chunk", r) = Count(Whole(c), "Chunk", r) + 1
           \/ Count(Whole(c)', "Chunk", r) = Count(Whole(c), "Chunk", r)
        /\ Count(Whole(c)', "Exit", r) = Count(Whole(c), "Exit", r)
    BY <1>2, <2>1 DEF Reckonable
  <2> QED BY <1>6, <2>2 DEF Reckonable, Sending, Balanced, Account, CallStates
<1>7. CASE q = r /\ calls[c][q] \in {"ready", "ending"} /\ calls'[c][q] = "over" /\ x.kind = "Exit" /\ x.call = q
  <2>1. Weight(x, "Chunk", r) = 0 /\ Weight(x, "Exit", r) = 1
    BY <1>4, <1>7
  <2>2. /\ Count(sent'[c], "Chunk", r) = Count(sent[c], "Chunk", r)
        /\ Count(Whole(c)', "Chunk", r) = Count(Whole(c), "Chunk", r)
        /\ \/ Count(Whole(c)', "Exit", r) = Count(Whole(c), "Exit", r) + 1
           \/ Count(Whole(c)', "Exit", r) = Count(Whole(c), "Exit", r)
    BY <1>2, <2>1 DEF Reckonable
  <2> QED BY <1>7, <2>2, SMTT(40) DEF Reckonable, Sending, Balanced, Account, CallStates
<1> QED BY <1>3, <1>5, <1>6, <1>7

(* The order is kept.                                                       *)
LEMMA SteadyOrdered ==
  ASSUME NEW c, Steady(c), Ordered(c)
  PROVE  Ordered(c)'
BY DEF Steady, Ordered

(* It is kept when a response is sent, which comes last.                    *)
LEMMA SendingOrdered ==
  ASSUME NEW c, NEW r, NEW x, Sending(c, r, x), Ordered(c)
  PROVE  Ordered(c)'
BY DEF Sending, Ordered

(* Nothing of a client's is touched, but its socket may open or go.         *)
Untouched(c) ==
  /\ sent'[c] = sent[c] /\ received'[c] = received[c] /\ writing'[c] = writing[c] /\ queue'[c] = queue[c]
  /\ BatchesFor(toWorker', c) = BatchesFor(toWorker, c)
  /\ pendingSends'.entries[c] = pendingSends.entries[c]
  /\ \/ socket'[c] = socket[c] \/ socket'[c] \notin {"none", "open"}
     \/ socket[c] = "none" /\ socket'[c] = "open"

(* Then nothing is out of order.                                            *)
LEMMA UntouchedSteady ==
  ASSUME Shape, NEW c \in Client, Placed(c), Untouched(c)
  PROVE  Steady(c)
<1>1. Whole(c)' = Whole(c)
  BY DEF Untouched, Whole
<1>2. \A r \in AllCalls : /\ Count(received[c], "Chunk", r) \in Nat /\ Count(Whole(c), "Chunk", r) \in Nat
                          /\ Count(Whole(c), "Exit", r) \in Nat
  BY Counted DEF Reckonable
<1>3. received'[c] = received[c] /\ writing'[c] = writing[c] /\ sent'[c] = sent[c]
  BY DEF Untouched
<1>4. socket'[c] \in {"none", "open"} => socket[c] \in {"none", "open"}
  BY DEF Untouched
<1>5. socket'[c] = "none" => socket[c] = "none" /\ Clean(received[c], writing[c])
  BY DEF Untouched, Placed
<1> QED BY <1>1, <1>2, <1>3, <1>4, <1>5 DEF Steady

(* Responses of a client that is connected move on.                         *)
Moved(c) ==
  /\ sent'[c] = sent[c] /\ socket'[c] = socket[c] /\ socket[c] # "none"
  /\ received'[c] \in {received[c], received[c] \o writing[c]}
  /\ Clean(received'[c], writing'[c]) => Clean(received[c], writing[c])
  /\ Whole(c)' = Whole(c)

(* They stay in their order.                                                *)
LEMMA MovedSteady ==
  ASSUME Shape, NEW c \in Client, Moved(c)
  PROVE  Steady(c)
<1>1. \A r \in AllCalls : /\ Count(received[c], "Chunk", r) \in Nat /\ Count(Whole(c), "Chunk", r) \in Nat
                          /\ Count(Whole(c), "Exit", r) \in Nat
  BY Counted DEF Reckonable
<1>2. ASSUME NEW r \in AllCalls
      PROVE  Count(received'[c], "Chunk", r) >= Count(received[c], "Chunk", r)
  <2>1. received[c] \in Seq(Item) /\ writing[c] \in Seq(Item)
    BY DEF Shape, ClientsShape
  <2>2. /\ Count(received[c] \o writing[c], "Chunk", r) = Count(received[c], "Chunk", r) + Count(writing[c], "Chunk", r)
        /\ Count(writing[c], "Chunk", r) \in Nat
    BY <2>1, CountJoined
  <2>3. received'[c] = received[c] \/ received'[c] = received[c] \o writing[c]
    BY DEF Moved
  <2> DEFINE old == Count(received[c], "Chunk", r)
             more == Count(writing[c], "Chunk", r)
             new == Count(received'[c], "Chunk", r)
  <2>4. new \in {old, old + more}
    BY <2>2, <2>3, Zenon
  <2>5. old \in Nat /\ more \in Nat
    BY <1>1, <2>2
  <2> HIDE DEF old, more, new
  <2>6. new >= old
    BY <2>4, <2>5
  <2> QED BY <2>6 DEF old, new
<1> QED BY <1>1, <1>2 DEF Moved, Steady

(* Responses of a client are lost, with its socket or with a defect.        *)
Lost(c) ==
  /\ sent'[c] = sent[c]
  /\ received'[c] \in {received[c], Append(received[c], Defect)}
  /\ writing'[c] \in {writing[c], <<>>, <<Defect>>}
  /\ queue'[c] \in {queue[c], <<>>}
  /\ \/ BatchesFor(toWorker', c) \in {BatchesFor(toWorker, c), <<>>}
     \/ \E e \in Items : BatchesFor(toWorker, c) = e \o BatchesFor(toWorker', c)
  /\ pendingSends'.entries[c] \in {pendingSends.entries[c], <<>>}
  /\ \/ socket'[c] \notin {"none", "open"}
     \/ socket'[c] = "open" /\ ~ Clean(received'[c], writing'[c])

(* Then the client is one that order is not asked of any more.              *)
LEMMA LostSteady ==
  ASSUME Shape, Shape', scenario' = scenario, NEW c \in Client, Lost(c)
  PROVE  Steady(c)
<1> DEFINE g == received[c]  w == writing[c]  q == queue[c]  b == BatchesFor(toWorker, c)  p == pendingSends.entries[c]
           h == received'[c]  v == writing'[c]  u == queue'[c]  a == BatchesFor(toWorker', c)  o == pendingSends'.entries[c]
<1>1. g \in Items /\ w \in Items /\ q \in Items /\ b \in Items /\ p \in Items
  BY WayTyped, ItemFacts
<1>2. h \in Items /\ v \in Items /\ u \in Items /\ a \in Items /\ o \in Items
  BY WayTypedNext, ItemFacts
<1>3. /\ h \in {g, Append(g, Defect)} /\ v \in {w, <<>>, <<Defect>>} /\ u \in {q, <<>>} /\ o \in {p, <<>>}
      /\ a \in {b, <<>>} \/ \E e \in Items : b = e \o a
  BY DEF Lost
<1>4. Whole(c) = Joined(g, w, q, b, p) /\ Whole(c)' = Joined(h, v, u, a, o)
  BY DEF Whole
<1> HIDE DEF g, w, q, b, p, h, v, u, a, o
<1>5. ASSUME NEW kind \in {"Chunk", "Exit"}, NEW r \in AllCalls
      PROVE  Count(h, kind, r) = Count(g, kind, r) /\ Count(Whole(c)', kind, r) <= Count(Whole(c), kind, r)
  <2>1. /\ Count(Joined(g, w, q, b, p), kind, r)
             = Count(g, kind, r) + Count(w, kind, r) + Count(q, kind, r) + Count(b, kind, r) + Count(p, kind, r)
        /\ Count(g, kind, r) \in Nat /\ Count(w, kind, r) \in Nat /\ Count(q, kind, r) \in Nat
        /\ Count(b, kind, r) \in Nat /\ Count(p, kind, r) \in Nat
    BY <1>1, JoinedCounts
  <2>2. /\ Count(Joined(h, v, u, a, o), kind, r)
             = Count(h, kind, r) + Count(v, kind, r) + Count(u, kind, r) + Count(a, kind, r) + Count(o, kind, r)
        /\ Count(a, kind, r) \in Nat
    BY <1>2, JoinedCounts
  <2>3. Count(<<>>, kind, r) = 0 /\ Count(<<Defect>>, kind, r) = 0 /\ Count(Append(g, Defect), kind, r) = Count(g, kind, r)
    BY <1>1, CountFacts, DefectFacts
  <2>4. Count(h, kind, r) = Count(g, kind, r)
    BY <1>3, <2>3
  <2>5. Count(v, kind, r) <= Count(w, kind, r)
    <3>1. v = w \/ v = <<>> \/ v = <<Defect>>
      BY <1>3
    <3>2. Count(v, kind, r) \in {Count(w, kind, r), 0}
      BY <2>3, <3>1, Zenon
    <3> QED BY <2>1, <3>2
  <2>6. Count(u, kind, r) <= Count(q, kind, r) /\ Count(o, kind, r) <= Count(p, kind, r)
    BY <1>3, <2>1, <2>3
  <2>7. Count(a, kind, r) <= Count(b, kind, r)
    <3>1. CASE a \in {b, <<>>}
      BY <2>1, <2>3, <3>1
    <3>2. ASSUME NEW e \in Items, b = e \o a PROVE Count(a, kind, r) <= Count(b, kind, r)
      <4>1. e \in Seq(Item) /\ a \in Seq(Item)
        BY <1>2 DEF Items
      <4>2. Count(e \o a, kind, r) = Count(e, kind, r) + Count(a, kind, r) /\ Count(e, kind, r) \in Nat
        BY <4>1, CountJoined
      <4> QED BY <2>2, <3>2, <4>2
    <3> QED BY <1>3, <3>1, <3>2
  <2>8. /\ Count(h, kind, r) + Count(v, kind, r) + Count(u, kind, r) + Count(a, kind, r) + Count(o, kind, r)
             \in Int
        /\ Count(v, kind, r) \in Nat /\ Count(u, kind, r) \in Nat /\ Count(o, kind, r) \in Nat
    BY <1>2, JoinedCounts
  <2> QED BY <1>4, <2>1, <2>2, <2>4, <2>5, <2>6, <2>7, <2>8
<1>6. \A r \in AllCalls : Count(g, "Chunk", r) \in Nat
  BY Counted DEF Reckonable, g
<1>7. \A r \in AllCalls : Count(received'[c], "Chunk", r) >= Count(received[c], "Chunk", r)
  BY <1>5, <1>6 DEF g, h
<1>8. sent'[c] = sent[c] /\ (socket'[c] \in {"none", "open"} /\ Clean(received'[c], writing'[c]) => FALSE)
      /\ socket'[c] # "none"
  BY DEF Lost
<1>9. \A r \in AllCalls : /\ Count(Whole(c)', "Chunk", r) <= Count(Whole(c), "Chunk", r)
                          /\ Count(Whole(c)', "Exit", r) <= Count(Whole(c), "Exit", r)
  BY <1>5
<1> QED BY <1>7, <1>8, <1>9 DEF Steady

(* A client that has not connected has nothing on its way, and it stays so. *)
LEMMA NothingForNobody ==
  ASSUME Shape, NEW c \in Client, Placed(c), Ordered(c), socket[c] = "none"
  PROVE  /\ sent[c] = <<>> /\ received[c] = <<>> /\ writing[c] = <<>> /\ queue[c] = <<>>
         /\ BatchesFor(toWorker, c) = <<>> /\ pendingSends.entries[c] = <<>>
<1>1. sent[c] = <<>> /\ Whole(c) = <<>>
  BY DEF Placed, Ordered
<1>2. /\ received[c] \in Items /\ writing[c] \in Items /\ queue[c] \in Items
      /\ BatchesFor(toWorker, c) \in Items /\ pendingSends.entries[c] \in Items
  BY WayTyped, ItemFacts
<1> QED BY <1>1, <1>2, NothingJoined DEF Whole

-----------------------------------------------------------------------------
(* The steps.                                                               *)

(* Before a step.                                                           *)
Before == TransportInv /\ Shape' /\ scenario' = scenario /\ mode' = mode

(* What is to be shown of a client after it.                                *)
Held(c) == Placed(c)' /\ Ordered(c)' /\ \A r \in AllCalls : Balanced(c, r)'

(* A step in which nobody of the client asks or answers keeps what is to be *)
(* shown.                                                                   *)
LEMMA CalmKept ==
  ASSUME Before, NEW c \in Client, Steady(c), \A r \in AllCalls : Quiet(c, r), Placed(c)'
  PROVE  Held(c)
<1>1. Shape /\ Shape' /\ scenario' = scenario /\ Ordered(c)
  BY DEF Before, TransportInv
<1>2. Ordered(c)'
  BY <1>1, SteadyOrdered
<1>3. ASSUME NEW r \in AllCalls PROVE Balanced(c, r)'
  <2>1. Reckonable(c, r) /\ Reckonable(c, r)' /\ Balanced(c, r)
    BY <1>1, Counted, CountedNext DEF Before, TransportInv
  <2> QED BY <1>1, <2>1, QuietBalanced
<1> QED BY <1>2, <1>3 DEF Held

(* The variables of a client are functions.                                 *)
LEMMA Maps ==
  ASSUME Before
  PROVE  /\ nextClientId \in Int /\ Client \subseteq Int
         /\ socket \in [Client -> {"none", "open", "closing", "closed", "refused"}]
         /\ peer \in [Client -> [AllCalls -> PeerRecord]] /\ calls \in [Client -> [AllCalls -> CallStates]]
         /\ queue \in [Client -> Responses] /\ sent \in [Client -> Responses]
         /\ writing \in [Client -> Items] /\ received \in [Client -> Items]
         /\ flush \in [Client -> SUBSET {"scheduled", "flushing", "dead"}] /\ gauge \in [Client -> Int]
         /\ clientIds \subseteq Client /\ disconnects \in Seq(Client)
<1>1. Client = 0 .. Cardinality(Client) - 1 /\ Cardinality(Client) \in Nat
  BY ClientsAssumption, FS_CardinalityType
<1>2. nextClientId \in Int /\ Client \subseteq Int
  <2>1. nextClientId \in 0 .. Cardinality(Client)
    BY DEF Before, TransportInv, Shape, ClientsShape
  <2> QED BY <1>1, <2>1
<1> QED BY <1>2 DEF Before, TransportInv, Shape, ClientsShape, Responses, Items

(* A client that a step does not concern, but for calls that end.           *)
Alike(c) ==
  /\ nextClientId' = nextClientId \/ nextClientId' = nextClientId + 1
  /\ thread = "up" => thread' = "up"
  /\ received'[c] = received[c] /\ writing'[c] = writing[c] /\ queue'[c] = queue[c] /\ sent'[c] = sent[c]
  /\ socket'[c] = socket[c] /\ peer'[c] = peer[c] /\ \A r \in AllCalls : Fades(c, r)
  /\ flush'[c] = flush[c] /\ gauge'[c] = gauge[c]
  /\ mode = "in-process" => (c \in clientIds' <=> c \in clientIds)
  /\ BatchesFor(toWorker', c) = BatchesFor(toWorker, c)
  /\ pendingSends'.entries[c] = pendingSends.entries[c]
  /\ \A r \in AllCalls : /\ Coming("Ack", c, r)' = Coming("Ack", c, r)
                         /\ Coming("Request", c, r)' = Coming("Request", c, r)

(* What is to be shown of it is kept.                                       *)
LEMMA AlikeKept ==
  ASSUME Before, NEW c \in Client, Alike(c)
  PROVE  Held(c)
<1>1. nextClientId \in Int /\ c \in Int
  BY Maps
<1>2. Placed(c) /\ mode' = mode
  BY DEF Before, TransportInv
<1>3. Placed(c)'
  <2>1. nextClientId' <= c => nextClientId <= c
    BY <1>1 DEF Alike
  <2>2. Alive(c)' = Alive(c)
    BY DEF Alike, Alive
  <2> QED BY <1>2, <2>1, <2>2 DEF Alike, Placed
<1>4. Steady(c)
  <2>1. Untouched(c)
    BY DEF Alike, Untouched
  <2> QED BY <1>2, <2>1, UntouchedSteady DEF Before, TransportInv
<1>5. \A r \in AllCalls : Quiet(c, r)
  BY DEF Alike, Quiet
<1> QED BY <1>3, <1>4, <1>5, CalmKept

(* A step in which the thread takes no part.                                *)
LEMMA ThreadApart ==
  ASSUME UNCHANGED threadVars, NEW c
  PROVE  /\ thread' = thread
         /\ BatchesFor(toWorker', c) = BatchesFor(toWorker, c)
         /\ pendingSends'.entries[c] = pendingSends.entries[c]
         /\ \A r \in AllCalls : /\ Coming("Ack", c, r)' = Coming("Ack", c, r)
                                /\ Coming("Request", c, r)' = Coming("Request", c, r)
<1>1. thread' = thread /\ toWorker' = toWorker /\ toParent' = toParent /\ pendingSends' = pendingSends
  BY DEF threadVars
<1> QED BY <1>1 DEF Coming

(* In process nothing is in its ports.                                      *)
LEMMA InProcessApart ==
  ASSUME Before, InProcess, NEW c \in Client
  PROVE  /\ UNCHANGED threadVars /\ thread' = thread /\ mode = "in-process"
         /\ BatchesFor(toWorker', c) = BatchesFor(toWorker, c) /\ BatchesFor(toWorker, c) = <<>>
         /\ pendingSends'.entries[c] = pendingSends.entries[c] /\ pendingSends.entries[c] = <<>>
         /\ \A r \in AllCalls : /\ Coming("Ack", c, r)' = Coming("Ack", c, r)
                                /\ Coming("Request", c, r)' = Coming("Request", c, r)
                                /\ Coming("Ack", c, r) = 0
<1>1. UNCHANGED threadVars /\ mode = "in-process"
  BY DEF InProcess
<1>2. toWorker = <<>> /\ toParent = <<>> /\ pendingSends.entries = NoEntries
  BY <1>1 DEF Before, TransportInv, ThreadIdle
<1>3. BatchesFor(<<>>, c) = <<>>
  <2>1. Addressed(ServerMessage, Response, c)
    BY WayTyped DEF Before, TransportInv
  <2> QED BY <2>1, BatchesType
<1>4. \A S : Tally(<<>>, S) = 0
  BY TallyOfOne
<1>5. pendingSends.entries[c] = <<>>
  BY <1>2 DEF NoEntries
<1>6. \A r \in AllCalls : Coming("Ack", c, r) = 0
  BY <1>2, <1>4 DEF Coming
<1> QED BY <1>1, <1>2, <1>3, <1>5, <1>6, ThreadApart

(* Its steps concern a client.                                              *)
LEMMA OnSocketKeeps ==
  ASSUME Before, InProcess, OnSocket, NEW c \in Client
  PROVE  Held(c)
<1>1. CASE c # nextClientId
  <2>1. Alike(c)
    BY <1>1, Maps, InProcessApart DEF OnSocket, Alike, Fades, Recorded
  <2> QED BY <2>1, AlikeKept
<1>2. CASE c = nextClientId
  <2>1. Placed(c) /\ nextClientId \in Int /\ Shape /\ mode' = mode
    BY Maps DEF Before, TransportInv
  <2>2. socket[c] = "none"
    BY <1>2, <2>1 DEF Placed
  <2>3. /\ socket'[c] = "open" /\ c \in clientIds' /\ gauge'[c] = 0 /\ nextClientId' = c + 1
        /\ flush'[c] = flush[c] /\ writing'[c] = writing[c]
    BY <1>2, Maps DEF OnSocket, Recorded
  <2>4. Untouched(c)
    BY <2>2, <2>3, InProcessApart DEF OnSocket, Untouched
  <2>5. Steady(c)
    BY <2>1, <2>4, UntouchedSteady
  <2>6. \A r \in AllCalls : Quiet(c, r)
    BY InProcessApart DEF OnSocket, Quiet, Fades
  <2>7. Placed(c)'
    <3>1. mode = "in-process" /\ (flush[c] = {} => writing[c] = <<>>)
      BY <2>1, InProcessApart DEF Placed
    <3>2. ~ (nextClientId' <= c)
      BY <1>2, <2>1, <2>3
    <3> QED BY <2>1, <2>3, <3>1, <3>2 DEF Placed, Alive, Absent
  <2> QED BY <2>5, <2>6, <2>7, CalmKept
<1> QED BY <1>1, <1>2

(* The RPC server takes a disconnected client: its calls end and nothing    *)
(* else changes.                                                            *)
LEMMA TakeDisconnectKeeps ==
  ASSUME Before, TakeDisconnect, UNCHANGED threadVars, NEW c \in Client
  PROVE  Held(c)
<1> DEFINE d == Head(disconnects)
           over == [r \in AllCalls |-> IF calls[d][r] = "none" THEN "none" ELSE "over"]
<1>1. d \in Client
  BY Maps, HeadTailProperties DEF TakeDisconnect
<1>2. calls' = [calls EXCEPT ![d] = over]
  BY DEF TakeDisconnect
<1>3. \A r \in AllCalls : over[r] = calls[d][r] \/ (calls[d][r] # "none" /\ over[r] = "over")
  OBVIOUS
<1> HIDE DEF d, over
<1>4. \A r \in AllCalls : Fades(c, r)
  <2>1. CASE c = d
    <3>1. calls'[c] = over
      BY <1>2, <2>1, Maps
    <3> QED BY <1>3, <2>1, <3>1 DEF Fades
  <2>2. CASE c # d
    BY <1>1, <1>2, <2>2, Maps DEF Fades
  <2> QED BY <2>1, <2>2
<1>5. Alike(c)
  BY <1>4, ThreadApart DEF TakeDisconnect, Alike
<1> QED BY <1>5, AlikeKept

(* A frame is handled in process: a call starts, goes on or is given up, or *)
(* a defect is told.                                                        *)
LEMMA HandleSocketDataKeeps ==
  ASSUME Before, InProcess, NEW d \in Client, HandleSocketData(d), NEW c \in Client
  PROVE  Held(c)
<1>1. PICK frame : /\ FrameArrives(d, frame)
                   /\ IF DecodeClientMessages(frame).tag = "Defect"
                      THEN received' = [received EXCEPT ![d] = Append(@, Defect)] /\ UNCHANGED calls
                      ELSE WriteRequests(d, DecodeClientMessages(frame).messages) /\ UNCHANGED received
  BY DEF HandleSocketData
<1>2. ClientsShape /\ Shape /\ Shape' /\ scenario' = scenario /\ Placed(c) /\ Ordered(c)
      /\ calls \in [Client -> [AllCalls -> CallStates]]
  BY Maps DEF Before, TransportInv, Shape
<1>3. socket[d] = "open" /\ \E r \in AllCalls : \E kind \in {"Request", "Ack", "Interrupt"} : FrameOf(d, frame, kind, r)
  BY <1>1, <1>2, FrameTaken
<1>4. PICK r \in AllCalls, kind \in {"Request", "Ack", "Interrupt"} : FrameOf(d, frame, kind, r)
  BY <1>3
<1>5. \/ /\ WriteRequests(d, <<Sends(kind, r)>>) /\ received' = received
      \/ /\ kind = "Request" /\ calls' = calls /\ received' = [received EXCEPT ![d] = Append(received[d], Defect)]
  <2>1. CASE frame = <<Sends(kind, r)>> /\ DecodeClientMessages(frame) = [tag |-> "Messages", messages |-> frame]
    BY <1>1, <2>1
  <2>2. CASE kind = "Request" /\ DecodeClientMessages(frame) = [tag |-> "Defect"]
    BY <1>1, <2>2
  <2> QED BY <1>4, <2>1, <2>2 DEF FrameOf
<1>6. UNCHANGED <<nextClientId, socket, sent, queue, writing, flush, gauge, clientIds>>
  BY DEF HandleSocketData
<1>7. \/ /\ received' = received
         /\ \A e \in Client, q \in AllCalls : e # d \/ q # r => calls'[e][q] = calls[e][q]
         /\ kind = "Request" => calls'[d][r] = "ready"
         /\ kind = "Ack" => calls'[d][r] = IF calls[d][r] = "unacked" THEN "ready" ELSE calls[d][r]
         /\ kind = "Interrupt" => Fades(d, r)
      \/ /\ kind = "Request" /\ calls' = calls /\ received' = [received EXCEPT ![d] = Append(received[d], Defect)]
  <2>1. CASE WriteRequests(d, <<Sends(kind, r)>>) /\ received' = received
    <3>1. /\ \A e \in Client, q \in AllCalls : e # d \/ q # r => calls'[e][q] = calls[e][q]
          /\ kind = "Request" => calls'[d][r] = "ready"
          /\ kind = "Ack" => calls'[d][r] = IF calls[d][r] = "unacked" THEN "ready" ELSE calls[d][r]
          /\ kind = "Interrupt" => calls'[d][r] = IF calls[d][r] \in {"ready", "unacked"} THEN "ending" ELSE calls[d][r]
      BY <1>2, <2>1, MessageTaken, ZenonT(60)
    <3>2. kind = "Interrupt" => Fades(d, r)
      BY <3>1 DEF Fades
    <3> QED BY <2>1, <3>1, <3>2
  <2> QED BY <1>5, <2>1
<1>8. \A q \in AllCalls : c # d \/ q # r => Fades(c, q) /\ peer'[c][q] = peer[c][q]
  BY <1>4, <1>7 DEF FrameOf, Fades
<1>9. Steady(c)
  <2>1. CASE received'[c] = received[c]
    <3>1. Untouched(c)
      BY <1>6, <2>1, InProcessApart DEF Untouched
    <3> QED BY <1>2, <3>1, UntouchedSteady
  <2>2. CASE received'[c] = Append(received[c], Defect) /\ c = d
    <3>1. received[c] \in Items /\ writing[c] \in Items
      BY Maps
    <3>2. ~ Clean(received'[c], writing'[c])
      BY <1>6, <2>2, <3>1, CleanFacts
    <3>3. Lost(c)
      BY <1>3, <1>6, <2>2, <3>2, InProcessApart DEF Lost
    <3> QED BY <1>2, <3>3, LostSteady
  <2> QED BY <1>7, <2>1, <2>2, Maps
<1>10. Placed(c)'
  <2>1. socket[c] = "none" => c # d /\ \A q \in AllCalls : ~ peer'[c][q].asked
    BY <1>2, <1>3, <1>8 DEF Placed
  <2>2. socket[c] = "none" => received'[c] = received[c]
    BY <1>7, <2>1, Maps
  <2> QED BY <1>2, <1>6, <2>1, <2>2, InProcessApart DEF Placed, Alive, Before
<1>11. ASSUME NEW q \in AllCalls, c # d \/ q # r \/ kind = "Interrupt" \/ (kind = "Request" /\ calls' = calls)
       PROVE  Quiet(c, q)
  <2>1. CASE c # d \/ q # r
    BY <1>8, <2>1, InProcessApart DEF Quiet
  <2>2. CASE c = d /\ q = r /\ kind = "Interrupt"
    BY <1>4, <1>7, <2>2, InProcessApart DEF Quiet, FrameOf
  <2>3. CASE c = d /\ q = r /\ calls' = calls /\ kind = "Request"
    BY <1>4, <2>3, InProcessApart DEF Quiet, FrameOf, Fades
  <2> QED BY <1>11, <2>1, <2>2, <2>3
<1>12. ASSUME NEW q \in AllCalls PROVE Balanced(c, q)'
  <2>1. Reckonable(c, q) /\ Reckonable(c, q)' /\ Balanced(c, q)
    BY <1>2, Counted, CountedNext DEF Before, TransportInv
  <2>2. CASE Quiet(c, q)
    BY <1>2, <1>9, <2>1, <2>2, QuietBalanced
  <2>3. CASE c = d /\ q = r /\ kind # "Interrupt" /\ ~ (kind = "Request" /\ calls' = calls)
    <3>1. Handles(c, q, kind)
      BY <1>4, <1>7, <2>3, InProcessApart DEF Handles, FrameOf
    <3> QED BY <1>2, <1>9, <2>1, <2>3, <3>1, HandledBalanced
  <2> QED BY <1>11, <2>2, <2>3
<1> QED BY <1>2, <1>9, <1>10, <1>12, SteadyOrdered DEF Held

(* A client's responses move on and nothing else does.                      *)
LEMMA MovedKept ==
  ASSUME Before, NEW c \in Client, Moved(c), Placed(c)',
         \A r \in AllCalls : /\ calls'[c][r] = calls[c][r] /\ peer'[c][r] = peer[c][r]
                             /\ Coming("Ack", c, r)' = Coming("Ack", c, r)
                             /\ Coming("Request", c, r)' = Coming("Request", c, r)
  PROVE  Held(c)
<1>1. Steady(c)
  BY MovedSteady DEF Before, TransportInv
<1>2. \A r \in AllCalls : Quiet(c, r)
  BY DEF Quiet, Fades
<1> QED BY <1>1, <1>2, CalmKept

(* A client's responses are lost and nothing else changes.                  *)
LEMMA LostKept ==
  ASSUME Before, NEW c \in Client, Lost(c), Placed(c)',
         \A r \in AllCalls : /\ calls'[c][r] = calls[c][r] /\ peer'[c][r] = peer[c][r]
                             /\ Coming("Ack", c, r)' = Coming("Ack", c, r)
                             /\ Coming("Request", c, r)' = Coming("Request", c, r)
  PROVE  Held(c)
<1>1. Steady(c)
  BY LostSteady DEF Before, TransportInv
<1>2. \A r \in AllCalls : Quiet(c, r)
  BY DEF Quiet, Fades
<1> QED BY <1>1, <1>2, CalmKept

(* The fiber takes the first response: it is the batch now.                 *)
LEMMA TakeFirstKeeps ==
  ASSUME Before, InProcess, NEW d \in Client, TakeFirst(d), NEW c \in Client
  PROVE  Held(c)
<1>1. CASE c # d
  <2>1. Alike(c)
    BY <1>1, Maps, InProcessApart DEF TakeFirst, Alike, Fades
  <2> QED BY <2>1, AlikeKept
<1>2. CASE c = d
  <2>1. Placed(c) /\ Shape /\ mode' = mode /\ mode = "in-process"
    BY InProcessApart DEF Before, TransportInv
  <2>2. /\ c \in clientIds /\ flush[c] = {} /\ queue[c] # <<>>
        /\ writing'[c] = <<Head(queue[c])>> /\ queue'[c] = Tail(queue[c]) /\ flush'[c] = {"scheduled"}
        /\ UNCHANGED <<nextClientId, socket, peer, calls, sent, received, gauge, clientIds>>
    BY <1>2, Maps DEF TakeFirst
  <2>3. writing[c] = <<>> /\ Alive(c)
    BY <2>1, <2>2 DEF Placed
  <2>4. received[c] \in Items /\ queue[c] \in Responses /\ queue[c] \in Items
        /\ BatchesFor(toWorker, c) \in Items /\ pendingSends.entries[c] \in Items
    BY <2>1, WayTyped, ItemFacts
  <2>5. Whole(c)' = Whole(c)
    <3> DEFINE g == received[c]  q == queue[c]  b == BatchesFor(toWorker, c)  p == pendingSends.entries[c]
    <3>1. Whole(c) = Joined(g, <<>>, q, b, p) /\ Whole(c)' = Joined(g, <<Head(q)>>, Tail(q), b, p)
      BY <2>2, <2>3, InProcessApart DEF Whole
    <3>2. g \in Items /\ q \in Items /\ b \in Items /\ p \in Items /\ q # <<>> /\ <<>> \in Items
      BY <2>2, <2>4, ItemFacts
    <3> HIDE DEF g, q, b, p
    <3> QED BY <3>1, <3>2, QueueTaken
  <2>6. Clean(received'[c], writing'[c]) => Clean(received[c], writing[c])
    BY <2>2, <2>3, <2>4, CleanFacts
  <2>7. Moved(c)
    BY <2>2, <2>3, <2>5, <2>6 DEF Moved, Alive
  <2>8. Placed(c)'
    BY <2>1, <2>2, <2>3 DEF Placed, Alive
  <2> QED BY <2>2, <2>7, <2>8, MovedKept, InProcessApart
<1> QED BY <1>1, <1>2

(* A batch as it is encoded: itself, or a defect.                           *)
LEMMA Encoded ==
  ASSUME NEW s \in Items
  PROVE  EncodeServerBatch(s) = s \/ EncodeServerBatch(s) = <<Defect>>
BY DEF EncodeServerBatch

(* The fiber takes the rest: the batch is all that was queued, or a defect. *)
LEMMA TakeRestKeeps ==
  ASSUME Before, InProcess, NEW d \in Client, TakeRest(d), NEW c \in Client
  PROVE  Held(c)
<1>1. CASE c # d
  <2>1. Alike(c)
    BY <1>1, Maps, InProcessApart DEF TakeRest, Alike, Fades, Recorded
  <2> QED BY <2>1, AlikeKept
<1>2. CASE c = d
  <2>1. Placed(c) /\ Shape /\ mode' = mode /\ mode = "in-process"
    BY InProcessApart DEF Before, TransportInv
  <2>2. /\ c \in clientIds
        /\ writing'[c] = EncodeServerBatch(writing[c] \o queue[c]) /\ queue'[c] = <<>> /\ flush'[c] = {"flushing"}
        /\ gauge'[c] = 0
        /\ UNCHANGED <<nextClientId, socket, peer, calls, sent, received, clientIds>>
    BY <1>2, Maps DEF TakeRest, Recorded
  <2>3. Alive(c) /\ gauge[c] # Absent
    BY <2>1, <2>2 DEF Placed
  <2>4. received[c] \in Items /\ writing[c] \in Items /\ queue[c] \in Responses /\ queue[c] \in Items
        /\ BatchesFor(toWorker, c) \in Items /\ pendingSends.entries[c] \in Items
    BY <2>1, WayTyped, ItemFacts
  <2>5. Placed(c)'
    BY <2>1, <2>2, <2>3 DEF Placed, Alive, Absent
  <2>6. writing[c] \o queue[c] \in Items
    BY <2>4, ItemsJoin
  <2>7. CASE writing'[c] = writing[c] \o queue[c]
    <3>1. Whole(c)' = Whole(c)
      <4> DEFINE g == received[c]  w == writing[c]  q == queue[c]  b == BatchesFor(toWorker, c)  p == pendingSends.entries[c]
      <4>1. Whole(c) = Joined(g, w, q, b, p) /\ Whole(c)' = Joined(g, w \o q, <<>>, b, p)
        BY <2>2, <2>7, InProcessApart DEF Whole
      <4>2. g \in Items /\ w \in Items /\ q \in Items /\ b \in Items /\ p \in Items
        BY <2>4
      <4> HIDE DEF g, w, q, b, p
      <4> QED BY <4>1, <4>2, QueueJoined
    <3>2. Clean(received'[c], writing'[c]) => Clean(received[c], writing[c])
      BY <2>2, <2>4, <2>7, CleanFacts
    <3>3. Moved(c)
      BY <2>2, <2>3, <3>1, <3>2 DEF Moved, Alive
    <3> QED BY <2>2, <2>5, <3>3, MovedKept, InProcessApart
  <2>8. CASE writing'[c] = <<Defect>>
    <3>1. ~ Clean(received'[c], writing'[c])
      BY <2>2, <2>4, <2>8, CleanFacts
    <3>2. Lost(c)
      BY <2>2, <2>3, <2>8, <3>1, InProcessApart DEF Lost, Alive
    <3> QED BY <2>2, <2>5, <3>2, LostKept, InProcessApart
  <2> QED BY <2>2, <2>6, <2>7, <2>8, Encoded
<1> QED BY <1>1, <1>2

(* A write is done, or fails with its socket.                               *)
LEMMA WrittenKeeps ==
  ASSUME Before, InProcess, NEW d \in Client, Written(d), NEW c \in Client
  PROVE  Held(c)
<1>1. CASE c # d
  <2>1. Alike(c)
    <3>1. /\ received'[c] = received[c] /\ writing'[c] = writing[c] /\ flush'[c] = flush[c] /\ gauge'[c] = gauge[c]
      BY <1>1, Maps DEF Written, Recorded
    <3> QED BY <3>1, InProcessApart DEF Written, Alike, Fades
  <2> QED BY <2>1, AlikeKept
<1>2. CASE c = d
  <2>1. Placed(c) /\ Shape /\ mode' = mode /\ mode = "in-process"
    BY InProcessApart DEF Before, TransportInv
  <2>2. /\ c \in clientIds /\ writing'[c] = <<>>
        /\ UNCHANGED <<nextClientId, socket, peer, calls, sent, queue, clientIds>>
    BY <1>2, Maps DEF Written
  <2>3. Alive(c) /\ gauge[c] # Absent
    BY <2>1, <2>2 DEF Placed
  <2>4. received[c] \in Items /\ writing[c] \in Items /\ queue[c] \in Items
        /\ BatchesFor(toWorker, c) \in Items /\ pendingSends.entries[c] \in Items
    BY <2>1, WayTyped, ItemFacts
  <2>5. CASE socket[c] = "open" /\ received'[c] = received[c] \o writing[c] /\ gauge'[c] = 0
    <3>1. Whole(c)' = Whole(c)
      <4> DEFINE g == received[c]  w == writing[c]  q == queue[c]  b == BatchesFor(toWorker, c)  p == pendingSends.entries[c]
      <4>1. Whole(c) = Joined(g, w, q, b, p) /\ Whole(c)' = Joined(g \o w, <<>>, q, b, p)
        BY <2>2, <2>5, InProcessApart DEF Whole
      <4>2. g \in Items /\ w \in Items /\ q \in Items /\ b \in Items /\ p \in Items
        BY <2>4
      <4> HIDE DEF g, w, q, b, p
      <4> QED BY <4>1, <4>2, BatchWritten
    <3>2. Clean(received'[c], writing'[c]) => Clean(received[c], writing[c])
      BY <2>2, <2>4, <2>5, CleanFacts
    <3>3. Moved(c)
      BY <2>2, <2>3, <2>5, <3>1, <3>2 DEF Moved, Alive
    <3>4. Placed(c)'
      BY <2>1, <2>2, <2>3, <2>5 DEF Placed, Alive, Absent
    <3> QED BY <2>2, <3>3, <3>4, MovedKept, InProcessApart
  <2>6. CASE socket[c] = "closing" /\ received'[c] = received[c] /\ gauge'[c] = gauge[c] /\ flush'[c] = {"dead"}
    <3>1. Placed(c)'
      BY <2>1, <2>2, <2>3, <2>6 DEF Placed, Alive
    <3>2. Lost(c)
      BY <2>2, <2>6, InProcessApart DEF Lost
    <3> QED BY <2>2, <3>1, <3>2, LostKept, InProcessApart
  <2> QED BY <1>2, <2>5, <2>6, Maps DEF Written, Recorded
<1> QED BY <1>1, <1>2

(* A socket closes or is over: what was on its way is lost with it.         *)
LEMMA SocketOverKeeps ==
  ASSUME Before, InProcess, NEW d \in Client, SocketOver(d) \/ Closes(d), NEW c \in Client
  PROVE  Held(c)
<1>1. CASE c # d
  <2>1. Alike(c)
    <3>1. CASE SocketOver(d)
      BY <1>1, <3>1, Maps, InProcessApart DEF SocketOver, Alike, Fades, Recorded
    <3>2. CASE Closes(d)
      BY <1>1, <3>2, Maps, InProcessApart DEF Closes, ClientCloses, Alike, Fades
    <3> QED BY <3>1, <3>2
  <2> QED BY <2>1, AlikeKept
<1>2. CASE c = d /\ SocketOver(d)
  <2>1. Placed(c) /\ mode' = mode /\ mode = "in-process"
    BY InProcessApart DEF Before, TransportInv
  <2>2. /\ socket[c] = "closing" /\ socket'[c] = "closed" /\ c \notin clientIds' /\ gauge'[c] = Absent
        /\ flush'[c] = {"dead"} /\ queue'[c] = <<>> /\ writing'[c] = <<>>
        /\ UNCHANGED <<nextClientId, peer, calls, sent, received>>
    BY <1>2, Maps DEF SocketOver, Recorded
  <2>3. Lost(c)
    BY <2>2, InProcessApart DEF Lost
  <2>4. Placed(c)'
    BY <2>1, <2>2 DEF Placed, Alive
  <2> QED BY <2>2, <2>3, <2>4, LostKept, InProcessApart
<1>3. CASE c = d /\ Closes(d)
  <2>1. Placed(c) /\ mode' = mode /\ mode = "in-process"
    BY InProcessApart DEF Before, TransportInv
  <2>2. /\ socket[c] = "open" /\ socket'[c] = "closing"
        /\ UNCHANGED <<nextClientId, peer, calls, sent, received, queue, writing, flush, gauge, clientIds>>
    BY <1>3, Maps DEF Closes, ClientCloses
  <2>3. Lost(c)
    BY <2>2, InProcessApart DEF Lost
  <2>4. Placed(c)'
    BY <2>1, <2>2 DEF Placed, Alive
  <2> QED BY <2>2, <2>3, <2>4, LostKept, InProcessApart
<1> QED BY <1>1, <1>2, <1>3

(* Only a connected client's call has something to send.                    *)
LEMMA CallerConnected ==
  ASSUME Before, NEW c \in Client, NEW r \in AllCalls, calls[c][r] # "none"
  PROVE  socket[c] # "none"
<1>1. Placed(c) /\ Balanced(c, r)
  BY DEF Before, TransportInv
<1>2. ~ peer[c][r].asked => calls[c][r] = "none"
  BY <1>1 DEF Balanced, Account
<1> QED BY <1>1, <1>2 DEF Placed

(* A response is sent to a client.                                          *)
LEMMA SendingKept ==
  ASSUME Before, NEW c \in Client, NEW r \in AllCalls, NEW x \in Response, Responds(c, r, x),
         \A q \in AllCalls : Sending(c, q, x), Placed(c)'
  PROVE  Held(c)
<1>1. Shape /\ Shape' /\ scenario' = scenario /\ Ordered(c)
  BY DEF Before, TransportInv
<1>2. Sending(c, r, x)
  OBVIOUS
<1>3. Ordered(c)'
  BY <1>1, <1>2, SendingOrdered
<1>4. ASSUME NEW q \in AllCalls PROVE Balanced(c, q)'
  <2>1. Reckonable(c, q) /\ Reckonable(c, q)' /\ Balanced(c, q)
    BY <1>1, Counted, CountedNext DEF Before, TransportInv
  <2> QED BY <1>1, <2>1, SendingBalanced
<1> QED BY <1>3, <1>4 DEF Held

(* In process it goes to the queue of a client that is registered.          *)
LEMMA SendKeeps ==
  ASSUME Before, InProcess, NEW d \in Client, NEW r \in Calls(d), Send(d, r), NEW c \in Client
  PROVE  Held(c)
<1>1. PICK x \in Response :
        /\ Responds(d, r, x)
        /\ sent' = [sent EXCEPT ![d] = Append(sent[d], x)]
        /\ IF d \in clientIds
           THEN /\ queue' = [queue EXCEPT ![d] = Append(queue[d], x)]
                /\ gauge' = [gauge EXCEPT ![d] = Len(queue[d]) + 1]
           ELSE UNCHANGED <<queue, gauge>>
  BY DEF Send, Offer, Recorded
<1>2. UNCHANGED <<nextClientId, socket, peer, received, writing, flush, clientIds, disconnects>>
  BY DEF Send
<1>3. r \in AllCalls /\ Shape /\ Placed(c) /\ mode' = mode /\ mode = "in-process" /\ ClientsShape
  BY DemandFacts, InProcessApart DEF Before, TransportInv, Shape, ClientsShape
<1>4. CASE c # d
  <2>1. \A q \in AllCalls : Fades(c, q)
    BY <1>1, <1>3, <1>4, RespondsFacts DEF Fades
  <2>2. sent'[c] = sent[c] /\ queue'[c] = queue[c] /\ gauge'[c] = gauge[c]
    BY <1>1, <1>4, Maps
  <2>3. Alike(c)
    BY <1>2, <2>1, <2>2, InProcessApart DEF Alike
  <2> QED BY <2>3, AlikeKept
<1>5. CASE c = d
  <2>1. calls[c][r] # "none"
    BY <1>1, <1>3, <1>5, RespondsFacts
  <2>2. socket[c] # "none" /\ sent'[c] = Append(sent[c], x)
    BY <1>1, <1>3, <1>5, <2>1, CallerConnected, Maps
  <2>3. Whole(c)' = Append(Whole(c), x) \/ (Whole(c)' = Whole(c) /\ socket[c] # "open")
    <3>1. CASE c \in clientIds
      <4>1. queue'[c] = Append(queue[c], x)
        BY <1>1, <1>5, <3>1, Maps
      <4> DEFINE g == received[c]  w == writing[c]  q == queue[c]
      <4>2. Whole(c) = Joined(g, w, q, <<>>, <<>>) /\ Whole(c)' = Joined(g, w, Append(q, x), <<>>, <<>>)
        BY <1>2, <4>1, InProcessApart DEF Whole
      <4>3. g \in Items /\ w \in Items /\ q \in Items /\ x \in Item
        BY <1>3, WayTyped, ItemFacts DEF Item
      <4> HIDE DEF g, w, q
      <4>4. Joined(g, w, Append(q, x), <<>>, <<>>) = Append(Joined(g, w, q, <<>>, <<>>), x)
        BY <4>3, ResponseQueued, Zenon
      <4>5. Whole(c)' = Append(Whole(c), x)
        BY <4>2, <4>4, Zenon
      <4> QED BY <4>5
    <3>2. CASE c \notin clientIds
      <4>1. queue'[c] = queue[c] /\ socket[c] # "open"
        BY <1>1, <1>3, <1>5, <3>2 DEF Placed, Alive
      <4> QED BY <1>2, <4>1, InProcessApart DEF Whole
    <3> QED BY <3>1, <3>2
  <2>4. \A q \in AllCalls : Sending(c, q, x)
    BY <1>2, <2>2, <2>3, InProcessApart DEF Sending
  <2>5. (gauge'[c] # Absent) = (gauge[c] # Absent)
    <3>1. CASE c \in clientIds
      <4>1. gauge'[c] = Len(queue[c]) + 1 /\ Len(queue[c]) \in Nat
        BY <1>1, <1>5, <3>1, Maps, ItemFacts
      <4>2. gauge[c] # Absent
        BY <1>3, <3>1 DEF Placed
      <4> QED BY <4>1, <4>2 DEF Absent
    <3>2. CASE c \notin clientIds
      BY <1>1, <1>5, <3>2
    <3> QED BY <3>1, <3>2
  <2>6. Placed(c)'
    BY <1>2, <1>3, <2>2, <2>5 DEF Placed, Alive
  <2> QED BY <1>1, <1>3, <1>5, <2>4, <2>6, SendingKept
<1> QED BY <1>4, <1>5

(* What an in-process step keeps.                                           *)
LEMMA InProcessKeeps ==
  ASSUME Before, InProcess
  PROVE  ThreadIdle' /\ Unserved' /\ \A c \in Client : Held(c)
<1>1. ThreadIdle' /\ Unserved'
  <2>1. UNCHANGED threadVars /\ mode = "in-process" /\ mode' = mode
    BY DEF InProcess, Before
  <2>2. toWorker' = toWorker /\ toParent' = toParent /\ pendingSends' = pendingSends
    BY <2>1 DEF threadVars
  <2>3. NoEntries' = NoEntries
    BY DEF NoEntries
  <2> QED BY <2>1, <2>2, <2>3 DEF Before, TransportInv, ThreadIdle, Unserved
<1>2. ASSUME NEW c \in Client PROVE Held(c)
  <2>1. \/ OnSocket \/ TakeDisconnect
        \/ \E d \in Client :
             \/ HandleSocketData(d) \/ TakeFirst(d) \/ TakeRest(d) \/ Written(d) \/ SocketOver(d) \/ Closes(d)
             \/ \E r \in Calls(d) : Send(d, r)
    BY DEF InProcess
  <2>2. UNCHANGED threadVars
    BY DEF InProcess
  <2>3. CASE OnSocket
    BY <2>3, OnSocketKeeps
  <2>4. CASE TakeDisconnect
    BY <2>2, <2>4, TakeDisconnectKeeps
  <2>5. ASSUME NEW d \in Client, HandleSocketData(d) PROVE Held(c)
    BY <2>5, HandleSocketDataKeeps
  <2>6. ASSUME NEW d \in Client, TakeFirst(d) PROVE Held(c)
    BY <2>6, TakeFirstKeeps
  <2>7. ASSUME NEW d \in Client, TakeRest(d) PROVE Held(c)
    BY <2>7, TakeRestKeeps
  <2>8. ASSUME NEW d \in Client, Written(d) PROVE Held(c)
    BY <2>8, WrittenKeeps
  <2>9. ASSUME NEW d \in Client, SocketOver(d) \/ Closes(d) PROVE Held(c)
    BY <2>9, SocketOverKeeps
  <2>10. ASSUME NEW d \in Client, NEW r \in Calls(d), Send(d, r) PROVE Held(c)
    BY <2>10, SendKeeps
  <2> HIDE DEF Held
  <2> QED BY <2>1, <2>3, <2>4, <2>5, <2>6, <2>7, <2>8, <2>9, <2>10
<1> QED BY <1>1, <1>2

-----------------------------------------------------------------------------
(* The isolated transport, first the ports.                                 *)

(* What a client said, as it is posted to the parent.                       *)
ClientSaid(c, kind, r) == [type |-> "clientMessage", client |-> c, message |-> Sends(kind, r)]

(* A message is posted to the parent: it is one more of a client's call, or *)
(* none.                                                                    *)
LEMMA ParentPosted ==
  ASSUME NEW M, toParent \in Seq(M), NEW m \in M, PostToParent(<<m>>), NEW kind, NEW c, NEW r
  PROVE  /\ m = ClientSaid(c, kind, r) => Coming(kind, c, r)' = Coming(kind, c, r) + 1
         /\ m # ClientSaid(c, kind, r) => Coming(kind, c, r)' = Coming(kind, c, r)
<1>1. toParent' = Append(toParent, m)
  BY PostedToParent
<1>2. ClientSaid(c, kind, r)' = ClientSaid(c, kind, r)
  BY DEF ClientSaid, Sends
<1> DEFINE S == {ClientSaid(c, kind, r)}
<1>3. Coming(kind, c, r) = Tally(toParent, S) /\ Coming(kind, c, r)' = Tally(Append(toParent, m), S)
  BY <1>1, <1>2 DEF Coming, ClientSaid
<1>4. m \in S <=> m = ClientSaid(c, kind, r)
  OBVIOUS
<1> HIDE DEF S
<1>5. Tally(Append(toParent, m), S) = Tally(toParent, S) + (IF m \in S THEN 1 ELSE 0)
  BY TallyAppended
<1>6. Tally(toParent, S) \in Nat
  BY PlacesFinite
<1> QED BY <1>3, <1>4, <1>5, <1>6
(* What is posted of another type is counted for nobody.                    *)
LEMMA OtherPosted ==
  ASSUME NEW M, toParent \in Seq(M), NEW m \in M, PostToParent(<<m>>), m.type # "clientMessage", NEW c
  PROVE  \A r \in AllCalls : /\ Coming("Ack", c, r)' = Coming("Ack", c, r)
                             /\ Coming("Request", c, r)' = Coming("Request", c, r)
<1> SUFFICES ASSUME NEW r \in AllCalls, NEW kind
             PROVE  Coming(kind, c, r)' = Coming(kind, c, r)
  OBVIOUS
<1>1. m # ClientSaid(c, kind, r)
  BY DEF ClientSaid
<1> QED BY <1>1, ParentPosted
(* The parent takes a message.                                              *)
LEMMA ParentTaken ==
  ASSUME NEW M, toParent \in Seq(M), toParent # <<>>, toParent' = Tail(toParent), NEW kind, NEW c, NEW r
  PROVE  /\ Head(toParent) = ClientSaid(c, kind, r) => Coming(kind, c, r) = Coming(kind, c, r)' + 1
         /\ Head(toParent) # ClientSaid(c, kind, r) => Coming(kind, c, r)' = Coming(kind, c, r)
<1>2. ClientSaid(c, kind, r)' = ClientSaid(c, kind, r)
  BY DEF ClientSaid, Sends
<1> DEFINE S == {ClientSaid(c, kind, r)}  m == Head(toParent)  rest == Tail(toParent)
<1>3. Coming(kind, c, r) = Tally(toParent, S) /\ Coming(kind, c, r)' = Tally(rest, S)
  BY <1>2 DEF Coming, ClientSaid
<1>4. m \in S <=> m = ClientSaid(c, kind, r)
  OBVIOUS
<1>6. rest \in Seq(M)
  BY HeadAndTail
<1>5. Tally(toParent, S) = (IF m \in S THEN 1 ELSE 0) + Tally(rest, S)
  BY TallyTaken
<1> HIDE DEF S, rest
<1>7. Tally(rest, S) \in Nat
  BY <1>6, PlacesFinite
<1> QED BY <1>3, <1>4, <1>5, <1>7 DEF m

(* A message is posted to the worker: it comes after those before it, or it *)
(* is lost with a thread that is not up.                                    *)
LEMMA WorkerPosted ==
  ASSUME Shape, Shape', scenario' = scenario, requestId <= requestId', NEW c \in Client,
         NEW m \in ServerMessage', PostToWorker(m)
  PROVE  \/ BatchesFor(toWorker', c) = BatchesFor(toWorker, c) \o EntriesFor(m, c) /\ thread = "up"
         \/ BatchesFor(toWorker', c) = BatchesFor(toWorker, c) /\ thread # "up"
<1> DEFINE M == ServerMessage'
<1>1. Addressed(M, Response, c)
  BY WayTypedNext
<1>2. toWorker \in Seq(M)
  <2>1. requestId \in Nat /\ requestId' \in Nat /\ toWorker \in Seq(ServerMessage)
    BY DEF Shape, ThreadTypeOK
  <2> QED BY <2>1, PortsGrow
<1>3. m \in M
  OBVIOUS
<1> HIDE DEF M
<1>4. BatchesFor(Append(toWorker, m), c) = BatchesFor(toWorker, c) \o EntriesFor(m, c)
  BY <1>1, <1>2, <1>3, BatchesAppended
<1>5. CASE thread = "up"
  BY <1>4, <1>5 DEF PostToWorker
<1>6. CASE thread # "up"
  BY <1>6 DEF PostToWorker
<1> QED BY <1>5, <1>6
(* What is posted of another type brings no responses.                      *)
LEMMA OtherWorkerPosted ==
  ASSUME Shape, Shape', scenario' = scenario, requestId <= requestId', NEW c \in Client,
         NEW m \in ServerMessage', PostToWorker(m), m.type # "serverBatch"
  PROVE  BatchesFor(toWorker', c) = BatchesFor(toWorker, c)
<1>1. EntriesFor(m, c) = <<>>
  BY DEF EntriesFor
<1>2. BatchesFor(toWorker, c) \in Items
  BY WayTyped, ItemFacts
<1> DEFINE b == BatchesFor(toWorker, c)
<1>3. b \o <<>> = b
  BY <1>2, ItemsJoin
<1>4. BatchesFor(toWorker', c) = b \o <<>> \/ BatchesFor(toWorker', c) = b
  BY <1>1, WorkerPosted
<1> QED BY <1>3, <1>4

(* A step that no client takes part in.                                     *)
LEMMA ApartKept ==
  ASSUME Before, NEW c \in Client, UNCHANGED clientVars, thread = "up" => thread' = "up",
         BatchesFor(toWorker', c) = BatchesFor(toWorker, c),
         pendingSends'.entries[c] = pendingSends.entries[c],
         \A r \in AllCalls : /\ Coming("Ack", c, r)' = Coming("Ack", c, r)
                             /\ Coming("Request", c, r)' = Coming("Request", c, r)
  PROVE  Held(c)
<1>1. UNCHANGED <<nextClientId, socket, peer, calls, sent, received, queue, writing, flush, gauge, clientIds>>
  BY DEF clientVars
<1>2. Alike(c)
  BY <1>1 DEF Alike, Fades
<1> QED BY <1>2, AlikeKept

(* The thread acknowledges a shutdown.                                      *)
LEMMA ServerClosedKeeps ==
  ASSUME Before, ServerClosed, NEW c \in Client
  PROVE  Held(c)
<1> DEFINE id == CHOOSE i \in ackDue : TRUE
<1>1. UNCHANGED <<clientVars, thread, toWorker, pendingSends>> /\ ackDue # {}
      /\ PostToParent(<<[type |-> "shutdownAck", id |-> id]>>)
  BY DEF ServerClosed
<1>2. id \in 1 .. requestId /\ toParent \in Seq(WorkerMessage)
  BY <1>1 DEF Before, TransportInv, Shape, ThreadTypeOK
<1> HIDE DEF id
<1> DEFINE m == [type |-> "shutdownAck", id |-> id]
<1>3. m \in WorkerMessage /\ m.type # "clientMessage"
  BY <1>2, PostFacts
<1>4. PostToParent(<<m>>)
  BY <1>1
<1> HIDE DEF m
<1>5. \A r \in AllCalls : /\ Coming("Ack", c, r)' = Coming("Ack", c, r)
                          /\ Coming("Request", c, r)' = Coming("Request", c, r)
  BY <1>2, <1>3, <1>4, OtherPosted
<1> QED BY <1>1, <1>5, ApartKept

(* The bridge starts to serve, learns of the exit, or waits no longer.      *)
LEMMA QuietlyKept ==
  ASSUME Before, NEW c \in Client,
         Run \/ ThreadExits \/ ShutdownTimeout \/ \E id \in pendingMetrics : MetricsTimeout(id)
  PROVE  Held(c)
<1>1. UNCHANGED <<clientVars, toWorker, toParent, pendingSends>> /\ (thread = "up" => thread' = "up")
  BY DEF Run, ThreadExits, ShutdownTimeout, MetricsTimeout
<1>2. \A r \in AllCalls : /\ Coming("Ack", c, r)' = Coming("Ack", c, r)
                          /\ Coming("Request", c, r)' = Coming("Request", c, r)
  BY <1>1 DEF Coming
<1> QED BY <1>1, <1>2, ApartKept

(* Metrics are asked for.                                                   *)
LEMMA RequestMetricsKeeps ==
  ASSUME Before, RequestMetrics, NEW c \in Client
  PROVE  Held(c)
<1>1. UNCHANGED <<clientVars, thread, toParent, pendingSends>> /\ requestId' = requestId + 1
      /\ PostToWorker([type |-> "metrics", id |-> requestId + 1])
  BY DEF RequestMetrics
<1>2. Shape /\ Shape' /\ scenario' = scenario /\ requestId \in Nat
  BY DEF Before, TransportInv, Shape, ThreadTypeOK
<1> DEFINE m == [type |-> "metrics", id |-> requestId + 1]
<1>3. m \in ServerMessage' /\ m.type # "serverBatch"
  BY <1>1, <1>2 DEF ServerMessage
<1>4. PostToWorker(m) /\ requestId <= requestId'
  BY <1>1, <1>2
<1> HIDE DEF m
<1>5. BatchesFor(toWorker', c) = BatchesFor(toWorker, c)
  BY <1>2, <1>3, <1>4, OtherWorkerPosted
<1>6. \A r \in AllCalls : /\ Coming("Ack", c, r)' = Coming("Ack", c, r)
                          /\ Coming("Request", c, r)' = Coming("Request", c, r)
  BY <1>1 DEF Coming
<1> QED BY <1>1, <1>5, <1>6, ApartKept

(* The shutdown begins: every call is over.                                 *)
LEMMA RequestShutdownKeeps ==
  ASSUME Before, RequestShutdown, NEW c \in Client
  PROVE  Held(c)
<1>1. /\ UNCHANGED <<nextClientId, socket, peer, sent, received, queue, writing, flush, gauge, clientIds>>
      /\ UNCHANGED <<thread, toParent, pendingSends>>
      /\ requestId' = requestId + 1 /\ PostToWorker([type |-> "shutdown", id |-> requestId + 1])
      /\ calls' = [d \in Client |-> [r \in AllCalls |-> IF calls[d][r] = "none" THEN "none" ELSE "over"]]
  BY DEF RequestShutdown
<1>2. Shape /\ Shape' /\ scenario' = scenario /\ requestId \in Nat
  BY DEF Before, TransportInv, Shape, ThreadTypeOK
<1> DEFINE m == [type |-> "shutdown", id |-> requestId + 1]
<1>3. m \in ServerMessage' /\ m.type # "serverBatch"
  BY <1>1, <1>2 DEF ServerMessage
<1>4. PostToWorker(m) /\ requestId <= requestId'
  BY <1>1, <1>2
<1> HIDE DEF m
<1>5. BatchesFor(toWorker', c) = BatchesFor(toWorker, c)
  BY <1>2, <1>3, <1>4, OtherWorkerPosted
<1>6. \A r \in AllCalls : /\ Coming("Ack", c, r)' = Coming("Ack", c, r)
                          /\ Coming("Request", c, r)' = Coming("Request", c, r)
  BY <1>1 DEF Coming
<1>7. \A r \in AllCalls : Fades(c, r)
  BY <1>1 DEF Fades
<1>8. Alike(c)
  BY <1>1, <1>5, <1>6, <1>7 DEF Alike
<1> QED BY <1>8, AlikeKept

(* What the turn collected is posted as one batch, or is lost with a thread *)
(* that is not up.                                                          *)
LEMMA FlushServerMessagesKeeps ==
  ASSUME Before, FlushServerMessages, NEW c \in Client
  PROVE  Held(c)
<1> DEFINE m == [type |-> "serverBatch", entries |-> pendingSends.entries]
           g == received[c]  w == writing[c]  q == queue[c]  b == BatchesFor(toWorker, c)  p == pendingSends.entries[c]
<1>1. /\ UNCHANGED <<clientVars, thread, toParent, requestId>> /\ pendingSends'.entries = NoEntries
      /\ PostToWorker(m)
  BY DEF FlushServerMessages
<1>2. Shape /\ Shape' /\ scenario' = scenario /\ requestId \in Nat /\ pendingSends.entries \in Batch
      /\ Placed(c) /\ Ordered(c) /\ mode' = mode
  BY DEF Before, TransportInv, Shape, ThreadTypeOK
<1>3. UNCHANGED <<nextClientId, mode, socket, peer, calls, sent, received, queue, writing, flush, gauge, clientIds>>
  BY <1>1 DEF clientVars
<1>4. m \in ServerMessage' /\ EntriesFor(m, c) = p
  <2>1. Batch' = Batch
    BY <1>2, SameItems DEF Batch
  <2> QED BY <1>2, <2>1 DEF ServerMessage, EntriesFor
<1>5. pendingSends'.entries[c] = <<>>
  BY <1>1 DEF NoEntries
<1>6. /\ g \in Items /\ w \in Items /\ q \in Items /\ b \in Items /\ p \in Items
  BY <1>2, WayTyped, ItemFacts
<1>7. \A r \in AllCalls : /\ Coming("Ack", c, r)' = Coming("Ack", c, r)
                          /\ Coming("Request", c, r)' = Coming("Request", c, r)
  BY <1>1 DEF Coming
<1>8. \/ BatchesFor(toWorker', c) = b \o p /\ thread = "up"
      \/ BatchesFor(toWorker', c) = b /\ thread # "up"
  <2>1. requestId <= requestId'
    BY <1>1, <1>2
  <2> HIDE DEF m
  <2>2. \/ BatchesFor(toWorker', c) = BatchesFor(toWorker, c) \o EntriesFor(m, c) /\ thread = "up"
        \/ BatchesFor(toWorker', c) = BatchesFor(toWorker, c) /\ thread # "up"
    BY <1>1, <1>2, <1>4, <2>1, WorkerPosted
  <2> QED BY <1>4, <2>2
<1>9. Placed(c)'
  BY <1>1, <1>2, <1>3 DEF Placed, Alive
<1>10. CASE p = <<>>
  <2>1. b \o <<>> = b
    BY <1>6, ItemsJoin
  <2>2. BatchesFor(toWorker', c) = b
    BY <1>8, <1>10, <2>1
  <2> QED BY <1>1, <1>5, <1>7, <1>10, <2>2, ApartKept
<1>11. CASE p # <<>>
  <2>1. socket[c] # "none"
    BY <1>2, <1>11, NothingForNobody
  <2>2. CASE BatchesFor(toWorker', c) = b \o p
    <3>1. Whole(c)' = Joined(g, w, q, b \o p, <<>>) /\ Whole(c) = Joined(g, w, q, b, p)
      BY <1>3, <1>5, <2>2 DEF Whole
    <3>2. Whole(c)' = Whole(c)
      <4> HIDE DEF g, w, q, b, p
      <4>1. Joined(g, w, q, b \o p, <<>>) = Joined(g, w, q, b, p)
        BY <1>6, BatchPosted
      <4> QED BY <3>1, <4>1
    <3>3. Moved(c)
      BY <1>3, <2>1, <3>2 DEF Moved
    <3> QED BY <1>3, <1>7, <1>9, <3>3, MovedKept
  <2>3. CASE BatchesFor(toWorker', c) = b /\ thread # "up"
    <3>1. CASE mode = "isolated"
      <4>1. socket'[c] \notin {"none", "open"}
        BY <1>2, <1>3, <2>1, <2>3, <3>1 DEF Placed, Alive
      <4>2. Lost(c)
        BY <1>3, <1>5, <2>3, <4>1 DEF Lost
      <4> QED BY <1>3, <1>7, <1>9, <4>2, LostKept
    <3>2. CASE mode = "in-process"
      BY <1>11, <3>2 DEF Before, TransportInv, ThreadIdle, NoEntries
    <3> QED BY <1>2, <3>1, <3>2 DEF Shape, ClientsShape
  <2> QED BY <1>8, <2>2, <2>3
<1> QED BY <1>10, <1>11

(* A response waits for the parent's next turn.                             *)
LEMMA SendIsolatedKeeps ==
  ASSUME Before, mode = "isolated", NEW d \in Client, NEW r \in Calls(d), SendIsolated(d, r), NEW c \in Client
  PROVE  Held(c)
<1>1. PICK x \in Response :
        /\ Responds(d, r, x)
        /\ sent' = [sent EXCEPT ![d] = Append(sent[d], x)]
        /\ pendingSends' = [entries |-> [pendingSends.entries EXCEPT ![d] = Append(pendingSends.entries[d], x)],
                            scheduled |-> TRUE]
  BY DEF SendIsolated
<1>2. UNCHANGED <<nextClientId, socket, peer, received, queue, writing, flush, gauge, clientIds, thread, toWorker, toParent>>
  BY DEF SendIsolated
<1>3. r \in AllCalls /\ Shape /\ Placed(c) /\ mode' = mode /\ ClientsShape /\ pendingSends.entries \in Batch
  BY DemandFacts DEF Before, TransportInv, Shape, ClientsShape, ThreadTypeOK
<1>4. \A q \in AllCalls : /\ Coming("Ack", c, q)' = Coming("Ack", c, q)
                          /\ Coming("Request", c, q)' = Coming("Request", c, q)
  BY <1>2 DEF Coming
<1>5. pendingSends'.entries = [pendingSends.entries EXCEPT ![d] = Append(pendingSends.entries[d], x)]
  BY <1>1
<1>6. Placed(c)' <=> (socket[c] = "none" => sent'[c] = <<>>)
  BY <1>2, <1>3 DEF Placed, Alive
<1>7. CASE c # d
  <2>1. \A q \in AllCalls : Fades(c, q)
    BY <1>1, <1>3, <1>7, RespondsFacts DEF Fades
  <2>2. sent'[c] = sent[c] /\ pendingSends'.entries[c] = pendingSends.entries[c]
    BY <1>1, <1>3, <1>5, <1>7, Maps DEF Batch
  <2>3. Alike(c)
    BY <1>2, <1>4, <2>1, <2>2 DEF Alike
  <2> QED BY <2>3, AlikeKept
<1>8. CASE c = d
  <2>1. calls[c][r] # "none"
    BY <1>1, <1>3, <1>8, RespondsFacts
  <2>2. socket[c] # "none" /\ sent'[c] = Append(sent[c], x)
    BY <1>1, <1>3, <1>8, <2>1, CallerConnected, Maps
  <2>3. Whole(c)' = Append(Whole(c), x)
    <3>1. pendingSends'.entries[c] = Append(pendingSends.entries[c], x)
      BY <1>3, <1>5, <1>8 DEF Batch
    <3> DEFINE g == received[c]  w == writing[c]  q == queue[c]  b == BatchesFor(toWorker, c)  p == pendingSends.entries[c]
    <3>2. Whole(c) = Joined(g, w, q, b, p) /\ Whole(c)' = Joined(g, w, q, b, Append(p, x))
      BY <1>2, <3>1 DEF Whole
    <3>3. g \in Items /\ w \in Items /\ q \in Items /\ b \in Items /\ p \in Items /\ x \in Item
      BY <1>3, WayTyped, ItemFacts DEF Item
    <3> HIDE DEF g, w, q, b, p
    <3>4. PendingLast(g, w, q, b, p, x)
      BY <3>3, ResponsePending
    <3>5. Whole(c)' = Append(Whole(c), x)
      BY <3>2, <3>4, Zenon DEF PendingLast
    <3> QED BY <3>5
  <2>4. \A q \in AllCalls : Sending(c, q, x)
    BY <1>2, <1>4, <2>2, <2>3 DEF Sending
  <2>5. Placed(c)'
    BY <1>6, <2>2
  <2> QED BY <1>1, <1>3, <1>8, <2>4, <2>5, SendingKept
<1> QED BY <1>7, <1>8

(* The parent takes a message: a call starts, goes on or is given up if the *)
(* RPC server runs.                                                         *)
LEMMA ParentReceivesKeeps ==
  ASSUME Before, mode = "isolated", ParentReceives, NEW c \in Client
  PROVE  Held(c)
<1> DEFINE m == Head(toParent)
<1>1. /\ toParent # <<>> /\ toParent' = Tail(toParent)
      /\ \/ m.type = "clientConnected" /\ ClientConnected(m.client)
         \/ m.type = "clientDisconnected" /\ ClientDisconnected(m.client)
         \/ m.type = "clientMessage" /\ ClientMessage(m.client, m.message)
         \/ m.type = "metrics" /\ MetricsAnswered(m.id)
         \/ m.type = "shutdownAck" /\ ShutdownAcked(m.id)
  BY DEF ParentReceives
<1>2. UNCHANGED <<nextClientId, socket, peer, sent, received, queue, writing, flush, gauge, thread, toWorker, pendingSends>>
  BY DEF ParentReceives
<1>3. Shape /\ Shape' /\ scenario' = scenario /\ Placed(c) /\ Ordered(c) /\ mode' = mode /\ Unserved
      /\ toParent \in Seq(WorkerMessage) /\ calls \in [Client -> [AllCalls -> CallStates]]
  BY DEF Before, TransportInv, Shape, ThreadTypeOK, ClientsShape
<1>4. m \in WorkerMessage
  BY <1>1, <1>3, HeadAndTail
<1>5. \A r \in AllCalls : \A kind \in {"Request", "Ack"} :
        /\ m = ClientSaid(c, kind, r) => Coming(kind, c, r) = Coming(kind, c, r)' + 1
        /\ m # ClientSaid(c, kind, r) => Coming(kind, c, r)' = Coming(kind, c, r)
  BY <1>1, <1>3, ParentTaken
<1> HIDE DEF m
<1>6. CASE m.type # "clientMessage"
  <2>1. calls' = calls
    BY <1>1, <1>6 DEF ClientConnected, ClientDisconnected, MetricsAnswered, ShutdownAcked
  <2>2. \A r \in AllCalls : \A kind \in {"Request", "Ack"} : m # ClientSaid(c, kind, r)
    BY <1>6 DEF ClientSaid
  <2>3. Alike(c)
    BY <1>2, <1>5, <2>1, <2>2 DEF Alike, Fades
  <2> QED BY <2>3, AlikeKept
<1>7. CASE m.type = "clientMessage"
  <2> DEFINE d == m.client  r == m.message.call  kind == m.message.kind
  <2>1. /\ d \in Client /\ r \in AllCalls /\ kind \in {"Request", "Ack", "Interrupt"}
        /\ m = ClientSaid(d, kind, r) /\ m.message = Sends(kind, r)
    <3>1. d \in Client /\ m.message \in Message
          /\ m = [type |-> "clientMessage", client |-> m.client, message |-> m.message]
      BY <1>4, <1>7, WorkerMessageFacts
    <3>2. kind \in {"Request", "Ack", "Interrupt"} /\ r \in AllCalls /\ m.message = Sends(kind, r)
      BY <3>1, MessageFacts
    <3> QED BY <3>1, <3>2 DEF ClientSaid
  <2>2. IF serving THEN WriteRequests(d, <<Sends(kind, r)>>) ELSE calls' = calls
    BY <1>1, <1>7, <2>1 DEF ClientMessage
  <2> HIDE DEF d, r, kind
  <2>3. /\ \A e \in Client, q \in AllCalls : e # d \/ q # r => calls'[e][q] = calls[e][q]
        /\ kind = "Request" => calls'[d][r] \in {"ready", calls[d][r]}
        /\ kind = "Ack" => \/ calls'[d][r] = IF calls[d][r] = "unacked" THEN "ready" ELSE calls[d][r]
                           \/ calls'[d][r] = calls[d][r] /\ calls[d][r] \in {"none", "over"}
        /\ kind = "Interrupt" => Fades(d, r)
    <3>1. CASE serving
      <4>1. /\ \A e \in Client, q \in AllCalls : e # d \/ q # r => calls'[e][q] = calls[e][q]
            /\ kind = "Request" => calls'[d][r] = "ready"
            /\ kind = "Ack" => calls'[d][r] = IF calls[d][r] = "unacked" THEN "ready" ELSE calls[d][r]
            /\ kind = "Interrupt" => calls'[d][r] = IF calls[d][r] \in {"ready", "unacked"} THEN "ending" ELSE calls[d][r]
        BY <1>3, <2>1, <2>2, <3>1, MessageTaken
      <4> QED BY <4>1 DEF Fades
    <3>2. CASE ~ serving
      BY <1>3, <2>1, <2>2, <3>2 DEF Unserved, Fades
    <3> QED BY <3>1, <3>2
  <2>4. \A q \in AllCalls : \A k \in {"Request", "Ack"} : m = ClientSaid(c, k, q) <=> (c = d /\ k = kind /\ q = r)
    BY <2>1 DEF ClientSaid, Sends
  <2>5. CASE c # d
    <3>1. \A q \in AllCalls : Fades(c, q)
      BY <2>3, <2>5 DEF Fades
    <3>2. Alike(c)
      BY <1>2, <1>5, <2>4, <2>5, <3>1 DEF Alike
    <3> QED BY <3>2, AlikeKept
  <2>6. CASE c = d
    <3>1. Steady(c)
      <4>1. Untouched(c)
        BY <1>2 DEF Untouched
      <4> QED BY <1>3, <4>1, UntouchedSteady
    <3>2. Placed(c)'
      BY <1>2, <1>3 DEF Placed, Alive
    <3>3. ASSUME NEW q \in AllCalls PROVE Balanced(c, q)'
      <4>1. Reckonable(c, q) /\ Reckonable(c, q)' /\ Balanced(c, q)
        BY <1>3, Counted, CountedNext DEF Before, TransportInv
      <4>2. CASE q # r \/ kind = "Interrupt"
        <5>1. Fades(c, q)
          BY <2>3, <2>6, <4>2 DEF Fades
        <5>2. Quiet(c, q)
          BY <1>2, <1>5, <2>4, <4>2, <5>1 DEF Quiet
        <5> QED BY <1>3, <3>1, <4>1, <5>2, QuietBalanced
      <4>3. CASE q = r /\ kind \in {"Request", "Ack"}
        <5>1. Takes(c, q, kind)
          BY <1>2, <1>5, <2>3, <2>4, <2>6, <4>3 DEF Takes
        <5> QED BY <1>3, <3>1, <4>1, <4>3, <5>1, TakenBalanced
      <4> QED BY <2>1, <4>2, <4>3
    <3> QED BY <1>3, <3>1, <3>2, <3>3, SteadyOrdered DEF Held
  <2> QED BY <2>5, <2>6
<1> QED BY <1>6, <1>7

(* The worker thread.  Its socket opens, closes or is refused.              *)
LEMMA UntouchedKept ==
  ASSUME Before, NEW c \in Client, Untouched(c), Placed(c)',
         \A r \in AllCalls : /\ calls'[c][r] = calls[c][r] /\ peer'[c][r] = peer[c][r]
                             /\ Coming("Ack", c, r)' = Coming("Ack", c, r)
                             /\ Coming("Request", c, r)' = Coming("Request", c, r)
  PROVE  Held(c)
<1>1. Steady(c)
  BY UntouchedSteady DEF Before, TransportInv
<1>2. \A r \in AllCalls : Quiet(c, r)
  BY DEF Quiet, Fades
<1> QED BY <1>1, <1>2, CalmKept

(* A client connects, or is refused.                                        *)
LEMMA ConnectionKeeps ==
  ASSUME Before, mode = "isolated", Connection, NEW c \in Client
  PROVE  Held(c)
<1> DEFINE d == nextClientId
           m == [type |-> "clientConnected", client |-> d]
<1>1. /\ thread = "up" /\ d \in Client /\ nextClientId' = d + 1
      /\ UNCHANGED <<peer, calls, sent, received, queue, writing, flush, clientIds, thread, toWorker, pendingSends>>
      /\ \/ /\ socket' = [socket EXCEPT ![d] = "refused"] /\ gauge' = gauge /\ toParent' = toParent
         \/ /\ socket' = [socket EXCEPT ![d] = "open"] /\ gauge' = [gauge EXCEPT ![d] = 0]
            /\ PostToParent(<<m>>)
  BY DEF Connection, Recorded
<1>2. Shape /\ Placed(c) /\ mode' = mode /\ nextClientId \in Int /\ c \in Int /\ toParent \in Seq(WorkerMessage)
  BY Maps DEF Before, TransportInv, Shape, ThreadTypeOK
<1>3. m \in WorkerMessage /\ m.type # "clientMessage"
  BY <1>1, PostFacts
<1> HIDE DEF m
<1>4. \A r \in AllCalls : /\ Coming("Ack", c, r)' = Coming("Ack", c, r)
                          /\ Coming("Request", c, r)' = Coming("Request", c, r)
  <2>1. CASE toParent' = toParent
    BY <2>1 DEF Coming
  <2>2. CASE PostToParent(<<m>>)
    BY <1>2, <1>3, <2>2, OtherPosted
  <2> QED BY <1>1, <2>1, <2>2
<1>5. CASE c # d
  <2>1. socket'[c] = socket[c] /\ gauge'[c] = gauge[c]
    BY <1>1, <1>5, Maps
  <2>2. Alike(c)
    BY <1>1, <1>4, <2>1 DEF Alike, Fades
  <2> QED BY <2>2, AlikeKept
<1>6. CASE c = d
  <2>1. socket[c] = "none" /\ gauge[c] = Absent
    BY <1>2, <1>6 DEF Placed, Alive
  <2>2. (socket'[c] = "refused" /\ gauge'[c] = Absent) \/ (socket'[c] = "open" /\ gauge'[c] = 0)
    BY <1>1, <1>6, <2>1, Maps
  <2>3. Untouched(c)
    BY <1>1, <2>1, <2>2 DEF Untouched
  <2>4. ~ (nextClientId' <= c)
    BY <1>1, <1>2, <1>6
  <2>5. Placed(c)'
    BY <1>1, <1>2, <2>1, <2>2, <2>4 DEF Placed, Alive, Absent
  <2> QED BY <1>1, <1>4, <2>3, <2>5, UntouchedKept
<1> QED BY <1>5, <1>6

(* A socket closes or is over.                                              *)
LEMMA DisconnectClientKeeps ==
  ASSUME Before, mode = "isolated", NEW d \in Client, DisconnectClient(d) \/ CloseSocket(d), NEW c \in Client
  PROVE  Held(c)
<1> DEFINE m == [type |-> "clientDisconnected", client |-> d]
<1>1. /\ UNCHANGED <<nextClientId, peer, calls, sent, received, queue, writing, flush, clientIds, thread, toWorker, pendingSends>>
      /\ \/ /\ socket[d] = "closing" /\ "flushing" \notin flush[d]
            /\ socket' = [socket EXCEPT ![d] = "closed"] /\ gauge' = [gauge EXCEPT ![d] = Absent]
            /\ PostToParent(<<m>>)
         \/ /\ socket[d] = "open" /\ socket' = [socket EXCEPT ![d] = "closing"] /\ gauge' = gauge
            /\ toParent' = toParent
  BY DEF DisconnectClient, CloseSocket, ClientCloses, Recorded, threadVars
<1>2. Shape /\ Placed(c) /\ mode' = mode /\ toParent \in Seq(WorkerMessage)
  BY DEF Before, TransportInv, Shape, ThreadTypeOK
<1>3. m \in WorkerMessage /\ m.type # "clientMessage"
  BY PostFacts
<1> HIDE DEF m
<1>4. \A r \in AllCalls : /\ Coming("Ack", c, r)' = Coming("Ack", c, r)
                          /\ Coming("Request", c, r)' = Coming("Request", c, r)
  <2>1. CASE toParent' = toParent
    BY <2>1 DEF Coming
  <2>2. CASE PostToParent(<<m>>)
    BY <1>2, <1>3, <2>2, OtherPosted
  <2> QED BY <1>1, <2>1, <2>2
<1>5. CASE c # d
  <2>1. socket'[c] = socket[c] /\ gauge'[c] = gauge[c]
    BY <1>1, <1>5, Maps
  <2>2. Alike(c)
    BY <1>1, <1>4, <2>1 DEF Alike, Fades
  <2> QED BY <2>2, AlikeKept
<1>6. CASE c = d
  <2>1. \/ socket'[c] = "closed" /\ gauge'[c] = Absent /\ "flushing" \notin flush[c] /\ socket[c] = "closing"
        \/ socket'[c] = "closing" /\ gauge'[c] = gauge[c] /\ socket[c] = "open"
    BY <1>1, <1>6, Maps
  <2>2. Untouched(c)
    BY <1>1, <2>1 DEF Untouched
  <2>3. Placed(c)'
    BY <1>1, <1>2, <2>1 DEF Placed, Alive
  <2> QED BY <1>1, <1>4, <2>2, <2>3, UntouchedKept
<1> QED BY <1>5, <1>6

(* A client's flush takes its queue as the batch that is written, or a      *)
(* defect.                                                                  *)
LEMMA FlushClientKeeps ==
  ASSUME Before, mode = "isolated", NEW d \in Client, FlushClient(d), NEW c \in Client
  PROVE  Held(c)
<1>1. /\ UNCHANGED <<nextClientId, socket, peer, calls, sent, received, clientIds>> /\ UNCHANGED threadVars
      /\ \/ /\ flush' = [flush EXCEPT ![d] = flush[d] \ {"scheduled"}]
            /\ UNCHANGED <<queue, writing, gauge>>
         \/ /\ "flushing" \notin flush[d] /\ socket[d] = "open"
            /\ flush' = [flush EXCEPT ![d] = {"flushing"}]
            /\ writing' = [writing EXCEPT ![d] = EncodeServerBatch(queue[d])]
            /\ queue' = [queue EXCEPT ![d] = <<>>]
            /\ gauge' = [gauge EXCEPT ![d] = 0]
  BY DEF FlushClient, Recorded
<1>2. Shape /\ Placed(c) /\ mode' = mode
  BY DEF Before, TransportInv
<1>3. CASE c # d
  <2>1. /\ flush'[c] = flush[c] /\ writing'[c] = writing[c] /\ queue'[c] = queue[c] /\ gauge'[c] = gauge[c]
    BY <1>1, <1>3, Maps
  <2>2. Alike(c)
    BY <1>1, <2>1, ThreadApart DEF Alike, Fades
  <2> QED BY <2>2, AlikeKept
<1>4. CASE c = d /\ UNCHANGED <<queue, writing, gauge>> /\ flush' = [flush EXCEPT ![d] = flush[d] \ {"scheduled"}]
  <2>1. "flushing" \in flush'[c] <=> "flushing" \in flush[c]
    BY <1>4, Maps
  <2>2. Untouched(c)
    BY <1>1, <1>4, ThreadApart DEF Untouched
  <2>3. Placed(c)'
    BY <1>1, <1>2, <1>4, <2>1, ThreadApart DEF Placed, Alive
  <2> QED BY <1>1, <2>2, <2>3, ThreadApart, UntouchedKept
<1>5. CASE /\ c = d /\ "flushing" \notin flush[d] /\ socket[d] = "open"
           /\ flush' = [flush EXCEPT ![d] = {"flushing"}]
           /\ writing' = [writing EXCEPT ![d] = EncodeServerBatch(queue[d])]
           /\ queue' = [queue EXCEPT ![d] = <<>>]
           /\ gauge' = [gauge EXCEPT ![d] = 0]
  <2>1. /\ flush'[c] = {"flushing"} /\ writing'[c] = EncodeServerBatch(queue[c]) /\ queue'[c] = <<>> /\ gauge'[c] = 0
        /\ socket[c] = "open"
    BY <1>5, Maps
  <2>2. writing[c] = <<>>
    BY <1>2, <1>5 DEF Placed
  <2>3. received[c] \in Items /\ queue[c] \in Responses /\ queue[c] \in Items
        /\ BatchesFor(toWorker, c) \in Items /\ pendingSends.entries[c] \in Items
    BY <1>2, WayTyped, ItemFacts
  <2>4. Placed(c)'
    BY <1>1, <1>2, <2>1, ThreadApart DEF Placed, Alive, Absent
  <2>5. CASE writing'[c] = queue[c]
    <3>1. Whole(c)' = Whole(c)
      <4> DEFINE g == received[c]  q == queue[c]  b == BatchesFor(toWorker, c)  p == pendingSends.entries[c]
      <4>1. Whole(c) = Joined(g, <<>>, q, b, p) /\ Whole(c)' = Joined(g, q, <<>>, b, p)
        BY <1>1, <2>1, <2>2, <2>5, ThreadApart DEF Whole
      <4>2. g \in Items /\ q \in Items /\ b \in Items /\ p \in Items
        BY <2>3
      <4> HIDE DEF g, q, b, p
      <4> QED BY <4>1, <4>2, QueueWritten
    <3>2. Clean(received'[c], writing'[c]) => Clean(received[c], writing[c])
      BY <1>1, <2>2, <2>3, <2>5, CleanFacts
    <3>3. Moved(c)
      BY <1>1, <2>1, <3>1, <3>2 DEF Moved
    <3> QED BY <1>1, <2>4, <3>3, ThreadApart, MovedKept
  <2>6. CASE writing'[c] = <<Defect>>
    <3>1. ~ Clean(received'[c], writing'[c])
      BY <1>1, <2>3, <2>6, CleanFacts
    <3>2. Lost(c)
      BY <1>1, <2>1, <2>6, <3>1, ThreadApart DEF Lost
    <3> QED BY <1>1, <2>4, <3>2, ThreadApart, LostKept
  <2> QED BY <2>1, <2>3, <2>5, <2>6, Encoded
<1> QED BY <1>1, <1>3, <1>4, <1>5

(* A write is done, or fails and closes its socket.                         *)
LEMMA WriteDoneKeeps ==
  ASSUME Before, mode = "isolated", NEW d \in Client, WriteDone(d), NEW c \in Client
  PROVE  Held(c)
<1>1. /\ UNCHANGED <<nextClientId, peer, calls, sent, queue, clientIds>> /\ UNCHANGED threadVars
      /\ "flushing" \in flush[d]
      /\ writing' = [writing EXCEPT ![d] = <<>>] /\ gauge' = [gauge EXCEPT ![d] = 0]
      /\ \/ /\ socket[d] = "open" /\ received' = [received EXCEPT ![d] = received[d] \o writing[d]]
            /\ flush' = [flush EXCEPT ![d] = ScheduledFlush(flush[d] \ {"flushing"})] /\ socket' = socket
         \/ /\ flush' = [flush EXCEPT ![d] = flush[d] \ {"flushing"}]
            /\ socket' = [socket EXCEPT ![d] = IF socket[d] = "open" THEN "closing" ELSE socket[d]]
            /\ received' = received
  BY DEF WriteDone, Recorded
<1>2. Shape /\ Placed(c) /\ mode' = mode
  BY DEF Before, TransportInv
<1>3. CASE c # d
  <2>1. /\ flush'[c] = flush[c] /\ writing'[c] = writing[c] /\ gauge'[c] = gauge[c]
        /\ socket'[c] = socket[c] /\ received'[c] = received[c]
    BY <1>1, <1>3, Maps
  <2>2. Alike(c)
    BY <1>1, <2>1, ThreadApart DEF Alike, Fades
  <2> QED BY <2>2, AlikeKept
<1>4. CASE c = d
  <2>1. /\ writing'[c] = <<>> /\ gauge'[c] = 0 /\ "flushing" \in flush[c]
        /\ \/ socket[c] = "open" /\ socket'[c] = "open" /\ received'[c] = received[c] \o writing[c]
           \/ /\ socket'[c] = (IF socket[c] = "open" THEN "closing" ELSE socket[c]) /\ received'[c] = received[c]
    BY <1>1, <1>4, Maps
  <2>2. Alive(c) /\ Alive(c)'
    BY <1>2, <2>1 DEF Placed, Alive
  <2>3. received[c] \in Items /\ writing[c] \in Items /\ queue[c] \in Items
        /\ BatchesFor(toWorker, c) \in Items /\ pendingSends.entries[c] \in Items
    BY <1>2, WayTyped, ItemFacts
  <2>4. Placed(c)'
    BY <1>1, <1>2, <2>1, <2>2, ThreadApart DEF Placed, Alive, Absent
  <2>5. CASE socket[c] = "open" /\ socket'[c] = "open" /\ received'[c] = received[c] \o writing[c]
    <3>1. Whole(c)' = Whole(c)
      <4> DEFINE g == received[c]  w == writing[c]  q == queue[c]  b == BatchesFor(toWorker, c)  p == pendingSends.entries[c]
      <4>1. Whole(c) = Joined(g, w, q, b, p) /\ Whole(c)' = Joined(g \o w, <<>>, q, b, p)
        BY <1>1, <2>1, <2>5, ThreadApart DEF Whole
      <4>2. g \in Items /\ w \in Items /\ q \in Items /\ b \in Items /\ p \in Items
        BY <2>3
      <4> HIDE DEF g, w, q, b, p
      <4> QED BY <4>1, <4>2, BatchWritten
    <3>2. Clean(received'[c], writing'[c]) => Clean(received[c], writing[c])
      BY <2>1, <2>3, <2>5, CleanFacts
    <3>3. Moved(c)
      BY <1>1, <2>1, <2>5, <3>1, <3>2 DEF Moved
    <3> QED BY <1>1, <2>4, <3>3, ThreadApart, MovedKept
  <2>6. CASE socket'[c] = (IF socket[c] = "open" THEN "closing" ELSE socket[c]) /\ received'[c] = received[c]
    <3>1. socket'[c] \notin {"none", "open"}
      BY <2>2, <2>6 DEF Alive
    <3>2. Lost(c)
      BY <1>1, <2>1, <2>6, <3>1, ThreadApart DEF Lost
    <3> QED BY <1>1, <2>4, <3>2, ThreadApart, LostKept
  <2> QED BY <2>1, <2>5, <2>6
<1> QED BY <1>3, <1>4

(* A batch reaches the queues of the clients whose sockets are open.        *)
LEMMA ServerBatchKeeps ==
  ASSUME Before, mode = "isolated", HandleParentMessage, Head(toWorker).type = "serverBatch",
         ServerBatch(Head(toWorker).entries), NEW c \in Client
  PROVE  Held(c)
<1> DEFINE e == EntriesFor(Head(toWorker), c)
           b == BatchesFor(toWorker, c)
           a == BatchesFor(toWorker', c)
<1>1. /\ toWorker # <<>> /\ toWorker' = Tail(toWorker)
      /\ UNCHANGED <<nextClientId, peer, calls, sent, received, writing, clientIds, thread, pendingSends>>
  BY DEF HandleParentMessage
<1>2. /\ UNCHANGED <<socket, toParent>>
      /\ queue'[c] = Enqueued(c, Head(toWorker).entries)
      /\ gauge'[c] = IF Enqueued(c, Head(toWorker).entries) = queue[c] THEN gauge[c]
                     ELSE Len(Enqueued(c, Head(toWorker).entries))
      /\ flush'[c] = IF Enqueued(c, Head(toWorker).entries) = queue[c] THEN flush[c] ELSE ScheduledFlush(flush[c])
  BY DEF ServerBatch
<1>3. Shape /\ Shape' /\ scenario' = scenario /\ Placed(c) /\ Ordered(c) /\ mode' = mode
      /\ toWorker \in Seq(ServerMessage)
  BY DEF Before, TransportInv, Shape, ThreadTypeOK
<1>4. b = e \o a /\ e \in Items
  <2>1. Addressed(ServerMessage, Response, c)
    BY <1>3, WayTyped
  <2>2. BatchesFor(toWorker, c) = EntriesFor(Head(toWorker), c) \o BatchesFor(Tail(toWorker), c)
    BY <1>1, <1>3, <2>1, BatchesTaken
  <2>3. Head(toWorker) \in ServerMessage
    BY <1>1, <1>3, HeadAndTail
  <2>4. e \in Responses
    BY <2>1, <2>3 DEF Addressed, Responses
  <2> QED BY <1>1, <2>2, <2>4, ItemFacts
<1>5. /\ received[c] \in Items /\ writing[c] \in Items /\ queue[c] \in Items /\ queue[c] \in Responses
      /\ b \in Items /\ pendingSends.entries[c] \in Items /\ a \in Items /\ queue'[c] \in Responses
  BY <1>3, WayTyped, WayTypedNext, ItemFacts
<1>6. e = Head(toWorker).entries[c]
  BY DEF EntriesFor
<1>7. queue'[c] = IF gauge[c] # Absent /\ socket[c] = "open" THEN queue[c] \o e ELSE queue[c]
  BY <1>2, <1>6 DEF Enqueued
<1>8. \A r \in AllCalls : /\ Coming("Ack", c, r)' = Coming("Ack", c, r)
                          /\ Coming("Request", c, r)' = Coming("Request", c, r)
  BY <1>2 DEF Coming
<1> HIDE DEF e, b, a
<1>9. "flushing" \in flush'[c] <=> "flushing" \in flush[c]
  BY <1>2 DEF ScheduledFlush
<1>10. (gauge'[c] # Absent) = (gauge[c] # Absent)
  <2>1. CASE queue'[c] = queue[c]
    BY <1>2, <2>1
  <2>2. CASE queue'[c] # queue[c]
    <3>1. gauge[c] # Absent /\ gauge'[c] = Len(queue'[c])
      BY <1>2, <1>7, <2>2
    <3>2. gauge'[c] \in Nat
      BY <1>5, <3>1, ItemFacts
    <3> QED BY <3>1, <3>2 DEF Absent
  <2> QED BY <2>1, <2>2
<1>11. Placed(c)'
  BY <1>1, <1>2, <1>3, <1>9, <1>10 DEF Placed, Alive
<1>12. CASE socket[c] = "open"
  <2>1. queue'[c] = queue[c] \o e
    BY <1>3, <1>7, <1>12 DEF Placed, Alive
  <2>2. Whole(c)' = Whole(c)
    <3> DEFINE g == received[c]  w == writing[c]  q == queue[c]  p == pendingSends.entries[c]
    <3>1. Whole(c) = Joined(g, w, q, e \o a, p) /\ Whole(c)' = Joined(g, w, q \o e, a, p)
      BY <1>1, <1>4, <2>1 DEF Whole, b, a
    <3>2. g \in Items /\ w \in Items /\ q \in Items /\ p \in Items
      BY <1>5
    <3> HIDE DEF g, w, q, p
    <3>3. Joined(g, w, q \o e, a, p) = Joined(g, w, q, e \o a, p)
      BY <1>4, <1>5, <3>2, BatchQueued
    <3> QED BY <3>1, <3>3
  <2>3. Moved(c)
    BY <1>1, <1>2, <1>12, <2>2 DEF Moved
  <2> QED BY <1>1, <1>8, <1>11, <2>3, MovedKept
<1>13. CASE socket[c] = "none"
  <2>1. b = <<>>
    BY <1>3, <1>13, NothingForNobody DEF b
  <2>2. a = <<>>
    <3>1. Len(e \o a) = Len(e) + Len(a) /\ Len(e) \in Nat /\ Len(a) \in Nat /\ a \in Seq(Item)
      BY <1>4, <1>5 DEF Items
    <3>2. Len(a) = 0
      BY <1>4, <2>1, <3>1
    <3> QED BY <3>1, <3>2
  <2>3. queue'[c] = queue[c]
    BY <1>7, <1>13
  <2>4. Untouched(c)
    BY <1>1, <1>2, <2>1, <2>2, <2>3 DEF Untouched, a, b
  <2> QED BY <1>1, <1>8, <1>11, <2>4, UntouchedKept
<1>14. CASE socket[c] \notin {"none", "open"}
  <2>1. queue'[c] = queue[c]
    BY <1>7, <1>14
  <2>2. \E x \in Items : b = x \o a
    BY <1>4
  <2>3. Lost(c)
    BY <1>1, <1>2, <1>14, <2>1, <2>2 DEF Lost, a, b
  <2> QED BY <1>1, <1>8, <1>11, <2>3, LostKept
<1> QED BY <1>12, <1>13, <1>14

(* The worker takes a message of the parent.                                *)
LEMMA HandleParentMessageKeeps ==
  ASSUME Before, mode = "isolated", HandleParentMessage, NEW c \in Client
  PROVE  Held(c)
<1> DEFINE m == Head(toWorker)
<1>1. /\ toWorker # <<>> /\ toWorker' = Tail(toWorker)
      /\ UNCHANGED <<nextClientId, peer, calls, sent, received, writing, clientIds, thread, pendingSends>>
      /\ \/ m.type = "serverBatch" /\ ServerBatch(m.entries)
         \/ m.type = "metrics" /\ MetricsAsked(m.id)
         \/ m.type = "shutdown" /\ ShutdownTransport(m.id)
  BY DEF HandleParentMessage
<1>2. Shape /\ Placed(c) /\ mode' = mode /\ toWorker \in Seq(ServerMessage) /\ toParent \in Seq(WorkerMessage)
  BY DEF Before, TransportInv, Shape, ThreadTypeOK
<1>3. m \in ServerMessage
  BY <1>1, <1>2, HeadAndTail
<1>4. ASSUME m.type # "serverBatch" PROVE BatchesFor(toWorker', c) = BatchesFor(toWorker, c)
  <2>1. Addressed(ServerMessage, Response, c)
    BY <1>2, WayTyped
  <2>2. BatchesFor(toWorker, c) = EntriesFor(Head(toWorker), c) \o BatchesFor(Tail(toWorker), c)
    BY <1>1, <1>2, <2>1, BatchesTaken
  <2>3. EntriesFor(Head(toWorker), c) = <<>>
    BY <1>4 DEF EntriesFor
  <2>4. BatchesFor(Tail(toWorker), c) \in Items
    <3>1. Tail(toWorker) \in Seq(ServerMessage)
      BY <1>1, <1>2, HeadAndTail
    <3>2. BatchesFor(Tail(toWorker), c) \in Seq(Response)
      BY <2>1, <3>1, BatchesType
    <3> QED BY <3>2, ItemFacts DEF Responses
  <2> DEFINE a == BatchesFor(Tail(toWorker), c)
  <2>5. <<>> \o a = a
    BY <2>4, ItemsJoin
  <2> QED BY <1>1, <2>2, <2>3, <2>5
<1>5. CASE m.type = "serverBatch" /\ ServerBatch(m.entries)
  BY <1>5, ServerBatchKeeps
<1>6. CASE m.type = "metrics" /\ MetricsAsked(m.id)
  <2> DEFINE n == Cardinality({d \in Client : gauge[d] # Absent})
             x == [type |-> "metrics", id |-> m.id, activeClients |-> n]
  <2>1. /\ UNCHANGED <<socket, queue, gauge, flush>> /\ PostToParent(<<x>>)
    BY <1>6 DEF MetricsAsked
  <2>2. m.id \in 1 .. requestId
    BY <1>3, <1>6, ServerMessageFacts
  <2>3. n \in Nat
    BY ConnectionsCounted
  <2> HIDE DEF m, n
  <2>4. x \in WorkerMessage /\ x.type # "clientMessage"
    BY <2>2, <2>3, PostFacts
  <2> HIDE DEF x
  <2>5. \A r \in AllCalls : /\ Coming("Ack", c, r)' = Coming("Ack", c, r)
                            /\ Coming("Request", c, r)' = Coming("Request", c, r)
    BY <1>2, <2>1, <2>4, OtherPosted
  <2>6. Alike(c)
    BY <1>1, <1>4, <1>6, <2>1, <2>5 DEF Alike, Fades
  <2> QED BY <2>6, AlikeKept
<1>7. CASE m.type = "shutdown" /\ ShutdownTransport(m.id)
  <2>1. UNCHANGED <<queue, gauge, flush, toParent>>
        /\ socket'[c] = IF socket[c] = "open" THEN "closing" ELSE socket[c]
    BY <1>7 DEF ShutdownTransport
  <2>2. \A r \in AllCalls : /\ Coming("Ack", c, r)' = Coming("Ack", c, r)
                            /\ Coming("Request", c, r)' = Coming("Request", c, r)
    BY <2>1 DEF Coming
  <2>3. Untouched(c)
    BY <1>1, <1>4, <1>7, <2>1 DEF Untouched
  <2>4. Placed(c)'
    BY <1>1, <1>2, <2>1 DEF Placed, Alive
  <2> QED BY <1>1, <2>2, <2>3, <2>4, UntouchedKept
<1> QED BY <1>1, <1>5, <1>6, <1>7

(* The end of the thread is the end of every socket.                        *)
LEMMA ThreadEndsKeeps ==
  ASSUME Before, mode = "isolated", ThreadDies \/ Terminate, NEW c \in Client
  PROVE  Held(c)
<1>1. /\ UNCHANGED <<nextClientId, peer, calls, sent, received, clientIds, toParent, pendingSends>>
      /\ socket'[c] = IF Alive(c) THEN "closed" ELSE socket[c]
      /\ writing'[c] = <<>> /\ queue'[c] = <<>> /\ flush'[c] = {} /\ gauge'[c] = Absent
      /\ toWorker' = <<>>
  BY DEF ThreadDies, Terminate, ThreadEnds, Alive
<1>2. Shape /\ Placed(c) /\ Ordered(c) /\ mode' = mode
  BY DEF Before, TransportInv
<1>3. BatchesFor(toWorker', c) = <<>>
  <2>1. Addressed(ServerMessage, Response, c)
    BY <1>2, WayTyped
  <2>2. BatchesFor(<<>>, c) = <<>>
    BY <2>1, BatchesType
  <2> QED BY <1>1, <2>2
<1>4. \A r \in AllCalls : /\ Coming("Ack", c, r)' = Coming("Ack", c, r)
                          /\ Coming("Request", c, r)' = Coming("Request", c, r)
  BY <1>1 DEF Coming
<1>5. ~ Alive(c)'
  BY <1>1 DEF Alive
<1>6. CASE socket[c] = "none"
  <2>1. /\ writing[c] = <<>> /\ queue[c] = <<>> /\ BatchesFor(toWorker, c) = <<>>
    BY <1>2, <1>6, NothingForNobody
  <2>2. Untouched(c)
    BY <1>1, <1>3, <1>6, <2>1 DEF Untouched, Alive
  <2>3. Placed(c)'
    BY <1>1, <1>2, <1>5, <1>6, <2>1 DEF Placed, Alive
  <2> QED BY <1>1, <1>4, <2>2, <2>3, UntouchedKept
<1>7. CASE socket[c] # "none"
  <2>1. socket'[c] \notin {"none", "open"}
    BY <1>1, <1>7 DEF Alive
  <2>2. Lost(c)
    BY <1>1, <1>3, <2>1 DEF Lost
  <2>3. Placed(c)'
    <3>1. nextClientId' <= c => FALSE
      BY <1>1, <1>2, <1>7 DEF Placed
    <3> QED BY <1>1, <1>2, <1>5, <2>1, <3>1 DEF Placed, Alive
  <2> QED BY <1>1, <1>4, <2>2, <2>3, LostKept
<1> QED BY <1>6, <1>7

(* A frame is handled.                                                      *)
LEMMA HandleClientDataKeeps ==
  ASSUME Before, mode = "isolated", NEW d \in Client, HandleClientData(d), NEW c \in Client
  PROVE  Held(c)
<1>1. ClientsShape /\ Shape /\ Shape' /\ scenario' = scenario /\ Placed(c) /\ Ordered(c) /\ mode' = mode
      /\ toParent \in Seq(WorkerMessage)
  BY DEF Before, TransportInv, Shape, ThreadTypeOK
<1>2. PICK r \in AllCalls, kind \in {"Request", "Ack", "Interrupt"} :
        /\ FrameHandled(d, kind, r)
        /\ \/ PostToParent(<<ClientSaid(d, kind, r)>>) /\ received' = received
           \/ /\ kind = "Request" /\ toParent' = toParent
              /\ received' = [received EXCEPT ![d] = Append(received[d], Defect)]
  <2>1. \E r \in AllCalls : \E kind \in {"Request", "Ack", "Interrupt"} :
          /\ FrameHandled(d, kind, r)
          /\ \/ /\ PostToParent(<<[type |-> "clientMessage", client |-> d, message |-> Sends(kind, r)]>>)
                /\ received' = received
             \/ /\ kind = "Request" /\ toParent' = toParent
                /\ received' = [received EXCEPT ![d] = Append(received[d], Defect)]
    BY <1>1, DataHandled
  <2> QED BY <2>1 DEF ClientSaid
<1>3. UNCHANGED <<nextClientId, socket, calls, sent, queue, writing, flush, gauge, clientIds, thread, toWorker, pendingSends>>
  BY DEF HandleClientData
<1>4. ClientSaid(d, kind, r) \in WorkerMessage
  BY PostFacts DEF ClientSaid, Message, Sends
<1>5. \A q \in AllCalls : \A k \in {"Request", "Ack"} :
        \/ Coming(k, c, q)' = Coming(k, c, q)
           /\ (c = d /\ q = r /\ k = kind => kind = "Request" /\ toParent' = toParent)
        \/ Coming(k, c, q)' = Coming(k, c, q) + 1 /\ c = d /\ q = r /\ k = kind /\ received' = received
  <2>1. CASE toParent' = toParent /\ kind = "Request"
    BY <2>1 DEF Coming
  <2>2. CASE PostToParent(<<ClientSaid(d, kind, r)>>) /\ received' = received
    <3> SUFFICES ASSUME NEW q \in AllCalls, NEW k \in {"Request", "Ack"}
                 PROVE  \/ Coming(k, c, q)' = Coming(k, c, q) /\ ~ (c = d /\ q = r /\ k = kind)
                        \/ Coming(k, c, q)' = Coming(k, c, q) + 1 /\ c = d /\ q = r /\ k = kind
      BY <2>2
    <3> DEFINE m == ClientSaid(d, kind, r)
    <3>1. m = ClientSaid(c, k, q) <=> (c = d /\ q = r /\ k = kind)
      BY DEF ClientSaid, Sends
    <3>2. m \in WorkerMessage /\ PostToParent(<<m>>)
      BY <1>4, <2>2
    <3> HIDE DEF m
    <3>3. /\ m = ClientSaid(c, k, q) => Coming(k, c, q)' = Coming(k, c, q) + 1
          /\ m # ClientSaid(c, k, q) => Coming(k, c, q)' = Coming(k, c, q)
      BY <1>1, <3>2, ParentPosted
    <3> QED BY <3>1, <3>3
  <2> QED BY <1>2, <2>1, <2>2
<1>6. Steady(c)
  <2>1. CASE received'[c] = received[c]
    <3>1. Untouched(c)
      BY <1>3, <2>1 DEF Untouched
    <3> QED BY <1>1, <3>1, UntouchedSteady
  <2>2. CASE received'[c] = Append(received[c], Defect) /\ c = d
    <3>1. received[c] \in Items /\ writing[c] \in Items
      BY Maps
    <3>2. ~ Clean(received'[c], writing'[c])
      BY <1>3, <2>2, <3>1, CleanFacts
    <3>3. Lost(c)
      BY <1>2, <1>3, <2>2, <3>2 DEF Lost, FrameHandled
    <3> QED BY <1>1, <3>3, LostSteady
  <2> QED BY <1>2, <2>1, <2>2, Maps
<1>7. Placed(c)'
  <2>1. socket[c] = "none" => c # d /\ \A q \in AllCalls : ~ peer'[c][q].asked
    BY <1>1, <1>2 DEF Placed, FrameHandled
  <2>2. socket[c] = "none" => received'[c] = received[c]
    BY <1>2, <2>1, Maps
  <2> QED BY <1>1, <1>3, <2>1, <2>2 DEF Placed, Alive
<1>8. ASSUME NEW q \in AllCalls PROVE Balanced(c, q)'
  <2>1. Reckonable(c, q) /\ Reckonable(c, q)' /\ Balanced(c, q)
    BY <1>1, Counted, CountedNext DEF Before, TransportInv
  <2>2. CASE c # d \/ q # r \/ kind = "Interrupt" \/ (kind = "Request" /\ Coming("Request", c, q)' = Coming("Request", c, q))
    <3>1. /\ Coming("Ack", c, q)' = Coming("Ack", c, q) /\ Coming("Request", c, q)' = Coming("Request", c, q)
      BY <1>5, <2>1, <2>2 DEF Reckonable
    <3>2. (peer[c][q].asked => peer'[c][q].asked) /\ peer'[c][q].acked = peer[c][q].acked
      BY <1>2, <2>2 DEF FrameHandled
    <3>3. Quiet(c, q)
      BY <1>3, <3>1, <3>2 DEF Quiet, Fades
    <3> QED BY <1>1, <1>6, <2>1, <3>3, QuietBalanced
  <2>3. CASE c = d /\ q = r /\ kind \in {"Request", "Ack"} /\ ~ (kind = "Request" /\ Coming("Request", c, q)' = Coming("Request", c, q))
    <3>1. CASE kind = "Request"
      <4>1. Coming("Request", c, q)' = Coming("Request", c, q) + 1 /\ Coming("Ack", c, q)' = Coming("Ack", c, q)
        BY <1>5, <2>3, <3>1
      <4>2. Posts(c, q, kind)
        BY <1>2, <1>3, <2>3, <3>1, <4>1 DEF Posts, FrameHandled
      <4> QED BY <1>1, <1>6, <2>1, <2>3, <4>2, PostedBalanced
    <3>2. CASE kind = "Ack"
      <4>1. Coming("Ack", c, q)' = Coming("Ack", c, q) + 1 /\ Coming("Request", c, q)' = Coming("Request", c, q)
        BY <1>5, <2>3, <3>2
      <4>2. Posts(c, q, kind)
        BY <1>2, <1>3, <2>3, <3>2, <4>1 DEF Posts, FrameHandled
      <4> QED BY <1>1, <1>6, <2>1, <2>3, <4>2, PostedBalanced
    <3> QED BY <2>3, <3>1, <3>2
  <2> QED BY <2>2, <2>3
<1> QED BY <1>1, <1>6, <1>7, <1>8, SteadyOrdered DEF Held

(* What a step of the worker thread keeps.                                  *)
LEMMA WorkerThreadKeeps ==
  ASSUME Before, WorkerThread
  PROVE  ThreadIdle' /\ Unserved' /\ \A c \in Client : Held(c)
<1>1. /\ mode = "isolated" /\ mode' = mode /\ Unserved
      /\ \/ Connection \/ HandleParentMessage \/ ServerClosed \/ ThreadDies
         \/ \E d \in Client :
              HandleClientData(d) \/ FlushClient(d) \/ WriteDone(d) \/ DisconnectClient(d) \/ CloseSocket(d)
  BY DEF WorkerThread, Before, TransportInv
<1>2. calls' = calls /\ serving' = serving
  BY <1>1 DEF Connection, HandleParentMessage, ServerClosed, ThreadDies, HandleClientData, FlushClient,
              WriteDone, DisconnectClient, CloseSocket, clientVars, threadVars
<1>3. ThreadIdle' /\ Unserved'
  BY <1>1, <1>2 DEF ThreadIdle, Unserved
<1>4. ASSUME NEW c \in Client PROVE Held(c)
  <2>connects. CASE Connection
    BY <1>1, <2>connects, ConnectionKeeps
  <2>handles. CASE HandleParentMessage
    BY <1>1, <2>handles, HandleParentMessageKeeps
  <2>closed. CASE ServerClosed
    BY <1>1, <2>closed, ServerClosedKeeps
  <2>dies. CASE ThreadDies
    BY <1>1, <2>dies, ThreadEndsKeeps
  <2>data. ASSUME NEW d \in Client, HandleClientData(d) PROVE Held(c)
    BY <1>1, <2>data, HandleClientDataKeeps
  <2>flushes. ASSUME NEW d \in Client, FlushClient(d) PROVE Held(c)
    BY <1>1, <2>flushes, FlushClientKeeps
  <2>writes. ASSUME NEW d \in Client, WriteDone(d) PROVE Held(c)
    BY <1>1, <2>writes, WriteDoneKeeps
  <2>leaves. ASSUME NEW d \in Client, DisconnectClient(d) \/ CloseSocket(d) PROVE Held(c)
    BY <1>1, <2>leaves, DisconnectClientKeeps
  <2> HIDE DEF Held
  <2> QED BY <1>1, <2>connects, <2>handles, <2>closed, <2>dies, <2>data, <2>flushes, <2>writes, <2>leaves
<1> QED BY <1>3, <1>4

(* No call goes on while the RPC server does not run.                       *)
LEMMA BridgeServes ==
  ASSUME Before, Bridge
  PROVE  Unserved'
<1> SUFFICES ASSUME ~ serving', NEW c \in Client, NEW r \in AllCalls
             PROVE  calls'[c][r] \in {"none", "over"}
  BY DEF Unserved
<1>1. /\ mode = "isolated" /\ Unserved
      /\ \/ Run \/ ParentReceives \/ ThreadExits \/ FlushServerMessages
         \/ RequestMetrics \/ RequestShutdown \/ ShutdownTimeout \/ Terminate
         \/ (TakeDisconnect /\ UNCHANGED threadVars)
         \/ \E id \in pendingMetrics : MetricsTimeout(id)
         \/ \E d \in Client : \E q \in Calls(d) : SendIsolated(d, q)
  BY DEF Bridge, Before, TransportInv
<1>2. CASE UNCHANGED <<calls, serving>>
  BY <1>1, <1>2 DEF Unserved
<1>3. CASE Run
  BY <1>3 DEF Run
<1>4. CASE ParentReceives
  <2>1. serving' = serving /\ ~ serving
    BY <1>4 DEF ParentReceives
  <2>2. calls' = calls
    BY <1>4, <2>1 DEF ParentReceives, ClientConnected, ClientDisconnected, ClientMessage, MetricsAnswered, ShutdownAcked
  <2> QED BY <1>2, <2>1, <2>2
<1>5. CASE ThreadExits \/ FlushServerMessages \/ RequestMetrics \/ ShutdownTimeout \/ Terminate
           \/ \E id \in pendingMetrics : MetricsTimeout(id)
  <2>1. UNCHANGED <<calls, serving>>
    BY <1>5 DEF ThreadExits, FlushServerMessages, RequestMetrics, ShutdownTimeout, Terminate, MetricsTimeout, clientVars
  <2> QED BY <1>2, <2>1
<1>6. CASE RequestShutdown
  BY <1>6 DEF RequestShutdown
<1>7. CASE TakeDisconnect /\ UNCHANGED threadVars
  <2>1. ~ serving
    BY <1>7 DEF threadVars
  <2> DEFINE d == Head(disconnects)
             over == [q \in AllCalls |-> IF calls[d][q] = "none" THEN "none" ELSE "over"]
  <2>2. d \in Client
    BY <1>7, Maps, HeadTailProperties DEF TakeDisconnect
  <2>3. calls' = [calls EXCEPT ![d] = over]
    BY <1>7 DEF TakeDisconnect
  <2>4. over[r] \in {"none", "over"}
    OBVIOUS
  <2> HIDE DEF d, over
  <2>5. calls'[c] = IF c = d THEN over ELSE calls[c]
    BY <2>2, <2>3, Maps
  <2> QED BY <1>1, <2>1, <2>4, <2>5 DEF Unserved
<1>8. ASSUME NEW d \in Client, NEW q \in Calls(d), SendIsolated(d, q)
      PROVE  FALSE
  <2>1. ~ serving /\ calls[d][q] \in {"ready", "ending"}
    BY <1>8 DEF SendIsolated, Responds
  <2>2. q \in AllCalls
    BY DemandFacts DEF Before, TransportInv, Shape, ClientsShape
  <2> QED BY <1>1, <2>1, <2>2 DEF Unserved
<1> QED BY <1>1, <1>3, <1>4, <1>5, <1>6, <1>7, <1>8

(* What a step of the bridge keeps.                                         *)
LEMMA BridgeKeeps ==
  ASSUME Before, Bridge
  PROVE  ThreadIdle' /\ Unserved' /\ \A c \in Client : Held(c)
<1>1. /\ mode = "isolated" /\ mode' = mode
      /\ \/ Run \/ ParentReceives \/ ThreadExits \/ FlushServerMessages
         \/ RequestMetrics \/ RequestShutdown \/ ShutdownTimeout \/ Terminate
         \/ (TakeDisconnect /\ UNCHANGED threadVars)
         \/ \E id \in pendingMetrics : MetricsTimeout(id)
         \/ \E d \in Client : \E q \in Calls(d) : SendIsolated(d, q)
  BY DEF Bridge, Before
<1>2. ThreadIdle'
  BY <1>1 DEF ThreadIdle
<1>3. ASSUME NEW c \in Client PROVE Held(c)
  <2>quiet. CASE Run \/ ThreadExits \/ ShutdownTimeout \/ \E id \in pendingMetrics : MetricsTimeout(id)
    BY <2>quiet, QuietlyKept
  <2>receives. CASE ParentReceives
    BY <1>1, <2>receives, ParentReceivesKeeps
  <2>posts. CASE FlushServerMessages
    BY <2>posts, FlushServerMessagesKeeps
  <2>metrics. CASE RequestMetrics
    BY <2>metrics, RequestMetricsKeeps
  <2>shutdown. CASE RequestShutdown
    BY <2>shutdown, RequestShutdownKeeps
  <2>terminates. CASE Terminate
    BY <1>1, <2>terminates, ThreadEndsKeeps
  <2>disconnects. CASE TakeDisconnect /\ UNCHANGED threadVars
    BY <2>disconnects, TakeDisconnectKeeps
  <2>sends. ASSUME NEW d \in Client, NEW q \in Calls(d), SendIsolated(d, q) PROVE Held(c)
    BY <1>1, <2>sends, SendIsolatedKeeps
  <2> HIDE DEF Held
  <2> QED BY <1>1, <2>quiet, <2>receives, <2>posts, <2>metrics, <2>shutdown, <2>terminates, <2>disconnects, <2>sends
<1> QED BY <1>2, <1>3, BridgeServes

-----------------------------------------------------------------------------
(* What waits for a client has a bound.                                     *)

(* Of the responses that a client has not got there are one chunk of each   *)
(* call and its exit at most.                                               *)
LEMMA FewOnTheWay ==
  ASSUME NEW g \in Items, NEW w \in Items, NEW q \in Items, NEW b \in Items, NEW p \in Items, NEW r,
         Count(Joined(g, w, q, b, p), "Chunk", r) <= Count(g, "Chunk", r) + 1,
         Count(Joined(g, w, q, b, p), "Exit", r) <= 1
  PROVE  \A kind \in {"Chunk", "Exit"} : /\ Count(q, kind, r) <= 1
                                         /\ Count(((w \o q) \o b) \o p, kind, r) <= 1
<1> SUFFICES ASSUME NEW kind \in {"Chunk", "Exit"}
             PROVE  Count(q, kind, r) <= 1 /\ Count(((w \o q) \o b) \o p, kind, r) <= 1
  OBVIOUS
<1> DEFINE all == Joined(g, w, q, b, p)
           way == ((w \o q) \o b) \o p
<1>1. Count(all, kind, r) <= Count(g, kind, r) + 1
  <2>1. /\ Count(g, "Exit", r) \in Nat /\ Count(all, "Exit", r) \in Nat
    <3>1. all \in Items
      BY JoinedType
    <3> QED BY <3>1, CountFacts, Zenon DEF Items
  <2> HIDE DEF all
  <2>2. CASE kind = "Exit"
    BY <2>1, <2>2 DEF all
  <2>3. CASE kind = "Chunk"
    BY <2>3 DEF all
  <2> QED BY <2>2, <2>3
<1>2. /\ Count(all, kind, r)
           = Count(g, kind, r) + Count(w, kind, r) + Count(q, kind, r) + Count(b, kind, r) + Count(p, kind, r)
      /\ Count(g, kind, r) \in Nat /\ Count(w, kind, r) \in Nat /\ Count(q, kind, r) \in Nat
      /\ Count(b, kind, r) \in Nat /\ Count(p, kind, r) \in Nat
  BY JoinedCounts
<1>3. Count(all, kind, r) = Count(g, kind, r) + Count(way, kind, r) /\ Count(way, kind, r) \in Nat
  <2>1. way \in Items
    <3>1. w \o q \in Items
      BY ItemsJoin
    <3>2. (w \o q) \o b \in Items
      BY <3>1, ItemsJoin
    <3> QED BY <3>2, ItemsJoin
  <2>2. g \in Seq(Item) /\ way \in Seq(Item)
    BY <2>1 DEF Items
  <2>3. all = g \o way
    BY DEF Joined
  <2> HIDE DEF way, all
  <2>4. Count(g \o way, kind, r) = Count(g, kind, r) + Count(way, kind, r) /\ Count(way, kind, r) \in Nat
    BY <2>2, CountJoined
  <2> QED BY <2>3, <2>4
<1> HIDE DEF all, way
<1>4. Count(q, kind, r) <= 1 /\ Count(way, kind, r) <= 1
  BY <1>1, <1>2, <1>3
<1> QED BY <1>4 DEF way

(* A count of the metrics is a queue's length, or what it was.              *)
LEMMA GaugeSteps ==
  ASSUME Before, TransportNext, NEW c \in Client
  PROVE  gauge'[c] \in {gauge[c], 0, Absent, Len(queue'[c])}
<1>1. CASE InProcess
  <2>connects. CASE OnSocket
    BY <2>connects, Maps DEF OnSocket, Recorded
  <2>disconnects. CASE TakeDisconnect
    BY <2>disconnects DEF TakeDisconnect
  <2>same. ASSUME NEW d \in Client, HandleSocketData(d) \/ TakeFirst(d) \/ Closes(d) PROVE gauge' = gauge
    BY <2>same DEF HandleSocketData, TakeFirst, Closes
  <2>writes. ASSUME NEW d \in Client, TakeRest(d) \/ Written(d) \/ SocketOver(d)
             PROVE  gauge'[c] \in {gauge[c], 0, Absent}
    <3>1. gauge' = [gauge EXCEPT ![d] = 0] \/ gauge' = [gauge EXCEPT ![d] = Absent] \/ gauge' = gauge
      BY <2>writes DEF TakeRest, Written, SocketOver, Recorded
    <3> QED BY <3>1, Maps
  <2>sends. ASSUME NEW d \in Client, NEW r \in Calls(d), Send(d, r)
            PROVE  gauge'[c] \in {gauge[c], Len(queue'[c])}
    <3>1. PICK x : \/ /\ queue' = [queue EXCEPT ![d] = Append(queue[d], x)]
                      /\ gauge' = [gauge EXCEPT ![d] = Len(queue[d]) + 1]
                   \/ gauge' = gauge
      BY <2>sends DEF Send, Offer, Recorded
    <3>2. CASE gauge' = gauge
      BY <3>2
    <3>3. CASE queue' = [queue EXCEPT ![d] = Append(queue[d], x)] /\ gauge' = [gauge EXCEPT ![d] = Len(queue[d]) + 1]
      <4>1. CASE c # d
        BY <3>3, <4>1, Maps
      <4>2. CASE c = d
        <5>1. queue'[c] = Append(queue[c], x) /\ gauge'[c] = Len(queue[c]) + 1
          BY <3>3, <4>2, Maps
        <5>2. queue[c] \in Seq(Response)
          BY Maps DEF Responses
        <5>3. Len(Append(queue[c], x)) = Len(queue[c]) + 1
          BY <5>2
        <5> QED BY <5>1, <5>3
      <4> QED BY <4>1, <4>2
    <3> QED BY <3>1, <3>2, <3>3
  <2> QED BY <1>1, <2>connects, <2>disconnects, <2>same, <2>writes, <2>sends DEF InProcess
<1>2. CASE WorkerThread
  <2>connects. CASE Connection
    BY <2>connects, Maps DEF Connection, Recorded
  <2>handles. CASE HandleParentMessage
    <3>1. gauge' = gauge \/ ServerBatch(Head(toWorker).entries)
      BY <2>handles DEF HandleParentMessage, MetricsAsked, ShutdownTransport
    <3>2. CASE ServerBatch(Head(toWorker).entries)
      BY <3>2 DEF ServerBatch
    <3> QED BY <3>1, <3>2
  <2>closed. CASE ServerClosed
    BY <2>closed DEF ServerClosed, clientVars
  <2>dies. CASE ThreadDies
    BY <2>dies DEF ThreadDies, ThreadEnds
  <2>same. ASSUME NEW d \in Client, HandleClientData(d) \/ CloseSocket(d) PROVE gauge' = gauge
    BY <2>same DEF HandleClientData, CloseSocket
  <2>writes. ASSUME NEW d \in Client, FlushClient(d) \/ WriteDone(d) \/ DisconnectClient(d)
             PROVE  gauge'[c] \in {gauge[c], 0, Absent}
    <3>1. gauge' = [gauge EXCEPT ![d] = 0] \/ gauge' = [gauge EXCEPT ![d] = Absent] \/ gauge' = gauge
      BY <2>writes DEF FlushClient, WriteDone, DisconnectClient, Recorded
    <3> QED BY <3>1, Maps
  <2> QED BY <1>2, <2>connects, <2>handles, <2>closed, <2>dies, <2>same, <2>writes DEF WorkerThread
<1>3. CASE Bridge
  <2>1. gauge' = gauge \/ Terminate
    BY <1>3 DEF Bridge, Run, ParentReceives, ThreadExits, FlushServerMessages, RequestMetrics, RequestShutdown,
                ShutdownTimeout, TakeDisconnect, MetricsTimeout, SendIsolated, clientVars
  <2>2. CASE Terminate
    BY <2>2 DEF Terminate, ThreadEnds
  <2> QED BY <2>1, <2>2
<1> QED BY <1>1, <1>2, <1>3 DEF TransportNext

(* The counts stay bounded.                                                 *)
LEMMA CountsKept ==
  ASSUME Before, TransportNext, \A c \in Client : Held(c)
  PROVE  CountsBounded'
<1> SUFFICES ASSUME NEW c \in Client
             PROVE  gauge'[c] <= 2 * Cardinality(AllCalls) /\ gauge'[c] >= Absent
  BY DEF CountsBounded, Absent
<1>1. Shape /\ Shape' /\ scenario' = scenario /\ CountsBounded /\ gauge[c] \in Int
  BY Maps DEF Before, TransportInv
<1>2. IsFiniteSet(AllCalls) /\ Cardinality(AllCalls) \in Nat
  BY <1>1, DemandFacts DEF Shape, ClientsShape
<1> DEFINE g == received'[c]  w == writing'[c]  q == queue'[c]  b == BatchesFor(toWorker', c)  p == pendingSends'.entries[c]
<1>3. g \in Items /\ w \in Items /\ q \in Items /\ b \in Items /\ p \in Items /\ q \in Seq(Response)
  BY <1>1, WayTypedNext, ItemFacts DEF Responses
<1>4. ASSUME NEW r \in AllCalls
      PROVE  /\ Count(Joined(g, w, q, b, p), "Chunk", r) <= Count(g, "Chunk", r) + 1
             /\ Count(Joined(g, w, q, b, p), "Exit", r) <= 1
  <2>1. Balanced(c, r)' /\ Reckonable(c, r)'
    BY <1>1, CountedNext DEF Held
  <2>2. Whole(c)' = Joined(g, w, q, b, p)
    BY DEF Whole
  <2> HIDE DEF w, q, b, p
  <2> QED BY <2>1, <2>2 DEF Balanced, Reckonable, Account
<1> HIDE DEF g, w, q, b, p
<1>5. \A r \in AllCalls : \A kind \in {"Chunk", "Exit"} : Count(q, kind, r) <= 1
  <2>1. ASSUME NEW r \in AllCalls PROVE \A kind \in {"Chunk", "Exit"} : Count(q, kind, r) <= 1
    BY <1>3, <1>4, FewOnTheWay
  <2> QED BY <2>1
<1>6. Len(q) <= 2 * Cardinality(AllCalls) /\ Len(q) \in Nat
  BY <1>2, <1>3, <1>5, FewResponses
<1>7. gauge'[c] \in {gauge[c], 0, Absent, Len(q)}
  BY GaugeSteps DEF q
<1>8. gauge[c] <= 2 * Cardinality(AllCalls) /\ gauge[c] >= Absent
  BY <1>1 DEF CountsBounded
<1> QED BY <1>1, <1>2, <1>6, <1>7, <1>8 DEF Absent

-----------------------------------------------------------------------------
(* The invariant.                                                           *)

(* It holds at first: nobody has connected and nothing is on its way.       *)
LEMMA InvAtFirst ==
  ASSUME TransportInit
  PROVE  TransportInv
<1>1. /\ IsFiniteSet(Client) /\ Cardinality(Client) \in Nat /\ Client = 0 .. Cardinality(Client) - 1
  BY ClientsAssumption, FS_CardinalityType
<1>2. scenario \in Demands /\ mode \in {"in-process", "isolated"}
  BY DEF TransportInit, ClientsInit
<1>3. scenario.chunks \in Nat /\ Cardinality(AllCalls) \in Nat
  BY <1>2, DemandFacts
<1>4. ClientsShape
  <2>1. <<>> \in Seq(Response) /\ <<>> \in Seq(Item) /\ <<>> \in Seq(Client)
    OBVIOUS
  <2>2. [asked |-> FALSE, acked |-> 0, gaveUp |-> FALSE] \in PeerRecord
    BY DEF PeerRecord
  <2>3. /\ nextClientId \in 0 .. Cardinality(Client) /\ gauge \in [Client -> Int] /\ clientIds \subseteq Client
        /\ socket \in [Client -> {"none", "open", "closing", "closed", "refused"}]
        /\ flush \in [Client -> SUBSET {"scheduled", "flushing", "dead"}]
    BY <1>1 DEF TransportInit, ClientsInit, Absent
  <2>4. /\ peer \in [Client -> [AllCalls -> PeerRecord]] /\ calls \in [Client -> [AllCalls -> CallStates]]
    BY <2>2 DEF TransportInit, ClientsInit, CallStates
  <2>5. /\ queue \in [Client -> Seq(Response)] /\ sent \in [Client -> Seq(Response)]
        /\ writing \in [Client -> Seq(Item)] /\ received \in [Client -> Seq(Item)]
        /\ disconnects \in Seq(Client)
    BY <2>1 DEF TransportInit, ClientsInit
  <2> QED BY <1>2, <2>3, <2>4, <2>5 DEF ClientsShape
<1>5. ThreadTypeOK
  <2>1. NoEntries \in Batch
    BY DEF NoEntries, Batch
  <2>2. pendingSends = [entries |-> NoEntries, scheduled |-> FALSE]
    BY DEF TransportInit, ThreadInit
  <2>3. pendingSends \in [entries : Batch, scheduled : BOOLEAN]
    BY <2>1, <2>2
  <2>4. pendingSends.scheduled = (pendingSends.entries # NoEntries)
    BY <2>2
  <2>5. /\ requestId \in Nat /\ thread \in {"up", "exiting", "gone"}
        /\ {serving, shuttingDown, shutdownStarted} \subseteq BOOLEAN
        /\ pendingMetrics \cup pendingShutdown \cup ackDue \subseteq 1 .. requestId
    BY DEF TransportInit, ThreadInit
  <2>6. toParent \in Seq(WorkerMessage) /\ toWorker \in Seq(ServerMessage)
    BY DEF TransportInit, ThreadInit
  <2> QED BY <2>3, <2>4, <2>5, <2>6 DEF ThreadTypeOK
<1>6. Shape
  BY <1>4, <1>5 DEF Shape
<1>7. /\ toWorker = <<>> /\ toParent = <<>> /\ pendingSends.entries = NoEntries /\ thread = "up"
      /\ clientIds = {} /\ nextClientId = 0
  BY DEF TransportInit, ThreadInit, ClientsInit
<1>8. ThreadIdle
  BY <1>7 DEF ThreadIdle
<1>9. Unserved
  BY DEF Unserved, TransportInit, ClientsInit
<1>10. CountsBounded
  BY <1>3 DEF CountsBounded, TransportInit, ClientsInit, Absent
<1>11. ASSUME NEW c \in Client
       PROVE  Placed(c) /\ Ordered(c) /\ \A r \in AllCalls : Balanced(c, r)
  <2>1. /\ socket[c] = "none" /\ sent[c] = <<>> /\ received[c] = <<>> /\ queue[c] = <<>> /\ writing[c] = <<>>
        /\ flush[c] = {} /\ gauge[c] = Absent
        /\ \A r \in AllCalls : calls[c][r] = "none" /\ ~ peer[c][r].asked /\ peer[c][r].acked = 0
    BY DEF TransportInit, ClientsInit
  <2>2. pendingSends.entries[c] = <<>>
    BY <1>7 DEF NoEntries
  <2>3. BatchesFor(toWorker, c) = <<>>
    <3>1. Addressed(ServerMessage, Response, c)
      BY <1>6, WayTyped
    <3>2. BatchesFor(<<>>, c) = <<>>
      BY <3>1, BatchesType
    <3> QED BY <1>7, <3>2
  <2>4. Whole(c) = <<>>
    <3>1. <<>> \o <<>> = <<>>
      BY ItemsJoin
    <3>2. Whole(c) = Joined(<<>>, <<>>, <<>>, <<>>, <<>>)
      BY <2>1, <2>2, <2>3 DEF Whole
    <3> QED BY <3>1, <3>2 DEF Joined
  <2>5. Clean(received[c], writing[c])
    BY <2>1 DEF Clean, Range
  <2>6. Placed(c)
    BY <1>7, <2>1, <2>5 DEF Placed, Alive
  <2>7. Ordered(c)
    BY <2>1, <2>4 DEF Ordered
  <2>8. ASSUME NEW r \in AllCalls PROVE Balanced(c, r)
    <3>1. Count(<<>>, "Chunk", r) = 0 /\ Count(<<>>, "Exit", r) = 0
      BY CountFacts
    <3>2. \A S : Tally(<<>>, S) = 0
      BY TallyOfOne
    <3>3. Coming("Ack", c, r) = 0 /\ Coming("Request", c, r) = 0
      BY <1>7, <3>2 DEF Coming
    <3>4. calls[c][r] = "none" /\ ~ peer[c][r].asked /\ peer[c][r].acked = 0
      BY <2>1
    <3> QED BY <1>3, <2>1, <2>4, <3>1, <3>3, <3>4 DEF Balanced, Account
  <2> QED BY <2>6, <2>7, <2>8
<1> QED BY <1>6, <1>8, <1>9, <1>10, <1>11 DEF TransportInv

(* Every step keeps it.                                                     *)
LEMMA InvKept ==
  ASSUME TransportInv, [TransportNext]_transportVars
  PROVE  TransportInv'
<1>1. CASE TransportNext
  <2>1. scenario' = scenario /\ mode' = mode
    BY <1>1, NeverChanges
  <2>2. ClientsShape /\ ThreadTypeOK
    BY DEF TransportInv, Shape
  <2>3. Shape'
    <3>1. CASE InProcess
      <4>1. UNCHANGED threadVars
        BY <3>1 DEF InProcess
      <4> QED BY <2>1, <2>2, <3>1, <4>1, InProcessShape, ThreadKept DEF Shape
    <3>2. CASE WorkerThread
      BY <2>2, <3>2, WorkerThreadShape, WorkerThreadTyped DEF Shape
    <3>3. CASE Bridge
      BY <2>2, <3>3, BridgeShape, BridgeTyped DEF Shape
    <3> QED BY <1>1, <3>1, <3>2, <3>3 DEF TransportNext
  <2>4. Before
    BY <2>1, <2>3 DEF Before
  <2>5. ThreadIdle' /\ Unserved' /\ \A c \in Client : Held(c)
    <3>1. CASE InProcess
      BY <2>4, <3>1, InProcessKeeps
    <3>2. CASE WorkerThread
      BY <2>4, <3>2, WorkerThreadKeeps
    <3>3. CASE Bridge
      BY <2>4, <3>3, BridgeKeeps
    <3> HIDE DEF Held
    <3> QED BY <1>1, <3>1, <3>2, <3>3 DEF TransportNext
  <2>6. CountsBounded'
    BY <1>1, <2>4, <2>5, CountsKept
  <2> QED BY <2>3, <2>5, <2>6 DEF TransportInv, Held
<1>2. CASE UNCHANGED transportVars
  <2>1. UNCHANGED clientVars /\ UNCHANGED threadVars
    BY <1>2 DEF transportVars
  <2>2. /\ scenario' = scenario /\ mode' = mode /\ serving' = serving /\ calls' = calls /\ gauge' = gauge
        /\ toWorker' = toWorker /\ toParent' = toParent /\ pendingSends' = pendingSends /\ thread' = thread
    BY <2>1 DEF clientVars, threadVars
  <2>3. Shape'
    <3>1. ThreadTypeOK'
      BY <2>1, <2>2, ThreadKept DEF TransportInv, Shape
    <3>2. ClientsTypedNext
      BY <2>1, TypedIsShape DEF ClientsTyped, ClientsTypedNext, clientVars, TransportInv, Shape
    <3> QED BY <2>2, <3>1, <3>2, TypedIsShape DEF TransportInv, Shape
  <2>4. Before
    BY <2>2, <2>3 DEF Before
  <2>5. ASSUME NEW c \in Client PROVE Held(c)
    BY <2>1, <2>2, <2>4, ThreadApart, ApartKept
  <2>6. ThreadIdle' /\ Unserved' /\ CountsBounded'
    BY <2>2 DEF TransportInv, ThreadIdle, Unserved, CountsBounded, NoEntries, Absent
  <2> QED BY <2>3, <2>5, <2>6 DEF TransportInv, Held
<1> QED BY <1>1, <1>2

(* A client that was told of no defect has everything in order.             *)
LEMMA InOrder ==
  ASSUME TransportInv
  PROVE  DeliveredInOrder
<1> SUFFICES ASSUME NEW c \in Client, socket[c] = "open", Defect \notin Range(received[c] \o writing[c])
             PROVE  received[c] \o OnTheWay(c) = sent[c]
  BY DEF DeliveredInOrder
<1>1. received[c] \in Items /\ writing[c] \in Items
  BY WayTyped DEF TransportInv
<1>2. Clean(received[c] \o writing[c], <<>>)
  <2>1. Range(<<>>) = {}
    BY DEF Range
  <2> QED BY <2>1 DEF Clean
<1>3. Clean(received[c], writing[c])
  BY <1>1, <1>2, CleanFacts
<1>4. Whole(c) = sent[c]
  BY <1>3 DEF TransportInv, Ordered
<1> QED BY <1>4 DEF Whole, Joined, OnTheWay

(* The books bound what is on its way, and the acks.                        *)
LEMMA Sound ==
  ASSUME TransportInv
  PROVE  ClientsSound
<1>1. Shape /\ scenario.chunks \in Nat
  BY DemandFacts DEF TransportInv, Shape, ClientsShape
<1>2. ActiveClientsExact
  BY DEF TransportInv, Placed, Alive, ActiveClientsExact
<1>3. NoCallFloods
  <2> SUFFICES ASSUME NEW c \in Client, NEW r \in AllCalls, NEW kind \in {"Chunk", "Exit"}
               PROVE  Count(OnTheWay(c), kind, r) <= 1
    BY DEF NoCallFloods
  <2> DEFINE g == received[c]  w == writing[c]  q == queue[c]  b == BatchesFor(toWorker, c)  p == pendingSends.entries[c]
  <2>1. g \in Items /\ w \in Items /\ q \in Items /\ b \in Items /\ p \in Items
    BY <1>1, WayTyped, ItemFacts
  <2>2. Balanced(c, r) /\ Reckonable(c, r)
    BY <1>1, Counted DEF TransportInv
  <2>3. Whole(c) = Joined(g, w, q, b, p) /\ OnTheWay(c) = ((w \o q) \o b) \o p
    BY DEF Whole, OnTheWay
  <2>4. /\ Count(Joined(g, w, q, b, p), "Chunk", r) <= Count(g, "Chunk", r) + 1
        /\ Count(Joined(g, w, q, b, p), "Exit", r) <= 1
    <3> HIDE DEF w, q, b, p
    <3> QED BY <2>2, <2>3 DEF Balanced, Reckonable, Account
  <2> HIDE DEF g, w, q, b, p
  <2>5. \A k \in {"Chunk", "Exit"} : Count(((w \o q) \o b) \o p, k, r) <= 1
    BY <2>1, <2>4, FewOnTheWay
  <2> QED BY <2>3, <2>5
<1>4. TransportTypeOK
  <2> DEFINE Peer == [asked : BOOLEAN, acked : 0 .. scenario.chunks, gaveUp : BOOLEAN]
             Gauge == {Absent} \cup 0 .. 2 * Cardinality(AllCalls)
  <2>1. peer \in [Client -> [AllCalls -> Peer]]
    <3>1. ASSUME NEW c \in Client, NEW r \in AllCalls PROVE peer[c][r] \in Peer
      <4>1. Balanced(c, r) /\ Reckonable(c, r)
        BY <1>1, Counted DEF TransportInv
      <4>2. peer[c][r].acked \in 0 .. scenario.chunks
        BY <4>1 DEF Balanced, Reckonable, Account
      <4>3. peer[c][r] \in PeerRecord
        BY <1>1 DEF Shape, ClientsShape
      <4> QED BY <4>2, <4>3 DEF PeerRecord
    <3> HIDE DEF Peer
    <3>2. peer \in [Client -> [AllCalls -> PeerRecord]]
      BY <1>1 DEF Shape, ClientsShape
    <3>3. \A c \in Client : peer[c] \in [AllCalls -> Peer]
      BY <3>1, <3>2
    <3> QED BY <3>2, <3>3
  <2>2. gauge \in [Client -> Gauge]
    <3>1. Cardinality(AllCalls) \in Nat
      BY <1>1, DemandFacts DEF Shape, ClientsShape
    <3>2. \A c \in Client : gauge[c] \in Gauge
      BY <1>1, <3>1 DEF TransportInv, CountsBounded, Shape, ClientsShape, Absent
    <3> HIDE DEF Gauge
    <3> QED BY <1>1, <3>2 DEF Shape, ClientsShape
  <2>3. ClientsTypeOK
    BY <1>1, <2>1, <2>2 DEF ClientsTypeOK, Shape, ClientsShape, CallStates, Item
  <2> QED BY <1>1, <2>3 DEF TransportTypeOK, Shape, ClientsShape
<1> QED BY <1>2, <1>3, <1>4 DEF ClientsSound

(* Both transports deliver in order: a client whose socket is open and that *)
(* was not told of a defect has what the RPC server sent it, in its order   *)
(* and without a gap, up to what is on its way.                             *)
THEOREM DeliveredAlwaysInOrder == TransportSpec => []DeliveredInOrder
<1>1. TransportInit => TransportInv
  BY InvAtFirst
<1>2. TransportInv /\ [TransportNext]_transportVars => TransportInv'
  BY InvKept
<1>3. TransportInv => DeliveredInOrder
  BY InOrder
<1> QED BY <1>1, <1>2, <1>3, PTL DEF TransportSpec

(* The types, that the connections counted are those that have a socket,    *)
(* and that a call never has more than one chunk and its exit on their way. *)
THEOREM ClientsAlwaysSound == TransportSpec => []ClientsSound
<1>1. TransportInit => TransportInv
  BY InvAtFirst
<1>2. TransportInv /\ [TransportNext]_transportVars => TransportInv'
  BY InvKept
<1>3. TransportInv => ClientsSound
  BY Sound
<1> QED BY <1>1, <1>2, <1>3, PTL DEF TransportSpec
==============================================================================
