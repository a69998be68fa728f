-------------------------- MODULE FanoutQueueProofs --------------------------
(***************************************************************************)
(* What the recursive functions of FanoutQueue compute, for every sequence *)
(* of events: each is unrolled at its ends.  Induction is by a set: one    *)
(* that holds 0 and the successor of what it holds, up to a bound, holds   *)
(* everything up to the bound.                                             *)
(***************************************************************************)
EXTENDS FanoutQueue, SequenceTheorems, WellFoundedInduction, TLAPS

(* A set of naturals that is not empty has a least element. *)
LEMMA LeastElement ==
  ASSUME NEW S \in SUBSET Nat, S # {}
  PROVE  \E m \in S : \A k \in S : m <= k
<1>1. PICK m \in S : \A k \in S : ~ (<<k, m>> \in OpToRel(<, Nat))
  BY NatLessThanWellFounded, WFMin
<1>2. \A k \in S : ~ (k < m)
  BY <1>1 DEF OpToRel
<1>3. \A k \in S : m <= k
  BY <1>2
<1> QED BY <1>3

(* Induction up to a bound: a least element outside S has a predecessor in it. *)
LEMMA UpTo ==
  ASSUME NEW N \in Nat, NEW S, 0 \in S, \A n \in 1 .. N : n - 1 \in S => n \in S
  PROVE  \A n \in 0 .. N : n \in S
<1> DEFINE bad == {n \in 0 .. N : n \notin S}
<1> SUFFICES ASSUME bad # {} PROVE FALSE
  OBVIOUS
<1>1. bad \in SUBSET Nat
  OBVIOUS
<1>2. PICK m \in bad : \A k \in bad : m <= k
  <2> HIDE DEF bad
  <2> QED BY <1>1, LeastElement
<1>3. m \in 1 .. N
  OBVIOUS
<1>4. m - 1 \in 0 .. N /\ m - 1 \notin bad
  BY <1>2, <1>3
<1> QED BY <1>3, <1>4

(* f[n] comes from f[n - 1] by step[n], from a base, all in X. *)
Recursion(f, N, X, base, step) ==
  f \in [0 .. N -> X] /\ f[0] = base /\ \A n \in 1 .. N : f[n] = step[n][f[n - 1]]

(* What is defined by recursion exists ... *)
LEMMA RecursionExists ==
  ASSUME NEW N \in Nat, NEW X, NEW base \in X, NEW step \in [1 .. N -> [X -> X]]
  PROVE  \E f : Recursion(f, N, X, base, step)
<1> DEFINE S == {m \in 0 .. N : \E f : Recursion(f, m, X, base, step)}
<1>1. 0 \in S
  <2>1. Recursion([n \in 0 .. 0 |-> base], 0, X, base, step)
    BY DEF Recursion
  <2> QED BY <2>1
<1>2. ASSUME NEW m \in 1 .. N, m - 1 \in S PROVE m \in S
  <2>1. PICK f : Recursion(f, m - 1, X, base, step)
    BY <1>2
  <2> DEFINE g == [n \in 0 .. m |-> IF n = m THEN step[m][f[m - 1]] ELSE f[n]]
  <2>2. Recursion(g, m, X, base, step)
    <3>1. f[m - 1] \in X /\ step[m] \in [X -> X]
      BY <2>1 DEF Recursion
    <3>2. g \in [0 .. m -> X] /\ g[0] = base
      BY <2>1, <3>1 DEF Recursion
    <3>3. ASSUME NEW n \in 1 .. m PROVE g[n] = step[n][g[n - 1]]
      BY <2>1 DEF Recursion
    <3> HIDE DEF g
    <3> QED BY <3>2, <3>3 DEF Recursion
  <2> HIDE DEF g
  <2> QED BY <2>2
<1> HIDE DEF S
<1>3. \A n \in 1 .. N : n - 1 \in S => n \in S
  BY <1>2
<1>4. \A n \in 0 .. N : n \in S
  BY <1>1, <1>3, UpTo, Zenon
<1>5. N \in S
  BY <1>4
<1> QED BY <1>5 DEF S

(* ... and two functions with the same recursion end alike. *)
Agree(f, g, N) == f[0] = g[0] /\ \A n \in 1 .. N : f[n - 1] = g[n - 1] => f[n] = g[n]

(* Two functions that agree at zero and step alike are equal. *)
LEMMA RecursionUnique ==
  ASSUME NEW N \in Nat, NEW f, NEW g, Agree(f, g, N)
  PROVE  \A n \in 0 .. N : f[n] = g[n]
<1> DEFINE S == {n \in 0 .. N : f[n] = g[n]}
<1>1. 0 \in S
  BY DEF Agree
<1>2. \A n \in 1 .. N : n - 1 \in S => n \in S
  BY DEF Agree
<1> HIDE DEF S
<1>3. \A n \in 0 .. N : n \in S
  BY <1>1, <1>2, UpTo, Zenon
<1> QED BY <1>3 DEF S

-----------------------------------------------------------------------------
(* Operations on rows (ApplyOps) *)

Operated(rows, op) == IF rows = op.base THEN op.rows ELSE NoRows

(* The rows before the first operation and after each. *)
OpsTrace(f, R, rows, ops) ==
  /\ f \in [0 .. Len(ops) -> R] /\ f[0] = rows
  /\ \A n \in 1 .. Len(ops) : f[n] = Operated(f[n - 1], ops[n])

(* Applying operations is a run along their sequence. *)
LEMMA OpsUnrolled ==
  ASSUME NEW R, NoRows \in R, NEW ops \in Seq(Operations(R)), NEW rows \in R
  PROVE  \E f : OpsTrace(f, R, rows, ops) /\ ApplyOps(rows, ops) = f[Len(ops)]
<1> DEFINE N == Len(ops)
<1>1. N \in Nat /\ \A n \in 1 .. N : ops[n] \in Operations(R)
  OBVIOUS
<1> HIDE DEF N
<1>2. \A n \in 1 .. N, x \in R : Operated(x, ops[n]) \in R
  BY <1>1 DEF Operated, Operations
<1> DEFINE step == [n \in 1 .. N |-> [x \in R |-> Operated(x, ops[n])]]
<1>3. step \in [1 .. N -> [R -> R]]
  BY <1>2
<1>4. \E f : Recursion(f, N, R, rows, step)
  <2> HIDE DEF step
  <2> QED BY <1>1, <1>3, RecursionExists
<1>5. PICK f : Recursion(f, N, R, rows, step)
  BY <1>4, Zenon
<1>6. \A n \in 1 .. N : f[n - 1] \in R /\ f[n] = Operated(f[n - 1], ops[n])
  BY <1>1, <1>5 DEF Recursion
<1> DEFINE Is(h) == h = [n \in 0 .. Len(ops) |->
                          IF n = 0 THEN rows
                          ELSE IF h[n - 1] = ops[n].base THEN ops[n].rows ELSE NoRows]
           g == CHOOSE h : Is(h)
<1>7. ApplyOps(rows, ops) = g[Len(ops)]
  BY Zenon DEF ApplyOps
<1>8. Is(f)
  <2>1. \A n \in 0 .. N : f[n] = IF n = 0 THEN rows
                                 ELSE IF f[n - 1] = ops[n].base THEN ops[n].rows ELSE NoRows
    BY <1>1, <1>5, <1>6 DEF Operated, Recursion
  <2>2. f = [n \in 0 .. N |-> f[n]]
    BY <1>5 DEF Recursion
  <2> QED BY <2>1, <2>2 DEF N
<1>9. Is(g)
  <2> HIDE DEF Is
  <2> QED BY <1>8
<1> HIDE DEF g, step
<1>10. Agree(g, f, N)
  BY <1>1, <1>5, <1>6, <1>9 DEF Operated, Agree, Recursion, N
<1>11. g[N] = f[N]
  <2>1. \A n \in 0 .. N : g[n] = f[n]
    <3> HIDE DEF Is
    <3> QED BY <1>1, <1>10, RecursionUnique
  <2> QED BY <1>1, <2>1
<1>12. OpsTrace(f, R, rows, ops)
  BY <1>5, <1>6 DEF OpsTrace, Recursion, N
<1> HIDE DEF Is
<1> QED BY <1>7, <1>11, <1>12 DEF N

(* No operation, one more, and the type of what comes out. *)
LEMMA OpsApplied ==
  ASSUME NEW R, NoRows \in R, NEW rows \in R
  PROVE  /\ ApplyOps(rows, << >>) = rows
         /\ \A ops \in Seq(Operations(R)) : ApplyOps(rows, ops) \in R
         /\ \A ops \in Seq(Operations(R)), op \in Operations(R) :
              ApplyOps(rows, ops \o <<op>>) = Operated(ApplyOps(rows, ops), op)
<1>1. << >> \in Seq(Operations(R)) /\ Len(<< >>) = 0
  OBVIOUS
<1>2. ApplyOps(rows, << >>) = rows
  <2>1. PICK f : OpsTrace(f, R, rows, << >>) /\ ApplyOps(rows, << >>) = f[Len(<< >>)]
    BY <1>1, OpsUnrolled
  <2> QED BY <1>1, <2>1 DEF OpsTrace
<1>3. ASSUME NEW ops \in Seq(Operations(R)) PROVE ApplyOps(rows, ops) \in R
  <2>1. PICK f : OpsTrace(f, R, rows, ops) /\ ApplyOps(rows, ops) = f[Len(ops)]
    BY OpsUnrolled
  <2>2. Len(ops) \in 0 .. Len(ops)
    OBVIOUS
  <2> QED BY <2>1, <2>2 DEF OpsTrace
<1>4. ASSUME NEW ops \in Seq(Operations(R)), NEW op \in Operations(R)
      PROVE  ApplyOps(rows, ops \o <<op>>) = Operated(ApplyOps(rows, ops), op)
  <2> DEFINE N == Len(ops)
             longer == ops \o <<op>>
  <2>1. N \in Nat /\ longer \in Seq(Operations(R)) /\ Len(longer) = N + 1 /\ longer[N + 1] = op
        /\ \A n \in 1 .. N : longer[n] = ops[n]
    OBVIOUS
  <2>2. PICK f : OpsTrace(f, R, rows, ops) /\ ApplyOps(rows, ops) = f[N]
    BY OpsUnrolled
  <2> HIDE DEF longer
  <2>3. PICK g : OpsTrace(g, R, rows, longer) /\ ApplyOps(rows, longer) = g[Len(longer)]
    BY <2>1, OpsUnrolled
  <2>4. Agree(g, f, N)
    BY <2>1, <2>2, <2>3 DEF OpsTrace, Agree
  <2>5. \A n \in 0 .. N : g[n] = f[n]
    <3> HIDE DEF N
    <3> QED BY <2>1, <2>4, RecursionUnique
  <2>6. g[N] = f[N] /\ g[N + 1] = Operated(g[N], op)
    BY <2>1, <2>3, <2>5 DEF OpsTrace
  <2> QED BY <2>1, <2>2, <2>3, <2>6 DEF longer
<1> QED BY <1>2, <1>3, <1>4

-----------------------------------------------------------------------------
(* What a reader shows (RowsShown) *)

(* An event taken leaves rows. *)
LEMMA RowsTakenType ==
  ASSUME NEW R, NoRows \in R, NEW rows \in R, NEW event \in Events(R)
  PROVE  RowsTaken(rows, event) \in R
BY OpsApplied DEF RowsTaken, Events

(* The rows before the first event and after each. *)
Reading(f, R, rows, events) ==
  /\ f \in [0 .. Len(events) -> R] /\ f[0] = rows
  /\ \A n \in 1 .. Len(events) : f[n] = RowsTaken(f[n - 1], events[n])

(* Any reading of the events ends with what the reader shows ... *)
LEMMA ReadingShows ==
  ASSUME NEW R, NEW events \in Seq(Events(R)), NEW rows, NEW f, Reading(f, R, rows, events)
  PROVE  RowsShown(rows, events) = f[Len(events)]
<1> DEFINE N == Len(events)
           Is(h) == h = [n \in 0 .. Len(events) |->
                          IF n = 0 THEN rows ELSE RowsTaken(h[n - 1], events[n])]
           g == CHOOSE h : Is(h)
<1>1. N \in Nat
  OBVIOUS
<1>2. RowsShown(rows, events) = g[Len(events)]
  BY Zenon DEF RowsShown
<1>3. Is(f)
  <2>1. \A n \in 0 .. N : f[n] = IF n = 0 THEN rows ELSE RowsTaken(f[n - 1], events[n])
    BY <1>1 DEF Reading
  <2>2. f = [n \in 0 .. N |-> f[n]]
    BY DEF Reading
  <2> QED BY <2>1, <2>2
<1>4. Is(g)
  <2> HIDE DEF Is
  <2> QED BY <1>3
<1> HIDE DEF g
<1>5. Agree(g, f, N)
  BY <1>1, <1>4 DEF Agree, Reading
<1> HIDE DEF Is, N
<1>6. \A n \in 0 .. N : g[n] = f[n]
  BY <1>1, <1>5, RecursionUnique
<1> QED BY <1>1, <1>2, <1>6 DEF N

(* ... and there is one. *)
LEMMA ReadingExists ==
  ASSUME NEW R, NoRows \in R, NEW events \in Seq(Events(R)), NEW rows \in R
  PROVE  \E f : Reading(f, R, rows, events)
<1> DEFINE N == Len(events)
<1>1. N \in Nat /\ \A n \in 1 .. N : events[n] \in Events(R)
  OBVIOUS
<1> HIDE DEF N
<1>2. \A n \in 1 .. N, x \in R : RowsTaken(x, events[n]) \in R
  BY <1>1, RowsTakenType
<1> DEFINE step == [n \in 1 .. N |-> [x \in R |-> RowsTaken(x, events[n])]]
<1>3. step \in [1 .. N -> [R -> R]]
  BY <1>2
<1>4. \E f : Recursion(f, N, R, rows, step)
  <2> HIDE DEF step
  <2> QED BY <1>1, <1>3, RecursionExists
<1>5. PICK f : Recursion(f, N, R, rows, step)
  BY <1>4, Zenon
<1>6. ASSUME NEW n \in 1 .. N PROVE f[n] = RowsTaken(f[n - 1], events[n])
  <2>1. f[n - 1] \in R
    BY <1>1, <1>5 DEF Recursion
  <2>2. f[n] = step[n][f[n - 1]]
    BY <1>5 DEF Recursion
  <2> QED BY <2>1, <2>2
<1>7. Reading(f, R, rows, events)
  BY <1>5, <1>6 DEF Reading, Recursion, N
<1> QED BY <1>7

(* A reader without events shows what it has; the newest event is taken    *)
(* last, and the oldest first.                                             *)
LEMMA ShownOfNone ==
  ASSUME NEW R, NEW rows \in R
  PROVE  RowsShown(rows, << >>) = rows
<1> DEFINE f == [n \in 0 .. 0 |-> rows]
<1>1. << >> \in Seq(Events(R)) /\ Len(<< >>) = 0
  OBVIOUS
<1>2. Reading(f, R, rows, << >>) /\ f[0] = rows
  BY <1>1 DEF Reading
<1> HIDE DEF f
<1>3. RowsShown(rows, << >>) = f[Len(<< >>)]
  BY <1>1, <1>2, ReadingShows
<1> QED BY <1>1, <1>2, <1>3

(* Events taken one after the other leave rows. *)
LEMMA ShownType ==
  ASSUME NEW R, NoRows \in R, NEW events \in Seq(Events(R)), NEW rows \in R
  PROVE  RowsShown(rows, events) \in R
<1>1. PICK f : Reading(f, R, rows, events)
  BY ReadingExists
<1>2. RowsShown(rows, events) = f[Len(events)]
  BY <1>1, ReadingShows
<1>3. Len(events) \in 0 .. Len(events)
  OBVIOUS
<1> QED BY <1>1, <1>2, <1>3 DEF Reading

(* A reading that goes on with one more event. *)
LEMMA ReadingAppended ==
  ASSUME NEW R, NoRows \in R, NEW events \in Seq(Events(R)), NEW event \in Events(R),
         NEW rows \in R, NEW f, Reading(f, R, rows, events),
         NEW g, g = [n \in 0 .. (Len(events) + 1) |->
                       IF n = Len(events) + 1 THEN RowsTaken(f[Len(events)], event) ELSE f[n]]
  PROVE  Reading(g, R, rows, Append(events, event))
<1> DEFINE N == Len(events)
           longer == Append(events, event)
<1>1. /\ N \in Nat /\ longer \in Seq(Events(R)) /\ Len(longer) = N + 1
      /\ longer[N + 1] = event /\ \A n \in 1 .. N : longer[n] = events[n]
  OBVIOUS
<1>2. f[N] \in R /\ f[0] = rows /\ f \in [0 .. N -> R]
  BY <1>1 DEF Reading
<1>3. RowsTaken(f[N], event) \in R
  BY <1>2, RowsTakenType
<1>4. g \in [0 .. (N + 1) -> R] /\ g[0] = rows
  BY <1>1, <1>2, <1>3
<1>5. \A n \in 1 .. N : f[n] = RowsTaken(f[n - 1], events[n])
  BY DEF Reading
<1>6. ASSUME NEW n \in 1 .. (N + 1) PROVE g[n] = RowsTaken(g[n - 1], longer[n])
  <2> HIDE DEF longer, N
  <2>1. CASE n = N + 1
    <3>1. g[n] = RowsTaken(f[N], event) /\ g[n - 1] = f[N]
      BY <1>1, <2>1 DEF N
    <3> QED BY <1>1, <2>1, <3>1
  <2>2. CASE n \in 1 .. N
    <3>1. g[n] = f[n] /\ g[n - 1] = f[n - 1]
      BY <1>1, <2>2 DEF N
    <3> QED BY <1>1, <1>5, <2>2, <3>1
  <2> QED BY <1>1, <2>1, <2>2
<1> HIDE DEF longer, N
<1>7. Reading(g, R, rows, longer)
  BY <1>1, <1>4, <1>6 DEF Reading
<1> QED BY <1>7 DEF longer

(* The last of the events is taken last. *)
LEMMA ShownAppended ==
  ASSUME NEW R, NoRows \in R, NEW events \in Seq(Events(R)), NEW event \in Events(R),
         NEW rows \in R
  PROVE  RowsShown(rows, Append(events, event)) = RowsTaken(RowsShown(rows, events), event)
<1> DEFINE N == Len(events)
<1>1. PICK f : Reading(f, R, rows, events)
  BY ReadingExists
<1> DEFINE g == [n \in 0 .. (N + 1) |-> IF n = N + 1 THEN RowsTaken(f[N], event) ELSE f[n]]
<1>2. N \in Nat /\ Append(events, event) \in Seq(Events(R)) /\ Len(Append(events, event)) = N + 1
  OBVIOUS
<1>3. g[N + 1] = RowsTaken(f[N], event)
  BY <1>2
<1>4. Reading(g, R, rows, Append(events, event))
  <2> HIDE DEF g
  <2> QED BY <1>1, ReadingAppended DEF g
<1> HIDE DEF g
<1>5. RowsShown(rows, Append(events, event)) = g[Len(Append(events, event))]
  BY <1>2, <1>4, ReadingShows
<1>6. RowsShown(rows, events) = f[N]
  BY <1>1, ReadingShows
<1> QED BY <1>2, <1>3, <1>5, <1>6

(* A reading without its first event. *)
LEMMA ReadingTail ==
  ASSUME NEW R, NEW events \in Seq(Events(R)), events # << >>, NEW rows,
         NEW f, Reading(f, R, rows, events),
         NEW g, g = [n \in 0 .. (Len(events) - 1) |-> f[n + 1]]
  PROVE  Reading(g, R, RowsTaken(rows, Head(events)), Tail(events))
<1> DEFINE N == Len(events)
           rest == Tail(events)
<1>1. /\ N \in Nat \ {0} /\ rest \in Seq(Events(R)) /\ Len(rest) = N - 1
      /\ Head(events) = events[1] /\ \A n \in 1 .. (N - 1) : rest[n] = events[n + 1]
  OBVIOUS
<1>2. f[0] = rows /\ f \in [0 .. N -> R]
  BY DEF Reading
<1>3. \A n \in 1 .. N : f[n] = RowsTaken(f[n - 1], events[n])
  BY DEF Reading
<1> HIDE DEF rest, N
<1>4. g \in [0 .. (N - 1) -> R]
  BY <1>1, <1>2 DEF N
<1>5. g[0] = RowsTaken(rows, Head(events))
  <2>1. f[1] = RowsTaken(f[0], events[1])
    BY <1>1, <1>3
  <2> QED BY <1>1, <1>2, <2>1 DEF N
<1>6. ASSUME NEW n \in 1 .. (N - 1) PROVE g[n] = RowsTaken(g[n - 1], rest[n])
  <2>1. f[n + 1] = RowsTaken(f[n], events[n + 1])
    BY <1>1, <1>3
  <2>2. g[n] = f[n + 1] /\ g[n - 1] = f[n]
    BY <1>1 DEF N
  <2> QED BY <1>1, <2>1, <2>2
<1>7. Reading(g, R, RowsTaken(rows, Head(events)), rest)
  BY <1>1, <1>4, <1>5, <1>6 DEF Reading
<1> QED BY <1>7 DEF rest

(* The oldest event may be taken first and the others after it, as readers *)
(* do.                                                                     *)
LEMMA ShownFromOldest ==
  ASSUME NEW R, NoRows \in R, NEW events \in Seq(Events(R)), events # << >>, NEW rows \in R
  PROVE  RowsShown(rows, events) = RowsShown(RowsTaken(rows, Head(events)), Tail(events))
<1> DEFINE N == Len(events)
<1>1. PICK f : Reading(f, R, rows, events)
  BY ReadingExists
<1> DEFINE g == [n \in 0 .. (N - 1) |-> f[n + 1]]
<1>2. N \in Nat \ {0} /\ Tail(events) \in Seq(Events(R)) /\ Len(Tail(events)) = N - 1
  OBVIOUS
<1>3. g[N - 1] = f[N]
  BY <1>2
<1>4. Reading(g, R, RowsTaken(rows, Head(events)), Tail(events))
  <2> HIDE DEF g
  <2> QED BY <1>1, ReadingTail DEF g
<1> HIDE DEF g
<1>5. RowsShown(RowsTaken(rows, Head(events)), Tail(events)) = g[Len(Tail(events))]
  BY <1>2, <1>4, ReadingShows
<1>6. RowsShown(rows, events) = f[N]
  BY <1>1, ReadingShows
<1> QED BY <1>2, <1>3, <1>5, <1>6

-----------------------------------------------------------------------------
(* What is kept when the status events go (WithoutStatus) *)

Kept(so, event) == IF event.type = "status" THEN so ELSE Append(so, event)

(* What is kept of the first n events. *)
KeptTrace(f, E, events) ==
  /\ f \in [0 .. Len(events) -> Seq(E)] /\ f[0] = << >>
  /\ \A n \in 1 .. Len(events) : f[n] = Kept(f[n - 1], events[n])

(* Dropping the statuses is a run along the events. *)
LEMMA KeptUnrolled ==
  ASSUME NEW E, NEW events \in Seq(E)
  PROVE  \E f : KeptTrace(f, E, events) /\ WithoutStatus(events) = f[Len(events)]
<1> DEFINE N == Len(events)
<1>1. N \in Nat /\ \A n \in 1 .. N : events[n] \in E
  OBVIOUS
<1> HIDE DEF N
<1>2. \A n \in 1 .. N, so \in Seq(E) : Kept(so, events[n]) \in Seq(E)
  BY <1>1 DEF Kept
<1> DEFINE step == [n \in 1 .. N |-> [so \in Seq(E) |-> Kept(so, events[n])]]
<1>3. step \in [1 .. N -> [Seq(E) -> Seq(E)]] /\ << >> \in Seq(E)
  BY <1>2
<1>4. \E f : Recursion(f, N, Seq(E), << >>, step)
  <2> HIDE DEF step
  <2> QED BY <1>1, <1>3, RecursionExists
<1>5. PICK f : Recursion(f, N, Seq(E), << >>, step)
  BY <1>4, Zenon
<1>6. ASSUME NEW n \in 1 .. N PROVE f[n] = Kept(f[n - 1], events[n])
  <2>1. f[n - 1] \in Seq(E)
    BY <1>1, <1>5 DEF Recursion
  <2>2. f[n] = step[n][f[n - 1]]
    BY <1>5 DEF Recursion
  <2> QED BY <2>1, <2>2
<1> DEFINE Is(h) == h = [n \in 0 .. Len(events) |->
                          IF n = 0 THEN << >>
                          ELSE IF events[n].type = "status" THEN h[n - 1]
                                                            ELSE Append(h[n - 1], events[n])]
           g == CHOOSE h : Is(h)
<1>7. WithoutStatus(events) = g[Len(events)]
  BY Zenon DEF WithoutStatus
<1>8. Is(f)
  <2>1. \A n \in 0 .. N : f[n] = IF n = 0 THEN << >>
                                 ELSE IF events[n].type = "status" THEN f[n - 1]
                                                                   ELSE Append(f[n - 1], events[n])
    <3> HIDE DEF step
    <3>1. f[0] = << >>
      BY <1>5 DEF Recursion
    <3>2. \A n \in 1 .. N : f[n] = IF events[n].type = "status" THEN f[n - 1]
                                                                  ELSE Append(f[n - 1], events[n])
      BY <1>6 DEF Kept
    <3> QED BY <1>1, <3>1, <3>2
  <2>2. f = [n \in 0 .. N |-> f[n]]
    BY <1>5 DEF Recursion
  <2> QED BY <2>1, <2>2 DEF N
<1>9. Is(g)
  <2> HIDE DEF Is
  <2> QED BY <1>8
<1> HIDE DEF g, step
<1>10. Agree(g, f, N)
  <2>1. f[0] = << >> /\ g[0] = << >>
    BY <1>1, <1>5, <1>9 DEF Recursion, N
  <2>2. \A n \in 1 .. N : g[n] = IF events[n].type = "status" THEN g[n - 1]
                                                                ELSE Append(g[n - 1], events[n])
    <3> SUFFICES ASSUME NEW n \in 1 .. N
                 PROVE  g[n] = IF events[n].type = "status" THEN g[n - 1] ELSE Append(g[n - 1], events[n])
      OBVIOUS
    <3>1. n \in 0 .. Len(events) /\ n # 0
      BY <1>1 DEF N
    <3> QED BY <1>9, <3>1, Zenon
  <2>3. \A n \in 1 .. N : g[n] = Kept(g[n - 1], events[n])
    BY <2>2, Zenon DEF Kept
  <2>4. \A n \in 1 .. N : g[n - 1] = f[n - 1] => g[n] = f[n]
    BY <1>6, <2>3
  <2> QED BY <2>1, <2>4 DEF Agree
<1>11. \A n \in 0 .. N : g[n] = f[n]
  <2> HIDE DEF Is
  <2> QED BY <1>1, <1>10, RecursionUnique
<1>12. KeptTrace(f, E, events)
  BY <1>5, <1>6 DEF KeptTrace, Recursion, N
<1> HIDE DEF Is
<1> QED BY <1>1, <1>7, <1>11, <1>12 DEF N

(* It is made of the same events, and no longer. *)
LEMMA KeptType ==
  ASSUME NEW E, NEW events \in Seq(E)
  PROVE  WithoutStatus(events) \in Seq(E) /\ Len(WithoutStatus(events)) <= Len(events)
<1> DEFINE N == Len(events)
<1>1. N \in Nat
  OBVIOUS
<1>2. PICK f : KeptTrace(f, E, events) /\ WithoutStatus(events) = f[N]
  BY KeptUnrolled
<1> DEFINE S == {n \in 0 .. N : Len(f[n]) <= n}
<1>3. 0 \in S
  BY <1>1, <1>2 DEF KeptTrace
<1>4. ASSUME NEW n \in 1 .. N, n - 1 \in S PROVE n \in S
  <2>1. f[n - 1] \in Seq(E) /\ Len(f[n - 1]) <= n - 1 /\ f[n] = Kept(f[n - 1], events[n])
    BY <1>1, <1>2, <1>4 DEF KeptTrace
  <2>2. Len(f[n]) <= n
    BY <2>1 DEF Kept
  <2> QED BY <1>1, <2>2
<1> HIDE DEF S, N
<1>5. \A n \in 1 .. N : n - 1 \in S => n \in S
  BY <1>4
<1>6. \A n \in 0 .. N : n \in S
  BY <1>1, <1>3, <1>5, UpTo, Zenon
<1>7. N \in S /\ f[N] \in Seq(E)
  BY <1>1, <1>2, <1>6 DEF KeptTrace, N
<1> QED BY <1>2, <1>7 DEF S, N

(* A reader shows the same rows without them. *)
LEMMA KeptShown ==
  ASSUME NEW R, NoRows \in R, NEW events \in Seq(Events(R)), NEW rows \in R
  PROVE  RowsShown(rows, WithoutStatus(events)) = RowsShown(rows, events)
<1> DEFINE N == Len(events)
<1>1. N \in Nat /\ \A n \in 1 .. N : events[n] \in Events(R)
  OBVIOUS
<1>2. PICK f : KeptTrace(f, Events(R), events) /\ WithoutStatus(events) = f[N]
  BY KeptUnrolled
<1>3. PICK g : Reading(g, R, rows, events)
  BY ReadingExists
<1> DEFINE S == {n \in 0 .. N : RowsShown(rows, f[n]) = g[n]}
<1>4. 0 \in S
  BY <1>1, <1>2, <1>3, ShownOfNone DEF KeptTrace, Reading
<1>5. ASSUME NEW n \in 1 .. N, n - 1 \in S PROVE n \in S
  <2>0. n - 1 \in 0 .. N /\ n \in 0 .. N /\ events[n] \in Events(R)
    BY <1>1
  <2>a. f \in [0 .. N -> Seq(Events(R))] /\ \A k \in 1 .. N : f[k] = Kept(f[k - 1], events[k])
    BY <1>2 DEF KeptTrace
  <2> DEFINE so == Seq(Events(R))
  <2> HIDE DEF so
  <2>b. f \in [0 .. N -> so]
    BY <2>a DEF so
  <2>c. f[n - 1] \in so
    BY <2>0, <2>b
  <2>1. /\ f[n - 1] \in Seq(Events(R)) /\ f[n] = Kept(f[n - 1], events[n])
        /\ events[n] \in Events(R)
    BY <2>0, <2>a, <2>c DEF so
  <2>2. g[n - 1] \in R /\ g[n] = RowsTaken(g[n - 1], events[n])
    BY <1>1, <1>3 DEF Reading
  <2>3. RowsShown(rows, f[n - 1]) = g[n - 1]
    BY <1>5
  <2>4. CASE events[n].type = "status"
    <3>1. events[n].ops = << >>
      BY <2>1, <2>4 DEF Events
    <3>2. g[n] = g[n - 1]
      BY <2>2, <2>4, <3>1, OpsApplied DEF RowsTaken
    <3> QED BY <1>1, <2>1, <2>3, <2>4, <3>2 DEF Kept
  <2>5. CASE events[n].type # "status"
    <3>1. RowsShown(rows, Append(f[n - 1], events[n])) = RowsTaken(g[n - 1], events[n])
      BY <2>1, <2>3, ShownAppended
    <3>2. f[n] = Append(f[n - 1], events[n])
      BY <2>1, <2>5 DEF Kept
    <3> QED BY <2>0, <2>2, <3>1, <3>2
  <2> QED BY <2>4, <2>5
<1> HIDE DEF S, N
<1>6. \A n \in 1 .. N : n - 1 \in S => n \in S
  BY <1>5
<1>7. \A n \in 0 .. N : n \in S
  BY <1>1, <1>4, <1>6, UpTo, Zenon
<1>8. RowsShown(rows, f[N]) = g[N]
  BY <1>1, <1>7 DEF S
<1>9. RowsShown(rows, events) = g[N]
  BY <1>3, ReadingShows DEF N
<1> QED BY <1>2, <1>8, <1>9

-----------------------------------------------------------------------------
(* The versions of lag that a queue holds (QueuedLag) *)

(* The lag of a queue is a number, zero without deltas. *)
LEMMA LagType ==
  ASSUME NEW R, NEW events \in Seq(Events(R))
  PROVE  /\ QueuedLag(events) \in Nat
         /\ (\A n \in 1 .. Len(events) : events[n].type # "delta") => QueuedLag(events) = 0
<1> DEFINE N == Len(events)
<1>1. N \in Nat /\ \A n \in 1 .. N : events[n] \in Events(R)
  OBVIOUS
<1> HIDE DEF N
<1>2. \A n \in 1 .. N, x \in Nat : x + Span(events[n]) \in Nat
  <2>1. ASSUME NEW event \in Events(R) PROVE Span(event) \in Nat
    <3>1. event.to \in Nat /\ event.from \in Nat /\ event.from <= event.to
      BY DEF Events
    <3> QED BY <3>1 DEF Span
  <2> QED BY <1>1, <2>1
<1> DEFINE step == [n \in 1 .. N |-> [x \in Nat |-> x + Span(events[n])]]
<1>3. step \in [1 .. N -> [Nat -> Nat]]
  BY <1>2
<1>4. \E f : Recursion(f, N, Nat, 0, step)
  <2> HIDE DEF step
  <2> QED BY <1>1, <1>3, RecursionExists
<1>5. PICK f : Recursion(f, N, Nat, 0, step)
  BY <1>4, Zenon
<1>6. ASSUME NEW n \in 1 .. N PROVE f[n] = f[n - 1] + Span(events[n])
  <2>1. f[n - 1] \in Nat
    BY <1>1, <1>5 DEF Recursion
  <2>2. f[n] = step[n][f[n - 1]]
    BY <1>5 DEF Recursion
  <2> QED BY <2>1, <2>2
<1> DEFINE Is(h) == h = [n \in 0 .. Len(events) |->
                          IF n = 0 THEN 0 ELSE h[n - 1] + Span(events[n])]
           g == CHOOSE h : Is(h)
<1>7. QueuedLag(events) = g[Len(events)]
  BY Zenon DEF QueuedLag
<1>8. Is(f)
  <2>1. \A n \in 0 .. N : f[n] = IF n = 0 THEN 0 ELSE f[n - 1] + Span(events[n])
    BY <1>1, <1>5, <1>6 DEF Recursion
  <2>2. f = [n \in 0 .. N |-> f[n]]
    BY <1>5 DEF Recursion
  <2> QED BY <2>1, <2>2 DEF N
<1>9. Is(g)
  <2> HIDE DEF Is
  <2> QED BY <1>8
<1> HIDE DEF g, step
<1>10. Agree(g, f, N)
  BY <1>1, <1>5, <1>6, <1>9 DEF Agree, Recursion, N
<1>11. \A n \in 0 .. N : g[n] = f[n]
  <2> HIDE DEF Is
  <2> QED BY <1>1, <1>10, RecursionUnique
<1> HIDE DEF Is
<1>12. QueuedLag(events) = f[N] /\ f[N] \in Nat
  BY <1>1, <1>5, <1>7, <1>11 DEF Recursion, N
<1>13. ASSUME \A n \in 1 .. Len(events) : events[n].type # "delta" PROVE f[N] = 0
  <2>1. Agree(f, [n \in 0 .. N |-> 0], N)
    BY <1>1, <1>5, <1>6, <1>13 DEF Agree, Recursion, Span, N
  <2> DEFINE zero == [n \in 0 .. N |-> 0]
  <2> HIDE DEF zero
  <2>2. \A n \in 0 .. N : f[n] = zero[n]
    BY <1>1, <2>1, RecursionUnique DEF zero
  <2> QED BY <1>1, <2>2 DEF zero
<1> QED BY <1>12, <1>13

-----------------------------------------------------------------------------
(* What a status or a snapshot does to a queue (OfferFull): it is made of  *)
(* the same events and the new one, nothing is pending and it is not too   *)
(* long; a reader shows the rows of the snapshot, or what it would have    *)
(* shown without the status, and is stale if it is a status.               *)
Tells(R, E, rows, stale, events, event, next) ==
  /\ next \in [events : Seq(E), pending : {0}, lag : Nat]
  /\ Len(next.events) <= MaxQueueDepth
  /\ (\A e \in E : e.type # "delta") => next.lag = 0
  /\ RowsShown(rows, next.events) =
       IF event.type = "snapshot" THEN event.rows ELSE RowsShown(rows, events)
  /\ StaleShown(stale, next.events) <=> event.type = "status"

(* An accepted event that is no delta ends the queue that a reader sees, and *)
(* tells it whether it is stale.                                             *)
LEMMA OfferFullTells ==
  ASSUME NEW R, NoRows \in R, NEW rows \in R, NEW stale, NEW E \in SUBSET Events(R),
         NEW q, q.events \in Seq(E), NEW event \in E, event.type # "delta",
         OfferFull(q, event).offered
  PROVE  Tells(R, E, rows, stale, q.events, event, OfferFull(q, event).queue)
<1> DEFINE next == OfferFull(q, event).queue
<1> DEFINE kept == WithoutStatus(q.events)
           longer == Append(kept, event)
<1>1. kept \in Seq(E)
  BY KeptType
<1> HIDE DEF kept
<1>2. /\ longer \in Seq(E) /\ Len(longer) # 0 /\ Last(longer) = event
      /\ \A n \in 1 .. Len(longer) : longer[n] \in E
  BY <1>1 DEF Last
<1> HIDE DEF longer
<1>3. /\ next = [events |-> longer, pending |-> 0, lag |-> QueuedLag(longer)]
      /\ Len(longer) <= MaxQueueDepth
  <2>1. OfferFull(q, event) = IF Len(longer) > MaxQueueDepth THEN Refused(q)
                              ELSE Accepted(longer, 0, QueuedLag(longer))
    BY DEF OfferFull, kept, longer
  <2>2. Refused(q).offered = FALSE
    BY DEF Refused
  <2>3. ~ (Len(longer) > MaxQueueDepth)
    BY <2>1, <2>2
  <2>4. OfferFull(q, event).queue = [events |-> longer, pending |-> 0, lag |-> QueuedLag(longer)]
    BY <2>1, <2>3 DEF Accepted
  <2> QED BY <1>2, <2>3, <2>4, QueueConstants
<1>4. longer \in Seq(Events(R)) /\ kept \in Seq(Events(R)) /\ q.events \in Seq(Events(R))
  BY <1>1, <1>2
<1>5. /\ QueuedLag(longer) \in Nat
      /\ (\A e \in E : e.type # "delta") => QueuedLag(longer) = 0
  BY <1>2, <1>4, LagType
<1>6. RowsShown(rows, longer) =
        IF event.type = "snapshot" THEN event.rows ELSE RowsShown(rows, q.events)
  <2>1. RowsShown(rows, kept) = RowsShown(rows, q.events)
    BY <1>4, KeptShown DEF kept
  <2>2. RowsShown(rows, longer) = RowsTaken(RowsShown(rows, q.events), event)
    BY <1>4, <2>1, ShownAppended DEF longer
  <2>3. event.type # "snapshot" => RowsTaken(RowsShown(rows, q.events), event) = RowsShown(rows, q.events)
    <3>1. event.ops = << >>
      BY DEF Events
    <3>2. RowsShown(rows, q.events) \in R
      BY <1>4, ShownType
    <3> QED BY <3>1, <3>2, OpsApplied DEF RowsTaken
  <2> QED BY <2>2, <2>3 DEF RowsTaken
<1>7. StaleShown(stale, longer) <=> event.type = "status"
  BY <1>2 DEF StaleShown
<1> HIDE DEF next
<1> QED BY <1>2, <1>3, <1>5, <1>6, <1>7 DEF Tells, next

(* The newest of some versions. *)
LEMMA MaxIsGreatest ==
  ASSUME NEW n \in Nat, NEW S \in SUBSET (0 .. n), S # {}
  PROVE  Max(S) \in S /\ \A k \in S : k <= Max(S)
<1> DEFINE T == {n - k : k \in S}
<1>1. T \in SUBSET Nat /\ T # {}
  <2>1. \A k \in S : k \in Nat /\ k <= n /\ n - k \in Nat
    OBVIOUS
  <2>2. PICK k \in S : TRUE
    OBVIOUS
  <2>3. n - k \in T
    OBVIOUS
  <2> QED BY <2>1, <2>3
<1>2. PICK m \in T : \A k \in T : m <= k
  <2> HIDE DEF T
  <2> QED BY <1>1, LeastElement
<1>3. PICK x \in S : m = n - x
  BY <1>2
<1>4. \A k \in S : x >= k
  <2> SUFFICES ASSUME NEW k \in S PROVE x >= k
    OBVIOUS
  <2>1. m <= n - k
    BY <1>2
  <2> QED BY <1>3, <2>1
<1>5. x \in S /\ \A k \in S : x >= k
  BY <1>4
<1>6. Max(S) \in S /\ \A k \in S : Max(S) >= k
  BY <1>5, Zenon DEF Max
<1> QED BY <1>6

-----------------------------------------------------------------------------
(* A queue of snapshots and deltas, whose rows are versions *)

(* The events of the queue go on from version v, and only deltas have an   *)
(* identity.                                                               *)
Chain(v, events) ==
  /\ \A i \in 1 .. Len(events) : v <= events[i].to
  /\ \A i, j \in 1 .. Len(events) : i < j => events[i].to <= events[j].to
  /\ \A i \in 1 .. Len(events) :
       \/ events[i].type = "delta"
       \/ events[i].type = "snapshot" /\ events[i].seq = 0 /\ events[i].from = events[i].to

Below(events, top) ==
  \A i \in 1 .. Len(events) : events[i].to <= top /\ events[i].seq <= top

(* The rows of the reader before the first event and after each, which     *)
(* never go back.                                                          *)
Rising(f, rows, events) ==
  Reading(f, Int, rows, events) /\ \A n \in 1 .. Len(events) : f[n - 1] <= f[n]

(* What a reader at version v with these rows can take. *)
Drains(v, rows, events) ==
  events \in Seq(Events(Int)) /\ Chain(v, events) /\ \E f : Rising(f, rows, events)

(* ... and with which it gets to version top and to the rows of the worker. *)
Leads(v, rows, events, top, last) ==
  /\ events \in Seq(Events(Int)) /\ Chain(v, events) /\ Below(events, top) /\ v <= top
  /\ \E f : Rising(f, rows, events) /\ f[Len(events)] = last

(* The event of this identity is the last one, and no other has it. *)
IsLast(events, seq) ==
  /\ Last(events).seq = seq
  /\ \A i \in 1 .. (Len(events) - 1) : events[i].seq # seq

(* The limits hold, and the pending delta is the last event. *)
Bounded(q) ==
  /\ q.pending # 0 /\ q.events # << >> => IsLast(q.events, q.pending)
  /\ ~DeltaCoalescing => q.pending = 0 /\ q.lag = 0
  /\ MaxQueueDepth > 0 => Len(q.events) <= MaxQueueDepth /\ q.lag <= MaxQueueDepth

(* The delta of one operation, and what it does to the rows it was made from. *)
DeltaOf(event, op, top, old, new) ==
  op = [base |-> old, rows |-> new] /\ event = DeltaEvent(top, top + 1, <<op>>)

Taken(event, op, top, old, new) ==
  /\ op \in Operations(Int) /\ event \in Events(Int)
  /\ event.type = "delta" /\ event.seq = top + 1 /\ event.to = top + 1
  /\ event.from = top /\ event.ops = <<op>> /\ event.rows = NoRows
  /\ RowsTaken(old, event) = new

(* A delta is an event, and applies to the rows it was made from. *)
LEMMA DeltaTaken ==
  ASSUME NoRows \in Int, NEW top \in Nat, NEW old \in Int, NEW new \in Int,
         NEW op, NEW event, DeltaOf(event, op, top, old, new)
  PROVE  Taken(event, op, top, old, new)
<1>0. op = [base |-> old, rows |-> new] /\ event = DeltaEvent(top, top + 1, <<op>>)
  BY DEF DeltaOf
<1>1. op \in Operations(Int) /\ op.base = old /\ op.rows = new
  BY <1>0 DEF Operations
<1>2. <<op>> \in Seq(Operations(Int)) /\ << >> \in Seq(Operations(Int)) /\ << >> \o <<op>> = <<op>>
  BY <1>1
<1> DEFINE ops == <<op>>
<1>3. ops \in Seq(Operations(Int))
  BY <1>2
<1> HIDE DEF ops
<1>4. event = [type |-> "delta", seq |-> top + 1, from |-> top, to |-> top + 1, ops |-> ops,
               rows |-> NoRows]
  BY <1>0 DEF DeltaEvent, ops
<1>5. /\ event.type = "delta" /\ event.seq = top + 1 /\ event.to = top + 1
      /\ event.from = top /\ event.ops = ops /\ event.rows = NoRows
  BY <1>4
<1>6. event \in [type : {"delta", "snapshot", "status"}, seq : Nat, from : Nat, to : Nat,
                 ops : Seq(Operations(Int)), rows : Int]
  BY <1>3, <1>4
<1>7. event \in Events(Int)
  BY <1>5, <1>6 DEF Events
<1>8. ApplyOps(old, << >> \o <<op>>) = Operated(ApplyOps(old, << >>), op)
  <2>1. \A before \in Seq(Operations(Int)), o \in Operations(Int) :
          ApplyOps(old, before \o <<o>>) = Operated(ApplyOps(old, before), o)
    BY OpsApplied
  <2> QED BY <1>1, <1>2, <2>1, Zenon
<1>9. ApplyOps(old, << >>) = old
  BY OpsApplied
<1>10. ApplyOps(old, ops) = new
  BY <1>1, <1>2, <1>8, <1>9 DEF Operated, ops
<1>11. RowsTaken(old, event) = new
  BY <1>5, <1>10 DEF RowsTaken
<1> QED BY <1>1, <1>5, <1>7, <1>11 DEF ops, Taken

(* A delta at the end of the queue. *)
LEMMA AppendLeads ==
  ASSUME NoRows \in Int, NEW top \in Nat, NEW v \in Nat, NEW rows \in Int, NEW events,
         NEW old \in Int, NEW new \in Int, Leads(v, rows, events, top, old), old <= new,
         NEW op, op = [base |-> old, rows |-> new],
         NEW event, event = DeltaEvent(top, top + 1, <<op>>)
  PROVE  /\ Leads(v, rows, Append(events, event), top + 1, new)
         /\ Len(Append(events, event)) = Len(events) + 1
         /\ IsLast(Append(events, event), event.seq)
<1>0. DeltaOf(event, op, top, old, new)
  BY DEF DeltaOf
<1>a. Taken(event, op, top, old, new)
  BY <1>0, DeltaTaken
<1>1. /\ event \in Events(Int) /\ event.type = "delta" /\ event.seq = top + 1 /\ event.to = top + 1
      /\ RowsTaken(old, event) = new
  BY <1>a DEF Taken
<1> DEFINE N == Len(events)
           longer == Append(events, event)
<1>2. /\ events \in Seq(Events(Int)) /\ Chain(v, events) /\ Below(events, top) /\ v <= top
      /\ \E f : Rising(f, rows, events) /\ f[Len(events)] = old
  BY DEF Leads
<1>3. PICK f : Rising(f, rows, events) /\ f[Len(events)] = old
  BY <1>2
<1>4. /\ N \in Nat /\ longer \in Seq(Events(Int)) /\ Len(longer) = N + 1
      /\ longer[N + 1] = event /\ \A i \in 1 .. N : longer[i] = events[i] /\ events[i] \in Events(Int)
      /\ longer # << >>
  BY <1>1, <1>2
<1>5. \A i \in 1 .. N : events[i].to \in Nat /\ events[i].seq \in Nat
  BY <1>4 DEF Events
<1> DEFINE g == [n \in 0 .. (N + 1) |-> IF n = N + 1 THEN RowsTaken(f[N], event) ELSE f[n]]
<1>6. Reading(g, Int, rows, longer)
  BY <1>1, <1>2, <1>3, ReadingAppended DEF Rising
<1>7. \A n \in 0 .. N : g[n] = f[n]
  BY <1>4
<1>8. g[N + 1] = new /\ f[N] = old
  BY <1>1, <1>3, <1>4
<1> HIDE DEF g, longer, N
<1>9. \A n \in 1 .. N : f[n - 1] <= f[n]
  BY <1>3 DEF Rising, N
<1>10. ASSUME NEW n \in 1 .. (N + 1) PROVE g[n - 1] <= g[n]
  <2>1. CASE n = N + 1
    BY <1>4, <1>7, <1>8, <2>1
  <2>2. CASE n \in 1 .. N
    <3>1. g[n] = f[n] /\ g[n - 1] = f[n - 1]
      BY <1>4, <1>7, <2>2
    <3> QED BY <1>9, <2>2, <3>1
  <2> QED BY <1>4, <2>1, <2>2
<1>11. Rising(g, rows, longer) /\ g[Len(longer)] = new
  BY <1>4, <1>6, <1>8, <1>10 DEF Rising
<1>12. Below(longer, top + 1)
  <2> SUFFICES ASSUME NEW i \in 1 .. (N + 1)
               PROVE  longer[i].to <= top + 1 /\ longer[i].seq <= top + 1
    BY <1>4 DEF Below
  <2>1. CASE i = N + 1
    BY <1>1, <1>4, <2>1
  <2>2. CASE i \in 1 .. N
    <3> DEFINE e == events[i]
    <3>1. e.to <= top /\ e.seq <= top /\ e.to \in Nat /\ e.seq \in Nat
      BY <1>2, <1>5, <2>2 DEF Below, N
    <3> HIDE DEF e
    <3>2. e.to <= top + 1 /\ e.seq <= top + 1
      BY <3>1
    <3> QED BY <1>4, <2>2, <3>2 DEF e
  <2> QED BY <1>4, <2>1, <2>2
<1>13. Chain(v, longer)
  <2>1. \A i \in 1 .. Len(longer) : v <= longer[i].to
    BY <1>1, <1>2, <1>4 DEF Chain, N
  <2>2. ASSUME NEW i \in 1 .. Len(longer), NEW j \in 1 .. Len(longer), i < j
        PROVE  longer[i].to <= longer[j].to
    <3>1. i \in 1 .. N /\ longer[i] = events[i]
      BY <1>4, <2>2
    <3>2. CASE j = N + 1
      <4>1. events[i].to <= top /\ events[i].to \in Nat
        BY <1>2, <1>5, <3>1 DEF Below, N
      <4> QED BY <1>1, <1>4, <3>1, <3>2, <4>1
    <3>3. CASE j \in 1 .. N
      BY <1>2, <1>4, <2>2, <3>1, <3>3 DEF Chain, N
    <3> QED BY <1>4, <3>2, <3>3
  <2>3. \A i \in 1 .. Len(longer) :
          \/ longer[i].type = "delta"
          \/ longer[i].type = "snapshot" /\ longer[i].seq = 0 /\ longer[i].from = longer[i].to
    BY <1>1, <1>2, <1>4 DEF Chain, N
  <2> QED BY <2>1, <2>2, <2>3 DEF Chain
<1>14. Leads(v, rows, longer, top + 1, new)
  BY <1>2, <1>4, <1>11, <1>12, <1>13 DEF Leads
<1>15. Last(longer).seq = event.seq
  BY <1>4 DEF Last
<1>16. \A i \in 1 .. N : longer[i].seq # event.seq
  BY <1>1, <1>2, <1>4, <1>5 DEF Below, N
<1>17. \A i : i \in 1 .. (Len(longer) - 1) => i \in 1 .. N
  BY <1>4
<1> QED BY <1>4, <1>14, <1>15, <1>16, <1>17 DEF longer, N, IsLast

(* A delta merged into the last event of the queue. *)
LEMMA MergeLeads ==
  ASSUME NoRows \in Int, NEW top \in Nat, NEW v \in Nat, NEW rows \in Int, NEW events,
         NEW old \in Int, NEW new \in Int, Leads(v, rows, events, top, old), old <= new,
         NEW op, op = [base |-> old, rows |-> new],
         NEW event, event = DeltaEvent(top, top + 1, <<op>>),
         NEW pending \in Nat, pending # 0, events # << >>, IsLast(events, pending),
         NEW merged, merged = MergeInto(events, pending, event)
  PROVE  /\ Leads(v, rows, merged, top + 1, new)
         /\ Len(merged) = Len(events) /\ IsLast(merged, pending)
<1> DEFINE N == Len(events)
           was == events[N]
           now == [was EXCEPT !.ops = was.ops \o event.ops, !.to = event.to]
<1>1. /\ op \in Operations(Int) /\ event.to = top + 1 /\ event.ops = <<op>>
      /\ op.base = old /\ op.rows = new
  <2>1. event.to = top + 1 /\ event.ops = <<op>>
    BY DEF DeltaEvent
  <2>2. op \in Operations(Int) /\ op.base = old /\ op.rows = new
    BY DEF Operations
  <2> QED BY <2>1, <2>2
<1>2. /\ events \in Seq(Events(Int)) /\ Chain(v, events) /\ Below(events, top) /\ v <= top
      /\ \E f : Rising(f, rows, events) /\ f[N] = old
  BY DEF Leads
<1>3. PICK f : Rising(f, rows, events) /\ f[N] = old
  BY <1>2
<1>4. N \in Nat \ {0} /\ DOMAIN events = 1 .. N /\ \A i \in 1 .. N : events[i] \in Events(Int)
  BY <1>2
<1>5. was \in Events(Int) /\ was.seq = pending /\ \A i \in 1 .. N : i # N => events[i].seq # pending
  <2>1. was \in Events(Int)
    BY <1>4
  <2>2. was.seq = pending
    BY DEF IsLast, Last
  <2>3. \A i \in 1 .. N : i # N => i \in 1 .. (N - 1)
    <3> HIDE DEF N
    <3> QED BY <1>4
  <2> QED BY <2>1, <2>2, <2>3 DEF IsLast
<1>6. was.type = "delta"
  <2>1. N \in 1 .. Len(events)
    BY <1>4
  <2>2. was.type = "delta" \/ was.seq = 0
    BY <1>2, <2>1 DEF Chain
  <2> QED BY <1>5, <2>2
<1>7. merged = [i \in 1 .. N |-> IF i = N THEN now ELSE events[i]]
  BY <1>4, <1>5 DEF MergeInto
<1>8. was.ops \in Seq(Operations(Int)) /\ was.from <= was.to /\ was.to <= top
      /\ was.from \in Nat /\ was.to \in Nat /\ was.seq \in Nat
  <2>1. N \in 1 .. Len(events)
    BY <1>4
  <2>2. was.to <= top
    BY <1>2, <2>1 DEF Below
  <2> HIDE DEF was
  <2> QED BY <1>5, <2>2 DEF Events
<1> HIDE DEF was
<1> DEFINE ops == was.ops \o <<op>>
<1>9. ops \in Seq(Operations(Int))
  BY <1>1, <1>8
<1>10. now = [was EXCEPT !.ops = ops, !.to = top + 1]
  BY <1>1
<1> HIDE DEF ops, now
<1>11. /\ now \in Events(Int) /\ now.type = "delta" /\ now.to = top + 1 /\ now.ops = ops
       /\ now.seq = was.seq /\ now.from = was.from
  <2> DEFINE Code == Seq(Operations(Int))
             Plain == [type : {"delta", "snapshot", "status"}, seq : Nat, from : Nat, to : Nat,
                       ops : Code, rows : Int]
  <2>1. ops \in Code
    BY <1>9
  <2>2. was \in Plain
    BY <1>5 DEF Events
  <2> HIDE DEF Code
  <2>3. was = [type |-> was.type, seq |-> was.seq, from |-> was.from, to |-> was.to,
               ops |-> was.ops, rows |-> was.rows]
    BY <2>2
  <2>4. now = [type |-> was.type, seq |-> was.seq, from |-> was.from, to |-> top + 1,
               ops |-> ops, rows |-> was.rows]
    BY <1>10, <2>3
  <2>5. was.type \in {"delta", "snapshot", "status"} /\ was.seq \in Nat /\ was.from \in Nat
        /\ was.rows \in Int
    BY <2>2
  <2>6. /\ now \in Plain /\ now.type = was.type /\ now.to = top + 1 /\ now.ops = ops
        /\ now.seq = was.seq /\ now.from = was.from
    BY <2>1, <2>4, <2>5
  <2>7. now.from <= now.to
    BY <1>8, <2>6
  <2> HIDE DEF Plain
  <2>8. now \in Events(Int)
    BY <1>6, <2>6, <2>7 DEF Events, Plain, Code
  <2> QED BY <1>6, <2>6, <2>8
<1>12. /\ merged \in Seq(Events(Int)) /\ Len(merged) = N /\ merged[N] = now
       /\ \A i \in 1 .. N : i # N => merged[i] = events[i]
  <2>1. \A i \in 1 .. N : merged[i] \in Events(Int)
    BY <1>4, <1>7, <1>11
  <2>2. merged \in [1 .. N -> Events(Int)]
    BY <1>7, <2>1
  <2> HIDE DEF N
  <2> QED BY <1>4, <1>7, <2>2
<1>13. merged # << >>
  BY <1>4, <1>12
<1>14. /\ f \in [0 .. N -> Int] /\ f[0] = rows
       /\ \A n \in 1 .. N : f[n] = RowsTaken(f[n - 1], events[n]) /\ f[n - 1] <= f[n]
  BY <1>3 DEF Rising, Reading
<1> HIDE DEF N
<1>15. RowsTaken(f[N - 1], now) = new
  <2>1. f[N - 1] \in Int
    BY <1>4, <1>14
  <2>2. \A before \in Seq(Operations(Int)), o \in Operations(Int) :
          ApplyOps(f[N - 1], before \o <<o>>) = Operated(ApplyOps(f[N - 1], before), o)
    BY <2>1, OpsApplied
  <2>3. ApplyOps(f[N - 1], ops) = Operated(ApplyOps(f[N - 1], was.ops), op)
    BY <1>1, <1>8, <2>2 DEF ops
  <2>4. RowsTaken(f[N - 1], events[N]) = old
    BY <1>3, <1>4, <1>14
  <2>5. ApplyOps(f[N - 1], was.ops) = old
    BY <1>6, <2>4 DEF RowsTaken, was
  <2> QED BY <1>1, <1>11, <2>3, <2>5 DEF RowsTaken, Operated
<1> DEFINE g == [n \in 0 .. N |-> IF n = N THEN new ELSE f[n]]
<1>16. g \in [0 .. N -> Int] /\ g[0] = rows /\ g[N] = new
       /\ \A n \in 0 .. N : n # N => g[n] = f[n]
  BY <1>4, <1>14
<1> HIDE DEF g
<1>17. ASSUME NEW n \in 1 .. N PROVE g[n] = RowsTaken(g[n - 1], merged[n]) /\ g[n - 1] <= g[n]
  <2>1. CASE n = N
    <3>1. g[n - 1] = f[N - 1] /\ f[N - 1] <= f[N] /\ f[N - 1] \in Int
      BY <1>4, <1>14, <1>16, <2>1
    <3>2. g[n - 1] <= new
      BY <1>3, <3>1 DEF N
    <3> QED BY <1>12, <1>15, <1>16, <2>1, <3>1, <3>2
  <2>2. CASE n # N
    <3>1. n \in 0 .. N /\ n - 1 \in 0 .. N /\ n - 1 # N
      BY <1>4, <2>2
    <3>2. g[n] = f[n] /\ g[n - 1] = f[n - 1] /\ merged[n] = events[n]
      BY <1>12, <1>16, <2>2, <3>1
    <3> QED BY <1>14, <3>2
  <2> QED BY <2>1, <2>2
<1>18. Rising(g, rows, merged) /\ g[Len(merged)] = new
  BY <1>12, <1>16, <1>17 DEF Rising, Reading
<1>19. \A i \in 1 .. N : events[i].to \in Nat /\ events[i].seq \in Nat
                         /\ events[i].to <= top /\ events[i].seq <= top /\ v <= events[i].to
  BY <1>2, <1>4 DEF Events, Below, Chain, N
<1>20. Below(merged, top + 1)
  <2> SUFFICES ASSUME NEW i \in 1 .. N PROVE merged[i].to <= top + 1 /\ merged[i].seq <= top + 1
    BY <1>12 DEF Below
  <2>1. CASE i = N
    <3>1. events[i].seq <= top /\ events[i].seq \in Nat
      BY <1>19
    <3>2. now.seq = events[i].seq
      BY <1>11, <2>1 DEF was
    <3> QED BY <1>11, <1>12, <2>1, <3>1, <3>2
  <2>2. CASE i # N
    <3>1. /\ events[i].to <= top /\ events[i].seq <= top
          /\ events[i].to \in Nat /\ events[i].seq \in Nat
      BY <1>19
    <3>2. merged[i] = events[i]
      BY <1>12, <2>2
    <3> DEFINE e == events[i]
    <3>3. e.to <= top + 1 /\ e.seq <= top + 1
      <4>1. e.to <= top /\ e.seq <= top /\ e.to \in Nat /\ e.seq \in Nat
        BY <3>1
      <4> HIDE DEF e
      <4> QED BY <4>1
    <3> QED BY <3>2, <3>3
  <2> QED BY <2>1, <2>2
<1>21. Chain(v, merged)
  <2>1. ASSUME NEW i \in 1 .. N PROVE v <= merged[i].to
    <3>1. CASE i = N
      BY <1>2, <1>11, <1>12, <3>1
    <3>2. CASE i # N
      <4>1. merged[i] = events[i] /\ v <= events[i].to
        BY <1>12, <1>19, <3>2
      <4> QED BY <4>1
    <3> QED BY <3>1, <3>2
  <2>2. ASSUME NEW i \in 1 .. N, NEW j \in 1 .. N, i < j PROVE merged[i].to <= merged[j].to
    <3>1. merged[i] = events[i]
      BY <1>4, <1>12, <2>2
    <3>2. CASE j = N
      BY <1>11, <1>12, <1>19, <3>1, <3>2
    <3>3. CASE j # N
      BY <1>2, <1>12, <2>2, <3>1, <3>3 DEF Chain, N
    <3> QED BY <3>2, <3>3
  <2>3. \A i \in 1 .. N :
          \/ merged[i].type = "delta"
          \/ merged[i].type = "snapshot" /\ merged[i].seq = 0 /\ merged[i].from = merged[i].to
    BY ZenonT(30), <1>2, <1>11, <1>12 DEF Chain, N
  <2>4. Len(merged) = N /\ \A i, j \in 1 .. N : i < j => merged[i].to <= merged[j].to
    BY <1>12, <2>2
  <2>5. 1 .. Len(merged) = 1 .. N
    BY <2>4
  <2>6. \A i \in 1 .. Len(merged) : v <= merged[i].to
    BY <2>1, <2>5
  <2>8. ASSUME NEW i \in 1 .. Len(merged), NEW j \in 1 .. Len(merged), i < j
        PROVE  merged[i].to <= merged[j].to
    <3>1. i \in 1 .. N /\ j \in 1 .. N
      BY <2>5
    <3> QED BY <2>2, <2>8, <3>1
  <2>7. \A i \in 1 .. Len(merged) :
          \/ merged[i].type = "delta"
          \/ merged[i].type = "snapshot" /\ merged[i].seq = 0 /\ merged[i].from = merged[i].to
    BY <2>3, <2>5
  <2> QED BY <2>6, <2>7, <2>8 DEF Chain
<1>22. v <= top + 1
  BY <1>2
<1>23. Leads(v, rows, merged, top + 1, new)
  BY <1>12, <1>18, <1>20, <1>21, <1>22 DEF Leads
<1>24. Last(merged).seq = pending
  BY <1>5, <1>11, <1>12 DEF Last
<1>25. ASSUME NEW i \in 1 .. (N - 1) PROVE merged[i].seq # pending
  <2>1. i \in 1 .. N /\ i # N
    BY <1>4
  <2> QED BY <1>5, <1>12, <2>1
<1> QED BY <1>12, <1>23, <1>24, <1>25 DEF N, IsLast

(* The delta from some rows to others, the next version. *)
DeltaFor(event, top, old, new) ==
  event = DeltaEvent(top, top + 1, <<[base |-> old, rows |-> new]>>)

(* What becomes of an offer. *)
Settled(offer, q, v, rows, top, new) ==
  /\ offer.queue \in Queues(Int) /\ Bounded(offer.queue)
  /\ offer.offered => Leads(v, rows, offer.queue.events, top + 1, new)
  /\ ~offer.offered => offer.queue.events = q.events

(* A delta offered to a queue that is in order leaves it in order: taken,  *)
(* it brings the reader to the new version and rows; refused, nothing has  *)
(* changed for the reader.                                                 *)
LEMMA OfferDeltaLeads ==
  ASSUME NoRows \in Int, NEW top \in Nat, NEW v \in Nat, NEW rows \in Int,
         NEW old \in Int, NEW new \in Int, old <= new,
         NEW q \in Queues(Int), Bounded(q), Leads(v, rows, q.events, top, old),
         NEW event, DeltaFor(event, top, old, new), NEW offer, offer = OfferDelta(q, event)
  PROVE  Settled(offer, q, v, rows, top, new)
<1> DEFINE op == [base |-> old, rows |-> new]
<1>0. event = DeltaEvent(top, top + 1, <<op>>) /\ op = [base |-> old, rows |-> new]
  BY DEF DeltaFor
<1> HIDE DEF op
<1> DEFINE held == ForgetTaken(q)
           longer == Append(q.events, event)
           merged == MergeInto(q.events, q.pending, event)
           Good(queue) == queue \in Queues(Int) /\ Bounded(queue)
<1>1. /\ event.type = "delta" /\ event.seq = top + 1 /\ event.to = top + 1 /\ event.from = top
  <2>1. DeltaOf(event, op, top, old, new)
    BY <1>0 DEF DeltaOf
  <2>2. Taken(event, op, top, old, new)
    BY <2>1, DeltaTaken
  <2> QED BY <2>2 DEF Taken
<1>2. Span(event) = 1
  BY <1>1 DEF Span
<1>3. MaxQueueDepth \in Nat /\ DeltaCoalescing \in BOOLEAN
  BY QueueConstants
<1>4. q.events \in Seq(Events(Int)) /\ q.pending \in Nat /\ q.lag \in Nat
  BY DEF Queues
<1>5. /\ Leads(v, rows, longer, top + 1, new) /\ Len(longer) = Len(q.events) + 1
      /\ IsLast(longer, event.seq)
  BY <1>0, AppendLeads
<1>6. Len(q.events) \in Nat
  BY <1>4
<1>7. longer \in Seq(Events(Int))
  BY <1>5 DEF Leads
<1>8. held.events = q.events /\ held.pending \in Nat /\ held.lag \in Nat /\ Good(held)
      /\ (held.pending # 0 => q.events # << >> /\ held = q)
  <2>1. CASE q.events = << >>
    <3>1. held = [events |-> << >>, pending |-> 0, lag |-> 0]
      BY <2>1 DEF ForgetTaken, EmptyQueue
    <3>2. held \in Queues(Int)
      BY <3>1 DEF Queues
    <3>3. Bounded(held)
      BY <1>3, <3>1 DEF Bounded
    <3> QED BY <2>1, <3>1, <3>2, <3>3
  <2>2. CASE q.events # << >>
    <3>1. held = q
      BY <2>2 DEF ForgetTaken
    <3> QED BY <1>4, <2>2, <3>1
  <2> QED BY <2>1, <2>2
<1> HIDE DEF held, longer, merged
<1>9. CASE ~DeltaCoalescing
  <2>1. q.pending = 0 /\ q.lag = 0
    BY <1>9 DEF Bounded
  <2> DEFINE next == [events |-> longer, pending |-> q.pending, lag |-> q.lag]
  <2>2. \/ offer = [offered |-> FALSE, queue |-> q]
        \/ ~WouldExceedQueueLimit(Len(q.events)) /\ offer = [offered |-> TRUE, queue |-> next]
    BY <1>9 DEF OfferDelta, Refused, Accepted, longer
  <2>3. ASSUME ~WouldExceedQueueLimit(Len(q.events)) PROVE Good(next)
    <3>1. MaxQueueDepth > 0 => Len(longer) <= MaxQueueDepth
      BY <1>3, <1>5, <1>6, <2>3 DEF WouldExceedQueueLimit
    <3>2. next \in Queues(Int)
      BY <1>4, <1>7 DEF Queues
    <3>3. Bounded(next)
      BY <1>3, <1>9, <2>1, <3>1 DEF Bounded
    <3> QED BY <3>2, <3>3
  <2> QED BY <1>5, <2>2, <2>3 DEF Settled
<1>10. CASE DeltaCoalescing /\ held.pending # 0
  <2>0. held = q /\ q.events # << >> /\ q.pending # 0
    BY <1>8, <1>10
  <2>1. IsLast(q.events, q.pending)
    BY <2>0 DEF Bounded
  <2>2. /\ Leads(v, rows, merged, top + 1, new) /\ Len(merged) = Len(q.events)
        /\ IsLast(merged, q.pending)
    <3> DEFINE events == q.events
               pending == q.pending
    <3>1. pending \in Nat /\ pending # 0 /\ events # << >> /\ IsLast(events, pending)
      BY <1>4, <2>0, <2>1
    <3>2. Leads(v, rows, events, top, old) /\ merged = MergeInto(events, pending, event)
      BY DEF merged
    <3> HIDE DEF events, pending
    <3>3. /\ Leads(v, rows, merged, top + 1, new) /\ Len(merged) = Len(events)
          /\ IsLast(merged, pending)
      BY <1>0, <3>1, <3>2, MergeLeads
    <3> QED BY <3>3 DEF events, pending
  <2> DEFINE next == [events |-> merged, pending |-> q.pending, lag |-> q.lag + 1]
  <2>3. \/ offer = [offered |-> FALSE, queue |-> q]
        \/ /\ ~(MaxQueueDepth > 0 /\ q.lag + 1 > MaxQueueDepth)
           /\ offer = [offered |-> TRUE, queue |-> next]
    BY <1>2, <1>10, <2>0 DEF OfferDelta, Refused, Accepted, merged, held
  <2>4. ASSUME ~(MaxQueueDepth > 0 /\ q.lag + 1 > MaxQueueDepth) PROVE Good(next)
    <3>1. merged \in Seq(Events(Int))
      BY <2>2 DEF Leads
    <3>2. next \in Queues(Int)
      BY <1>4, <3>1 DEF Queues
    <3>3. MaxQueueDepth > 0 => Len(merged) <= MaxQueueDepth /\ q.lag + 1 <= MaxQueueDepth
      BY <1>3, <1>4, <2>2, <2>4 DEF Bounded
    <3>4. Bounded(next)
      BY <1>10, <2>2, <3>3 DEF Bounded
    <3> QED BY <3>2, <3>4
  <2> QED BY <2>2, <2>3, <2>4 DEF Settled
<1>11. CASE DeltaCoalescing /\ held.pending = 0
  <2> DEFINE next == [events |-> longer, pending |-> event.seq, lag |-> 1]
  <2>1. \/ offer = [offered |-> FALSE, queue |-> held]
        \/ /\ ~WouldExceedQueueLimit(Len(q.events)) /\ ~(MaxQueueDepth > 0 /\ 1 > MaxQueueDepth)
           /\ offer = [offered |-> TRUE, queue |-> next]
    BY <1>2, <1>8, <1>11 DEF OfferDelta, Refused, Accepted, longer, held
  <2>2. ASSUME ~WouldExceedQueueLimit(Len(q.events)), ~(MaxQueueDepth > 0 /\ 1 > MaxQueueDepth)
        PROVE  Good(next)
    <3>1. MaxQueueDepth > 0 => Len(longer) <= MaxQueueDepth /\ 1 <= MaxQueueDepth
      BY <1>3, <1>5, <1>6, <2>2 DEF WouldExceedQueueLimit
    <3>2. next \in Queues(Int)
      BY <1>1, <1>7 DEF Queues
    <3>3. Bounded(next)
      BY <1>5, <1>6, <1>11, <3>1 DEF Bounded
    <3> QED BY <3>2, <3>3
  <2> QED BY <1>5, <1>8, <2>1, <2>2 DEF Settled
<1> QED BY <1>3, <1>9, <1>10, <1>11

(* What leads to a version leads no further than any later one.            *)
LEMMA LeadsLater ==
  ASSUME NEW top \in Nat, NEW v \in Nat, NEW rows \in Int, NEW events, NEW last,
         Leads(v, rows, events, top, last)
  PROVE  Leads(v, rows, events, top + 1, last) /\ Drains(v, rows, events)
<1>1. Below(events, top + 1)
  <2>1. \A i \in 1 .. Len(events) :
          events[i].to \in Nat /\ events[i].seq \in Nat /\ events[i].to <= top /\ events[i].seq <= top
    <3> SUFFICES ASSUME NEW i \in 1 .. Len(events)
                 PROVE  /\ events[i].to \in Nat /\ events[i].seq \in Nat
                        /\ events[i].to <= top /\ events[i].seq <= top
      OBVIOUS
    <3>1. events[i] \in Events(Int)
      BY DEF Leads
    <3>2. events[i].to \in Nat /\ events[i].seq \in Nat
      BY <3>1 DEF Events
    <3> QED BY <3>2 DEF Leads, Below
  <2>2. ASSUME NEW i \in 1 .. Len(events) PROVE events[i].to <= top + 1 /\ events[i].seq <= top + 1
    <3> DEFINE to == events[i].to
               seq == events[i].seq
    <3>1. to \in Nat /\ seq \in Nat /\ to <= top /\ seq <= top
      BY <2>1
    <3> HIDE DEF to, seq
    <3>2. to <= top + 1 /\ seq <= top + 1
      BY <3>1
    <3> QED BY <3>2 DEF to, seq
  <2> QED BY <2>2 DEF Below
<1>2. v <= top + 1
  BY DEF Leads
<1> QED BY <1>1, <1>2 DEF Leads, Drains

(* The first event of a subscription: a snapshot of the current rows. *)
LEMMA SnapshotLeads ==
  ASSUME NEW v \in Nat, NEW rows \in Nat
  PROVE  /\ Leads(0, 0, <<SnapshotEvent(v, rows)>>, v, rows)
         /\ Bounded([events |-> <<SnapshotEvent(v, rows)>>, pending |-> 0, lag |-> 0])
         /\ [events |-> <<SnapshotEvent(v, rows)>>, pending |-> 0, lag |-> 0] \in Queues(Int)
<1> DEFINE event == SnapshotEvent(v, rows)
           events == <<event>>
           f == [n \in 0 .. 1 |-> IF n = 0 THEN 0 ELSE rows]
<1>1. /\ event \in [type : {"delta", "snapshot", "status"}, seq : Nat, from : Nat, to : Nat,
                    ops : Seq(Operations(Int)), rows : Int]
      /\ event.type = "snapshot" /\ event.seq = 0 /\ event.from = v /\ event.to = v
      /\ event.ops = << >> /\ event.rows = rows
  <2> DEFINE Code == Seq(Operations(Int))
  <2>1. << >> \in Code
    OBVIOUS
  <2> HIDE DEF Code
  <2>2. event \in [type : {"delta", "snapshot", "status"}, seq : Nat, from : Nat, to : Nat,
                   ops : Code, rows : Int]
    BY <2>1 DEF SnapshotEvent
  <2>3. /\ event.type = "snapshot" /\ event.seq = 0 /\ event.from = v /\ event.to = v
        /\ event.ops = << >> /\ event.rows = rows
    BY DEF SnapshotEvent
  <2> QED BY <2>2, <2>3 DEF Code
<1> HIDE DEF event
<1>2. event \in Events(Int)
  BY <1>1 DEF Events
<1>3. events \in Seq(Events(Int)) /\ Len(events) = 1 /\ events[1] = event /\ events # << >>
  <2>1. Len(events) = 1 /\ events[1] = event /\ events # << >>
    OBVIOUS
  <2> DEFINE E == Events(Int)
  <2>2. event \in E
    BY <1>2
  <2> HIDE DEF E
  <2>3. events \in Seq(E)
    BY <2>2
  <2> QED BY <2>1, <2>3 DEF E
<1>4. f \in [0 .. 1 -> Int] /\ f[0] = 0 /\ f[1] = rows
  OBVIOUS
<1> HIDE DEF events, f
<1>5. f[1] = RowsTaken(f[0], events[1])
  BY <1>1, <1>3, <1>4 DEF RowsTaken
<1>6. \A n : n \in 1 .. Len(events) <=> n = 1
  BY <1>3
<1>7. Rising(f, 0, events)
  <2>1. Reading(f, Int, 0, events)
    BY <1>3, <1>4, <1>5, <1>6 DEF Reading
  <2>2. \A n \in 1 .. Len(events) : f[n - 1] <= f[n]
    BY <1>4, <1>6
  <2> QED BY <2>1, <2>2 DEF Rising
<1>8. Chain(0, events)
  BY <1>1, <1>3, <1>6 DEF Chain
<1>9. Below(events, v)
  BY <1>1, <1>3, <1>6 DEF Below
<1>10. Leads(0, 0, events, v, rows)
  BY <1>3, <1>4, <1>7, <1>8, <1>9 DEF Leads
<1> DEFINE q == [events |-> events, pending |-> 0, lag |-> 0]
<1>11. Bounded(q)
  <2>1. q.pending = 0 /\ q.lag = 0 /\ Len(q.events) = 1
    BY <1>3
  <2>2. MaxQueueDepth > 0 => 1 <= MaxQueueDepth /\ 0 <= MaxQueueDepth
    BY QueueConstants
  <2> HIDE DEF q
  <2> QED BY <2>1, <2>2 DEF Bounded
<1>12. q \in Queues(Int)
  BY <1>3 DEF Queues
<1> QED BY <1>10, <1>11, <1>12 DEF events, event

(* With everything queued applied, the reader shows the rows of the worker. *)
LEMMA LeadsShown ==
  ASSUME NEW top, NEW v, NEW rows, NEW events, NEW last, Leads(v, rows, events, top, last)
  PROVE  RowsShown(rows, events) = last
<1>1. PICK f : Rising(f, rows, events) /\ f[Len(events)] = last
  BY DEF Leads
<1>2. events \in Seq(Events(Int)) /\ Reading(f, Int, rows, events)
  BY <1>1 DEF Leads, Rising
<1>3. RowsShown(rows, events) = f[Len(events)]
  BY <1>2, ReadingShows
<1> QED BY <1>1, <1>3

Reaches(rows, events, last) == \E g : Rising(g, rows, events) /\ g[Len(events)] = last

(* What the oldest event does to the reader, and what is left to take. *)
LEMMA TailRising ==
  ASSUME NoRows \in Int, NEW v \in Nat, NEW rows \in Int, NEW events \in Seq(Events(Int)),
         events # << >>, Chain(v, events), NEW f, Rising(f, rows, events),
         NEW head, head = Head(events), NEW taken, taken = RowsTaken(rows, head),
         NEW rest, rest = Tail(events)
  PROVE  /\ head.to \in Nat /\ taken \in Int /\ v <= head.to /\ rows <= taken
         /\ head.type = "snapshot" => head.from = head.to
         /\ rest \in Seq(Events(Int)) /\ Chain(head.to, rest)
         /\ Reaches(taken, rest, f[Len(events)])
<1> DEFINE N == Len(events)
           g == [n \in 0 .. (N - 1) |-> f[n + 1]]
<1>1. /\ N \in Nat \ {0} /\ rest \in Seq(Events(Int)) /\ Len(rest) = N - 1
      /\ head = events[1] /\ \A n \in 1 .. (N - 1) : rest[n] = events[n + 1]
      /\ events[1] \in Events(Int)
  OBVIOUS
<1>2. Reading(f, Int, rows, events) /\ f[0] = rows /\ f \in [0 .. N -> Int]
  BY DEF Rising, Reading
<1>3. \A n \in 1 .. N : f[n] = RowsTaken(f[n - 1], events[n]) /\ f[n - 1] <= f[n]
  BY DEF Rising, Reading
<1>4. Reading(g, Int, taken, rest)
  <2>1. g = [n \in 0 .. (Len(events) - 1) |-> f[n + 1]]
    OBVIOUS
  <2> HIDE DEF g
  <2>2. Reading(g, Int, RowsTaken(rows, Head(events)), Tail(events))
    BY <1>2, <2>1, ReadingTail
  <2> QED BY <2>2
<1>5. \A n \in 0 .. (N - 1) : g[n] = f[n + 1]
  OBVIOUS
<1> HIDE DEF g, N
<1>6. f[1] = taken /\ f[0] <= f[1] /\ f[1] \in Int
  <2>1. 1 \in 1 .. N /\ 1 - 1 = 0 /\ 1 \in 0 .. N
    BY <1>1
  <2>2. f[1] = RowsTaken(f[0], events[1]) /\ f[0] <= f[1]
    BY <1>3, <2>1
  <2> QED BY <1>1, <1>2, <2>1, <2>2
<1>7. ASSUME NEW n \in 1 .. (N - 1) PROVE g[n - 1] <= g[n]
  <2>1. g[n] = f[n + 1] /\ g[n - 1] = f[n]
    BY <1>1, <1>5
  <2>2. n + 1 \in 1 .. N /\ (n + 1) - 1 = n
    BY <1>1
  <2> QED BY <1>3, <2>1, <2>2
<1>8. Rising(g, taken, rest)
  BY <1>1, <1>4, <1>7 DEF Rising
<1>9. g[Len(rest)] = f[Len(events)]
  BY <1>1, <1>5 DEF N
<1>10. /\ \A i \in 1 .. N : v <= events[i].to
       /\ \A i \in 1 .. N : \A j \in 1 .. N : i < j => events[i].to <= events[j].to
       /\ \A i \in 1 .. N :
            \/ events[i].type = "delta"
            \/ events[i].type = "snapshot" /\ events[i].seq = 0 /\ events[i].from = events[i].to
  BY DEF Chain, N
<1>11. /\ head.to \in Nat /\ v <= head.to
       /\ head.type = "snapshot" => head.from = head.to
  <2>1. 1 \in 1 .. N
    BY <1>1
  <2>2. head.to \in Nat
    BY <1>1 DEF Events
  <2> QED BY <1>1, <1>10, <2>1, <2>2
<1>12. Chain(head.to, rest)
  <2>1. ASSUME NEW i \in 1 .. Len(rest)
        PROVE  /\ head.to <= rest[i].to
               /\ \/ rest[i].type = "delta"
                  \/ rest[i].type = "snapshot" /\ rest[i].seq = 0 /\ rest[i].from = rest[i].to
    <3>1. rest[i] = events[i + 1] /\ i + 1 \in 1 .. N /\ 1 \in 1 .. N /\ 1 < i + 1
      BY <1>1
    <3>2. events[1].to <= events[i + 1].to
      BY <1>10, <3>1
    <3> QED BY <1>1, <1>10, <3>1, <3>2
  <2>2. ASSUME NEW i \in 1 .. Len(rest), NEW j \in 1 .. Len(rest), i < j
        PROVE  rest[i].to <= rest[j].to
    <3>1. /\ rest[i] = events[i + 1] /\ rest[j] = events[j + 1]
          /\ i + 1 \in 1 .. N /\ j + 1 \in 1 .. N /\ i + 1 < j + 1
      BY <1>1, <2>2
    <3>2. events[i + 1].to <= events[j + 1].to
      BY <1>10, <3>1
    <3> QED BY <3>1, <3>2
  <2> QED BY <2>1, <2>2 DEF Chain
<1>13. Reaches(taken, rest, f[Len(events)])
  BY <1>8, <1>9 DEF Reaches
<1> QED BY <1>1, <1>2, <1>6, <1>11, <1>12, <1>13

(* A reader at v that takes this event goes on and can take the rest. *)
GoesOn(v, rows, event, taken, rest) ==
  /\ event.to \in Nat /\ taken \in Int /\ v <= event.to /\ rows <= taken
  /\ event.type = "snapshot" => event.from = event.to
  /\ Drains(event.to, taken, rest)

(* A reader that takes the oldest event is in order with what is left. *)
LEMMA TailDrains ==
  ASSUME NoRows \in Int, NEW v \in Nat, NEW rows \in Int, NEW events, Drains(v, rows, events),
         events # << >>, NEW head, head = Head(events), NEW taken, taken = RowsTaken(rows, head),
         NEW rest, rest = Tail(events)
  PROVE  GoesOn(v, rows, head, taken, rest)
<1>1. PICK f : Rising(f, rows, events)
  BY DEF Drains
<1>2. events \in Seq(Events(Int)) /\ Chain(v, events)
  BY DEF Drains
<1>3. /\ head.to \in Nat /\ taken \in Int /\ v <= head.to /\ rows <= taken
      /\ head.type = "snapshot" => head.from = head.to
      /\ rest \in Seq(Events(Int)) /\ Chain(head.to, rest)
      /\ Reaches(taken, rest, f[Len(events)])
  BY <1>1, <1>2, TailRising
<1>4. \E g : Rising(g, taken, rest)
  BY <1>3 DEF Reaches
<1> QED BY <1>3, <1>4 DEF Drains, GoesOn

(* Taking the oldest event of a chain of deltas leaves the chain from the *)
(* next version on.                                                       *)
LEMMA TailLeads ==
  ASSUME NoRows \in Int, NEW v \in Nat, NEW rows \in Int, NEW events, NEW top, NEW last,
         top \in Nat, Leads(v, rows, events, top, last),
         events # << >>, NEW head, head = Head(events), NEW taken, taken = RowsTaken(rows, head),
         NEW rest, rest = Tail(events)
  PROVE  Leads(head.to, taken, rest, top, last)
<1>1. PICK f : Rising(f, rows, events) /\ f[Len(events)] = last
  BY DEF Leads
<1>2. events \in Seq(Events(Int)) /\ Chain(v, events) /\ Below(events, top)
  BY DEF Leads
<1>3. /\ rest \in Seq(Events(Int)) /\ Chain(head.to, rest)
      /\ Reaches(taken, rest, f[Len(events)])
  BY <1>1, <1>2, TailRising
<1>4. /\ Len(events) \in Nat \ {0} /\ head = events[1] /\ Len(rest) = Len(events) - 1
      /\ \A i \in 1 .. (Len(events) - 1) : rest[i] = events[i + 1]
  BY <1>2
<1>5. head.to <= top
  BY <1>2, <1>4 DEF Below
<1>6. Below(rest, top)
  <2>1. ASSUME NEW i \in 1 .. Len(rest) PROVE rest[i].to <= top /\ rest[i].seq <= top
    <3>1. rest[i] = events[i + 1] /\ i + 1 \in 1 .. Len(events)
      BY <1>4
    <3> QED BY <1>2, <3>1 DEF Below
  <2> QED BY <2>1 DEF Below
<1> QED BY <1>1, <1>3, <1>5, <1>6 DEF Leads, Reaches

(* Taking the oldest event leaves the queue in order: when the pending     *)
(* delta itself is taken nothing is left.                                  *)
LEMMA TailBounded ==
  ASSUME NEW q \in Queues(Int), Bounded(q), q.events # << >>,
         NEW left, left = [q EXCEPT !.events = Tail(q.events)]
  PROVE  left \in Queues(Int) /\ Bounded(left)
<1> DEFINE events == q.events
           rest == Tail(events)
           E == Events(Int)
<1>1. events \in Seq(E) /\ q.pending \in Nat /\ q.lag \in Nat
  BY DEF Queues
<1>2. events # << >>
  OBVIOUS
<1>3. left = [events |-> rest, pending |-> q.pending, lag |-> q.lag]
  BY DEF Queues
<1> HIDE DEF E
<1>4. /\ Len(events) \in Nat \ {0} /\ rest \in Seq(E) /\ Len(rest) = Len(events) - 1
      /\ \A i \in 1 .. (Len(events) - 1) : rest[i] = events[i + 1]
  <2> HIDE DEF events
  <2> QED BY <1>1, <1>2
<1>5. left \in Queues(Int)
  BY <1>1, <1>3, <1>4 DEF Queues, E
<1>6. left.events = rest /\ left.pending = q.pending /\ left.lag = q.lag
  BY <1>3
<1>7. ASSUME q.pending # 0, rest # << >> PROVE IsLast(rest, q.pending)
  <2>1. IsLast(events, q.pending)
    BY <1>2, <1>7 DEF Bounded
  <2>2. Len(rest) # 0
    <3>1. \A s \in Seq(E) : Len(s) = 0 => s = << >>
      OBVIOUS
    <3> HIDE DEF rest
    <3> QED BY <1>4, <1>7, <3>1
  <2>3. rest[Len(rest)] = events[Len(events)]
    <3> HIDE DEF rest, events
    <3>1. Len(events) - 1 \in 1 .. (Len(events) - 1) /\ (Len(events) - 1) + 1 = Len(events)
      BY <1>4, <2>2
    <3>2. rest[Len(events) - 1] = events[(Len(events) - 1) + 1]
      BY <1>4, <3>1
    <3> QED BY <1>4, <3>1, <3>2
  <2>4. Last(rest) = Last(events)
    BY <2>3 DEF Last
  <2>5. ASSUME NEW i \in 1 .. (Len(rest) - 1) PROVE rest[i].seq # q.pending
    <3>1. rest[i] = events[i + 1] /\ i + 1 \in 1 .. (Len(events) - 1)
      BY <1>4
    <3> QED BY <2>1, <3>1 DEF IsLast
  <2> QED BY <2>1, <2>4, <2>5 DEF IsLast
<1> HIDE DEF rest
<1>8. MaxQueueDepth > 0 => Len(rest) <= MaxQueueDepth
  BY <1>4, QueueConstants DEF Bounded
<1> QED BY <1>5, <1>6, <1>7, <1>8 DEF Bounded
=============================================================================
