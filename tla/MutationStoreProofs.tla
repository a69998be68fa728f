------------------------- MODULE MutationStoreProofs -------------------------
EXTENDS MutationStore, FiniteSetTheorems, SequenceTheorems, WellFoundedInduction, TLAPS

-----------------------------------------------------------------------------
(* Induction. *)

(* A set of naturals that is not empty has a least element. *)
LEMMA LeastElement ==
  ASSUME NEW S \in SUBSET Nat, S # {}
  PROVE  \E m \in S : \A k \in S : m <= k
<1>1. PICK m \in S : \A k \in S : ~ (<<k, m>> \in OpToRel(<, Nat))
  BY NatLessThanWellFounded, WFMin
<1>2. \A k \in S : ~ (k < m)
  BY <1>1 DEF OpToRel
<1>3. \A k \in S : m <= k
  BY <1>2
<1> QED BY <1>3

(* Induction up to a bound: a least element outside S has a predecessor in it. *)
LEMMA UpTo ==
  ASSUME NEW N \in Nat, NEW S, 0 \in S, \A n \in 1 .. N : n - 1 \in S => n \in S
  PROVE  \A n \in 0 .. N : n \in S
<1> DEFINE bad == {n \in 0 .. N : n \notin S}
<1> SUFFICES ASSUME bad # {} PROVE FALSE
  OBVIOUS
<1>1. bad \in SUBSET Nat
  OBVIOUS
<1>2. PICK m \in bad : \A k \in bad : m <= k
  <2> HIDE DEF bad
  <2> QED BY <1>1, LeastElement
<1>3. m \in 1 .. N
  OBVIOUS
<1>4. m - 1 \in 0 .. N /\ m - 1 \notin bad
  BY <1>2, <1>3
<1> QED BY <1>3, <1>4

(* f[n] comes from f[n - 1] by step[n], from a base, all in X. *)
Recursion(f, N, X, base, step) ==
  f \in [0 .. N -> X] /\ f[0] = base /\ \A n \in 1 .. N : f[n] = step[n][f[n - 1]]

(* What is defined by recursion exists ... *)
LEMMA RecursionExists ==
  ASSUME NEW N \in Nat, NEW X, NEW base \in X, NEW step \in [1 .. N -> [X -> X]]
  PROVE  \E f : Recursion(f, N, X, base, step)
<1> DEFINE S == {m \in 0 .. N : \E f : Recursion(f, m, X, base, step)}
<1>1. 0 \in S
  <2>1. Recursion([n \in 0 .. 0 |-> base], 0, X, base, step)
    BY DEF Recursion
  <2> QED BY <2>1
<1>2. ASSUME NEW m \in 1 .. N, m - 1 \in S PROVE m \in S
  <2>1. PICK f : Recursion(f, m - 1, X, base, step)
    BY <1>2
  <2> DEFINE g == [n \in 0 .. m |-> IF n = m THEN step[m][f[m - 1]] ELSE f[n]]
  <2>2. Recursion(g, m, X, base, step)
    <3>1. f[m - 1] \in X /\ step[m] \in [X -> X]
      BY <2>1 DEF Recursion
    <3>2. g \in [0 .. m -> X] /\ g[0] = base
      BY <2>1, <3>1 DEF Recursion
    <3>3. ASSUME NEW n \in 1 .. m PROVE g[n] = step[n][g[n - 1]]
      BY <2>1 DEF Recursion
    <3> HIDE DEF g
    <3> QED BY <3>2, <3>3 DEF Recursion
  <2> HIDE DEF g
  <2> QED BY <2>2
<1> HIDE DEF S
<1>3. \A n \in 1 .. N : n - 1 \in S => n \in S
  BY <1>2
<1>4. \A n \in 0 .. N : n \in S
  BY <1>1, <1>3, UpTo, Zenon
<1>5. N \in S
  BY <1>4
<1> QED BY <1>5 DEF S

(* ... and two functions with the same recursion end alike. *)
Agree(f, g, N) == f[0] = g[0] /\ \A n \in 1 .. N : f[n - 1] = g[n - 1] => f[n] = g[n]

(* Two functions that agree at zero and step alike are equal. *)
LEMMA RecursionUnique ==
  ASSUME NEW N \in Nat, NEW f, NEW g, Agree(f, g, N)
  PROVE  \A n \in 0 .. N : f[n] = g[n]
<1> DEFINE S == {n \in 0 .. N : f[n] = g[n]}
<1>1. 0 \in S
  BY DEF Agree
<1>2. \A n \in 1 .. N : n - 1 \in S => n \in S
  BY DEF Agree
<1> HIDE DEF S
<1>3. \A n \in 0 .. N : n \in S
  BY <1>1, <1>2, UpTo, Zenon
<1> QED BY <1>3 DEF S

-----------------------------------------------------------------------------
(* The indexed row array. *)

(* Loading distinct rows gives an exact index. *)
LEMMA TabulateExact ==
  ASSUME NEW rows \in Seq(Row), DistinctIds(rows)
  PROVE  Tabulate(rows) \in Table /\ TableExact(Tabulate(rows))
<1> DEFINE Holds(id, i) == /\ i = 0 => \A j \in 1 .. Len(rows) : rows[j].id # id
                           /\ i > 0 => /\ rows[i].id = id
                                       /\ \A j \in (i + 1) .. Len(rows) : rows[j].id # id
<1>1. ASSUME NEW id \in Ids
      PROVE  \E i \in 0 .. Len(rows) : Holds(id, i)
  <2>1. CASE \A j \in 1 .. Len(rows) : rows[j].id # id
    BY <2>1
  <2>2. CASE \E j \in 1 .. Len(rows) : rows[j].id = id
    <3>1. PICK j \in 1 .. Len(rows) : rows[j].id = id
      BY <2>2
    <3>2. Holds(id, j)
      BY <3>1 DEF DistinctIds
    <3> QED BY <3>1, <3>2
  <2> QED BY <2>1, <2>2
<1>2. ASSUME NEW id \in Ids
      PROVE  /\ IndexOf(rows)[id] \in 0 .. Len(rows)
             /\ Holds(id, IndexOf(rows)[id])
  BY <1>1, <1>2 DEF IndexOf
<1>3. IndexOf(rows) \in [Ids -> Nat]
  BY <1>2 DEF IndexOf
<1>4. ASSUME NEW i \in 1 .. Len(rows)
      PROVE  IndexOf(rows)[rows[i].id] = i
  <2>1. rows[i].id \in Ids
    <3>1. rows[i] \in Row
      OBVIOUS
    <3> QED BY <3>1 DEF Row
  <2> DEFINE k == IndexOf(rows)[rows[i].id]
  <2>2. k \in 0 .. Len(rows) /\ Holds(rows[i].id, k)
    BY <1>2, <2>1
  <2>3. k # 0
    BY <2>2
  <2>4. rows[k].id = rows[i].id
    BY <2>2, <2>3
  <2> QED BY <2>2, <2>3, <2>4 DEF DistinctIds
<1>5. Tabulate(rows) \in Table
  BY <1>3 DEF Tabulate, Table
<1>6. ASSUME NEW id \in Ids, IndexOf(rows)[id] # 0
      PROVE  rows[IndexOf(rows)[id]].id = id
  BY <1>2, <1>6
<1>7. TableExact(Tabulate(rows))
  BY <1>2, <1>4, <1>6 DEF Tabulate, TableExact, RowOf
<1> QED BY <1>5, <1>7

(* Putting a row keeps the index exact. *)
LEMMA PutRowExact ==
  ASSUME NEW t \in Table, TableExact(t), NEW row \in Row
  PROVE  /\ PutRow(t, row) \in Table
         /\ TableExact(PutRow(t, row))
         /\ \A id \in Ids : ValAt(PutRow(t, row), id) =
                              IF id = row.id THEN row.val ELSE ValAt(t, id)
<1>1. row.id \in Ids /\ row.val \in Vals
  BY DEF Row
<1>2. t.rows \in Seq(Row) /\ t.index \in [Ids -> Nat]
  BY DEF Table
<1>3. CASE t.index[row.id] = 0
  <2> DEFINE u == [rows  |-> Append(t.rows, row),
                   index |-> [t.index EXCEPT ![row.id] = Len(t.rows) + 1]]
  <2>1. PutRow(t, row) = u
    BY <1>3 DEF PutRow
  <2>2. u \in Table
    BY <1>1, <1>2 DEF Table
  <2>3. /\ Len(u.rows) = Len(t.rows) + 1
        /\ u.rows[Len(t.rows) + 1] = row
        /\ \A i \in 1 .. Len(t.rows) : u.rows[i] = t.rows[i]
    BY <1>2
  <2>4. \A id \in Ids : u.index[id] = IF id = row.id THEN Len(t.rows) + 1 ELSE t.index[id]
    BY <1>2
  <2>5. \A i \in 1 .. Len(t.rows) : t.rows[i].id \in Ids
    <3>1. \A i \in 1 .. Len(t.rows) : t.rows[i] \in Row
      BY <1>2
    <3> QED BY <3>1 DEF Row
  <2>6. \A i \in 1 .. Len(t.rows) : t.rows[i].id # row.id
    BY <1>3, <2>5 DEF TableExact
  <2>7. TableExact(u)
    <3>1. ASSUME NEW id \in Ids
          PROVE  /\ u.index[id] \in 0 .. Len(u.rows)
                 /\ u.index[id] # 0 => RowOf(u, id).id = id
      BY <1>2, <2>3, <2>4 DEF TableExact, RowOf
    <3>2. ASSUME NEW i \in 1 .. Len(u.rows)
          PROVE  u.index[u.rows[i].id] = i
      BY <1>1, <1>2, <2>3, <2>4, <2>5, <2>6 DEF TableExact
    <3> QED BY <3>1, <3>2 DEF TableExact
  <2>8. ASSUME NEW id \in Ids
        PROVE  ValAt(u, id) = IF id = row.id THEN row.val ELSE ValAt(t, id)
    BY <1>2, <2>3, <2>4 DEF TableExact, ValAt, RowOf
  <2> HIDE DEF u
  <2> QED BY <2>1, <2>2, <2>7, <2>8
<1>4. CASE t.index[row.id] # 0
  <2> DEFINE k == t.index[row.id]
  <2> DEFINE u == [t EXCEPT !.rows[k] = row]
  <2>1. PutRow(t, row) = u
    BY <1>4 DEF PutRow
  <2>2. k \in 1 .. Len(t.rows) /\ t.rows[k].id = row.id
    BY <1>1, <1>2, <1>4 DEF TableExact, RowOf
  <2>3. u = [rows |-> [t.rows EXCEPT ![k] = row], index |-> t.index]
    BY DEF Table
  <2>4. u.rows \in Seq(Row) /\ Len(u.rows) = Len(t.rows)
    BY <1>2, <2>2, <2>3
  <2>5. \A i \in 1 .. Len(t.rows) : u.rows[i] = IF i = k THEN row ELSE t.rows[i]
    BY <1>2, <2>2, <2>3
  <2>6. u.index = t.index
    BY <2>3
  <2>7. u \in Table
    BY <1>2, <2>3, <2>4 DEF Table
  <2> HIDE DEF u
  <2>8. TableExact(u)
    BY <1>2, <2>2, <2>4, <2>5, <2>6 DEF TableExact, RowOf
  <2>9. ASSUME NEW id \in Ids
        PROVE  ValAt(u, id) = IF id = row.id THEN row.val ELSE ValAt(t, id)
    <3>1. CASE id = row.id
      BY <1>4, <2>2, <2>5, <2>6, <3>1 DEF ValAt, RowOf
    <3>2. CASE id # row.id /\ t.index[id] = 0
      BY <2>6, <3>2 DEF ValAt
    <3>3. CASE id # row.id /\ t.index[id] # 0
      <4>1. t.index[id] \in 1 .. Len(t.rows) /\ t.rows[t.index[id]].id = id
        BY <1>2, <3>3 DEF TableExact, RowOf
      <4>2. t.index[id] # k
        BY <2>2, <3>3, <4>1
      <4> QED BY <2>5, <2>6, <3>3, <4>1, <4>2 DEF ValAt, RowOf
    <3> QED BY <3>1, <3>2, <3>3
  <2> QED BY <2>1, <2>7, <2>8, <2>9
<1> QED BY <1>3, <1>4

(* Removing a row by moving the last into its place keeps the index exact. *)
LEMMA SwapRemoveExact ==
  ASSUME NEW t \in Table, TableExact(t), NEW id \in Ids
  PROVE  /\ SwapRemove(t, id) \in Table
         /\ TableExact(SwapRemove(t, id))
         /\ \A other \in Ids : ValAt(SwapRemove(t, id), other) =
                                 IF other = id THEN NoVal ELSE ValAt(t, other)
<1>1. t.rows \in Seq(Row) /\ t.index \in [Ids -> Nat]
  BY DEF Table
<1>2. CASE t.index[id] = 0
  BY <1>2 DEF SwapRemove, ValAt
<1>3. CASE t.index[id] # 0
  <2> DEFINE hole == t.index[id]
             last == Len(t.rows)
             moved == t.rows[last]
             rows == SubSeq([t.rows EXCEPT ![hole] = moved], 1, last - 1)
             index == IF hole = last
                        THEN [t.index EXCEPT ![id] = 0]
                        ELSE [t.index EXCEPT ![id] = 0, ![moved.id] = hole]
             u == [rows |-> rows, index |-> index]
  <2>1. SwapRemove(t, id) = u
    BY <1>3 DEF SwapRemove
  <2>2. hole \in 1 .. last /\ t.rows[hole].id = id
    BY <1>1, <1>3 DEF TableExact, RowOf
  <2>3. last \in Nat \ {0}
    BY <1>1, <2>2
  <2>4. \A i \in 1 .. last : t.rows[i].id \in Ids /\ t.index[t.rows[i].id] = i
    <3>1. \A i \in 1 .. last : t.rows[i] \in Row
      BY <1>1
    <3> QED BY <3>1 DEF Row, TableExact
  <2>5. moved \in Row /\ moved.id \in Ids /\ t.index[moved.id] = last
    BY <1>1, <2>3, <2>4
  <2>6. [t.rows EXCEPT ![hole] = moved] \in Seq(Row)
    BY <1>1, <2>2, <2>5
  <2>7. rows \in Seq(Row) /\ Len(rows) = last - 1
    BY <1>1, <2>3, <2>6
  <2>8. \A i \in 1 .. (last - 1) : rows[i] = IF i = hole THEN moved ELSE t.rows[i]
    BY <1>1, <2>2, <2>3, <2>6
  <2>9. index \in [Ids -> Nat]
    BY <1>1, <2>2, <2>5
  <2>10. \A other \in Ids : index[other] = IF other = id THEN 0
                                          ELSE IF other = moved.id THEN hole
                                          ELSE t.index[other]
    <3>1. CASE hole = last
      <4>1. moved.id = id
        BY <2>2, <3>1
      <4> QED BY <1>1, <3>1, <4>1
    <3>2. CASE hole # last
      <4>1. moved.id # id
        BY <2>5, <3>2
      <4> QED BY <1>1, <2>5, <3>2, <4>1
    <3> QED BY <3>1, <3>2
  <2>11. \A other \in Ids : t.index[other] # 0 =>
             /\ t.index[other] \in 1 .. last
             /\ t.rows[t.index[other]].id = other
    BY <1>1 DEF TableExact, RowOf
  <2>12. u \in Table
    BY <2>7, <2>9 DEF Table
  <2>13. u.rows = rows /\ u.index = index
    OBVIOUS
  <2> HIDE DEF u, rows, index
  <2>14. ASSUME NEW other \in Ids
         PROVE  /\ index[other] \in 0 .. Len(rows)
                /\ index[other] # 0 => rows[index[other]].id = other
    <3>1. CASE other = id
      BY <2>3, <2>7, <2>10, <3>1
    <3>2. CASE other # id /\ other = moved.id
      <4>1. hole # last
        BY <2>2, <3>2
      <4>2. index[other] = hole /\ hole \in 1 .. (last - 1)
        BY <2>2, <2>10, <3>2, <4>1
      <4> QED BY <2>3, <2>7, <2>8, <3>2, <4>2
    <3>3. CASE other # id /\ other # moved.id /\ t.index[other] = 0
      BY <2>3, <2>7, <2>10, <3>3
    <3>4. CASE other # id /\ other # moved.id /\ t.index[other] # 0
      <4>1. t.index[other] \in 1 .. (last - 1) /\ t.index[other] # hole
        BY <2>2, <2>3, <2>5, <2>11, <3>4
      <4> QED BY <2>3, <2>7, <2>8, <2>10, <2>11, <3>4, <4>1
    <3> QED BY <3>1, <3>2, <3>3, <3>4
  <2>15. ASSUME NEW i \in 1 .. Len(rows)
         PROVE  index[rows[i].id] = i
    <3>1. i \in 1 .. (last - 1)
      BY <2>7
    <3>2. CASE i = hole
      <4>1. rows[i].id = moved.id /\ moved.id # id
        BY <2>2, <2>5, <2>8, <3>1, <3>2
      <4> QED BY <2>5, <2>10, <3>2, <4>1
    <3>3. CASE i # hole
      <4>1. rows[i].id = t.rows[i].id /\ t.index[t.rows[i].id] = i /\ t.rows[i].id \in Ids
        BY <2>4, <2>8, <3>1, <3>3
      <4>2. t.rows[i].id # id /\ t.rows[i].id # moved.id
        BY <2>5, <3>1, <3>3, <4>1
      <4> QED BY <2>10, <4>1, <4>2
    <3> QED BY <3>2, <3>3
  <2>16. TableExact(u)
    BY <2>13, <2>14, <2>15 DEF TableExact, RowOf
  <2>17. ASSUME NEW other \in Ids
         PROVE  ValAt(u, other) = IF other = id THEN NoVal ELSE ValAt(t, other)
    <3>1. CASE other = id
      BY <2>10, <2>13, <3>1 DEF ValAt
    <3>2. CASE other # id /\ other = moved.id
      <4>1. hole # last
        BY <2>2, <3>2
      <4>2. rows[hole] = moved /\ index[other] = hole /\ t.index[other] = last
        BY <2>2, <2>3, <2>5, <2>8, <2>10, <3>2, <4>1
      <4> QED BY <2>2, <2>3, <2>13, <3>2, <4>2 DEF ValAt, RowOf
    <3>3. CASE other # id /\ other # moved.id /\ t.index[other] = 0
      BY <2>10, <2>13, <3>3 DEF ValAt
    <3>4. CASE other # id /\ other # moved.id /\ t.index[other] # 0
      <4>1. t.index[other] \in 1 .. (last - 1) /\ t.index[other] # hole
        BY <2>2, <2>3, <2>5, <2>11, <3>4
      <4> QED BY <2>8, <2>10, <2>13, <3>4, <4>1 DEF ValAt, RowOf
    <3> QED BY <3>1, <3>2, <3>3, <3>4
  <2> QED BY <2>1, <2>12, <2>16, <2>17
<1> QED BY <1>2, <1>3

-----------------------------------------------------------------------------
(* The ring buffer. *)

(* The remainder of a sum of two positions is reached by one subtraction. *)
LEMMA WrapOnce ==
  ASSUME NEW c \in Nat \ {0}, NEW a \in 0 .. (c - 1), NEW b \in 0 .. c
  PROVE  (a + b) % c = IF a + b < c THEN a + b ELSE a + b - c
  OBVIOUS

WrapAt(c, a, b) == IF a + b < c THEN a + b ELSE a + b - c

(* Distinct offsets below the capacity are at distinct slots. *)
LEMMA WrapInjective ==
  ASSUME NEW c \in Nat \ {0}, NEW a \in 0 .. (c - 1),
         NEW i \in Nat, NEW j \in Nat, i < j, j < c
  PROVE  WrapAt(c, a, i) \in 0 .. (c - 1) /\ WrapAt(c, a, i) # WrapAt(c, a, j)
  BY DEF WrapAt

(* Moving the start by one moves every offset by one and spares the old *)
(* start.                                                               *)
LEMMA WrapShift ==
  ASSUME NEW c \in Nat \ {0}, NEW a \in 0 .. (c - 1), NEW i \in Nat, i < c - 1
  PROVE  /\ WrapAt(c, WrapAt(c, a, 1), i) = WrapAt(c, a, i + 1)
         /\ WrapAt(c, a, i + 1) # a
         /\ WrapAt(c, a, i + 1) \in 0 .. (c - 1)
  BY DEF WrapAt

Ring == [entries : [Slots -> Entry \cup {NoEntry}], start : Nat, size : Nat]

RingOK(l) == /\ l \in Ring
             /\ l.size <= LogCapacity
             /\ l.start \in Slots \cup {0}

(* The physical index is the logical one, wrapped once. *)
LEMMA PhysicalIndexWraps ==
  ASSUME NEW l, RingOK(l), LogCapacity # 0, NEW i \in 0 .. LogCapacity
  PROVE  PhysicalIndex(l, i) = IF l.start + i < LogCapacity
                                 THEN l.start + i ELSE l.start + i - LogCapacity
<1>1. LogCapacity \in Nat \ {0} /\ l.start \in 0 .. (LogCapacity - 1)
  BY LogCapacityIsNat DEF RingOK, Ring, Slots
<1> QED BY <1>1, WrapOnce DEF PhysicalIndex

(* After an append the new entry is the newest, and the others are one place *)
(* older than they were.                                                     *)
Appended(l, e, m) ==
  LogCapacity # 0 =>
    /\ m.size \in 1 .. (l.size + 1) /\ EntryAt(m, m.size - 1) = e
    /\ \A d \in 1 .. (m.size - 1) : EntryAt(m, m.size - 1 - d) = EntryAt(l, l.size - d)

(* Appending the next version keeps the log the newest run. *)
LEMMA AppendKeepsRun ==
  ASSUME NEW l, RingOK(l), NEW v \in Nat, NewestRun(l, v),
         NEW e \in Entry, e.version = v + 1
  PROVE  /\ RingOK(AppendEntry(l, e)) /\ NewestRun(AppendEntry(l, e), v + 1)
         /\ Appended(l, e, AppendEntry(l, e))
<1> USE LogCapacityIsNat
<1>1. CASE LogCapacity = 0
  BY <1>1 DEF AppendEntry, NewestRun, Appended
<1>2. CASE LogCapacity # 0
  <2>1. /\ l.entries \in [Slots -> Entry \cup {NoEntry}]
        /\ l.start \in Slots /\ l.start \in 0 .. (LogCapacity - 1)
        /\ l.size \in 0 .. LogCapacity
    BY <1>2 DEF RingOK, Ring, Slots
  <2>2. CASE l.size < LogCapacity
    <3> DEFINE slot == PhysicalIndex(l, l.size)
               m == [entries |-> [l.entries EXCEPT ![slot] = e],
                     start   |-> l.start,
                     size    |-> l.size + 1]
    <3>1. AppendEntry(l, e) = m
      BY <1>2, <2>2 DEF AppendEntry
    <3> LogCapacity \in Nat \ {0}
      BY <1>2
    <3>0. \A i \in 0 .. LogCapacity :
             PhysicalIndex(l, i) = IF l.start + i < LogCapacity
                                     THEN l.start + i ELSE l.start + i - LogCapacity
      BY <1>2, PhysicalIndexWraps
    <3>2. slot \in Slots
      <4>1. slot = IF l.start + l.size < LogCapacity
                     THEN l.start + l.size ELSE l.start + l.size - LogCapacity
        BY <2>1, <3>0
      <4> HIDE DEF slot
      <4> QED BY <2>1, <4>1 DEF Slots
    <3>3. /\ m.entries = [l.entries EXCEPT ![slot] = e]
          /\ m.start = l.start
          /\ m.size = l.size + 1
      OBVIOUS
    <3>4. m \in Ring
      BY <2>1, <3>2 DEF Ring
    <3> HIDE DEF m
    <3>5. RingOK(m)
      BY <2>1, <2>2, <3>3, <3>4 DEF RingOK, Slots
    <3>6. v = l.size
      BY <1>2, <2>2 DEF NewestRun
    <3>7. ASSUME NEW i \in 0 .. l.size
          PROVE  /\ EntryAt(m, i) # NoEntry /\ EntryAt(m, i).version = i + 1
                 /\ EntryAt(m, i) = IF i = l.size THEN e ELSE EntryAt(l, i)
      <4>1. EntryAt(m, i) = m.entries[PhysicalIndex(l, i)]
        BY <1>2, <2>1, <3>3 DEF EntryAt, PhysicalIndex
      <4>2. CASE i = l.size
        BY EmptySlotIsNoEntry, <2>1, <3>2, <3>3, <3>6, <4>1, <4>2
      <4>3. CASE i # l.size
        <5>1. PhysicalIndex(l, i) \in Slots /\ PhysicalIndex(l, i) # slot
          <6>1. slot = IF l.start + l.size < LogCapacity
                         THEN l.start + l.size ELSE l.start + l.size - LogCapacity
            BY <2>1, <3>0
          <6>2. PhysicalIndex(l, i) = IF l.start + i < LogCapacity
                                        THEN l.start + i ELSE l.start + i - LogCapacity
            BY <2>1, <3>0
          <6>3. i < l.size /\ l.size < LogCapacity /\ i \in Nat /\ l.size \in Nat
            BY <2>1, <2>2, <4>3
          <6>4. /\ WrapAt(LogCapacity, l.start, i) \in 0 .. (LogCapacity - 1)
                /\ WrapAt(LogCapacity, l.start, i) # WrapAt(LogCapacity, l.start, l.size)
            BY <2>1, <6>3, WrapInjective
          <6> QED BY <6>1, <6>2, <6>4 DEF Slots, WrapAt
        <5>2. EntryAt(m, i) = EntryAt(l, i)
          BY <1>2, <2>1, <3>2, <3>3, <4>1, <4>3, <5>1 DEF EntryAt
        <5> QED BY <2>1, <3>6, <4>3, <5>2 DEF NewestRun
      <4> QED BY <4>2, <4>3
    <3>8. NewestRun(m, v + 1)
      BY <2>1, <2>2, <3>3, <3>6, <3>7 DEF NewestRun
    <3>9. Appended(l, e, m)
      BY <2>1, <3>3, <3>7 DEF Appended
    <3> QED BY <3>1, <3>5, <3>8, <3>9
  <2>3. CASE l.size = LogCapacity
    <3> DEFINE next == (l.start + 1) % LogCapacity
               m == [entries |-> [l.entries EXCEPT ![l.start] = e],
                     start   |-> next,
                     size    |-> l.size]
    <3>1. AppendEntry(l, e) = m
      BY <1>2, <2>3 DEF AppendEntry
    <3> LogCapacity \in Nat \ {0}
      BY <1>2
    <3>2. next = IF l.start + 1 < LogCapacity THEN l.start + 1 ELSE 0
      <4>1. l.start \in 0 .. (LogCapacity - 1) /\ 1 \in 0 .. LogCapacity
        BY <2>1
      <4>2. next = IF l.start + 1 < LogCapacity
                     THEN l.start + 1 ELSE l.start + 1 - LogCapacity
        BY <4>1, WrapOnce
      <4> QED BY <4>1, <4>2
    <3>3. next \in Slots
      BY <1>2, <2>1, <3>2 DEF Slots
    <3>4. /\ m.entries = [l.entries EXCEPT ![l.start] = e]
          /\ m.start = next
          /\ m.size = l.size
      OBVIOUS
    <3>5. m \in Ring
      BY <2>1, <3>3 DEF Ring, Slots
    <3> HIDE DEF m, next
    <3>6. RingOK(m)
      BY <2>1, <2>3, <3>3, <3>4, <3>5 DEF RingOK
    <3>7. ASSUME NEW i \in 0 .. (LogCapacity - 1)
          PROVE  /\ EntryAt(m, i) # NoEntry
                 /\ EntryAt(m, i).version = v + 1 - LogCapacity + 1 + i
                 /\ EntryAt(m, i) = IF i = LogCapacity - 1 THEN e ELSE EntryAt(l, i + 1)
      <4>1. EntryAt(m, i) = m.entries[PhysicalIndex(m, i)]
        BY <1>2, <2>3, <3>4 DEF EntryAt
      <4>2. PhysicalIndex(m, i) = IF next + i < LogCapacity
                                    THEN next + i ELSE next + i - LogCapacity
        BY <1>2, <3>4, <3>6, PhysicalIndexWraps
      <4>3. CASE i = LogCapacity - 1
        <5>1. PhysicalIndex(m, i) = l.start
          BY <1>2, <2>1, <3>2, <4>2, <4>3
        <5>2. EntryAt(m, i) = e
          BY <2>1, <3>4, <4>1, <5>1
        <5> QED BY EmptySlotIsNoEntry, <4>3, <5>2
      <4>4. CASE i < LogCapacity - 1
        <5>1. PhysicalIndex(l, i + 1) = IF l.start + i + 1 < LogCapacity
                                THEN l.start + i + 1 ELSE l.start + i + 1 - LogCapacity
          BY <1>2, <2>1, <4>4, PhysicalIndexWraps
        <5>2. /\ PhysicalIndex(m, i) = PhysicalIndex(l, i + 1)
              /\ PhysicalIndex(l, i + 1) # l.start
              /\ PhysicalIndex(l, i + 1) \in Slots
          <6>1. next = WrapAt(LogCapacity, l.start, 1)
            BY <2>1, <3>2 DEF WrapAt
          <6>2. PhysicalIndex(m, i) = WrapAt(LogCapacity, next, i)
            BY <4>2 DEF WrapAt
          <6>3. PhysicalIndex(l, i + 1) = WrapAt(LogCapacity, l.start, i + 1)
            BY <2>1, <5>1 DEF WrapAt
          <6>4. /\ WrapAt(LogCapacity, WrapAt(LogCapacity, l.start, 1), i)
                     = WrapAt(LogCapacity, l.start, i + 1)
                /\ WrapAt(LogCapacity, l.start, i + 1) # l.start
                /\ WrapAt(LogCapacity, l.start, i + 1) \in 0 .. (LogCapacity - 1)
            <7>1. l.start \in 0 .. (LogCapacity - 1) /\ i \in Nat /\ i < LogCapacity - 1
              BY <2>1, <4>4
            <7> QED BY <7>1, WrapShift
          <6> QED BY <6>1, <6>2, <6>3, <6>4 DEF Slots
        <5>3. EntryAt(m, i) = EntryAt(l, i + 1)
          BY <1>2, <2>1, <2>3, <3>4, <4>1, <4>4, <5>2 DEF EntryAt
        <5>4. v >= LogCapacity
          BY <2>3 DEF NewestRun
        <5>5. i + 1 \in 0 .. (l.size - 1)
          BY <2>3, <4>4
        <5>6. EntryAt(l, i + 1) # NoEntry /\ EntryAt(l, i + 1).version = v - l.size + 1 + (i + 1)
          BY <5>5 DEF NewestRun
        <5> QED BY <2>3, <4>4, <5>3, <5>6
      <4> QED BY <4>3, <4>4
    <3>8. NewestRun(m, v + 1)
      <4>1. v >= LogCapacity
        BY <2>3 DEF NewestRun
      <4> QED BY <2>3, <3>4, <3>7, <4>1 DEF NewestRun
    <3>9. Appended(l, e, m)
      BY <2>1, <2>3, <3>4, <3>7 DEF Appended
    <3> QED BY <3>1, <3>6, <3>8, <3>9
  <2> QED BY <2>1, <2>2, <2>3
<1> QED BY <1>1, <1>2

-----------------------------------------------------------------------------
(* The specification. *)

IInv == TypeOK /\ IndexExact /\ LogIsNewestRun /\ copy.version <= version

(* The invariant holds at first. *)
LEMMA InitIInv == Init => IInv
<1> SUFFICES ASSUME Init PROVE IInv
  OBVIOUS
<1>1. PICK rows \in InitialRows :
         table = Tabulate(rows) /\ copy = [rows |-> rows, version |-> 0, ordered |-> TRUE]
  BY DEF Init
<1>2. rows \in Seq(Row) /\ DistinctIds(rows)
  BY StoreConstants
<1>3. table \in Table /\ TableExact(table)
  BY <1>1, <1>2, TabulateExact
<1>4. version = 0 /\ log = EmptyLog
  BY DEF Init
<1>5. /\ log \in [entries : [Slots -> Entry \cup {NoEntry}], start : Nat, size : Nat]
      /\ log.size = 0 /\ log.start = 0
  BY <1>4 DEF EmptyLog
<1>6. LogIsNewestRun
  BY <1>4, <1>5, LogCapacityIsNat DEF LogIsNewestRun, NewestRun
<1>7. TypeOK
  BY <1>1, <1>2, <1>3, <1>4, <1>5, LogCapacityIsNat DEF TypeOK
<1> QED BY <1>1, <1>3, <1>4, <1>6, <1>7 DEF IInv, IndexExact

(* What the three mutations have in common. *)
LEMMA MutationKeepsIInv ==
  ASSUME IInv, NEW kind \in {"insert", "update", "delete"}, NEW id \in Ids,
         NEW val \in Vals \cup {NoVal}, AppendMutation(kind, id, val),
         table' \in Table, TableExact(table'), UNCHANGED copy
  PROVE  IInv'
<1> DEFINE e == [version |-> version + 1, kind |-> kind, id |-> id, val |-> val]
<1>1. version \in Nat /\ RingOK(log) /\ NewestRun(log, version)
  BY DEF IInv, TypeOK, RingOK, Ring, LogIsNewestRun
<1>2. e \in Entry /\ e.version = version + 1
  BY <1>1 DEF Entry
<1>3. version' = version + 1 /\ log' = AppendEntry(log, e)
  BY DEF AppendMutation
<1> HIDE DEF e
<1>4. RingOK(log') /\ NewestRun(log', version')
  BY <1>1, <1>2, <1>3, AppendKeepsRun
<1>5. TypeOK'
  BY <1>1, <1>3, <1>4 DEF IInv, TypeOK, RingOK, Ring
<1>6. copy'.version <= version'
  BY <1>1, <1>3 DEF IInv, TypeOK
<1> QED BY <1>4, <1>5, <1>6 DEF IInv, IndexExact, LogIsNewestRun

(* Orders of distinct rows are row arrays. *)
LEMMA OrdersAreRowArrays ==
  ASSUME NEW rows \in Seq(Row), NEW other \in SetToSeqs(ToSet(rows))
  PROVE  other \in Seq(Row)
<1> DEFINE S == ToSet(rows)
<1>1. rows \in Surjection(1 .. Len(rows), S)
  BY DEF ToSet, Surjection
<1>2. IsFiniteSet(1 .. Len(rows))
  BY FS_Interval
<1>3. IsFiniteSet(S)
  BY <1>1, <1>2, FS_Surjection
<1>4. Cardinality(S) \in Nat
  BY <1>3, FS_CardinalityType
<1>5. S \subseteq Row
  BY DEF ToSet
<1>6. other \in [1 .. Cardinality(S) -> S]
  BY DEF SetToSeqs
<1> HIDE DEF S
<1> QED BY <1>4, <1>5, <1>6

(* Every step keeps the invariant. *)
LEMMA NextIInv == IInv /\ [Next]_vars => IInv'
<1> SUFFICES ASSUME IInv, [Next]_vars PROVE IInv'
  OBVIOUS
<1>0. table \in Table /\ TableExact(table)
  BY DEF IInv, TypeOK, IndexExact
<1>1. ASSUME NEW id \in Ids, NEW val \in Vals, Publish(id, val)
      PROVE  IInv'
  <2>1. [id |-> id, val |-> val] \in Row
    BY DEF Row
  <2>2. table' \in Table /\ TableExact(table')
    BY <1>0, <1>1, <2>1, PutRowExact DEF Publish
  <2> QED BY <1>1, <2>2, MutationKeepsIInv DEF Publish
<1>2. ASSUME NEW id \in Ids, NEW val \in Vals, UpdateExisting(id, val)
      PROVE  IInv'
  <2>1. [id |-> id, val |-> val] \in Row
    BY DEF Row
  <2>2. table' \in Table /\ TableExact(table')
    BY <1>0, <1>2, <2>1, PutRowExact DEF UpdateExisting
  <2> QED BY <1>2, <2>2, MutationKeepsIInv DEF UpdateExisting
<1>3. ASSUME NEW id \in Ids, DeleteById(id)
      PROVE  IInv'
  <2>1. table' \in Table /\ TableExact(table')
    BY <1>0, <1>3, SwapRemoveExact DEF DeleteById
  <2> QED BY <1>3, <2>1, MutationKeepsIInv DEF DeleteById
<1>4. CASE CopyForBuild
  <2>1. copy' \in [rows : Seq(Row), version : Nat, ordered : BOOLEAN] /\ copy'.version = version
    BY <1>4 DEF CopyForBuild, IInv, TypeOK, Table
  <2> QED BY <1>4, <2>1 DEF CopyForBuild, IInv, TypeOK, IndexExact, LogIsNewestRun
<1>5. CASE CopyForBackend
  <2>1. PICK rows \in SetToSeqs(ToSet(table.rows)) :
           copy' = [rows |-> rows, version |-> version, ordered |-> FALSE]
    BY <1>5 DEF CopyForBackend
  <2>2. rows \in Seq(Row)
    BY <1>0, <2>1, OrdersAreRowArrays DEF Table
  <2>3. copy' \in [rows : Seq(Row), version : Nat, ordered : BOOLEAN] /\ copy'.version = version
    BY <2>1, <2>2 DEF IInv, TypeOK
  <2> QED BY <1>5, <2>3 DEF CopyForBackend, IInv, TypeOK, IndexExact, LogIsNewestRun
<1>6. CASE UNCHANGED vars
  BY <1>6 DEF vars, IInv, TypeOK, IndexExact, LogIsNewestRun
<1> QED BY <1>1, <1>2, <1>3, <1>4, <1>5, <1>6 DEF Next

(* The invariant always holds. *)
LEMMA SpecIInv == Spec => []IInv
BY InitIInv, NextIInv, PTL DEF Spec

(* The state of the store keeps its types, and the log its capacity, after *)
(* any history of publishes, patches and deletes, for rows and logs of any *)
(* size.                                                                   *)
THEOREM TypeCorrect == Spec => []TypeOK
<1>1. IInv => TypeOK
  BY DEF IInv
<1> QED BY <1>1, SpecIInv, PTL

(* The index maps each id to its row's position, always. *)
THEOREM IndexAlwaysExact == Spec => []IndexExact
<1>1. IInv => IndexExact
  BY DEF IInv
<1> QED BY <1>1, SpecIInv, PTL

(* Both at once, as the runs check it. *)
THEOREM StoreAlwaysSound == Spec => []StoreSound
<1>1. TypeOK /\ IndexExact => StoreSound
  BY DEF StoreSound
<1> QED BY <1>1, TypeCorrect, IndexAlwaysExact, PTL

(* The ring holds exactly the newest versions, in order, always. *)
THEOREM LogAlwaysNewestRun == Spec => []LogIsNewestRun
<1>1. IInv => LogIsNewestRun
  BY DEF IInv
<1> QED BY <1>1, SpecIInv, PTL

(* canReplay refuses a copy only when the log lost a version the copy      *)
(* needs.                                                                  *)
THEOREM ReplayAlwaysOffered == Spec => []ReplayOfferedWhenHeld
<1>1. IInv => ReplayOfferedWhenHeld
  <2> SUFFICES ASSUME IInv, version - copy.version <= LogCapacity,
                      copy.version < version
               PROVE  CoversExclusive(log, copy.version, version)
    BY DEF ReplayOfferedWhenHeld, CoversExclusive, IInv, TypeOK
  <2>1. version \in Nat /\ copy.version \in Nat /\ NewestRun(log, version)
    BY DEF IInv, TypeOK, LogIsNewestRun
  <2>2. log.size \in Nat \ {0} /\ log.size <= LogCapacity /\ version - copy.version <= log.size
    BY <2>1, LogCapacityIsNat DEF NewestRun
  <2>3. 0 \in 0 .. (log.size - 1) /\ log.size - 1 \in 0 .. (log.size - 1)
    BY <2>2
  <2>4. /\ EntryAt(log, 0) # NoEntry /\ EntryAt(log, 0).version = version - log.size + 1
        /\ EntryAt(log, log.size - 1) # NoEntry
        /\ EntryAt(log, log.size - 1).version = version
    BY <2>1, <2>2, <2>3 DEF NewestRun
  <2> QED BY <2>1, <2>2, <2>4 DEF CoversExclusive
<1> QED BY <1>1, SpecIInv, PTL

-----------------------------------------------------------------------------
(* The refinement. *)

(* A publish or patch is a write of the versioned table. *)
LEMMA WriteRefines ==
  ASSUME IInv, NEW id \in Ids, NEW val \in Vals,
         table' = PutRow(table, [id |-> id, val |-> val]), version' = version + 1
  PROVE  Abstract!Write(id, val)
<1> DEFINE row == [id |-> id, val |-> val]
<1>1. row \in Row /\ row.id = id /\ row.val = val
  BY DEF Row
<1>2. table \in Table /\ TableExact(table)
  BY DEF IInv, TypeOK, IndexExact
<1>3. \A other \in Ids : ValAt(table', other) = IF other = id THEN val ELSE ValAt(table, other)
  BY <1>1, <1>2, PutRowExact
<1>4. Contents' = [Contents EXCEPT ![id] = val]
  BY <1>3 DEF Contents
<1> QED BY <1>4 DEF Abstract!Write

(* A delete is an erasure of the versioned table. *)
LEMMA EraseRefines ==
  ASSUME IInv, NEW id \in Ids, DeleteById(id)
  PROVE  Abstract!Erase(id)
<1>1. table \in Table /\ TableExact(table)
  BY DEF IInv, TypeOK, IndexExact
<1>2. /\ table.index[id] # 0
      /\ table' = SwapRemove(table, id)
      /\ version' = version + 1
  BY DEF DeleteById, AppendMutation
<1>3. \A other \in Ids : ValAt(table', other) = IF other = id THEN NoVal ELSE ValAt(table, other)
  BY <1>1, <1>2, SwapRemoveExact
<1>4. Contents' = [Contents EXCEPT ![id] = NoVal]
  BY <1>3 DEF Contents
<1>5. Contents[id] # NoVal
  <2>1. table.index[id] \in 1 .. Len(table.rows)
    BY <1>1, <1>2 DEF Table, TableExact
  <2>2. table.rows[table.index[id]] \in Row
    BY <1>1, <2>1 DEF Table
  <2>3. RowOf(table, id).val \in Vals
    BY <2>2 DEF Row, RowOf
  <2> QED BY <1>2, <2>3, StoreConstants DEF Contents, ValAt
<1> QED BY <1>2, <1>4, <1>5 DEF Abstract!Erase

(* An initial store is an initial versioned table. *)
LEMMA InitRefines == Init => Abstract!TableInit
<1> SUFFICES ASSUME Init PROVE Abstract!TableInit
  OBVIOUS
<1>1. IInv
  BY InitIInv
<1>2. ASSUME NEW id \in Ids
      PROVE  ValAt(table, id) \in Vals \cup {NoVal}
  <2>1. CASE table.index[id] = 0
    BY <2>1 DEF ValAt
  <2>2. CASE table.index[id] # 0
    <3>1. table.index[id] \in 1 .. Len(table.rows)
      BY <1>1, <2>2 DEF IInv, IndexExact, TypeOK, Table, TableExact
    <3>2. table.rows[table.index[id]] \in Row
      BY <1>1, <3>1 DEF IInv, TypeOK, Table
    <3> QED BY <2>2, <3>2 DEF Row, ValAt, RowOf
  <2> QED BY <2>1, <2>2
<1> QED BY <1>2 DEF Abstract!TableInit, Contents, Init

(* The row array, the index and the swap-remove implement the versioned    *)
(* table: every step writes or erases one id and counts one version, or    *)
(* leaves both alone.                                                      *)
THEOREM StoreImplementsTable == Spec => ImplementsTable
<1>1. Init => Abstract!TableInit
  BY InitRefines
<1>2. IInv /\ [Next]_vars => [Abstract!TableNext]_(Abstract!tableVars)
  <2> SUFFICES ASSUME IInv, [Next]_vars
               PROVE  [Abstract!TableNext]_(Abstract!tableVars)
    OBVIOUS
  <2>1. ASSUME NEW id \in Ids, NEW val \in Vals, Publish(id, val) \/ UpdateExisting(id, val)
        PROVE  Abstract!TableNext
    <3>1. Abstract!Write(id, val)
      BY <2>1, WriteRefines DEF Publish, UpdateExisting, AppendMutation
    <3> QED BY <3>1 DEF Abstract!TableNext
  <2>2. ASSUME NEW id \in Ids, DeleteById(id)
        PROVE  Abstract!TableNext
    BY <2>2, EraseRefines DEF Abstract!TableNext
  <2>3. CASE CopyForBuild \/ CopyForBackend \/ UNCHANGED vars
    <3>1. table' = table /\ version' = version
      BY <2>3 DEF CopyForBuild, CopyForBackend, vars
    <3> QED BY <3>1 DEF Abstract!tableVars, Contents
  <2> QED BY <2>1, <2>2, <2>3 DEF Next
<1> QED BY <1>1, <1>2, SpecIInv, PTL DEF Spec, ImplementsTable, Abstract!TableSpec

-----------------------------------------------------------------------------
(* Replay. *)

(* What a mutation logs can be replayed. *)
GoodEntry == {e \in Entry : e.kind # "delete" => e.val \in Vals}

ExactTable == {t \in Table : TableExact(t)}

(* Two tables hold the same rows, in orders of their own. *)
Same(t, u) == Len(t.rows) = Len(u.rows) /\ \A id \in Ids : ValAt(t, id) = ValAt(u, id)

CaughtUp(t, u, ordered) == t \in ExactTable /\ Same(t, u) /\ (ordered => t = u)

GoodLog(l) == \A i \in 0 .. (l.size - 1) : EntryAt(l, i) \in GoodEntry

(* The copy replayed is the table, as long as the log reaches back to it. *)
CopyCatchesUp ==
  version - copy.version <= log.size =>
    CaughtUp(Replay(copy.rows, EntriesExclusive(log, copy.version, version)), table, copy.ordered)

ReplayInv == IInv /\ GoodLog(log) /\ DistinctIds(copy.rows) /\ CopyCatchesUp


(* Replaying an entry keeps a table exact. *)
LEMMA ReplayEntryExact ==
  ASSUME NEW t \in ExactTable, NEW e \in GoodEntry
  PROVE  ReplayEntry(t, e) \in ExactTable
<1>1. t \in Table /\ TableExact(t)
  BY DEF ExactTable
<1>2. e.id \in Ids /\ (e.kind # "delete" => [id |-> e.id, val |-> e.val] \in Row)
  BY DEF GoodEntry, Entry, Row
<1>3. CASE e.kind = "delete"
  <2>1. SwapRemove(t, e.id) \in Table /\ TableExact(SwapRemove(t, e.id))
    BY <1>1, <1>2, SwapRemoveExact
  <2> QED BY <1>3, <2>1 DEF ReplayEntry, ExactTable
<1>4. CASE e.kind # "delete"
  <2> DEFINE row == [id |-> e.id, val |-> e.val]
  <2>1. row \in Row /\ ReplayEntry(t, e) = PutRow(t, row)
    BY <1>2, <1>4 DEF ReplayEntry
  <2> HIDE DEF row
  <2>2. PutRow(t, row) \in Table /\ TableExact(PutRow(t, row))
    BY <1>1, <2>1, PutRowExact
  <2> QED BY <2>1, <2>2 DEF ExactTable
<1> QED BY <1>3, <1>4

(* The tables before the first entry and after each. *)
ReplayTrace(f, rows, es) ==
  /\ f \in [0 .. Len(es) -> ExactTable] /\ f[0] = Tabulate(rows)
  /\ \A n \in 1 .. Len(es) : f[n] = ReplayEntry(f[n - 1], es[n])

(* Replay is a run along the entries. *)
LEMMA ReplayUnrolled ==
  ASSUME NEW rows \in Seq(Row), DistinctIds(rows), NEW es \in Seq(GoodEntry)
  PROVE  \E f : ReplayTrace(f, rows, es) /\ Replay(rows, es) = f[Len(es)]
<1> DEFINE N == Len(es)
           base == Tabulate(rows)
<1>1. N \in Nat /\ \A n \in 1 .. N : es[n] \in GoodEntry
  OBVIOUS
<1>2. base \in ExactTable
  BY TabulateExact DEF ExactTable
<1> HIDE DEF N, base
<1>3. \A n \in 1 .. N, t \in ExactTable : ReplayEntry(t, es[n]) \in ExactTable
  BY <1>1, ReplayEntryExact
<1> DEFINE step == [n \in 1 .. N |-> [t \in ExactTable |-> ReplayEntry(t, es[n])]]
<1>4. step \in [1 .. N -> [ExactTable -> ExactTable]]
  BY <1>3
<1>5. \E f : Recursion(f, N, ExactTable, base, step)
  <2> HIDE DEF step
  <2> QED BY <1>1, <1>2, <1>4, RecursionExists
<1>6. PICK f : Recursion(f, N, ExactTable, base, step)
  BY <1>5, Zenon
<1>7. \A n \in 1 .. N : f[n - 1] \in ExactTable /\ f[n] = ReplayEntry(f[n - 1], es[n])
  BY <1>1, <1>6 DEF Recursion
<1> DEFINE Is(h) == h = [n \in 0 .. Len(es) |->
                           IF n = 0 THEN Tabulate(rows) ELSE ReplayEntry(h[n - 1], es[n])]
           g == CHOOSE h : Is(h)
<1>8. Replay(rows, es) = g[Len(es)]
  BY Zenon DEF Replay
<1>9. Is(f)
  <2>1. \A n \in 0 .. N : f[n] = IF n = 0 THEN base ELSE ReplayEntry(f[n - 1], es[n])
    BY <1>1, <1>6, <1>7 DEF Recursion
  <2>2. f = [n \in 0 .. N |-> f[n]]
    BY <1>6 DEF Recursion
  <2> QED BY <2>1, <2>2 DEF N, base
<1>10. Is(g)
  <2> HIDE DEF Is
  <2> QED BY <1>9
<1> HIDE DEF g, step
<1>11. Agree(g, f, N)
  <2>1. \A n \in 0 .. N : g[n] = IF n = 0 THEN base ELSE ReplayEntry(g[n - 1], es[n])
    BY <1>10 DEF N, base
  <2>2. f[0] = base /\ \A n \in 1 .. N : f[n] = ReplayEntry(f[n - 1], es[n])
    BY <1>6, <1>7 DEF Recursion
  <2>3. 0 \in 0 .. N /\ \A n \in 1 .. N : n \in 0 .. N /\ n # 0
    BY <1>1
  <2> HIDE DEF Is
  <2> QED BY <2>1, <2>2, <2>3 DEF Agree
<1>12. g[N] = f[N]
  <2>1. \A n \in 0 .. N : g[n] = f[n]
    <3> HIDE DEF Is
    <3> QED BY <1>1, <1>11, RecursionUnique
  <2> QED BY <1>1, <2>1
<1>13. ReplayTrace(f, rows, es)
  BY <1>6, <1>7 DEF ReplayTrace, Recursion, N, base
<1> HIDE DEF Is
<1> QED BY <1>8, <1>12, <1>13 DEF N

(* No entry leaves the copy as it was loaded. *)
LEMMA ReplayNothing ==
  ASSUME NEW rows \in Seq(Row), DistinctIds(rows)
  PROVE  Replay(rows, << >>) = Tabulate(rows)
<1>1. << >> \in Seq(GoodEntry) /\ Len(<< >>) = 0
  OBVIOUS
<1>2. PICK f : ReplayTrace(f, rows, << >>) /\ Replay(rows, << >>) = f[Len(<< >>)]
  BY <1>1, ReplayUnrolled
<1> QED BY <1>1, <1>2 DEF ReplayTrace

(* One entry more is replayed last. *)
LEMMA ReplayOneMore ==
  ASSUME NEW rows \in Seq(Row), DistinctIds(rows), NEW es \in Seq(GoodEntry), NEW e \in GoodEntry
  PROVE  Replay(rows, Append(es, e)) = ReplayEntry(Replay(rows, es), e)
<1> DEFINE N == Len(es)
           longer == Append(es, e)
<1>1. /\ N \in Nat /\ longer \in Seq(GoodEntry) /\ Len(longer) = N + 1 /\ longer[N + 1] = e
      /\ \A n \in 1 .. N : longer[n] = es[n]
  OBVIOUS
<1>2. PICK f : ReplayTrace(f, rows, es) /\ Replay(rows, es) = f[N]
  BY ReplayUnrolled
<1> HIDE DEF longer
<1>3. PICK g : ReplayTrace(g, rows, longer) /\ Replay(rows, longer) = g[N + 1]
  BY <1>1, ReplayUnrolled
<1> HIDE DEF N
<1>4. Agree(g, f, N)
  BY <1>1, <1>2, <1>3 DEF Agree, ReplayTrace, N
<1>5. g[N] = f[N]
  <2>1. \A n \in 0 .. N : g[n] = f[n]
    BY <1>1, <1>4, RecursionUnique
  <2> QED BY <1>1, <2>1
<1>6. g[N + 1] = ReplayEntry(g[N], e)
  BY <1>1, <1>3 DEF ReplayTrace
<1> QED BY <1>2, <1>3, <1>5, <1>6 DEF longer

(* The entries of a log from place a to place n, counted from its oldest. *)
Stretch(l, a, n) == [j \in 1 .. (n - a) |-> EntryAt(l, a + j - 1)]

(* The entries above a version are those at the log's new end. *)
LEMMA HeldIsStretch ==
  ASSUME NEW l, RingOK(l), NEW v \in Nat, NewestRun(l, v), NEW c \in Nat, c <= v, v - c <= l.size
  PROVE  EntriesExclusive(l, c, v) = Stretch(l, l.size - (v - c), l.size)
<1> DEFINE N == l.size
           a == N - (v - c)
           Wanted(entry) == entry # NoEntry /\ entry.version > c /\ entry.version <= v
           Is(h) == h = [n \in 0 .. N |->
                           IF n = 0 THEN << >>
                           ELSE IF Wanted(EntryAt(l, n - 1)) THEN Append(h[n - 1], EntryAt(l, n - 1))
                           ELSE h[n - 1]]
           g == CHOOSE h : Is(h)
           f == [n \in 0 .. N |-> IF n <= a THEN << >> ELSE Stretch(l, a, n)]
<1>1. N \in Nat /\ a \in 0 .. N
  BY DEF RingOK, Ring
<1>2. EntriesExclusive(l, c, v) = g[N]
  BY Zenon DEF EntriesExclusive
<1>3. \A n \in 1 .. N : Wanted(EntryAt(l, n - 1)) <=> n > a
  <2> SUFFICES ASSUME NEW n \in 1 .. N
               PROVE  Wanted(EntryAt(l, n - 1)) <=> n > a
    OBVIOUS
  <2> DEFINE e == EntryAt(l, n - 1)
  <2>1. e # NoEntry /\ e.version = v - N + n
    <3>1. n - 1 \in 0 .. (N - 1)
      BY <1>1
    <3>2. \A i \in 0 .. (N - 1) : EntryAt(l, i) # NoEntry /\ EntryAt(l, i).version = v - N + 1 + i
      BY DEF NewestRun
    <3>3. v - N + 1 + (n - 1) = v - N + n
      BY <1>1
    <3> QED BY <3>1, <3>2, <3>3
  <2> HIDE DEF e
  <2>2. Wanted(e) <=> n > a
    BY <1>1, <2>1
  <2> QED BY <2>2 DEF e
<1>4. ASSUME NEW n \in 1 .. N, n > a
      PROVE  Stretch(l, a, n) = Append(f[n - 1], EntryAt(l, n - 1))
  <2> DEFINE s == f[n - 1]
             k == n - 1 - a
             S == {EntryAt(l, i) : i \in 0 .. N}
  <2>1. k \in Nat
    BY <1>1, <1>4
  <2>2. s = [j \in 1 .. k |-> EntryAt(l, a + j - 1)]
    BY <1>1, <1>4 DEF Stretch
  <2>3. s \in Seq(S) /\ Len(s) = k
    <3>1. \A j \in 1 .. k : EntryAt(l, a + j - 1) \in S
      BY <1>1
    <3> HIDE DEF s, S, k
    <3> QED BY <2>1, <2>2, <3>1
  <2>4. Append(s, EntryAt(l, n - 1)) = [j \in 1 .. (k + 1) |-> IF j = k + 1 THEN EntryAt(l, n - 1) ELSE s[j]]
    <3>1. EntryAt(l, n - 1) \in S
      BY <1>1
    <3> HIDE DEF s, S, k
    <3> QED BY <2>3, <3>1
  <2>5. \A j \in 1 .. (k + 1) : EntryAt(l, a + j - 1) = IF j = k + 1 THEN EntryAt(l, n - 1) ELSE s[j]
    <3>1. a + (k + 1) - 1 = n - 1
      BY <1>1
    <3> HIDE DEF s
    <3> QED BY <2>1, <2>2, <3>1
  <2>6. n - a = k + 1
    BY <1>1
  <2>7. Stretch(l, a, n) = [j \in 1 .. (k + 1) |-> EntryAt(l, a + j - 1)]
    BY <2>6 DEF Stretch
  <2>8. f[n - 1] = s
    OBVIOUS
  <2> HIDE DEF s, k, f
  <2>9. [j \in 1 .. (k + 1) |-> EntryAt(l, a + j - 1)]
          = [j \in 1 .. (k + 1) |-> IF j = k + 1 THEN EntryAt(l, n - 1) ELSE s[j]]
    BY <2>5
  <2> QED BY <2>4, <2>7, <2>8, <2>9
<1>5. Is(f)
  <2>1. ASSUME NEW n \in 0 .. N
        PROVE  f[n] = IF n = 0 THEN << >>
                      ELSE IF Wanted(EntryAt(l, n - 1)) THEN Append(f[n - 1], EntryAt(l, n - 1))
                      ELSE f[n - 1]
    <3>1. CASE n <= a
      <4> HIDE DEF Wanted
      <4> QED BY <1>1, <1>3, <3>1
    <3>2. CASE n > a
      <4>1. n \in 1 .. N /\ Wanted(EntryAt(l, n - 1))
        <5> HIDE DEF Wanted
        <5> QED BY <1>1, <1>3, <3>2
      <4>2. f[n] = Stretch(l, a, n)
        BY <1>1, <3>2
      <4>3. Stretch(l, a, n) = Append(f[n - 1], EntryAt(l, n - 1))
        BY <1>4, <3>2, <4>1
      <4>4. n # 0
        BY <1>1, <4>1
      <4> HIDE DEF Wanted, f
      <4> QED BY <4>1, <4>2, <4>3, <4>4
    <3> QED BY <1>1, <3>1, <3>2
  <2>2. f = [n \in 0 .. N |-> f[n]]
    OBVIOUS
  <2> HIDE DEF f, Wanted
  <2> QED BY <2>1, <2>2
<1>6. Is(g)
  <2> HIDE DEF Is, f
  <2> QED BY <1>5
<1> HIDE DEF g, f
<1>7. Agree(g, f, N)
  <2> HIDE DEF Wanted
  <2>1. \A n \in 0 .. N : g[n] = IF n = 0 THEN << >>
                                ELSE IF Wanted(EntryAt(l, n - 1)) THEN Append(g[n - 1], EntryAt(l, n - 1))
                                ELSE g[n - 1]
    BY <1>6
  <2>2. \A n \in 0 .. N : f[n] = IF n = 0 THEN << >>
                                ELSE IF Wanted(EntryAt(l, n - 1)) THEN Append(f[n - 1], EntryAt(l, n - 1))
                                ELSE f[n - 1]
    BY <1>5
  <2>3. 0 \in 0 .. N /\ \A n \in 1 .. N : n \in 0 .. N /\ n # 0
    BY <1>1
  <2> HIDE DEF Is, N, a
  <2> QED BY <2>1, <2>2, <2>3 DEF Agree
<1>8. g[N] = f[N]
  <2>1. \A n \in 0 .. N : g[n] = f[n]
    <3> HIDE DEF Is
    <3> QED BY <1>1, <1>7, RecursionUnique
  <2> QED BY <1>1, <2>1
<1>9. f[N] = Stretch(l, a, N)
  <2>1. a = N => Stretch(l, a, N) = << >>
    <3> SUFFICES ASSUME a = N PROVE Stretch(l, a, N) = << >>
      OBVIOUS
    <3>0. N - a = 0
      BY <1>1
    <3>1. Stretch(l, a, N) = [j \in 1 .. 0 |-> EntryAt(l, a + j - 1)]
      BY Zenon, <3>0 DEF Stretch
    <3> DEFINE t == [j \in 1 .. 0 |-> EntryAt(l, a + j - 1)]
    <3>2. t \in Seq({}) /\ Len(t) = 0
      OBVIOUS
    <3> HIDE DEF t
    <3>3. t = << >>
      BY <3>2
    <3> QED BY <3>1, <3>3 DEF t
  <2> QED BY <1>1, <2>1 DEF f
<1> HIDE DEF Is
<1> QED BY <1>2, <1>8, <1>9

(* Append as a function. *)
LEMMA AppendIs ==
  ASSUME NEW E, NEW s \in Seq(E), NEW e \in E, NEW k, k = Len(s)
  PROVE  Append(s, e) = [j \in 1 .. (k + 1) |-> IF j = k + 1 THEN e ELSE s[j]]
<1> DEFINE t == Append(s, e)
<1>1. t \in Seq(E) /\ Len(t) = k + 1 /\ t[k + 1] = e /\ \A j \in 1 .. k : t[j] = s[j]
  BY AppendProperties
<1>2. k \in Nat
  OBVIOUS
<1> HIDE DEF t
<1>3. t = [j \in 1 .. (k + 1) |-> t[j]]
  BY <1>1
<1>4. \A j \in 1 .. (k + 1) : t[j] = IF j = k + 1 THEN e ELSE s[j]
  BY <1>1, <1>2
<1>5. t = [j \in 1 .. (k + 1) |-> IF j = k + 1 THEN e ELSE s[j]]
  BY <1>3, <1>4
<1> QED BY <1>5 DEF t

(* The last k entries of a log with one more behind them. *)
OneMore(l, k, e) ==
  [j \in 1 .. (k + 1) |-> IF j = k + 1 THEN e ELSE EntryAt(l, l.size - k + j - 1)]

(* What is appended is last in the stretches that reach the new end. *)
LEMMA StretchGrows ==
  ASSUME NEW l, RingOK(l), NEW m, RingOK(m), NEW e, Appended(l, e, m), LogCapacity # 0,
         NEW k \in Nat, k + 1 <= m.size
  PROVE  /\ k <= l.size
         /\ Stretch(m, m.size - (k + 1), m.size) = OneMore(l, k, e)
<1> DEFINE M == m.size
           L == l.size
<1>1. /\ M \in 1 .. (L + 1) /\ L \in Nat /\ M \in Nat /\ EntryAt(m, M - 1) = e
      /\ \A d \in 1 .. (M - 1) : EntryAt(m, M - 1 - d) = EntryAt(l, L - d)
  BY DEF RingOK, Ring, Appended
<1> HIDE DEF M, L
<1>2. k + 1 <= M
  BY DEF M
<1>3. ASSUME NEW j \in 1 .. (k + 1)
      PROVE  EntryAt(m, M - (k + 1) + j - 1) = IF j = k + 1 THEN e ELSE EntryAt(l, L - k + j - 1)
  <2>1. CASE j = k + 1
    <3>1. M - (k + 1) + j - 1 = M - 1
      BY <1>1, <2>1
    <3> QED BY <1>1, <2>1, <3>1
  <2>2. CASE j # k + 1
    <3> DEFINE d == k + 1 - j
    <3>1. d \in 1 .. (M - 1) /\ M - (k + 1) + j - 1 = M - 1 - d /\ L - k + j - 1 = L - d
      BY <1>1, <1>2, <2>2
    <3> HIDE DEF d
    <3>2. EntryAt(m, M - 1 - d) = EntryAt(l, L - d)
      BY <1>1, <3>1
    <3> QED BY <2>2, <3>1, <3>2
  <2> QED BY <2>1, <2>2
<1>4. M - (M - (k + 1)) = k + 1
  BY <1>1
<1>5. Stretch(m, M - (k + 1), M) = [j \in 1 .. (k + 1) |-> EntryAt(m, M - (k + 1) + j - 1)]
  BY Zenon, <1>4 DEF Stretch
<1>6. Stretch(m, M - (k + 1), M)
        = [j \in 1 .. (k + 1) |-> IF j = k + 1 THEN e ELSE EntryAt(l, L - k + j - 1)]
  BY <1>3, <1>5
<1> QED BY <1>1, <1>2, <1>6 DEF M, L, OneMore

(* A stretch at the end of a log of good entries is a sequence of them. *)
LEMMA StretchIsGood ==
  ASSUME NEW l, RingOK(l), GoodLog(l), NEW k \in Nat, k <= l.size
  PROVE  /\ Stretch(l, l.size - k, l.size) = [j \in 1 .. k |-> EntryAt(l, l.size - k + j - 1)]
         /\ Stretch(l, l.size - k, l.size) \in Seq(GoodEntry)
         /\ Len(Stretch(l, l.size - k, l.size)) = k
<1> DEFINE L == l.size
           s == [j \in 1 .. k |-> EntryAt(l, L - k + j - 1)]
<1>1. L \in Nat /\ k <= L
  BY DEF RingOK, Ring
<1>2. \A i \in 0 .. (L - 1) : EntryAt(l, i) \in GoodEntry
  BY DEF GoodLog
<1> HIDE DEF L
<1>3. L - (L - k) = k
  BY <1>1
<1>4. Stretch(l, L - k, L) = s
  BY Zenon, <1>3 DEF Stretch
<1>5. ASSUME NEW j \in 1 .. k PROVE EntryAt(l, L - k + j - 1) \in GoodEntry
  <2>1. L - k + j - 1 \in 0 .. (L - 1)
    BY <1>1
  <2> QED BY <1>2, <2>1
<1>6. s \in Seq(GoodEntry) /\ Len(s) = k
  <2> DEFINE E == GoodEntry
  <2>1. \A j \in 1 .. k : EntryAt(l, L - k + j - 1) \in E
    BY <1>5
  <2> HIDE DEF E
  <2>2. s \in Seq(E) /\ Len(s) = k
    BY <2>1
  <2> QED BY <2>2 DEF E
<1> QED BY <1>4, <1>6 DEF L

(* Appending a good entry keeps the log one of good entries. *)
LEMMA AppendKeepsGood ==
  ASSUME NEW l, RingOK(l), GoodLog(l), NEW e \in GoodEntry, NEW m, RingOK(m),
         Appended(l, e, m), LogCapacity = 0 => m = l
  PROVE  GoodLog(m)
<1>1. CASE LogCapacity = 0
  BY <1>1
<1>2. CASE LogCapacity # 0
  <2> DEFINE M == m.size
             L == l.size
  <2>1. /\ M \in 1 .. (L + 1) /\ L \in Nat /\ M \in Nat /\ EntryAt(m, M - 1) = e
        /\ \A d \in 1 .. (M - 1) : EntryAt(m, M - 1 - d) = EntryAt(l, L - d)
        /\ \A i \in 0 .. (L - 1) : EntryAt(l, i) \in GoodEntry
    BY <1>2 DEF RingOK, Ring, Appended, GoodLog
  <2> HIDE DEF M, L
  <2>2. ASSUME NEW i \in 0 .. (M - 1) PROVE EntryAt(m, i) \in GoodEntry
    <3>1. CASE i = M - 1
      BY <2>1, <3>1
    <3>2. CASE i # M - 1
      <4> DEFINE d == M - 1 - i
      <4>1. d \in 1 .. (M - 1) /\ M - 1 - d = i /\ L - d \in 0 .. (L - 1)
        BY <2>1, <3>2
      <4> HIDE DEF d
      <4> QED BY <2>1, <4>1
    <3> QED BY <3>1, <3>2
  <2> QED BY <2>2 DEF GoodLog, M
<1> QED BY <1>1, <1>2

(* What a mutation appends is replayed last. *)
LEMMA NewestIsReplayedLast ==
  ASSUME NEW l, RingOK(l), GoodLog(l), NEW v \in Nat, NewestRun(l, v), NEW c \in Nat, c <= v,
         NEW e \in GoodEntry, e.version = v + 1, NEW rows \in Seq(Row), DistinctIds(rows),
         v + 1 - c <= AppendEntry(l, e).size
  PROVE  /\ v - c <= l.size
         /\ Replay(rows, EntriesExclusive(AppendEntry(l, e), c, v + 1))
              = ReplayEntry(Replay(rows, EntriesExclusive(l, c, v)), e)
<1> DEFINE m == AppendEntry(l, e)
           k == v - c
<1>1. RingOK(m) /\ NewestRun(m, v + 1) /\ Appended(l, e, m)
  <2>1. e \in Entry
    BY DEF GoodEntry
  <2> QED BY <2>1, AppendKeepsRun
<1>2. LogCapacity # 0
  <2> SUFFICES ASSUME LogCapacity = 0 PROVE FALSE
    OBVIOUS
  <2>1. m = l /\ l.size = 0
    BY LogCapacityIsNat DEF AppendEntry, NewestRun
  <2> QED BY <2>1
<1>3. k \in Nat /\ k + 1 = v + 1 - c /\ k + 1 <= m.size
  OBVIOUS
<1> HIDE DEF m
<1>4. v + 1 \in Nat /\ c <= v + 1 /\ v + 1 - c <= m.size
  BY <1>3
<1>5. EntriesExclusive(m, c, v + 1) = Stretch(m, m.size - (v + 1 - c), m.size)
  BY <1>1, <1>4, HeldIsStretch
<1>6. /\ k <= l.size
      /\ Stretch(m, m.size - (k + 1), m.size) = OneMore(l, k, e)
  <2> HIDE DEF k
  <2> QED BY <1>1, <1>2, <1>3, StretchGrows
<1>7. EntriesExclusive(l, c, v) = Stretch(l, l.size - k, l.size)
  BY <1>6, HeldIsStretch
<1> DEFINE es == Stretch(l, l.size - k, l.size)
<1>8. /\ es = [j \in 1 .. k |-> EntryAt(l, l.size - k + j - 1)]
      /\ es \in Seq(GoodEntry) /\ Len(es) = k
  <2> HIDE DEF k
  <2> QED BY <1>3, <1>6, StretchIsGood
<1>9. Stretch(m, m.size - (k + 1), m.size) = Append(es, e)
  <2> DEFINE E == GoodEntry
  <2>1. es \in Seq(E) /\ e \in E /\ Len(es) = k
    BY <1>8
  <2> HIDE DEF es, E, k
  <2>2. Append(es, e) = [j \in 1 .. (k + 1) |-> IF j = k + 1 THEN e ELSE es[j]]
    BY <2>1, AppendIs
  <2>3. \A j \in 1 .. (k + 1) : j # k + 1 => es[j] = EntryAt(l, l.size - k + j - 1)
    BY <1>3, <1>8
  <2>4. [j \in 1 .. (k + 1) |-> IF j = k + 1 THEN e ELSE es[j]]
          = OneMore(l, k, e)
    BY <2>3 DEF OneMore
  <2> QED BY <1>6, <2>2, <2>4
<1>10. Replay(rows, Append(es, e)) = ReplayEntry(Replay(rows, es), e)
  <2> HIDE DEF es
  <2> QED BY <1>8, ReplayOneMore
<1>11. Stretch(m, m.size - (v + 1 - c), m.size) = Append(es, e)
  BY Zenon, <1>3, <1>9
<1> HIDE DEF es
<1>12. Replay(rows, EntriesExclusive(m, c, v + 1)) = ReplayEntry(Replay(rows, es), e)
  BY <1>5, <1>10, <1>11
<1> QED BY <1>6, <1>7, <1>12 DEF es, m

-----------------------------------------------------------------------------
(* Tables with the same rows. *)

(* An exact table holds an id just when it has a value for it. *)
LEMMA HeldHasValue ==
  ASSUME NEW t \in ExactTable, NEW id \in Ids
  PROVE  /\ t.index[id] = 0 <=> ValAt(t, id) = NoVal
         /\ t.index[id] # 0 => /\ t.index[id] \in 1 .. Len(t.rows)
                               /\ t.rows[t.index[id]] = [id |-> id, val |-> ValAt(t, id)]
<1>1. t.rows \in Seq(Row) /\ t.index \in [Ids -> Nat] /\ TableExact(t)
  BY DEF ExactTable, Table
<1>2. CASE t.index[id] = 0
  BY <1>2 DEF ValAt
<1>3. CASE t.index[id] # 0
  <2> DEFINE k == t.index[id]
             r == t.rows[k]
  <2>1. k \in 1 .. Len(t.rows) /\ r.id = id
    BY <1>1, <1>3 DEF TableExact, RowOf
  <2>2. r \in Row
    BY <1>1, <2>1
  <2>3. ValAt(t, id) = r.val
    BY <1>3 DEF ValAt, RowOf
  <2> HIDE DEF k, r
  <2>4. r.val \in Vals /\ r = [id |-> r.id, val |-> r.val]
    BY <2>2 DEF Row
  <2>5. ValAt(t, id) # NoVal /\ r = [id |-> id, val |-> ValAt(t, id)]
    BY <2>1, <2>3, <2>4, StoreConstants
  <2> QED BY <1>3, <2>1, <2>5 DEF k, r
<1> QED BY <1>2, <1>3

(* A row put in place of another leaves the length, a new one adds to it. *)
LEMMA PutRowLen ==
  ASSUME NEW t \in Table, NEW row \in Row,
         t.index[row.id] # 0 => t.index[row.id] \in 1 .. Len(t.rows)
  PROVE  Len(PutRow(t, row).rows) = IF t.index[row.id] = 0 THEN Len(t.rows) + 1 ELSE Len(t.rows)
<1>1. t.rows \in Seq(Row)
  BY DEF Table
<1>2. CASE t.index[row.id] = 0
  <2>1. PutRow(t, row).rows = Append(t.rows, row)
    BY <1>2 DEF PutRow
  <2> DEFINE rs == t.rows
             R == Row
  <2>2. rs \in Seq(R) /\ row \in R /\ PutRow(t, row).rows = Append(rs, row)
    BY <1>1, <2>1
  <2> HIDE DEF rs, R
  <2>3. Len(PutRow(t, row).rows) = Len(rs) + 1
    BY <2>2
  <2> QED BY <1>2, <2>3 DEF rs
<1>3. CASE t.index[row.id] # 0
  <2>1. PutRow(t, row).rows = [t.rows EXCEPT ![t.index[row.id]] = row]
    BY <1>3 DEF PutRow, Table
  <2> DEFINE rs == t.rows
             R == Row
             k == t.index[row.id]
  <2>2. rs \in Seq(R) /\ row \in R /\ PutRow(t, row).rows = [rs EXCEPT ![k] = row]
    BY <1>1, <2>1
  <2> HIDE DEF rs, R, k
  <2>3. Len(PutRow(t, row).rows) = Len(rs)
    BY <2>2
  <2> QED BY <1>3, <2>3 DEF rs
<1> QED BY <1>2, <1>3

(* A row removed shortens the array by one. *)
LEMMA SwapRemoveLen ==
  ASSUME NEW t, t.rows \in Seq(Row), NEW id \in Ids,
         t.index[id] # 0 => t.index[id] \in 1 .. Len(t.rows)
  PROVE  Len(SwapRemove(t, id).rows) = IF t.index[id] = 0 THEN Len(t.rows) ELSE Len(t.rows) - 1
<1>1. CASE t.index[id] = 0
  BY <1>1 DEF SwapRemove
<1>2. CASE t.index[id] # 0
  <2> DEFINE rs == t.rows
             R == Row
             k == t.index[id]
  <2>1. /\ rs \in Seq(R) /\ k \in 1 .. Len(rs)
        /\ SwapRemove(t, id).rows = SubSeq([rs EXCEPT ![k] = rs[Len(rs)]], 1, Len(rs) - 1)
    BY <1>2 DEF SwapRemove
  <2> HIDE DEF rs, R, k
  <2> DEFINE n == Len(rs)
             put == [rs EXCEPT ![k] = rs[n]]
  <2>2. n \in Nat /\ put \in Seq(R) /\ Len(put) = n /\ n >= 1
    BY <2>1
  <2> HIDE DEF put, n
  <2>3. Len(SubSeq(put, 1, n - 1)) = n - 1
    BY <2>2
  <2>4. Len(SwapRemove(t, id).rows) = Len(rs) - 1
    BY <2>1, <2>3 DEF n, put
  <2> QED BY <1>2, <2>4 DEF rs
<1> QED BY <1>1, <1>2

(* The same entry replayed onto tables of the same rows leaves the same rows. *)
LEMMA ReplayKeepsSame ==
  ASSUME NEW t \in ExactTable, NEW u \in ExactTable, Same(t, u), NEW e \in GoodEntry
  PROVE  Same(ReplayEntry(t, e), ReplayEntry(u, e))
<1>1. /\ e.id \in Ids
      /\ e.kind # "delete" => [id |-> e.id, val |-> e.val] \in Row
  BY DEF GoodEntry, Entry, Row
<1>2. t \in Table /\ TableExact(t) /\ u \in Table /\ TableExact(u)
  BY DEF ExactTable
<1>3. /\ t.rows \in Seq(Row) /\ t.index \in [Ids -> Nat]
      /\ u.rows \in Seq(Row) /\ u.index \in [Ids -> Nat]
  BY <1>2 DEF Table
<1>4. Len(t.rows) = Len(u.rows) /\ \A id \in Ids : ValAt(t, id) = ValAt(u, id)
  BY DEF Same
<1>5. t.index[e.id] = 0 <=> u.index[e.id] = 0
  <2>1. t.index[e.id] = 0 <=> ValAt(t, e.id) = NoVal
    BY <1>1, HeldHasValue
  <2>2. u.index[e.id] = 0 <=> ValAt(u, e.id) = NoVal
    BY <1>1, HeldHasValue
  <2>3. ValAt(t, e.id) = ValAt(u, e.id)
    BY <1>1, <1>4
  <2> QED BY <2>1, <2>2, <2>3
<1>6. t.index[e.id] # 0 => t.index[e.id] \in 1 .. Len(t.rows)
  BY <1>1, HeldHasValue
<1>7. u.index[e.id] # 0 => u.index[e.id] \in 1 .. Len(u.rows)
  BY <1>1, HeldHasValue
<1>8. CASE e.kind = "delete"
  <2>1. \A id \in Ids : ValAt(SwapRemove(t, e.id), id) = IF id = e.id THEN NoVal ELSE ValAt(t, id)
    BY <1>1, <1>2, SwapRemoveExact
  <2>2. \A id \in Ids : ValAt(SwapRemove(u, e.id), id) = IF id = e.id THEN NoVal ELSE ValAt(u, id)
    BY <1>1, <1>2, SwapRemoveExact
  <2>3. \A id \in Ids : ValAt(SwapRemove(t, e.id), id) = ValAt(SwapRemove(u, e.id), id)
    BY <1>4, <2>1, <2>2
  <2>4. Len(SwapRemove(t, e.id).rows) = IF t.index[e.id] = 0 THEN Len(t.rows) ELSE Len(t.rows) - 1
    BY <1>1, <1>3, <1>6, SwapRemoveLen
  <2>5. Len(SwapRemove(u, e.id).rows) = IF u.index[e.id] = 0 THEN Len(u.rows) ELSE Len(u.rows) - 1
    BY <1>1, <1>3, <1>7, SwapRemoveLen
  <2>6. Len(SwapRemove(t, e.id).rows) = Len(SwapRemove(u, e.id).rows)
    BY <1>4, <1>5, <2>4, <2>5
  <2> QED BY <1>8, <2>3, <2>6 DEF ReplayEntry, Same
<1>9. CASE e.kind # "delete"
  <2> DEFINE row == [id |-> e.id, val |-> e.val]
  <2>0. row \in Row /\ row.id = e.id /\ ReplayEntry(t, e) = PutRow(t, row) /\ ReplayEntry(u, e) = PutRow(u, row)
    BY <1>1, <1>9 DEF ReplayEntry
  <2> HIDE DEF row
  <2>1. \A id \in Ids : ValAt(PutRow(t, row), id) = IF id = row.id THEN row.val ELSE ValAt(t, id)
    BY <1>2, <2>0, PutRowExact
  <2>2. \A id \in Ids : ValAt(PutRow(u, row), id) = IF id = row.id THEN row.val ELSE ValAt(u, id)
    BY <1>2, <2>0, PutRowExact
  <2>3. \A id \in Ids : ValAt(PutRow(t, row), id) = ValAt(PutRow(u, row), id)
    BY <1>4, <2>1, <2>2
  <2>4. Len(PutRow(t, row).rows) = IF t.index[e.id] = 0 THEN Len(t.rows) + 1 ELSE Len(t.rows)
    BY <1>3, <1>6, <1>2, <2>0, PutRowLen
  <2>5. Len(PutRow(u, row).rows) = IF u.index[e.id] = 0 THEN Len(u.rows) + 1 ELSE Len(u.rows)
    BY <1>3, <1>7, <1>2, <2>0, PutRowLen
  <2>6. Len(PutRow(t, row).rows) = Len(PutRow(u, row).rows)
    BY <1>4, <1>5, <2>4, <2>5
  <2> QED BY <2>0, <2>3, <2>6 DEF Same
<1> QED BY <1>8, <1>9

(* Tables with the same rows have the same set of rows. *)
LEMMA SameRowSet ==
  ASSUME NEW t \in ExactTable, NEW u \in ExactTable, Same(t, u)
  PROVE  ToSet(t.rows) \subseteq ToSet(u.rows)
<1> SUFFICES ASSUME NEW r \in ToSet(t.rows) PROVE r \in ToSet(u.rows)
  OBVIOUS
<1>1. t.rows \in Seq(Row) /\ u.rows \in Seq(Row) /\ TableExact(t)
  BY DEF ExactTable, Table
<1>2. PICK i \in 1 .. Len(t.rows) : r = t.rows[i]
  BY <1>1 DEF ToSet
<1>3. r \in Row
  BY <1>1, <1>2
<1>4. r.id \in Ids /\ t.index[r.id] = i
  BY <1>1, <1>2, <1>3 DEF Row, TableExact
<1>5. ValAt(t, r.id) # NoVal /\ r = [id |-> r.id, val |-> ValAt(t, r.id)]
  <2>1. i # 0
    OBVIOUS
  <2> QED BY <1>2, <1>4, <2>1, HeldHasValue
<1>6. ValAt(u, r.id) = ValAt(t, r.id)
  BY <1>4 DEF Same
<1>7. /\ u.index[r.id] \in 1 .. Len(u.rows)
      /\ u.rows[u.index[r.id]] = [id |-> r.id, val |-> ValAt(u, r.id)]
  BY <1>4, <1>5, <1>6, HeldHasValue
<1>8. u.rows[u.index[r.id]] = r
  BY <1>5, <1>6, <1>7
<1> QED BY <1>1, <1>7, <1>8 DEF ToSet

(* The rows of an exact table have distinct ids and tabulate to it. *)
LEMMA TabulatedAgain ==
  ASSUME NEW t \in ExactTable
  PROVE  DistinctIds(t.rows) /\ Tabulate(t.rows) = t
<1>1. /\ t.rows \in Seq(Row) /\ t.index \in [Ids -> Nat] /\ TableExact(t)
      /\ t = [rows |-> t.rows, index |-> t.index]
  BY DEF ExactTable, Table
<1>2. DistinctIds(t.rows)
  BY <1>1 DEF TableExact, DistinctIds
<1> DEFINE u == Tabulate(t.rows)
<1>3. u \in Table /\ TableExact(u)
  BY <1>1, <1>2, TabulateExact
<1>4. u.rows = t.rows /\ u.index \in [Ids -> Nat] /\ u = [rows |-> t.rows, index |-> u.index]
  BY <1>3 DEF Tabulate, Table
<1> HIDE DEF u
<1>5. ASSUME NEW id \in Ids PROVE u.index[id] = t.index[id]
  <2>1. /\ u.index[id] \in 0 .. Len(t.rows) /\ t.index[id] \in 0 .. Len(t.rows)
        /\ u.index[id] # 0 => t.rows[u.index[id]].id = id
        /\ t.index[id] # 0 => t.rows[t.index[id]].id = id
    BY <1>1, <1>3, <1>4 DEF TableExact, RowOf
  <2>2. \A i \in 1 .. Len(t.rows) : u.index[t.rows[i].id] = i /\ t.index[t.rows[i].id] = i
    BY <1>1, <1>3, <1>4 DEF TableExact
  <2>3. Len(t.rows) \in Nat
    BY <1>1
  <2> QED BY <2>1, <2>2, <2>3
<1>6. u.index = t.index
  BY <1>1, <1>4, <1>5
<1>7. u = t
  BY <1>1, <1>4, <1>6
<1> QED BY <1>2, <1>7 DEF u

(* An order of a table's rows has as many of them, each once. *)
LEMMA OrdersAreComplete ==
  ASSUME NEW t \in ExactTable, NEW rows \in SetToSeqs(ToSet(t.rows))
  PROVE  /\ rows \in Seq(Row) /\ DistinctIds(rows) /\ Len(rows) = Len(t.rows)
         /\ \A i \in 1 .. Len(rows) : \E j \in 1 .. Len(t.rows) : rows[i] = t.rows[j]
         /\ \A j \in 1 .. Len(t.rows) : \E i \in 1 .. Len(rows) : rows[i] = t.rows[j]
<1> DEFINE S == ToSet(t.rows)
           n == Len(t.rows)
           own == t.rows
<1>1. own \in Seq(Row) /\ TableExact(t) /\ n \in Nat /\ DistinctIds(own)
  <2>1. DistinctIds(own)
    BY TabulatedAgain
  <2> QED BY <2>1 DEF ExactTable, Table
<1>2. rows \in Seq(Row)
  BY <1>1, OrdersAreRowArrays
<1>3. S = {own[j] : j \in 1 .. n}
  BY <1>1 DEF ToSet
<1>4. own \in Surjection(1 .. n, S) /\ own \in Injection(1 .. n, S)
  <2>1. own \in [1 .. n -> S]
    BY <1>1, <1>3
  <2>2. \A i, j \in 1 .. n : own[i] = own[j] => i = j
    BY <1>1 DEF DistinctIds
  <2>3. DOMAIN own = 1 .. n
    BY <1>1
  <2> HIDE DEF own, n, S
  <2> QED BY <1>3, <2>1, <2>2, <2>3 DEF Surjection, Injection, IsInjective
<1>5. IsFiniteSet(1 .. n) /\ Cardinality(1 .. n) = n
  <2> HIDE DEF n
  <2>1. 1 \in Int /\ n \in Int /\ (1 > n => n = 0)
    BY <1>1
  <2> QED BY <1>1, <2>1, FS_Interval
<1>6. IsFiniteSet(S) /\ Cardinality(S) = n
  <2> HIDE DEF n, S, own
  <2> QED BY <1>4, <1>5, FS_Surjection
<1>7. rows \in [1 .. n -> S] /\ \A i, j \in 1 .. n : i # j => rows[i] # rows[j]
  <2> HIDE DEF n, S
  <2>1. rows \in SetToSeqs(S)
    BY DEF S
  <2> QED BY <1>6, <2>1 DEF SetToSeqs
<1>8. Len(rows) = n
  <2>1. DOMAIN rows = 1 .. n
    BY <1>7
  <2> HIDE DEF n, S
  <2> QED BY <1>1, <1>2, <2>1
<1>9. rows \in Surjection(1 .. n, S)
  <2> HIDE DEF n, S
  <2>1. rows \in Injection(1 .. n, S)
    BY <1>7 DEF Injection, IsInjective
  <2> QED BY <1>5, <1>6, <2>1, FS_Injection
<1>10. /\ \A i \in 1 .. n : \E j \in 1 .. n : rows[i] = own[j]
       /\ \A j \in 1 .. n : \E i \in 1 .. n : rows[i] = own[j]
  <2>1. \A j \in 1 .. n : own[j] \in S
    BY <1>3
  <2> HIDE DEF n, own, S
  <2>2. ASSUME NEW i \in 1 .. n PROVE \E j \in 1 .. n : rows[i] = own[j]
    <3>1. rows[i] \in S
      BY <1>7
    <3> QED BY <1>3, <3>1
  <2>3. ASSUME NEW j \in 1 .. n PROVE \E i \in 1 .. n : rows[i] = own[j]
    <3>1. \A r \in S : \E i \in 1 .. n : rows[i] = r
      BY <1>9, Zenon DEF Surjection
    <3> QED BY <2>1, <3>1
  <2> QED BY <2>2, <2>3
<1>11. DistinctIds(rows)
  <2> SUFFICES ASSUME NEW i \in 1 .. n, NEW j \in 1 .. n, rows[i].id = rows[j].id PROVE i = j
    BY <1>8 DEF DistinctIds
  <2>1. PICK a \in 1 .. n : rows[i] = own[a]
    BY <1>10
  <2>2. PICK b \in 1 .. n : rows[j] = own[b]
    BY <1>10
  <2>3. a = b
    BY <1>1, <2>1, <2>2 DEF DistinctIds
  <2> QED BY <1>7, <2>1, <2>2, <2>3
<1> QED BY <1>2, <1>8, <1>10, <1>11

(* An order of a table's rows tabulates to the same rows. *)
LEMMA OrderIsSame ==
  ASSUME NEW t \in ExactTable, NEW rows \in SetToSeqs(ToSet(t.rows))
  PROVE  Tabulate(rows) \in ExactTable /\ Same(Tabulate(rows), t)
<1> DEFINE u == Tabulate(rows)
<1>1. /\ rows \in Seq(Row) /\ DistinctIds(rows) /\ Len(rows) = Len(t.rows)
      /\ \A i \in 1 .. Len(rows) : \E j \in 1 .. Len(t.rows) : rows[i] = t.rows[j]
      /\ \A j \in 1 .. Len(t.rows) : \E i \in 1 .. Len(rows) : rows[i] = t.rows[j]
  BY OrdersAreComplete
<1>2. u \in ExactTable
  BY <1>1, TabulateExact DEF ExactTable
<1>3. u.rows = rows
  BY DEF Tabulate
<1> HIDE DEF u
<1>4. ASSUME NEW id \in Ids PROVE ValAt(u, id) = ValAt(t, id)
  <2>1. /\ TableExact(t) /\ TableExact(u) /\ Len(t.rows) \in Nat
    BY <1>2 DEF ExactTable, Table
  <2>2. CASE u.index[id] # 0
    <3> DEFINE k == u.index[id]
    <3>1. k \in 1 .. Len(rows) /\ rows[k].id = id /\ ValAt(u, id) = rows[k].val
      BY <1>3, <2>1, <2>2 DEF TableExact, RowOf, ValAt
    <3>2. PICK j \in 1 .. Len(t.rows) : rows[k] = t.rows[j]
      BY <1>1, <3>1
    <3>3. t.index[id] = j /\ j # 0
      BY <2>1, <3>1, <3>2 DEF TableExact
    <3>4. ValAt(t, id) = t.rows[j].val
      BY <3>3 DEF ValAt, RowOf
    <3> QED BY <3>1, <3>2, <3>4
  <2>3. CASE u.index[id] = 0
    <3>1. t.index[id] = 0
      <4> SUFFICES ASSUME t.index[id] # 0 PROVE FALSE
        OBVIOUS
      <4> DEFINE j == t.index[id]
      <4>1. j \in 1 .. Len(t.rows) /\ t.rows[j].id = id
        BY <2>1 DEF TableExact, RowOf
      <4>2. PICK i \in 1 .. Len(rows) : rows[i] = t.rows[j]
        BY <1>1, <4>1
      <4>3. u.index[rows[i].id] = i
        BY <1>3, <2>1, <4>2 DEF TableExact
      <4> QED BY <2>3, <4>1, <4>2, <4>3
    <3> QED BY <2>3, <3>1 DEF ValAt
  <2> QED BY <2>2, <2>3
<1>5. Same(u, t)
  BY <1>1, <1>3, <1>4 DEF Same
<1> QED BY <1>2, <1>5 DEF u

-----------------------------------------------------------------------------
(* The copy, through every step. *)

(* A copy taken now has nothing to replay. *)
LEMMA NothingToReplay ==
  ASSUME NEW l, RingOK(l), GoodLog(l), NEW v \in Nat, NewestRun(l, v),
         NEW rows \in Seq(Row), DistinctIds(rows)
  PROVE  Replay(rows, EntriesExclusive(l, v, v)) = Tabulate(rows)
<1> DEFINE k == v - v
<1>1. l.size \in Nat /\ k = 0 /\ k \in Nat /\ k <= l.size
  BY DEF RingOK, Ring
<1>2. EntriesExclusive(l, v, v) = Stretch(l, l.size - k, l.size)
  BY <1>1, HeldIsStretch
<1> DEFINE es == Stretch(l, l.size - k, l.size)
           E == GoodEntry
<1>3. es \in Seq(E) /\ Len(es) = 0
  <2> HIDE DEF k
  <2> QED BY <1>1, StretchIsGood
<1>4. EntriesExclusive(l, v, v) = es
  BY <1>2
<1> HIDE DEF es, E
<1>5. es = << >>
  BY <1>3
<1> QED BY <1>4, <1>5, ReplayNothing

(* The copy and the log hold their invariant at first. *)
LEMMA InitReplayInv == Init => ReplayInv
<1> SUFFICES ASSUME Init PROVE ReplayInv
  OBVIOUS
<1>1. IInv
  BY InitIInv
<1>2. RingOK(log) /\ NewestRun(log, 0) /\ log.size = 0 /\ version = 0
  BY <1>1 DEF IInv, TypeOK, RingOK, Ring, LogIsNewestRun, Init, EmptyLog
<1>3. GoodLog(log)
  BY <1>2 DEF GoodLog
<1>4. PICK rows \in InitialRows :
         table = Tabulate(rows) /\ copy = [rows |-> rows, version |-> 0, ordered |-> TRUE]
  BY DEF Init
<1>5. rows \in Seq(Row) /\ DistinctIds(rows)
  BY StoreConstants
<1>6. Replay(rows, EntriesExclusive(log, 0, 0)) = table
  BY <1>2, <1>3, <1>4, <1>5, NothingToReplay
<1>7. table \in ExactTable
  BY <1>1 DEF IInv, TypeOK, IndexExact, ExactTable
<1>8. copy.rows = rows /\ copy.version = 0
  BY <1>4
<1>9. CopyCatchesUp
  BY <1>2, <1>6, <1>7, <1>8 DEF CopyCatchesUp, CaughtUp, Same
<1> QED BY <1>1, <1>3, <1>5, <1>8, <1>9 DEF ReplayInv

(* A mutation that is replayed as it was made keeps the copy able to catch up. *)
LEMMA MutationKeepsReplay ==
  ASSUME ReplayInv, NEW e \in GoodEntry, e.version = version + 1,
         version' = version + 1, log' = AppendEntry(log, e), table' = ReplayEntry(table, e),
         UNCHANGED copy, IInv'
  PROVE  ReplayInv'
<1>1. /\ RingOK(log) /\ NewestRun(log, version) /\ GoodLog(log) /\ version \in Nat
      /\ copy.rows \in Seq(Row) /\ copy.version \in Nat /\ copy.version <= version
      /\ DistinctIds(copy.rows) /\ table \in ExactTable
  BY DEF ReplayInv, IInv, TypeOK, RingOK, Ring, LogIsNewestRun, IndexExact, ExactTable
<1>2. RingOK(log') /\ Appended(log, e, log')
  <2>1. e \in Entry
    BY DEF GoodEntry
  <2> QED BY <1>1, <2>1, AppendKeepsRun
<1>3. GoodLog(log')
  <2>1. LogCapacity = 0 => log' = log
    BY DEF AppendEntry
  <2> QED BY <1>1, <1>2, <2>1, AppendKeepsGood
<1>4. ASSUME version' - copy.version <= log'.size
      PROVE  CaughtUp(Replay(copy.rows, EntriesExclusive(log', copy.version, version')), table', copy.ordered)
  <2> DEFINE old == Replay(copy.rows, EntriesExclusive(log, copy.version, version))
             new == Replay(copy.rows, EntriesExclusive(log', copy.version, version'))
  <2>1. version + 1 - copy.version <= AppendEntry(log, e).size
    <3> DEFINE m == AppendEntry(log, e)
               w == version + 1
    <3>1. version' = w /\ log' = m
      OBVIOUS
    <3> HIDE DEF m, w
    <3>2. w - copy.version <= m.size
      BY <1>4, <3>1
    <3>3. version \in Nat /\ copy.version \in Nat /\ m.size \in Nat
      BY <1>1, <1>2, <3>1 DEF RingOK, Ring
    <3> QED BY <3>2, <3>3 DEF m, w
  <2>2. /\ version - copy.version <= log.size
        /\ Replay(copy.rows, EntriesExclusive(AppendEntry(log, e), copy.version, version + 1))
             = ReplayEntry(old, e)
    BY <1>1, <2>1, NewestIsReplayedLast
  <2>3. new = ReplayEntry(old, e)
    BY <2>2
  <2>4. CaughtUp(old, table, copy.ordered)
    BY <2>2 DEF ReplayInv, CopyCatchesUp
  <2> HIDE DEF old, new
  <2>5. new \in ExactTable
    BY <2>3, <2>4, ReplayEntryExact DEF CaughtUp
  <2>6. Same(new, table')
    BY <1>1, <2>3, <2>4, ReplayKeepsSame DEF CaughtUp
  <2>7. copy.ordered => new = table'
    BY <2>3, <2>4 DEF CaughtUp
  <2>8. CaughtUp(new, table', copy.ordered)
    BY <2>5, <2>6, <2>7 DEF CaughtUp
  <2> QED BY <2>8 DEF new
<1>5. CopyCatchesUp'
  BY <1>4 DEF CopyCatchesUp
<1> QED BY <1>1, <1>3, <1>5 DEF ReplayInv

(* A copy taken of the table as it is. *)
LEMMA CopyKeepsReplay ==
  ASSUME ReplayInv, UNCHANGED <<table, version, log>>, IInv',
         copy'.version = version, copy'.rows \in Seq(Row), DistinctIds(copy'.rows),
         CaughtUp(Tabulate(copy'.rows), table, copy'.ordered)
  PROVE  ReplayInv'
<1>1. RingOK(log) /\ NewestRun(log, version) /\ GoodLog(log) /\ version \in Nat
  BY DEF ReplayInv, IInv, TypeOK, RingOK, Ring, LogIsNewestRun
<1>2. Replay(copy'.rows, EntriesExclusive(log, version, version)) = Tabulate(copy'.rows)
  BY <1>1, NothingToReplay
<1>3. CopyCatchesUp'
  BY <1>2 DEF CopyCatchesUp
<1> QED BY <1>1, <1>3 DEF ReplayInv

(* Every step keeps the copy able to catch up. *)
LEMMA NextReplayInv == ReplayInv /\ [Next]_vars => ReplayInv'
<1> SUFFICES ASSUME ReplayInv, [Next]_vars PROVE ReplayInv'
  OBVIOUS
<1>1. IInv'
  BY NextIInv DEF ReplayInv
<1>2. table \in ExactTable /\ version \in Nat
  BY DEF ReplayInv, IInv, TypeOK, IndexExact, ExactTable
<1>3. ASSUME NEW id \in Ids, NEW val \in Vals, NEW kind \in {"insert", "update"},
             table' = PutRow(table, [id |-> id, val |-> val]), AppendMutation(kind, id, val),
             UNCHANGED copy
      PROVE  ReplayInv'
  <2> DEFINE e == [version |-> version + 1, kind |-> kind, id |-> id, val |-> val]
  <2>1. e \in GoodEntry /\ e.version = version + 1
    BY <1>2 DEF GoodEntry, Entry
  <2>2. log' = AppendEntry(log, e) /\ version' = version + 1
    BY <1>3 DEF AppendMutation
  <2>3. table' = ReplayEntry(table, e)
    BY <1>3 DEF ReplayEntry
  <2> HIDE DEF e
  <2> QED BY <1>1, <1>3, <2>1, <2>2, <2>3, MutationKeepsReplay
<1>4. ASSUME NEW id \in Ids, DeleteById(id)
      PROVE  ReplayInv'
  <2> DEFINE e == [version |-> version + 1, kind |-> "delete", id |-> id, val |-> NoVal]
  <2>1. e \in GoodEntry /\ e.version = version + 1
    BY <1>2 DEF GoodEntry, Entry
  <2>2. log' = AppendEntry(log, e) /\ version' = version + 1
    BY <1>4 DEF DeleteById, AppendMutation
  <2>3. table' = ReplayEntry(table, e)
    BY <1>4 DEF DeleteById, ReplayEntry
  <2>4. UNCHANGED copy
    BY <1>4 DEF DeleteById
  <2> HIDE DEF e
  <2> QED BY <1>1, <2>1, <2>2, <2>3, <2>4, MutationKeepsReplay
<1>5. CASE CopyForBuild
  <2>1. copy'.rows = table.rows /\ copy'.version = version /\ UNCHANGED <<table, version, log>>
    BY <1>5 DEF CopyForBuild
  <2>2. DistinctIds(table.rows) /\ Tabulate(table.rows) = table /\ table.rows \in Seq(Row)
    BY <1>2, TabulatedAgain DEF ExactTable, Table
  <2>3. CaughtUp(Tabulate(copy'.rows), table, copy'.ordered)
    BY <1>2, <2>1, <2>2 DEF CaughtUp, Same
  <2> QED BY <1>1, <2>1, <2>2, <2>3, CopyKeepsReplay
<1>6. CASE CopyForBackend
  <2>1. PICK rows \in SetToSeqs(ToSet(table.rows)) :
           copy' = [rows |-> rows, version |-> version, ordered |-> FALSE]
    BY <1>6 DEF CopyForBackend
  <2>2. UNCHANGED <<table, version, log>>
    BY <1>6 DEF CopyForBackend
  <2>3. rows \in Seq(Row) /\ DistinctIds(rows)
    BY <1>2, OrdersAreComplete
  <2>4. Tabulate(rows) \in ExactTable /\ Same(Tabulate(rows), table)
    BY <1>2, OrderIsSame
  <2>5. copy'.rows = rows /\ copy'.version = version /\ copy'.ordered = FALSE
    BY <2>1
  <2>6. CaughtUp(Tabulate(copy'.rows), table, copy'.ordered)
    BY <2>4, <2>5 DEF CaughtUp
  <2> QED BY <1>1, <2>2, <2>3, <2>5, <2>6, CopyKeepsReplay
<1>7. CASE UNCHANGED vars
  BY <1>1, <1>7 DEF vars, ReplayInv, CopyCatchesUp
<1>8. ASSUME NEW id \in Ids, NEW val \in Vals, Publish(id, val) \/ UpdateExisting(id, val)
      PROVE  ReplayInv'
  BY <1>3, <1>8 DEF Publish, UpdateExisting
<1> QED BY <1>4, <1>5, <1>6, <1>7, <1>8 DEF Next

(* A log that covers a copy reaches back to it. *)
LEMMA CoveredIsHeld ==
  ASSUME IInv, CoversExclusive(log, copy.version, version)
  PROVE  version - copy.version <= log.size
<1> DEFINE L == log.size
           c == copy.version
<1>1. /\ L \in Nat /\ c \in Nat /\ version \in Nat /\ c <= version
      /\ \A i \in 0 .. (L - 1) : EntryAt(log, i).version = version - L + 1 + i
  BY DEF IInv, TypeOK, LogIsNewestRun, NewestRun
<1>2. c >= version \/ (EntryAt(log, 0) # NoEntry /\ EntryAt(log, 0).version <= c + 1)
  BY DEF CoversExclusive
<1>3. EntryAt(log, 0) # NoEntry => 0 \in 0 .. (L - 1)
  BY DEF EntryAt
<1> HIDE DEF L, c
<1>4. version - c <= L
  BY <1>1, <1>2, <1>3
<1> QED BY <1>4 DEF L, c

(* A copy that canReplay accepts catches up exactly, for rows, copies and    *)
(* logs of any size: what is replayed onto the copy of a plan's build is     *)
(* the array the worker has, in its order, and onto the snapshot backend's   *)
(* copy the same rows, none missing, doubled or left over.                   *)
THEOREM ReplayAlwaysCatchesUp == Spec => []ReplayCatchesUp
<1>1. ReplayInv => ReplayCatchesUp
  <2> SUFFICES ASSUME ReplayInv, CoversExclusive(log, copy.version, version)
               PROVE  LET replayed == Replay(copy.rows, EntriesExclusive(log, copy.version, version))
                      IN  /\ copy.ordered => replayed = table
                          /\ ToSet(replayed.rows) = ToSet(table.rows)
                          /\ Len(replayed.rows) = Len(table.rows)
    BY DEF ReplayCatchesUp
  <2> DEFINE r == Replay(copy.rows, EntriesExclusive(log, copy.version, version))
  <2>1. version - copy.version <= log.size
    BY CoveredIsHeld DEF ReplayInv
  <2>2. r \in ExactTable /\ Same(r, table) /\ (copy.ordered => r = table)
    BY <2>1 DEF ReplayInv, CopyCatchesUp, CaughtUp
  <2>3. table \in ExactTable
    BY DEF ReplayInv, IInv, TypeOK, IndexExact, ExactTable
  <2> HIDE DEF r
  <2>4. Same(table, r)
    BY <2>2 DEF Same
  <2>5. ToSet(r.rows) = ToSet(table.rows)
    <3>1. ToSet(r.rows) \subseteq ToSet(table.rows)
      BY <2>2, <2>3, SameRowSet
    <3>2. ToSet(table.rows) \subseteq ToSet(r.rows)
      BY <2>2, <2>3, <2>4, SameRowSet
    <3> QED BY <3>1, <3>2
  <2>6. Len(r.rows) = Len(table.rows)
    BY <2>2 DEF Same
  <2> QED BY <2>2, <2>5, <2>6 DEF r
<1> QED BY <1>1, InitReplayInv, NextReplayInv, PTL DEF Spec
=============================================================================
