-------------------------- MODULE SnapshotFenceProofs --------------------------
(***************************************************************************)
(* That every answer taken is exact and that no mutation is lost, for any  *)
(* rows, readers, mutations and crashes, where a restart sends its rows    *)
(* whole to a child that takes them, or there are no restarts.  The proof  *)
(* turns on who is owed an answer: each fiber that waits has at most one   *)
(* message or response among all children, and it is of the kind that the  *)
(* fiber waits for.                                                        *)
(***************************************************************************)
EXTENDS SnapshotFence, SequenceTheorems, WellFoundedInduction, TLAPS

(* A restart's rows travel in one request, which the child takes. *)
Whole == ~ChunkedInit /\ ~InitMayFail

Sheltered == RestartOnExit => Whole

(* The rows of a history of mutations at a version (RowsAt). *)
Written(ch, rows, a, b) ==
  [r \in Rows |-> Max({rows[r]} \cup {u \in a + 1 .. b : ch[u] = r})]

RowsOf(ch, v) == Written(ch, [r \in Rows |-> 0], 0, v)

-----------------------------------------------------------------------------
(* What a child is *)

Message ==
  [type : {"init", "apply", "query"}, from : Fibers \cup {Nobody}, version : 0 .. MaxVersion,
   rows : SUBSET (Rows \X Values)]

Response ==
  [from : Fibers, ok : BOOLEAN, version : 0 .. MaxVersion, rows : [Rows -> Values]]

Child ==
  [alive : BOOLEAN, noticed : BOOLEAN, version : 0 .. MaxVersion, rows : [Rows -> Values],
   pending : SUBSET Batches, failed : BOOLEAN, init : {NoInit},
   inbox : Seq(Message), outbox : Seq(Response)]

FiberState ==
  [at : {"idle", "forked", "respawn", "init", "request"}, target : 0 .. MaxVersion,
   copy : [rows : [Rows -> Values], version : 0 .. MaxVersion], chunk : {0}]

(* What travels is meant for who sent it, and for what that fiber awaits. *)
SoundMessage(ch, fb, m) ==
  /\ m.version <= Len(ch)
  /\ m.type = "init" => Whole /\ m.rows = Pairs(RowsOf(ch, m.version))
  /\ m.type = "apply" => m.from \notin Readers
  /\ m.from # Nobody => fb[m.from].at = IF m.type = "init" THEN "init" ELSE "request"

SoundResponse(ch, fb, m) ==
  /\ m.version <= Len(ch)
  /\ fb[m.from].at \in {"init", "request"}
  /\ fb[m.from].at = "init" => m.ok
  /\ fb[m.from].at = "request" /\ m.ok /\ m.from \in Readers => m.rows = RowsOf(ch, m.version)

(* Before its init a child is blank; after it, its table is its version's. *)
Blank(c) == c.version = 0 /\ c.pending = {}

SoundTable(ch, c) ==
  /\ c.version <= Len(ch) /\ \A u \in c.pending : u <= Len(ch)
  /\ \A i \in DOMAIN c.inbox : c.inbox[i].type = "init" => i = 1 /\ Blank(c)
  /\ c.alive => \/ c.inbox # <<>> /\ c.inbox[1].type = "init"
                \/ c.rows = RowsOf(ch, c.version)
  /\ ~c.alive => c.inbox = <<>>

SoundChild(ch, fb, c) ==
  /\ SoundTable(ch, c)
  /\ \A i \in DOMAIN c.inbox : SoundMessage(ch, fb, c.inbox[i])
  /\ \A i \in DOMAIN c.outbox : SoundResponse(ch, fb, c.outbox[i])

(* The fibers that a child's responses and messages are for, in their order. *)
Width(c) == Len(c.outbox) + Len(c.inbox)

Owner(c, i) ==
  IF i <= Len(c.outbox) THEN c.outbox[i].from ELSE c.inbox[i - Len(c.outbox)].from

Alone(cs) ==
  \A p, q \in DOMAIN cs : \A i \in 1 .. Width(cs[p]), j \in 1 .. Width(cs[q]) :
    Owner(cs[p], i) = Owner(cs[q], j) /\ Owner(cs[p], i) # Nobody => p = q /\ i = j

Family(ch, fb, cs) ==
  /\ cs \in Seq(Child) /\ cs # <<>>
  /\ \A p \in DOMAIN cs : SoundChild(ch, fb, cs[p])
  /\ Alone(cs)

-----------------------------------------------------------------------------
(* The rest of the state *)

Types ==
  /\ changed \in Seq(Rows) /\ Version <= MaxVersion
  /\ mirror \in [rows : [Rows -> Values], version : 0 .. MaxVersion]
  /\ known \in 0 .. MaxVersion /\ worker = Len(children)
  /\ exited \in BOOLEAN /\ stopping \in BOOLEAN /\ closed \in {"no", "closing", "yes"}
  /\ fiber \in [Fibers -> FiberState]
  /\ answer \in [rows : [Rows -> Values], target : 0 .. MaxVersion]

(* The batches that wait for their turn are those the mirror lacks. *)
Forked(ch, mir, fb) ==
  \A u \in Batches : /\ fb[u].at = "forked" <=> mir.version < u /\ u <= Len(ch)
                     /\ fb[u].at \in {"respawn", "init", "request"} => u <= mir.version

(* A query holds the gate, so the version it asks for stays the store's. *)
Asked(ch, fb) ==
  /\ \A q \in Readers : fb[q].target <= Len(ch)
  /\ \A q \in Queries : fb[q].at # "idle" => fb[q].target = Len(ch)

Restarting(fb) == \A f \in Fibers : fb[f].at \in {"respawn", "init"} => Whole

Mirrored(ch, mir) == mir.version <= Len(ch) /\ mir.rows = RowsOf(ch, mir.version)

Exact(ch, ans) == ans.target <= Len(ch) /\ ans.rows = RowsOf(ch, ans.target)

(* A living worker has, or has been sent, each mutation of the mirror. *)
Has(c, u) == u <= c.version \/ u \in c.pending

Brings(m, u) == \/ m.type = "apply" /\ m.version = u
                \/ m.type = "init" /\ m.version >= u

OnItsWay(c, u) == \E i \in DOMAIN c.inbox : Brings(c.inbox[i], u)

Covered(v, c) == c.alive => \A u \in 1 .. v : Has(c, u) \/ OnItsWay(c, u)

IInv ==
  /\ Types
  /\ Forked(changed, mirror, fiber) /\ Asked(changed, fiber) /\ Restarting(fiber)
  /\ Mirrored(changed, mirror) /\ Exact(changed, answer)
  /\ Family(changed, fiber, children)
  /\ Covered(mirror.version, children[worker])
  /\ exited => ~children[worker].alive

-----------------------------------------------------------------------------
(* The rows of a version *)

(* A set of naturals that is not empty has a least element. *)
LEMMA LeastElement ==
  ASSUME NEW S \in SUBSET Nat, S # {}
  PROVE  \E m \in S : \A k \in S : m <= k
<1>1. PICK m \in S : \A k \in S : ~ (<<k, m>> \in OpToRel(<, Nat))
  BY NatLessThanWellFounded, WFMin
<1>2. \A k \in S : ~ (k < m)
  BY <1>1 DEF OpToRel
<1>3. \A k \in S : m <= k
  BY <1>2
<1> QED BY <1>3

(* The newest of some versions. *)
LEMMA MaxIsGreatest ==
  ASSUME NEW n \in Nat, NEW S \in SUBSET (0 .. n), S # {}
  PROVE  Max(S) \in S /\ \A k \in S : k <= Max(S)
<1> DEFINE T == {n - k : k \in S}
<1>1. T \in SUBSET Nat /\ T # {}
  <2>1. \A k \in S : k \in Nat /\ k <= n /\ n - k \in Nat
    OBVIOUS
  <2>2. PICK k \in S : TRUE
    OBVIOUS
  <2>3. n - k \in T
    OBVIOUS
  <2> QED BY <2>1, <2>3
<1>2. PICK m \in T : \A k \in T : m <= k
  <2> HIDE DEF T
  <2> QED BY <1>1, LeastElement
<1>3. PICK x \in S : m = n - x
  BY <1>2
<1>4. \A k \in S : x >= k
  <2> SUFFICES ASSUME NEW k \in S PROVE x >= k
    OBVIOUS
  <2>1. m <= n - k
    BY <1>2
  <2> QED BY <1>3, <2>1
<1>5. x \in S /\ \A k \in S : x >= k
  BY <1>4
<1>6. Max(S) \in S /\ \A k \in S : Max(S) >= k
  BY <1>5, Zenon DEF Max
<1> QED BY <1>6

(* The greatest of the greatest. *)
LEMMA MaxNested ==
  ASSUME NEW n \in Nat, NEW S \in SUBSET (0 .. n), S # {}, NEW T \in SUBSET (0 .. n)
  PROVE  Max({Max(S)} \cup T) = Max(S \cup T)
<1> DEFINE x == Max(S)
           U == {x} \cup T
           V == S \cup T
<1>1. x \in S /\ \A k \in S : k <= x
  BY MaxIsGreatest
<1>2. U \in SUBSET (0 .. n) /\ U # {} /\ V \in SUBSET (0 .. n) /\ V # {} /\ U \subseteq V
  BY <1>1
<1>3. \A k \in V : \E l \in U : k <= l
  <2>1. \A k \in S : x \in U /\ k <= x
    BY <1>1
  <2>2. \A k \in T : k \in U /\ k <= k
    BY <1>2
  <2> QED BY <2>1, <2>2
<1> HIDE DEF U, V
<1>4. /\ Max(U) \in U /\ \A k \in U : k <= Max(U)
      /\ Max(V) \in V /\ \A k \in V : k <= Max(V)
  BY <1>2, MaxIsGreatest
<1>5. PICK l \in U : Max(V) <= l
  BY <1>3, <1>4
<1>6. Max(U) <= Max(V) /\ l <= Max(U)
  BY <1>2, <1>4
<1>7. Max(U) \in 0 .. n /\ Max(V) \in 0 .. n /\ l \in 0 .. n
  BY <1>2, <1>4
<1>8. Max(U) = Max(V)
  BY <1>5, <1>6, <1>7
<1> QED BY <1>8 DEF U, V

(* The mutations up to a version that wrote a row, and none. *)
Writes(ch, r, v) == {0} \cup {u \in 1 .. v : ch[u] = r}

(* The rows of a version are the newest of the mutations up to it. *)
LEMMA RowsOfNewest ==
  ASSUME NEW ch, NEW v \in Nat
  PROVE  /\ RowsOf(ch, v) \in [Rows -> 0 .. v]
         /\ \A r \in Rows : RowsOf(ch, v)[r] = Max(Writes(ch, r, v))
<1>1. ASSUME NEW r \in Rows
      PROVE  RowsOf(ch, v)[r] = Max(Writes(ch, r, v)) /\ Max(Writes(ch, r, v)) \in 0 .. v
  <2>1. RowsOf(ch, v)[r] = Max({0} \cup {u \in 0 + 1 .. v : ch[u] = r})
    BY DEF RowsOf, Written
  <2>2. RowsOf(ch, v)[r] = Max(Writes(ch, r, v))
    BY <2>1 DEF Writes
  <2>3. Writes(ch, r, v) \in SUBSET (0 .. v) /\ Writes(ch, r, v) # {}
    BY DEF Writes
  <2> QED BY <2>2, <2>3, MaxIsGreatest
<1>2. RowsOf(ch, v) = [r \in Rows |-> RowsOf(ch, v)[r]]
  BY DEF RowsOf, Written
<1> QED BY <1>1, <1>2

(* Applying the mutations above a version to its rows gives later rows. *)
LEMMA RowsGoOn ==
  ASSUME NEW ch, NEW a \in Nat, NEW b \in Nat, a <= b
  PROVE  Written(ch, RowsOf(ch, a), a, b) = RowsOf(ch, b)
<1>1. ASSUME NEW r \in Rows
      PROVE  Written(ch, RowsOf(ch, a), a, b)[r] = RowsOf(ch, b)[r]
  <2> DEFINE S == Writes(ch, r, a)
             T == {u \in a + 1 .. b : ch[u] = r}
  <2>1. S \in SUBSET (0 .. b) /\ S # {} /\ T \in SUBSET (0 .. b) /\ S \cup T = Writes(ch, r, b)
    BY DEF Writes
  <2>2. Written(ch, RowsOf(ch, a), a, b)[r] = Max({Max(S)} \cup T)
    BY RowsOfNewest DEF Written
  <2>3. RowsOf(ch, b)[r] = Max(Writes(ch, r, b))
    BY RowsOfNewest
  <2> HIDE DEF S, T
  <2>4. Max({Max(S)} \cup T) = Max(S \cup T)
    BY ZenonT(30), <2>1, MaxNested
  <2> QED BY <2>1, <2>2, <2>3, <2>4
<1>2. Written(ch, RowsOf(ch, a), a, b) = [r \in Rows |-> Written(ch, RowsOf(ch, a), a, b)[r]]
  BY DEF Written
<1>3. RowsOf(ch, b) = [r \in Rows |-> RowsOf(ch, b)[r]]
  BY DEF RowsOf, Written
<1> QED BY <1>1, <1>2, <1>3

(* Another mutation leaves the rows of earlier versions as they were. *)
LEMMA RowsStay ==
  ASSUME NEW ch \in Seq(Rows), NEW r \in Rows, NEW v \in Nat, v <= Len(ch)
  PROVE  RowsOf(Append(ch, r), v) = RowsOf(ch, v)
<1> DEFINE later == Append(ch, r)
<1>1. \A u \in 1 .. v : later[u] = ch[u]
  OBVIOUS
<1>2. ASSUME NEW x \in Rows PROVE RowsOf(later, v)[x] = RowsOf(ch, v)[x]
  <2> HIDE DEF later
  <2>1. Writes(later, x, v) = Writes(ch, x, v)
    BY <1>1 DEF Writes
  <2> QED BY <2>1, RowsOfNewest
<1>3. RowsOf(later, v) = [x \in Rows |-> RowsOf(later, v)[x]]
  BY DEF RowsOf, Written
<1>4. RowsOf(ch, v) = [x \in Rows |-> RowsOf(ch, v)[x]]
  BY DEF RowsOf, Written
<1> QED BY <1>2, <1>3, <1>4

(* What the model calls the rows of a version. *)
LEMMA RowsAtAre ==
  /\ \A v : RowsAt(v) = RowsOf(changed, v)
  /\ \A rows, a, b : After(rows, a, b) = Written(changed, rows, a, b)
BY DEF RowsAt, After, RowsOf, Written

(* Rows of a version are rows. *)
LEMMA RowsOfType ==
  ASSUME NEW ch, NEW v \in 0 .. MaxVersion
  PROVE  RowsOf(ch, v) \in [Rows -> Values]
<1>1. RowsOf(ch, v) \in [Rows -> 0 .. v]
  BY SnapshotFenceConstants, RowsOfNewest
<1>2. \A k \in 0 .. v : k \in Values
  BY SnapshotFenceConstants DEF Values
<1> QED BY <1>1, <1>2

-----------------------------------------------------------------------------
(* One message or response for each fiber *)

(* A child d has for nobody more than a child c had. *)
Fewer(c, d) ==
  \E g \in [1 .. Width(d) -> 1 .. Width(c)] :
    /\ \A i, j \in 1 .. Width(d) : g[i] = g[j] => i = j
    /\ \A i \in 1 .. Width(d) : Owner(d, i) = Owner(c, g[i]) \/ Owner(d, i) = Nobody

(* Nothing among the children is for the fiber f. *)
Free(cs, f) == \A p \in DOMAIN cs : \A i \in 1 .. Width(cs[p]) : Owner(cs[p], i) # f

(* A child has no more than it had. *)
LEMMA FewerSelf ==
  ASSUME NEW c
  PROVE  Fewer(c, c)
<1> DEFINE n == Width(c)
           g == [i \in 1 .. n |-> i]
<1>1. g \in [1 .. n -> 1 .. n] /\ \A i \in 1 .. n : g[i] = i
  OBVIOUS
<1> HIDE DEF g
<1> QED BY <1>1 DEF Fewer

(* Where children have no more than they had, each has its own still. *)
LEMMA AloneFewer ==
  ASSUME NEW cs, Alone(cs), NEW ds, DOMAIN ds = DOMAIN cs,
         \A q \in DOMAIN cs : Fewer(cs[q], ds[q])
  PROVE  Alone(ds)
<1> SUFFICES ASSUME NEW p \in DOMAIN cs, NEW q \in DOMAIN cs,
                    NEW i \in 1 .. Width(ds[p]), NEW j \in 1 .. Width(ds[q]),
                    Owner(ds[p], i) = Owner(ds[q], j), Owner(ds[p], i) # Nobody
             PROVE  p = q /\ i = j
  BY DEF Alone
<1>1. PICK g \in [1 .. Width(ds[p]) -> 1 .. Width(cs[p])] :
        /\ \A k, l \in 1 .. Width(ds[p]) : g[k] = g[l] => k = l
        /\ \A k \in 1 .. Width(ds[p]) :
             Owner(ds[p], k) = Owner(cs[p], g[k]) \/ Owner(ds[p], k) = Nobody
  BY DEF Fewer
<1>2. PICK h \in [1 .. Width(ds[q]) -> 1 .. Width(cs[q])] :
        /\ \A k, l \in 1 .. Width(ds[q]) : h[k] = h[l] => k = l
        /\ \A k \in 1 .. Width(ds[q]) :
             Owner(ds[q], k) = Owner(cs[q], h[k]) \/ Owner(ds[q], k) = Nobody
  BY DEF Fewer
<1>3. Owner(cs[p], g[i]) = Owner(ds[p], i) /\ Owner(cs[q], h[j]) = Owner(ds[p], i)
  BY <1>1, <1>2
<1>4. g[i] \in 1 .. Width(cs[p]) /\ h[j] \in 1 .. Width(cs[q])
  BY <1>1, <1>2
<1>5. p = q /\ g[i] = h[j]
  BY <1>3, <1>4 DEF Alone
<1> QED
  <2> DEFINE k == g[i]
  <2>1. Owner(ds[p], j) = Owner(ds[p], i) /\ j \in 1 .. Width(ds[p])
    BY <1>5
  <2>2. g[j] \in 1 .. Width(cs[p]) /\ Owner(cs[p], g[j]) = Owner(ds[p], i)
    BY <1>1, <2>1
  <2>3. g[j] = g[i]
    BY <1>3, <1>4, <1>5, <2>2 DEF Alone
  <2>4. i = j
    BY <1>1, <2>1, <2>3
  <2> QED BY <1>5, <2>4

(* Who has nothing has nothing then either. *)
LEMMA FreeFewer ==
  ASSUME NEW cs, NEW f, f # Nobody, Free(cs, f), NEW ds, DOMAIN ds = DOMAIN cs,
         \A q \in DOMAIN cs : Fewer(cs[q], ds[q])
  PROVE  Free(ds, f)
<1> SUFFICES ASSUME NEW q \in DOMAIN cs, NEW i \in 1 .. Width(ds[q]), Owner(ds[q], i) = f
             PROVE  FALSE
  BY DEF Free
<1>1. PICK g \in [1 .. Width(ds[q]) -> 1 .. Width(cs[q])] :
        \A k \in 1 .. Width(ds[q]) :
          Owner(ds[q], k) = Owner(cs[q], g[k]) \/ Owner(ds[q], k) = Nobody
  BY DEF Fewer
<1> QED BY <1>1 DEF Free

(* Where the boxes of a child hold a and b, for the fibers F and G. *)
Froms(s) == [i \in 1 .. Len(s) |-> s[i].from]

Laid(c, a, b, F, G) ==
  /\ a \in Nat /\ b \in Nat /\ Width(c) = a + b
  /\ \A i \in 1 .. a + b : Owner(c, i) = IF i <= a THEN F[i] ELSE G[i - a]

(* The boxes of a child lie one after the other: first what it has sent, then
   what it is to take. *)
LEMMA BoxesLaid ==
  ASSUME NEW M, NEW N, NEW c, c.inbox \in Seq(M), c.outbox \in Seq(N)
  PROVE  Laid(c, Len(c.outbox), Len(c.inbox), Froms(c.outbox), Froms(c.inbox))
<1> DEFINE a == Len(c.outbox)
           b == Len(c.inbox)
<1>1. a \in Nat /\ b \in Nat
  OBVIOUS
<1>2. Width(c) = a + b
  BY DEF Width
<1>3. ASSUME NEW i \in 1 .. a + b
      PROVE  Owner(c, i) = IF i <= a THEN Froms(c.outbox)[i] ELSE Froms(c.inbox)[i - a]
  <2>1. Owner(c, i) = IF i <= a THEN c.outbox[i].from ELSE c.inbox[i - a].from
    BY DEF Owner
  <2>2. ASSUME i <= a PROVE Froms(c.outbox)[i] = c.outbox[i].from
    <3> HIDE DEF b
    <3>1. i \in 1 .. a
      BY <1>1, <2>2
    <3> QED BY <3>1 DEF Froms
  <2>3. ASSUME ~ (i <= a) PROVE Froms(c.inbox)[i - a] = c.inbox[i - a].from
    <3>1. i - a \in 1 .. b
      <4> HIDE DEF a, b
      <4> QED BY <1>1, <2>3
    <3> DEFINE k == i - a
    <3> HIDE DEF k
    <3>2. k \in 1 .. b
      BY <3>1 DEF k
    <3>3. Froms(c.inbox)[k] = c.inbox[k].from
      BY <3>2 DEF Froms
    <3> QED BY <3>3 DEF k
  <2> HIDE DEF a, b
  <2> QED BY <2>1, <2>2, <2>3
<1> HIDE DEF a, b
<1>4. Laid(c, a, b, Froms(c.outbox), Froms(c.inbox))
  BY <1>1, <1>2, <1>3 DEF Laid
<1> QED BY <1>4 DEF a, b

(* The fibers of a box that loses its first or gets another. *)
LEMMA FromsMove ==
  ASSUME NEW M, NEW s \in Seq(M)
  PROVE  /\ s # << >> => /\ Len(s) \in Nat \ {0} /\ Len(Tail(s)) = Len(s) - 1
                         /\ Froms(s)[1] = Head(s).from
                         /\ \A i \in 1 .. Len(s) - 1 : Froms(Tail(s))[i] = Froms(s)[i + 1]
         /\ \A x \in M : /\ Len(Append(s, x)) = Len(s) + 1
                         /\ Froms(Append(s, x))[Len(s) + 1] = x.from
                         /\ \A i \in 1 .. Len(s) : Froms(Append(s, x))[i] = Froms(s)[i]
<1>1. ASSUME s # << >>
      PROVE  /\ Len(s) \in Nat \ {0} /\ Len(Tail(s)) = Len(s) - 1 /\ Froms(s)[1] = Head(s).from
             /\ \A i \in 1 .. Len(s) - 1 : Froms(Tail(s))[i] = Froms(s)[i + 1]
  <2>1. Len(s) \in Nat \ {0} /\ Len(Tail(s)) = Len(s) - 1
    BY <1>1
  <2>2. Froms(s)[1] = Head(s).from
    BY <1>1, <2>1 DEF Froms
  <2>3. ASSUME NEW i \in 1 .. Len(s) - 1 PROVE Froms(Tail(s))[i] = Froms(s)[i + 1]
    <3>1. Tail(s)[i] = s[i + 1] /\ i \in 1 .. Len(Tail(s)) /\ i + 1 \in 1 .. Len(s)
      BY <1>1, <2>1
    <3>2. Froms(s)[i + 1] = s[i + 1].from
      BY <3>1 DEF Froms
    <3>3. Froms(Tail(s))[i] = Tail(s)[i].from
      BY <3>1 DEF Froms
    <3> QED BY <3>1, <3>2, <3>3
  <2> QED BY <2>1, <2>2, <2>3
<1>2. ASSUME NEW x \in M
      PROVE  /\ Len(Append(s, x)) = Len(s) + 1
             /\ Froms(Append(s, x))[Len(s) + 1] = x.from
             /\ \A i \in 1 .. Len(s) : Froms(Append(s, x))[i] = Froms(s)[i]
  <2> DEFINE t == Append(s, x)
             n == Len(s)
  <2>1. /\ n \in Nat /\ Len(t) = n + 1 /\ t[n + 1] = x /\ \A i \in 1 .. n : t[i] = s[i]
    OBVIOUS
  <2>2. Froms(t) = [i \in 1 .. Len(t) |-> t[i].from] /\ Froms(s) = [i \in 1 .. n |-> s[i].from]
    BY DEF Froms
  <2> HIDE DEF t, n
  <2>3. Froms(t)[n + 1] = x.from /\ \A i \in 1 .. n : Froms(t)[i] = Froms(s)[i]
    BY <2>1, <2>2
  <2> QED BY <2>1, <2>3 DEF t, n
<1> QED BY <1>1, <1>2

(* A response that is taken is the first of its child. *)
LEMMA FewerTaken ==
  ASSUME NEW c, NEW d, NEW a, NEW b, NEW F, NEW G, NEW H,
         Laid(c, a, b, F, G), a # 0, Laid(d, a - 1, b, H, G),
         \A i \in 1 .. a - 1 : H[i] = F[i + 1]
  PROVE  /\ Fewer(c, d)
         /\ Width(c) \in Nat /\ 1 <= Width(c) /\ Width(d) = Width(c) - 1
         /\ Owner(c, 1) = F[1]
         /\ \A i \in 1 .. Width(d) : Owner(d, i) = Owner(c, i + 1)
<1> DEFINE n == a + b
           m == a - 1 + b
           g == [i \in 1 .. m |-> i + 1]
<1>1. a \in Nat /\ b \in Nat /\ Width(c) = n /\ Width(d) = m /\ m = n - 1 /\ n \in Nat /\ 1 <= n
  BY DEF Laid
<1>2. Owner(c, 1) = F[1]
  BY <1>1 DEF Laid
<1>3. ASSUME NEW i \in 1 .. m PROVE Owner(d, i) = Owner(c, i + 1)
  <2>1. Owner(d, i) = IF i <= a - 1 THEN H[i] ELSE G[i - (a - 1)]
    BY DEF Laid
  <2>2. Owner(c, i + 1) = IF i + 1 <= a THEN F[i + 1] ELSE G[i + 1 - a]
    BY <1>1 DEF Laid
  <2>3. i - (a - 1) = i + 1 - a /\ (i <= a - 1 <=> i + 1 <= a) /\ (i <= a - 1 => i \in 1 .. a - 1)
    BY <1>1
  <2> QED BY <2>1, <2>2, <2>3
<1>4. g \in [1 .. m -> 1 .. n] /\ \A i \in 1 .. m : g[i] = i + 1
  BY <1>1
<1> HIDE DEF g, n, m
<1>5. \A i, j \in 1 .. m : g[i] = g[j] => i = j
  BY <1>4
<1>6. Fewer(c, d)
  BY SMTT(30), <1>1, <1>3, <1>4, <1>5 DEF Fewer
<1> QED BY <1>1, <1>2, <1>3, <1>6

(* A message that is answered becomes the last response ... *)
LEMMA FewerAnswered ==
  ASSUME NEW c, NEW d, NEW a, NEW b, NEW F, NEW G, NEW H, NEW K,
         Laid(c, a, b, F, G), b # 0, Laid(d, a + 1, b - 1, H, K),
         \A i \in 1 .. a : H[i] = F[i], H[a + 1] = G[1], \A i \in 1 .. b - 1 : K[i] = G[i + 1]
  PROVE  Fewer(c, d)
<1> DEFINE n == a + b
           g == [i \in 1 .. n |-> i]
<1>1. a \in Nat /\ b \in Nat /\ Width(c) = n /\ Width(d) = n /\ n \in Nat
  BY DEF Laid
<1>2. ASSUME NEW i \in 1 .. n PROVE Owner(d, i) = Owner(c, i)
  <2>1. Owner(d, i) = IF i <= a + 1 THEN H[i] ELSE K[i - (a + 1)]
    BY <1>1 DEF Laid
  <2>2. Owner(c, i) = IF i <= a THEN F[i] ELSE G[i - a]
    BY <1>1 DEF Laid
  <2>3. CASE i <= a
    BY <1>1, <2>1, <2>2, <2>3
  <2>4. CASE i = a + 1
    BY <1>1, <2>1, <2>2, <2>4
  <2>5. CASE i > a + 1
    <3> DEFINE k == i - (a + 1)
    <3>1. k \in 1 .. b - 1 /\ i - a = k + 1
      BY <1>1, <2>5
    <3>2. K[k] = G[k + 1]
      BY <3>1
    <3> QED BY <1>1, <2>1, <2>2, <2>5, <3>1, <3>2
  <2> QED BY <1>1, <2>3, <2>4, <2>5
<1>3. g \in [1 .. n -> 1 .. n] /\ \A i \in 1 .. n : g[i] = i
  OBVIOUS
<1> HIDE DEF g, n
<1> QED BY <1>1, <1>2, <1>3 DEF Fewer

(* ... unless nobody awaits it any more. *)
LEMMA FewerIgnored ==
  ASSUME NEW c, NEW d, NEW a, NEW b, NEW F, NEW G, NEW K,
         Laid(c, a, b, F, G), b # 0, Laid(d, a, b - 1, F, K), \A i \in 1 .. b - 1 : K[i] = G[i + 1]
  PROVE  Fewer(c, d)
<1> DEFINE n == a + b
           m == a + (b - 1)
           g == [i \in 1 .. m |-> IF i <= a THEN i ELSE i + 1]
<1>1. a \in Nat /\ b \in Nat /\ Width(c) = n /\ Width(d) = m /\ n = m + 1 /\ m \in Nat
  BY DEF Laid
<1>2. g \in [1 .. m -> 1 .. n] /\ \A i \in 1 .. m : g[i] = IF i <= a THEN i ELSE i + 1
  BY <1>1
<1>3. ASSUME NEW i \in 1 .. m PROVE Owner(d, i) = Owner(c, g[i])
  <2>1. Owner(d, i) = IF i <= a THEN F[i] ELSE K[i - a]
    BY <1>1 DEF Laid
  <2>2. CASE i <= a
    <3>1. Owner(c, i) = F[i]
      BY <1>1, <2>2 DEF Laid
    <3> QED BY <1>2, <2>1, <2>2, <3>1
  <2>3. CASE ~ (i <= a)
    <3> DEFINE k == i - a
    <3>1. k \in 1 .. b - 1 /\ i + 1 - a = k + 1 /\ ~ (i + 1 <= a) /\ i + 1 \in 1 .. n
      BY <1>1, <2>3
    <3>2. Owner(c, i + 1) = G[k + 1]
      BY <3>1 DEF Laid
    <3>3. K[k] = G[k + 1]
      BY <3>1
    <3> QED BY <1>2, <2>1, <2>3, <3>2, <3>3
  <2> QED BY <2>2, <2>3
<1> HIDE DEF g, n, m
<1>4. ASSUME NEW i \in 1 .. m, NEW j \in 1 .. m, g[i] = g[j] PROVE i = j
  <2>1. i \in Int /\ j \in Int /\ a \in Int
    BY <1>1
  <2>2. g[i] = (IF i <= a THEN i ELSE i + 1) /\ g[j] = (IF j <= a THEN j ELSE j + 1)
    BY <1>2
  <2>3. (IF i <= a THEN i ELSE i + 1) = (IF j <= a THEN j ELSE j + 1)
    BY <1>4, <2>2
  <2> QED BY <2>1, <2>3
<1> QED BY <1>1, <1>2, <1>3, <1>4 DEF Fewer

(* What comes last may go. *)
LEMMA FewerFirst ==
  ASSUME NEW c, NEW d, Width(c) \in Nat, Width(d) \in Nat, Width(d) <= Width(c),
         \A i \in 1 .. Width(d) : Owner(d, i) = Owner(c, i) \/ Owner(d, i) = Nobody
  PROVE  Fewer(c, d)
<1> DEFINE k == Width(c)
           m == Width(d)
           g == [i \in 1 .. m |-> i]
<1>1. g \in [1 .. m -> 1 .. k] /\ \A i \in 1 .. m : g[i] = i
  OBVIOUS
<1> HIDE DEF g
<1> QED BY <1>1 DEF Fewer

(* Children that differ in one; the fibers of a box with one more. *)
Differ(cs, ds, p) == DOMAIN ds = DOMAIN cs /\ \A q \in DOMAIN cs : q # p => ds[q] = cs[q]

Added(b, G, K, f) == (\A i \in 1 .. b : K[i] = G[i]) /\ K[b + 1] = f

(* A message more, for a fiber that had none. *)
LEMMA AloneSent ==
  ASSUME NEW cs, Alone(cs), NEW f, Free(cs, f), NEW p \in DOMAIN cs,
         NEW ds, Differ(cs, ds, p),
         NEW a, NEW b, NEW F, NEW G, NEW K, Laid(cs[p], a, b, F, G), Laid(ds[p], a, b + 1, F, K),
         Added(b, G, K, f)
  PROVE  Alone(ds)
<1> USE DEF Differ, Added
<1> DEFINE c == cs[p]
           d == ds[p]
           w == a + b
<1>1. a \in Nat /\ b \in Nat /\ w \in Nat /\ Width(c) = w /\ Width(d) = w + 1
  BY DEF Laid
<1>2. ASSUME NEW i \in 1 .. w PROVE Owner(d, i) = Owner(c, i)
  <2>1. Owner(d, i) = IF i <= a THEN F[i] ELSE K[i - a]
    BY <1>1 DEF Laid
  <2>2. Owner(c, i) = IF i <= a THEN F[i] ELSE G[i - a]
    BY <1>1 DEF Laid
  <2>3. ~ (i <= a) => i - a \in 1 .. b
    BY <1>1
  <2> QED BY <2>1, <2>2, <2>3
<1>3. Owner(d, w + 1) = f
  <2>1. w + 1 \in 1 .. a + (b + 1) /\ ~ (w + 1 <= a) /\ w + 1 - a = b + 1
    BY <1>1
  <2> QED BY <2>1 DEF Laid
<1> HIDE DEF c, d, w
<1>4. ASSUME NEW q \in DOMAIN cs, NEW i \in 1 .. Width(ds[q])
      PROVE  \/ q = p /\ i = w + 1 /\ Owner(ds[q], i) = f
             \/ i \in 1 .. Width(cs[q]) /\ Owner(ds[q], i) = Owner(cs[q], i) /\ Owner(ds[q], i) # f
  <2>1. CASE q # p
    BY <2>1 DEF Free
  <2>2. CASE q = p
    <3>1. i = w + 1 \/ i \in 1 .. w
      BY <1>1, <2>2 DEF d
    <3> QED BY <1>1, <1>2, <1>3, <2>2, <3>1 DEF Free, c, d
  <2> QED BY <2>1, <2>2
<1> SUFFICES ASSUME NEW q \in DOMAIN cs, NEW r \in DOMAIN cs,
                    NEW i \in 1 .. Width(ds[q]), NEW j \in 1 .. Width(ds[r]),
                    Owner(ds[q], i) = Owner(ds[r], j), Owner(ds[q], i) # Nobody
             PROVE  q = r /\ i = j
  BY DEF Alone
<1>5. \/ q = p /\ i = w + 1 /\ Owner(ds[q], i) = f
      \/ i \in 1 .. Width(cs[q]) /\ Owner(ds[q], i) = Owner(cs[q], i) /\ Owner(ds[q], i) # f
  BY <1>4
<1>6. \/ r = p /\ j = w + 1 /\ Owner(ds[r], j) = f
      \/ j \in 1 .. Width(cs[r]) /\ Owner(ds[r], j) = Owner(cs[r], j) /\ Owner(ds[r], j) # f
  BY <1>4
<1>7. CASE Owner(ds[q], i) = f
  <2>1. q = p /\ i = w + 1 /\ r = p /\ j = w + 1
    BY <1>5, <1>6, <1>7
  <2> QED BY <2>1
<1>8. CASE Owner(ds[q], i) # f
  <2>1. i \in 1 .. Width(cs[q]) /\ Owner(ds[q], i) = Owner(cs[q], i)
    BY <1>5, <1>8
  <2>2. j \in 1 .. Width(cs[r]) /\ Owner(ds[r], j) = Owner(cs[r], j)
    BY <1>6, <1>8
  <2>3. Owner(cs[q], i) = Owner(cs[r], j) /\ Owner(cs[q], i) # Nobody
    BY <2>1, <2>2
  <2> QED BY <2>1, <2>2, <2>3 DEF Alone
<1> QED BY <1>7, <1>8

-----------------------------------------------------------------------------
(* What happens to one child *)

(* The fields of a child, by their types. *)
LEMMA ChildFields ==
  ASSUME NEW c \in Child
  PROVE  /\ c.alive \in BOOLEAN /\ c.noticed \in BOOLEAN /\ c.failed \in BOOLEAN
         /\ c.version \in 0 .. MaxVersion /\ c.rows \in [Rows -> Values]
         /\ c.pending \in SUBSET Batches /\ c.init = NoInit
         /\ c.inbox \in Seq(Message) /\ c.outbox \in Seq(Response)
BY DEF Child

(* A child whose boxes change. *)
Reboxed(c, in, out) ==
  [alive |-> c.alive, noticed |-> c.noticed, version |-> c.version, rows |-> c.rows,
   pending |-> c.pending, failed |-> c.failed, init |-> c.init, inbox |-> in, outbox |-> out]

InOut(c, in, out) == [c EXCEPT !.inbox = in, !.outbox = out]
OutIn(c, in, out) == [c EXCEPT !.outbox = out, !.inbox = in]
In(c, in) == [c EXCEPT !.inbox = in]
Out(c, out) == [c EXCEPT !.outbox = out]

(* A child whose boxes change is a child, however the change is written. *)
LEMMA ReboxedChild ==
  ASSUME NEW c \in Child, NEW in \in Seq(Message), NEW out \in Seq(Response)
  PROVE  /\ Reboxed(c, in, out) \in Child
         /\ c = Reboxed(c, c.inbox, c.outbox)
         /\ In(c, in) = Reboxed(c, in, c.outbox) /\ Out(c, out) = Reboxed(c, c.inbox, out)
         /\ InOut(c, in, out) = Reboxed(c, in, out) /\ OutIn(c, in, out) = Reboxed(c, in, out)
<1> DEFINE B == Seq(Message)
           D == Seq(Response)
<1>1. in \in B /\ out \in D
  OBVIOUS
<1>2. Child = [alive : BOOLEAN, noticed : BOOLEAN, version : 0 .. MaxVersion,
               rows : [Rows -> Values], pending : SUBSET Batches, failed : BOOLEAN,
               init : {NoInit}, inbox : B, outbox : D]
  BY DEF Child
<1> HIDE DEF B, D
<1>3. c = Reboxed(c, c.inbox, c.outbox)
  BY <1>2 DEF Reboxed
<1>4. Reboxed(c, in, out) \in Child
  BY <1>1, <1>2 DEF Reboxed
<1>5. /\ [c EXCEPT !.inbox = in] = Reboxed(c, in, c.outbox)
      /\ [c EXCEPT !.outbox = out] = Reboxed(c, c.inbox, out)
  BY <1>2 DEF Reboxed
<1>6. [c EXCEPT !.inbox = in, !.outbox = out] = Reboxed(c, in, out)
  <2> DEFINE e == [c EXCEPT !.inbox = in, !.outbox = out]
  <2>1. e \in Child /\ e.inbox = in /\ e.outbox = out
    BY <1>1, <1>2
  <2>2. /\ e.alive = c.alive /\ e.noticed = c.noticed /\ e.version = c.version /\ e.rows = c.rows
        /\ e.pending = c.pending /\ e.failed = c.failed /\ e.init = c.init
    BY <1>2
  <2> HIDE DEF e
  <2>3. e = Reboxed(c, in, out)
    BY <1>2, <2>1, <2>2 DEF Reboxed
  <2> QED BY <2>3 DEF e
<1>7. [c EXCEPT !.outbox = out, !.inbox = in] = Reboxed(c, in, out)
  <2> DEFINE e == [c EXCEPT !.outbox = out, !.inbox = in]
  <2>1. e \in Child /\ e.inbox = in /\ e.outbox = out
    BY <1>1, <1>2
  <2>2. /\ e.alive = c.alive /\ e.noticed = c.noticed /\ e.version = c.version /\ e.rows = c.rows
        /\ e.pending = c.pending /\ e.failed = c.failed /\ e.init = c.init
    BY <1>2
  <2> HIDE DEF e
  <2>3. e = Reboxed(c, in, out)
    BY <1>2, <2>1, <2>2 DEF Reboxed
  <2> QED BY <2>3 DEF e
<1> QED BY <1>3, <1>4, <1>5, <1>6, <1>7 DEF In, Out, InOut, OutIn

(* The answer to a child's first message. *)
Reply(c, ok) ==
  [from |-> Head(c.inbox).from, ok |-> ok,
   version |-> IF Head(c.inbox).type = "query" THEN c.version ELSE 0,
   rows |-> IF Head(c.inbox).type = "query" THEN c.rows ELSE NoRows]

Replied(c, ok) ==
  IF Head(c.inbox).from = Nobody THEN c.outbox ELSE Append(c.outbox, Reply(c, ok))

Answered(c, ok) == Reboxed(c, Tail(c.inbox), Replied(c, ok))

(* A message has its fields. *)
LEMMA MessageFields ==
  ASSUME NEW m \in Message
  PROVE  /\ m.type \in {"init", "apply", "query"} /\ m.from \in Fibers \cup {Nobody}
         /\ m.version \in 0 .. MaxVersion /\ m.rows \in SUBSET (Rows \X Values)
BY DEF Message

(* A reply to somebody is a response. *)
LEMMA ReplyType ==
  ASSUME NEW c \in Child, c.inbox # << >>, Head(c.inbox).from # Nobody, NEW ok \in BOOLEAN
  PROVE  Reply(c, ok) \in Response
<1>1. c.inbox \in Seq(Message) /\ c.version \in 0 .. MaxVersion /\ c.rows \in [Rows -> Values]
  BY ChildFields
<1>2. Head(c.inbox) \in Message
  BY <1>1
<1>3. Head(c.inbox).from \in Fibers
  BY <1>2, MessageFields
<1>4. NoRows \in [Rows -> Values] /\ 0 \in 0 .. MaxVersion
  BY SnapshotFenceConstants DEF NoRows, Values
<1> DEFINE v == IF Head(c.inbox).type = "query" THEN c.version ELSE 0
           rows == IF Head(c.inbox).type = "query" THEN c.rows ELSE NoRows
<1>5. v \in 0 .. MaxVersion /\ rows \in [Rows -> Values]
  BY <1>1, <1>4
<1>6. Reply(c, ok) = [from |-> Head(c.inbox).from, ok |-> ok, version |-> v, rows |-> rows]
  BY DEF Reply
<1> HIDE DEF v, rows
<1> QED BY <1>3, <1>5, <1>6 DEF Response

(* What Answer does, in these terms. *)
LEMMA AnswerIs ==
  ASSUME NEW p, NEW c \in Child, c.inbox # << >>, NEW ok \in BOOLEAN, Answer(p, c, ok)
  PROVE  /\ children' = [children EXCEPT ![p] = Answered(c, ok)]
         /\ Answered(c, ok) \in Child
         /\ Tail(c.inbox) \in Seq(Message) /\ Replied(c, ok) \in Seq(Response)
<1>1. c.inbox \in Seq(Message) /\ c.outbox \in Seq(Response)
  BY ChildFields
<1>2. Replied(c, ok) \in Seq(Response)
  BY <1>1, ReplyType DEF Replied
<1>3. Tail(c.inbox) \in Seq(Message)
  BY <1>1
<1>4. children' = [children EXCEPT ![p] = [c EXCEPT !.inbox = Tail(@), !.outbox = Replied(c, ok)]]
  BY DEF Answer, Replied, Reply
<1>5. [c EXCEPT !.inbox = Tail(@), !.outbox = Replied(c, ok)] = Answered(c, ok)
  <2> DEFINE in == Tail(c.inbox)
             out == Replied(c, ok)
  <2>1. in \in Seq(Message) /\ out \in Seq(Response)
    BY <1>2, <1>3
  <2> HIDE DEF in, out
  <2>2. InOut(c, in, out) = Reboxed(c, in, out)
    BY <2>1, ReboxedChild
  <2> QED BY <2>2 DEF in, out, Answered, InOut
<1>6. Answered(c, ok) \in Child
  BY <1>2, <1>3, ReboxedChild DEF Answered
<1> QED BY <1>2, <1>3, <1>4, <1>5, <1>6

(* A child whose table is that of its version. *)
Current(ch, c) ==
  /\ c.rows = RowsOf(ch, c.version)
  /\ c.version <= Len(ch) /\ \A u \in c.pending : u <= Len(ch)

SameBoxes(c, d) == d.alive = c.alive /\ d.inbox = c.inbox /\ d.outbox = c.outbox

(* Its contents after a message. *)
Refilled(c, rows, version, pending, failed) ==
  [alive |-> c.alive, noticed |-> c.noticed, version |-> version, rows |-> rows,
   pending |-> pending, failed |-> failed, init |-> c.init, inbox |-> c.inbox, outbox |-> c.outbox]

Written4(c, rows, version, pending, failed) ==
  [c EXCEPT !.rows = rows, !.version = version, !.pending = pending, !.failed = failed]

Loaded(c, rows, version, pending, failed) ==
  [c EXCEPT !.version = version, !.pending = pending, !.failed = failed, !.rows = rows]

Refails(c, failed) == [c EXCEPT !.failed = failed]

Rewaits(c, pending) == [c EXCEPT !.pending = pending]

Reloaded(c, rows) == [c EXCEPT !.rows = rows, !.init = NoInit]

(* A child whose contents change. *)
LEMMA RefilledChild ==
  ASSUME NEW c \in Child, NEW rows \in [Rows -> Values], NEW version \in 0 .. MaxVersion,
         NEW pending \in SUBSET Batches, NEW failed \in BOOLEAN
  PROVE  /\ Refilled(c, rows, version, pending, failed) \in Child
         /\ Written4(c, rows, version, pending, failed) = Refilled(c, rows, version, pending, failed)
         /\ Loaded(c, rows, version, pending, failed) = Refilled(c, rows, version, pending, failed)
         /\ Refails(c, failed) = Refilled(c, c.rows, c.version, c.pending, failed)
         /\ Rewaits(c, pending) = Refilled(c, c.rows, c.version, pending, c.failed)
         /\ Reloaded(c, rows) = Refilled(c, rows, c.version, c.pending, c.failed)
<1> DEFINE B == Seq(Message)
           D == Seq(Response)
           R == [Rows -> Values]
           V == 0 .. MaxVersion
           P == SUBSET Batches
<1>1. rows \in R /\ version \in V /\ pending \in P
  OBVIOUS
<1>2. Child = [alive : BOOLEAN, noticed : BOOLEAN, version : V, rows : R, pending : P,
               failed : BOOLEAN, init : {NoInit}, inbox : B, outbox : D]
  BY DEF Child
<1> HIDE DEF B, D, R, V, P
<1>3. Refilled(c, rows, version, pending, failed) \in Child
  BY <1>1, <1>2 DEF Refilled
<1>4. Written4(c, rows, version, pending, failed) = Refilled(c, rows, version, pending, failed)
  <2> DEFINE e == Written4(c, rows, version, pending, failed)
  <2>1. /\ e \in Child
        /\ e.rows = rows /\ e.version = version /\ e.pending = pending /\ e.failed = failed
    BY <1>1, <1>2 DEF Written4
  <2>2. /\ e.alive = c.alive /\ e.noticed = c.noticed /\ e.init = c.init /\ e.inbox = c.inbox
        /\ e.outbox = c.outbox
    BY <1>2 DEF Written4
  <2> HIDE DEF e
  <2>3. e = Refilled(c, rows, version, pending, failed)
    BY <1>2, <2>1, <2>2 DEF Refilled
  <2> QED BY <2>3 DEF e
<1>5. Loaded(c, rows, version, pending, failed) = Refilled(c, rows, version, pending, failed)
  <2> DEFINE e == Loaded(c, rows, version, pending, failed)
  <2>1. /\ e \in Child
        /\ e.rows = rows /\ e.version = version /\ e.pending = pending /\ e.failed = failed
    BY <1>1, <1>2 DEF Loaded
  <2>2. /\ e.alive = c.alive /\ e.noticed = c.noticed /\ e.init = c.init /\ e.inbox = c.inbox
        /\ e.outbox = c.outbox
    BY <1>2 DEF Loaded
  <2> HIDE DEF e
  <2>3. e = Refilled(c, rows, version, pending, failed)
    BY <1>2, <2>1, <2>2 DEF Refilled
  <2> QED BY <2>3 DEF e
<1>6. /\ Refails(c, failed) = Refilled(c, c.rows, c.version, c.pending, failed)
      /\ Rewaits(c, pending) = Refilled(c, c.rows, c.version, pending, c.failed)
  BY <1>1, <1>2 DEF Refilled, Refails, Rewaits
<1>7. Reloaded(c, rows) = Refilled(c, rows, c.version, c.pending, c.failed)
  <2> DEFINE e == Reloaded(c, rows)
  <2>1. e \in Child /\ e.rows = rows /\ e.init = c.init
    BY <1>1, <1>2 DEF Reloaded
  <2>2. /\ e.alive = c.alive /\ e.noticed = c.noticed /\ e.version = c.version /\ e.pending = c.pending
        /\ e.failed = c.failed /\ e.inbox = c.inbox /\ e.outbox = c.outbox
    BY <1>2 DEF Reloaded
  <2> HIDE DEF e
  <2>3. e = Refilled(c, rows, c.version, c.pending, c.failed)
    BY <1>2, <2>1, <2>2 DEF Refilled
  <2> QED BY <2>3 DEF e
<1> QED BY <1>3, <1>4, <1>5, <1>6, <1>7

(* The contents of such a child. *)
Contents(c, e, rows, version, pending) ==
  SameBoxes(c, e) /\ e.rows = rows /\ e.version = version /\ e.pending = pending

(* Its boxes are as before, and its contents the new ones. *)
LEMMA RefilledFields ==
  ASSUME NEW c, NEW rows, NEW version, NEW pending, NEW failed
  PROVE  Contents(c, Refilled(c, rows, version, pending, failed), rows, version, pending)
BY DEF Refilled, SameBoxes, Contents

(* The run of pending versions that is written. *)
LEMMA ContiguousIs ==
  ASSUME NEW v \in 0 .. MaxVersion, NEW pending \in SUBSET Batches
  PROVE  /\ Contiguous(v, pending) \in v .. MaxVersion
         /\ \A u \in v + 1 .. Contiguous(v, pending) : u \in pending
<1> DEFINE S == {u \in v .. MaxVersion : v + 1 .. u \subseteq pending}
<1> USE SnapshotFenceConstants
<1>1. S \in SUBSET (0 .. MaxVersion)
  OBVIOUS
<1>2. v \in S
  OBVIOUS
<1>3. Max(S) \in S
  <2> HIDE DEF S
  <2> QED BY <1>1, <1>2, MaxIsGreatest
<1>4. Contiguous(v, pending) = Max(S)
  BY DEF Contiguous
<1> QED BY <1>3, <1>4

(* A flush leaves the table its version's, and forgets no mutation. *)
LEMMA FlushedIs ==
  ASSUME NEW ch, Len(ch) \in Nat, NEW c \in Child, Current(ch, c), changed = ch, NEW d \in Flushed(c)
  PROVE  d \in Child /\ SameBoxes(c, d) /\ Current(ch, d) /\ \A u \in Nat : Has(c, u) => Has(d, u)
<1> DEFINE v == c.version
           end == Contiguous(c.version, c.pending)
           rest == c.pending \ (v .. end)
           later == Written(ch, c.rows, v, end)
<1>1. /\ v \in 0 .. MaxVersion /\ c.pending \in SUBSET Batches /\ c.rows \in [Rows -> Values]
      /\ c.failed \in BOOLEAN
  BY ChildFields
<1>2. end \in v .. MaxVersion /\ \A u \in v + 1 .. end : u \in c.pending
  BY <1>1, ContiguousIs
<1>3. Flushed(c) = IF end = v THEN {c}
                     ELSE {Written4(c, later, end, rest, FALSE), Refails(c, TRUE)}
  BY RowsAtAre DEF Flushed, Written4, Refails
<1> HIDE DEF end
<1>4. end \in 0 .. MaxVersion /\ v <= end /\ end \in Nat /\ v \in Nat /\ rest \in SUBSET Batches
  BY <1>1, <1>2, SnapshotFenceConstants
<1>5. later = RowsOf(ch, end) /\ later \in [Rows -> Values]
  <2>1. later = RowsOf(ch, end)
    BY <1>4, RowsGoOn DEF Current
  <2> QED BY <1>4, <2>1, RowsOfType
<1>6. CASE d = c
  BY <1>6 DEF SameBoxes
<1>7. CASE d = Written4(c, later, end, rest, FALSE) /\ end # v
  <2>1. d = Refilled(c, later, end, rest, FALSE) /\ d \in Child
    <3> HIDE DEF later, rest, v
    <3>1. /\ Refilled(c, later, end, rest, FALSE) \in Child
          /\ Written4(c, later, end, rest, FALSE) = Refilled(c, later, end, rest, FALSE)
      BY <1>4, <1>5, RefilledChild
    <3> QED BY <1>7, <3>1
  <2>2. SameBoxes(c, d) /\ d.rows = later /\ d.version = end /\ d.pending = rest
    <3>1. Contents(c, d, later, end, rest)
      BY <2>1, RefilledFields
    <3> QED BY <3>1 DEF Contents
  <2>3. end <= Len(ch)
    <3>1. end \in c.pending
      BY <1>1, <1>2, <1>4, <1>7
    <3> QED BY <3>1 DEF Current
  <2>4. Current(ch, d)
    BY <1>5, <2>2, <2>3 DEF Current
  <2>5. \A u \in Nat : Has(c, u) => Has(d, u)
    BY <1>4, <2>2 DEF Has
  <2> QED BY <2>1, <2>2, <2>4, <2>5
<1>8. CASE d = Refails(c, TRUE)
  <2>1. d = Refilled(c, c.rows, c.version, c.pending, TRUE) /\ d \in Child
    <3>1. /\ Refilled(c, c.rows, c.version, c.pending, TRUE) \in Child
          /\ Refails(c, TRUE) = Refilled(c, c.rows, c.version, c.pending, TRUE)
      BY <1>1, RefilledChild
    <3> QED BY <1>8, <3>1
  <2>2. SameBoxes(c, d) /\ d.rows = c.rows /\ d.version = c.version /\ d.pending = c.pending
    <3>1. Contents(c, d, c.rows, c.version, c.pending)
      BY <2>1, RefilledFields
    <3> QED BY <3>1 DEF Contents
  <2> QED BY <2>1, <2>2 DEF Current, Has
<1> QED BY <1>3, <1>6, <1>7, <1>8

(* The child c takes its first message and becomes d, then answers. *)
Handled(ch, c, d, ok) ==
  /\ d \in Child /\ SameBoxes(c, d) /\ Current(ch, d)
  /\ ok \in BOOLEAN /\ (Head(c.inbox).type = "init" => ok)
  /\ \A u \in Nat : Has(c, u) \/ Brings(Head(c.inbox), u) => Has(d, u)

Becomes(p, d, ok) == d \in Child /\ children' = [children EXCEPT ![p] = Answered(d, ok)]

(* An init leaves the rows it carries, and is not refused. *)
LEMMA LoadedIs ==
  ASSUME NEW p, NEW c \in Child, c.inbox # << >>, NEW version \in 0 .. MaxVersion,
         NEW rows \in [Rows -> Values], Whole, LoadRows(p, c, version, Pairs(rows))
  PROVE  Becomes(p, Refilled(c, rows, version, {}, FALSE), TRUE)
<1> DEFINE bare == Loaded(c, NoRows, version, {}, FALSE)
           pairs == Pairs(rows)
           d == Refilled(c, rows, version, {}, FALSE)
<1>1. {} \in SUBSET Batches /\ FALSE \in BOOLEAN /\ NoRows \in [Rows -> Values]
  BY DEF NoRows, Values
<1>2. d \in Child
  BY <1>1, RefilledChild
<1>3. bare = Refilled(c, NoRows, version, {}, FALSE) /\ bare \in Child
  <2>1. /\ Loaded(c, NoRows, version, {}, FALSE) = Refilled(c, NoRows, version, {}, FALSE)
        /\ Refilled(c, NoRows, version, {}, FALSE) \in Child
    BY <1>1, RefilledChild
  <2> QED BY <2>1
<1>4. PICK table \in [Rows -> {pair[2] : pair \in pairs} \cup {Missing}] :
        /\ \A r \in Rows : \/ <<r, table[r]>> \in pairs
                           \/ table[r] = Missing /\ \A pair \in pairs : pair[1] # r
        /\ Answer(p, [bare EXCEPT !.rows = table, !.init = NoInit], TRUE)
  BY Zenon DEF LoadRows, Whole, Loaded
<1>5. table = rows
  <2>1. ASSUME NEW r \in Rows PROVE table[r] = rows[r]
    <3>1. <<r, rows[r]>> \in pairs
      BY DEF Pairs
    <3>2. <<r, table[r]>> \in pairs
      <4>1. <<r, rows[r]>>[1] = r
        OBVIOUS
      <4> HIDE DEF pairs
      <4> QED BY <1>4, <3>1, <4>1
    <3>3. PICK s \in Rows : <<r, table[r]>> = <<s, rows[s]>>
      BY <3>2 DEF Pairs
    <3> QED BY <3>3
  <2> QED BY <2>1
<1>6. [bare EXCEPT !.rows = table, !.init = NoInit] = d
  <2> DEFINE e == Refilled(c, NoRows, version, {}, FALSE)
  <2>1. Reloaded(e, rows) = Refilled(e, rows, e.version, e.pending, e.failed)
    <3> HIDE DEF e
    <3> QED BY <1>3, RefilledChild DEF e
  <2>2. Refilled(e, rows, e.version, e.pending, e.failed) = d
    BY DEF Refilled
  <2>3. [bare EXCEPT !.rows = table, !.init = NoInit] = Reloaded(e, rows)
    BY <1>3, <1>5 DEF Reloaded
  <2> QED BY <2>1, <2>2, <2>3
<1>7. Answer(p, d, TRUE)
  BY <1>4, <1>6
<1>8. d.inbox # << >>
  BY DEF Refilled
<1> HIDE DEF d
<1>9. children' = [children EXCEPT ![p] = Answered(d, TRUE)]
  BY <1>2, <1>7, <1>8, AnswerIs
<1> QED BY <1>2, <1>9 DEF d, Becomes

(* A batch is written with what is pending, and not forgotten. *)
LEMMA AppliedIs ==
  ASSUME NEW ch, Len(ch) \in Nat, changed = ch, NEW c \in Child, Current(ch, c),
         NEW version \in 0 .. MaxVersion, version <= Len(ch),
         NEW d \in Flushed(Rewaits(c, IF version > c.version THEN c.pending \cup {version}
                                                             ELSE c.pending))
  PROVE  /\ d \in Child /\ SameBoxes(c, d) /\ Current(ch, d)
         /\ \A u \in Nat : Has(c, u) \/ u = version => Has(d, u)
<1> DEFINE pending == IF version > c.version THEN c.pending \cup {version} ELSE c.pending
           e == Refilled(c, c.rows, c.version, pending, c.failed)
<1>1. /\ c.version \in 0 .. MaxVersion /\ c.pending \in SUBSET Batches /\ c.rows \in [Rows -> Values]
      /\ c.failed \in BOOLEAN
  BY ChildFields
<1>2. pending \in SUBSET Batches
  BY <1>1, SnapshotFenceConstants DEF Batches
<1>3. \A u \in pending : u <= Len(ch)
  BY DEF Current
<1>4. \A u \in Nat : Has(c, u) \/ u = version => u <= c.version \/ u \in pending
  BY <1>1, SnapshotFenceConstants DEF Has
<1> HIDE DEF pending
<1>5. e \in Child /\ Rewaits(c, pending) = e
  BY <1>1, <1>2, RefilledChild
<1>6. SameBoxes(c, e) /\ e.rows = c.rows /\ e.version = c.version /\ e.pending = pending
  <2>1. Contents(c, e, c.rows, c.version, pending)
    BY RefilledFields
  <2> QED BY <2>1 DEF Contents
<1>7. d \in Flushed(e)
  <2> HIDE DEF e
  <2> QED BY <1>5 DEF pending
<1> HIDE DEF e
<1>8. Current(ch, e)
  BY <1>3, <1>6 DEF Current
<1>9. d \in Child /\ SameBoxes(e, d) /\ Current(ch, d) /\ \A u \in Nat : Has(e, u) => Has(d, u)
  BY <1>5, <1>7, <1>8, FlushedIs
<1>10. \A u \in Nat : Has(c, u) \/ u = version => Has(e, u)
  BY <1>4, <1>6 DEF Has
<1>11. SameBoxes(c, d)
  BY <1>6, <1>9 DEF SameBoxes
<1> QED BY <1>9, <1>10, <1>11

(* What a child makes of its next message. *)
LEMMA HandleIs ==
  ASSUME changed \in Seq(Rows), Family(changed, fiber, children),
         NEW p \in DOMAIN children, Handle(p)
  PROVE  \E d, ok : /\ Handled(changed, children[p], d, ok)
                    /\ children' = [children EXCEPT ![p] = Answered(d, ok)]
<1> DEFINE c == children[p]
           m == Head(c.inbox)
<1>1. c \in Child /\ SoundChild(changed, fiber, c)
  BY DEF Family
<1>2. c.alive /\ c.inbox # << >> /\ c.inbox \in Seq(Message) /\ Len(changed) \in Nat
  BY <1>1, ChildFields DEF Handle
<1>3. m \in Message /\ m = c.inbox[1] /\ 1 \in DOMAIN c.inbox
  BY <1>2
<1>4. m.type \in {"init", "apply", "query"} /\ m.version \in 0 .. MaxVersion
  BY <1>3, MessageFields
<1>5. SoundTable(changed, c) /\ SoundMessage(changed, fiber, m)
  BY <1>1, <1>3 DEF SoundChild
<1>6. \/ m.type = "init" /\ LoadRows(p, c, m.version, m.rows)
      \/ m.type = "apply" /\ ApplyBatch(p, c, m.version)
      \/ m.type = "query" /\ Snapshot(p, c)
  <2> HIDE DEF m
  <2>1. \/ m.type = "init" /\ LoadRows(p, c, m.version, m.rows)
        \/ m.type = "apply" /\ ApplyBatch(p, c, m.version)
        \/ m.type = "query" /\ Snapshot(p, c)
        \/ m.type \in {"initStart", "initRows", "initCommit"}
    BY Zenon DEF Handle, m
  <2> QED BY <1>4, <2>1
<1>7. m.type # "init" => Current(changed, c)
  BY <1>3, <1>2, <1>5 DEF SoundTable, Current
<1> HIDE DEF m, c
<1>8. ASSUME NEW d \in Child, SameBoxes(c, d), NEW ok \in BOOLEAN, Answer(p, d, ok)
      PROVE  children' = [children EXCEPT ![p] = Answered(d, ok)]
  <2>1. d.inbox # << >>
    BY <1>2, <1>8 DEF SameBoxes
  <2> QED BY <1>8, <2>1, AnswerIs
<1>9. CASE m.type = "init" /\ LoadRows(p, c, m.version, m.rows)
  <2> DEFINE rows == RowsOf(changed, m.version)
             d == Refilled(c, rows, m.version, {}, FALSE)
  <2>1. Whole /\ m.rows = Pairs(rows) /\ m.version <= Len(changed)
    BY <1>5, <1>9 DEF SoundMessage
  <2>2. rows \in [Rows -> Values]
    BY <1>4, RowsOfType
  <2>3. d \in Child /\ children' = [children EXCEPT ![p] = Answered(d, TRUE)]
    <3> HIDE DEF rows
    <3>1. LoadRows(p, c, m.version, Pairs(rows))
      BY <1>9, <2>1
    <3>2. Becomes(p, Refilled(c, rows, m.version, {}, FALSE), TRUE)
      BY <1>1, <1>2, <1>4, <2>1, <2>2, <3>1, LoadedIs
    <3> QED BY <3>2 DEF Becomes
  <2>4. SameBoxes(c, d) /\ d.rows = rows /\ d.version = m.version /\ d.pending = {}
    <3>1. Contents(c, d, rows, m.version, {})
      BY RefilledFields
    <3> QED BY <3>1 DEF Contents
  <2> HIDE DEF d
  <2>5. Current(changed, d)
    BY <2>1, <2>4 DEF Current
  <2>6. Blank(c)
    BY <1>3, <1>5, <1>9 DEF SoundTable
  <2>7. \A u \in Nat : Has(c, u) \/ Brings(m, u) => Has(d, u)
    BY <1>4, <1>9, <2>4, <2>6, SnapshotFenceConstants DEF Has, Brings, Blank
  <2>8. Handled(changed, c, d, TRUE)
    BY <2>3, <2>4, <2>5, <2>7 DEF Handled, m
  <2> QED BY <2>3, <2>8 DEF c
<1>10. CASE m.type = "apply" /\ ApplyBatch(p, c, m.version)
  <2>1. PICK d \in Flushed(Rewaits(c, IF m.version > c.version THEN c.pending \cup {m.version}
                                                               ELSE c.pending)) :
          Answer(p, d, TRUE)
    BY <1>10, Zenon DEF ApplyBatch, Rewaits
  <2>2. m.version <= Len(changed)
    BY <1>5 DEF SoundMessage
  <2>3. Current(changed, c)
    BY <1>7, <1>10
  <2>4. /\ d \in Child /\ SameBoxes(c, d) /\ Current(changed, d)
        /\ \A u \in Nat : Has(c, u) \/ u = m.version => Has(d, u)
    BY <1>1, <1>2, <1>4, <2>2, <2>3, AppliedIs
  <2>5. \A u \in Nat : Has(c, u) \/ Brings(m, u) => Has(d, u)
    BY <1>10, <2>4 DEF Brings
  <2>6. Handled(changed, c, d, TRUE)
    BY <2>4, <2>5 DEF Handled, m
  <2>7. children' = [children EXCEPT ![p] = Answered(d, TRUE)]
    BY <1>8, <2>1, <2>4
  <2> QED BY <2>6, <2>7 DEF c
<1>11. CASE m.type = "query" /\ Snapshot(p, c)
  <2>1. PICK d \in Flushed(c), ok \in BOOLEAN : Answer(p, d, ok)
    BY <1>11 DEF Snapshot
  <2>2. Current(changed, c)
    BY <1>7, <1>11
  <2>3. /\ d \in Child /\ SameBoxes(c, d) /\ Current(changed, d)
        /\ \A u \in Nat : Has(c, u) => Has(d, u)
    BY <1>1, <1>2, <2>2, FlushedIs
  <2>4. \A u \in Nat : Has(c, u) \/ Brings(m, u) => Has(d, u)
    BY <1>11, <2>3 DEF Brings
  <2>5. Handled(changed, c, d, ok)
    BY <1>11, <2>1, <2>3, <2>4 DEF Handled, m
  <2>6. children' = [children EXCEPT ![p] = Answered(d, ok)]
    BY <1>8, <2>1, <2>3
  <2> QED BY <2>5, <2>6 DEF c
<1> QED BY <1>6, <1>9, <1>10, <1>11

(* What a sequence holds that has one more. *)
LEMMA AppendIs ==
  ASSUME NEW S, NEW s \in Seq(S), NEW x \in S
  PROVE  /\ Append(s, x) \in Seq(S) /\ Append(s, x) # << >> /\ Len(Append(s, x)) = Len(s) + 1
         /\ DOMAIN Append(s, x) = DOMAIN s \cup {Len(s) + 1}
         /\ \A i \in DOMAIN s : i # Len(s) + 1 /\ Append(s, x)[i] = s[i]
         /\ Append(s, x)[Len(s) + 1] = x
<1> DEFINE n == Len(s)
           t == Append(s, x)
<1>1. n \in Nat /\ DOMAIN s = 1 .. n
  OBVIOUS
<1>2. t \in Seq(S) /\ t # << >> /\ Len(t) = n + 1 /\ DOMAIN t = 1 .. n + 1 /\ t[n + 1] = x
  OBVIOUS
<1>3. \A i \in 1 .. n : t[i] = s[i]
  OBVIOUS
<1> HIDE DEF n, t
<1> QED BY <1>1, <1>2, <1>3 DEF n, t

(* The reply is what the fiber that awaits it may take. *)
LEMMA ReplySound ==
  ASSUME NEW ch \in Seq(Rows), NEW fb, NEW c \in Child, c.inbox # << >>, NEW d, NEW ok,
         Handled(ch, c, d, ok), SoundMessage(ch, fb, Head(c.inbox)), Head(c.inbox).from # Nobody
  PROVE  SoundResponse(ch, fb, Reply(d, ok))
<1> DEFINE m == Head(c.inbox)
           r == Reply(d, ok)
<1>1. m \in Message
  BY ChildFields
<1>2. d.inbox = c.inbox
  BY DEF Handled, SameBoxes
<1>3. /\ r.from = m.from /\ r.ok = ok
      /\ r.version = (IF m.type = "query" THEN d.version ELSE 0)
      /\ r.rows = (IF m.type = "query" THEN d.rows ELSE NoRows)
  BY <1>2 DEF Reply
<1> HIDE DEF r
<1>4. m.type \in {"init", "apply", "query"}
  BY <1>1, MessageFields
<1>5. fb[m.from].at = IF m.type = "init" THEN "init" ELSE "request"
  BY DEF SoundMessage
<1>6. /\ m.type = "apply" => m.from \notin Readers
      /\ m.type = "init" => ok
      /\ d.version <= Len(ch) /\ d.rows = RowsOf(ch, d.version)
  BY DEF SoundMessage, Handled, Current
<1>7. 0 <= Len(ch)
  OBVIOUS
<1> HIDE DEF m
<1>8. r.version <= Len(ch)
  BY <1>3, <1>6, <1>7
<1>9. fb[r.from].at \in {"init", "request"} /\ (fb[r.from].at = "init" => r.ok)
  BY <1>3, <1>4, <1>5, <1>6
<1>10. ASSUME fb[r.from].at = "request", r.from \in Readers PROVE r.rows = RowsOf(ch, r.version)
  <2>1. m.type = "query"
    BY <1>3, <1>4, <1>5, <1>6, <1>10
  <2> QED BY <1>3, <1>6, <2>1
<1>11. SoundResponse(ch, fb, r)
  BY <1>8, <1>9, <1>10 DEF SoundResponse
<1> QED BY <1>11 DEF r

(* The child that answered is sound. *)
LEMMA AnsweredSound ==
  ASSUME NEW ch \in Seq(Rows), NEW fb, NEW c \in Child, SoundChild(ch, fb, c), c.alive,
         c.inbox # << >>, NEW d, NEW ok, Handled(ch, c, d, ok)
  PROVE  Answered(d, ok) \in Child /\ SoundChild(ch, fb, Answered(d, ok))
<1> DEFINE m == Head(c.inbox)
           in == Tail(c.inbox)
           out == Replied(d, ok)
           e == Answered(d, ok)
<1>1. c.inbox \in Seq(Message) /\ c.outbox \in Seq(Response) /\ m \in Message
  BY ChildFields
<1>2. /\ d \in Child /\ d.alive = c.alive /\ d.inbox = c.inbox /\ d.outbox = c.outbox
      /\ ok \in BOOLEAN /\ Current(ch, d)
  BY DEF Handled, SameBoxes
<1>3. SoundTable(ch, c) /\ \A i \in DOMAIN c.inbox : SoundMessage(ch, fb, c.inbox[i])
  BY DEF SoundChild
<1>4. \A i \in DOMAIN c.outbox : SoundResponse(ch, fb, c.outbox[i])
  BY DEF SoundChild
<1>5. SoundMessage(ch, fb, m)
  BY <1>1, <1>3
<1>6. in \in Seq(Message) /\ \A i \in DOMAIN in : i + 1 \in DOMAIN c.inbox /\ i + 1 # 1 /\ in[i] = c.inbox[i + 1]
  <2> DEFINE s == c.inbox
  <2>1. s \in Seq(Message) /\ s # << >>
    BY <1>1
  <2> HIDE DEF s
  <2>2. Tail(s) \in Seq(Message) /\ \A i \in DOMAIN Tail(s) : i + 1 \in DOMAIN s /\ i + 1 # 1 /\ Tail(s)[i] = s[i + 1]
    BY <2>1
  <2> QED BY <2>2 DEF s
<1>7. out \in Seq(Response)
  <2>1. m.from # Nobody => Reply(d, ok) \in Response
    BY <1>2, ReplyType
  <2> DEFINE r == Reply(d, ok)
  <2> HIDE DEF r
  <2> QED BY <1>1, <1>2, <2>1 DEF Replied, r
<1>8. \A i \in DOMAIN out : SoundResponse(ch, fb, out[i])
  <2> DEFINE r == Reply(d, ok)
             s == c.outbox
  <2>1. CASE m.from = Nobody
    BY <1>2, <1>4, <2>1 DEF Replied
  <2>2. CASE m.from # Nobody
    <3>1. r \in Response /\ SoundResponse(ch, fb, r)
      BY <1>2, <1>5, <2>2, ReplyType, ReplySound
    <3>2. out = Append(s, r) /\ s \in Seq(Response) /\ \A i \in DOMAIN s : SoundResponse(ch, fb, s[i])
      BY <1>1, <1>2, <1>4, <2>2 DEF Replied
    <3> HIDE DEF r, s, out
    <3>3. \A i \in DOMAIN out : out[i] = r \/ (i \in DOMAIN s /\ out[i] = s[i])
      BY <3>1, <3>2, AppendIs
    <3> QED BY <3>1, <3>2, <3>3
  <2> QED BY <2>1, <2>2
<1>9. /\ e = Reboxed(d, in, out) /\ e \in Child
  BY <1>2, <1>6, <1>7, ReboxedChild DEF Answered
<1>10. /\ e.alive = c.alive /\ e.version = d.version /\ e.rows = d.rows /\ e.pending = d.pending
       /\ e.inbox = in /\ e.outbox = out
  BY <1>2, <1>9 DEF Reboxed
<1> HIDE DEF e, in, out, m
<1>11. SoundTable(ch, e)
  <2>1. e.version <= Len(ch) /\ \A u \in e.pending : u <= Len(ch)
    BY <1>2, <1>10 DEF Current
  <2>2. \A i \in DOMAIN in : in[i].type # "init"
    BY <1>3, <1>6 DEF SoundTable
  <2>3. e.rows = RowsOf(ch, e.version)
    BY <1>2, <1>10 DEF Current
  <2> QED BY <1>10, <2>1, <2>2, <2>3 DEF SoundTable
<1>12. \A i \in DOMAIN in : SoundMessage(ch, fb, in[i])
  BY <1>3, <1>6
<1>13. SoundChild(ch, fb, e)
  BY <1>8, <1>10, <1>11, <1>12 DEF SoundChild
<1> QED BY <1>9, <1>13 DEF e

(* It has for nobody more than it had. *)
LEMMA AnsweredFewer ==
  ASSUME NEW ch, NEW c \in Child, c.inbox # << >>, NEW d, NEW ok, Handled(ch, c, d, ok)
  PROVE  Fewer(c, Answered(d, ok))
<1> DEFINE m == Head(c.inbox)
           in == Tail(c.inbox)
           out == Replied(d, ok)
           e == Answered(d, ok)
           a == Len(c.outbox)
           b == Len(c.inbox)
<1>1. c.inbox \in Seq(Message) /\ c.outbox \in Seq(Response) /\ m \in Message
  BY ChildFields
<1>2. d \in Child /\ d.inbox = c.inbox /\ d.outbox = c.outbox /\ ok \in BOOLEAN
  BY DEF Handled, SameBoxes
<1>3. in \in Seq(Message)
  BY <1>1
<1>4. m.from # Nobody => Reply(d, ok) \in Response /\ out = Append(c.outbox, Reply(d, ok))
  BY <1>2, ReplyType DEF Replied
<1>5. m.from = Nobody => out = c.outbox
  BY <1>2 DEF Replied
<1>6. out \in Seq(Response)
  <2> DEFINE r == Reply(d, ok)
  <2>1. m.from # Nobody => r \in Response /\ out = Append(c.outbox, r)
    BY <1>4
  <2>2. ASSUME r \in Response PROVE Append(c.outbox, r) \in Seq(Response)
    <3> DEFINE s == c.outbox
    <3>1. s \in Seq(Response)
      BY <1>1
    <3> HIDE DEF r, s
    <3>2. Append(s, r) \in Seq(Response)
      BY <2>2, <3>1, AppendIs
    <3> QED BY <3>2 DEF s
  <2> HIDE DEF r, out
  <2> QED BY <1>1, <1>5, <2>1, <2>2, Zenon
<1>7. e.inbox = in /\ e.outbox = out
  BY <1>2 DEF Answered, Reboxed
<1>8. Laid(c, a, b, Froms(c.outbox), Froms(c.inbox))
  BY <1>1, BoxesLaid
<1>9. Laid(e, Len(out), Len(in), Froms(out), Froms(in))
  <2> HIDE DEF e, in, out
  <2>1. e.inbox \in Seq(Message) /\ e.outbox \in Seq(Response)
    BY <1>3, <1>6, <1>7
  <2>2. Laid(e, Len(e.outbox), Len(e.inbox), Froms(e.outbox), Froms(e.inbox))
    BY <2>1, BoxesLaid
  <2> QED BY <1>7, <2>2
<1>10. /\ b \in Nat \ {0} /\ Len(in) = b - 1 /\ Froms(c.inbox)[1] = m.from
       /\ \A i \in 1 .. b - 1 : Froms(in)[i] = Froms(c.inbox)[i + 1]
  BY <1>1, FromsMove
<1>11. CASE m.from = Nobody
  <2>1. Laid(e, a, b - 1, Froms(c.outbox), Froms(in))
    BY <1>5, <1>9, <1>10, <1>11
  <2> DEFINE F == Froms(c.outbox)
             G == Froms(c.inbox)
             K == Froms(in)
  <2> HIDE DEF a, b, e, F, G, K
  <2>2. /\ Laid(c, a, b, F, G) /\ b # 0 /\ Laid(e, a, b - 1, F, K)
        /\ \A i \in 1 .. b - 1 : K[i] = G[i + 1]
    BY <1>8, <1>10, <2>1 DEF F, G, K
  <2>3. Fewer(c, e)
    BY <2>2, FewerIgnored
  <2> QED BY <2>3 DEF e
<1>12. CASE m.from # Nobody
  <2> DEFINE r == Reply(d, ok)
             s == c.outbox
  <2>1. s \in Seq(Response) /\ r \in Response /\ out = Append(s, r) /\ r.from = m.from
    BY <1>1, <1>2, <1>4, <1>12 DEF Reply
  <2>2. Len(out) = a + 1 /\ Froms(out)[a + 1] = m.from /\ \A i \in 1 .. a : Froms(out)[i] = Froms(s)[i]
    <3> HIDE DEF r, out, s
    <3>1. /\ Len(Append(s, r)) = Len(s) + 1 /\ Froms(Append(s, r))[Len(s) + 1] = r.from
          /\ \A i \in 1 .. Len(s) : Froms(Append(s, r))[i] = Froms(s)[i]
      BY <2>1, FromsMove
    <3> QED BY <2>1, <3>1 DEF s
  <2>3. Laid(e, a + 1, b - 1, Froms(out), Froms(in))
    BY <1>9, <1>10, <2>2
  <2> DEFINE F == Froms(c.outbox)
             G == Froms(c.inbox)
             H == Froms(out)
             K == Froms(in)
  <2> HIDE DEF a, b, e, F, G, H, K
  <2>4. /\ Laid(c, a, b, F, G) /\ b # 0 /\ Laid(e, a + 1, b - 1, H, K)
        /\ (\A i \in 1 .. a : H[i] = F[i]) /\ H[a + 1] = G[1] /\ \A i \in 1 .. b - 1 : K[i] = G[i + 1]
    BY <1>8, <1>10, <2>2, <2>3 DEF F, G, H, K
  <2>5. Fewer(c, e)
    BY <2>4, FewerAnswered
  <2> QED BY <2>5 DEF e
<1> QED BY <1>11, <1>12

(* It has, or will be brought, what it was to have. *)
LEMMA AnsweredCovered ==
  ASSUME NEW ch, NEW c \in Child, c.inbox # << >>, NEW d, NEW ok, Handled(ch, c, d, ok),
         NEW v \in Nat, Covered(v, c)
  PROVE  Covered(v, Answered(d, ok))
<1> DEFINE e == Answered(d, ok)
           s == c.inbox
<1>1. d.alive = c.alive /\ d.inbox = s
  BY DEF Handled, SameBoxes
<1>2. e.alive = c.alive /\ e.version = d.version /\ e.pending = d.pending /\ e.inbox = Tail(s)
  BY <1>1 DEF Answered, Reboxed
<1>3. s \in Seq(Message) /\ s # << >>
  BY ChildFields
<1>4. \A u \in Nat : Has(c, u) \/ Brings(Head(s), u) => Has(d, u)
  BY DEF Handled
<1>5. c.alive => \A u \in 1 .. v : Has(c, u) \/ \E i \in DOMAIN s : Brings(s[i], u)
  BY DEF Covered, OnItsWay
<1> HIDE DEF e, s
<1>6. ASSUME e.alive, NEW u \in 1 .. v PROVE Has(e, u) \/ \E i \in DOMAIN e.inbox : Brings(e.inbox[i], u)
  <2>1. CASE Has(d, u)
    BY <1>2, <2>1 DEF Has
  <2>2. CASE ~ Has(d, u)
    <3>1. PICK i \in DOMAIN s : Brings(s[i], u)
      BY <1>2, <1>4, <1>5, <1>6, <2>2
    <3>2. i # 1
      BY <1>3, <1>4, <2>2, <3>1
    <3>3. i - 1 \in DOMAIN Tail(s) /\ Tail(s)[i - 1] = s[i]
      BY <1>3, <3>2
    <3> QED BY <1>2, <3>1, <3>3
  <2> QED BY <2>1, <2>2
<1> QED BY <1>6 DEF Covered, OnItsWay, e

-----------------------------------------------------------------------------
(* What happens to the children *)

(* The boxes of the children, laid out. *)
LEMMA ChildLaid ==
  ASSUME NEW c \in Child
  PROVE  Laid(c, Len(c.outbox), Len(c.inbox), Froms(c.outbox), Froms(c.inbox))
<1>1. c.inbox \in Seq(Message) /\ c.outbox \in Seq(Response)
  BY ChildFields
<1> QED BY <1>1, BoxesLaid

(* One child is replaced by a sound one that has for nobody more. *)
LEMMA FamilyOne ==
  ASSUME NEW ch, NEW fb, NEW cs, Family(ch, fb, cs), NEW p \in DOMAIN cs,
         NEW e \in Child, SoundChild(ch, fb, e), Fewer(cs[p], e)
  PROVE  Family(ch, fb, [cs EXCEPT ![p] = e])
<1> DEFINE ds == [cs EXCEPT ![p] = e]
<1>1. cs \in Seq(Child) /\ cs # << >> /\ Alone(cs) /\ \A q \in DOMAIN cs : SoundChild(ch, fb, cs[q])
  BY DEF Family
<1>2. ds \in Seq(Child) /\ ds # << >> /\ DOMAIN ds = DOMAIN cs
  BY <1>1
<1>3. \A q \in DOMAIN cs : ds[q] = IF q = p THEN e ELSE cs[q]
  BY <1>1
<1> HIDE DEF ds
<1>4. \A q \in DOMAIN cs : Fewer(cs[q], ds[q])
  BY <1>3, FewerSelf
<1>5. Alone(ds)
  BY <1>1, <1>2, <1>4, AloneFewer
<1>6. \A q \in DOMAIN ds : SoundChild(ch, fb, ds[q])
  BY <1>1, <1>2, <1>3
<1>7. Family(ch, fb, ds)
  BY <1>2, <1>5, <1>6 DEF Family
<1> QED BY <1>7 DEF ds

(* Everything that travels is for nobody or for a fiber that waits. *)
LEMMA OwnersWait ==
  ASSUME NEW ch, NEW fb, NEW c \in Child, SoundChild(ch, fb, c), NEW i \in 1 .. Width(c),
         Owner(c, i) # Nobody
  PROVE  fb[Owner(c, i)].at \in {"init", "request"}
<1> DEFINE a == Len(c.outbox)
           b == Len(c.inbox)
<1>1. c.inbox \in Seq(Message) /\ c.outbox \in Seq(Response)
  BY ChildFields
<1>2. a \in Nat /\ b \in Nat /\ DOMAIN c.outbox = 1 .. a /\ DOMAIN c.inbox = 1 .. b /\ Width(c) = a + b
  BY <1>1 DEF Width
<1>3. Owner(c, i) = IF i <= a THEN c.outbox[i].from ELSE c.inbox[i - a].from
  BY DEF Owner
<1>4. /\ \A k \in 1 .. a : fb[c.outbox[k].from].at \in {"init", "request"}
      /\ \A k \in 1 .. b : c.inbox[k].from # Nobody => fb[c.inbox[k].from].at \in {"init", "request"}
  BY <1>2 DEF SoundChild, SoundMessage, SoundResponse
<1> HIDE DEF a, b
<1>5. CASE i <= a
  <2>1. i \in 1 .. a
    BY <1>2, <1>5
  <2> QED BY <1>3, <1>4, <1>5, <2>1
<1>6. CASE ~ (i <= a)
  <2> DEFINE k == i - a
  <2>1. k \in 1 .. b /\ Owner(c, i) = c.inbox[k].from
    BY <1>2, <1>3, <1>6
  <2> HIDE DEF k
  <2> QED BY <1>4, <2>1
<1> QED BY <1>5, <1>6

(* Who does not wait has nothing on its way. *)
LEMMA IdleFree ==
  ASSUME NEW ch, NEW fb, NEW cs, Family(ch, fb, cs), NEW f, f # Nobody,
         fb[f].at \notin {"init", "request"}
  PROVE  Free(cs, f)
<1>1. cs \in Seq(Child) /\ \A q \in DOMAIN cs : cs[q] \in Child /\ SoundChild(ch, fb, cs[q])
  BY DEF Family
<1> QED BY <1>1, OwnersWait DEF Free

(* Where each fiber is that something is on its way to. *)
SamePlaces(cs, fb, gb) == \A f \in Fibers : gb[f].at = fb[f].at \/ Free(cs, f)

(* A fiber that nothing is on its way to may move. *)
LEMMA FamilyMoves ==
  ASSUME NEW ch, NEW fb, NEW cs, Family(ch, fb, cs), NEW gb, SamePlaces(cs, fb, gb)
  PROVE  Family(ch, gb, cs)
<1>1. cs \in Seq(Child) /\ cs # << >> /\ Alone(cs)
  BY DEF Family
<1>2. ASSUME NEW p \in DOMAIN cs PROVE SoundChild(ch, gb, cs[p])
  <2> DEFINE c == cs[p]
             a == Len(c.outbox)
             b == Len(c.inbox)
  <2>1. c \in Child /\ SoundChild(ch, fb, c)
    BY <1>1 DEF Family
  <2>2. c.inbox \in Seq(Message) /\ c.outbox \in Seq(Response)
    BY <2>1, ChildFields
  <2>3. a \in Nat /\ b \in Nat /\ DOMAIN c.outbox = 1 .. a /\ DOMAIN c.inbox = 1 .. b /\ Width(c) = a + b
    BY <2>2 DEF Width
  <2>4. \A i \in 1 .. a + b : Owner(c, i) = IF i <= a THEN c.outbox[i].from ELSE c.inbox[i - a].from
    BY DEF Owner
  <2>5. \A f \in Fibers : gb[f].at = fb[f].at \/ \A i \in 1 .. a + b : Owner(c, i) # f
    BY <2>3 DEF SamePlaces, Free
  <2>6. /\ \A i \in 1 .. a : c.outbox[i].from \in Fibers
        /\ \A i \in 1 .. b : c.inbox[i].from \in Fibers \cup {Nobody}
    <3>1. \A i \in 1 .. b : c.inbox[i] \in Message
      BY <2>2, <2>3
    <3>2. \A i \in 1 .. a : c.outbox[i] \in Response
      BY <2>2, <2>3
    <3>3. \A m \in Response : m.from \in Fibers
      BY DEF Response
    <3> QED BY <3>1, <3>2, <3>3, MessageFields
  <2>7. SoundTable(ch, c) /\ (\A i \in 1 .. b : SoundMessage(ch, fb, c.inbox[i]))
                          /\ \A i \in 1 .. a : SoundResponse(ch, fb, c.outbox[i])
    BY <2>1, <2>3 DEF SoundChild
  <2> HIDE DEF a, b
  <2>8. ASSUME NEW i \in 1 .. a PROVE SoundResponse(ch, gb, c.outbox[i])
    <3>1. i \in 1 .. a + b /\ Owner(c, i) = c.outbox[i].from
      BY <2>3, <2>4
    <3>2. gb[c.outbox[i].from].at = fb[c.outbox[i].from].at
      BY <2>5, <2>6, <3>1
    <3>3. SoundResponse(ch, fb, c.outbox[i])
      BY <2>7
    <3> QED BY <3>2, <3>3 DEF SoundResponse
  <2>9. ASSUME NEW i \in 1 .. b PROVE SoundMessage(ch, gb, c.inbox[i])
    <3>1. a + i \in 1 .. a + b /\ ~ (a + i <= a) /\ (a + i) - a = i
      BY <2>3
    <3>2. Owner(c, a + i) = c.inbox[i].from
      BY <2>4, <3>1
    <3>3. c.inbox[i].from # Nobody => gb[c.inbox[i].from].at = fb[c.inbox[i].from].at
      BY <2>5, <2>6, <3>1, <3>2
    <3>4. SoundMessage(ch, fb, c.inbox[i])
      BY <2>7
    <3> QED BY <3>3, <3>4 DEF SoundMessage
  <2>10. SoundChild(ch, gb, c)
    BY <2>3, <2>7, <2>8, <2>9 DEF SoundChild
  <2> QED BY <2>10
<1> QED BY <1>1, <1>2 DEF Family

(* Another mutation changes nothing for the children. *)
LEMMA FamilyLater ==
  ASSUME NEW ch \in Seq(Rows), NEW r \in Rows, NEW fb, NEW cs, Family(ch, fb, cs)
  PROVE  Family(Append(ch, r), fb, cs)
<1> DEFINE later == Append(ch, r)
<1>1. later \in Seq(Rows) /\ Len(ch) \in Nat /\ Len(later) = Len(ch) + 1
  OBVIOUS
<1>2. \A v \in 0 .. MaxVersion : v <= Len(ch) => v <= Len(later) /\ RowsOf(later, v) = RowsOf(ch, v)
  BY <1>1, RowsStay, SnapshotFenceConstants
<1> HIDE DEF later
<1>3. cs \in Seq(Child) /\ cs # << >> /\ Alone(cs)
  BY DEF Family
<1>4. ASSUME NEW p \in DOMAIN cs PROVE SoundChild(later, fb, cs[p])
  <2> DEFINE c == cs[p]
             in == c.inbox
             out == c.outbox
  <2>1. c \in Child /\ SoundChild(ch, fb, c)
    BY <1>3 DEF Family
  <2>2. c.version \in 0 .. MaxVersion /\ c.pending \in SUBSET Batches /\ in \in Seq(Message) /\ out \in Seq(Response)
    BY <2>1, ChildFields
  <2>3. \A i \in DOMAIN in : in[i].version \in 0 .. MaxVersion
    <3>1. \A i \in DOMAIN in : in[i] \in Message
      BY <2>2
    <3> QED BY <3>1, MessageFields
  <2>4. \A i \in DOMAIN out : out[i].version \in 0 .. MaxVersion
    <3>1. \A i \in DOMAIN out : out[i] \in Response
      BY <2>2
    <3>2. \A m \in Response : m.version \in 0 .. MaxVersion
      BY DEF Response
    <3> QED BY <3>1, <3>2
  <2> HIDE DEF c
  <2>5. SoundTable(later, c)
    <3>1. SoundTable(ch, c)
      BY <2>1 DEF SoundChild
    <3>2. \A u \in c.pending : u <= Len(later)
      BY <1>1, <2>2, <3>1 DEF SoundTable, Batches
    <3> QED BY <1>2, <2>2, <3>1, <3>2 DEF SoundTable
  <2>6. \A i \in DOMAIN in : SoundMessage(later, fb, in[i])
    BY <1>2, <2>1, <2>3 DEF SoundChild, SoundMessage
  <2>7. \A i \in DOMAIN out : SoundResponse(later, fb, out[i])
    BY <1>2, <2>1, <2>4 DEF SoundChild, SoundResponse
  <2>8. SoundChild(later, fb, c)
    BY <2>5, <2>6, <2>7 DEF SoundChild
  <2> QED BY <2>8 DEF c
<1>5. Family(later, fb, cs)
  BY <1>3, <1>4 DEF Family
<1> QED BY <1>5 DEF later

(* A child handles a message. *)
LEMMA FamilyHandled ==
  ASSUME changed \in Seq(Rows), Family(changed, fiber, children), NEW p \in DOMAIN children,
         Handle(p)
  PROVE  /\ Family(changed, fiber, children') /\ Len(children') = Len(children)
         /\ \A q \in DOMAIN children : children'[q].alive = children[q].alive
         /\ \A q \in DOMAIN children, v \in Nat :
              Covered(v, children[q]) => Covered(v, children'[q])
<1> DEFINE c == children[p]
<1>1. PICK d, ok : /\ Handled(changed, c, d, ok)
                   /\ children' = [children EXCEPT ![p] = Answered(d, ok)]
  BY HandleIs
<1>2. c \in Child /\ SoundChild(changed, fiber, c) /\ children \in Seq(Child)
  BY DEF Family
<1>3. c.alive /\ c.inbox # << >>
  BY DEF Handle
<1> DEFINE e == Answered(d, ok)
<1>4. e \in Child /\ SoundChild(changed, fiber, e) /\ Fewer(c, e)
  BY <1>1, <1>2, <1>3, AnsweredSound, AnsweredFewer
<1>5. e.alive = c.alive
  BY <1>1 DEF Answered, Reboxed, Handled, SameBoxes
<1>6. \A v \in Nat : Covered(v, c) => Covered(v, e)
  BY <1>1, <1>2, <1>3, AnsweredCovered
<1>7. children' = [children EXCEPT ![p] = e]
  BY <1>1
<1> HIDE DEF e, c
<1>8. Family(changed, fiber, [children EXCEPT ![p] = e])
  BY <1>4, FamilyOne DEF c
<1>9. \A q \in DOMAIN children : children'[q] = IF q = p THEN e ELSE children[q]
  BY <1>2, <1>7
<1>10. Len(children') = Len(children)
  BY <1>2, <1>4, <1>7
<1> QED BY <1>5, <1>6, <1>7, <1>8, <1>9, <1>10 DEF c

(* The children once the parent has taken a response of p. *)
Taking(cs, p) == [cs EXCEPT ![p].outbox = Tail(@)]

(* Taking a response keeps the children sound; its fiber waits for nothing else. *)
LEMMA FamilyTaken ==
  ASSUME NEW ch \in Seq(Rows), NEW fb, NEW cs, Family(ch, fb, cs), NEW p \in DOMAIN cs,
         cs[p].outbox # << >>
  PROVE  /\ Family(ch, fb, Taking(cs, p)) /\ Len(Taking(cs, p)) = Len(cs)
         /\ Head(cs[p].outbox) \in Response /\ SoundResponse(ch, fb, Head(cs[p].outbox))
         /\ Free(Taking(cs, p), Head(cs[p].outbox).from)
         /\ \A q \in DOMAIN cs :
              /\ Taking(cs, p)[q].alive = cs[q].alive /\ Taking(cs, p)[q].noticed = cs[q].noticed
              /\ \A v \in Nat : Covered(v, cs[q]) => Covered(v, Taking(cs, p)[q])
<1> DEFINE c == cs[p]
           s == c.outbox
           m == Head(s)
           a == Len(s)
           b == Len(c.inbox)
           e == Out(c, Tail(s))
<1>1. c \in Child /\ SoundChild(ch, fb, c) /\ cs \in Seq(Child) /\ Alone(cs)
  BY DEF Family
<1>2. s \in Seq(Response) /\ s # << >>
  BY <1>1, ChildFields
<1>3. m \in Response /\ 1 \in DOMAIN s /\ m = s[1] /\ Tail(s) \in Seq(Response)
  BY <1>2
<1>4. SoundResponse(ch, fb, m) /\ m.from \in Fibers /\ m.from # Nobody
  <2>1. m.from \in Fibers
    BY <1>3 DEF Response
  <2> QED BY <1>1, <1>3, <2>1, FibersDiffer DEF SoundChild
<1>5. e \in Child /\ e = Reboxed(c, c.inbox, Tail(s))
  <2>1. c.inbox \in Seq(Message)
    BY <1>1, ChildFields
  <2> QED BY <1>1, <1>3, <2>1, ReboxedChild
<1>9. Taking(cs, p) = [cs EXCEPT ![p] = e]
  BY DEF Taking, Out
<1> HIDE DEF e
<1>6. /\ e.alive = c.alive /\ e.noticed = c.noticed /\ e.version = c.version /\ e.rows = c.rows
      /\ e.pending = c.pending /\ e.inbox = c.inbox /\ e.outbox = Tail(s)
  BY <1>5 DEF Reboxed
<1>7. SoundChild(ch, fb, e)
  <2>1. SoundTable(ch, e)
    BY <1>1, <1>6 DEF SoundChild, SoundTable, Blank
  <2>2. \A i \in DOMAIN Tail(s) : i + 1 \in DOMAIN s /\ Tail(s)[i] = s[i + 1]
    <3> HIDE DEF s
    <3> QED BY <1>2
  <2>3. \A i \in DOMAIN s : SoundResponse(ch, fb, s[i])
    BY <1>1 DEF SoundChild
  <2> HIDE DEF s
  <2>4. \A i \in DOMAIN e.outbox : SoundResponse(ch, fb, e.outbox[i])
    BY <1>6, <2>2, <2>3
  <2> QED BY <1>1, <1>6, <2>1, <2>4 DEF SoundChild
<1>8. /\ Fewer(c, e)
      /\ Width(c) \in Nat /\ 1 <= Width(c) /\ Width(e) = Width(c) - 1
      /\ Owner(c, 1) = m.from
      /\ \A i \in 1 .. Width(e) : Owner(e, i) = Owner(c, i + 1)
  <2> DEFINE F == Froms(s)
             G == Froms(c.inbox)
             H == Froms(Tail(s))
  <2>1. Laid(c, a, b, F, G)
    BY <1>1, ChildLaid
  <2>2. Laid(e, Len(e.outbox), Len(e.inbox), Froms(e.outbox), Froms(e.inbox))
    BY <1>5, ChildLaid
  <2>3. /\ a \in Nat \ {0} /\ Len(Tail(s)) = a - 1 /\ F[1] = m.from
        /\ \A i \in 1 .. a - 1 : H[i] = F[i + 1]
    BY <1>2, FromsMove
  <2>4. Laid(e, a - 1, b, H, G)
    BY <1>6, <2>2, <2>3
  <2> HIDE DEF a, b, c, e, F, G, H, m
  <2>5. /\ Fewer(c, e)
        /\ Width(c) \in Nat /\ 1 <= Width(c) /\ Width(e) = Width(c) - 1
        /\ Owner(c, 1) = F[1]
        /\ \A i \in 1 .. Width(e) : Owner(e, i) = Owner(c, i + 1)
    BY <2>1, <2>3, <2>4, FewerTaken
  <2> QED BY <2>3, <2>5
<1> DEFINE ds == Taking(cs, p)
<1>10. Family(ch, fb, ds)
  <2>1. Family(ch, fb, [cs EXCEPT ![p] = e])
    BY <1>5, <1>7, <1>8, FamilyOne
  <2> QED BY <1>9, <2>1
<1>11. DOMAIN ds = DOMAIN cs /\ Len(ds) = Len(cs) /\ \A q \in DOMAIN cs : ds[q] = IF q = p THEN e ELSE cs[q]
  BY <1>1, <1>5, <1>9
<1> HIDE DEF ds
<1>12. Free(ds, m.from)
  <2> SUFFICES ASSUME NEW q \in DOMAIN cs, NEW i \in 1 .. Width(ds[q]), Owner(ds[q], i) = m.from
               PROVE  FALSE
    BY <1>11 DEF Free
  <2>1. 1 \in 1 .. Width(c)
    BY <1>8
  <2>2. CASE q = p
    <3>1. Owner(c, i + 1) = Owner(c, 1) /\ i + 1 \in 1 .. Width(c) /\ i + 1 # 1
      BY <1>8, <1>11, <2>2
    <3> QED BY <1>1, <1>4, <1>8, <2>1, <3>1 DEF Alone
  <2>3. CASE q # p
    <3>1. Owner(cs[q], i) = Owner(c, 1) /\ i \in 1 .. Width(cs[q])
      BY <1>8, <1>11, <2>3
    <3> QED BY <1>1, <1>4, <1>8, <2>1, <2>3, <3>1 DEF Alone
  <2> QED BY <2>2, <2>3
<1>13. \A v \in Nat : Covered(v, c) => Covered(v, e)
  BY <1>6 DEF Covered, Has, OnItsWay
<1>14. \A q \in DOMAIN cs : /\ ds[q].alive = cs[q].alive /\ ds[q].noticed = cs[q].noticed
                            /\ \A v \in Nat : Covered(v, cs[q]) => Covered(v, ds[q])
  BY <1>6, <1>11, <1>13
<1> QED BY <1>3, <1>4, <1>10, <1>11, <1>12, <1>14 DEF ds

(* A child that is killed takes and sends nothing more. *)
LEMMA FamilyKilled ==
  ASSUME NEW ch, NEW fb, NEW cs, Family(ch, fb, cs), NEW p \in DOMAIN cs
  PROVE  /\ Family(ch, fb, [cs EXCEPT ![p] = Terminated(@)])
         /\ Len([cs EXCEPT ![p] = Terminated(@)]) = Len(cs)
         /\ ~ [cs EXCEPT ![p] = Terminated(@)][p].alive
         /\ \A q \in DOMAIN cs : q # p => [cs EXCEPT ![p] = Terminated(@)][q] = cs[q]
<1> DEFINE c == cs[p]
           e == Terminated(c)
<1>1. c \in Child /\ SoundChild(ch, fb, c) /\ cs \in Seq(Child)
  BY DEF Family
<1>2. c.inbox \in Seq(Message) /\ c.outbox \in Seq(Response)
  BY <1>1, ChildFields
<1>3. /\ e \in Child /\ ~ e.alive /\ e.inbox = << >>
      /\ e.outbox = c.outbox /\ e.version = c.version /\ e.pending = c.pending
  <2> DEFINE B == Seq(Message)
             D == Seq(Response)
  <2>1. << >> \in B
    OBVIOUS
  <2>2. Child = [alive : BOOLEAN, noticed : BOOLEAN, version : 0 .. MaxVersion,
                 rows : [Rows -> Values], pending : SUBSET Batches, failed : BOOLEAN,
                 init : {NoInit}, inbox : B, outbox : D]
    BY DEF Child
  <2> HIDE DEF B, D, c
  <2> QED BY <1>1, <2>1, <2>2 DEF Terminated
<1>4. SoundChild(ch, fb, e)
  BY <1>1, <1>3 DEF SoundChild, SoundTable
<1>5. Fewer(c, e)
  <2> DEFINE a == Len(c.outbox)
             b == Len(c.inbox)
  <2>1. a \in Nat /\ b \in Nat /\ Width(c) = a + b
    BY <1>2 DEF Width
  <2>2. Width(e) = a
    <3>1. Width(e) = a + Len(<< >>) /\ Len(<< >>) = 0
      BY <1>3 DEF Width
    <3> HIDE DEF a
    <3> QED BY <2>1, <3>1
  <2>3. \A i \in 1 .. a : Owner(e, i) = Owner(c, i)
    <3>1. \A i \in 1 .. a : i <= a
      BY <2>1
    <3> QED BY <1>3, <3>1 DEF Owner
  <2> HIDE DEF a, b, c, e
  <2> QED BY <2>1, <2>2, <2>3, FewerFirst
<1> HIDE DEF e
<1>6. Family(ch, fb, [cs EXCEPT ![p] = e])
  BY <1>1, <1>3, <1>4, <1>5, FamilyOne
<1>7. /\ Len([cs EXCEPT ![p] = e]) = Len(cs) /\ [cs EXCEPT ![p] = e][p] = e
      /\ \A q \in DOMAIN cs : q # p => [cs EXCEPT ![p] = e][q] = cs[q]
  BY <1>1, <1>3
<1> QED BY <1>3, <1>6, <1>7 DEF e

(* What is said of children that are not heard of any more. *)
Disown(c) ==
  [c EXCEPT !.outbox = << >>, !.inbox = [i \in DOMAIN @ |-> [@[i] EXCEPT !.from = Nobody]]]

Unaddressed(s) == [i \in DOMAIN s |-> [s[i] EXCEPT !.from = Nobody]]

Dead == [NewChild EXCEPT !.alive = FALSE, !.noticed = TRUE]

(* A child that has died and been noticed is as good as none. *)
LEMMA DeadSound ==
  ASSUME NEW ch \in Seq(Rows), NEW fb
  PROVE  /\ Dead \in Child /\ SoundChild(ch, fb, Dead) /\ ~ Dead.alive
         /\ \A i \in 1 .. Width(Dead) : Owner(Dead, i) = Nobody
<1> DEFINE B == Seq(Message)
           D == Seq(Response)
           e == Dead
<1>1. << >> \in B /\ << >> \in D
  OBVIOUS
<1>2. NoRows \in [Rows -> Values] /\ 0 \in 0 .. MaxVersion
  BY SnapshotFenceConstants DEF NoRows, Values
<1>3. Child = [alive : BOOLEAN, noticed : BOOLEAN, version : 0 .. MaxVersion,
               rows : [Rows -> Values], pending : SUBSET Batches, failed : BOOLEAN,
               init : {NoInit}, inbox : B, outbox : D]
  BY DEF Child
<1> HIDE DEF B, D
<1>4. /\ NewChild \in Child
      /\ NewChild.version = 0 /\ NewChild.pending = {}
      /\ NewChild.inbox = << >> /\ NewChild.outbox = << >>
  BY <1>1, <1>2, <1>3 DEF NewChild
<1>5. e \in Child /\ ~ e.alive /\ e.version = 0 /\ e.pending = {} /\ e.inbox = << >> /\ e.outbox = << >>
  BY <1>3, <1>4 DEF Dead
<1> HIDE DEF e
<1>6. DOMAIN << >> = {} /\ Len(<< >>) = 0 /\ 0 <= Len(ch)
  OBVIOUS
<1>7. SoundChild(ch, fb, e)
  BY <1>5, <1>6 DEF SoundChild, SoundTable
<1>8. Width(e) = 0
  BY <1>5, <1>6 DEF Width
<1> QED BY <1>5, <1>7, <1>8 DEF e

(* Nobody awaits what is left to a child, and it goes on all the same. *)
LEMMA DisownSound ==
  ASSUME NEW ch, NEW fb, NEW c \in Child, SoundChild(ch, fb, c)
  PROVE  /\ Disown(c) \in Child /\ Disown(c).alive = c.alive
         /\ \A gb : SoundChild(ch, gb, Disown(c))
         /\ \A i \in 1 .. Width(Disown(c)) : Owner(Disown(c), i) = Nobody
         /\ \A v \in Nat : Covered(v, c) => Covered(v, Disown(c))
<1> DEFINE s == c.inbox
           in == Unaddressed(s)
           e == Disown(c)
<1>1. s \in Seq(Message)
  BY ChildFields
<1>2. /\ DOMAIN in = DOMAIN s
      /\ \A i \in DOMAIN s : in[i] = [s[i] EXCEPT !.from = Nobody]
  BY DEF Unaddressed
<1>3. ASSUME NEW i \in DOMAIN s
      PROVE  /\ in[i] \in Message /\ in[i].from = Nobody /\ in[i].type = s[i].type
             /\ in[i].version = s[i].version /\ in[i].rows = s[i].rows
  <2>1. s[i] \in Message
    BY <1>1
  <2> DEFINE m == s[i]
  <2> HIDE DEF m, s, in
  <2>2. m \in Message => /\ [m EXCEPT !.from = Nobody] \in Message
                         /\ [m EXCEPT !.from = Nobody].from = Nobody
                         /\ [m EXCEPT !.from = Nobody].type = m.type
                         /\ [m EXCEPT !.from = Nobody].version = m.version
                         /\ [m EXCEPT !.from = Nobody].rows = m.rows
    BY DEF Message
  <2>3. in[i] = [m EXCEPT !.from = Nobody]
    BY <1>2 DEF m
  <2> QED BY <2>1, <2>2, <2>3 DEF m
<1>4. in \in Seq(Message) /\ Len(in) = Len(s)
  <2>1. Len(s) \in Nat /\ DOMAIN s = 1 .. Len(s)
    BY <1>1
  <2>2. in = [i \in 1 .. Len(s) |-> in[i]] /\ \A i \in 1 .. Len(s) : in[i] \in Message
    <3>1. in = [i \in DOMAIN s |-> [s[i] EXCEPT !.from = Nobody]]
      BY DEF Unaddressed
    <3>2. in = [i \in DOMAIN s |-> in[i]]
      BY <3>1
    <3> HIDE DEF in
    <3> QED BY <1>3, <2>1, <3>2
  <2> HIDE DEF in, s
  <2>3. in \in [1 .. Len(s) -> Message]
    BY <2>2
  <2> QED BY <2>1, <2>3
<1>5. e = Reboxed(c, in, << >>) /\ e \in Child
  <2>1. << >> \in Seq(Response)
    OBVIOUS
  <2>2. e = OutIn(c, in, << >>)
    BY DEF Disown, OutIn, Unaddressed
  <2> HIDE DEF in, s, e
  <2> QED BY <1>4, <2>1, <2>2, ReboxedChild
<1>6. /\ e.alive = c.alive /\ e.version = c.version /\ e.pending = c.pending /\ e.rows = c.rows
      /\ e.inbox = in /\ e.outbox = << >>
  <2> HIDE DEF e, in
  <2> QED BY <1>5 DEF Reboxed
<1> HIDE DEF e, in
<1>7. SoundTable(ch, c) /\ \A i \in DOMAIN s : SoundMessage(ch, fb, s[i])
  BY DEF SoundChild
<1>8. DOMAIN << >> = {} /\ Len(<< >>) = 0
  OBVIOUS
<1>9. SoundTable(ch, e)
  <2>1. s # << >> <=> in # << >>
    <3> HIDE DEF s
    <3> QED BY <1>1, <1>4
  <2>2. \A i \in DOMAIN in : in[i].type = "init" => i = 1 /\ Blank(c)
    BY <1>2, <1>3, <1>7 DEF SoundTable
  <2>3. s # << >> => in[1].type = s[1].type
    <3>1. s # << >> => 1 \in DOMAIN s
      <4> HIDE DEF s
      <4> QED BY <1>1
    <3> QED BY <1>3, <3>1
  <2>4. c.alive => \/ in # << >> /\ in[1].type = "init"
                   \/ c.rows = RowsOf(ch, c.version)
    BY <1>7, <2>1, <2>3 DEF SoundTable
  <2>5. ~ c.alive => in = << >>
    BY <1>7, <2>1 DEF SoundTable
  <2>6. c.version <= Len(ch) /\ \A u \in c.pending : u <= Len(ch)
    BY <1>7 DEF SoundTable
  <2> HIDE DEF s
  <2> QED BY <1>6, <2>2, <2>4, <2>5, <2>6 DEF SoundTable, Blank
<1>10. ASSUME NEW gb PROVE SoundChild(ch, gb, e)
  <2>1. \A i \in DOMAIN in : SoundMessage(ch, gb, in[i])
    BY <1>2, <1>3, <1>7, FibersDiffer DEF SoundMessage, Fibers
  <2> QED BY <1>6, <1>8, <1>9, <2>1 DEF SoundChild
<1>11. ASSUME NEW i \in 1 .. Width(e) PROVE Owner(e, i) = Nobody
  <2>1. Len(in) \in Nat /\ DOMAIN in = 1 .. Len(in)
    BY <1>4
  <2>2. Width(e) = Len(in)
    BY <1>6, <1>8, <2>1 DEF Width
  <2>3. Owner(e, i) = IF i <= 0 THEN e.outbox[i].from ELSE in[i - 0].from
    BY <1>6, <1>8 DEF Owner
  <2>4. ~ (i <= 0) /\ i - 0 = i /\ i \in DOMAIN in
    BY <2>1, <2>2
  <2> QED BY <1>2, <1>3, <2>3, <2>4
<1>12. \A v \in Nat : Covered(v, c) => Covered(v, e)
  <2>1. ASSUME NEW u, OnItsWay(c, u) PROVE OnItsWay(e, u)
    <3>1. PICK i \in DOMAIN s : Brings(s[i], u)
      BY <2>1 DEF OnItsWay
    <3>2. Brings(in[i], u)
      BY <1>3, <3>1 DEF Brings
    <3> QED BY <1>2, <1>6, <3>2 DEF OnItsWay
  <2> QED BY <1>6, <2>1 DEF Covered, Has
<1> QED BY <1>5, <1>6, <1>10, <1>11, <1>12 DEF e

(* The children once the exit of p is noticed and every request has failed. *)
Disowning(cs, p) == [k \in DOMAIN cs |-> IF k = p THEN Dead ELSE Disown(cs[k])]

(* The children stay sound, and none has anything for anybody. *)
LEMMA FamilyDisowned ==
  ASSUME NEW ch \in Seq(Rows), NEW fb, NEW gb, NEW cs, Family(ch, fb, cs), NEW p \in DOMAIN cs
  PROVE  /\ Family(ch, gb, Disowning(cs, p)) /\ Len(Disowning(cs, p)) = Len(cs)
         /\ ~ Disowning(cs, p)[p].alive
         /\ \A q \in DOMAIN cs : ~ cs[q].alive => ~ Disowning(cs, p)[q].alive
         /\ \A q \in DOMAIN cs, v \in Nat : Covered(v, cs[q]) => Covered(v, Disowning(cs, p)[q])
<1> DEFINE ds == Disowning(cs, p)
<1>1. cs \in Seq(Child) /\ cs # << >> /\ \A q \in DOMAIN cs : cs[q] \in Child /\ SoundChild(ch, fb, cs[q])
  BY DEF Family
<1>2. Len(cs) \in Nat /\ DOMAIN cs = 1 .. Len(cs)
  BY <1>1
<1>3. DOMAIN ds = DOMAIN cs /\ \A q \in DOMAIN cs : ds[q] = IF q = p THEN Dead ELSE Disown(cs[q])
  BY DEF Disowning
<1>4. ds = [q \in DOMAIN cs |-> ds[q]]
  BY DEF Disowning
<1> HIDE DEF ds
<1>5. ASSUME NEW q \in DOMAIN cs
      PROVE  /\ ds[q] \in Child /\ SoundChild(ch, gb, ds[q])
             /\ \A i \in 1 .. Width(ds[q]) : Owner(ds[q], i) = Nobody
             /\ (~ cs[q].alive => ~ ds[q].alive)
             /\ \A v \in Nat : Covered(v, cs[q]) => Covered(v, ds[q])
  <2>1. CASE q = p
    BY <1>3, <2>1, DeadSound DEF Covered
  <2>2. CASE q # p
    <3> DEFINE c == cs[q]
    <3>1. c \in Child /\ SoundChild(ch, fb, c) /\ ds[q] = Disown(c)
      BY <1>1, <1>3, <2>2
    <3> HIDE DEF c
    <3>2. /\ Disown(c) \in Child /\ Disown(c).alive = c.alive
          /\ SoundChild(ch, gb, Disown(c))
          /\ \A i \in 1 .. Width(Disown(c)) : Owner(Disown(c), i) = Nobody
          /\ \A v \in Nat : Covered(v, c) => Covered(v, Disown(c))
      BY <3>1, DisownSound
    <3> QED BY <3>1, <3>2 DEF c
  <2> QED BY <2>1, <2>2
<1>6. ds \in Seq(Child) /\ Len(ds) = Len(cs) /\ ds # << >>
  <2>1. ds \in [1 .. Len(cs) -> Child]
    BY <1>2, <1>3, <1>4, <1>5
  <2>2. cs # << >> => Len(cs) # 0
    BY <1>1
  <2> QED BY <1>1, <1>2, <2>1, <2>2
<1>7. Alone(ds)
  BY <1>3, <1>5 DEF Alone
<1>8. Family(ch, gb, ds)
  BY <1>3, <1>5, <1>6, <1>7 DEF Family
<1>9. ~ ds[p].alive
  BY <1>3, DeadSound
<1> QED BY <1>5, <1>6, <1>8, <1>9 DEF ds

(* A request joins what is on its way to a living child. *)
Sending(cs, p, m) == [cs EXCEPT ![p].inbox = Append(@, m)]

(* The children stay sound when a fiber that waits for nothing else sends to one. *)
LEMMA FamilySent ==
  ASSUME NEW ch \in Seq(Rows), NEW fb, NEW cs, Family(ch, fb, cs), NEW p \in DOMAIN cs,
         cs[p].alive, NEW m \in Message, m.type # "init", SoundMessage(ch, fb, m), Free(cs, m.from)
  PROVE  /\ Family(ch, fb, Sending(cs, p, m)) /\ Len(Sending(cs, p, m)) = Len(cs)
         /\ \A q \in DOMAIN cs : Sending(cs, p, m)[q].alive = cs[q].alive
         /\ \A q \in DOMAIN cs, v \in Nat : Covered(v, cs[q]) => Covered(v, Sending(cs, p, m)[q])
         /\ \A u : Brings(m, u) => OnItsWay(Sending(cs, p, m)[p], u)
<1> DEFINE c == cs[p]
           s == c.inbox
           t == Append(s, m)
           e == In(c, t)
           ds == Sending(cs, p, m)
           a == Len(c.outbox)
           b == Len(s)
<1>1. c \in Child /\ SoundChild(ch, fb, c) /\ cs \in Seq(Child) /\ Alone(cs) /\ cs # << >>
  BY DEF Family
<1>2. s \in Seq(Message) /\ c.outbox \in Seq(Response)
  BY <1>1, ChildFields
<1>3. /\ t \in Seq(Message) /\ t # << >> /\ Len(t) = Len(s) + 1
      /\ DOMAIN t = DOMAIN s \cup {Len(s) + 1}
      /\ \A i \in DOMAIN s : i # Len(s) + 1 /\ t[i] = s[i]
      /\ t[Len(s) + 1] = m
  <2> HIDE DEF s
  <2> QED BY <1>2, AppendIs
<1>4. ds = [cs EXCEPT ![p] = e]
  BY DEF Sending, In
<1>5. e \in Child /\ e = Reboxed(c, t, c.outbox)
  <2> HIDE DEF t
  <2> QED BY <1>1, <1>2, <1>3, ReboxedChild
<1> HIDE DEF e
<1>6. /\ e.alive = c.alive /\ e.version = c.version /\ e.pending = c.pending /\ e.rows = c.rows
      /\ e.inbox = t /\ e.outbox = c.outbox
  BY <1>5 DEF Reboxed
<1>7. DOMAIN ds = DOMAIN cs /\ Len(ds) = Len(cs) /\ \A q \in DOMAIN cs : ds[q] = IF q = p THEN e ELSE cs[q]
  BY <1>1, <1>4, <1>5
<1>8. ds \in Seq(Child) /\ ds # << >>
  BY <1>1, <1>4, <1>5
<1>9. SoundChild(ch, fb, e)
  <2>1. SoundTable(ch, c)
    BY <1>1 DEF SoundChild
  <2> HIDE DEF t
  <2>2. \A i \in DOMAIN t : t[i].type = "init" => i = 1 /\ Blank(c)
    BY <1>3, <2>1 DEF SoundTable
  <2>3. s # << >> => t[1] = s[1]
    <3>1. s # << >> => 1 \in DOMAIN s
      <4> HIDE DEF s
      <4> QED BY <1>2
    <3> QED BY <1>3, <3>1
  <2>4. SoundTable(ch, e)
    BY <1>3, <1>6, <2>1, <2>2, <2>3 DEF SoundTable, Blank
  <2>5. \A i \in DOMAIN t : SoundMessage(ch, fb, t[i])
    BY <1>1, <1>3 DEF SoundChild
  <2> QED BY <1>1, <1>6, <2>4, <2>5 DEF SoundChild
<1>10. Alone(ds)
  <2> DEFINE F == Froms(c.outbox)
             G == Froms(s)
             K == Froms(t)
             f == m.from
  <2>1. Laid(c, a, b, F, G)
    BY <1>1, ChildLaid
  <2>2. Laid(e, Len(e.outbox), Len(e.inbox), Froms(e.outbox), Froms(e.inbox))
    BY <1>5, ChildLaid
  <2>3. Laid(e, a, b + 1, F, K)
    BY <1>3, <1>6, <2>2
  <2>4. Added(b, G, K, f)
    <3> HIDE DEF s
    <3>1. K[b + 1] = f /\ \A i \in 1 .. b : K[i] = G[i]
      BY <1>2, FromsMove
    <3> HIDE DEF b, G, K, f
    <3> QED BY <3>1 DEF Added
  <2>5. ds[p] = e /\ Differ(cs, ds, p)
    BY <1>7 DEF Differ
  <2>6. Free(cs, f)
    OBVIOUS
  <2> HIDE DEF a, b, F, G, K, f, ds
  <2>7. Laid(cs[p], a, b, F, G) /\ Laid(ds[p], a, b + 1, F, K)
    BY <2>1, <2>3, <2>5
  <2> QED BY <1>1, <1>7, <2>4, <2>5, <2>6, <2>7, AloneSent
<1> HIDE DEF ds, t
<1>11. Family(ch, fb, ds)
  BY <1>7, <1>8, <1>9, <1>10 DEF Family
<1>12. ASSUME NEW u, OnItsWay(c, u) PROVE OnItsWay(e, u)
  BY <1>3, <1>6, <1>12 DEF OnItsWay
<1>13. \A v \in Nat : Covered(v, c) => Covered(v, e)
  BY <1>6, <1>12 DEF Covered, Has
<1>14. \A u : Brings(m, u) => OnItsWay(e, u)
  BY <1>3, <1>6 DEF OnItsWay
<1>15. \A q \in DOMAIN cs : /\ ds[q].alive = cs[q].alive
                            /\ \A v \in Nat : Covered(v, cs[q]) => Covered(v, ds[q])
  BY <1>6, <1>7, <1>13
<1> QED BY <1>7, <1>11, <1>14, <1>15 DEF ds

(* A child that is started with an init. *)
Started(m) == [NewChild EXCEPT !.inbox = << m >>]

(* The children stay sound when one joins them that has been sent the rows. *)
LEMMA FamilyGrown ==
  ASSUME NEW ch \in Seq(Rows), NEW fb, NEW cs, Family(ch, fb, cs), NEW m \in Message,
         m.type = "init", m.from # Nobody, SoundMessage(ch, fb, m), Free(cs, m.from)
  PROVE  /\ Family(ch, fb, Append(cs, Started(m)))
         /\ Len(Append(cs, Started(m))) = Len(cs) + 1
         /\ Append(cs, Started(m))[Len(cs) + 1] = Started(m)
         /\ Covered(m.version, Started(m))
<1> DEFINE B == Seq(Message)
           D == Seq(Response)
           t == << m >>
           e == Started(m)
           n == Len(cs) + 1
           ds == Append(cs, e)
<1>1. cs \in Seq(Child) /\ Alone(cs) /\ \A q \in DOMAIN cs : SoundChild(ch, fb, cs[q])
  BY DEF Family
<1>2. t \in B /\ << >> \in B /\ << >> \in D /\ t # << >> /\ DOMAIN t = {1} /\ t[1] = m /\ Len(t) = 1
  OBVIOUS
<1>3. NoRows \in [Rows -> Values] /\ 0 \in 0 .. MaxVersion
  BY SnapshotFenceConstants DEF NoRows, Values
<1>4. Child = [alive : BOOLEAN, noticed : BOOLEAN, version : 0 .. MaxVersion,
               rows : [Rows -> Values], pending : SUBSET Batches, failed : BOOLEAN,
               init : {NoInit}, inbox : B, outbox : D]
  BY DEF Child
<1> HIDE DEF B, D, t
<1>5. /\ NewChild \in Child
      /\ NewChild.alive /\ NewChild.version = 0 /\ NewChild.pending = {} /\ NewChild.outbox = << >>
  BY <1>2, <1>3, <1>4 DEF NewChild
<1>6. e = [NewChild EXCEPT !.inbox = t]
  BY DEF Started, t
<1> HIDE DEF e
<1>7. /\ e \in Child /\ e.alive /\ e.version = 0 /\ e.pending = {} /\ e.inbox = t /\ e.outbox = << >>
  BY <1>2, <1>4, <1>5, <1>6
<1>8. 0 <= Len(ch) /\ DOMAIN << >> = {} /\ Len(<< >>) = 0
  OBVIOUS
<1>9. SoundChild(ch, fb, e)
  <2>1. SoundTable(ch, e)
    BY <1>2, <1>7, <1>8 DEF SoundTable, Blank
  <2> QED BY <1>2, <1>7, <1>8, <2>1 DEF SoundChild
<1>10. Width(e) = 1 /\ Owner(e, 1) = m.from
  BY <1>2, <1>7, <1>8 DEF Width, Owner
<1>11. /\ ds \in Seq(Child) /\ ds # << >> /\ Len(ds) = n /\ DOMAIN ds = DOMAIN cs \cup {n}
       /\ ds[n] = e /\ \A q \in DOMAIN cs : q # n /\ ds[q] = cs[q]
  BY <1>1, <1>7, AppendIs
<1> HIDE DEF ds, n
<1>12. \A q \in DOMAIN ds : SoundChild(ch, fb, ds[q])
  BY <1>1, <1>9, <1>11
<1>13. Alone(ds)
  <2> SUFFICES ASSUME NEW q \in DOMAIN ds, NEW r \in DOMAIN ds,
                      NEW i \in 1 .. Width(ds[q]), NEW j \in 1 .. Width(ds[r]),
                      Owner(ds[q], i) = Owner(ds[r], j), Owner(ds[q], i) # Nobody
               PROVE  q = r /\ i = j
    BY DEF Alone
  <2>1. CASE q = n /\ r = n
    BY <1>10, <1>11, <2>1
  <2>2. CASE q = n /\ r \in DOMAIN cs
    BY <1>10, <1>11, <2>2 DEF Free
  <2>3. CASE q \in DOMAIN cs /\ r = n
    BY <1>10, <1>11, <2>3 DEF Free
  <2>4. CASE q \in DOMAIN cs /\ r \in DOMAIN cs
    BY <1>1, <1>11, <2>4 DEF Alone
  <2> QED BY <1>11, <2>1, <2>2, <2>3, <2>4
<1>14. Family(ch, fb, ds)
  BY <1>11, <1>12, <1>13 DEF Family
<1>15. Covered(m.version, e)
  <2>1. \A u \in 1 .. m.version : Brings(m, u)
    <3>1. m.version \in 0 .. MaxVersion
      BY MessageFields
    <3> QED BY <3>1, SnapshotFenceConstants DEF Brings
  <2> QED BY <1>2, <1>7, <2>1 DEF Covered, OnItsWay
<1> QED BY <1>11, <1>14, <1>15 DEF ds, n, e

-----------------------------------------------------------------------------
(* What the fibers and the answers do *)

Places == {"idle", "forked", "respawn", "init", "request"}

Copies == [rows : [Rows -> Values], version : 0 .. MaxVersion]

AnswerType == [rows : [Rows -> Values], target : 0 .. MaxVersion]

Placed(s, place) == [s EXCEPT !.at = place]

Asks(s, v) == [s EXCEPT !.at = "forked", !.target = v]

Sends(s, c) == [s EXCEPT !.at = "init", !.copy = c]

(* The fields of a fiber's state, and the states it may be put in. *)
LEMMA FiberFields ==
  /\ \A s \in FiberState : s.at \in Places /\ s.target \in 0 .. MaxVersion /\ s.copy \in Copies
  /\ Idle \in FiberState /\ Idle.at = "idle" /\ Idle.target = 0
<1>1. FiberState = [at : Places, target : 0 .. MaxVersion, copy : Copies, chunk : {0}]
  BY DEF FiberState, Places, Copies
<1>2. [rows |-> NoRows, version |-> 0] \in Copies /\ 0 \in 0 .. MaxVersion /\ "idle" \in Places
  BY SnapshotFenceConstants DEF Copies, NoRows, Values, Places
<1>3. \A s \in FiberState : s.at \in Places /\ s.target \in 0 .. MaxVersion /\ s.copy \in Copies
  BY <1>1
<1>4. Idle \in FiberState /\ Idle.at = "idle" /\ Idle.target = 0
  BY <1>1, <1>2 DEF Idle
<1> QED BY <1>3, <1>4

(* A fiber that goes on, that asks for a version, that sends a copy. *)
LEMMA FiberGoesOn ==
  ASSUME NEW s \in FiberState, NEW place \in Places, NEW v \in 0 .. MaxVersion, NEW c \in Copies
  PROVE  /\ Placed(s, place) \in FiberState
         /\ Placed(s, place).at = place /\ Placed(s, place).target = s.target
         /\ Asks(s, v) \in FiberState /\ Asks(s, v).at = "forked" /\ Asks(s, v).target = v
         /\ Sends(s, c) \in FiberState /\ Sends(s, c).at = "init" /\ Sends(s, c).target = s.target
<1>1. FiberState = [at : Places, target : 0 .. MaxVersion, copy : Copies, chunk : {0}]
  BY DEF FiberState, Places, Copies
<1>2. "forked" \in Places /\ "init" \in Places
  BY DEF Places
<1>3. /\ Placed(s, place) \in FiberState
      /\ Placed(s, place).at = place /\ Placed(s, place).target = s.target
  BY <1>1 DEF Placed
<1>4. Asks(s, v) \in FiberState /\ Asks(s, v).at = "forked" /\ Asks(s, v).target = v
  BY <1>1, <1>2 DEF Asks
<1>5. Sends(s, c) \in FiberState /\ Sends(s, c).at = "init" /\ Sends(s, c).target = s.target
  BY <1>1, <1>2 DEF Sends
<1> QED BY <1>3, <1>4, <1>5

(* One fiber's state changes, and keeps or drops what it asks for. *)
Moves(fb, gb, f) ==
  /\ fb \in [Fibers -> FiberState] /\ gb \in [Fibers -> FiberState]
  /\ \A g \in Fibers : g # f => gb[g] = fb[g]

(* A fiber put into another state. *)
LEMMA MovesTo ==
  ASSUME NEW fb \in [Fibers -> FiberState], NEW f \in Fibers, NEW s \in FiberState
  PROVE  Moves(fb, [fb EXCEPT ![f] = s], f) /\ [fb EXCEPT ![f] = s][f] = s
BY DEF Moves

(* What a fiber is asked of its type, and what it says of the version. *)
LEMMA OwnRequestIs ==
  ASSUME NEW ch \in Seq(Rows), NEW f \in Fibers, f \in Batches => f <= Len(ch),
         NEW gb, gb[f].at = "request"
  PROVE  /\ OwnRequest(f) \in Message /\ OwnRequest(f).type # "init" /\ OwnRequest(f).from = f
         /\ SoundMessage(ch, gb, OwnRequest(f)) /\ (f \in Batches => Brings(OwnRequest(f), f))
<1> USE SnapshotFenceConstants, FibersDiffer
<1>1. Len(ch) \in Nat /\ f # Nobody
  OBVIOUS
<1>2. CASE f \in Batches
  <2> DEFINE m == [type |-> "apply", from |-> f, version |-> f, rows |-> {}]
  <2>1. OwnRequest(f) = m /\ f \in 0 .. MaxVersion /\ f \notin Readers
    BY <1>2 DEF OwnRequest, Request, Batches
  <2>2. m \in Message /\ m.type = "apply" /\ m.from = f /\ m.version = f
    BY <2>1 DEF Message
  <2> HIDE DEF m
  <2> QED BY <1>2, <2>1, <2>2 DEF SoundMessage, Brings
<1>3. CASE f \notin Batches
  <2> DEFINE m == [type |-> "query", from |-> f, version |-> 0, rows |-> {}]
  <2>1. OwnRequest(f) = m
    BY <1>3 DEF OwnRequest, Request
  <2>2. m \in Message /\ m.type = "query" /\ m.from = f /\ m.version = 0
    BY DEF Message
  <2> HIDE DEF m
  <2> QED BY <1>1, <1>3, <2>1, <2>2 DEF SoundMessage
<1> QED BY <1>2, <1>3

(* The store's rows are those that a query asked for. *)
LEMMA FromMemoryExact ==
  ASSUME changed \in Seq(Rows), Version <= MaxVersion, answer \in AnswerType, Exact(changed, answer),
         NEW F, FromMemory(F), \A q \in F \cap Queries : fiber[q].target = Len(changed)
  PROVE  answer' \in AnswerType /\ Exact(changed, answer')
<1>1. CASE \E q \in F \cap Queries : TRUE
  <2> DEFINE q == CHOOSE g \in F \cap Queries : TRUE
             rows == RowsOf(changed, Len(changed))
  <2>1. q \in F \cap Queries
    BY <1>1
  <2>2. answer' = [rows |-> RowsAt(Version), target |-> fiber[q].target]
    BY <1>1, Zenon DEF FromMemory
  <2> HIDE DEF q
  <2>3. answer' = [rows |-> rows, target |-> Len(changed)]
    BY <2>1, <2>2, RowsAtAre DEF Version
  <2>4. Len(changed) \in 0 .. MaxVersion
    BY DEF Version
  <2>5. rows \in [Rows -> Values]
    BY <2>4, RowsOfType
  <2> DEFINE v == Len(changed)
  <2> HIDE DEF rows, v
  <2>6. answer' \in AnswerType /\ answer'.rows = rows /\ answer'.target = v
    BY <2>3, <2>4, <2>5 DEF AnswerType, v
  <2> QED BY <2>4, <2>6 DEF Exact, v, rows
<1>2. CASE ~ (\E q \in F \cap Queries : TRUE)
  BY <1>2, Zenon DEF FromMemory
<1> QED BY <1>1, <1>2

(* A fiber sends its own request, or finds that it cannot. *)
LEMMA OwnRequestSent ==
  ASSUME changed \in Seq(Rows), Version <= MaxVersion, fiber \in [Fibers -> FiberState],
         answer \in AnswerType, Exact(changed, answer), Asked(changed, fiber),
         NEW cs, Family(changed, fiber, cs), worker \in DOMAIN cs,
         NEW f \in Fibers, f \in Batches => f <= Len(changed), fiber[f].at # "idle", Free(cs, f),
         Send(cs, f, OwnRequest(f), Asking(f))
  PROVE  /\ Family(changed, fiber', children') /\ Len(children') = Len(cs)
         /\ Moves(fiber, fiber', f)
         /\ \/ fiber'[f].at = "request" /\ fiber'[f].target = fiber[f].target
            \/ fiber'[f] = Idle
         /\ answer' \in AnswerType /\ Exact(changed, answer')
         /\ children'[worker].alive = cs[worker].alive
         /\ \A v \in Nat : Covered(v, cs[worker]) => Covered(v, children'[worker])
         /\ f \in Batches /\ children'[worker].alive => OnItsWay(children'[worker], f)
<1> DEFINE m == OwnRequest(f)
<1>1. Asking(f) = [Idle EXCEPT !.at = "request", !.target = fiber[f].target]
  BY DEF Asking
<1>2. Asking(f) \in FiberState /\ Asking(f).at = "request" /\ Asking(f).target = fiber[f].target
  <2> DEFINE v == fiber[f].target
  <2>1. v \in 0 .. MaxVersion /\ Idle \in FiberState
    BY FiberFields
  <2> HIDE DEF v
  <2>2. /\ [Idle EXCEPT !.at = "request", !.target = v] \in FiberState
        /\ [Idle EXCEPT !.at = "request", !.target = v].at = "request"
        /\ [Idle EXCEPT !.at = "request", !.target = v].target = v
    BY <2>1 DEF FiberState
  <2> QED BY <1>1, <2>2 DEF v
<1>3. Idle \in FiberState /\ f # Nobody
  BY FiberFields, FibersDiffer
<1>4. CASE /\ ~ cs[worker].noticed
           /\ children' = IF cs[worker].alive
                            THEN [cs EXCEPT ![worker].inbox = Append(@, m)] ELSE cs
           /\ fiber' = [fiber EXCEPT ![f] = Asking(f)]
           /\ UNCHANGED answer
  <2> DEFINE s == Asking(f)
             gb == [fiber EXCEPT ![f] = s]
  <2>1. gb = fiber' /\ s \in FiberState
    BY <1>2, <1>4
  <2>2. Moves(fiber, gb, f) /\ gb[f] = s
    <3> HIDE DEF s
    <3> QED BY <2>1, MovesTo
  <2> HIDE DEF gb, s
  <2>3. SamePlaces(cs, fiber, gb)
    BY <2>2 DEF Moves, SamePlaces
  <2>4. Family(changed, gb, cs)
    BY <2>3, FamilyMoves
  <2>5. gb[f].at = "request" /\ gb[f].target = fiber[f].target
    BY <1>2, <2>2 DEF s
  <2>6. /\ m \in Message /\ m.type # "init" /\ m.from = f
        /\ SoundMessage(changed, gb, m) /\ (f \in Batches => Brings(m, f))
    BY <2>5, OwnRequestIs
  <2> HIDE DEF m
  <2>7. CASE cs[worker].alive
    <3> DEFINE ds == Sending(cs, worker, m)
    <3>1. children' = ds
      BY <1>4, <2>7 DEF Sending
    <3>2. /\ Family(changed, gb, ds) /\ Len(ds) = Len(cs)
          /\ \A q \in DOMAIN cs : ds[q].alive = cs[q].alive
          /\ \A q \in DOMAIN cs, v \in Nat : Covered(v, cs[q]) => Covered(v, ds[q])
          /\ \A u : Brings(m, u) => OnItsWay(ds[worker], u)
      <4>1. Free(cs, m.from)
        BY <2>6
      <4> QED BY <2>4, <2>6, <2>7, <4>1, FamilySent
    <3> HIDE DEF ds
    <3> QED BY <1>4, <2>1, <2>2, <2>5, <2>6, <3>1, <3>2
  <2>8. CASE ~ cs[worker].alive
    BY <1>4, <2>1, <2>2, <2>4, <2>5, <2>8
  <2> QED BY <2>7, <2>8
<1>5. CASE /\ ~ cs[worker].alive
           /\ children' = cs
           /\ fiber' = [fiber EXCEPT ![f] = Idle]
           /\ FromMemory({f})
  <2>1. Moves(fiber, fiber', f) /\ fiber'[f] = Idle
    BY <1>3, <1>5, MovesTo
  <2> DEFINE gb == fiber'
  <2> HIDE DEF gb
  <2>2. SamePlaces(cs, fiber, gb)
    BY <2>1 DEF Moves, SamePlaces, gb
  <2>3. Family(changed, gb, cs)
    BY <2>2, FamilyMoves
  <2>4. \A q \in {f} \cap Queries : fiber[q].target = Len(changed)
    BY DEF Asked
  <2>5. answer' \in AnswerType /\ Exact(changed, answer')
    BY <1>5, <2>4, FromMemoryExact
  <2> QED BY <1>5, <2>1, <2>3, <2>5 DEF gb
<1> QED BY <1>4, <1>5, Zenon DEF Send

-----------------------------------------------------------------------------
(* The inductive invariant, an action at a time *)

(* What the invariant says of the types and of the worker. *)
LEMMA Facts ==
  ASSUME IInv
  PROVE  /\ changed \in Seq(Rows) /\ Version <= MaxVersion
         /\ Len(changed) \in Nat /\ Len(changed) = Version /\ Len(changed) \in 0 .. MaxVersion
         /\ mirror \in Copies /\ mirror.version \in 0 .. MaxVersion /\ mirror.rows \in [Rows -> Values]
         /\ fiber \in [Fibers -> FiberState]
         /\ answer \in AnswerType
         /\ children \in Seq(Child) /\ children # << >>
         /\ worker \in DOMAIN children /\ worker = Len(children)
<1> USE SnapshotFenceConstants
<1>1. /\ changed \in Seq(Rows) /\ Version <= MaxVersion /\ fiber \in [Fibers -> FiberState]
      /\ mirror \in Copies /\ answer \in AnswerType /\ worker = Len(children)
  BY DEF IInv, Types, Copies, AnswerType
<1>2. mirror.version \in 0 .. MaxVersion /\ mirror.rows \in [Rows -> Values]
  BY <1>1 DEF Copies
<1>3. children \in Seq(Child) /\ children # << >>
  BY DEF IInv, Family
<1>4. Len(children) \in DOMAIN children
  BY <1>3
<1>5. Len(changed) \in Nat /\ Len(changed) = Version /\ Len(changed) \in 0 .. MaxVersion
  BY <1>1 DEF Version
<1> QED BY <1>1, <1>2, <1>3, <1>4, <1>5

(* A mutation. *)
LEMMA MutateKeeps ==
  ASSUME IInv, NEW r \in Rows, Mutate(r)
  PROVE  IInv'
<1> USE SnapshotFenceConstants
<1> DEFINE later == Append(changed, r)
           n == Version + 1
           gb == [fiber EXCEPT ![n].at = "forked"]
<1>1. /\ changed' = later /\ fiber' = gb /\ Version < MaxVersion
      /\ UNCHANGED <<mirror, known, worker, children, exited, stopping, closed, answer>>
      /\ \A q \in Queries : fiber[q].at = "idle"
  BY DEF Mutate, At
<1>2. /\ later \in Seq(Rows) /\ Len(later) = n /\ Len(changed) = Version /\ n \in Batches
      /\ n \in Fibers /\ n \notin Readers /\ n # Nobody
  <2>1. later \in Seq(Rows) /\ Len(later) = n /\ Len(changed) = Version /\ n \in Batches
    BY <1>1, Facts DEF Version, Batches
  <2> QED BY <2>1, FibersDiffer DEF Fibers
<1>3. Moves(fiber, gb, n) /\ gb[n].at = "forked"
  <2> DEFINE s == Placed(fiber[n], "forked")
  <2>1. s \in FiberState /\ s.at = "forked"
    <3>1. fiber[n] \in FiberState /\ "forked" \in Places /\ Version \in 0 .. MaxVersion /\ mirror \in Copies
      BY <1>2, Facts DEF Places
    <3> QED BY <3>1, FiberGoesOn
  <2>2. gb = [fiber EXCEPT ![n] = s]
    BY DEF Placed
  <2> HIDE DEF s, gb, n
  <2>3. Moves(fiber, gb, n) /\ gb[n] = s
    BY <1>2, <2>1, <2>2, Facts, MovesTo
  <2> QED BY <2>1, <2>3
<1> HIDE DEF gb
<1>4. mirror.version <= Len(changed) /\ mirror.version < n /\ mirror.version \in 0 .. MaxVersion
  BY Facts DEF IInv, Mirrored
<1>5. fiber[n].at \notin {"respawn", "init", "request"}
  BY <1>2, <1>4 DEF IInv, Forked
<1>6. Family(later, gb, children)
  <2>1. Free(children, n)
    BY <1>2, <1>5, IdleFree DEF IInv
  <2>2. SamePlaces(children, fiber, gb)
    BY <1>3, <2>1 DEF Moves, SamePlaces
  <2>3. Family(changed, gb, children)
    BY <2>2, FamilyMoves DEF IInv
  <2> HIDE DEF later, n
  <2> QED BY <2>3, Facts, FamilyLater DEF later
<1>7. Forked(later, mirror, gb)
  <2> HIDE DEF later, n
  <2>1. ASSUME NEW u \in Batches, u = n
        PROVE  /\ gb[u].at = "forked" <=> mirror.version < u /\ u <= Len(later)
               /\ gb[u].at \in {"respawn", "init", "request"} => u <= mirror.version
    BY <1>2, <1>3, <1>4, <2>1 DEF Batches
  <2>2. ASSUME NEW u \in Batches, u # n
        PROVE  /\ gb[u].at = "forked" <=> mirror.version < u /\ u <= Len(later)
               /\ gb[u].at \in {"respawn", "init", "request"} => u <= mirror.version
    <3>1. gb[u] = fiber[u]
      BY <1>3, <2>2 DEF Moves, Fibers
    <3>2. u <= Len(later) <=> u <= Len(changed)
      BY <1>2, <2>2, Facts DEF Batches, n
    <3> QED BY <3>1, <3>2 DEF IInv, Forked
  <2> QED BY <2>1, <2>2 DEF Forked
<1>8. \A q \in Readers : gb[q] = fiber[q] /\ q \in Fibers
  BY <1>2, <1>3 DEF Moves, Fibers
<1>9. Asked(later, gb)
  <2>1. \A q \in Readers : gb[q].target <= Len(later)
    <3>1. \A q \in Readers : fiber[q].target <= Len(changed) /\ fiber[q].target \in 0 .. MaxVersion
      BY <1>8, Facts, FiberFields DEF IInv, Asked
    <3> HIDE DEF later
    <3> QED BY <1>2, <1>8, <3>1, Facts
  <2>2. \A q \in Queries : gb[q].at = "idle"
    BY <1>1, <1>8 DEF Readers
  <2> QED BY <2>1, <2>2 DEF Asked
<1>10. Restarting(gb)
  BY <1>3 DEF IInv, Restarting, Moves
<1>11. \A v \in 0 .. MaxVersion : v <= Len(changed) => v <= Len(later) /\ RowsOf(later, v) = RowsOf(changed, v)
  <2>1. \A v \in 0 .. MaxVersion : v <= Len(changed) => v <= Len(later)
    <3> HIDE DEF later
    <3> QED BY <1>2, Facts
  <2>2. \A v \in Nat : v <= Len(changed) => RowsOf(later, v) = RowsOf(changed, v)
    BY Facts, RowsStay
  <2> QED BY <2>1, <2>2
<1> HIDE DEF later, n
<1>12. Mirrored(later, mirror)
  BY <1>4, <1>11 DEF IInv, Mirrored
<1>13. Exact(later, answer)
  <2>1. answer.target \in 0 .. MaxVersion
    BY Facts DEF AnswerType
  <2> QED BY <1>11, <2>1 DEF IInv, Exact
<1>14. Types'
  <2>1. Len(later) <= MaxVersion
    BY <1>1, <1>2, Facts DEF n
  <2>2. gb \in [Fibers -> FiberState]
    BY <1>3 DEF Moves
  <2> QED BY <1>1, <1>2, <2>1, <2>2 DEF IInv, Types, Version
<1> QED BY <1>1, <1>6, <1>7, <1>9, <1>10, <1>12, <1>13, <1>14 DEF IInv

(* A question. *)
LEMMA AskKeeps ==
  ASSUME IInv, NEW q \in Readers, Ask(q)
  PROVE  IInv'
<1> DEFINE s == Asks(fiber[q], Version)
           gb == [fiber EXCEPT ![q] = s]
<1>1. /\ UNCHANGED <<changed, mirror, known, worker, children, exited, stopping, closed, answer>>
      /\ fiber' = [fiber EXCEPT ![q].at = "forked", ![q].target = Version]
      /\ fiber[q].at = "idle"
  BY DEF Ask, At
<1>2. q \in Fibers /\ q \notin Batches /\ q # Nobody
  BY FibersDiffer DEF Fibers
<1>3. s \in FiberState /\ s.at = "forked" /\ s.target = Len(changed)
  <2>1. fiber[q] \in FiberState /\ Version \in 0 .. MaxVersion /\ Len(changed) = Version
        /\ "idle" \in Places /\ mirror \in Copies
    BY <1>2, Facts DEF Places
  <2> QED BY <2>1, FiberGoesOn
<1>4. fiber' = gb
  <2>1. fiber \in [Fibers -> FiberState]
    BY Facts
  <2>2. [fiber EXCEPT ![q].at = "forked", ![q].target = Version] = gb
    BY <1>2, <2>1 DEF Asks
  <2> QED BY <1>1, <2>2
<1> HIDE DEF s
<1>5. Moves(fiber, gb, q) /\ gb[q] = s
  BY <1>2, <1>3, Facts, MovesTo
<1> HIDE DEF gb
<1>6. Family(changed, gb, children)
  <2>1. Free(children, q)
    BY <1>1, <1>2, IdleFree DEF IInv
  <2>2. SamePlaces(children, fiber, gb)
    BY <1>5, <2>1 DEF Moves, SamePlaces
  <2> QED BY <2>2, FamilyMoves DEF IInv
<1>7. Forked(changed, mirror, gb)
  <2>1. \A u \in Batches : gb[u] = fiber[u]
    BY <1>2, <1>5 DEF Moves, Fibers
  <2> QED BY <2>1 DEF IInv, Forked
<1>8. Asked(changed, gb)
  <2>1. \A g \in Readers : g # q => gb[g] = fiber[g]
    BY <1>5 DEF Moves, Fibers
  <2> QED BY <1>3, <1>5, <2>1, Facts DEF IInv, Asked, Readers
<1>9. Restarting(gb)
  BY <1>3, <1>5 DEF IInv, Restarting, Moves
<1>10. Types'
  <2>1. gb \in [Fibers -> FiberState]
    BY <1>5 DEF Moves
  <2> QED BY <1>1, <1>4, <2>1 DEF IInv, Types, Version
<1> QED BY <1>1, <1>4, <1>6, <1>7, <1>8, <1>9, <1>10 DEF IInv

(* A fiber starts: the batch that starts is the mirror's next. *)
LEMMA StartMirror ==
  ASSUME IInv, NEW f \in Fibers, Start(f)
  PROVE  /\ mirror' \in Copies /\ Mirrored(changed, mirror')
         /\ f \in Batches => f <= Len(changed) /\ f = mirror.version + 1 /\ mirror'.version = f
         /\ f \notin Batches => mirror' = mirror
         /\ \A gb : Moves(fiber, gb, f) /\ gb[f].at # "forked" => Forked(changed, mirror', gb)
<1> USE SnapshotFenceConstants
<1>1. /\ fiber[f].at = "forked"
      /\ f \in Batches => \A u \in Batches : fiber[u].at = "forked" => u >= f
      /\ mirror' = IF f \in Batches
                     THEN [rows |-> After(mirror.rows, mirror.version, f), version |-> f]
                     ELSE mirror
  BY DEF Start, At, Fibers
<1>2. mirror.version \in 0 .. MaxVersion /\ mirror.version <= Len(changed) /\ mirror.version \in Nat
  BY Facts DEF IInv, Mirrored
<1>3. \A u \in Batches : /\ fiber[u].at = "forked" <=> mirror.version < u /\ u <= Len(changed)
                         /\ fiber[u].at \in {"respawn", "init", "request"} => u <= mirror.version
  BY DEF IInv, Forked
<1>4. CASE f \in Batches
  <2>1. mirror.version < f /\ f <= Len(changed) /\ f \in Nat /\ f \in 0 .. MaxVersion
    BY <1>1, <1>3, <1>4 DEF Batches
  <2>2. f = mirror.version + 1
    <3>1. mirror.version + 1 \in Batches /\ mirror.version + 1 <= Len(changed)
      BY <1>2, <1>4, <2>1, Facts DEF Batches
    <3>2. mirror.version + 1 >= f
      BY <1>1, <1>2, <1>3, <1>4, <3>1
    <3> QED BY <1>2, <2>1, <3>2
  <2> DEFINE rows == RowsOf(changed, f)
  <2>3. After(mirror.rows, mirror.version, f) = rows
    <3>1. After(mirror.rows, mirror.version, f) = Written(changed, RowsOf(changed, mirror.version), mirror.version, f)
      BY RowsAtAre DEF IInv, Mirrored
    <3>2. mirror.version <= f
      BY <1>2, <2>1
    <3> QED BY <1>2, <2>1, <3>1, <3>2, RowsGoOn
  <2>4. rows \in [Rows -> Values]
    BY <2>1, RowsOfType
  <2>5. mirror' = [rows |-> rows, version |-> f]
    BY <1>1, <1>4, <2>3
  <2> HIDE DEF rows
  <2>6. mirror' \in Copies /\ mirror'.version = f /\ mirror'.rows = rows
    BY <2>1, <2>4, <2>5 DEF Copies
  <2>7. Mirrored(changed, mirror')
    BY <2>1, <2>6 DEF Mirrored, rows
  <2>8. ASSUME NEW gb, Moves(fiber, gb, f), gb[f].at # "forked"
        PROVE  Forked(changed, mirror', gb)
    <3>1. ASSUME NEW u \in Batches, u # f
          PROVE  /\ gb[u].at = "forked" <=> f < u /\ u <= Len(changed)
                 /\ gb[u].at \in {"respawn", "init", "request"} => u <= f
      <4>1. gb[u] = fiber[u]
        BY <2>8, <3>1 DEF Moves, Fibers
      <4>2. (mirror.version < u <=> f < u) /\ (u <= mirror.version => u <= f)
        BY <1>2, <2>2, <3>1 DEF Batches
      <4> QED BY <1>3, <4>1, <4>2
    <3>2. /\ gb[f].at = "forked" <=> f < f /\ f <= Len(changed)
          /\ gb[f].at \in {"respawn", "init", "request"} => f <= f
      BY <2>1, <2>8
    <3> QED BY <2>6, <3>1, <3>2 DEF Forked
  <2> QED BY <1>4, <2>1, <2>2, <2>6, <2>7, <2>8
<1>5. CASE f \notin Batches
  <2>1. mirror' = mirror
    BY <1>1, <1>5
  <2>2. ASSUME NEW gb, Moves(fiber, gb, f)
        PROVE  Forked(changed, mirror, gb)
    <3>1. \A u \in Batches : gb[u] = fiber[u]
      BY <1>5, <2>2 DEF Moves, Fibers
    <3> QED BY <1>3, <3>1 DEF Forked
  <2>3. mirror \in Copies /\ Mirrored(changed, mirror)
    BY Facts DEF IInv
  <2> QED BY <1>5, <2>1, <2>2, <2>3
<1> QED BY <1>4, <1>5

(* A fiber that moves keeps what it asks for or stops asking. *)
LEMMA AskedMoves ==
  ASSUME IInv, NEW f \in Fibers, NEW gb, Moves(fiber, gb, f), fiber[f].at # "idle",
         gb[f].target = fiber[f].target \/ gb[f] = Idle
  PROVE  Asked(changed, gb)
<1>1. Asked(changed, fiber) /\ Len(changed) \in Nat
  BY Facts DEF IInv
<1>2. \A g \in Readers : g # f => gb[g] = fiber[g]
  BY DEF Moves, Fibers
<1> QED BY <1>1, <1>2, FiberFields DEF Asked, Readers

(* A fiber's start. *)
LEMMA StartKeeps ==
  ASSUME IInv, Sheltered, NEW f \in Fibers, Start(f)
  PROVE  IInv'
<1> USE SnapshotFenceConstants
<1>1. /\ fiber[f].at = "forked" /\ UNCHANGED <<changed, known, worker, exited, closed>>
      /\ \/ /\ exited /\ RestartOnExit /\ closed = "no"
            /\ fiber' = [fiber EXCEPT ![f].at = "respawn"]
            /\ stopping' = TRUE
            /\ UNCHANGED <<children, answer>>
         \/ /\ Send(children, f, OwnRequest(f), Asking(f))
            /\ UNCHANGED stopping
  BY DEF Start, At
<1>2. /\ mirror' \in Copies /\ Mirrored(changed, mirror')
      /\ f \in Batches => f <= Len(changed) /\ f = mirror.version + 1 /\ mirror'.version = f
      /\ f \notin Batches => mirror' = mirror
      /\ \A gb : Moves(fiber, gb, f) /\ gb[f].at # "forked" => Forked(changed, mirror', gb)
  BY StartMirror
<1>3. f # Nobody /\ Free(children, f)
  <2>1. f # Nobody
    BY FibersDiffer
  <2> QED BY <1>1, <2>1, IdleFree DEF IInv
<1> DEFINE gb == fiber'
           mir == mirror'
<1>4. mir.version \in 0 .. MaxVersion /\ mir.rows \in [Rows -> Values]
  BY <1>2 DEF Copies
<1>5. CASE /\ exited /\ RestartOnExit /\ closed = "no"
           /\ fiber' = [fiber EXCEPT ![f].at = "respawn"]
           /\ stopping' = TRUE
           /\ UNCHANGED <<children, answer>>
  <2> DEFINE s == Placed(fiber[f], "respawn")
  <2>1. s \in FiberState /\ s.at = "respawn" /\ s.target = fiber[f].target
    <3>1. fiber[f] \in FiberState /\ "respawn" \in Places /\ Version \in 0 .. MaxVersion /\ mirror \in Copies
      BY Facts DEF Places
    <3> QED BY <3>1, FiberGoesOn
  <2>2. fiber' = [fiber EXCEPT ![f] = s]
    BY <1>5 DEF Placed
  <2> HIDE DEF s
  <2>3. Moves(fiber, fiber', f) /\ fiber'[f] = s
    BY <2>1, <2>2, Facts, MovesTo
  <2> HIDE DEF gb, mir
  <2>4. gb[f].at = "respawn" /\ gb[f].target = fiber[f].target /\ Moves(fiber, gb, f)
    BY <2>1, <2>3 DEF gb
  <2>5. Family(changed, gb, children)
    <3>1. SamePlaces(children, fiber, gb)
      BY <1>3, <2>4 DEF Moves, SamePlaces
    <3> QED BY <3>1, FamilyMoves DEF IInv
  <2>6. Forked(changed, mir, gb)
    BY <1>2, <2>4 DEF mir
  <2>7. Asked(changed, gb)
    BY <1>1, <2>4, AskedMoves
  <2>8. Restarting(gb)
    <3>1. Whole
      BY <1>5 DEF Sheltered
    <3> QED BY <3>1 DEF Restarting
  <2>9. ~ children[worker].alive
    BY <1>5 DEF IInv
  <2>10. Covered(mir.version, children[worker])
    BY <2>9 DEF Covered
  <2>11. Types'
    <3>1. gb \in [Fibers -> FiberState]
      BY <2>4 DEF Moves
    <3> QED BY <1>1, <1>2, <1>5, <3>1 DEF IInv, Types, Version, gb, Copies
  <2>12. Mirrored(changed, mir)
    BY <1>2 DEF mir
  <2> QED BY <1>1, <1>5, <2>5, <2>6, <2>7, <2>8, <2>9, <2>10, <2>11, <2>12 DEF IInv, gb, mir
<1>6. CASE Send(children, f, OwnRequest(f), Asking(f)) /\ UNCHANGED stopping
  <2>1. /\ Family(changed, gb, children') /\ Len(children') = Len(children)
        /\ Moves(fiber, gb, f)
        /\ \/ gb[f].at = "request" /\ gb[f].target = fiber[f].target
           \/ gb[f] = Idle
        /\ answer' \in AnswerType /\ Exact(changed, answer')
        /\ children'[worker].alive = children[worker].alive
        /\ \A v \in Nat : Covered(v, children[worker]) => Covered(v, children'[worker])
        /\ f \in Batches /\ children'[worker].alive => OnItsWay(children'[worker], f)
    BY <1>1, <1>2, <1>3, <1>6, Facts, OwnRequestSent DEF IInv
  <2> DEFINE cs == children'
             ans == answer'
  <2> HIDE DEF gb, mir, cs, ans
  <2>2. gb[f].at \in {"request", "idle"}
    BY <2>1, FiberFields
  <2>3. Forked(changed, mir, gb)
    BY <1>2, <2>1, <2>2 DEF mir
  <2>4. Asked(changed, gb)
    BY <1>1, <2>1, AskedMoves
  <2>5. Restarting(gb)
    BY <2>1, <2>2 DEF IInv, Restarting, Moves
  <2>6. Covered(mir.version, cs[worker])
    <3>1. Covered(mirror.version, cs[worker])
      <4>1. mirror.version \in Nat /\ Covered(mirror.version, children[worker])
        BY Facts DEF IInv
      <4> QED BY <2>1, <4>1 DEF cs
    <3>2. CASE f \notin Batches
      BY <1>2, <3>1, <3>2 DEF mir
    <3>3. CASE f \in Batches
      <4>1. mir.version = f /\ f = mirror.version + 1 /\ mirror.version \in Nat
        BY <1>2, <3>3, Facts DEF mir
      <4>2. cs[worker].alive => OnItsWay(cs[worker], f)
        BY <2>1, <3>3 DEF cs
      <4>3. \A u \in 1 .. f : u \in 1 .. mirror.version \/ u = f
        BY <4>1
      <4> QED BY <3>1, <4>1, <4>2, <4>3 DEF Covered
    <3> QED BY <3>2, <3>3
  <2>7. exited => ~ cs[worker].alive
    BY <2>1 DEF IInv, cs
  <2>8. Types'
    <3>1. gb \in [Fibers -> FiberState]
      BY <2>1 DEF Moves
    <3>2. worker' = Len(children')
      BY <1>1, <2>1, Facts
    <3> QED BY <1>1, <1>2, <1>6, <2>1, <3>1, <3>2 DEF IInv, Types, Version, gb, Copies, AnswerType
  <2>9. Mirrored(changed, mir) /\ Exact(changed, ans) /\ Family(changed, gb, cs)
    BY <1>2, <2>1 DEF mir, ans, cs
  <2> QED BY <1>1, <1>6, <2>3, <2>4, <2>5, <2>6, <2>7, <2>8, <2>9 DEF IInv, gb, mir, cs, ans
<1> QED BY <1>1, <1>5, <1>6

(* The init that a restart sends, and its child. *)
LEMMA InitRequestIs ==
  ASSUME Whole, NEW ch, NEW f \in Fibers, NEW copy \in Copies, Mirrored(ch, copy),
         NEW gb, gb[f].at = "init"
  PROVE  /\ InitRequest(f, copy, 0) \in Message /\ InitRequest(f, copy, 0).type = "init"
         /\ InitRequest(f, copy, 0).from = f /\ InitRequest(f, copy, 0).version = copy.version
         /\ SoundMessage(ch, gb, InitRequest(f, copy, 0))
<1> DEFINE pairs == Pairs(copy.rows)
           v == copy.version
           m == [type |-> "init", from |-> f, version |-> v, rows |-> pairs]
<1>1. InitRequest(f, copy, 0) = m
  BY Zenon DEF InitRequest, Request, Whole
<1>2. v \in 0 .. MaxVersion /\ copy.rows \in [Rows -> Values]
  BY DEF Copies
<1>3. pairs \in SUBSET (Rows \X Values)
  BY <1>2 DEF Pairs
<1>4. v <= Len(ch) /\ pairs = Pairs(RowsOf(ch, v))
  BY DEF Mirrored
<1> HIDE DEF pairs, v
<1>5. m \in Message /\ m.type = "init" /\ m.from = f /\ m.version = v /\ m.rows = pairs
  BY <1>2, <1>3 DEF Message
<1> HIDE DEF m
<1>6. SoundMessage(ch, gb, m)
  BY <1>4, <1>5 DEF SoundMessage
<1> QED BY <1>1, <1>5, <1>6 DEF v

(* A restart. *)
LEMMA RespawnKeeps ==
  ASSUME IInv, NEW f \in Fibers, Respawn(f)
  PROVE  IInv'
<1> USE SnapshotFenceConstants
<1> DEFINE m == InitRequest(f, mirror, 0)
           s == Sends(fiber[f], mirror)
           gb == [fiber EXCEPT ![f] = s]
           cs == Append(children, Started(m))
           n == Len(children) + 1
<1>1. /\ fiber[f].at = "respawn"
      /\ worker' = n /\ exited' = FALSE /\ stopping' = FALSE
      /\ fiber' = [fiber EXCEPT ![f].at = "init", ![f].copy = mirror]
      /\ children' = cs
      /\ UNCHANGED <<changed, mirror, known, closed, answer>>
  BY DEF Respawn, At, Started
<1>2. Whole
  BY <1>1 DEF IInv, Restarting
<1>3. s \in FiberState /\ s.at = "init" /\ s.target = fiber[f].target
  <2>1. fiber[f] \in FiberState /\ "init" \in Places /\ Version \in 0 .. MaxVersion /\ mirror \in Copies
    BY Facts DEF Places
  <2> QED BY <2>1, FiberGoesOn
<1>4. fiber' = gb
  <2>1. fiber \in [Fibers -> FiberState]
    BY Facts
  <2>2. [fiber EXCEPT ![f].at = "init", ![f].copy = mirror] = gb
    BY <2>1 DEF Sends
  <2> QED BY <1>1, <2>2
<1> HIDE DEF s
<1>5. Moves(fiber, gb, f) /\ gb[f] = s
  BY <1>3, Facts, MovesTo
<1> HIDE DEF gb, m
<1>6. f # Nobody /\ Free(children, f)
  <2>1. f # Nobody
    BY FibersDiffer
  <2> QED BY <1>1, <2>1, IdleFree DEF IInv
<1>7. Family(changed, gb, children)
  <2>1. SamePlaces(children, fiber, gb)
    BY <1>5, <1>6 DEF Moves, SamePlaces
  <2> QED BY <2>1, FamilyMoves DEF IInv
<1>8. gb[f].at = "init"
  BY <1>3, <1>5
<1>9. /\ m \in Message /\ m.type = "init" /\ m.from = f /\ m.version = mirror.version
      /\ SoundMessage(changed, gb, m)
  <2>1. mirror \in Copies /\ Mirrored(changed, mirror)
    BY Facts DEF IInv
  <2> QED BY <1>2, <1>8, <2>1, InitRequestIs DEF m
<1>10. Family(changed, gb, cs) /\ Len(cs) = n /\ cs[n] = Started(m) /\ Covered(m.version, Started(m))
  <2>1. Free(children, m.from) /\ m.from # Nobody
    BY <1>6, <1>9
  <2> QED BY <1>7, <1>9, <2>1, Facts, FamilyGrown
<1> HIDE DEF cs, n
<1>11. Covered(mirror.version, cs[n])
  BY <1>9, <1>10
<1>12. Forked(changed, mirror, gb)
  <2>1. ASSUME NEW u \in Batches
        PROVE  /\ gb[u].at = "forked" <=> mirror.version < u /\ u <= Len(changed)
               /\ gb[u].at \in {"respawn", "init", "request"} => u <= mirror.version
    <3>1. /\ fiber[u].at = "forked" <=> mirror.version < u /\ u <= Len(changed)
          /\ fiber[u].at \in {"respawn", "init", "request"} => u <= mirror.version
      BY DEF IInv, Forked
    <3>2. u # f => gb[u] = fiber[u]
      BY <1>5 DEF Moves, Fibers
    <3>3. u = f => u <= mirror.version /\ ~ (mirror.version < u /\ u <= Len(changed))
      BY <1>1, <3>1
    <3> QED BY <1>8, <3>1, <3>2, <3>3
  <2> QED BY <2>1 DEF Forked
<1>13. Asked(changed, gb)
  BY <1>1, <1>3, <1>5, AskedMoves
<1>14. Restarting(gb)
  BY <1>2 DEF Restarting
<1>15. Types'
  <2>1. gb \in [Fibers -> FiberState]
    BY <1>5 DEF Moves
  <2>2. worker' = Len(children')
    BY <1>1, <1>10
  <2> QED BY <1>1, <1>4, <2>1, <2>2 DEF IInv, Types, Version
<1> QED BY <1>1, <1>4, <1>10, <1>11, <1>12, <1>13, <1>14, <1>15 DEF IInv

(* A child's message. *)
LEMMA HandleKeeps ==
  ASSUME IInv, NEW p \in DOMAIN children, Handle(p)
  PROVE  IInv'
<1>1. UNCHANGED <<changed, mirror, known, worker, exited, stopping, closed, fiber, answer>>
  BY DEF Handle
<1>2. /\ Family(changed, fiber, children') /\ Len(children') = Len(children)
      /\ \A q \in DOMAIN children : children'[q].alive = children[q].alive
      /\ \A q \in DOMAIN children, v \in Nat :
           Covered(v, children[q]) => Covered(v, children'[q])
  BY Facts, FamilyHandled DEF IInv
<1> DEFINE cs == children'
<1> HIDE DEF cs
<1>3. Covered(mirror.version, cs[worker]) /\ cs[worker].alive = children[worker].alive
  <2>1. Covered(mirror.version, children[worker]) /\ mirror.version \in Nat /\ worker \in DOMAIN children
    BY Facts, SnapshotFenceConstants DEF IInv
  <2> QED BY <1>2, <2>1 DEF cs
<1>4. Types'
  BY <1>1, <1>2 DEF IInv, Types, Version
<1> QED BY <1>1, <1>2, <1>3, <1>4 DEF IInv, cs

(* A child's death. *)
LEMMA KilledKeeps ==
  ASSUME IInv, NEW p \in DOMAIN children,
         children' = [children EXCEPT ![p] = Terminated(@)],
         UNCHANGED <<changed, mirror, known, worker, exited, stopping, fiber, answer>>,
         closed' \in {"no", "closing", "yes"}
  PROVE  IInv'
<1> DEFINE cs == [children EXCEPT ![p] = Terminated(@)]
<1>1. /\ Family(changed, fiber, cs) /\ Len(cs) = Len(children)
      /\ ~ cs[p].alive /\ \A q \in DOMAIN children : q # p => cs[q] = children[q]
  BY FamilyKilled DEF IInv
<1>2. children' = cs
  OBVIOUS
<1> HIDE DEF cs
<1>3. Covered(mirror.version, cs[worker]) /\ (exited => ~ cs[worker].alive)
  <2>1. worker \in DOMAIN children
    BY Facts
  <2> QED BY <1>1, <2>1 DEF IInv, Covered
<1>4. Types'
  BY <1>1, <1>2 DEF IInv, Types, Version
<1> QED BY <1>1, <1>2, <1>3, <1>4 DEF IInv

(* A crash. *)
LEMMA CrashKeeps ==
  ASSUME IInv, NEW p \in DOMAIN children, Crash(p)
  PROVE  IInv'
<1>1. /\ children' = [children EXCEPT ![p].alive = FALSE, ![p].inbox = << >>]
      /\ UNCHANGED <<changed, mirror, known, worker, exited, stopping, closed, fiber, answer>>
  BY DEF Crash
<1>2. [children EXCEPT ![p].alive = FALSE, ![p].inbox = << >>] = [children EXCEPT ![p] = Terminated(@)]
  <2>1. children \in Seq(Child)
    BY Facts
  <2> QED BY <2>1 DEF Terminated
<1>3. closed' \in {"no", "closing", "yes"}
  BY <1>1 DEF IInv, Types
<1> QED BY <1>1, <1>2, <1>3, KilledKeeps

(* The closing of the backend, which terminates the worker. *)
LEMMA CloseKeeps ==
  ASSUME IInv, CloseBegin \/ CloseEnd
  PROVE  IInv'
<1>1. CASE CloseBegin
  <2>1. /\ closed' = "closing" /\ stopping' = TRUE
        /\ UNCHANGED <<changed, mirror, known, worker, children, exited, fiber, answer>>
    BY <1>1 DEF CloseBegin
  <2>2. Types'
    BY <2>1 DEF IInv, Types, Version
  <2> QED BY <2>1, <2>2 DEF IInv
<1>2. CASE CloseEnd
  <2>1. /\ children' = [children EXCEPT ![worker] = Terminated(@)]
        /\ UNCHANGED <<changed, mirror, known, worker, exited, stopping, fiber, answer>>
        /\ closed' \in {"no", "closing", "yes"}
    BY <1>2 DEF CloseEnd
  <2>2. worker \in DOMAIN children
    BY Facts
  <2> QED BY <2>1, <2>2, KilledKeeps
<1> QED BY <1>1, <1>2

(* A child's exit is noticed: nobody waits any more. *)
LEMMA NoticeExitKeeps ==
  ASSUME IInv, NEW p \in DOMAIN children, NoticeExit(p)
  PROVE  IInv'
<1> DEFINE waiting == At("init") \cup At("request")
           gb == [f \in Fibers |-> IF f \in waiting THEN Idle ELSE fiber[f]]
           cs == Disowning(children, p)
           ans == answer'
<1>1. /\ ~ children[p].alive
      /\ exited' = (exited \/ (p = worker /\ ~stopping))
      /\ fiber' = gb
      /\ FromMemory(waiting)
      /\ UNCHANGED <<changed, mirror, known, worker, stopping, closed>>
  BY DEF NoticeExit
<1>2. children' = cs
  BY Zenon DEF NoticeExit, Disowning, Disown, Dead
<1>3. /\ Family(changed, gb, cs) /\ Len(cs) = Len(children)
      /\ ~ cs[p].alive
      /\ \A q \in DOMAIN children : ~ children[q].alive => ~ cs[q].alive
      /\ \A q \in DOMAIN children, v \in Nat : Covered(v, children[q]) => Covered(v, cs[q])
  BY Facts, FamilyDisowned DEF IInv
<1>4. gb \in [Fibers -> FiberState]
  BY Facts, FiberFields
<1>5. \A f \in Fibers : /\ gb[f] = fiber[f] \/ gb[f] = Idle
                        /\ fiber[f].at \in {"forked", "respawn"} => gb[f] = fiber[f]
                        /\ gb[f].at \notin {"init", "request"}
                        /\ fiber[f].at # gb[f].at => fiber[f].at \in {"init", "request"}
  BY Facts, FiberFields DEF At, Places
<1> HIDE DEF gb, cs
<1>6. Forked(changed, mirror, gb)
  <2>1. ASSUME NEW u \in Batches
        PROVE  /\ gb[u].at = "forked" <=> mirror.version < u /\ u <= Len(changed)
               /\ gb[u].at \in {"respawn", "init", "request"} => u <= mirror.version
    <3>1. /\ fiber[u].at = "forked" <=> mirror.version < u /\ u <= Len(changed)
          /\ fiber[u].at \in {"respawn", "init", "request"} => u <= mirror.version
      BY DEF IInv, Forked
    <3>2. gb[u].at = fiber[u].at \/ (gb[u].at = "idle" /\ fiber[u].at # "forked")
      BY <1>5, FiberFields DEF Fibers
    <3> QED BY <3>1, <3>2
  <2> QED BY <2>1 DEF Forked
<1>7. Asked(changed, gb)
  <2>1. Asked(changed, fiber) /\ Len(changed) \in Nat
    BY Facts DEF IInv
  <2>2. \A q \in Readers : gb[q] = fiber[q] \/ gb[q] = Idle
    BY <1>5 DEF Fibers
  <2> QED BY <2>1, <2>2, FiberFields DEF Asked, Readers
<1>8. Restarting(gb)
  <2>1. \A f \in Fibers : gb[f].at \in {"respawn", "init"} => gb[f] = fiber[f]
    BY <1>5, FiberFields
  <2> QED BY <2>1 DEF IInv, Restarting
<1>9. ans \in AnswerType /\ Exact(changed, ans)
  <2>1. \A q \in waiting \cap Queries : fiber[q].target = Len(changed)
    BY DEF IInv, Asked, At
  <2> HIDE DEF waiting
  <2> QED BY <1>1, <2>1, Facts, FromMemoryExact DEF IInv
<1> HIDE DEF ans, waiting
<1>10. worker \in DOMAIN children /\ mirror.version \in Nat
  BY Facts, SnapshotFenceConstants
<1>11. Covered(mirror.version, cs[worker])
  BY <1>3, <1>10 DEF IInv
<1>12. exited' => ~ cs[worker].alive
  BY <1>1, <1>3, <1>10 DEF IInv
<1>13. Types'
  <2>1. exited' \in BOOLEAN
    BY <1>1 DEF IInv, Types
  <2>2. worker' = Len(children')
    BY <1>1, <1>2, <1>3, Facts
  <2> QED BY <1>1, <1>4, <1>9, <2>1, <2>2 DEF IInv, Types, Version, ans, AnswerType
<1> QED BY <1>1, <1>2, <1>3, <1>6, <1>7, <1>8, <1>9, <1>11, <1>12, <1>13 DEF IInv, ans

(* An answer that is taken, and one that is not. *)
LEMMA SettledExact ==
  ASSUME IInv, NEW f \in Fibers, fiber[f].at = "request", NEW m \in Response,
         m.from = f, SoundResponse(changed, fiber, m), Settle(f, m)
  PROVE  answer' \in AnswerType /\ Exact(changed, answer') /\ known' \in 0 .. MaxVersion
<1>1. /\ m.ok \in BOOLEAN /\ m.version \in 0 .. MaxVersion /\ m.rows \in [Rows -> Values]
  BY DEF Response
<1>2. answer \in AnswerType /\ Exact(changed, answer)
  BY Facts DEF IInv
<1>3. known' \in 0 .. MaxVersion
  <2>1. known \in 0 .. MaxVersion /\ mirror.version \in 0 .. MaxVersion
    BY Facts DEF IInv, Types
  <2>2. known' = mirror.version \/ known' = m.version \/ known' = known
    <3>1. known' = CASE m.ok /\ f \in Batches -> mirror.version
                     [] m.ok /\ f \in Readers -> m.version
                     [] OTHER                 -> known
      BY DEF Settle
    <3>2. CASE m.ok /\ f \in Batches
      <4>1. f \notin Readers
        BY <3>2, FibersDiffer
      <4> QED BY <3>1, <3>2, <4>1
    <3>3. CASE m.ok /\ f \in Readers
      <4>1. f \notin Batches
        BY <3>3, FibersDiffer
      <4> QED BY <3>1, <3>3, <4>1
    <3>4. CASE ~ (m.ok /\ f \in Batches) /\ ~ (m.ok /\ f \in Readers)
      BY <3>1, <3>4
    <3> QED BY <3>2, <3>3, <3>4
  <2> QED BY <1>1, <2>1, <2>2
<1>4. CASE m.ok /\ f \in Readers /\ m.version = fiber[f].target
  <2> DEFINE v == fiber[f].target
             rows == m.rows
  <2>1. \/ answer' = [rows |-> rows, target |-> v]
        \/ answer' = answer
    BY <1>4 DEF Settle
  <2>2. rows = RowsOf(changed, v) /\ v <= Len(changed)
    BY <1>4 DEF SoundResponse
  <2>3. v \in 0 .. MaxVersion /\ rows \in [Rows -> Values]
    BY <1>1, <1>4
  <2> DEFINE a == [rows |-> rows, target |-> v]
  <2>4. a \in AnswerType /\ a.rows = rows /\ a.target = v
    <3> HIDE DEF v, rows
    <3> QED BY <2>3 DEF AnswerType
  <2>5. Exact(changed, a)
    <3> HIDE DEF v, rows, a
    <3> QED BY <2>2, <2>4 DEF Exact
  <2> HIDE DEF a
  <2>6. answer' = a \/ answer' = answer
    BY <2>1 DEF a
  <2> QED BY <1>2, <1>3, <2>4, <2>5, <2>6
<1>5. CASE ~ (m.ok /\ f \in Readers /\ m.version = fiber[f].target)
  <2>1. FromMemory({f})
    BY <1>5 DEF Settle
  <2>2. \A q \in {f} \cap Queries : fiber[q].target = Len(changed)
    BY DEF IInv, Asked
  <2> QED BY <1>2, <1>3, <2>1, <2>2, Facts, FromMemoryExact
<1> QED BY <1>4, <1>5

(* A fiber that waits goes on, whoever of the children is left. *)
LEMMA ReceivedKeeps ==
  ASSUME IInv, NEW f \in Fibers, fiber[f].at \in {"init", "request"},
         NEW gb, Moves(fiber, gb, f),
         \/ gb[f].at = "request" /\ gb[f].target = fiber[f].target
         \/ gb[f] = Idle,
         NEW cs, Family(changed, gb, cs), Len(cs) = Len(children),
         cs[worker].alive = children[worker].alive,
         \A v \in Nat : Covered(v, children[worker]) => Covered(v, cs[worker]),
         fiber' = gb, children' = cs,
         answer' \in AnswerType, Exact(changed, answer'), known' \in 0 .. MaxVersion,
         UNCHANGED <<changed, mirror, worker, exited, stopping, closed>>
  PROVE  IInv'
<1> DEFINE ans == answer'
<1> HIDE DEF ans
<1>1. gb[f].at \in {"request", "idle"}
  BY FiberFields
<1>2. Forked(changed, mirror, gb)
  <2>1. ASSUME NEW u \in Batches
        PROVE  /\ gb[u].at = "forked" <=> mirror.version < u /\ u <= Len(changed)
               /\ gb[u].at \in {"respawn", "init", "request"} => u <= mirror.version
    <3>1. /\ fiber[u].at = "forked" <=> mirror.version < u /\ u <= Len(changed)
          /\ fiber[u].at \in {"respawn", "init", "request"} => u <= mirror.version
      BY DEF IInv, Forked
    <3>2. u # f => gb[u] = fiber[u]
      BY DEF Moves, Fibers
    <3>3. u = f => u <= mirror.version /\ ~ (mirror.version < u /\ u <= Len(changed))
      BY <3>1
    <3> QED BY <1>1, <3>1, <3>2, <3>3
  <2> QED BY <2>1 DEF Forked
<1>3. Asked(changed, gb)
  <2>1. fiber[f].at # "idle" /\ (gb[f].target = fiber[f].target \/ gb[f] = Idle)
    OBVIOUS
  <2> QED BY <2>1, AskedMoves
<1>4. Restarting(gb)
  BY <1>1 DEF IInv, Restarting, Moves
<1>5. Covered(mirror.version, cs[worker]) /\ (exited => ~ cs[worker].alive)
  <2>1. mirror.version \in Nat /\ Covered(mirror.version, children[worker])
    BY Facts, SnapshotFenceConstants DEF IInv
  <2> QED BY <2>1 DEF IInv
<1>6. Types'
  <2>1. gb \in [Fibers -> FiberState]
    BY DEF Moves
  <2>2. worker' = Len(children')
    BY Facts
  <2> QED BY <2>1, <2>2 DEF IInv, Types, Version, AnswerType
<1>7. Exact(changed, ans)
  BY DEF ans
<1> QED BY <1>2, <1>3, <1>4, <1>5, <1>6, <1>7 DEF IInv, ans

(* A response that reaches the parent. *)
LEMMA ReceiveKeeps ==
  ASSUME IInv, NEW p \in DOMAIN children, Receive(p)
  PROVE  IInv'
<1> USE SnapshotFenceConstants
<1> DEFINE m == Head(children[p].outbox)
           f == m.from
           taken == Taking(children, p)
<1>1. children[p].outbox # << >> /\ UNCHANGED <<changed, mirror, worker, exited, stopping, closed>>
  BY DEF Receive
<1>2. /\ Family(changed, fiber, taken) /\ Len(taken) = Len(children)
      /\ m \in Response /\ SoundResponse(changed, fiber, m)
      /\ Free(taken, f)
      /\ \A q \in DOMAIN children :
           /\ taken[q].alive = children[q].alive /\ taken[q].noticed = children[q].noticed
           /\ \A v \in Nat : Covered(v, children[q]) => Covered(v, taken[q])
  BY <1>1, Facts, FamilyTaken DEF IInv
<1>3. f \in Fibers
  BY <1>2 DEF Response
<1>4. \/ /\ fiber[f].at = "init" /\ m.ok /\ fiber[f].chunk # LastInitRequest
      \/ /\ fiber[f].at = "init" /\ m.ok
         /\ known' = fiber[f].copy.version
         /\ Send(taken, f, OwnRequest(f), Asking(f))
      \/ /\ fiber[f].at = "init" /\ ~ m.ok
      \/ /\ fiber[f].at = "request" /\ Settle(f, m) /\ children' = taken
  BY DEF Receive, Taking, At
<1> HIDE DEF taken, f, m
<1>5. fiber[f] \in FiberState
  BY <1>3, Facts
<1>6. fiber[f].at = "init" => m.ok /\ fiber[f].chunk = LastInitRequest
  <2>1. fiber[f].at = "init" => m.ok
    BY <1>2 DEF SoundResponse, f
  <2>2. fiber[f].at = "init" => ~ ChunkedInit
    BY <1>3 DEF IInv, Restarting, Whole
  <2>3. fiber[f].chunk = 0
    BY <1>5 DEF FiberState
  <2> QED BY <2>1, <2>2, <2>3 DEF LastInitRequest
<1>7. worker \in DOMAIN taken /\ worker \in DOMAIN children
  <2>1. DOMAIN taken = DOMAIN children
    <3>1. taken \in Seq(Child) /\ children \in Seq(Child)
      BY <1>2, Facts DEF Family
    <3> QED BY <1>2, <3>1
  <2> QED BY <2>1, Facts
<1>8. CASE /\ fiber[f].at = "init"
           /\ known' = fiber[f].copy.version
           /\ Send(taken, f, OwnRequest(f), Asking(f))
  <2>1. f \in Batches => f <= Len(changed)
    <3>1. f \in Batches => f <= mirror.version
      BY <1>8 DEF IInv, Forked
    <3> QED BY <3>1, Facts DEF IInv, Mirrored, Batches
  <2>2. /\ Family(changed, fiber', children') /\ Len(children') = Len(taken)
        /\ Moves(fiber, fiber', f)
        /\ \/ fiber'[f].at = "request" /\ fiber'[f].target = fiber[f].target
           \/ fiber'[f] = Idle
        /\ answer' \in AnswerType /\ Exact(changed, answer')
        /\ children'[worker].alive = taken[worker].alive
        /\ \A v \in Nat : Covered(v, taken[worker]) => Covered(v, children'[worker])
    BY <1>2, <1>3, <1>7, <1>8, <2>1, Facts, OwnRequestSent DEF IInv
  <2>3. known' \in 0 .. MaxVersion
    <3>1. fiber[f].copy \in Copies
      BY <1>5, FiberFields
    <3> QED BY <1>8, <3>1 DEF Copies
  <2> DEFINE gb == fiber'
             cs == children'
  <2> HIDE DEF gb, cs
  <2>4. /\ Family(changed, gb, cs) /\ Len(cs) = Len(children) /\ Moves(fiber, gb, f)
        /\ \/ gb[f].at = "request" /\ gb[f].target = fiber[f].target
           \/ gb[f] = Idle
        /\ cs[worker].alive = children[worker].alive
        /\ \A v \in Nat : Covered(v, children[worker]) => Covered(v, cs[worker])
        /\ fiber' = gb /\ children' = cs
    BY <1>2, <1>7, <2>2 DEF gb, cs
  <2> QED BY <1>1, <1>3, <1>8, <2>2, <2>3, <2>4, ReceivedKeeps
<1>9. CASE fiber[f].at = "request" /\ Settle(f, m) /\ children' = taken
  <2>1. answer' \in AnswerType /\ Exact(changed, answer') /\ known' \in 0 .. MaxVersion
    BY <1>2, <1>3, <1>9, SettledExact DEF f
  <2> DEFINE gb == [fiber EXCEPT ![f] = Idle]
  <2>2. fiber' = gb
    BY <1>9 DEF Settle
  <2>3. Moves(fiber, gb, f) /\ gb[f] = Idle
    BY <1>3, Facts, FiberFields, MovesTo
  <2> HIDE DEF gb
  <2>4. Family(changed, gb, taken)
    <3>1. SamePlaces(taken, fiber, gb)
      BY <1>2, <2>3 DEF Moves, SamePlaces
    <3> QED BY <1>2, <3>1, FamilyMoves
  <2> QED BY <1>1, <1>2, <1>3, <1>7, <1>9, <2>1, <2>2, <2>3, <2>4, ReceivedKeeps
<1> QED BY <1>4, <1>6, <1>8, <1>9

(* At first there is one child, whose rows are the store's. *)
LEMMA InitKeeps ==
  ASSUME Init
  PROVE  IInv
<1> USE SnapshotFenceConstants
<1> DEFINE B == Seq(Message)
           D == Seq(Response)
           rows == RowsOf(changed, 0)
           c == [NewChild EXCEPT !.rows = rows]
<1>1. /\ changed = << >> /\ mirror = [rows |-> rows, version |-> 0]
      /\ known = 0 /\ worker = 1 /\ children = << c >>
      /\ exited = FALSE /\ stopping = FALSE /\ closed = "no"
      /\ fiber = [f \in Fibers |-> Idle]
      /\ answer = [rows |-> rows, target |-> 0]
  BY RowsAtAre DEF Init
<1>2. changed \in Seq(Rows) /\ Len(changed) = 0 /\ Version = 0 /\ 0 \in 0 .. MaxVersion
  BY <1>1 DEF Version
<1>3. rows \in [Rows -> Values]
  BY <1>2, RowsOfType
<1>4. << >> \in B /\ << >> \in D /\ NoRows \in [Rows -> Values]
  BY DEF NoRows, Values
<1>5. Child = [alive : BOOLEAN, noticed : BOOLEAN, version : 0 .. MaxVersion,
               rows : [Rows -> Values], pending : SUBSET Batches, failed : BOOLEAN,
               init : {NoInit}, inbox : B, outbox : D]
  BY DEF Child
<1> HIDE DEF B, D, rows
<1>6. /\ NewChild \in Child /\ NewChild.version = 0 /\ NewChild.pending = {} /\ NewChild.alive
      /\ NewChild.inbox = << >> /\ NewChild.outbox = << >>
  BY <1>2, <1>4, <1>5 DEF NewChild
<1>7. /\ c \in Child /\ c.version = 0 /\ c.pending = {} /\ c.rows = rows /\ c.alive
      /\ c.inbox = << >> /\ c.outbox = << >>
  BY <1>3, <1>5, <1>6
<1> HIDE DEF c
<1>8. /\ children \in Seq(Child) /\ children # << >> /\ Len(children) = 1
      /\ DOMAIN children = {1} /\ children[1] = c
  BY <1>1, <1>7
<1>9. DOMAIN << >> = {} /\ Len(<< >>) = 0
  OBVIOUS
<1>10. SoundChild(changed, fiber, c)
  BY <1>2, <1>7, <1>9 DEF SoundChild, SoundTable, rows
<1>11. Width(c) = 0
  BY <1>7, <1>9 DEF Width
<1>12. Alone(children)
  BY <1>8, <1>11 DEF Alone
<1>13. Family(changed, fiber, children)
  BY <1>8, <1>10, <1>12 DEF Family
<1>14. fiber \in [Fibers -> FiberState] /\ \A f \in Fibers : fiber[f].at = "idle" /\ fiber[f].target = 0
  BY <1>1, FiberFields
<1>15. mirror.version = 0 /\ mirror.rows = rows /\ answer.target = 0 /\ answer.rows = rows
  BY <1>1
<1>16. Forked(changed, mirror, fiber)
  BY <1>2, <1>14, <1>15 DEF Forked, Fibers, Batches
<1>17. Asked(changed, fiber) /\ Restarting(fiber)
  BY <1>2, <1>14 DEF Asked, Restarting, Fibers, Readers
<1>18. Mirrored(changed, mirror) /\ Exact(changed, answer)
  BY <1>2, <1>15 DEF Mirrored, Exact, rows
<1>19. Covered(mirror.version, children[worker])
  BY <1>15 DEF Covered
<1>20. Types
  <2>1. mirror \in Copies /\ answer \in AnswerType
    BY <1>1, <1>2, <1>3 DEF Copies, AnswerType
  <2>2. worker = Len(children)
    BY <1>1, <1>8
  <2>3. /\ known \in 0 .. MaxVersion
        /\ exited \in BOOLEAN /\ stopping \in BOOLEAN /\ closed \in {"no", "closing", "yes"}
    BY <1>1, <1>2
  <2>4. Version <= MaxVersion
    BY <1>2
  <2> QED BY <1>2, <1>14, <2>1, <2>2, <2>3, <2>4, Zenon DEF Types, Copies, AnswerType
<1> QED BY <1>1, <1>13, <1>16, <1>17, <1>18, <1>19, <1>20 DEF IInv

(* Every step keeps the invariant. *)
LEMMA StepKeeps ==
  ASSUME IInv, Sheltered, [Next]_vars
  PROVE  IInv'
<1>1. CASE \E r \in Rows : Mutate(r)
  BY <1>1, MutateKeeps
<1>2. CASE \E q \in Readers : Ask(q)
  BY <1>2, AskKeeps
<1>3. CASE \E f \in Fibers : Start(f) \/ Respawn(f)
  BY <1>3, StartKeeps, RespawnKeeps
<1>4. CASE \E p \in DOMAIN children : Handle(p) \/ Receive(p) \/ Crash(p) \/ NoticeExit(p)
  BY <1>4, HandleKeeps, ReceiveKeeps, CrashKeeps, NoticeExitKeeps
<1>5. CASE CloseBegin \/ CloseEnd
  BY <1>5, CloseKeeps
<1>6. CASE UNCHANGED vars
  BY <1>6 DEF vars, IInv, Types, Version
<1> QED BY <1>1, <1>2, <1>3, <1>4, <1>5, <1>6, Zenon DEF Next

(* The invariant holds throughout, where restarts do not lose the rows. *)
LEMMA Inductive ==
  ASSUME Sheltered
  PROVE  Spec => []IInv
<1>1. Init => IInv
  BY InitKeeps
<1>2. IInv /\ [Next]_vars => IInv'
  BY StepKeeps
<1> QED BY <1>1, <1>2, PTL DEF Spec

-----------------------------------------------------------------------------
(* What the runs check *)

(* The invariant's types are those of the model. *)
LEMMA IInvTypes ==
  ASSUME IInv
  PROVE  TypeOK
<1>1. \A p \in DOMAIN children : children[p] \in Child /\ SoundChild(changed, fiber, children[p])
  BY Facts DEF IInv, Family
<1>2. ASSUME NEW c \in Child, SoundChild(changed, fiber, c)
      PROVE  /\ {c.alive, c.noticed, c.failed, c.init.open} \subseteq BOOLEAN
             /\ c.version \in 0 .. MaxVersion /\ c.rows \in [Rows -> Values]
             /\ c.pending \subseteq Batches
             /\ \A i \in DOMAIN c.inbox : c.inbox[i] \in Messages
             /\ \A i \in DOMAIN c.outbox : c.outbox[i].from \in Fibers
             /\ ~c.alive => c.inbox = << >>
  <2>1. c.init.open = FALSE
    <3>1. c.init = NoInit
      BY ChildFields
    <3> QED BY <3>1 DEF NoInit
  <2>2. c.inbox \in Seq(Message) /\ c.outbox \in Seq(Response)
    BY ChildFields
  <2>3. \A i \in DOMAIN c.inbox : c.inbox[i] \in Message
    BY <2>2
  <2>4. \A m \in Message : m \in Messages
    BY DEF Message, Messages
  <2>5. \A i \in DOMAIN c.outbox : c.outbox[i] \in Response
    BY <2>2
  <2>6. \A m \in Response : m.from \in Fibers
    BY DEF Response
  <2>7. ~c.alive => c.inbox = << >>
    BY <1>2 DEF SoundChild, SoundTable
  <2>8. /\ c.alive \in BOOLEAN /\ c.noticed \in BOOLEAN /\ c.failed \in BOOLEAN
        /\ c.version \in 0 .. MaxVersion /\ c.rows \in [Rows -> Values]
        /\ c.pending \in SUBSET Batches
    BY ChildFields
  <2> QED BY <2>1, <2>3, <2>4, <2>5, <2>6, <2>7, <2>8
<1>3. fiber \in [Fibers -> [at : {"idle", "forked", "respawn", "init", "request"},
                             target : 0 .. MaxVersion, chunk : 0 .. NumRows + 1,
                             copy : [rows : [Rows -> Values], version : 0 .. MaxVersion]]]
  <2>1. fiber \in [Fibers -> FiberState]
    BY Facts
  <2>2. 0 \in 0 .. NumRows + 1
    BY SnapshotFenceConstants
  <2>3. \A s \in FiberState : s \in [at : {"idle", "forked", "respawn", "init", "request"},
                             target : 0 .. MaxVersion, chunk : 0 .. NumRows + 1,
                             copy : [rows : [Rows -> Values], version : 0 .. MaxVersion]]
    BY <2>2 DEF FiberState
  <2> QED BY <2>1, <2>3
<1>4. Types
  BY DEF IInv
<1>5. /\ changed \in Seq(Rows) /\ Version <= MaxVersion
      /\ mirror \in [rows : [Rows -> Values], version : 0 .. MaxVersion]
      /\ known \in 0 .. MaxVersion /\ worker = Len(children)
      /\ {exited, stopping} \subseteq BOOLEAN /\ closed \in {"no", "closing", "yes"}
      /\ answer \in [rows : [Rows -> Values], target : 0 .. MaxVersion]
  BY <1>4 DEF Types
<1>6. ASSUME NEW p \in DOMAIN children
      PROVE  LET c == children[p] IN
             /\ {c.alive, c.noticed, c.failed, c.init.open} \subseteq BOOLEAN
             /\ c.version \in 0 .. MaxVersion /\ c.rows \in [Rows -> Values]
             /\ c.pending \subseteq Batches
             /\ \A i \in DOMAIN c.inbox : c.inbox[i] \in Messages
             /\ \A i \in DOMAIN c.outbox : c.outbox[i].from \in Fibers
             /\ ~c.alive => c.inbox = << >>
  <2> DEFINE d == children[p]
  <2>1. d \in Child /\ SoundChild(changed, fiber, d)
    BY <1>1
  <2> HIDE DEF d
  <2>2. /\ {d.alive, d.noticed, d.failed, d.init.open} \subseteq BOOLEAN
        /\ d.version \in 0 .. MaxVersion /\ d.rows \in [Rows -> Values]
        /\ d.pending \subseteq Batches
        /\ \A i \in DOMAIN d.inbox : d.inbox[i] \in Messages
        /\ \A i \in DOMAIN d.outbox : d.outbox[i].from \in Fibers
        /\ ~d.alive => d.inbox = << >>
    BY <1>2, <2>1
  <2> QED BY <2>2 DEF d
<1> QED BY <1>3, <1>5, <1>6, Zenon DEF TypeOK

(* Whatever answer a reader takes, from the child or from memory, holds the  *)
(* rows of the version it asked for: across crashes, restarts, failed writes *)
(* and answers that nobody awaits any more, for any number of rows, readers  *)
(* and mutations, when a restart's rows arrive whole or there is no restart. *)
THEOREM ReadersGetTheirVersion ==
  ASSUME Sheltered
  PROVE  Spec => []FenceSound
<1>1. IInv => FenceSound
  BY IInvTypes, RowsAtAre DEF IInv, Exact, FenceSound, AcceptedExact
<1> QED BY <1>1, Inductive, PTL

(* No mutation is lost for good: while the worker lives, each one is in its  *)
(* table or pending there, on its way to it, or still to be sent by the      *)
(* fiber that waits for its turn, under the same condition on restarts.      *)
THEOREM MutationsReachTheWorker ==
  ASSUME Sheltered
  PROVE  Spec => []NoMutationLost
<1>1. ASSUME IInv PROVE NoMutationLost
  <2> DEFINE c == children[worker]
             OnWay(u) == \E i \in DOMAIN c.inbox : LET m == c.inbox[i] IN
                           \/ m.type = "apply" /\ m.version = u
                           \/ m.type \in {"init", "initStart"} /\ m.version >= u
  <2> SUFFICES ASSUME c.alive, NEW u \in 1 .. Version
               PROVE  \/ u <= c.version
                      \/ u \in c.pending
                      \/ OnWay(u)
                      \/ u \in At("forked") \cup At("init")
    BY DEF NoMutationLost
  <2>1. mirror.version \in Nat /\ Version \in Nat /\ Version <= MaxVersion /\ Len(changed) = Version
    BY <1>1, Facts, SnapshotFenceConstants
  <2>2. CASE u <= mirror.version
    <3>1. u \in 1 .. mirror.version
      BY <2>1, <2>2
    <3>2. Has(c, u) \/ OnItsWay(c, u)
      BY <1>1, <3>1 DEF IInv, Covered
    <3>3. OnItsWay(c, u) => OnWay(u)
      <4> HIDE DEF c
      <4> QED BY DEF OnItsWay, Brings
    <3> HIDE DEF OnWay, c
    <3> QED BY <3>2, <3>3 DEF Has
  <2>3. CASE ~ (u <= mirror.version)
    <3>1. u \in Batches /\ mirror.version < u /\ u <= Len(changed)
      BY <2>1, <2>3, SnapshotFenceConstants DEF Batches
    <3>2. fiber[u].at = "forked"
      BY <1>1, <3>1 DEF IInv, Forked
    <3> QED BY <3>1, <3>2 DEF At, Fibers
  <2> QED BY <2>2, <2>3
<1> QED BY <1>1, Inductive, PTL
=============================================================================
