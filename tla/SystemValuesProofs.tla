------------------------- MODULE SystemValuesProofs -------------------------
(***************************************************************************)
(* Proofs about SystemValues, for all sets of instances and bindings and   *)
(* all bounds: its types, that the router knows who is connected, and that *)
(* a binding which is owed the value has it when nothing is under way.     *)
(***************************************************************************)
EXTENDS SystemValues, FiniteSetTheorems, SequenceTheorems, WellFoundedInduction, TLAPS

-----------------------------------------------------------------------------
(* Sequences without repetition: the dictionary of instances.              *)

LEMMA MinIsMember ==
    ASSUME NEW S, S \subseteq Nat, S # {}
    PROVE  Min(S) \in S
<1>1. PICK x \in S : \A y \in S : <<y, x>> \notin OpToRel(<, Nat)
  BY WFMin, NatLessThanWellFounded, Zenon
<1>2. \A y \in S : y \in Nat /\ x \in Nat
  OBVIOUS
<1>3. \A y \in S : ~(y < x)
  BY <1>1, <1>2, Zenon DEF OpToRel
<1>4. \A y \in S : x <= y
  BY <1>2, <1>3, SMT
<1>5. QED
  BY <1>4, Zenon DEF Min

LEMMA FirstPlaceOf ==
    ASSUME NEW S, NEW s \in Seq(S), NEW e, NEW n \in 1 .. Len(s), s[n] = e
    PROVE  /\ SelectInSeq(s, LAMBDA v : v = e) \in 1 .. Len(s)
           /\ s[SelectInSeq(s, LAMBDA v : v = e)] = e
<1> DEFINE I == {m \in 1 .. Len(s) : s[m] = e}
<1>1. SelectInSeq(s, LAMBDA v : v = e) = IF I # {} THEN Min(I) ELSE 0
  BY DEF SelectInSeq
<1>2. I # {} /\ I \subseteq Nat
  OBVIOUS
<1>3. Min(I) \in I
  BY <1>2, MinIsMember
<1>4. QED
  BY <1>1, <1>2, <1>3

LEMMA RemovedFirst ==
    ASSUME NEW S, NEW s \in Seq(S), IsInjective(s), NEW e
    PROVE  /\ RemoveFirst(s, e) \in Seq(S)
           /\ IsInjective(RemoveFirst(s, e))
           /\ ToSet(RemoveFirst(s, e)) = ToSet(s) \ {e}
<1>1. CASE \E n \in 1 .. Len(s) : s[n] = e
  <2> DEFINE k == SelectInSeq(s, LAMBDA v : v = e)
             a == SubSeq(s, 1, k - 1)
             z == SubSeq(s, k + 1, Len(s))
             t == a \o z
  <2>1. k \in 1 .. Len(s) /\ s[k] = e
    BY <1>1, FirstPlaceOf
  <2>2. RemoveFirst(s, e) = t
    BY <1>1 DEF RemoveFirst, RemoveAt
  <2> HIDE DEF k
  <2>3. Len(s) \in Nat /\ \A n \in 1 .. Len(s) : s[n] \in S
    OBVIOUS
  <2>4. a \in Seq(S) /\ Len(a) = k - 1 /\ \A n \in 1 .. k - 1 : a[n] = s[n]
    BY <2>1, <2>3
  <2>5. z \in Seq(S) /\ Len(z) = Len(s) - k /\ \A n \in 1 .. Len(s) - k : z[n] = s[k + n]
    BY <2>1, <2>3
  <2> HIDE DEF a, z
  <2>6. /\ t \in Seq(S) /\ Len(t) = Len(s) - 1
        /\ \A n \in 1 .. Len(s) - 1 : t[n] = IF n < k THEN s[n] ELSE s[n + 1]
    <3>1. t \in Seq(S) /\ Len(t) = Len(a) + Len(z)
      BY <2>4, <2>5, ConcatProperties
    <3>2. \A n \in 1 .. Len(a) + Len(z) : t[n] = IF n <= Len(a) THEN a[n] ELSE z[n - Len(a)]
      BY <2>4, <2>5, ConcatProperties
    <3>3. Len(a) + Len(z) = Len(s) - 1
      BY <2>1, <2>3, <2>4, <2>5
    <3>4. ASSUME NEW n \in 1 .. Len(s) - 1
          PROVE  t[n] = IF n < k THEN s[n] ELSE s[n + 1]
      <4>1. t[n] = IF n <= k - 1 THEN a[n] ELSE z[n - (k - 1)]
        BY <3>2, <3>3, <2>4
      <4> HIDE DEF t
      <4>2. n < k => n \in 1 .. k - 1
        BY <2>1, <2>3
      <4>3. ~(n < k) => n - (k - 1) \in 1 .. Len(s) - k /\ k + (n - (k - 1)) = n + 1
        BY <2>1, <2>3
      <4>4. ~(n < k) => z[n - (k - 1)] = s[n + 1]
        BY <4>3, <2>5
      <4>5. n < k <=> n <= k - 1
        BY <2>1, <2>3
      <4>6. n < k => t[n] = s[n]
        BY ONLY <4>1, <4>2, <4>5, <2>4
      <4>7. ~(n < k) => t[n] = s[n + 1]
        BY ONLY <4>1, <4>4, <4>5
      <4>8. QED
        BY ONLY <4>6, <4>7
    <3>5. QED
      BY <3>1, <3>3, <3>4
  <2> HIDE DEF t
  <2>7. DOMAIN t = 1 .. Len(s) - 1 /\ DOMAIN s = 1 .. Len(s)
    BY <2>3, <2>6
  <2>8. IsInjective(t)
    <3> DEFINE from(n) == IF n < k THEN n ELSE n + 1
    <3>1. ASSUME NEW n \in 1 .. Len(s) - 1
          PROVE  from(n) \in 1 .. Len(s) /\ t[n] = s[from(n)]
      BY <2>1, <2>3, <2>6
    <3>2. \A n, m \in 1 .. Len(s) - 1 : from(n) = from(m) => n = m
      BY ONLY <2>1, <2>3
    <3> HIDE DEF from
    <3>3. \A n, m \in 1 .. Len(s) : s[n] = s[m] => n = m
      BY <2>7 DEF IsInjective
    <3>4. QED
      BY ONLY <2>7, <3>1, <3>2, <3>3 DEF IsInjective
  <2>9. ToSet(t) \subseteq ToSet(s) \ {e}
    <3>1. \A n \in 1 .. Len(s) - 1 : \E m \in 1 .. Len(s) : m # k /\ t[n] = s[m]
      <4>1. TAKE n \in 1 .. Len(s) - 1
      <4>2. CASE n < k
        BY <4>2, <2>1, <2>3, <2>6
      <4>3. CASE ~(n < k)
        <5>1. n + 1 \in 1 .. Len(s) /\ n + 1 # k /\ t[n] = s[n + 1]
          BY <4>3, <2>1, <2>3, <2>6
        <5>2. QED
          BY <5>1
      <4>4. QED
        BY <4>2, <4>3
    <3>2. QED
      BY <3>1, <2>1, <2>7 DEF ToSet, IsInjective
  <2>10. ToSet(s) \ {e} \subseteq ToSet(t)
    <3>1. \A m \in 1 .. Len(s) : m # k => \E n \in 1 .. Len(s) - 1 : t[n] = s[m]
      <4>1. TAKE m \in 1 .. Len(s)
      <4>2. CASE m < k
        BY <4>2, <2>1, <2>3, <2>6
      <4>3. CASE k < m
        <5>1. m - 1 \in 1 .. Len(s) - 1 /\ t[m - 1] = s[m]
          BY <4>3, <2>1, <2>3, <2>6
        <5>2. QED
          BY <5>1
      <4>4. QED
        BY <4>2, <4>3, <2>1
    <3>2. QED
      BY <3>1, <2>1, <2>7 DEF ToSet
  <2>11. QED
    BY <2>2, <2>6, <2>8, <2>9, <2>10
<1>2. CASE ~\E n \in 1 .. Len(s) : s[n] = e
  <2>1. RemoveFirst(s, e) = s
    BY <1>2 DEF RemoveFirst
  <2>2. e \notin ToSet(s)
    BY <1>2 DEF ToSet
  <2>3. QED
    BY <2>1, <2>2
<1>3. QED
  BY <1>1, <1>2

LEMMA AppendedSet ==
    ASSUME NEW S, NEW s \in Seq(S), NEW e \in S
    PROVE  /\ Append(s, e) \in Seq(S)
           /\ ToSet(Append(s, e)) = ToSet(s) \cup {e}
           /\ IsInjective(s) /\ e \notin ToSet(s) => IsInjective(Append(s, e))
<1>1. /\ Append(s, e) \in Seq(S) /\ DOMAIN s = 1 .. Len(s) /\ Len(s) \in Nat
      /\ DOMAIN Append(s, e) = 1 .. Len(s) + 1
      /\ Append(s, e)[Len(s) + 1] = e
      /\ \A n \in 1 .. Len(s) : Append(s, e)[n] = s[n]
  BY AppendProperties
<1>2. \A n \in 1 .. Len(s) + 1 : n \in 1 .. Len(s) \/ n = Len(s) + 1
  BY <1>1
<1>3. ToSet(Append(s, e)) = ToSet(s) \cup {e}
  BY <1>1, <1>2 DEF ToSet
<1>4. IsInjective(s) /\ e \notin ToSet(s) => IsInjective(Append(s, e))
  BY <1>1, <1>2 DEF ToSet, IsInjective
<1>5. QED
  BY <1>1, <1>3, <1>4

LEMMA Enumerated ==
    ASSUME NEW S, IsFiniteSet(S)
    PROVE  /\ SetToSeq(S) \in Seq(S)
           /\ IsInjective(SetToSeq(S))
           /\ ToSet(SetToSeq(S)) = S
<1> DEFINE c == Cardinality(S)
           f == SetToSeq(S)
<1>1. c \in Nat /\ \E g \in [1 .. c -> S] : IsInjective(g)
  BY FS_CardinalityType DEF ExistsBijection, Bijection, Injection
<1>2. f \in [1 .. c -> S] /\ IsInjective(f)
  BY <1>1, Zenon DEF SetToSeq
<1> HIDE DEF f
<1>3. IsFiniteSet(1 .. c) /\ Cardinality(1 .. c) = c
  <2>1. c >= 1 => c - 1 + 1 = c
    BY <1>1
  <2>2. QED
    BY <1>1, <2>1, FS_Interval
<1>4. f \in Injection(1 .. c, S)
  BY <1>2 DEF Injection
<1>5. f \in Surjection(1 .. c, S)
  BY <1>3, <1>4, FS_Injection
<1>6. f \in Seq(S) /\ DOMAIN f = 1 .. c
  BY <1>1, <1>2
<1>7. ToSet(f) = S
  BY <1>2, <1>5, <1>6 DEF Surjection, ToSet
<1>8. QED
  BY <1>2, <1>6, <1>7 DEF f

-----------------------------------------------------------------------------
(* Types.                                                                  *)

Stored == [mode : {"new", "on", "off", "gone"}, inst : Instance \cup {None}, filter : Filter \cup {"none"}]
Read == [b : Binding, inst : Instance \cup {None}, filter : Filter \cup {"none"}]
Tasks == [todo : Seq(Read), v : Values, only : BOOLEAN, rest : Seq(Binding)]
Jobs ==
    [op : {"list"}, inst : Instance, first : BOOLEAN]
    \cup [op : {"one"}, b : Binding, v : Values, rest : Seq(Binding)]
    \cup [op : {"all"}, v : Values]
    \cup [op : {"reload"}, left : Seq(Instance), rest : Seq(Binding)]
    \cup [op : {"row", "start"}, inst : Instance]
    \cup [op : {"instances"}]
Places == {"idle", "stopping", "leaving", "deleting", "fetching", "connecting", "starting", "stopped"}
Sweeps == [stage : {"stop", "load", "start"}, restore : BOOLEAN, todo : SUBSET Instance]

TableTypes ==
    /\ value \in Values
    /\ row \in [Binding -> Stored]
    /\ config \in [Instance -> {"on", "off", "gone"}]

LinkTypes ==
    /\ order \in Seq(Instance) /\ IsInjective(order)
    /\ conn \in [Instance -> BOOLEAN]
    /\ life \in [Instance -> Places]
    /\ sweep \in Seq(Sweeps) /\ Len(sweep) <= 1
    /\ seen \subseteq Instance

\* The coroutine that runs has a row to write or a binding to offer.
WorkTypes ==
    /\ work \in Seq(Tasks) /\ Len(work) <= 1
    /\ work # <<>> => work[1].todo # <<>> \/ work[1].rest # <<>>

RouterTypes ==
    /\ last \in [Binding -> Values]
    /\ sent \in [Binding -> BOOLEAN]
    /\ queue \in Seq(Jobs)
    /\ WorkTypes
    /\ writing \in Seq([row : Read, task : Tasks])

OfferTypes ==
    /\ got \in [Binding -> [Instance -> Values]]
    /\ held \subseteq Binding

TypeInv == TableTypes /\ LinkTypes /\ RouterTypes /\ OfferTypes

USE FiniteAssumption, ValueAssumption, FilterAssumption

\* What the operators of the model return.
LEMMA RunningIsInstance ==
    ASSUME LinkTypes
    PROVE  /\ Running \subseteq Instance
           /\ FirstOfType \in Running \cup {None}
<1>1. order \in Seq(Instance)
  BY DEF LinkTypes
<1>2. order # <<>> => Head(order) = order[1] /\ 1 \in DOMAIN order
  BY <1>1
<1>3. QED
  BY <1>1, <1>2 DEF Running, FirstOfType, ToSet

LEMMA RowIsRead ==
    ASSUME TableTypes, NEW b \in Binding
    PROVE  RowOf(b) \in Read
BY DEF TableTypes, RowOf, Read, Stored

LEMMA RowsAreRead ==
    ASSUME TableTypes, NEW B, B \subseteq Binding
    PROVE  RowsOf(B) \in Seq(Read)
<1> DEFINE S == {b \in B : row[b].mode = "on"}
           s == SetToSeq(S)
<1>1. IsFiniteSet(S)
  BY FS_Subset
<1>2. s \in Seq(S)
  BY <1>1, Enumerated
<1> HIDE DEF s
<1>3. \A n \in DOMAIN s : RowOf(s[n]) \in Read
  <2>1. \A n \in DOMAIN s : s[n] \in S
    BY <1>2
  <2>2. QED
    BY <2>1, RowIsRead
<1>4. [n \in DOMAIN s |-> RowOf(s[n])] \in Seq(Read)
  <2>1. DOMAIN s = 1 .. Len(s) /\ Len(s) \in Nat
    BY <1>2
  <2>2. [n \in DOMAIN s |-> RowOf(s[n])] \in [1 .. Len(s) -> Read]
    BY <1>3, <2>1
  <2>3. QED
    BY <2>1, <2>2
<1>5. QED
  BY <1>4 DEF RowsOf, s

LEMMA TaskType ==
    ASSUME NEW todo \in Seq(Read), NEW v \in Values, NEW only \in BOOLEAN, NEW rest \in Seq(Binding)
    PROVE  Task(todo, v, only, rest) \in Tasks
BY DEF Task, Tasks

LEMMA ResendType ==
    ASSUME NEW rest \in Seq(Binding)
    PROVE  Resend(rest) \in Tasks
BY DEF Resend, Task, Tasks, Values

LEMMA GoesOnType ==
    ASSUME NEW t \in Tasks, GoesOn(t)
    PROVE  WorkTypes'
BY DEF GoesOn, WorkTypes

LEMMA ListingType ==
    ASSUME LinkTypes, NEW i \in Instance, NEW s
    PROVE  Listing(i, s) \in Jobs
BY DEF Listing, Jobs

LEMMA ReloadTypes ==
    ASSUME LinkTypes, NEW s \in Seq(Instance), NEW rest \in Seq(Binding), NEW q \in Seq(Jobs),
           ReloadThen(s, rest, q)
    PROVE  queue' \in Seq(Jobs) /\ WorkTypes'
<1> DEFINE k == SelectInSeq(s, LAMBDA i : i \in Running)
           j == [op |-> "reload", left |-> SubSeq(s, k + 1, Len(s)), rest |-> rest]
<1>1. k \in 0 .. Len(s)
  <2> DEFINE I == {n \in 1 .. Len(s) : s[n] \in Running}
  <2>1. k = IF I # {} THEN Min(I) ELSE 0
    BY DEF SelectInSeq
  <2>2. Len(s) \in Nat /\ I \subseteq Nat
    OBVIOUS
  <2>3. I # {} => Min(I) \in I
    BY <2>2, MinIsMember
  <2>4. QED
    BY <2>1, <2>2, <2>3
<1>2. CASE k = 0
  <2>1. queue' = q /\ GoesOn(Resend(rest))
    BY <1>2 DEF ReloadThen
  <2>2. QED
    BY <2>1, ResendType, GoesOnType
<1>3. CASE k # 0
  <2>1. queue' = Append(q, j) /\ work' = <<>>
    BY <1>3 DEF ReloadThen
  <2> HIDE DEF k
  <2>2. SubSeq(s, k + 1, Len(s)) \in Seq(Instance)
    BY <1>1, <1>3
  <2>3. j \in Jobs
    BY <2>2 DEF Jobs
  <2> HIDE DEF j
  <2>4. QED
    BY <2>1, <2>3, AppendProperties DEF WorkTypes
<1>4. QED
  BY <1>2, <1>3

LEMMA TargetType ==
    ASSUME LinkTypes, NEW r \in Read, NEW only \in BOOLEAN
    PROVE  Target(r, only) \in Running \cup {None}
BY RunningIsInstance DEF Target

LEMMA OfferType ==
    ASSUME OfferTypes, NEW b \in Binding, NEW i \in Instance, NEW v \in Values, Offer(b, i, v)
    PROVE  got' \in [Binding -> [Instance -> Values]]
BY DEF OfferTypes, Offer

LEMMA HeldType ==
    ASSUME OfferTypes, NEW b \in Binding, NEW i
    PROVE  /\ MadeGood(b, i) \subseteq Binding
           /\ Refilled(b) \subseteq Binding
BY DEF OfferTypes, MadeGood, Refilled

LEMMA RecordType ==
    ASSUME RouterTypes, NEW r \in Read, NEW v \in Values, Record(r, v)
    PROVE  last' \in [Binding -> Values] /\ sent' \in [Binding -> BOOLEAN]
BY DEF RouterTypes, Record, Read, Values

LEMMA ForgottenType ==
    ASSUME OfferTypes, NEW i \in Instance
    PROVE  Forgotten(i) \in [Binding -> [Instance -> Values]]
BY DEF OfferTypes, Forgotten, Values

LEMMA WorkType ==
    ASSUME RouterTypes, work # <<>>
    PROVE  /\ work[1] \in Tasks
           /\ work[1].todo # <<>> =>
                /\ Head(work[1].todo) \in Read
                /\ [work[1] EXCEPT !.todo = Tail(@)] \in Tasks
           /\ work[1].todo = <<>> =>
                /\ Head(work[1].rest) \in Binding
                /\ Tail(work[1].rest) \in Seq(Binding)
<1>1. work[1] \in Tasks
  BY DEF RouterTypes, WorkTypes
<1>2. /\ work[1].todo \in Seq(Read) /\ work[1].rest \in Seq(Binding)
      /\ work[1].v \in Values /\ work[1].only \in BOOLEAN
  BY <1>1 DEF Tasks
<1>3. ASSUME work[1].todo # <<>>
      PROVE  /\ Head(work[1].todo) \in Read
             /\ [work[1] EXCEPT !.todo = Tail(@)] \in Tasks
  <2>1. Head(work[1].todo) \in Read /\ Tail(work[1].todo) \in Seq(Read)
    BY <1>2, <1>3, HeadTailProperties
  <2>2. QED
    BY <1>1, <2>1 DEF Tasks
<1>4. ASSUME work[1].todo = <<>>
      PROVE  Head(work[1].rest) \in Binding /\ Tail(work[1].rest) \in Seq(Binding)
  <2>1. work[1].rest # <<>>
    BY <1>4 DEF RouterTypes, WorkTypes
  <2>2. QED
    BY <1>2, <2>1, HeadTailProperties
<1>5. QED
  BY <1>1, <1>3, <1>4

LEMMA AnswerType ==
    ASSUME RouterTypes, queue # <<>>
    PROVE  Head(queue) \in Jobs /\ Tail(queue) \in Seq(Jobs)
BY HeadTailProperties DEF RouterTypes

LEMMA RemovedAt ==
    ASSUME NEW S, NEW s \in Seq(S), NEW n \in DOMAIN s
    PROVE  RemoveAt(s, n) \in Seq(S)
<1>1. SubSeq(s, 1, n - 1) \in Seq(S) /\ SubSeq(s, n + 1, Len(s)) \in Seq(S)
  OBVIOUS
<1>2. QED
  BY <1>1, ConcatProperties DEF RemoveAt

LEMMA InitTypes ==
    ASSUME Init
    PROVE  TypeInv
<1>1. TableTypes
  BY DEF Init, TableTypes, Values, NewRow, Stored
<1>2. LinkTypes
  <2>1. IsFiniteSet(Enabled) /\ Enabled \subseteq Instance
    BY FS_Subset DEF Enabled
  <2>2. order \in Seq(Instance) /\ IsInjective(order)
    <3>1. order \in Seq(Enabled) /\ IsInjective(order)
      BY <2>1, Enumerated DEF Init
    <3>2. QED
      BY <3>1, <2>1, SeqMonotonic
  <2>3. sweep \in Seq(Sweeps) /\ Len(sweep) <= 1
    BY DEF Init
  <2>4. QED
    BY <2>1, <2>2, <2>3 DEF Init, LinkTypes, Places
<1>3. RouterTypes
  BY DEF Init, RouterTypes, WorkTypes, Values
<1>4. OfferTypes
  BY DEF Init, OfferTypes, Values
<1>5. QED
  BY <1>1, <1>2, <1>3, <1>4 DEF TypeInv

LEMMA SkipRowTypes ==
    ASSUME TypeInv, SkipRow
    PROVE  TypeInv'
<1>1. work # <<>> /\ work[1].todo # <<>>
  BY DEF SkipRow
<1>2. Head(work[1].todo) \in Read /\ [work[1] EXCEPT !.todo = Tail(@)] \in Tasks
  BY <1>1, WorkType DEF TypeInv
<1>3. TableTypes' /\ LinkTypes'
  BY DEF SkipRow, TypeInv, tables, TableTypes, LinkTypes
<1>4. RouterTypes'
  <2>1. WorkTypes'
    BY <1>2, GoesOnType DEF SkipRow
  <2>2. QED
    BY <2>1 DEF SkipRow, TypeInv, RouterTypes
<1>5. OfferTypes'
  BY <1>2 DEF SkipRow, TypeInv, OfferTypes, Read
<1>6. QED
  BY <1>3, <1>4, <1>5 DEF TypeInv

LEMMA WriteRowTypes ==
    ASSUME TypeInv, WriteRow
    PROVE  TypeInv'
<1> DEFINE t == work[1]
           r == Head(t.todo)
           i == Target(r, t.only)
           u == [t EXCEPT !.todo = Tail(@)]
<1>1. work # <<>> /\ t.todo # <<>> /\ i # None
  BY DEF WriteRow
<1>2. r \in Read /\ u \in Tasks /\ t \in Tasks
  BY <1>1, WorkType DEF TypeInv
<1>3. t.v \in Values /\ t.only \in BOOLEAN /\ r.b \in Binding
  BY <1>2 DEF Tasks, Read
<1>4. i \in Instance
  BY <1>1, <1>2, <1>3, TargetType, RunningIsInstance DEF TypeInv
<1>5. TableTypes' /\ LinkTypes'
  BY DEF WriteRow, TypeInv, tables, TableTypes, LinkTypes
<1>6. OfferTypes'
  <2>1. got' \in [Binding -> [Instance -> Values]]
    BY <1>3, <1>4, OfferType DEF WriteRow, TypeInv
  <2>2. held' \in {MadeGood(r.b, i), MadeGood(r.b, i) \cup Refilled(r.b)}
    BY DEF WriteRow
  <2>3. QED
    BY <1>3, <2>1, <2>2, HeldType DEF OfferTypes, TypeInv
<1>7. RouterTypes'
  <2>1. CASE i \in Slow
    <3>1. writing' = Append(writing, [row |-> r, task |-> u]) /\ work' = <<>> /\ UNCHANGED <<last, sent, queue>>
      BY <2>1 DEF WriteRow
    <3>2. writing' \in Seq([row : Read, task : Tasks])
      BY <3>1, <1>2 DEF TypeInv, RouterTypes
    <3>3. QED
      BY <3>1, <3>2 DEF TypeInv, RouterTypes, WorkTypes
  <2>2. CASE i \notin Slow
    <3>1. /\ Record(r, t.v) \/ UNCHANGED <<last, sent>>
          /\ GoesOn(u) /\ UNCHANGED <<writing, queue>>
      BY <2>2 DEF WriteRow
    <3>2. WorkTypes'
      BY <3>1, <1>2, GoesOnType
    <3>3. last' \in [Binding -> Values] /\ sent' \in [Binding -> BOOLEAN]
      BY <3>1, <1>2, <1>3, RecordType DEF TypeInv, RouterTypes
    <3>4. QED
      BY <3>1, <3>2, <3>3 DEF TypeInv, RouterTypes
  <2>3. QED
    BY <2>1, <2>2
<1>8. QED
  BY <1>5, <1>6, <1>7 DEF TypeInv

LEMMA EndWriteTypes ==
    ASSUME TypeInv, EndWrite
    PROVE  TypeInv'
<1>1. TableTypes' /\ LinkTypes'
  BY DEF EndWrite, TypeInv, tables, TableTypes, LinkTypes
<1>2. PICK n \in DOMAIN writing :
          /\ \/ /\ Record(writing[n].row, writing[n].task.v)
                /\ held' = held \cup Refilled(writing[n].row.b)
             \/ UNCHANGED <<last, sent, held>>
          /\ writing' = RemoveAt(writing, n)
          /\ GoesOn(writing[n].task)
  BY DEF EndWrite
<1>3. writing[n].row \in Read /\ writing[n].task \in Tasks
  <2>1. writing \in Seq([row : Read, task : Tasks])
    BY DEF TypeInv, RouterTypes
  <2>2. n \in 1 .. Len(writing)
    BY <2>1
  <2>3. writing[n] \in [row : Read, task : Tasks]
    BY <2>1, <2>2, ElementOfSeq, Zenon
  <2>4. QED
    BY <2>3
<1>4. writing[n].task.v \in Values /\ writing[n].row.b \in Binding
  BY <1>3 DEF Tasks, Read
<1>5. writing' \in Seq([row : Read, task : Tasks])
  BY <1>2, RemovedAt DEF TypeInv, RouterTypes
<1>6. WorkTypes'
  BY <1>2, <1>3, GoesOnType
<1>7. last' \in [Binding -> Values] /\ sent' \in [Binding -> BOOLEAN]
  BY <1>2, <1>3, <1>4, RecordType DEF TypeInv, RouterTypes
<1>8. RouterTypes'
  BY <1>5, <1>6, <1>7 DEF EndWrite, TypeInv, RouterTypes
<1>9. OfferTypes'
  BY <1>2, <1>4, HeldType DEF EndWrite, TypeInv, OfferTypes
<1>10. QED
  BY <1>1, <1>8, <1>9 DEF TypeInv

LEMMA ResendNextTypes ==
    ASSUME TypeInv, ResendNext
    PROVE  TypeInv'
<1>1. TableTypes' /\ LinkTypes'
  BY DEF ResendNext, TypeInv, tables, TableTypes, LinkTypes
<1>2. work # <<>> /\ work[1].todo = <<>> /\ work' = <<>> /\ UNCHANGED <<writing, got>>
  BY DEF ResendNext
<1>3. Head(work[1].rest) \in Binding /\ Tail(work[1].rest) \in Seq(Binding)
  BY <1>2, WorkType DEF TypeInv
<1>4. WorkTypes'
  BY <1>2 DEF WorkTypes
<1>5. CASE value = 0
  BY <1>2, <1>4, <1>5 DEF ResendNext, TypeInv, RouterTypes, OfferTypes, TableTypes, LinkTypes, tables
<1>6. CASE value # 0
  <2> DEFINE b == Head(work[1].rest)
             j == [op |-> "one", b |-> b, v |-> value, rest |-> Tail(work[1].rest)]
  <2>1. /\ last' = [last EXCEPT ![b] = 0] /\ sent' = [sent EXCEPT ![b] = FALSE]
        /\ held' = held \ {b} /\ queue' = Append(queue, j)
    BY <1>6 DEF ResendNext
  <2>2. j \in Jobs
    BY <1>3 DEF Jobs, TypeInv, TableTypes
  <2> HIDE DEF j
  <2>3. queue' \in Seq(Jobs)
    BY <2>1, <2>2, AppendProperties DEF TypeInv, RouterTypes
  <2>4. RouterTypes' /\ OfferTypes'
    <3>1. 0 \in Values
      BY DEF Values
    <3>2. last' \in [Binding -> Values] /\ sent' \in [Binding -> BOOLEAN]
      BY <2>1, <3>1 DEF TypeInv, RouterTypes
    <3>3. QED
      BY <1>2, <1>4, <2>1, <2>3, <3>2 DEF TypeInv, RouterTypes, OfferTypes
  <2>5. QED
    BY <1>1, <2>4 DEF TypeInv
<1>7. QED
  BY <1>5, <1>6

LEMMA PublishTypes ==
    ASSUME TypeInv, NEW v \in Values, Publish(v)
    PROVE  TypeInv'
<1> DEFINE j == [op |-> "all", v |-> v]
<1>1. j \in Jobs
  BY DEF Jobs
<1>2. queue' = queue \/ queue' = Append(queue, j)
  BY DEF Publish
<1> HIDE DEF j
<1>3. queue' \in Seq(Jobs)
  BY <1>1, <1>2, AppendProperties DEF TypeInv, RouterTypes
<1>4. TableTypes' /\ LinkTypes'
  BY DEF Publish, TypeInv, tables, TableTypes, LinkTypes
<1>5. RouterTypes' /\ OfferTypes'
  BY <1>3 DEF Publish, TypeInv, lines, RouterTypes, WorkTypes, OfferTypes
<1>6. QED
  BY <1>4, <1>5 DEF TypeInv

LEMMA LinkUpTypes ==
    ASSUME TypeInv, NEW i \in Instance, LinkUp(i)
    PROVE  TypeInv'
<1>1. Listing(i, order) \in Jobs
  BY ListingType DEF TypeInv
<1>2. queue' = queue \/ queue' = Append(queue, Listing(i, order))
  BY DEF LinkUp
<1>3. queue' \in Seq(Jobs)
  BY <1>1, <1>2, AppendProperties DEF TypeInv, RouterTypes
<1>4. TableTypes' /\ LinkTypes'
  BY DEF LinkUp, TypeInv, tables, TableTypes, LinkTypes
<1>5. RouterTypes' /\ OfferTypes'
  BY <1>3 DEF LinkUp, TypeInv, lines, RouterTypes, WorkTypes, OfferTypes
<1>6. QED
  BY <1>4, <1>5 DEF TypeInv

LEMMA LinkDownTypes ==
    ASSUME TypeInv, NEW i \in Instance, LinkDown(i)
    PROVE  TypeInv'
<1>1. Forgotten(i) \in [Binding -> [Instance -> Values]]
  BY ForgottenType DEF TypeInv
<1>2. TableTypes' /\ LinkTypes'
  BY DEF LinkDown, TypeInv, tables, TableTypes, LinkTypes
<1>3. RouterTypes' /\ OfferTypes'
  BY <1>1 DEF LinkDown, TypeInv, RouterTypes, WorkTypes, OfferTypes
<1>4. QED
  BY <1>2, <1>3 DEF TypeInv

LEMMA RequestTypes ==
    ASSUME LinkTypes, NEW i \in Instance, Request(i)
    PROVE  order' \in Seq(Instance) /\ IsInjective(order')
BY RemovedFirst DEF Request, LinkTypes

LEMMA RestartTypes ==
    ASSUME TypeInv, NEW i \in Instance, NEW enabled \in {"on", "off"}, Restart(i, enabled)
    PROVE  TypeInv'
<1> DEFINE j == [op |-> "row", inst |-> i]
<1>1. j \in Jobs
  BY DEF Jobs
<1>2. queue' = queue \/ queue' = Append(queue, j)
  BY DEF Restart
<1> HIDE DEF j
<1>3. queue' \in Seq(Jobs)
  BY <1>1, <1>2, AppendProperties DEF TypeInv, RouterTypes
<1>4. order' \in Seq(Instance) /\ IsInjective(order')
  BY RequestTypes DEF Restart, TypeInv
<1>5. TableTypes' /\ LinkTypes'
  BY <1>4 DEF Restart, TypeInv, TableTypes, LinkTypes, Places
<1>6. RouterTypes' /\ OfferTypes'
  BY <1>3 DEF Restart, TypeInv, lines, RouterTypes, WorkTypes, OfferTypes
<1>7. QED
  BY <1>5, <1>6 DEF TypeInv

LEMMA StopTypes ==
    ASSUME TypeInv, NEW i \in Instance, NEW delete \in BOOLEAN, Stop(i, delete)
    PROVE  TypeInv'
<1>1. order' \in Seq(Instance) /\ IsInjective(order')
  BY RequestTypes DEF Stop, TypeInv
<1>2. TableTypes' /\ LinkTypes'
  BY <1>1 DEF Stop, TypeInv, router, TableTypes, LinkTypes, Places
<1>3. RouterTypes' /\ OfferTypes'
  BY DEF Stop, TypeInv, router, lines, RouterTypes, WorkTypes, OfferTypes
<1>4. QED
  BY <1>2, <1>3 DEF TypeInv

LEMMA SeveredTypes ==
    ASSUME TypeInv, NEW i \in Instance, NEW told \in BOOLEAN, Severed(i, told)
    PROVE  OfferTypes' /\ conn' \in [Instance -> BOOLEAN] /\ seen' \subseteq Instance
<1>1. Forgotten(i) \in [Binding -> [Instance -> Values]]
  BY ForgottenType DEF TypeInv
<1>2. QED
  BY <1>1 DEF Severed, TypeInv, OfferTypes, LinkTypes

LEMMA DisconnectedTypes ==
    ASSUME TypeInv, NEW i \in Instance, NEW told \in BOOLEAN, Disconnected(i, told)
    PROVE  TypeInv'
<1> DEFINE j == [op |-> "row", inst |-> i]
<1>1. j \in Jobs
  BY DEF Jobs
<1>2. queue' = queue \/ queue' = Append(queue, j)
  BY DEF Disconnected
<1> HIDE DEF j
<1>3. queue' \in Seq(Jobs)
  BY <1>1, <1>2, AppendProperties DEF TypeInv, RouterTypes
<1>4. OfferTypes' /\ conn' \in [Instance -> BOOLEAN] /\ seen' \subseteq Instance
  BY SeveredTypes DEF Disconnected
<1>5. row' \in [Binding -> Stored] /\ config' \in [Instance -> {"on", "off", "gone"}]
  <2>1. \A b \in Binding : [row[b] EXCEPT !.mode = "gone"] \in Stored /\ row[b] \in Stored
    BY DEF TypeInv, TableTypes, Stored
  <2>2. \/ row' = [b \in Binding |-> IF row[b].inst = i THEN [row[b] EXCEPT !.mode = "gone"] ELSE row[b]]
        \/ row' = row
    BY DEF Disconnected, tables
  <2>3. row' \in [Binding -> Stored]
    BY <2>1, <2>2 DEF TypeInv, TableTypes
  <2>4. QED
    BY <2>3 DEF Disconnected, tables, TypeInv, TableTypes
<1>6. life' \in [Instance -> Places]
  BY DEF Disconnected, TypeInv, LinkTypes, Places
<1>7. TableTypes' /\ LinkTypes'
  BY <1>4, <1>5, <1>6 DEF Disconnected, TypeInv, TableTypes, LinkTypes
<1>8. RouterTypes'
  BY <1>3 DEF Disconnected, TypeInv, RouterTypes, WorkTypes
<1>9. QED
  BY <1>4, <1>7, <1>8 DEF TypeInv

LEMMA StartFailsTypes ==
    ASSUME TypeInv, NEW i \in Instance, StartFails(i)
    PROVE  TypeInv'
<1>1. TableTypes' /\ LinkTypes'
  BY DEF StartFails, TypeInv, tables, router, TableTypes, LinkTypes, Places
<1>2. RouterTypes' /\ OfferTypes'
  BY DEF StartFails, TypeInv, router, lines, RouterTypes, WorkTypes, OfferTypes
<1>3. QED
  BY <1>1, <1>2 DEF TypeInv

LEMMA RegisterTypes ==
    ASSUME TypeInv, NEW i \in Instance, i \notin Running, Register(i)
    PROVE  TypeInv'
<1> DEFINE j == [op |-> "start", inst |-> i]
<1>1. j \in Jobs
  BY DEF Jobs
<1>2. queue' = Append(queue, j)
  BY DEF Register
<1> HIDE DEF j
<1>3. queue' \in Seq(Jobs)
  BY <1>1, <1>2, AppendProperties DEF TypeInv, RouterTypes
<1>4. order' \in Seq(Instance) /\ IsInjective(order')
  BY AppendedSet DEF Register, TypeInv, LinkTypes, Running
<1>5. TableTypes' /\ LinkTypes'
  BY <1>4 DEF Register, TypeInv, tables, TableTypes, LinkTypes, Places
<1>6. RouterTypes' /\ OfferTypes'
  BY <1>3 DEF Register, TypeInv, lines, RouterTypes, WorkTypes, OfferTypes
<1>7. QED
  BY <1>5, <1>6 DEF TypeInv

LEMMA BeginSweepTypes ==
    ASSUME TypeInv, NEW restore \in BOOLEAN, BeginSweep(restore)
    PROVE  TypeInv'
<1> DEFINE w == [stage |-> "stop", restore |-> restore, todo |-> Running]
<1>1. w \in Sweeps
  BY RunningIsInstance DEF TypeInv, Sweeps
<1>2. sweep' = <<w>>
  BY DEF BeginSweep
<1> HIDE DEF w
<1>3. TableTypes' /\ LinkTypes'
  BY <1>1, <1>2 DEF BeginSweep, TypeInv, tables, router, TableTypes, LinkTypes
<1>4. RouterTypes' /\ OfferTypes'
  BY DEF BeginSweep, TypeInv, router, lines, RouterTypes, WorkTypes, OfferTypes
<1>5. QED
  BY <1>3, <1>4 DEF TypeInv

\* The progress of a sweep changes field by field.
LEMMA SweepType ==
    ASSUME LinkTypes, sweep # <<>>
    PROVE  /\ sweep[1] \in Sweeps /\ sweep = <<sweep[1]>>
           /\ \A T \in SUBSET Instance :
                /\ [sweep EXCEPT ![1].todo = T] = <<[sweep[1] EXCEPT !.todo = T]>>
                /\ [sweep[1] EXCEPT !.todo = T] \in Sweeps
           /\ [sweep EXCEPT ![1].stage = "load"] = <<[sweep[1] EXCEPT !.stage = "load"]>>
           /\ [sweep[1] EXCEPT !.stage = "load"] \in Sweeps
<1>1. sweep \in Seq(Sweeps) /\ Len(sweep) = 1
  <2> DEFINE n == Len(sweep)
  <2>1. sweep \in Seq(Sweeps) /\ n <= 1
    BY DEF LinkTypes
  <2>2. n \in Nat /\ n # 0
    BY <2>1, EmptySeq, LenProperties
  <2>3. n = 1
    <3> HIDE DEF n
    <3>1. QED
      BY <2>1, <2>2
  <2>4. QED
    BY <2>1, <2>3
<1>2. sweep[1] \in Sweeps /\ sweep = <<sweep[1]>>
  <2>1. sweep[1] \in Sweeps
    BY <1>1, ElementOfSeq
  <2>2. sweep \in [1 .. 1 -> Sweeps]
    BY <1>1, LenProperties
  <2>3. QED
    BY <1>1, <2>1, <2>2
<1>3. ASSUME NEW T \in SUBSET Instance
      PROVE  /\ [sweep EXCEPT ![1].todo = T] = <<[sweep[1] EXCEPT !.todo = T]>>
             /\ [sweep[1] EXCEPT !.todo = T] \in Sweeps
  BY <1>2 DEF Sweeps
<1>4. /\ [sweep EXCEPT ![1].stage = "load"] = <<[sweep[1] EXCEPT !.stage = "load"]>>
      /\ [sweep[1] EXCEPT !.stage = "load"] \in Sweeps
  BY <1>2 DEF Sweeps
<1>5. QED
  BY <1>2, <1>3, <1>4

LEMMA SweepStopsTypes ==
    ASSUME TypeInv, NEW i \in Instance, NEW told \in BOOLEAN, SweepStops(i, told)
    PROVE  TypeInv'
<1>1. sweep # <<>> /\ sweep' = [sweep EXCEPT ![1].todo = sweep[1].todo \ {i}]
  BY DEF SweepStops
<1>2. sweep[1].todo \ {i} \in SUBSET Instance
  <2>1. sweep[1] \in Sweeps
    BY <1>1, SweepType DEF TypeInv
  <2>2. QED
    BY <2>1 DEF Sweeps
<1>3. sweep' \in Seq(Sweeps) /\ Len(sweep') <= 1
  <2> DEFINE T == sweep[1].todo \ {i}
             w == [sweep[1] EXCEPT !.todo = T]
  <2>1. sweep' = <<w>> /\ w \in Sweeps
    BY <1>1, <1>2, SweepType DEF TypeInv
  <2> HIDE DEF w
  <2>2. QED
    BY <2>1
<1>4. OfferTypes' /\ conn' \in [Instance -> BOOLEAN] /\ seen' \subseteq Instance
  BY SeveredTypes DEF SweepStops
<1>5. TableTypes' /\ LinkTypes'
  BY <1>3, <1>4 DEF SweepStops, TypeInv, tables, TableTypes, LinkTypes, Places
<1>6. RouterTypes'
  BY DEF SweepStops, TypeInv, RouterTypes, WorkTypes
<1>7. QED
  BY <1>4, <1>5, <1>6 DEF TypeInv

LEMMA SweepLoadsTypes ==
    ASSUME TypeInv, SweepLoads
    PROVE  TypeInv'
<1> DEFINE j == [op |-> "instances"]
<1>1. j \in Jobs
  BY DEF Jobs
<1>2. queue' = Append(queue, j)
  BY DEF SweepLoads
<1> HIDE DEF j
<1>3. queue' \in Seq(Jobs)
  BY <1>1, <1>2, AppendProperties DEF TypeInv, RouterTypes
<1>4. sweep # <<>> /\ sweep' = [sweep EXCEPT ![1].stage = "load"]
  BY DEF SweepLoads
<1>5. sweep' \in Seq(Sweeps) /\ Len(sweep') <= 1
  BY <1>4, SweepType DEF TypeInv
<1>6. order' \in Seq(Instance) /\ IsInjective(order')
  <2>1. order' = <<>>
    BY DEF SweepLoads
  <2>2. <<>> \in Seq(Instance) /\ IsInjective(<<>>)
    BY DEF IsInjective
  <2>3. QED
    BY ONLY <2>1, <2>2
<1>7. TableTypes' /\ LinkTypes'
  BY <1>5, <1>6 DEF SweepLoads, TypeInv, tables, TableTypes, LinkTypes, Places, Values
<1>8. RouterTypes' /\ OfferTypes'
  BY <1>3 DEF SweepLoads, TypeInv, lines, RouterTypes, WorkTypes, OfferTypes
<1>9. QED
  BY <1>7, <1>8 DEF TypeInv

LEMMA SweepStartsTypes ==
    ASSUME TypeInv, NEW i \in Instance, SweepStarts(i)
    PROVE  TypeInv'
<1>1. sweep # <<>> /\ sweep' = [sweep EXCEPT ![1].todo = sweep[1].todo \ {i}]
  BY DEF SweepStarts
<1>2. sweep[1].todo \ {i} \in SUBSET Instance
  <2>1. sweep[1] \in Sweeps
    BY <1>1, SweepType DEF TypeInv
  <2>2. QED
    BY <2>1 DEF Sweeps
<1>3. sweep' \in Seq(Sweeps) /\ Len(sweep') <= 1
  <2> DEFINE T == sweep[1].todo \ {i}
             w == [sweep[1] EXCEPT !.todo = T]
  <2>1. sweep' = <<w>> /\ w \in Sweeps
    BY <1>1, <1>2, SweepType DEF TypeInv
  <2> HIDE DEF w
  <2>2. QED
    BY <2>1
<1>4. TableTypes' /\ LinkTypes'
  BY <1>3 DEF SweepStarts, TypeInv, tables, router, TableTypes, LinkTypes, Places
<1>5. RouterTypes' /\ OfferTypes'
  BY DEF SweepStarts, TypeInv, router, lines, RouterTypes, WorkTypes, OfferTypes
<1>6. QED
  BY <1>4, <1>5 DEF TypeInv

LEMMA SweepEndsTypes ==
    ASSUME TypeInv, SweepEnds
    PROVE  TypeInv'
<1>1. sweep' \in Seq(Sweeps) /\ Len(sweep') <= 1
  BY DEF SweepEnds
<1>2. TableTypes' /\ LinkTypes'
  BY <1>1 DEF SweepEnds, TypeInv, tables, router, TableTypes, LinkTypes
<1>3. RouterTypes' /\ OfferTypes'
  BY DEF SweepEnds, TypeInv, router, lines, RouterTypes, WorkTypes, OfferTypes
<1>4. QED
  BY <1>2, <1>3 DEF TypeInv

\* A request that changes rows, reloads and offers.
LEMMA BindingRequestTypes ==
    ASSUME TypeInv, BindingRequest, row' \in [Binding -> Stored],
           got' \in [Binding -> [Instance -> Values]],
           NEW s \in Seq(Instance), NEW rest \in Seq(Binding), ReloadThen(s, rest, queue)
    PROVE  TypeInv'
<1>1. queue' \in Seq(Jobs) /\ WorkTypes'
  BY ReloadTypes DEF TypeInv, RouterTypes
<1>2. TableTypes' /\ LinkTypes'
  BY DEF BindingRequest, TypeInv, TableTypes, LinkTypes
<1>3. RouterTypes' /\ OfferTypes'
  BY <1>1 DEF BindingRequest, TypeInv, RouterTypes, OfferTypes
<1>4. QED
  BY <1>2, <1>3 DEF TypeInv

LEMMA AnewType ==
    ASSUME OfferTypes, NEW B
    PROVE  Anew(B) \in [Binding -> [Instance -> Values]]
<1>1. 0 \in Values
  BY DEF Values
<1>2. QED
  BY <1>1 DEF OfferTypes, Anew

LEMMA CreateBindingTypes ==
    ASSUME TypeInv, NEW b \in Binding, NEW i \in Instance, NEW f \in Filter, CreateBinding(b, i, f)
    PROVE  TypeInv'
<1>1. row' \in [Binding -> Stored]
  BY DEF CreateBinding, TypeInv, TableTypes, Stored
<1>2. got' \in [Binding -> [Instance -> Values]]
  BY AnewType DEF CreateBinding, TypeInv
<1>3. BindingRequest /\ ReloadThen(<<i>>, <<b>>, queue)
  BY DEF CreateBinding
<1>4. <<i>> \in Seq(Instance) /\ <<b>> \in Seq(Binding)
  OBVIOUS
<1>5. QED
  BY <1>1, <1>2, <1>3, <1>4, BindingRequestTypes

LEMMA UpdateBindingTypes ==
    ASSUME TypeInv, NEW b \in Binding, NEW mode \in {"on", "off"}, NEW f \in Filter, UpdateBinding(b, mode, f)
    PROVE  TypeInv'
<1> DEFINE s == IF row[b].inst = None THEN <<>> ELSE <<row[b].inst>>
<1>1. row[b] \in Stored
  BY DEF TypeInv, TableTypes
<1>2. row' \in [Binding -> Stored]
  BY <1>1 DEF UpdateBinding, TypeInv, TableTypes, Stored
<1>3. got' \in [Binding -> [Instance -> Values]]
  BY AnewType DEF UpdateBinding, TypeInv
<1>4. BindingRequest /\ ReloadThen(s, <<b>>, queue)
  BY DEF UpdateBinding
<1>5. s \in Seq(Instance) /\ <<b>> \in Seq(Binding)
  BY <1>1 DEF Stored
<1>6. QED
  BY <1>2, <1>3, <1>4, <1>5, BindingRequestTypes

LEMMA MigrateBindingsTypes ==
    ASSUME TypeInv, NEW i \in Instance, NEW j \in Instance, MigrateBindings(i, j)
    PROVE  TypeInv'
<1> DEFINE moved == {b \in Binding : row[b].inst = i /\ row[b].mode \in {"on", "off"}}
<1>1. /\ BindingRequest /\ ReloadThen(<<i, j>>, SetToSeq(moved), queue)
      /\ row' = [b \in Binding |-> IF b \in moved THEN [row[b] EXCEPT !.inst = j] ELSE row[b]]
      /\ got' = Anew(moved)
  BY DEF MigrateBindings
<1>2. SetToSeq(moved) \in Seq(Binding)
  <2>1. IsFiniteSet(moved) /\ moved \subseteq Binding
    BY FS_Subset
  <2>2. QED
    BY <2>1, Enumerated, SeqMonotonic
<1>3. <<i, j>> \in Seq(Instance)
  OBVIOUS
<1>4. got' \in [Binding -> [Instance -> Values]]
  BY <1>1, AnewType DEF TypeInv
<1> HIDE DEF moved
<1>5. row' \in [Binding -> Stored]
  BY <1>1 DEF TypeInv, TableTypes, Stored
<1>6. QED
  BY <1>1, <1>2, <1>3, <1>4, <1>5, BindingRequestTypes

LEMMA DeleteBindingTypes ==
    ASSUME TypeInv, NEW b \in Binding, DeleteBinding(b)
    PROVE  TypeInv'
<1> DEFINE s == IF row[b].inst = None THEN <<>> ELSE <<row[b].inst>>
<1>1. row[b] \in Stored
  BY DEF TypeInv, TableTypes
<1>2. row' \in [Binding -> Stored]
  BY <1>1 DEF DeleteBinding, TypeInv, TableTypes, Stored
<1>3. got' \in [Binding -> [Instance -> Values]]
  BY DEF DeleteBinding, TypeInv, OfferTypes
<1>4. BindingRequest /\ ReloadThen(s, <<>>, queue)
  BY DEF DeleteBinding
<1>5. s \in Seq(Instance) /\ <<>> \in Seq(Binding)
  BY <1>1 DEF Stored
<1>6. QED
  BY <1>2, <1>3, <1>4, <1>5, BindingRequestTypes

LEMMA ReadRowsTypes ==
    ASSUME TypeInv, ReadRows
    PROVE  TypeInv'
<1> DEFINE h == Head(queue)
<1>1. queue # <<>> /\ h \in Jobs /\ queue' = Tail(queue) /\ Tail(queue) \in Seq(Jobs)
  BY AnswerType DEF ReadRows, Answer, TypeInv
<1>2. WorkTypes'
  <2>1. ASSUME NEW B, B \subseteq Binding
        PROVE  SetToSeq(B) \in Seq(Binding)
    <3>1. IsFiniteSet(B)
      BY <2>1, FS_Subset
    <3>2. QED
      BY <2>1, <3>1, Enumerated, SeqMonotonic
  <2>2. CASE Answer("list")
    <3> DEFINE mine == {b \in Binding : /\ row[b].mode = "on"
                                        /\ \/ row[b].inst = h.inst
                                           \/ row[b].inst = None /\ h.first}
    <3>1. GoesOn(Resend(SetToSeq(mine)))
      BY <2>2 DEF ReadRows, Answer
    <3>2. Resend(SetToSeq(mine)) \in Tasks
      BY <2>1, ResendType
    <3>3. QED
      BY <3>1, <3>2, GoesOnType
  <2>3. CASE Answer("one")
    <3>1. h.b \in Binding /\ h.v \in Values /\ h.rest \in Seq(Binding)
      BY <1>1, <2>3 DEF Answer, Jobs
    <3>2. RowsOf({h.b}) \in Seq(Read)
      BY <3>1, RowsAreRead DEF TypeInv
    <3>3. GoesOn(Task(RowsOf({h.b}), h.v, TRUE, h.rest))
      BY <2>3 DEF ReadRows, Answer
    <3>4. QED
      BY <3>1, <3>2, <3>3, TaskType, GoesOnType
  <2>4. CASE Answer("all")
    <3>1. h.v \in Values
      BY <1>1, <2>4 DEF Answer, Jobs
    <3>2. RowsOf(Binding) \in Seq(Read) /\ <<>> \in Seq(Binding)
      BY RowsAreRead DEF TypeInv
    <3>3. GoesOn(Task(RowsOf(Binding), h.v, FALSE, <<>>))
      BY <2>4 DEF ReadRows, Answer
    <3>4. QED
      BY <3>1, <3>2, <3>3, TaskType, GoesOnType
  <2>5. QED
    BY <2>2, <2>3, <2>4 DEF ReadRows
<1>3. TableTypes' /\ LinkTypes'
  BY DEF ReadRows, TypeInv, tables, TableTypes, LinkTypes
<1>4. RouterTypes' /\ OfferTypes'
  BY <1>1, <1>2 DEF ReadRows, TypeInv, lines, RouterTypes, OfferTypes
<1>5. QED
  BY <1>3, <1>4 DEF TypeInv

LEMMA ReadReloadTypes ==
    ASSUME TypeInv, ReadReload
    PROVE  TypeInv'
<1> DEFINE h == Head(queue)
<1>1. h \in Jobs /\ Tail(queue) \in Seq(Jobs) /\ h.op = "reload"
  BY AnswerType DEF ReadReload, Answer, TypeInv
<1>2. h.left \in Seq(Instance) /\ h.rest \in Seq(Binding)
  BY <1>1 DEF Jobs
<1>3. queue' \in Seq(Jobs) /\ WorkTypes'
  BY <1>1, <1>2, ReloadTypes DEF ReadReload, TypeInv
<1>4. TableTypes' /\ LinkTypes'
  BY DEF ReadReload, TypeInv, tables, TableTypes, LinkTypes
<1>5. RouterTypes' /\ OfferTypes'
  BY <1>3 DEF ReadReload, TypeInv, lines, RouterTypes, OfferTypes
<1>6. QED
  BY <1>4, <1>5 DEF TypeInv

LEMMA AnnounceStartedTypes ==
    ASSUME TypeInv, AnnounceStarted
    PROVE  TypeInv'
<1> DEFINE i == Head(queue).inst
           j == Listing(i, order)
<1>1. Head(queue) \in Jobs /\ Tail(queue) \in Seq(Jobs) /\ Head(queue).op = "start"
  BY AnswerType DEF AnnounceStarted, Answer, TypeInv
<1>2. i \in Instance
  BY <1>1 DEF Jobs
<1>3. j \in Jobs
  BY <1>2, ListingType DEF TypeInv
<1>4. queue' = Tail(queue) \/ queue' = Append(Tail(queue), j)
  BY DEF AnnounceStarted
<1>5. life' = [life EXCEPT ![i] = "idle"] /\ seen' \subseteq seen \cup {i}
  BY DEF AnnounceStarted
<1> HIDE DEF j
<1>6. queue' \in Seq(Jobs)
  BY <1>1, <1>3, <1>4, AppendProperties
<1> HIDE DEF i
<1>7. TableTypes' /\ LinkTypes'
  BY <1>2, <1>5 DEF AnnounceStarted, TypeInv, tables, TableTypes, LinkTypes, Places
<1>8. RouterTypes' /\ OfferTypes'
  BY <1>6 DEF AnnounceStarted, TypeInv, lines, RouterTypes, WorkTypes, OfferTypes
<1>9. QED
  BY <1>7, <1>8 DEF TypeInv

\* What the row, or the rows, of adapter_instances lead to.
LEMMA SweepLoaded ==
    ASSUME LinkTypes, sweep # <<>>
    PROVE  LET w == [sweep[1] EXCEPT !.stage = "start", !.todo = Enabled]
           IN  w \in Sweeps /\ [sweep EXCEPT ![1].stage = "start", ![1].todo = Enabled] = <<w>>
<1>1. Enabled \in SUBSET Instance
  BY DEF Enabled
<1>2. sweep[1] \in Sweeps /\ sweep = <<sweep[1]>>
  BY SweepType
<1>3. QED
  BY <1>1, <1>2 DEF Sweeps

LEMMA ReadInstanceTypes ==
    ASSUME TypeInv, ReadInstance, Answer("instances") => sweep # <<>>
    PROVE  TypeInv'
<1>1. Head(queue) \in Jobs /\ Tail(queue) \in Seq(Jobs) /\ queue' = Tail(queue)
  BY AnswerType DEF ReadInstance, Answer, TypeInv
<1>2. life' \in [Instance -> Places]
  BY DEF ReadInstance, TypeInv, LinkTypes, Places
<1>3. sweep' \in Seq(Sweeps) /\ Len(sweep') <= 1
  <2>1. CASE Answer("row")
    BY <2>1 DEF ReadInstance, Answer, TypeInv, LinkTypes
  <2>2. CASE Answer("instances")
    <3> DEFINE w == [sweep[1] EXCEPT !.stage = "start", !.todo = Enabled]
    <3>1. sweep' = <<w>> /\ w \in Sweeps
      BY <2>2, SweepLoaded DEF ReadInstance, Answer, TypeInv
    <3> HIDE DEF w
    <3>2. QED
      BY <3>1
  <2>3. QED
    BY <2>1, <2>2 DEF ReadInstance
<1>4. TableTypes' /\ LinkTypes'
  BY <1>2, <1>3 DEF ReadInstance, TypeInv, tables, TableTypes, LinkTypes
<1>5. RouterTypes' /\ OfferTypes'
  BY <1>1 DEF ReadInstance, TypeInv, lines, RouterTypes, WorkTypes, OfferTypes
<1>6. QED
  BY <1>4, <1>5 DEF TypeInv

-----------------------------------------------------------------------------
(* The router knows who is connected.  That an instance which begins or    *)
(* ends its start is not in the dictionary, or is, follows from the rows   *)
(* that are read for it: each is read once, and finds the request where it *)
(* left it.                                                                *)

Absent == {"stopping", "leaving", "deleting", "fetching", "connecting"}
Single == {"row", "start", "instances"}

\* A query of a start finds the instance, or the sweep, in this place.
Placed(j, places, w) ==
    /\ j.op = "row" => places[j.inst] = "fetching"
    /\ j.op = "start" => places[j.inst] = "starting"
    /\ j.op = "instances" => w # <<>> /\ w[1].stage = "load"

Orderly(q, places, w) ==
    /\ \A n \in DOMAIN q : Placed(q[n], places, w)
    /\ \A m, n \in DOMAIN q : m # n /\ q[m] = q[n] => q[m].op \notin Single

SweepInv ==
    sweep # <<>> =>
      /\ sweep[1].stage = "stop" => \A i \in Instance : life[i] \in {"idle", "stopped"}
      /\ sweep[1].stage = "load" => order = <<>> /\ \A i \in Instance : life[i] = "idle"
      /\ sweep[1].stage = "start" => \A i \in sweep[1].todo : i \notin Running /\ life[i] = "idle"

LifeInv ==
    /\ \A i \in Instance : life[i] \in Absent => i \notin Running
    /\ Orderly(queue, life, sweep)
    /\ SweepInv
    /\ SeenIsConnected

\* How the queue keeps its order: another query is appended, the first one is
\* answered, an instance or the sweep goes to another place.
LEMMA OrderlyAppend ==
    ASSUME NEW q \in Seq(Jobs), NEW places, NEW w, Orderly(q, places, w),
           NEW j, Placed(j, places, w),
           j.op \in Single => \A n \in DOMAIN q : q[n] # j
    PROVE  Orderly(Append(q, j), places, w)
<1>1. /\ DOMAIN q = 1 .. Len(q) /\ Len(q) \in Nat
      /\ DOMAIN Append(q, j) = 1 .. Len(q) + 1
      /\ Append(q, j)[Len(q) + 1] = j
      /\ \A n \in 1 .. Len(q) : Append(q, j)[n] = q[n]
  OBVIOUS
<1>2. \A n \in 1 .. Len(q) + 1 : n \in 1 .. Len(q) \/ n = Len(q) + 1
  BY <1>1
<1>3. QED
  BY <1>1, <1>2 DEF Orderly

LEMMA OrderlyTail ==
    ASSUME NEW q \in Seq(Jobs), q # <<>>, NEW places, NEW w, Orderly(q, places, w)
    PROVE  /\ Orderly(Tail(q), places, w)
           /\ Placed(Head(q), places, w)
           /\ Head(q).op \in Single => \A n \in DOMAIN Tail(q) : Tail(q)[n] # Head(q)
<1> DEFINE t == Tail(q)
<1>1. /\ DOMAIN q = 1 .. Len(q) /\ Len(q) \in Nat /\ Len(q) >= 1
      /\ Head(q) = q[1] /\ DOMAIN t = 1 .. Len(q) - 1
      /\ \A n \in 1 .. Len(q) - 1 : t[n] = q[n + 1]
  <2>1. t \in Seq(Jobs) /\ Len(t) = Len(q) - 1 /\ \A n \in 1 .. Len(t) : t[n] = q[n + 1]
    BY HeadTailProperties
  <2>2. DOMAIN q = 1 .. Len(q) /\ Len(q) \in Nat /\ Len(q) # 0 /\ Head(q) = q[1]
    BY EmptySeq, LenProperties
  <2>3. DOMAIN t = 1 .. Len(t)
    BY <2>1
  <2> HIDE DEF t
  <2>4. QED
    BY <2>1, <2>2, <2>3
<1> HIDE DEF t
<1>2. \A n \in DOMAIN t : n + 1 \in DOMAIN q /\ n + 1 # 1 /\ t[n] = q[n + 1] /\ 1 \in DOMAIN q
  BY <1>1
<1>3. \A m, n \in DOMAIN t : m # n => m + 1 # n + 1
  BY <1>1
<1>4. Orderly(t, places, w)
  BY <1>2, <1>3 DEF Orderly
<1>5. Placed(Head(q), places, w)
  BY <1>1 DEF Orderly
<1>6. Head(q).op \in Single => \A n \in DOMAIN t : t[n] # Head(q)
  BY <1>1, <1>2 DEF Orderly
<1>7. QED
  BY <1>4, <1>5, <1>6 DEF t

LEMMA OrderlyMoves ==
    ASSUME NEW q, NEW places, NEW w, Orderly(q, places, w), NEW others, NEW x,
           \A n \in DOMAIN q : Placed(q[n], places, w) => Placed(q[n], others, x)
    PROVE  Orderly(q, others, x)
BY DEF Orderly

\* Nothing but the queue changes, and it by a query that is not of a start.
LEMMA QueryAppended ==
    ASSUME NEW q \in Seq(Jobs), Orderly(q, life, sweep), life' = life, sweep' = sweep,
           NEW j, j.op \notin Single, queue' = Append(q, j)
    PROVE  Orderly(queue, life, sweep)'
<1>1. Placed(j, life, sweep)
  BY DEF Placed, Single
<1>2. Orderly(queue', life, sweep)
  BY <1>1, OrderlyAppend
<1>3. QED
  BY <1>2

LEMMA QuietStep ==
    ASSUME LifeInv, Orderly(queue, life, sweep)', UNCHANGED <<order, life, sweep, conn, seen>>
    PROVE  LifeInv'
BY DEF LifeInv, SweepInv, SeenIsConnected, Running

LEMMA RouterLife ==
    ASSUME TypeInv, LifeInv, Router
    PROVE  LifeInv'
<1>1. UNCHANGED <<order, life, sweep, conn, seen>>
  BY DEF Router, SkipRow, WriteRow, EndWrite, ResendNext
<1> DEFINE j == [op |-> "one", b |-> Head(work[1].rest), v |-> value, rest |-> Tail(work[1].rest)]
<1>2. queue' = queue \/ queue' = Append(queue, j)
  BY DEF Router, SkipRow, WriteRow, EndWrite, ResendNext
<1>3. j.op \notin Single
  BY DEF Single
<1> HIDE DEF j
<1>4. Orderly(queue, life, sweep)'
  BY <1>1, <1>2, <1>3, QueryAppended DEF LifeInv, TypeInv, RouterTypes
<1>5. QED
  BY <1>1, <1>4, QuietStep

LEMMA PublishLife ==
    ASSUME TypeInv, LifeInv, NEW v \in Values, Publish(v)
    PROVE  LifeInv'
<1>1. UNCHANGED <<order, life, sweep, conn, seen>>
  BY DEF Publish
<1> DEFINE j == [op |-> "all", v |-> v]
<1>2. queue' = queue \/ queue' = Append(queue, j)
  BY DEF Publish
<1>3. j.op \notin Single
  BY DEF Single
<1> HIDE DEF j
<1>4. Orderly(queue, life, sweep)'
  BY <1>1, <1>2, <1>3, QueryAppended DEF LifeInv, TypeInv, RouterTypes
<1>5. QED
  BY <1>1, <1>4, QuietStep

LEMMA ReloadLife ==
    ASSUME TypeInv, LifeInv, UNCHANGED <<order, life, sweep, conn, seen>>,
           NEW q \in Seq(Jobs), Orderly(q, life, sweep),
           NEW s, NEW rest, ReloadThen(s, rest, q)
    PROVE  LifeInv'
<1> DEFINE k == SelectInSeq(s, LAMBDA i : i \in Running)
           j == [op |-> "reload", left |-> SubSeq(s, k + 1, Len(s)), rest |-> rest]
<1>1. queue' = q \/ queue' = Append(q, j)
  BY DEF ReloadThen
<1>2. j.op \notin Single
  BY DEF Single
<1> HIDE DEF j
<1>3. Orderly(queue, life, sweep)'
  BY <1>1, <1>2, QueryAppended
<1>4. QED
  BY <1>3, QuietStep

LEMMA ReadRowsLife ==
    ASSUME TypeInv, LifeInv, ReadRows
    PROVE  LifeInv'
<1>1. UNCHANGED <<order, life, sweep, conn, seen>>
  BY DEF ReadRows
<1>2. queue # <<>> /\ queue' = Tail(queue)
  BY DEF ReadRows, Answer
<1>3. Orderly(queue, life, sweep)'
  BY <1>1, <1>2, OrderlyTail DEF LifeInv, TypeInv, RouterTypes
<1>4. QED
  BY <1>1, <1>3, QuietStep

LEMMA ReadReloadLife ==
    ASSUME TypeInv, LifeInv, ReadReload
    PROVE  LifeInv'
<1>1. UNCHANGED <<order, life, sweep, conn, seen>>
  BY DEF ReadReload
<1>2. queue # <<>> /\ ReloadThen(Head(queue).left, Head(queue).rest, Tail(queue))
  BY DEF ReadReload, Answer
<1>3. Tail(queue) \in Seq(Jobs) /\ Orderly(Tail(queue), life, sweep)
  BY <1>2, AnswerType, OrderlyTail DEF LifeInv, TypeInv, RouterTypes
<1>4. QED
  BY <1>1, <1>2, <1>3, ReloadLife

LEMMA BindingLife ==
    ASSUME TypeInv, LifeInv, BindingRequest, NEW s, NEW rest, ReloadThen(s, rest, queue)
    PROVE  LifeInv'
<1>1. UNCHANGED <<order, life, sweep, conn, seen>>
  BY DEF BindingRequest
<1>2. queue \in Seq(Jobs) /\ Orderly(queue, life, sweep)
  BY DEF LifeInv, TypeInv, RouterTypes
<1>3. QED
  BY <1>1, <1>2, ReloadLife

LEMMA LinkLife ==
    ASSUME TypeInv, LifeInv, NEW i \in Instance, LinkUp(i) \/ LinkDown(i)
    PROVE  LifeInv'
<1> DEFINE j == Listing(i, order)
<1>1. UNCHANGED <<order, life, sweep>>
  BY DEF LinkUp, LinkDown
<1>2. queue' = queue \/ queue' = Append(queue, j)
  BY DEF LinkUp, LinkDown
<1>3. j.op \notin Single
  BY DEF Listing, Single
<1> HIDE DEF j
<1>4. Orderly(queue, life, sweep)'
  BY <1>1, <1>2, <1>3, QueryAppended DEF LifeInv, TypeInv, RouterTypes
<1>5. SeenIsConnected'
  <2>1. CASE LinkUp(i)
    <3>1. conn' = [conn EXCEPT ![i] = TRUE] /\ seen' = IF i \in Running THEN seen \cup {i} ELSE seen
      BY <2>1 DEF LinkUp
    <3>2. QED
      BY <1>1, <3>1 DEF LifeInv, SeenIsConnected, Running, TypeInv, LinkTypes
  <2>2. CASE LinkDown(i)
    <3>1. conn' = [conn EXCEPT ![i] = FALSE] /\ seen' = seen \ {i}
      BY <2>2 DEF LinkDown
    <3>2. QED
      BY <1>1, <3>1 DEF LifeInv, SeenIsConnected, Running, TypeInv, LinkTypes
  <2>3. QED
    BY <2>1, <2>2
<1>6. QED
  BY <1>1, <1>4, <1>5 DEF LifeInv, SweepInv, Running

\* An instance leaves the dictionary for good or to be connected anew.
LEMMA RequestLife ==
    ASSUME TypeInv, LifeInv, NEW i \in Instance, Request(i), UNCHANGED <<sweep, conn, seen>>,
           NEW p \in Absent, life' = [life EXCEPT ![i] = p],
           Orderly(queue, life, sweep)'
    PROVE  LifeInv'
<1>1. Running' = Running \ {i} /\ sweep = <<>>
  BY RemovedFirst DEF Request, Running, TypeInv, LinkTypes
<1>2. \A k \in Instance : life'[k] = IF k = i THEN p ELSE life[k]
  BY DEF TypeInv, LinkTypes
<1>3. p # "idle"
  BY DEF Absent
<1>4. QED
  BY <1>1, <1>2, <1>3 DEF LifeInv, SweepInv, SeenIsConnected

\* The place of an instance changes that no query of a start is on the way for.
LEMMA NoQueryMoves ==
    ASSUME TypeInv, Orderly(queue, life, sweep), NEW i \in Instance, life[i] \notin {"fetching", "starting"},
           NEW p, life' = [life EXCEPT ![i] = p]
    PROVE  Orderly(queue, life', sweep)
<1>1. \A n \in DOMAIN queue : queue[n] \in Jobs
  BY DEF TypeInv, RouterTypes
<1>2. \A k \in Instance : life'[k] = IF k = i THEN p ELSE life[k]
  BY DEF TypeInv, LinkTypes
<1>3. ASSUME NEW n \in DOMAIN queue, Placed(queue[n], life, sweep)
      PROVE  Placed(queue[n], life', sweep)
  <2>1. queue[n].op \in {"row", "start"} => queue[n].inst \in Instance
    BY <1>1 DEF Jobs
  <2>2. QED
    BY <1>2, <1>3, <2>1 DEF Placed
<1>4. QED
  BY <1>3, OrderlyMoves

\* No query of a start is on the way for it, so the one it makes is the only one.
LEMMA QueryBegins ==
    ASSUME TypeInv, Orderly(queue, life, sweep), NEW i \in Instance, life[i] \notin {"fetching", "starting"},
           NEW j \in Jobs, life' = [life EXCEPT ![i] = IF j.op = "row" THEN "fetching" ELSE "starting"],
           j.op \in {"row", "start"}, j.inst = i, queue' = Append(queue, j), sweep' = sweep
    PROVE  Orderly(queue, life, sweep)'
<1> DEFINE p == IF j.op = "row" THEN "fetching" ELSE "starting"
<1>1. queue \in Seq(Jobs)
  BY DEF TypeInv, RouterTypes
<1>2. Orderly(queue, life', sweep)
  <2>1. life' = [life EXCEPT ![i] = p]
    OBVIOUS
  <2> HIDE DEF p
  <2>2. QED
    BY <2>1, NoQueryMoves
<1>3. Placed(j, life', sweep)
  BY DEF Placed, TypeInv, LinkTypes
<1>4. \A n \in DOMAIN queue : queue[n] # j
  BY DEF Orderly, Placed
<1>5. Orderly(Append(queue, j), life', sweep)
  BY <1>1, <1>2, <1>3, <1>4, OrderlyAppend
<1>6. QED
  BY <1>5

LEMMA RestartLife ==
    ASSUME TypeInv, LifeInv, NEW i \in Instance, NEW enabled \in {"on", "off"}, Restart(i, enabled)
    PROVE  LifeInv'
<1>1. Request(i) /\ UNCHANGED <<sweep, conn, seen>> /\ life[i] = "idle"
  BY DEF Restart, Request
<1>2. CASE i \in Running
  <2>1. life' = [life EXCEPT ![i] = "stopping"] /\ queue' = queue
    BY <1>2 DEF Restart
  <2>2. Orderly(queue, life, sweep)'
    BY <1>1, <2>1, NoQueryMoves DEF LifeInv
  <2>3. QED
    BY <1>1, <2>1, <2>2, RequestLife DEF Absent
<1>3. CASE i \notin Running
  <2> DEFINE j == [op |-> "row", inst |-> i]
  <2>1. life' = [life EXCEPT ![i] = "fetching"] /\ queue' = Append(queue, j)
    BY <1>3 DEF Restart
  <2>2. j \in Jobs /\ j.op = "row" /\ j.inst = i
    BY DEF Jobs
  <2> HIDE DEF j
  <2>3. Orderly(queue, life, sweep)'
    BY <1>1, <2>1, <2>2, QueryBegins DEF LifeInv
  <2>4. QED
    BY <1>1, <2>1, <2>3, RequestLife DEF Absent
<1>4. QED
  BY <1>2, <1>3

LEMMA StopLife ==
    ASSUME TypeInv, LifeInv, NEW i \in Instance, NEW delete \in BOOLEAN, Stop(i, delete)
    PROVE  LifeInv'
<1> DEFINE p == IF delete THEN "deleting" ELSE "leaving"
<1>1. Request(i) /\ UNCHANGED <<sweep, conn, seen, queue>> /\ life[i] = "idle" /\ life' = [life EXCEPT ![i] = p]
  BY DEF Stop, Request, router
<1>2. p \in Absent
  BY DEF Absent
<1> HIDE DEF p
<1>3. Orderly(queue, life, sweep)'
  BY <1>1, NoQueryMoves DEF LifeInv
<1>4. QED
  BY <1>1, <1>2, <1>3, RequestLife

\* An instance that is not in the dictionary goes on to another place; no sweep
\* stops it or loads it then.
LEMMA AwayLife ==
    ASSUME TypeInv, LifeInv, NEW i \in Instance, life[i] \in Absent,
           NEW p \in Absent \cup {"idle"}, life' = [life EXCEPT ![i] = p],
           UNCHANGED <<order, sweep>>,
           \A k \in Instance : k # i => conn'[k] = conn[k] /\ (k \in seen' <=> k \in seen),
           Orderly(queue, life, sweep)'
    PROVE  LifeInv'
<1>1. i \notin Running /\ Running' = Running
  BY DEF LifeInv, Running
<1>2. \A k \in Instance : life'[k] = IF k = i THEN p ELSE life[k]
  BY DEF TypeInv, LinkTypes
<1>3. life[i] \notin {"idle", "stopped"}
  BY DEF Absent
<1>4. SweepInv'
  <2>1. sweep # <<>> => sweep[1] \in Sweeps
    BY SweepType DEF TypeInv
  <2>2. sweep # <<>> => sweep[1].todo \subseteq Instance
    BY <2>1 DEF Sweeps
  <2>3. QED
    BY <1>1, <1>2, <1>3, <2>2 DEF LifeInv, SweepInv
<1>5. SeenIsConnected'
  BY <1>1, <1>2 DEF LifeInv, SeenIsConnected
<1>6. QED
  BY <1>1, <1>2, <1>4, <1>5 DEF LifeInv

LEMMA DisconnectedLife ==
    ASSUME TypeInv, LifeInv, NEW i \in Instance, NEW told \in BOOLEAN, Disconnected(i, told)
    PROVE  LifeInv'
<1>1. /\ life[i] \in {"stopping", "leaving", "deleting"} /\ UNCHANGED <<order, sweep>>
      /\ conn' = [conn EXCEPT ![i] = FALSE] /\ seen' = IF told THEN seen \ {i} ELSE seen
  BY DEF Disconnected, Severed
<1>2. /\ life[i] \in Absent /\ life[i] \notin {"fetching", "starting"}
      /\ \A k \in Instance : k # i => conn'[k] = conn[k] /\ (k \in seen' <=> k \in seen)
  BY <1>1 DEF Absent, TypeInv, LinkTypes
<1>3. CASE life[i] = "stopping"
  <2> DEFINE j == [op |-> "row", inst |-> i]
  <2>1. life' = [life EXCEPT ![i] = "fetching"] /\ queue' = Append(queue, j)
    BY <1>3 DEF Disconnected
  <2>2. j \in Jobs /\ j.op = "row" /\ j.inst = i
    BY DEF Jobs
  <2> HIDE DEF j
  <2>3. Orderly(queue, life, sweep)'
    BY <1>1, <1>2, <2>1, <2>2, QueryBegins DEF LifeInv
  <2>4. QED
    BY <1>1, <1>2, <2>1, <2>3, AwayLife DEF Absent
<1>4. CASE life[i] # "stopping"
  <2>1. life' = [life EXCEPT ![i] = "idle"] /\ queue' = queue
    BY <1>4 DEF Disconnected
  <2>2. Orderly(queue, life, sweep)'
    BY <1>1, <1>2, <2>1, NoQueryMoves DEF LifeInv
  <2>3. QED
    BY <1>1, <1>2, <2>1, <2>2, AwayLife
<1>5. QED
  BY <1>3, <1>4

LEMMA StartFailsLife ==
    ASSUME TypeInv, LifeInv, NEW i \in Instance, StartFails(i)
    PROVE  LifeInv'
<1>1. /\ life[i] = "connecting" /\ life' = [life EXCEPT ![i] = "idle"]
      /\ UNCHANGED <<order, sweep, conn, seen, queue>>
  BY DEF StartFails, router
<1>2. Orderly(queue, life, sweep)'
  BY <1>1, NoQueryMoves DEF LifeInv
<1>3. QED
  BY <1>1, <1>2, AwayLife DEF Absent

LEMMA RegisterLife ==
    ASSUME TypeInv, LifeInv, NEW i \in Instance, Register(i)
    PROVE  LifeInv'
<1> DEFINE j == [op |-> "start", inst |-> i]
<1>1. /\ life[i] = "connecting" /\ life' = [life EXCEPT ![i] = "starting"]
      /\ order' = Append(order, i) /\ queue' = Append(queue, j)
      /\ UNCHANGED <<sweep, conn, seen>>
  BY DEF Register
<1>2. Running' = Running \cup {i}
  BY <1>1, AppendedSet DEF Running, TypeInv, LinkTypes
<1>3. \A k \in Instance : life'[k] = IF k = i THEN "starting" ELSE life[k]
  BY <1>1 DEF TypeInv, LinkTypes
<1>4. j \in Jobs /\ j.op = "start" /\ j.inst = i
  BY DEF Jobs
<1> HIDE DEF j
<1>5. Orderly(queue, life, sweep)'
  BY <1>1, <1>4, QueryBegins DEF LifeInv
<1>6. SweepInv'
  <2>1. sweep # <<>> => sweep[1] \in Sweeps
    BY SweepType DEF TypeInv
  <2>2. sweep # <<>> => sweep[1].todo \subseteq Instance
    BY <2>1 DEF Sweeps
  <2>3. QED
    BY <1>1, <1>2, <1>3, <2>2 DEF LifeInv, SweepInv
<1>7. QED
  BY <1>1, <1>2, <1>3, <1>5, <1>6 DEF LifeInv, SeenIsConnected, Absent

\* Only a query of the sweep itself is placed by how far the sweep has come.
LEMMA SweepMoves ==
    ASSUME NEW q, NEW places, NEW w, Orderly(q, places, w), NEW x,
           w # <<>> /\ w[1].stage = "load" => x # <<>> /\ x[1].stage = "load"
    PROVE  Orderly(q, places, x)
BY OrderlyMoves DEF Placed

LEMMA BeginSweepLife ==
    ASSUME TypeInv, LifeInv, NEW restore \in BOOLEAN, BeginSweep(restore)
    PROVE  LifeInv'
<1>1. /\ sweep = <<>> /\ \A i \in Instance : life[i] = "idle"
      /\ sweep' = <<[stage |-> "stop", restore |-> restore, todo |-> Running]>>
      /\ UNCHANGED <<order, conn, life, seen, queue>>
  BY DEF BeginSweep, router
<1>2. sweep' # <<>> /\ sweep'[1].stage = "stop"
  BY <1>1
<1>3. Orderly(queue, life, sweep')
  BY <1>1, SweepMoves DEF LifeInv
<1>4. Orderly(queue, life, sweep)'
  BY <1>1, <1>3
<1>5. SweepInv'
  BY <1>1, <1>2 DEF SweepInv
<1>6. QED
  BY <1>1, <1>4, <1>5 DEF LifeInv, SeenIsConnected, Running

LEMMA SweepStopsLife ==
    ASSUME TypeInv, LifeInv, NEW i \in Instance, NEW told \in BOOLEAN, SweepStops(i, told)
    PROVE  LifeInv'
<1>1. /\ sweep # <<>> /\ sweep[1].stage = "stop"
      /\ life' = [life EXCEPT ![i] = "stopped"] /\ UNCHANGED <<order, queue>>
      /\ sweep' = [sweep EXCEPT ![1].todo = sweep[1].todo \ {i}]
      /\ conn' = [conn EXCEPT ![i] = FALSE] /\ seen' = IF told THEN seen \ {i} ELSE seen
  BY DEF SweepStops, Severed
<1>2. sweep' # <<>> /\ sweep'[1].stage = "stop"
  <2>1. sweep[1] \in Sweeps /\ sweep = <<sweep[1]>>
    BY <1>1, SweepType DEF TypeInv
  <2>2. sweep[1].todo \ {i} \in SUBSET Instance
    BY <2>1 DEF Sweeps
  <2>3. sweep' = <<[sweep[1] EXCEPT !.todo = sweep[1].todo \ {i}]>>
    BY <1>1, <2>2, SweepType DEF TypeInv
  <2>4. QED
    BY <1>1, <2>1, <2>3 DEF Sweeps
<1>3. life[i] \in {"idle", "stopped"}
  BY <1>1 DEF LifeInv, SweepInv
<1>4. Orderly(queue, life', sweep)
  BY <1>1, <1>3, NoQueryMoves DEF LifeInv
<1>5. Orderly(queue, life', sweep')
  BY <1>1, <1>4, SweepMoves
<1>6. Orderly(queue, life, sweep)'
  BY <1>1, <1>5
<1>7. \A k \in Instance : life'[k] = IF k = i THEN "stopped" ELSE life[k]
  BY <1>1 DEF TypeInv, LinkTypes
<1>8. SweepInv'
  BY <1>1, <1>2, <1>7 DEF LifeInv, SweepInv
<1>9. SeenIsConnected'
  BY <1>1, <1>7 DEF LifeInv, SeenIsConnected, Running, TypeInv, LinkTypes
<1>10. QED
  BY <1>1, <1>6, <1>7, <1>8, <1>9 DEF LifeInv, Running, Absent

LEMMA SweepLoadsLife ==
    ASSUME TypeInv, LifeInv, SweepLoads
    PROVE  LifeInv'
<1> DEFINE j == [op |-> "instances"]
<1>1. /\ sweep # <<>> /\ sweep[1].stage = "stop"
      /\ order' = <<>> /\ life' = [i \in Instance |-> "idle"]
      /\ queue' = Append(queue, j)
      /\ sweep' = [sweep EXCEPT ![1].stage = "load"]
  BY DEF SweepLoads
<1>2. sweep' # <<>> /\ sweep'[1].stage = "load"
  <2>1. sweep[1] \in Sweeps /\ sweep' = <<[sweep[1] EXCEPT !.stage = "load"]>>
    BY <1>1, SweepType DEF TypeInv
  <2>2. QED
    BY <2>1 DEF Sweeps
<1>3. j.op = "instances"
  OBVIOUS
<1> HIDE DEF j
<1>4. queue \in Seq(Jobs) /\ \A n \in DOMAIN queue : queue[n] \in Jobs
  BY DEF TypeInv, RouterTypes
<1>5. \A n \in DOMAIN queue : queue[n].op \notin Single
  <2>1. TAKE n \in DOMAIN queue
  <2>2. Placed(queue[n], life, sweep)
    BY DEF LifeInv, Orderly
  <2>3. queue[n].op \in {"row", "start"} => queue[n].inst \in Instance
    BY <1>4 DEF Jobs
  <2>4. QED
    BY <1>1, <2>2, <2>3 DEF LifeInv, SweepInv, Placed, Single
<1>6. Orderly(queue, life', sweep')
  BY <1>5, OrderlyMoves DEF LifeInv, Placed, Single
<1>7. Placed(j, life', sweep')
  BY <1>2, <1>3 DEF Placed
<1>8. \A n \in DOMAIN queue : queue[n] # j
  BY <1>3, <1>5 DEF Single
<1>9. Orderly(Append(queue, j), life', sweep')
  BY <1>4, <1>6, <1>7, <1>8, OrderlyAppend
<1>10. Orderly(queue, life, sweep)'
  BY <1>1, <1>9
<1>11. Running' = {}
  BY <1>1 DEF Running, ToSet
<1>12. SweepInv'
  BY <1>1, <1>2 DEF SweepInv
<1>13. QED
  BY <1>10, <1>11, <1>12 DEF LifeInv, SeenIsConnected

LEMMA SweepStartsLife ==
    ASSUME TypeInv, LifeInv, NEW i \in Instance, SweepStarts(i)
    PROVE  LifeInv'
<1>1. /\ sweep # <<>> /\ sweep[1].stage = "start" /\ i \in sweep[1].todo
      /\ life' = [life EXCEPT ![i] = "connecting"] /\ UNCHANGED <<order, conn, seen, queue>>
      /\ sweep' = [sweep EXCEPT ![1].todo = sweep[1].todo \ {i}]
  BY DEF SweepStarts, Foremost, router
<1>2. sweep' # <<>> /\ sweep'[1].stage = "start" /\ sweep'[1].todo = sweep[1].todo \ {i}
  <2>1. sweep[1] \in Sweeps /\ sweep = <<sweep[1]>>
    BY <1>1, SweepType DEF TypeInv
  <2>2. sweep[1].todo \ {i} \in SUBSET Instance
    BY <2>1 DEF Sweeps
  <2>3. sweep' = <<[sweep[1] EXCEPT !.todo = sweep[1].todo \ {i}]>>
    BY <1>1, <2>2, SweepType DEF TypeInv
  <2>4. QED
    BY <1>1, <2>1, <2>3 DEF Sweeps
<1>3. i \notin Running /\ life[i] = "idle" /\ \A k \in sweep[1].todo : k \notin Running /\ life[k] = "idle"
  BY <1>1 DEF LifeInv, SweepInv
<1>4. Orderly(queue, life', sweep)
  BY <1>1, <1>3, NoQueryMoves DEF LifeInv
<1>5. Orderly(queue, life', sweep')
  BY <1>1, <1>4, SweepMoves
<1>6. Orderly(queue, life, sweep)'
  BY <1>1, <1>5
<1>7. \A k \in Instance : life'[k] = IF k = i THEN "connecting" ELSE life[k]
  BY <1>1 DEF TypeInv, LinkTypes
<1>8. SweepInv'
  <2>1. sweep[1] \in Sweeps
    BY <1>1, SweepType DEF TypeInv
  <2>2. sweep[1].todo \subseteq Instance
    BY <2>1 DEF Sweeps
  <2>3. QED
    BY <1>1, <1>2, <1>3, <1>7, <2>2 DEF SweepInv, Running
<1>9. SeenIsConnected'
  BY <1>1, <1>7 DEF LifeInv, SeenIsConnected, Running
<1>10. QED
  BY <1>1, <1>3, <1>6, <1>7, <1>8, <1>9 DEF LifeInv, Running

LEMMA SweepEndsLife ==
    ASSUME TypeInv, LifeInv, SweepEnds
    PROVE  LifeInv'
<1>1. /\ sweep # <<>> /\ sweep[1].stage = "start" /\ sweep' = <<>>
      /\ UNCHANGED <<order, conn, life, seen, queue>>
  BY DEF SweepEnds, router
<1>2. Orderly(queue, life, sweep')
  BY <1>1, SweepMoves DEF LifeInv
<1>3. Orderly(queue, life, sweep)'
  BY <1>1, <1>2
<1>4. QED
  BY <1>1, <1>3 DEF LifeInv, SweepInv, SeenIsConnected, Running

\* The one query of a start is answered, and its instance goes on.
LEMMA QueryAnswered ==
    ASSUME TypeInv, Orderly(queue, life, sweep), queue # <<>>, Head(queue).op \in {"row", "start"},
           NEW i, i = Head(queue).inst, NEW p, life' = [life EXCEPT ![i] = p]
    PROVE  Orderly(Tail(queue), life', sweep)
<1> DEFINE h == Head(queue)
           t == Tail(queue)
<1>1. h \in Jobs /\ t \in Seq(Jobs) /\ \A n \in DOMAIN t : t[n] \in Jobs
  BY AnswerType DEF TypeInv
<1>2. /\ Orderly(t, life, sweep)
      /\ Placed(h, life, sweep)
      /\ \A n \in DOMAIN t : t[n] # h
  BY OrderlyTail DEF TypeInv, RouterTypes, Single
<1>3. i \in Instance
  BY <1>1 DEF Jobs
<1>4. \A k \in Instance : life'[k] = IF k = i THEN p ELSE life[k]
  BY <1>3 DEF TypeInv, LinkTypes
<1> HIDE DEF t
<1>5. ASSUME NEW n \in DOMAIN t, Placed(t[n], life, sweep)
      PROVE  Placed(t[n], life', sweep)
  <2>1. CASE t[n].op \notin {"row", "start"}
    BY <1>5, <2>1 DEF Placed
  <2>2. CASE t[n].op \in {"row", "start"}
    <3>1. t[n] \in [op : {"row", "start"}, inst : Instance]
      BY <1>1, <2>2 DEF Jobs
    <3>2. h \in [op : {"row", "start"}, inst : Instance]
      BY <1>1 DEF Jobs
    <3>3. t[n].inst = i => t[n].op = h.op
      BY <1>2, <1>5, <2>2 DEF Placed
    <3>4. t[n].inst # i
      <4>1. t[n].op = h.op /\ t[n].inst = h.inst => t[n] = h
        BY <3>1, <3>2
      <4>2. QED
        BY <1>2, <3>3, <4>1
    <3>5. t[n].inst \in Instance
      BY <3>1
    <3>6. QED
      BY <1>4, <1>5, <2>2, <3>4, <3>5 DEF Placed
  <2>3. QED
    BY <2>1, <2>2
<1>6. Orderly(t, life', sweep)
  BY <1>2, <1>5, OrderlyMoves
<1>7. QED
  BY <1>6 DEF t

LEMMA AnnounceStartedLife ==
    ASSUME TypeInv, LifeInv, AnnounceStarted
    PROVE  LifeInv'
<1> DEFINE i == Head(queue).inst
           j == Listing(i, order)
<1>1. queue # <<>> /\ Head(queue).op = "start"
  BY DEF AnnounceStarted, Answer
<1>2. Head(queue) \in Jobs /\ Tail(queue) \in Seq(Jobs)
  BY <1>1, AnswerType DEF TypeInv
<1>3. i \in Instance
  BY <1>1, <1>2 DEF Jobs
<1>4. /\ life' = [life EXCEPT ![i] = "idle"] /\ UNCHANGED <<order, conn, sweep>>
      /\ queue' = Tail(queue) \/ queue' = Append(Tail(queue), j)
      /\ seen' = IF conn[i] THEN ((seen \cap Running) \ {i}) \cup {i} ELSE (seen \cap Running) \ {i}
  BY DEF AnnounceStarted
<1>5. Orderly(Tail(queue), life', sweep)
  BY <1>1, <1>4, QueryAnswered DEF LifeInv
<1>6. Orderly(queue, life, sweep)'
  <2>1. CASE queue' = Tail(queue)
    BY <1>4, <1>5, <2>1
  <2>2. CASE queue' = Append(Tail(queue), j)
    <3>1. j.op \notin Single /\ Placed(j, life', sweep)
      BY DEF Listing, Single, Placed
    <3> HIDE DEF j
    <3>2. Orderly(Append(Tail(queue), j), life', sweep)
      BY <1>2, <1>5, <3>1, OrderlyAppend
    <3>3. QED
      BY <1>4, <2>2, <3>2
  <2>3. QED
    BY <1>4, <2>1, <2>2
<1>7. life[i] = "starting"
  BY <1>1, OrderlyTail DEF LifeInv, Placed, TypeInv, RouterTypes
<1> HIDE DEF i
<1>8. \A k \in Instance : life'[k] = IF k = i THEN "idle" ELSE life[k]
  BY <1>3, <1>4 DEF TypeInv, LinkTypes
<1>9. SweepInv'
  <2>1. sweep # <<>> => sweep[1] \in Sweeps
    BY SweepType DEF TypeInv
  <2>2. sweep # <<>> => sweep[1].todo \subseteq Instance
    BY <2>1 DEF Sweeps
  <2>3. QED
    BY <1>3, <1>4, <1>7, <1>8, <2>2 DEF LifeInv, SweepInv, Running
<1>10. SeenIsConnected'
  BY <1>3, <1>4, <1>8 DEF LifeInv, SeenIsConnected, Running
<1>11. QED
  BY <1>4, <1>6, <1>8, <1>9, <1>10 DEF LifeInv, Running, Absent

LEMMA ReadRowLife ==
    ASSUME TypeInv, LifeInv, ReadInstance, Answer("row")
    PROVE  LifeInv'
<1> DEFINE i == Head(queue).inst
           p == IF config[i] = "on" THEN "connecting" ELSE "idle"
<1>1. queue # <<>> /\ Head(queue).op = "row"
  BY DEF Answer
<1>2. Head(queue) \in Jobs /\ Tail(queue) \in Seq(Jobs)
  BY <1>1, AnswerType DEF TypeInv
<1>3. i \in Instance
  BY <1>1, <1>2 DEF Jobs
<1>4. life' = [life EXCEPT ![i] = p] /\ UNCHANGED <<order, conn, sweep, seen>> /\ queue' = Tail(queue)
  BY <1>1 DEF ReadInstance, Answer
<1>5. p \in Absent \cup {"idle"}
  BY DEF Absent
<1> HIDE DEF p
<1>6. Orderly(queue, life, sweep)'
  <2>1. Orderly(Tail(queue), life', sweep)
    BY <1>1, <1>4, QueryAnswered DEF LifeInv
  <2>2. QED
    BY <1>4, <2>1
<1>7. life[i] \in Absent
  BY <1>1, OrderlyTail DEF LifeInv, Placed, TypeInv, RouterTypes, Absent
<1> HIDE DEF i
<1>8. QED
  BY <1>3, <1>4, <1>5, <1>6, <1>7, AwayLife

LEMMA ReadInstancesLife ==
    ASSUME TypeInv, LifeInv, ReadInstance, Answer("instances")
    PROVE  LifeInv'
<1>1. queue # <<>> /\ Head(queue).op = "instances"
  BY DEF Answer
<1>2. Head(queue) \in Jobs /\ Tail(queue) \in Seq(Jobs) /\ \A n \in DOMAIN Tail(queue) : Tail(queue)[n] \in Jobs
  BY <1>1, AnswerType DEF TypeInv
<1>3. /\ sweep' = [sweep EXCEPT ![1].stage = "start", ![1].todo = Enabled]
      /\ UNCHANGED <<order, conn, life, seen>> /\ queue' = Tail(queue)
  BY <1>1 DEF ReadInstance, Answer
<1>4. /\ Orderly(Tail(queue), life, sweep)
      /\ Placed(Head(queue), life, sweep)
      /\ \A n \in DOMAIN Tail(queue) : Tail(queue)[n] # Head(queue)
  BY <1>1, OrderlyTail DEF LifeInv, TypeInv, RouterTypes, Single
<1>5. sweep # <<>> /\ sweep[1].stage = "load"
  BY <1>1, <1>4 DEF Placed
<1>6. sweep' # <<>> /\ sweep'[1].stage = "start" /\ sweep'[1].todo = Enabled
  <2>1. sweep[1] \in Sweeps
    BY <1>5, SweepType DEF TypeInv
  <2>2. sweep' = <<[sweep[1] EXCEPT !.stage = "start", !.todo = Enabled]>>
    BY <1>3, <1>5, SweepLoaded DEF TypeInv
  <2>3. QED
    BY <2>1, <2>2 DEF Sweeps
<1>7. \A n \in DOMAIN Tail(queue) : Tail(queue)[n].op # "instances"
  <2>1. TAKE n \in DOMAIN Tail(queue)
  <2>2. Tail(queue)[n].op = "instances" => Tail(queue)[n] \in [op : {"instances"}]
    BY <1>2 DEF Jobs
  <2>3. Head(queue) \in [op : {"instances"}]
    BY <1>1, <1>2 DEF Jobs
  <2>4. QED
    BY <1>4, <2>2, <2>3
<1>8. Orderly(Tail(queue), life, sweep')
  <2>1. ASSUME NEW n \in DOMAIN Tail(queue), Placed(Tail(queue)[n], life, sweep)
        PROVE  Placed(Tail(queue)[n], life, sweep')
    BY ONLY <1>7, <2>1 DEF Placed
  <2>2. QED
    BY ONLY <1>4, <2>1, OrderlyMoves
<1>9. Orderly(queue, life, sweep)'
  BY <1>3, <1>8
<1>10. Running = {} /\ \A k \in Instance : life[k] = "idle"
  BY <1>5 DEF LifeInv, SweepInv, Running, ToSet
<1>11. SweepInv'
  BY <1>3, <1>6, <1>10 DEF SweepInv, Running, Enabled
<1>12. QED
  BY <1>3, <1>9, <1>11 DEF LifeInv, SeenIsConnected, Running

-----------------------------------------------------------------------------
(* What is owed is offered when everything has settled.  The invariant     *)
(* says of a binding that is owed the value and has not got it who will    *)
(* offer it: a query that is waited for, a coroutine that has its row or   *)
(* is to resend to it, or the start of its instance, which resends.        *)

Waiting == ToSet(queue)
UnderWay == ToSet(work) \cup {w.task : w \in ToSet(writing)}

EmptyCaches(b) == last[b] = 0 /\ ~sent[b]
Carries(t, b) == \E r \in ToSet(t.todo) : r.b = b /\ r.inst = row[b].inst

\* A query whose answer makes a coroutine write to b, or resend to it.
Announces(j, b) ==
    \/ j.op = "all"
    \/ j.op = "list" /\ j.inst = row[b].inst
    \/ j.op \in {"reload", "one"} /\ b \in ToSet(j.rest)
Brings(t, b) == b \in ToSet(t.rest) \/ (~t.only /\ Carries(t, b))

\* The write of a resend: no cached value stands in its way.
Asks(j, b) == j.op = "one" /\ j.b = b /\ j.v = value
Writes(t, b) == t.only /\ Carries(t, b) /\ t.v = value

Coming(b) ==
    \/ \E j \in Waiting : Announces(j, b)
    \/ \E t \in UnderWay : Brings(t, b)
    \/ EmptyCaches(b) /\ ((\E j \in Waiting : Asks(j, b)) \/ (\E t \in UnderWay : Writes(t, b)))
    \/ life[row[b].inst] = "starting"

Promised(b) == Owed(b) => Offered(b) \/ Coming(b)

\* An event carries the value of the data point, unless a restore took it away.
EventIsCurrent(val) ==
    val # 0 =>
      /\ \A j \in Waiting : j.op = "all" => j.v = val
      /\ \A t \in UnderWay : ~t.only => t.v = val

\* A resend of an older value comes before the event with the present one.
Overtaken(q, val) ==
    \A n \in DOMAIN q :
      q[n].op = "one" /\ val \notin {0, q[n].v} => \E m \in DOMAIN q : n < m /\ q[m].op = "all"
OldWrite(val) ==
    \A t \in ToSet(work) :
      t.only /\ t.todo # <<>> /\ val \notin {0, t.v} => \E j \in Waiting : j.op = "all"

\* A resend has one row, the binding's present one, and writes it at once.
Resends ==
    /\ \A t \in ToSet(work) : t.only => t.todo = <<>> \/ \E b \in Binding : t.todo = <<RowOf(b)>>
    /\ \A w \in ToSet(writing) : w.task.only => w.task.todo = <<>>

Sound(val) == EventIsCurrent(val) /\ Overtaken(queue, val) /\ OldWrite(val) /\ Resends
PromiseInv == Sound(value) /\ \A b \in Binding : Promised(b)

\* Members of sequences.
LEMMA SetOfTail ==
    ASSUME NEW S, NEW s \in Seq(S), s # <<>>
    PROVE  /\ Head(s) \in S /\ Tail(s) \in Seq(S)
           /\ ToSet(s) = {Head(s)} \cup ToSet(Tail(s))
<1> DEFINE t == Tail(s)
<1>1. /\ Head(s) \in S /\ t \in Seq(S) /\ Head(s) = s[1]
      /\ DOMAIN s = 1 .. Len(s) /\ Len(s) \in Nat /\ Len(s) >= 1
      /\ DOMAIN t = 1 .. Len(s) - 1
      /\ \A n \in 1 .. Len(s) - 1 : t[n] = s[n + 1]
  <2>1. t \in Seq(S) /\ Head(s) \in S /\ Len(t) = Len(s) - 1 /\ \A n \in 1 .. Len(t) : t[n] = s[n + 1]
    BY HeadTailProperties
  <2>2. DOMAIN s = 1 .. Len(s) /\ Len(s) \in Nat /\ Len(s) # 0 /\ Head(s) = s[1]
    BY EmptySeq, LenProperties
  <2>3. DOMAIN t = 1 .. Len(t)
    BY <2>1
  <2> HIDE DEF t
  <2>4. QED
    BY <2>1, <2>2, <2>3
<1> HIDE DEF t
<1>2. \A n \in 1 .. Len(s) : n = 1 \/ (n - 1 \in 1 .. Len(s) - 1 /\ t[n - 1] = s[n])
  <2>1. TAKE n \in 1 .. Len(s)
  <2>2. n # 1 => n - 1 \in 1 .. Len(s) - 1 /\ (n - 1) + 1 = n
    BY <1>1
  <2>3. n # 1 => t[n - 1] = s[n]
    BY <1>1, <2>2
  <2>4. QED
    BY <2>2, <2>3
<1>3. \A n \in 1 .. Len(s) - 1 : n + 1 \in 1 .. Len(s) /\ t[n] = s[n + 1]
  BY <1>1
<1>4. ToSet(s) \subseteq {Head(s)} \cup ToSet(t)
  BY <1>1, <1>2 DEF ToSet
<1>5. {Head(s)} \cup ToSet(t) \subseteq ToSet(s)
  BY <1>1, <1>3 DEF ToSet
<1>6. QED
  BY <1>1, <1>4, <1>5 DEF t

LEMMA SetOfRemoved ==
    ASSUME NEW S, NEW s \in Seq(S), NEW n \in DOMAIN s
    PROVE  /\ ToSet(RemoveAt(s, n)) \subseteq ToSet(s)
           /\ ToSet(s) \subseteq ToSet(RemoveAt(s, n)) \cup {s[n]}
<1> DEFINE a == SubSeq(s, 1, n - 1)
           z == SubSeq(s, n + 1, Len(s))
           t == a \o z
<1>1. DOMAIN s = 1 .. Len(s) /\ Len(s) \in Nat /\ n \in 1 .. Len(s)
  OBVIOUS
<1>2. a \in Seq(S) /\ Len(a) = n - 1 /\ \A k \in 1 .. n - 1 : a[k] = s[k]
  BY <1>1
<1>3. z \in Seq(S) /\ Len(z) = Len(s) - n /\ \A k \in 1 .. Len(s) - n : z[k] = s[n + k]
  BY <1>1
<1> HIDE DEF a, z
<1>4. /\ t \in Seq(S) /\ Len(t) = Len(a) + Len(z)
      /\ \A k \in 1 .. Len(a) + Len(z) : t[k] = IF k <= Len(a) THEN a[k] ELSE z[k - Len(a)]
  BY <1>2, <1>3, ConcatProperties
<1> HIDE DEF t
<1>5. DOMAIN t = 1 .. Len(s) - 1
  BY <1>1, <1>2, <1>3, <1>4
<1>6. \A k \in 1 .. Len(s) - 1 : \E m \in 1 .. Len(s) : t[k] = s[m]
  <2>1. TAKE k \in 1 .. Len(s) - 1
  <2>2. t[k] = IF k <= n - 1 THEN a[k] ELSE z[k - (n - 1)]
    BY <1>1, <1>2, <1>3, <1>4
  <2>3. CASE k <= n - 1
    BY <1>1, <1>2, <2>2, <2>3
  <2>4. CASE ~(k <= n - 1)
    <3>1. k - (n - 1) \in 1 .. Len(s) - n /\ n + (k - (n - 1)) \in 1 .. Len(s)
      BY <1>1, <2>4
    <3>2. QED
      BY <1>3, <2>2, <2>4, <3>1
  <2>5. QED
    BY <2>3, <2>4
<1>7. \A m \in 1 .. Len(s) : m # n => \E k \in 1 .. Len(s) - 1 : t[k] = s[m]
  <2>1. SUFFICES ASSUME NEW m \in 1 .. Len(s), m # n
                 PROVE  \E k \in 1 .. Len(s) - 1 : t[k] = s[m]
    OBVIOUS
  <2>2. CASE m < n
    <3>1. m \in 1 .. Len(s) - 1 /\ m \in 1 .. n - 1 /\ m <= Len(a) /\ m \in 1 .. Len(a) + Len(z)
      BY <1>1, <1>2, <1>3, <2>2
    <3>2. QED
      BY <1>2, <1>4, <3>1
  <2>3. CASE n < m
    <3>1. /\ m - 1 \in 1 .. Len(s) - 1 /\ m - 1 \in 1 .. Len(a) + Len(z) /\ ~(m - 1 <= Len(a))
          /\ (m - 1) - Len(a) = m - n /\ m - n \in 1 .. Len(s) - n /\ n + (m - n) = m
      BY <1>1, <1>2, <1>3, <2>3
    <3>2. t[m - 1] = z[m - n] /\ z[m - n] = s[m]
      BY <1>3, <1>4, <3>1
    <3>3. QED
      BY <3>1, <3>2
  <2>4. QED
    BY <1>1, <2>1, <2>2, <2>3
<1>8. ToSet(t) \subseteq ToSet(s)
  BY <1>1, <1>5, <1>6 DEF ToSet
<1>9. ToSet(s) \subseteq ToSet(t) \cup {s[n]}
  BY <1>1, <1>5, <1>7 DEF ToSet
<1>10. QED
  BY <1>8, <1>9 DEF RemoveAt, t, a, z


LEMMA SetOfAppended ==
    ASSUME NEW S, NEW s \in Seq(S), NEW e
    PROVE  ToSet(Append(s, e)) = ToSet(s) \cup {e}
<1>1. /\ DOMAIN s = 1 .. Len(s) /\ Len(s) \in Nat
      /\ DOMAIN Append(s, e) = 1 .. Len(s) + 1
      /\ Append(s, e)[Len(s) + 1] = e
      /\ \A n \in 1 .. Len(s) : Append(s, e)[n] = s[n]
  OBVIOUS
<1>2. \A n \in 1 .. Len(s) + 1 : n \in 1 .. Len(s) \/ n = Len(s) + 1
  BY <1>1
<1>3. QED
  BY <1>1, <1>2 DEF ToSet

\* Rows that are read.
LEMMA RowsAreThere ==
    ASSUME NEW B, B \subseteq Binding
    PROVE  ToSet(RowsOf(B)) = {RowOf(b) : b \in {c \in B : row[c].mode = "on"}}
<1> DEFINE S == {b \in B : row[b].mode = "on"}
           s == SetToSeq(S)
<1>1. IsFiniteSet(S)
  BY FS_Subset
<1>2. s \in Seq(S) /\ ToSet(s) = S
  BY <1>1, Enumerated
<1> HIDE DEF s
<1>3. \A n \in DOMAIN s : s[n] \in S
  BY <1>2
<1>4. \A b \in S : \E n \in DOMAIN s : s[n] = b
  BY <1>2 DEF ToSet
<1> DEFINE f == [n \in DOMAIN s |-> RowOf(s[n])]
<1>5. DOMAIN f = DOMAIN s /\ \A n \in DOMAIN s : f[n] = RowOf(s[n])
  OBVIOUS
<1>6. RowsOf(B) = f
  BY DEF RowsOf, s
<1> HIDE DEF f
<1>7. ToSet(f) = {f[n] : n \in DOMAIN s}
  BY <1>5 DEF ToSet
<1>8. \A x \in ToSet(f) : \E b \in S : x = RowOf(b)
  BY <1>3, <1>5, <1>7
<1>9. \A b \in S : RowOf(b) \in ToSet(f)
  BY <1>4, <1>5, <1>7
<1>10. QED
  BY <1>6, <1>8, <1>9

LEMMA OneRow ==
    ASSUME TableTypes, NEW b \in Binding
    PROVE  RowsOf({b}) = IF row[b].mode = "on" THEN <<RowOf(b)>> ELSE <<>>
<1> DEFINE S == {c \in {b} : row[c].mode = "on"}
           s == SetToSeq(S)
<1>1. IsFiniteSet(S)
  BY FS_Subset, FS_Singleton
<1>2. s \in Seq(S) /\ ToSet(s) = S /\ IsInjective(s)
  BY <1>1, Enumerated
<1>3. RowsOf({b}) = [n \in DOMAIN s |-> RowOf(s[n])]
  BY DEF RowsOf
<1> HIDE DEF s
<1>4. CASE row[b].mode = "on"
  <2>1. \A n \in DOMAIN s : s[n] = b
    BY <1>2
  <2>2. \E n \in DOMAIN s : s[n] = b
    BY <1>2, <1>4 DEF ToSet
  <2>3. \A m, n \in DOMAIN s : m = n
    BY <1>2, <2>1 DEF IsInjective
  <2>4. DOMAIN s = 1 .. Len(s) /\ Len(s) \in Nat
    BY <1>2
  <2>5. Len(s) = 1
    <3>1. Len(s) >= 1 /\ 1 \in 1 .. Len(s) /\ Len(s) \in 1 .. Len(s)
      BY <2>2, <2>4
    <3>2. QED
      BY <2>3, <2>4, <3>1
  <2>6. DOMAIN s = {1} /\ s[1] = b
    BY <2>1, <2>4, <2>5
  <2>7. RowsOf({b}) = [n \in {1} |-> RowOf(b)]
    BY <1>3, <2>6, Zenon
  <2>8. [n \in {1} |-> RowOf(b)] = <<RowOf(b)>>
    OBVIOUS
  <2>9. QED
    BY <1>4, <2>7, <2>8
<1>5. CASE row[b].mode # "on"
  <2>1. S = {} /\ s = <<>>
    BY <1>2, <1>5
  <2>2. QED
    BY <1>3, <1>5, <2>1
<1>6. QED
  BY <1>4, <1>5

\* What the step of a coroutine leaves to it.
LEMMA GoesOnWith ==
    ASSUME NEW t, GoesOn(t)
    PROVE  IF t.todo = <<>> /\ t.rest = <<>> THEN ToSet(work') = {} ELSE ToSet(work') = {t}
BY DEF GoesOn, ToSet

LEMMA WorkSet ==
    ASSUME WorkTypes
    PROVE  /\ work # <<>> => ToSet(work) = {work[1]}
           /\ work = <<>> => ToSet(work) = {}
<1>1. DOMAIN work = 1 .. Len(work) /\ Len(work) \in Nat /\ Len(work) <= 1
  BY DEF WorkTypes
<1>2. work # <<>> => DOMAIN work = {1}
  BY <1>1 DEF WorkTypes
<1>3. work = <<>> => DOMAIN work = {}
  OBVIOUS
<1>4. QED
  BY <1>2, <1>3 DEF ToSet

LEMMA ReloadGoesOn ==
    ASSUME NEW s, NEW rest, NEW q \in Seq(Jobs), ReloadThen(s, rest, q)
    PROVE  \/ /\ queue' = q
              /\ IF rest = <<>> THEN ToSet(work') = {} ELSE ToSet(work') = {Resend(rest)}
           \/ /\ \E j : /\ j.op = "reload" /\ j.rest = rest
                        /\ queue' = Append(q, j)
                        /\ Waiting' = ToSet(q) \cup {j}
              /\ ToSet(work') = {}
<1> DEFINE k == SelectInSeq(s, LAMBDA i : i \in Running)
           j == [op |-> "reload", left |-> SubSeq(s, k + 1, Len(s)), rest |-> rest]
<1>1. CASE k = 0
  <2>1. queue' = q /\ GoesOn(Resend(rest))
    BY <1>1 DEF ReloadThen
  <2>2. Resend(rest).todo = <<>> /\ Resend(rest).rest = rest
    BY DEF Resend, Task
  <2>3. QED
    BY <2>1, <2>2, GoesOnWith
<1>2. CASE k # 0
  <2>1. queue' = Append(q, j) /\ work' = <<>>
    BY <1>2 DEF ReloadThen
  <2>2. j.op = "reload" /\ j.rest = rest
    OBVIOUS
  <2> HIDE DEF j
  <2>3. ToSet(queue') = ToSet(q) \cup {j} /\ ToSet(work') = {}
    BY <2>1, SetOfAppended DEF ToSet
  <2>4. QED
    BY <2>1, <2>2, <2>3 DEF Waiting
<1>3. QED
  BY <1>1, <1>2

\* The order of the queue.
LEMMA OvertakenTail ==
    ASSUME NEW q \in Seq(Jobs), q # <<>>, NEW val, Overtaken(q, val)
    PROVE  /\ Overtaken(Tail(q), val)
           /\ Head(q).op = "one" /\ val \notin {0, Head(q).v} => \E j \in ToSet(Tail(q)) : j.op = "all"
<1> DEFINE t == Tail(q)
<1>1. /\ DOMAIN q = 1 .. Len(q) /\ Len(q) \in Nat /\ Len(q) >= 1
      /\ Head(q) = q[1] /\ DOMAIN t = 1 .. Len(q) - 1
      /\ \A n \in 1 .. Len(q) - 1 : t[n] = q[n + 1]
  <2>1. t \in Seq(Jobs) /\ Len(t) = Len(q) - 1 /\ \A n \in 1 .. Len(t) : t[n] = q[n + 1]
    BY HeadTailProperties
  <2>2. DOMAIN q = 1 .. Len(q) /\ Len(q) \in Nat /\ Len(q) # 0 /\ Head(q) = q[1]
    BY EmptySeq, LenProperties
  <2>3. DOMAIN t = 1 .. Len(t)
    BY <2>1
  <2> HIDE DEF t
  <2>4. QED
    BY <2>1, <2>2, <2>3
<1> HIDE DEF t
<1>2. ASSUME NEW n \in 1 .. Len(q), q[n].op = "one", val \notin {0, q[n].v}
      PROVE  \E m \in 1 .. Len(q) - 1 : n - 1 < m /\ t[m].op = "all"
  <2>1. PICK m \in 1 .. Len(q) : n < m /\ q[m].op = "all"
    BY <1>1, <1>2 DEF Overtaken
  <2>2. m - 1 \in 1 .. Len(q) - 1 /\ n - 1 < m - 1 /\ (m - 1) + 1 = m
    BY <1>1, <2>1
  <2>3. t[m - 1] = q[m]
    BY <1>1, <2>2
  <2>4. QED
    BY <2>1, <2>2, <2>3
<1>3. Overtaken(t, val)
  <2>1. SUFFICES ASSUME NEW n \in 1 .. Len(q) - 1, t[n].op = "one", val \notin {0, t[n].v}
                 PROVE  \E m \in 1 .. Len(q) - 1 : n < m /\ t[m].op = "all"
    BY <1>1 DEF Overtaken
  <2>2. n + 1 \in 1 .. Len(q) /\ t[n] = q[n + 1] /\ (n + 1) - 1 = n
    BY <1>1
  <2>3. PICK m \in 1 .. Len(q) - 1 : (n + 1) - 1 < m /\ t[m].op = "all"
    BY <1>2, <2>1, <2>2
  <2>4. QED
    BY <2>2, <2>3
<1>4. Head(q).op = "one" /\ val \notin {0, Head(q).v} => \E j \in ToSet(t) : j.op = "all"
  BY <1>1, <1>2 DEF ToSet
<1>5. QED
  BY <1>3, <1>4 DEF t

LEMMA OvertakenAppend ==
    ASSUME NEW q \in Seq(Jobs), NEW j, NEW val,
           j.op = "all" \/ (Overtaken(q, val) /\ (j.op = "one" => val \in {0, j.v}))
    PROVE  Overtaken(Append(q, j), val)
<1>1. /\ DOMAIN q = 1 .. Len(q) /\ Len(q) \in Nat
      /\ DOMAIN Append(q, j) = 1 .. Len(q) + 1
      /\ Append(q, j)[Len(q) + 1] = j
      /\ \A n \in 1 .. Len(q) : Append(q, j)[n] = q[n]
  OBVIOUS
<1> DEFINE a == Append(q, j)
<1>2. SUFFICES ASSUME NEW n \in 1 .. Len(q) + 1, a[n].op = "one", val \notin {0, a[n].v}
               PROVE  \E m \in 1 .. Len(q) + 1 : n < m /\ a[m].op = "all"
  BY <1>1 DEF Overtaken
<1> HIDE DEF a
<1>3. a[Len(q) + 1] = j /\ \A k \in 1 .. Len(q) : a[k] = q[k]
  BY <1>1 DEF a
<1>4. CASE j.op = "all"
  <2>1. n # Len(q) + 1
    BY <1>2, <1>3, <1>4
  <2>2. n < Len(q) + 1 /\ Len(q) + 1 \in 1 .. Len(q) + 1
    BY <1>1, <2>1
  <2>3. QED
    BY <1>3, <1>4, <2>2
<1>5. CASE Overtaken(q, val) /\ (j.op = "one" => val \in {0, j.v})
  <2>1. n # Len(q) + 1
    BY <1>2, <1>3, <1>5
  <2>2. n \in 1 .. Len(q) /\ a[n] = q[n]
    BY <1>1, <1>3, <2>1
  <2>3. PICK m \in 1 .. Len(q) : n < m /\ q[m].op = "all"
    BY <1>1, <1>2, <1>5, <2>2 DEF Overtaken
  <2>4. m \in 1 .. Len(q) + 1 /\ a[m] = q[m]
    BY <1>1, <1>3
  <2>5. QED
    BY <2>3, <2>4
<1>6. QED
  BY <1>4, <1>5

\* Nothing runs, and at most a coroutine with resends to make begins to.
LEMMA QuietSound ==
    ASSUME TypeInv, Sound(value), work = <<>>, \A t \in ToSet(work') : t.only /\ t.todo = <<>>,
           writing' = writing, value' \in {value, 0},
           NEW q \in Seq(Jobs), ToSet(q) \subseteq Waiting, Overtaken(q, value),
           queue' = q \/ \E j : queue' = Append(q, j) /\ j.op \notin {"one", "all"}
    PROVE  Sound(value)'
<1>1. \A j \in Waiting' : j \in Waiting \/ j.op \notin {"one", "all"}
  <2>1. CASE queue' = q
    BY <2>1 DEF Waiting
  <2>2. ASSUME NEW j, queue' = Append(q, j), j.op \notin {"one", "all"}
        PROVE  \A k \in Waiting' : k \in Waiting \/ k.op \notin {"one", "all"}
    <3>1. ToSet(queue') = ToSet(q) \cup {j}
      BY <2>2, SetOfAppended
    <3>2. QED
      BY <2>2, <3>1 DEF Waiting
  <2>3. QED
    BY <2>1, <2>2
<1>2. \A t \in UnderWay' : t \in UnderWay \/ t.only
  BY DEF UnderWay
<1>3. EventIsCurrent(value)'
  BY <1>1, <1>2 DEF Sound, EventIsCurrent
<1>4. Overtaken(queue, value)'
  <2>1. Overtaken(queue', value)
    <3>1. CASE queue' = q
      BY <3>1
    <3>2. ASSUME NEW j, queue' = Append(q, j), j.op \notin {"one", "all"}
          PROVE  Overtaken(queue', value)
      BY <3>2, OvertakenAppend
    <3>3. QED
      BY <3>1, <3>2
  <2>2. QED
    BY <2>1 DEF Overtaken
<1>5. OldWrite(value)' /\ Resends'
  BY DEF Sound, OldWrite, Resends
<1>6. QED
  BY <1>3, <1>4, <1>5 DEF Sound

\* What was coming still comes, if the query that is answered has nothing to do
\* with it.
LEMMA ComingKept ==
    ASSUME NEW b \in Binding, Coming(b), TypeInv, work = <<>>, UNCHANGED <<writing, value, last, sent>>,
           row'[b].inst = row[b].inst,
           \A j \in Waiting : Announces(j, b) \/ Asks(j, b) => j \in Waiting',
           life[row[b].inst] = "starting" => life'[row[b].inst] = "starting"
    PROVE  Coming(b)'
<1>1. \A t \in UnderWay : t \in UnderWay'
  BY WorkSet DEF UnderWay, TypeInv, RouterTypes
<1>3. \A j \in Waiting : Announces(j, b) => Announces(j, b)'
  BY DEF Announces
<1>4. \A j \in Waiting : Asks(j, b) => Asks(j, b)'
  BY DEF Asks
<1>5. \A t \in UnderWay : (Brings(t, b) => Brings(t, b)') /\ (Writes(t, b) => Writes(t, b)')
  BY DEF Brings, Writes, Carries
<1>6. EmptyCaches(b) => EmptyCaches(b)'
  BY DEF EmptyCaches
<1>7. QED
  BY <1>1, <1>3, <1>4, <1>5, <1>6 DEF Coming

LEMMA PromiseKept ==
    ASSUME NEW b \in Binding, Promised(b), TypeInv, work = <<>>, UNCHANGED <<writing, value, last, sent>>,
           row'[b].inst = row[b].inst, Owed(b)' => Owed(b) \/ Coming(b)',
           Owed(b)' => got'[b][row[b].inst] = got[b][row[b].inst],
           b \in held => b \in held',
           \A j \in Waiting : Announces(j, b) \/ Asks(j, b) => j \in Waiting',
           Owed(b)' /\ life[row[b].inst] = "starting" => life'[row[b].inst] = "starting" \/ Coming(b)'
    PROVE  Promised(b)'
<1>1. SUFFICES ASSUME Owed(b)', ~Coming(b)'
               PROVE  Offered(b)'
  BY DEF Promised
<1>2. Offered(b)
  BY <1>1, ComingKept DEF Promised
<1>3. QED
  BY <1>1, <1>2 DEF Offered

\* Links.
LEMMA LinkUpPromise ==
    ASSUME TypeInv, LifeInv, PromiseInv, NEW i \in Instance, LinkUp(i)
    PROVE  PromiseInv'
<1>0. PICK j : j = Listing(i, order)
  OBVIOUS
<1>1. /\ work = <<>> /\ Lives(i) /\ conn' = [conn EXCEPT ![i] = TRUE]
      /\ UNCHANGED <<value, tables, order, life, last, sent, work, writing, got, held>>
      /\ IF i \in Running \ seen THEN queue' = Append(queue, j) ELSE queue' = queue
  BY <1>0 DEF LinkUp, lines
<1>2. j.op = "list" /\ j.inst = i
  BY <1>0 DEF Listing
<1>3. Waiting' = IF i \in Running \ seen THEN Waiting \cup {j} ELSE Waiting
  BY <1>1, SetOfAppended DEF Waiting, TypeInv, RouterTypes
<1>4. Sound(value)'
  <2>1. queue \in Seq(Jobs) /\ Overtaken(queue, value) /\ ToSet(work') = {}
    BY <1>1, WorkSet DEF PromiseInv, Sound, TypeInv, RouterTypes
  <2>2. queue' = queue \/ \E k : queue' = Append(queue, k) /\ k.op \notin {"one", "all"}
    BY <1>1, <1>2
  <2>3. QED
    BY <1>1, <2>1, <2>2, QuietSound DEF PromiseInv, Waiting
<1>5. ASSUME NEW b \in Binding
      PROVE  Promised(b)'
  <2>1. row' = row
    BY <1>1 DEF tables
  <2>2. Owed(b)' => Owed(b) \/ Coming(b)'
    <3>1. SUFFICES ASSUME Owed(b)', ~Owed(b)
                   PROVE  Coming(b)'
      OBVIOUS
    <3>2. row[b].inst = i /\ i \in Running /\ ~conn[i]
      BY <1>1, <2>1, <3>1 DEF Owed, Running, TypeInv, LinkTypes, ToSet
    <3>3. life[i] = "starting" \/ life[i] = "idle"
      BY <1>1, <3>2 DEF Lives, LifeInv, Absent
    <3>4. CASE life[i] = "starting"
      BY <1>1, <2>1, <3>2, <3>4 DEF Coming
    <3>5. CASE life[i] = "idle"
      <4>1. i \notin seen
        BY <3>2, <3>5 DEF LifeInv, SeenIsConnected
      <4>2. j \in Waiting'
        BY <1>3, <3>2, <4>1
      <4>3. Announces(j, b)'
        BY <1>2, <2>1, <3>2 DEF Announces
      <4>4. QED
        BY <4>2, <4>3 DEF Coming
    <3>6. QED
      BY <3>3, <3>4, <3>5
  <2>3. QED
    BY <1>1, <1>3, <2>1, <2>2, PromiseKept DEF PromiseInv
<1>6. QED
  BY <1>4, <1>5 DEF PromiseInv

\* A step of the registry, which answers or makes at most a query of a start.
LEMMA RegistryPromise ==
    ASSUME TypeInv, PromiseInv, work = <<>>, UNCHANGED <<value, work, writing, last, sent, held>>,
           \A b \in Binding : row'[b].inst = row[b].inst,
           NEW q \in Seq(Jobs), ToSet(q) \subseteq Waiting, Overtaken(q, value),
           \A j \in Waiting : j \in ToSet(q) \/ j.op \in Single,
           queue' = q \/ \E j : queue' = Append(q, j) /\ j.op \notin {"one", "all"},
           \A b \in Binding :
             Owed(b)' => /\ Owed(b) \/ Coming(b)'
                         /\ got'[b][row[b].inst] = got[b][row[b].inst]
                         /\ life[row[b].inst] = "starting" => life'[row[b].inst] = "starting" \/ Coming(b)'
    PROVE  PromiseInv'
<1>1. ToSet(q) \subseteq Waiting'
  <2>1. \A j : ToSet(Append(q, j)) = ToSet(q) \cup {j}
    BY SetOfAppended
  <2>2. QED
    BY <2>1 DEF Waiting
<1>2. Sound(value)'
  <2>1. ToSet(work') = {}
    BY WorkSet DEF TypeInv, RouterTypes
  <2>2. QED
    BY <2>1, QuietSound DEF PromiseInv
<1>3. ASSUME NEW b \in Binding
      PROVE  Promised(b)'
  <2>1. \A j \in Waiting : Announces(j, b) \/ Asks(j, b) => j \in Waiting'
    BY <1>1 DEF Announces, Asks, Single
  <2>2. QED
    BY <2>1, PromiseKept DEF PromiseInv
<1>4. QED
  BY <1>2, <1>3 DEF PromiseInv

LEMMA QuietPromise ==
    ASSUME TypeInv, PromiseInv, work = <<>>, UNCHANGED <<value, work, writing, last, sent, held>>,
           \A b \in Binding : row'[b].inst = row[b].inst,
           queue' = queue \/ \E j : queue' = Append(queue, j) /\ j.op \in Single,
           \A b \in Binding : Owed(b)' => /\ Owed(b) \/ life'[row[b].inst] = "starting"
                                          /\ got'[b][row[b].inst] = got[b][row[b].inst]
                                          /\ life[row[b].inst] = "starting" => life'[row[b].inst] = "starting"
    PROVE  PromiseInv'
<1>1. queue \in Seq(Jobs) /\ ToSet(queue) = Waiting /\ Overtaken(queue, value)
  BY DEF PromiseInv, Sound, TypeInv, RouterTypes, Waiting
<1>2. queue' = queue \/ \E j : queue' = Append(queue, j) /\ j.op \notin {"one", "all"}
  BY DEF Single
<1>3. \A b \in Binding : life'[row[b].inst] = "starting" => Coming(b)'
  BY DEF Coming
<1>4. QED
  BY <1>1, <1>2, <1>3, RegistryPromise

LEMMA SeveredPromise ==
    ASSUME TypeInv, NEW i \in Instance, NEW told, Severed(i, told) \/ LinkDown(i),
           NEW b \in Binding, row[b].inst \in Instance, conn'[row[b].inst]
    PROVE  /\ row[b].inst # i /\ conn[row[b].inst]
           /\ got'[b][row[b].inst] = got[b][row[b].inst]
<1>1. conn' = [conn EXCEPT ![i] = FALSE] /\ got' = Forgotten(i)
  BY DEF Severed, LinkDown
<1>2. row[b].inst # i /\ conn[row[b].inst]
  BY <1>1 DEF TypeInv, LinkTypes
<1>3. got'[b] = [got[b] EXCEPT ![i] = 0]
  BY <1>1 DEF Forgotten
<1>4. got[b] \in [Instance -> Values]
  BY DEF TypeInv, OfferTypes
<1>5. QED
  BY <1>2, <1>3, <1>4

LEMMA OwedInstance ==
    ASSUME TypeInv, NEW b \in Binding
    PROVE  /\ Owed(b) => row[b].inst \in Instance
           /\ Owed(b) /\ LifeInv => life[row[b].inst] \notin Absent
BY RunningIsInstance DEF Owed, TypeInv, LifeInv

LEMMA LinkDownPromise ==
    ASSUME TypeInv, TypeInv', LifeInv, PromiseInv, NEW i \in Instance, LinkDown(i)
    PROVE  PromiseInv'
<1>1. /\ work = <<>> /\ UNCHANGED <<value, row, order, life, last, sent, queue, work, writing, held>>
  BY DEF LinkDown, tables
<1>2. ASSUME NEW b \in Binding, Owed(b)'
      PROVE  Owed(b) /\ got'[b][row[b].inst] = got[b][row[b].inst]
  <2>1. row[b].inst \in Running /\ row[b].inst \in Instance /\ conn'[row[b].inst]
    BY <1>1, <1>2, RunningIsInstance DEF Owed, Running, TypeInv
  <2>2. QED
    BY <1>1, <1>2, <2>1, SeveredPromise DEF Owed, Running
<1>3. QED
  BY <1>1, <1>2, QuietPromise

\* Starting and stopping.
LEMMA RequestPromise ==
    ASSUME TypeInv, LifeInv, PromiseInv, NEW i \in Instance, Request(i),
           UNCHANGED <<value, row, conn, work, writing, last, sent, got, held>>,
           NEW p, life' = [life EXCEPT ![i] = p],
           queue' = queue \/ \E j : queue' = Append(queue, j) /\ j.op \in Single
    PROVE  PromiseInv'
<1>1. work = <<>> /\ Running' = Running \ {i}
  BY RemovedFirst DEF Request, Running, TypeInv, LinkTypes
<1>2. ASSUME NEW b \in Binding, Owed(b)'
      PROVE  Owed(b) /\ (life[row[b].inst] = "starting" => life'[row[b].inst] = "starting")
  <2>1. Owed(b) /\ row[b].inst # i
    BY <1>1, <1>2 DEF Owed
  <2>2. QED
    BY <2>1, OwedInstance DEF TypeInv, LinkTypes
<1>3. QED
  BY <1>1, <1>2, QuietPromise

LEMMA RestartPromise ==
    ASSUME TypeInv, LifeInv, PromiseInv, NEW i \in Instance, NEW enabled, Restart(i, enabled)
    PROVE  PromiseInv'
<1>1. /\ Request(i) /\ UNCHANGED <<value, row, conn, work, writing, last, sent, got, held>>
  BY DEF Restart, lines
<1>2. CASE i \in Running
  <2>1. life' = [life EXCEPT ![i] = "stopping"] /\ queue' = queue
    BY <1>2 DEF Restart
  <2>2. QED
    BY <1>1, <2>1, RequestPromise
<1>3. CASE i \notin Running
  <2>1. /\ life' = [life EXCEPT ![i] = "fetching"]
        /\ queue' = Append(queue, [op |-> "row", inst |-> i]) /\ [op |-> "row", inst |-> i].op \in Single
    BY <1>3 DEF Restart, Single
  <2>2. QED
    BY <1>1, <2>1, RequestPromise
<1>4. QED
  BY <1>2, <1>3

LEMMA StopPromise ==
    ASSUME TypeInv, LifeInv, PromiseInv, NEW i \in Instance, NEW delete, Stop(i, delete)
    PROVE  PromiseInv'
<1> DEFINE p == IF delete THEN "deleting" ELSE "leaving"
<1>1. /\ Request(i) /\ UNCHANGED <<value, row, conn, work, writing, last, sent, got, held>>
      /\ life' = [life EXCEPT ![i] = p] /\ queue' = queue
  BY DEF Stop, lines, router
<1> HIDE DEF p
<1>2. QED
  BY <1>1, RequestPromise

LEMMA DisconnectedPromise ==
    ASSUME TypeInv, LifeInv, PromiseInv, NEW i \in Instance, NEW told, Disconnected(i, told)
    PROVE  PromiseInv'
<1>1. /\ work = <<>> /\ Severed(i, told) /\ life[i] # "starting"
      /\ UNCHANGED <<value, order, work, writing, last, sent, held>>
  BY DEF Disconnected, Severed
<1>2. queue' = queue \/ \E j : queue' = Append(queue, j) /\ j.op \in Single
  <2>1. [op |-> "row", inst |-> i].op \in Single
    BY DEF Single
  <2>2. queue' = queue \/ queue' = Append(queue, [op |-> "row", inst |-> i])
    BY DEF Disconnected
  <2>3. QED
    BY <2>1, <2>2
<1>3. PICK p : life' = [life EXCEPT ![i] = p]
  BY DEF Disconnected
<1>4. \A b \in Binding : row'[b].inst = row[b].inst /\ (row'[b].mode = "on" => row[b].mode = "on")
  <2>1. CASE row' = row
    BY <2>1
  <2>2. CASE row' = [b \in Binding |-> IF row[b].inst = i THEN [row[b] EXCEPT !.mode = "gone"] ELSE row[b]]
    <3>1. TAKE b \in Binding
    <3>2. row[b] \in Stored
      BY DEF TypeInv, TableTypes
    <3>3. row'[b] = IF row[b].inst = i THEN [row[b] EXCEPT !.mode = "gone"] ELSE row[b]
      BY <2>2
    <3>4. QED
      BY <3>2, <3>3 DEF Stored
  <2>3. QED
    BY <2>1, <2>2 DEF Disconnected, tables
<1>5. ASSUME NEW b \in Binding, Owed(b)'
      PROVE  /\ Owed(b) /\ got'[b][row[b].inst] = got[b][row[b].inst]
             /\ life[row[b].inst] = "starting" => life'[row[b].inst] = "starting"
  <2>1. row[b].inst \in Running /\ row[b].inst \in Instance /\ conn'[row[b].inst]
    BY <1>1, <1>4, <1>5, RunningIsInstance DEF Owed, Running, TypeInv
  <2>2. Owed(b) /\ got'[b][row[b].inst] = got[b][row[b].inst]
    BY <1>1, <1>4, <1>5, <2>1, SeveredPromise DEF Owed, Running
  <2>3. QED
    BY <1>1, <1>3, <2>1, <2>2 DEF TypeInv, LinkTypes
<1>6. QED
  BY <1>1, <1>2, <1>4, <1>5, QuietPromise

LEMMA RegisterPromise ==
    ASSUME TypeInv, LifeInv, PromiseInv, NEW i \in Instance, Register(i)
    PROVE  PromiseInv'
<1>1. /\ work = <<>> /\ life[i] = "connecting" /\ life' = [life EXCEPT ![i] = "starting"]
      /\ order' = Append(order, i)
      /\ UNCHANGED <<value, row, conn, work, writing, last, sent, got, held>>
  BY DEF Register, tables, lines
<1>2. queue' = Append(queue, [op |-> "start", inst |-> i]) /\ [op |-> "start", inst |-> i].op \in Single
  BY DEF Register, Single
<1>3. Running' = Running \cup {i}
  BY <1>1, SetOfAppended DEF Running, TypeInv, LinkTypes
<1>4. life'[i] = "starting" /\ \A k \in Instance : k # i => life'[k] = life[k]
  BY <1>1 DEF TypeInv, LinkTypes
<1>5. ASSUME NEW b \in Binding, Owed(b)'
      PROVE  /\ Owed(b) \/ life'[row[b].inst] = "starting"
             /\ life[row[b].inst] = "starting" => life'[row[b].inst] = "starting"
  <2>1. row[b].inst \in Running \cup {i} /\ row[b].inst \in Instance
    BY <1>1, <1>3, <1>5, RunningIsInstance DEF Owed, TypeInv
  <2>2. row[b].inst = i \/ Owed(b)
    BY <1>1, <1>5, <2>1 DEF Owed
  <2>3. QED
    BY <1>1, <1>4, <2>1, <2>2
<1>6. QED
  BY <1>1, <1>2, <1>5, QuietPromise

LEMMA StartFailsPromise ==
    ASSUME TypeInv, LifeInv, PromiseInv, NEW i \in Instance, StartFails(i)
    PROVE  PromiseInv'
<1>1. /\ work = <<>> /\ life[i] = "connecting" /\ life' = [life EXCEPT ![i] = "idle"]
      /\ UNCHANGED <<value, row, order, conn, queue, work, writing, last, sent, got, held>>
  BY DEF StartFails, tables, lines, router
<1>2. ASSUME NEW b \in Binding, Owed(b)'
      PROVE  Owed(b) /\ (life[row[b].inst] = "starting" => life'[row[b].inst] = "starting")
  <2>1. Owed(b)
    BY <1>1, <1>2 DEF Owed, Running
  <2>2. QED
    BY <1>1, <2>1, OwedInstance DEF TypeInv, LinkTypes
<1>3. QED
  BY <1>1, <1>2, QuietPromise

\* Starting and stopping all of them.
LEMMA SweepPromise ==
    ASSUME TypeInv, LifeInv, PromiseInv, NEW restore, BeginSweep(restore) \/ SweepEnds
    PROVE  PromiseInv'
<1>1. /\ work = <<>>
      /\ UNCHANGED <<value, row, order, conn, life, queue, work, writing, last, sent, got, held>>
  BY DEF BeginSweep, SweepEnds, tables, lines, router
<1>2. QED
  BY <1>1, QuietPromise DEF Owed, Running

LEMMA SweepStopsPromise ==
    ASSUME TypeInv, LifeInv, PromiseInv, NEW i \in Instance, NEW told, SweepStops(i, told)
    PROVE  PromiseInv'
<1>1. /\ work = <<>> /\ Severed(i, told) /\ life' = [life EXCEPT ![i] = "stopped"]
      /\ UNCHANGED <<value, row, order, queue, work, writing, last, sent, held>>
  BY DEF SweepStops, Severed, tables
<1>2. ASSUME NEW b \in Binding, Owed(b)'
      PROVE  /\ Owed(b) /\ got'[b][row[b].inst] = got[b][row[b].inst]
             /\ life[row[b].inst] = "starting" => life'[row[b].inst] = "starting"
  <2>1. row[b].inst \in Running /\ row[b].inst \in Instance /\ conn'[row[b].inst]
    BY <1>1, <1>2, RunningIsInstance DEF Owed, Running, TypeInv
  <2>2. row[b].inst # i /\ Owed(b) /\ got'[b][row[b].inst] = got[b][row[b].inst]
    BY <1>1, <1>2, <2>1, SeveredPromise DEF Owed, Running
  <2>3. QED
    BY <1>1, <2>1, <2>2 DEF TypeInv, LinkTypes
<1>3. QED
  BY <1>1, <1>2, QuietPromise

LEMMA SweepLoadsPromise ==
    ASSUME TypeInv, LifeInv, PromiseInv, SweepLoads
    PROVE  PromiseInv'
<1>1. /\ work = <<>> /\ order' = <<>> /\ UNCHANGED <<work, writing>>
      /\ value' \in {value, 0}
      /\ queue' = Append(queue, [op |-> "instances"])
  BY DEF SweepLoads
<1>2. Sound(value)'
  <2>1. queue \in Seq(Jobs) /\ Overtaken(queue, value) /\ ToSet(work') = {}
    BY <1>1, WorkSet DEF PromiseInv, Sound, TypeInv, RouterTypes
  <2>2. \E k : queue' = Append(queue, k) /\ k.op \notin {"one", "all"}
    <3>1. [op |-> "instances"].op \notin {"one", "all"}
      OBVIOUS
    <3>2. QED
      BY <1>1, <3>1
  <2>3. QED
    BY <1>1, <2>1, <2>2, QuietSound DEF PromiseInv, Waiting
<1>3. \A b \in Binding : ~Owed(b)'
  BY <1>1 DEF Owed, Running, ToSet
<1>4. QED
  BY <1>2, <1>3 DEF PromiseInv, Promised

LEMMA SweepStartsPromise ==
    ASSUME TypeInv, LifeInv, PromiseInv, NEW i \in Instance, SweepStarts(i)
    PROVE  PromiseInv'
<1>1. /\ work = <<>> /\ life[i] = "idle" /\ life' = [life EXCEPT ![i] = "connecting"]
      /\ UNCHANGED <<value, row, order, conn, queue, work, writing, last, sent, got, held>>
  BY DEF SweepStarts, tables, lines, router
<1>2. ASSUME NEW b \in Binding, Owed(b)'
      PROVE  Owed(b) /\ (life[row[b].inst] = "starting" => life'[row[b].inst] = "starting")
  <2>1. Owed(b)
    BY <1>1, <1>2 DEF Owed, Running
  <2>2. QED
    BY <1>1, <2>1, OwedInstance DEF TypeInv, LinkTypes
<1>3. QED
  BY <1>1, <1>2, QuietPromise

\* A publication.
LEMMA PublishPromise ==
    ASSUME TypeInv, PromiseInv, NEW v \in Values, Publish(v)
    PROVE  PromiseInv'
<1>0. PICK j : j = [op |-> "all", v |-> v]
  OBVIOUS
<1>1. /\ work = <<>> /\ ~EventRuns /\ value' = v
      /\ queue' = IF v = 0 THEN queue ELSE Append(queue, j)
      /\ UNCHANGED <<row, work, writing>>
  BY <1>0 DEF Publish, tables
<1>2. /\ \A k \in Waiting : k.op # "all"
      /\ \A t \in UnderWay : t.only
  <2>1. \A k \in Waiting : k.op # "all"
    BY <1>1 DEF EventRuns, Waiting, ToSet
  <2>2. \A t \in ToSet(work) : t.only
    BY <1>1 DEF EventRuns, ToSet
  <2>3. \A w \in ToSet(writing) : w.task.only
    BY <1>1 DEF EventRuns, ToSet
  <2>4. QED
    BY <2>1, <2>2, <2>3 DEF UnderWay
<1>3. queue \in Seq(Jobs) /\ ToSet(work) = {}
  BY <1>1, WorkSet DEF TypeInv, RouterTypes
<1>4. Waiting' = IF v = 0 THEN Waiting ELSE Waiting \cup {j}
  BY <1>1, <1>3, SetOfAppended DEF Waiting
<1>5. EventIsCurrent(value)'
  <2>1. UnderWay' = UnderWay
    BY <1>1 DEF UnderWay
  <2>2. \A k \in Waiting' : k.op = "all" => v # 0 /\ k = j
    BY <1>2, <1>4
  <2>3. QED
    BY <1>0, <1>1, <1>2, <2>1, <2>2 DEF EventIsCurrent
<1>6. Overtaken(queue, value)'
  <2>1. CASE v = 0
    BY <1>1, <2>1 DEF Overtaken
  <2>2. CASE v # 0
    <3>1. Overtaken(Append(queue, j), v)
      BY <1>0, <1>3, OvertakenAppend
    <3>2. QED
      BY <1>1, <2>2, <3>1 DEF Overtaken
  <2>3. QED
    BY <2>1, <2>2
<1>7. Resends' /\ OldWrite(value)'
  BY <1>1, <1>3 DEF PromiseInv, Sound, Resends, OldWrite
<1>8. \A b \in Binding : Owed(b)' => Coming(b)'
  BY <1>0, <1>1, <1>4 DEF Owed, Coming, Announces
<1>9. QED
  BY <1>5, <1>6, <1>7, <1>8 DEF PromiseInv, Promised, Sound

\* Changes of bindings: the resends are on their way from the commit on.
LEMMA ReloadPromise ==
    ASSUME TypeInv, PromiseInv, work = <<>>, UNCHANGED <<value, writing, last, sent, held, life>>,
           NEW q \in Seq(Jobs), ToSet(q) \subseteq Waiting, Overtaken(q, value),
           NEW s, NEW rest \in Seq(Binding), ReloadThen(s, rest, q),
           \A j \in Waiting : j \in ToSet(q) \/ (j.op = "reload" /\ j.rest = rest),
           \A b \in Binding \ ToSet(rest) :
             /\ row'[b].inst = row[b].inst
             /\ Owed(b)' => Owed(b) /\ got'[b][row[b].inst] = got[b][row[b].inst]
    PROVE  PromiseInv'
<1>1. \/ /\ queue' = q
         /\ ToSet(work') = IF rest = <<>> THEN {} ELSE {Resend(rest)}
      \/ \E j : /\ j.op = "reload" /\ j.rest = rest /\ queue' = Append(q, j)
                /\ Waiting' = ToSet(q) \cup {j} /\ ToSet(work') = {}
  BY ReloadGoesOn
<1>2. ToSet(q) \subseteq Waiting'
  BY <1>1 DEF Waiting
<1>3. Resend(rest).only /\ Resend(rest).todo = <<>> /\ Resend(rest).rest = rest
  BY DEF Resend, Task
<1>4. Sound(value)'
  <2>1. \A t \in ToSet(work') : t.only /\ t.todo = <<>>
    BY <1>1, <1>3
  <2>2. queue' = q \/ \E j : queue' = Append(q, j) /\ j.op \notin {"one", "all"}
    BY <1>1
  <2>3. QED
    BY <2>1, <2>2, QuietSound DEF PromiseInv
<1>5. ASSUME NEW b \in ToSet(rest)
      PROVE  Coming(b)'
  <2>1. rest # <<>>
    BY <1>5 DEF ToSet
  <2>2. CASE \E j \in Waiting' : j.op = "reload" /\ j.rest = rest
    BY <1>5, <2>2 DEF Coming, Announces
  <2>3. CASE ToSet(work') = {Resend(rest)}
    BY <1>3, <1>5, <2>3 DEF Coming, Brings, UnderWay
  <2>4. QED
    BY <1>1, <2>1, <2>2, <2>3
<1>6. ASSUME NEW b \in Binding, b \notin ToSet(rest)
      PROVE  Promised(b)'
  <2>1. \A j \in Waiting : Announces(j, b) \/ Asks(j, b) => j \in Waiting'
    BY <1>2, <1>6 DEF Announces, Asks
  <2>2. QED
    BY <1>6, <2>1, PromiseKept DEF PromiseInv
<1>7. QED
  BY <1>4, <1>5, <1>6 DEF PromiseInv, Promised

LEMMA RequestedPromise ==
    ASSUME TypeInv, PromiseInv, BindingRequest,
           NEW s, NEW rest \in Seq(Binding), ReloadThen(s, rest, queue),
           \A b \in Binding \ ToSet(rest) :
             /\ row'[b] = row[b] \/ (row'[b].inst = row[b].inst /\ row'[b].mode = "gone")
             /\ got'[b] = got[b]
    PROVE  PromiseInv'
<1>1. work = <<>> /\ UNCHANGED <<value, order, conn, writing, last, sent, held, life>>
  BY DEF BindingRequest
<1>2. queue \in Seq(Jobs) /\ ToSet(queue) = Waiting /\ Overtaken(queue, value)
  BY DEF PromiseInv, Sound, TypeInv, RouterTypes, Waiting
<1>3. ASSUME NEW b \in Binding \ ToSet(rest)
      PROVE  /\ row'[b].inst = row[b].inst
             /\ Owed(b)' => Owed(b) /\ got'[b][row[b].inst] = got[b][row[b].inst]
  BY <1>1, <1>3 DEF Owed, Running
<1>4. QED
  BY <1>1, <1>2, <1>3, ReloadPromise

LEMMA BindingPromise ==
    ASSUME TypeInv, PromiseInv,
           \/ \E b \in Binding, i \in Instance, f \in Filter : CreateBinding(b, i, f)
           \/ \E b \in Binding, mode \in {"on", "off"}, f \in Filter : UpdateBinding(b, mode, f)
           \/ \E i, j \in Instance : MigrateBindings(i, j)
           \/ \E b \in Binding : DeleteBinding(b)
    PROVE  PromiseInv'
<1>1. \A b \in Binding : <<b>> \in Seq(Binding) /\ ToSet(<<b>>) = {b}
  BY DEF ToSet
<1>2. DOMAIN got = Binding
  BY DEF TypeInv, OfferTypes
<1>3. ASSUME NEW b \in Binding, NEW i \in Instance, NEW f \in Filter, CreateBinding(b, i, f)
      PROVE  PromiseInv'
  <2>1. /\ BindingRequest /\ ReloadThen(<<i>>, <<b>>, queue)
        /\ \A c \in Binding \ {b} : row'[c] = row[c] /\ got'[c] = got[c]
    BY <1>3 DEF CreateBinding, Anew, TypeInv, TableTypes
  <2>2. QED
    BY <1>1, <2>1, RequestedPromise
<1>4. ASSUME NEW b \in Binding, NEW mode \in {"on", "off"}, NEW f \in Filter, UpdateBinding(b, mode, f)
      PROVE  PromiseInv'
  <2>1. /\ BindingRequest /\ ReloadThen(IF row[b].inst = None THEN <<>> ELSE <<row[b].inst>>, <<b>>, queue)
        /\ \A c \in Binding \ {b} : row'[c] = row[c] /\ got'[c] = got[c]
    BY <1>4 DEF UpdateBinding, Anew, TypeInv, TableTypes
  <2>2. QED
    BY <1>1, <2>1, RequestedPromise
<1>5. ASSUME NEW i \in Instance, NEW j \in Instance, MigrateBindings(i, j)
      PROVE  PromiseInv'
  <2> DEFINE moved == {b \in Binding : row[b].inst = i /\ row[b].mode \in {"on", "off"}}
  <2>1. /\ BindingRequest /\ ReloadThen(<<i, j>>, SetToSeq(moved), queue)
        /\ \A c \in Binding \ moved : row'[c] = row[c] /\ got'[c] = got[c]
    BY <1>5 DEF MigrateBindings, Anew
  <2>2. IsFiniteSet(moved) /\ moved \subseteq Binding
    BY FS_Subset
  <2> HIDE DEF moved
  <2>3. SetToSeq(moved) \in Seq(Binding) /\ ToSet(SetToSeq(moved)) = moved
    BY <2>2, Enumerated, SeqMonotonic
  <2>4. QED
    BY <2>1, <2>3, RequestedPromise
<1>6. ASSUME NEW b \in Binding, DeleteBinding(b)
      PROVE  PromiseInv'
  <2>1. /\ BindingRequest /\ ReloadThen(IF row[b].inst = None THEN <<>> ELSE <<row[b].inst>>, <<>>, queue)
        /\ got' = got /\ row' = [row EXCEPT ![b].mode = "gone"]
    BY <1>6 DEF DeleteBinding
  <2>2. \A c \in Binding : row'[c] = row[c] \/ (row'[c].inst = row[c].inst /\ row'[c].mode = "gone")
    BY <2>1 DEF TypeInv, TableTypes, Stored
  <2>3. <<>> \in Seq(Binding)
    OBVIOUS
  <2>4. QED
    BY <2>1, <2>2, <2>3, RequestedPromise
<1>7. QED
  BY <1>3, <1>4, <1>5, <1>6

\* The database answers.
LEMMA Answered ==
    ASSUME TypeInv, PromiseInv, queue # <<>>
    PROVE  /\ Head(queue) \in Jobs /\ Tail(queue) \in Seq(Jobs)
           /\ Waiting = {Head(queue)} \cup ToSet(Tail(queue))
           /\ Overtaken(Tail(queue), value)
           /\ Head(queue).op = "one" /\ value \notin {0, Head(queue).v}
                => \E j \in ToSet(Tail(queue)) : j.op = "all"
BY SetOfTail, OvertakenTail DEF TypeInv, RouterTypes, PromiseInv, Sound, Waiting

LEMMA ReadReloadPromise ==
    ASSUME TypeInv, PromiseInv, ReadReload
    PROVE  PromiseInv'
<1>1. /\ work = <<>> /\ queue # <<>> /\ Head(queue).op = "reload"
      /\ ReloadThen(Head(queue).left, Head(queue).rest, Tail(queue))
      /\ UNCHANGED <<value, row, order, conn, writing, last, sent, got, held, life>>
  BY DEF ReadReload, Answer, tables, lines
<1>2. /\ Head(queue) \in Jobs /\ Tail(queue) \in Seq(Jobs)
      /\ Waiting = {Head(queue)} \cup ToSet(Tail(queue))
      /\ Overtaken(Tail(queue), value)
  BY <1>1, Answered
<1>3. Head(queue).rest \in Seq(Binding)
  BY <1>1, <1>2 DEF Jobs
<1>4. \A b \in Binding : Owed(b)' => Owed(b)
  BY <1>1 DEF Owed, Running
<1>5. QED
  BY <1>1, <1>2, <1>3, <1>4, ReloadPromise

LEMMA ReadInstancePromise ==
    ASSUME TypeInv, LifeInv, PromiseInv, ReadInstance
    PROVE  PromiseInv'
<1>1. /\ work = <<>> /\ queue # <<>> /\ Head(queue).op \in {"row", "instances"}
      /\ queue' = Tail(queue)
      /\ UNCHANGED <<value, row, order, conn, work, writing, last, sent, got, held>>
  BY DEF ReadInstance, Answer, tables, lines
<1>2. /\ Head(queue) \in Jobs /\ Tail(queue) \in Seq(Jobs)
      /\ Waiting = {Head(queue)} \cup ToSet(Tail(queue))
      /\ Overtaken(Tail(queue), value)
  BY <1>1, Answered
<1>3. Head(queue).op \in Single
  BY <1>1 DEF Single
<1>4. \A i \in Instance : life[i] = "starting" => life'[i] = "starting"
  <2>1. CASE Answer("instances")
    BY <2>1 DEF ReadInstance, Answer
  <2>2. CASE Answer("row")
    <3>1. life[Head(queue).inst] = "fetching"
      BY <1>1, <2>2, OrderlyTail DEF Answer, LifeInv, Placed, TypeInv, RouterTypes
    <3>2. PICK p : life' = [life EXCEPT ![Head(queue).inst] = p]
      BY <2>2 DEF ReadInstance, Answer
    <3>3. QED
      BY <3>1, <3>2 DEF TypeInv, LinkTypes
  <2>3. QED
    BY <2>1, <2>2 DEF ReadInstance
<1>5. \A b \in Binding : Owed(b)' => Owed(b) /\ row[b].inst \in Instance
  BY <1>1, OwedInstance DEF Owed, Running
<1>6. QED
  BY <1>1, <1>2, <1>3, <1>4, <1>5, RegistryPromise

LEMMA AnnounceStartedPromise ==
    ASSUME TypeInv, LifeInv, PromiseInv, AnnounceStarted
    PROVE  PromiseInv'
<1>0. PICK i, j : i = Head(queue).inst /\ j = Listing(i, order)
  OBVIOUS
<1>1. /\ work = <<>> /\ queue # <<>> /\ Head(queue).op = "start"
      /\ life' = [life EXCEPT ![i] = "idle"]
      /\ queue' = IF conn[i] THEN Append(Tail(queue), j) ELSE Tail(queue)
      /\ UNCHANGED <<value, row, order, conn, work, writing, last, sent, got, held>>
  BY <1>0 DEF AnnounceStarted, Answer, tables, lines
<1>2. /\ Head(queue) \in Jobs /\ Tail(queue) \in Seq(Jobs)
      /\ Waiting = {Head(queue)} \cup ToSet(Tail(queue))
      /\ Overtaken(Tail(queue), value)
  BY <1>1, Answered
<1>3. Head(queue).op \in Single /\ j.op = "list" /\ j.inst = i
  BY <1>0, <1>1 DEF Single, Listing
<1>4. conn[i] => j \in Waiting'
  BY <1>1, <1>2, SetOfAppended DEF Waiting
<1>5. ASSUME NEW b \in Binding, Owed(b)'
      PROVE  /\ Owed(b)
             /\ life[row[b].inst] = "starting" => life'[row[b].inst] = "starting" \/ Coming(b)'
  <2>1. Owed(b) /\ row[b].inst \in Instance
    BY <1>1, <1>5, OwedInstance DEF Owed, Running
  <2>2. CASE row[b].inst = i
    <3>1. conn[i]
      BY <2>1, <2>2 DEF Owed
    <3>2. Announces(j, b)'
      BY <1>1, <1>3, <2>2 DEF Announces
    <3>3. QED
      BY <1>4, <2>1, <3>1, <3>2 DEF Coming
  <2>3. CASE row[b].inst # i
    BY <1>1, <2>1, <2>3 DEF TypeInv, LinkTypes
  <2>4. QED
    BY <2>2, <2>3
<1>6. queue' = Tail(queue) \/ \E k : queue' = Append(Tail(queue), k) /\ k.op \notin {"one", "all"}
  BY <1>1, <1>3
<1>7. QED
  BY <1>1, <1>2, <1>3, <1>5, <1>6, RegistryPromise

\* What the answer to a query of rows makes a coroutine do.
Answering(h, t) ==
    \/ /\ h.op = "list" /\ t.only /\ t.todo = <<>>
       /\ \A b \in Binding : row[b].mode = "on" /\ row[b].inst = h.inst => b \in ToSet(t.rest)
    \/ /\ h.op = "one" /\ t.only /\ t.v = h.v /\ t.rest = h.rest
       /\ t.todo = <<>> \/ t.todo = <<RowOf(h.b)>>
       /\ row[h.b].mode = "on" => RowOf(h.b) \in ToSet(t.todo)
    \/ /\ h.op = "all" /\ ~t.only /\ t.v = h.v
       /\ \A b \in Binding : row[b].mode = "on" => RowOf(b) \in ToSet(t.todo)

LEMMA ReadRowsAnswers ==
    ASSUME TypeInv, ReadRows
    PROVE  /\ work = <<>> /\ queue # <<>>
           /\ \E t : GoesOn(t) /\ Answering(Head(queue), t)
<1>1. work = <<>> /\ queue # <<>>
  BY DEF ReadRows, Answer
<1> DEFINE h == Head(queue)
<1>2. h \in Jobs
  BY <1>1, AnswerType DEF TypeInv
<1>3. CASE Answer("list")
  <2> DEFINE mine == {b \in Binding : /\ row[b].mode = "on"
                                      /\ \/ row[b].inst = Head(queue).inst
                                         \/ row[b].inst = None /\ Head(queue).first}
             t == Resend(SetToSeq(mine))
  <2>1. GoesOn(t) /\ h.op = "list"
    BY <1>3 DEF ReadRows, Answer
  <2>2. IsFiniteSet(mine)
    BY FS_Subset
  <2>3. ToSet(SetToSeq(mine)) = mine
    BY <2>2, Enumerated
  <2>4. t.only /\ t.todo = <<>> /\ t.rest = SetToSeq(mine)
    BY DEF Resend, Task
  <2>5. \A b \in Binding : row[b].mode = "on" /\ row[b].inst = h.inst => b \in mine
    OBVIOUS
  <2> HIDE DEF mine, t
  <2>6. Answering(h, t)
    BY <2>1, <2>3, <2>4, <2>5 DEF Answering
  <2>7. QED
    BY <1>1, <2>1, <2>6
<1>4. CASE Answer("one")
  <2> DEFINE t == Task(RowsOf({h.b}), h.v, TRUE, h.rest)
  <2>1. GoesOn(t) /\ h.op = "one"
    BY <1>4 DEF ReadRows, Answer
  <2>2. h.b \in Binding
    BY <1>2, <2>1 DEF Jobs
  <2>3. t.only /\ t.v = h.v /\ t.rest = h.rest /\ t.todo = RowsOf({h.b})
    BY DEF Task
  <2>4. RowsOf({h.b}) = IF row[h.b].mode = "on" THEN <<RowOf(h.b)>> ELSE <<>>
    BY <2>2, OneRow DEF TypeInv
  <2>5. RowOf(h.b) \in ToSet(<<RowOf(h.b)>>)
    BY DEF ToSet
  <2> HIDE DEF t
  <2>6. Answering(h, t)
    BY <2>1, <2>3, <2>4, <2>5 DEF Answering
  <2>7. QED
    BY <1>1, <2>1, <2>6
<1>5. CASE Answer("all")
  <2> DEFINE t == Task(RowsOf(Binding), h.v, FALSE, <<>>)
  <2>1. GoesOn(t) /\ h.op = "all"
    BY <1>5 DEF ReadRows, Answer
  <2>2. ~t.only /\ t.v = h.v /\ t.todo = RowsOf(Binding)
    BY DEF Task
  <2>3. \A b \in Binding : row[b].mode = "on" => RowOf(b) \in ToSet(t.todo)
    BY <2>2, RowsAreThere
  <2> HIDE DEF t
  <2>4. Answering(h, t)
    BY <2>1, <2>2, <2>3 DEF Answering
  <2>5. QED
    BY <1>1, <2>1, <2>4
<1>6. QED
  BY <1>3, <1>4, <1>5 DEF ReadRows

LEMMA ReadRowsPromise ==
    ASSUME TypeInv, PromiseInv, ReadRows
    PROVE  PromiseInv'
<1>0. PICK h, t : h = Head(queue) /\ GoesOn(t) /\ Answering(h, t)
  BY ReadRowsAnswers
<1>1. /\ work = <<>> /\ queue # <<>> /\ queue' = Tail(queue)
      /\ UNCHANGED <<value, row, order, conn, life, last, sent, writing, got, held>>
  BY ReadRowsAnswers DEF ReadRows, tables, lines
<1>2. /\ h \in Jobs /\ Waiting = {h} \cup Waiting'
      /\ Overtaken(queue', value)
      /\ h.op = "one" /\ value \notin {0, h.v} => \E j \in Waiting' : j.op = "all"
  BY <1>0, <1>1, Answered DEF Waiting
<1>3. /\ ToSet(work) = {} /\ ToSet(work') \subseteq {t}
      /\ t \in ToSet(work') \/ (t.todo = <<>> /\ t.rest = <<>>)
  BY <1>0, <1>1, GoesOnWith, WorkSet DEF TypeInv, RouterTypes
<1>4. UnderWay' = UnderWay \cup ToSet(work')
  BY <1>1, <1>3 DEF UnderWay
<1>5. Sound(value)'
  <2>1. EventIsCurrent(value)'
    BY <1>0, <1>1, <1>2, <1>3, <1>4 DEF PromiseInv, Sound, EventIsCurrent, Answering
  <2>2. Overtaken(queue, value)'
    BY <1>1, <1>2 DEF Overtaken
  <2>3. OldWrite(value)'
    BY <1>0, <1>1, <1>2, <1>3 DEF OldWrite, Answering
  <2>4. Resends'
    <3>1. h.op = "one" => h.b \in Binding
      BY <1>2 DEF Jobs
    <3>2. t.only => t.todo = <<>> \/ \E b \in Binding : t.todo = <<RowOf(b)>>
      BY <1>0, <3>1 DEF Answering
    <3>3. QED
      BY <1>1, <1>3, <3>2 DEF PromiseInv, Sound, Resends, RowOf
  <2>5. QED
    BY <2>1, <2>2, <2>3, <2>4 DEF Sound
<1>6. ASSUME NEW b \in Binding
      PROVE  Promised(b)'
  <2>1. SUFFICES ASSUME Owed(b), Coming(b)
                 PROVE  Coming(b)'
    BY <1>1, <1>6 DEF PromiseInv, Promised, Owed, Offered, Running
  <2>2. row[b].mode = "on" /\ RowOf(b).b = b /\ RowOf(b).inst = row[b].inst
    BY <2>1 DEF Owed, RowOf
  <2>3. (t \in ToSet(work') => t \in UnderWay') /\ ToSet(<<>>) = {}
    BY <1>4 DEF ToSet
  <2>4. CASE \E j \in Waiting : Announces(j, b)
    <3>1. CASE \E j \in Waiting' : Announces(j, b)
      BY <1>1, <3>1 DEF Coming, Announces
    <3>2. CASE Announces(h, b)
      <4>1. CASE h.op = "list"
        <5>1. b \in ToSet(t.rest)
          BY <1>0, <2>2, <3>2, <4>1 DEF Announces, Answering
        <5>2. QED
          BY <1>3, <2>3, <5>1 DEF Coming, Brings
      <4>2. CASE h.op = "one"
        <5>1. b \in ToSet(t.rest)
          BY <1>0, <3>2, <4>2 DEF Announces, Answering
        <5>2. QED
          BY <1>3, <2>3, <5>1 DEF Coming, Brings
      <4>3. CASE h.op = "all"
        <5>1. ~t.only /\ RowOf(b) \in ToSet(t.todo)
          BY <1>0, <2>2, <4>3 DEF Answering
        <5>2. Brings(t, b)'
          BY <1>1, <2>2, <5>1 DEF Brings, Carries
        <5>3. QED
          BY <1>3, <2>3, <5>1, <5>2 DEF Coming
      <4>4. QED
        BY <1>0, <4>1, <4>2, <4>3 DEF Answering
    <3>3. QED
      BY <1>2, <2>4, <3>1, <3>2
  <2>5. CASE \E k \in UnderWay : Brings(k, b)
    BY <1>1, <1>4, <2>5 DEF Coming, Brings, Carries
  <2>6. CASE EmptyCaches(b) /\ \E k \in UnderWay : Writes(k, b)
    BY <1>1, <1>4, <2>6 DEF Coming, Writes, Carries, EmptyCaches
  <2>7. CASE EmptyCaches(b) /\ \E j \in Waiting : Asks(j, b)
    <3>1. CASE \E j \in Waiting' : Asks(j, b)
      BY <1>1, <2>7, <3>1 DEF Coming, Asks, EmptyCaches
    <3>2. CASE Asks(h, b)
      <4>1. t.only /\ t.v = value /\ RowOf(b) \in ToSet(t.todo)
        BY <1>0, <2>2, <3>2 DEF Asks, Answering
      <4>2. Writes(t, b)'
        BY <1>1, <2>2, <4>1 DEF Writes, Carries
      <4>3. QED
        BY <1>1, <1>3, <2>3, <2>7, <4>1, <4>2 DEF Coming, EmptyCaches
    <3>3. QED
      BY <1>2, <2>7, <3>1, <3>2
  <2>8. CASE life[row[b].inst] = "starting"
    BY <1>1, <2>8 DEF Coming
  <2>9. QED
    BY <2>1, <2>4, <2>5, <2>6, <2>7, <2>8 DEF Coming
<1>7. QED
  BY <1>5, <1>6 DEF PromiseInv

\* The router takes the next row of the coroutine that runs.
Taken(t, r, u) ==
    /\ t = work[1] /\ r = Head(t.todo) /\ u = [t EXCEPT !.todo = Tail(@)]
    /\ t \in Tasks /\ u \in Tasks /\ r \in Read
    /\ ToSet(work) = {t}
    /\ u.only = t.only /\ u.v = t.v /\ u.rest = t.rest
    /\ ToSet(t.todo) = {r} \cup ToSet(u.todo)
    /\ t.only => r = RowOf(r.b) /\ u.todo = <<>>

LEMMA RowTaken ==
    ASSUME TypeInv, Resends, work # <<>>, work[1].todo # <<>>
    PROVE  \E t, r, u : Taken(t, r, u)
<1> DEFINE t == work[1]
           r == Head(t.todo)
           u == [t EXCEPT !.todo = Tail(@)]
<1>1. t \in Tasks /\ r \in Read /\ u \in Tasks /\ ToSet(work) = {t}
  BY WorkType, WorkSet DEF TypeInv, RouterTypes
<1>2. /\ t.todo \in Seq(Read) /\ u.todo = Tail(t.todo)
      /\ u.only = t.only /\ u.v = t.v /\ u.rest = t.rest
  BY <1>1 DEF Tasks
<1>3. ToSet(t.todo) = {r} \cup ToSet(u.todo)
  BY <1>2, SetOfTail
<1>4. t.only => r = RowOf(r.b) /\ u.todo = <<>>
  <2>1. SUFFICES ASSUME t.only
                 PROVE  r = RowOf(r.b) /\ u.todo = <<>>
    OBVIOUS
  <2>2. PICK b \in Binding : t.todo = <<RowOf(b)>>
    BY <1>1, <2>1 DEF Resends
  <2>3. r = RowOf(b) /\ Tail(t.todo) = <<>>
    BY <2>2
  <2>4. QED
    BY <1>2, <2>3 DEF RowOf
<1>5. QED
  BY <1>1, <1>2, <1>3, <1>4 DEF Taken

LEMMA RowSound ==
    ASSUME TypeInv, Sound(value), UNCHANGED <<value, row, queue>>, NEW t, NEW r, NEW u, Taken(t, r, u),
           \/ ToSet(work') \subseteq {u} /\ writing' = writing
           \/ /\ ToSet(work') = {}
              /\ \E w : w.task = u /\ ToSet(writing') = ToSet(writing) \cup {w}
    PROVE  Sound(value)'
<1>1. \A k \in UnderWay' : k \in UnderWay \/ k = u
  BY DEF UnderWay
<1>2. t \in UnderWay /\ Waiting' = Waiting
  BY DEF UnderWay, Taken, Waiting
<1>3. EventIsCurrent(value)'
  BY <1>1, <1>2 DEF Sound, EventIsCurrent, Taken
<1>4. OldWrite(value)' /\ Resends'
  BY DEF Sound, OldWrite, Resends, Taken
<1>5. Overtaken(queue, value)'
  BY DEF Sound, Overtaken
<1>6. QED
  BY <1>3, <1>4, <1>5 DEF Sound

LEMMA SkipRowPromise ==
    ASSUME TypeInv, PromiseInv, SkipRow
    PROVE  PromiseInv'
<1>0. PICK t, r, u : Taken(t, r, u)
  BY RowTaken DEF SkipRow, PromiseInv, Sound
<1>1. /\ GoesOn(u)
      /\ UNCHANGED <<value, row, order, conn, life, last, sent, queue, writing, got>>
      /\ Target(r, t.only) = None \/ Throttles(r) \/ Unchanged(r, t.v)
      /\ held' = IF ~t.only /\ Target(r, FALSE) # None THEN held \cup {r.b} ELSE held
  BY <1>0 DEF SkipRow, Taken, tables
<1>2. ToSet(work') \subseteq {u} /\ (u \in ToSet(work') \/ (u.todo = <<>> /\ u.rest = <<>>))
  BY <1>1, GoesOnWith
<1>3. Sound(value)'
  BY <1>0, <1>1, <1>2, RowSound DEF PromiseInv
<1>4. ASSUME NEW b \in Binding
      PROVE  Promised(b)'
  <2>1. SUFFICES ASSUME Owed(b), ~Offered(b)', Coming(b)
                 PROVE  Coming(b)'
    BY <1>1, <1>4 DEF PromiseInv, Promised, Owed, Offered, Running
  <2>2. row[b].inst \in Running /\ row[b].inst # None
    BY <2>1, OwedInstance, NoneAssumption DEF Owed
  <2>3. r.b = b /\ r.inst = row[b].inst => Target(r, t.only) # None /\ Target(r, FALSE) # None
    BY <2>2 DEF Target
  <2>4. ~(~t.only /\ r.b = b /\ r.inst = row[b].inst)
    BY <1>1, <2>1, <2>3 DEF Offered
  <2>5. ~(EmptyCaches(b) /\ r.b = b /\ r.inst = row[b].inst)
    BY <1>1, <2>3 DEF EmptyCaches, Throttles, Unchanged
  <2>6. UnderWay \subseteq UnderWay' \cup {t}
    BY <1>0, <1>1 DEF UnderWay, Taken
  <2>7. (u \in ToSet(work') => u \in UnderWay') /\ ToSet(<<>>) = {}
    BY DEF UnderWay, ToSet
  <2>8. CASE \E j \in Waiting : Announces(j, b)
    BY <1>1, <2>8 DEF Coming, Announces, Waiting
  <2>9. CASE \E k \in UnderWay : Brings(k, b)
    <3>1. Brings(t, b) => Brings(u, b)
      BY <1>0, <2>4 DEF Brings, Carries, Taken
    <3>2. Brings(u, b) => u \in ToSet(work')
      BY <1>2, <2>7 DEF Brings, Carries
    <3>3. \E k \in UnderWay' : Brings(k, b)
      BY <2>6, <2>7, <2>9, <3>1, <3>2
    <3>4. QED
      BY <1>1, <3>3 DEF Coming, Brings, Carries
  <2>10. CASE EmptyCaches(b) /\ \E k \in UnderWay : Writes(k, b)
    <3>1. ~Writes(t, b)
      BY <1>0, <2>5, <2>7, <2>10 DEF Writes, Carries, Taken
    <3>2. QED
      BY <1>1, <2>6, <2>10, <3>1 DEF Coming, Writes, Carries, EmptyCaches
  <2>11. CASE EmptyCaches(b) /\ \E j \in Waiting : Asks(j, b)
    BY <1>1, <2>11 DEF Coming, Asks, EmptyCaches, Waiting
  <2>12. CASE life[row[b].inst] = "starting"
    BY <1>1, <2>12 DEF Coming
  <2>13. QED
    BY <2>1, <2>8, <2>9, <2>10, <2>11, <2>12 DEF Coming
<1>5. QED
  BY <1>3, <1>4 DEF PromiseInv

\* What WriteRow does, whether the adapter is slow or not.
LEMMA RowWritten ==
    ASSUME TypeInv, WriteRow, NEW t, NEW r, NEW u, Taken(t, r, u)
    PROVE  /\ UNCHANGED <<value, row, order, conn, life, queue>>
           /\ Target(r, t.only) # None
           /\ Offer(r.b, Target(r, t.only), t.v)
           /\ \/ UNCHANGED <<last, sent>> /\ held' = MadeGood(r.b, Target(r, t.only))
              \/ /\ Record(r, t.v)
                 /\ held' = MadeGood(r.b, Target(r, t.only)) \cup Refilled(r.b)
           /\ UnderWay \subseteq UnderWay' \cup {t}
           /\ u \in UnderWay' \/ (u.todo = <<>> /\ u.rest = <<>>)
           /\ \/ ToSet(work') \subseteq {u} /\ writing' = writing
              \/ /\ ToSet(work') = {}
                 /\ \E w : w.task = u /\ ToSet(writing') = ToSet(writing) \cup {w}
<1> DEFINE i == Target(r, t.only)
<1>1. t = work[1] /\ r = Head(t.todo) /\ u = [t EXCEPT !.todo = Tail(@)] /\ ToSet(work) = {t}
  BY DEF Taken
<1>2. /\ UNCHANGED <<value, row, order, conn, life, queue>>
      /\ i # None /\ Offer(r.b, i, t.v)
  BY <1>1 DEF WriteRow, tables
<1>3. CASE i \in Slow
  <2>1. PICK w : w = [row |-> r, task |-> u]
    OBVIOUS
  <2>2. /\ writing' = Append(writing, w) /\ work' = <<>>
        /\ UNCHANGED <<last, sent>> /\ held' = MadeGood(r.b, i)
    BY <1>1, <1>3, <2>1 DEF WriteRow
  <2>3. ToSet(writing') = ToSet(writing) \cup {w} /\ ToSet(work') = {} /\ w.task = u
    BY <2>1, <2>2, SetOfAppended DEF TypeInv, RouterTypes, ToSet
  <2>4. UnderWay \subseteq UnderWay' \cup {t} /\ u \in UnderWay'
    BY <1>1, <2>3 DEF UnderWay
  <2>5. QED
    BY <1>2, <2>2, <2>3, <2>4
<1>4. CASE i \notin Slow
  <2>1. /\ GoesOn(u) /\ writing' = writing
        /\ \/ Record(r, t.v) /\ held' = MadeGood(r.b, i) \cup Refilled(r.b)
           \/ UNCHANGED <<last, sent>> /\ held' = MadeGood(r.b, i)
    BY <1>1, <1>4 DEF WriteRow
  <2>2. ToSet(work') \subseteq {u} /\ (u \in ToSet(work') \/ (u.todo = <<>> /\ u.rest = <<>>))
    BY <2>1, GoesOnWith
  <2>3. UnderWay \subseteq UnderWay' \cup {t} /\ (u \in UnderWay' \/ (u.todo = <<>> /\ u.rest = <<>>))
    BY <1>1, <2>1, <2>2 DEF UnderWay
  <2>4. QED
    BY <1>2, <2>1, <2>2, <2>3
<1>5. QED
  BY <1>3, <1>4

LEMMA WriteRowPromise ==
    ASSUME TypeInv, PromiseInv, WriteRow
    PROVE  PromiseInv'
<1>0. PICK t, r, u : Taken(t, r, u)
  <2>1. work # <<>> /\ work[1].todo # <<>>
    BY DEF WriteRow
  <2>2. QED
    BY <2>1, RowTaken DEF PromiseInv, Sound
<1>1. PICK i : i = Target(r, t.only)
  OBVIOUS
<1>2. /\ UNCHANGED <<value, row, order, conn, life, queue>>
      /\ i # None /\ Offer(r.b, i, t.v)
      /\ \/ UNCHANGED <<last, sent>> /\ held' = MadeGood(r.b, i)
         \/ Record(r, t.v) /\ held' = MadeGood(r.b, i) \cup Refilled(r.b)
      /\ UnderWay \subseteq UnderWay' \cup {t}
      /\ u \in UnderWay' \/ (u.todo = <<>> /\ u.rest = <<>>)
  BY <1>0, <1>1, RowWritten
<1>3. Sound(value)'
  BY <1>0, <1>2, RowWritten, RowSound DEF PromiseInv
<1>4. r.b \in Binding /\ t.only \in BOOLEAN
  BY <1>0 DEF Taken, Read, Tasks
<1>5. i \in Instance
  BY <1>0, <1>1, <1>2, <1>4, TargetType, RunningIsInstance DEF Taken, TypeInv
<1>6. ASSUME NEW b \in Binding, Owed(b), i = row[b].inst, r.b = b
      PROVE  Offered(b)' \/ Coming(b)'
  <2>1. got'[b][i] = t.v
    BY <1>2, <1>4, <1>5, <1>6 DEF Owed, Offer, TypeInv, OfferTypes
  <2>2. CASE t.v = value
    BY <1>2, <1>6, <2>1, <2>2 DEF Offered
  <2>3. CASE t.v # value
    <3>1. t.only /\ t \in ToSet(work) /\ t.todo # <<>>
      <4>1. t \in ToSet(work) /\ t \in UnderWay
        BY <1>0 DEF Taken, UnderWay
      <4>2. r \in ToSet(t.todo)
        BY <1>0 DEF Taken
      <4>3. QED
        BY <1>6, <2>3, <4>1, <4>2 DEF PromiseInv, Sound, EventIsCurrent, Owed, ToSet
    <3>2. \E j \in Waiting : j.op = "all"
      BY <1>6, <2>3, <3>1 DEF PromiseInv, Sound, OldWrite, Owed
    <3>3. QED
      BY <1>2, <3>2 DEF Coming, Announces, Waiting
  <2>4. QED
    BY <2>2, <2>3
<1>7. ASSUME NEW b \in Binding, Owed(b), Offered(b), ~(i = row[b].inst /\ r.b = b)
      PROVE  Offered(b)'
  <2>1. b \in held => b \in held'
    BY <1>2, <1>4, <1>7 DEF MadeGood
  <2>2. got'[b][row[b].inst] = got[b][row[b].inst]
    <3>1. row[b].inst \in Instance
      BY <1>7, OwedInstance
    <3>2. QED
      BY <1>2, <1>4, <1>5, <1>7, <3>1 DEF Offer, TypeInv, OfferTypes
  <2>3. QED
    BY <1>2, <1>7, <2>1, <2>2 DEF Offered
<1>8. ASSUME NEW b \in Binding, Owed(b), Coming(b), ~(i = row[b].inst /\ r.b = b)
      PROVE  Offered(b)' \/ Coming(b)'
  <2>1. ~(r.b = b /\ r.inst = row[b].inst)
    BY <1>1, <1>8 DEF Owed, Target
  <2>2. ToSet(<<>>) = {}
    BY DEF ToSet
  <2>3. CASE \E j \in Waiting : Announces(j, b)
    BY <1>2, <2>3 DEF Coming, Announces, Waiting
  <2>4. CASE \E k \in UnderWay : Brings(k, b)
    <3>1. Brings(t, b) => Brings(u, b)
      BY <1>0, <2>1 DEF Brings, Carries, Taken
    <3>2. Brings(u, b) => u \in UnderWay'
      BY <1>2, <2>2 DEF Brings, Carries
    <3>3. \E k \in UnderWay' : Brings(k, b)
      BY <1>2, <2>4, <3>1, <3>2
    <3>4. QED
      BY <1>2, <3>3 DEF Coming, Brings, Carries
  <2>5. CASE EmptyCaches(b) /\ \E k \in UnderWay : Writes(k, b)
    <3>1. PICK k \in UnderWay : Writes(k, b)
      BY <2>5
    <3>2. k.only /\ Carries(k, b)
      BY <3>1 DEF Writes
    <3>3. k = t
      <4>1. k \in ToSet(work) \/ \E w \in ToSet(writing) : k = w.task
        BY DEF UnderWay
      <4>2. \A w \in ToSet(writing) : k # w.task
        BY <2>2, <3>2 DEF PromiseInv, Sound, Resends, Carries
      <4>3. QED
        BY <1>0, <4>1, <4>2 DEF Taken
    <3>4. QED
      BY <1>0, <2>1, <2>2, <3>2, <3>3 DEF Carries, Taken
  <2>6. CASE EmptyCaches(b) /\ \E j \in Waiting : Asks(j, b)
    <3>1. PICK j \in Waiting : Asks(j, b)
      BY <2>6
    <3>2. b \in Refilled(b) \/ got'[b][row[b].inst] = value
      BY <1>8, <3>1, OwedInstance, NoneAssumption DEF Refilled, Asks, Waiting, ToSet
    <3>3. b \in held' \/ got'[b][row[b].inst] = value \/ EmptyCaches(b)'
      BY <1>2, <1>4, <2>6, <3>2 DEF EmptyCaches, Record, TypeInv, RouterTypes
    <3>4. Asks(j, b)' /\ j \in Waiting'
      BY <1>2, <3>1 DEF Asks, Waiting
    <3>5. QED
      BY <1>2, <3>3, <3>4 DEF Coming, Offered
  <2>7. CASE life[row[b].inst] = "starting"
    BY <1>2, <2>7 DEF Coming
  <2>8. QED
    BY <1>8, <2>3, <2>4, <2>5, <2>6, <2>7 DEF Coming
<1>9. \A b \in Binding : Owed(b)' => Owed(b)
  BY <1>2 DEF Owed, Running
<1>10. QED
  BY <1>3, <1>6, <1>7, <1>8, <1>9 DEF PromiseInv, Promised

LEMMA EndWritePromise ==
    ASSUME TypeInv, PromiseInv, EndWrite
    PROVE  PromiseInv'
<1>1. /\ work = <<>> /\ UNCHANGED <<value, row, order, conn, life, queue, got>>
  BY DEF EndWrite, tables
<1>2. PICK n \in DOMAIN writing :
          /\ \/ /\ Record(writing[n].row, writing[n].task.v)
                /\ held' = held \cup Refilled(writing[n].row.b)
             \/ UNCHANGED <<last, sent, held>>
          /\ writing' = RemoveAt(writing, n)
          /\ GoesOn(writing[n].task)
  BY DEF EndWrite
<1>3. PICK w : w = writing[n]
  OBVIOUS
<1>4. /\ w \in ToSet(writing)
      /\ ToSet(writing') \subseteq ToSet(writing) /\ ToSet(writing) \subseteq ToSet(writing') \cup {w}
      /\ ToSet(work) = {} /\ ToSet(work') \subseteq {w.task}
      /\ w.task \in ToSet(work') \/ (w.task.todo = <<>> /\ w.task.rest = <<>>)
  <2>1. writing \in Seq([row : Read, task : Tasks])
    BY DEF TypeInv, RouterTypes
  <2>2. w \in ToSet(writing)
    BY <1>3 DEF ToSet
  <2>3. QED
    BY <1>1, <1>2, <1>3, <2>1, <2>2, SetOfRemoved, GoesOnWith, WorkSet DEF TypeInv, RouterTypes
<1>5. /\ UnderWay' \subseteq UnderWay
      /\ \A k \in UnderWay : k \in UnderWay' \/ (k.todo = <<>> /\ k.rest = <<>>)
  BY <1>4 DEF UnderWay
<1>6. w.task.only => w.task.todo = <<>>
  BY <1>4 DEF PromiseInv, Sound, Resends
<1>7. Sound(value)'
  <2>1. EventIsCurrent(value)'
    BY <1>1, <1>5 DEF PromiseInv, Sound, EventIsCurrent, Waiting
  <2>2. Overtaken(queue, value)'
    BY <1>1 DEF PromiseInv, Sound, Overtaken
  <2>3. OldWrite(value)'
    BY <1>4, <1>6 DEF OldWrite
  <2>4. Resends'
    BY <1>4, <1>6 DEF PromiseInv, Sound, Resends
  <2>5. QED
    BY <2>1, <2>2, <2>3, <2>4 DEF Sound
<1>8. ASSUME NEW b \in Binding
      PROVE  Promised(b)'
  <2>1. SUFFICES ASSUME Owed(b), Coming(b), ~Offered(b)'
                 PROVE  Coming(b)'
    BY <1>1, <1>2, <1>8 DEF PromiseInv, Promised, Owed, Offered, Running
  <2>2. ToSet(<<>>) = {}
    BY DEF ToSet
  <2>3. CASE \E j \in Waiting : Announces(j, b)
    BY <1>1, <2>3 DEF Coming, Announces, Waiting
  <2>4. CASE \E k \in UnderWay : Brings(k, b)
    <3>1. \E k \in UnderWay' : Brings(k, b)
      BY <1>5, <2>2, <2>4 DEF Brings, Carries
    <3>2. QED
      BY <1>1, <3>1 DEF Coming, Brings, Carries
  <2>5. CASE EmptyCaches(b) /\ \E k \in UnderWay : Writes(k, b)
    <3>1. PICK k \in UnderWay : Writes(k, b)
      BY <2>5
    <3>2. \E x \in ToSet(writing) : k = x.task
      BY <1>4 DEF UnderWay
    <3>3. k.todo = <<>>
      BY <3>1, <3>2 DEF PromiseInv, Sound, Resends, Writes
    <3>4. QED
      BY <2>2, <3>1, <3>3 DEF Writes, Carries
  <2>6. CASE EmptyCaches(b) /\ \E j \in Waiting : Asks(j, b)
    <3>1. PICK j \in Waiting : Asks(j, b)
      BY <2>6
    <3>2. b \in Refilled(b)
      BY <1>1, <2>1, <3>1, OwedInstance, NoneAssumption DEF Refilled, Asks, Waiting, ToSet, Offered
    <3>3. b \in held' \/ EmptyCaches(b)'
      BY <1>2, <2>6, <3>2 DEF EmptyCaches, Record, TypeInv, RouterTypes
    <3>4. Asks(j, b)' /\ j \in Waiting'
      BY <1>1, <3>1 DEF Asks, Waiting
    <3>5. QED
      BY <2>1, <3>3, <3>4 DEF Coming, Offered
  <2>7. CASE life[row[b].inst] = "starting"
    BY <1>1, <2>7 DEF Coming
  <2>8. QED
    BY <2>1, <2>3, <2>4, <2>5, <2>6, <2>7 DEF Coming
<1>9. QED
  BY <1>7, <1>8 DEF PromiseInv

LEMMA ResendNextPromise ==
    ASSUME TypeInv, PromiseInv, ResendNext
    PROVE  PromiseInv'
<1>1. /\ work # <<>> /\ work[1].todo = <<>> /\ work' = <<>>
      /\ UNCHANGED <<value, row, order, conn, life, writing, got>>
  BY DEF ResendNext, tables
<1>2. PICK t : t = work[1]
  OBVIOUS
<1>3. /\ ToSet(work) = {t} /\ ToSet(work') = {} /\ t.todo = <<>> /\ t.rest \in Seq(Binding)
      /\ t.rest # <<>>
  BY <1>1, <1>2, WorkSet, WorkType DEF TypeInv, RouterTypes, WorkTypes, Tasks, ToSet
<1>4. UnderWay = UnderWay' \cup {t}
  BY <1>1, <1>3 DEF UnderWay
<1>5. OldWrite(value)' /\ Resends'
  BY <1>1, <1>3 DEF PromiseInv, Sound, OldWrite, Resends, RowOf
<1>6. CASE value = 0
  <2>1. EventIsCurrent(value)' /\ Overtaken(queue, value)'
    BY <1>1, <1>6 DEF ResendNext, PromiseInv, Sound, EventIsCurrent, Overtaken
  <2>2. \A b \in Binding : ~Owed(b)'
    BY <1>1, <1>6 DEF Owed
  <2>3. QED
    BY <1>5, <2>1, <2>2 DEF PromiseInv, Promised, Sound
<1>7. CASE value # 0
  <2>0. PICK c, j : c = Head(t.rest) /\ j = [op |-> "one", b |-> c, v |-> value, rest |-> Tail(t.rest)]
    OBVIOUS
  <2>1. /\ last' = [last EXCEPT ![c] = 0] /\ sent' = [sent EXCEPT ![c] = FALSE]
        /\ held' = held \ {c} /\ queue' = Append(queue, j)
    BY <1>2, <1>7, <2>0 DEF ResendNext
  <2>2. c \in Binding /\ ToSet(t.rest) = {c} \cup ToSet(j.rest)
    BY <1>3, <2>0, SetOfTail
  <2>3. Waiting' = Waiting \cup {j} /\ j.op = "one" /\ j.b = c /\ j.v = value
    BY <2>0, <2>1, SetOfAppended DEF Waiting, TypeInv, RouterTypes
  <2>4. EventIsCurrent(value)'
    BY <1>1, <1>4, <2>3 DEF PromiseInv, Sound, EventIsCurrent
  <2>5. Overtaken(queue, value)'
    <3>1. Overtaken(Append(queue, j), value)
      BY <2>3, OvertakenAppend DEF PromiseInv, Sound, TypeInv, RouterTypes
    <3>2. QED
      BY <1>1, <2>1, <3>1 DEF Overtaken
  <2>6. Coming(c)'
    <3>1. EmptyCaches(c)'
      BY <2>1, <2>2 DEF EmptyCaches, TypeInv, RouterTypes
    <3>2. Asks(j, c)' /\ j \in Waiting'
      BY <1>1, <2>3 DEF Asks
    <3>3. QED
      BY <3>1, <3>2 DEF Coming
  <2>7. ASSUME NEW b \in Binding, b # c
        PROVE  Promised(b)'
    <3>1. SUFFICES ASSUME Owed(b), Coming(b)
                   PROVE  Coming(b)'
      BY <1>1, <2>1, <2>7 DEF PromiseInv, Promised, Owed, Offered, Running
    <3>2. EmptyCaches(b) => EmptyCaches(b)'
      BY <2>1, <2>2, <2>7 DEF EmptyCaches, TypeInv, RouterTypes
    <3>3. ToSet(<<>>) = {}
      BY DEF ToSet
    <3>4. CASE \E k \in Waiting : Announces(k, b)
      BY <1>1, <2>3, <3>4 DEF Coming, Announces
    <3>5. CASE \E k \in UnderWay : Brings(k, b)
      <4>1. CASE Brings(t, b)
        <5>1. b \in ToSet(j.rest)
          BY <1>3, <2>2, <2>7, <3>3, <4>1 DEF Brings, Carries
        <5>2. Announces(j, b)'
          BY <2>3, <5>1 DEF Announces
        <5>3. QED
          BY <2>3, <5>2 DEF Coming
      <4>2. CASE \E k \in UnderWay' : Brings(k, b)
        BY <1>1, <4>2 DEF Coming, Brings, Carries
      <4>3. QED
        BY <1>4, <3>5, <4>1, <4>2
    <3>6. CASE EmptyCaches(b) /\ \E k \in UnderWay : Writes(k, b)
      <4>1. ~Writes(t, b)
        BY <1>3, <3>3 DEF Writes, Carries
      <4>2. PICK k \in UnderWay' : Writes(k, b)
        BY <1>4, <3>6, <4>1
      <4>3. Writes(k, b)'
        BY <1>1, <4>2 DEF Writes, Carries
      <4>4. QED
        BY <3>2, <3>6, <4>2, <4>3 DEF Coming
    <3>7. CASE EmptyCaches(b) /\ \E k \in Waiting : Asks(k, b)
      BY <1>1, <2>3, <3>2, <3>7 DEF Coming, Asks
    <3>8. CASE life[row[b].inst] = "starting"
      BY <1>1, <3>8 DEF Coming
    <3>9. QED
      BY <3>1, <3>4, <3>5, <3>6, <3>7, <3>8 DEF Coming
  <2>8. QED
    BY <1>5, <2>4, <2>5, <2>6, <2>7 DEF PromiseInv, Promised, Sound
<1>8. QED
  BY <1>6, <1>7

LEMMA InitPromise ==
    ASSUME Init
    PROVE  PromiseInv
<1>1. value = 0 /\ queue = <<>> /\ ToSet(work) = {} /\ ToSet(writing) = {}
  BY DEF Init, ToSet
<1>2. Sound(value)
  BY <1>1 DEF Sound, EventIsCurrent, Overtaken, OldWrite, Resends
<1>3. \A b \in Binding : ~Owed(b)
  BY <1>1 DEF Owed
<1>4. QED
  BY <1>2, <1>3 DEF PromiseInv, Promised

LEMMA PromiseStep ==
    ASSUME TypeInv, TypeInv', LifeInv, PromiseInv, [Next]_vars
    PROVE  PromiseInv'
<1>1. CASE Router
  BY <1>1, SkipRowPromise, WriteRowPromise, EndWritePromise, ResendNextPromise DEF Router
<1>2. CASE Database
  BY <1>2, ReadRowsPromise, ReadReloadPromise, ReadInstancePromise, AnnounceStartedPromise DEF Database
<1>3. CASE Registry
  <2>1. CASE \E i \in Instance : Register(i) \/ StartFails(i) \/ \E told \in BOOLEAN : Disconnected(i, told)
    BY <2>1, RegisterPromise, StartFailsPromise, DisconnectedPromise
  <2>2. CASE \E i \in Instance : SweepStarts(i) \/ \E told \in BOOLEAN : SweepStops(i, told)
    BY <2>2, SweepStartsPromise, SweepStopsPromise
  <2>3. CASE SweepLoads \/ SweepEnds
    BY <2>3, SweepLoadsPromise, SweepPromise
  <2>4. QED
    BY <1>3, <2>1, <2>2, <2>3 DEF Registry
<1>4. CASE Outside
  <2>1. ASSUME NEW v \in Values, Publish(v)
        PROVE  PromiseInv'
    BY <2>1, PublishPromise
  <2>2. CASE \E i \in Instance : LinkUp(i) \/ LinkDown(i)
    BY <2>2, LinkUpPromise, LinkDownPromise
  <2>3. CASE \E i \in Instance, enabled \in {"on", "off"} : Restart(i, enabled)
    BY <2>3, RestartPromise
  <2>4. CASE \E i \in Instance, delete \in BOOLEAN : Stop(i, delete)
    BY <2>4, StopPromise
  <2>5. CASE \E restore \in BOOLEAN : BeginSweep(restore)
    BY <2>5, SweepPromise
  <2>6. CASE \/ \E b \in Binding, i \in Instance, f \in Filter : CreateBinding(b, i, f)
             \/ \E b \in Binding, mode \in {"on", "off"}, f \in Filter : UpdateBinding(b, mode, f)
             \/ \E i, j \in Instance : MigrateBindings(i, j)
             \/ \E b \in Binding : DeleteBinding(b)
    BY <2>6, BindingPromise
  <2>7. QED
    BY <1>4, <2>1, <2>2, <2>3, <2>4, <2>5, <2>6 DEF Outside
<1>5. CASE UNCHANGED vars
  <2>1. /\ UNCHANGED <<value, row, order, conn, life, last, sent, queue, work, writing, got, held>>
    BY <1>5 DEF vars
  <2>2. Sound(value)'
    BY <2>1 DEF PromiseInv, Sound, EventIsCurrent, Overtaken, OldWrite, Resends, Waiting, UnderWay,
       RowOf
  <2>3. ASSUME NEW b \in Binding
        PROVE  Promised(b)'
    <3>1. Owed(b)' = Owed(b) /\ Offered(b)' = Offered(b)
      BY <2>1 DEF Owed, Offered, Running
    <3>2. Coming(b) => Coming(b)'
      BY <2>1 DEF Coming, Waiting, UnderWay, Announces, Brings, Asks, Writes, Carries, EmptyCaches
    <3>3. QED
      BY <3>1, <3>2 DEF PromiseInv, Promised
  <2>4. QED
    BY <2>2, <2>3 DEF PromiseInv
<1>6. QED
  BY <1>1, <1>2, <1>3, <1>4, <1>5 DEF Next

-----------------------------------------------------------------------------
(* The theorems.                                                           *)

LEMMA InitLife ==
    ASSUME Init
    PROVE  LifeInv
<1>1. Running = Enabled
  <2>1. IsFiniteSet(Enabled)
    BY FS_Subset DEF Enabled
  <2>2. QED
    BY <2>1, Enumerated DEF Init, Running
<1>2. Orderly(queue, life, sweep)
  BY DEF Init, Orderly
<1>3. SweepInv /\ \A i \in Instance : life[i] = "idle"
  BY DEF Init, SweepInv
<1>4. SeenIsConnected
  BY <1>1 DEF Init, SeenIsConnected
<1>5. QED
  BY <1>2, <1>3, <1>4 DEF LifeInv, Absent

LEMMA RouterStep ==
    ASSUME TypeInv, LifeInv, Router
    PROVE  TypeInv' /\ LifeInv'
BY SkipRowTypes, WriteRowTypes, EndWriteTypes, ResendNextTypes, RouterLife DEF Router

LEMMA DatabaseStep ==
    ASSUME TypeInv, LifeInv, Database
    PROVE  TypeInv' /\ LifeInv'
<1>1. CASE ReadRows
  BY <1>1, ReadRowsTypes, ReadRowsLife
<1>2. CASE ReadReload
  BY <1>2, ReadReloadTypes, ReadReloadLife
<1>3. CASE ReadInstance
  <2>1. Answer("instances") => sweep # <<>>
    <3>1. SUFFICES ASSUME Answer("instances")
                   PROVE  sweep # <<>>
      OBVIOUS
    <3>2. Placed(Head(queue), life, sweep) /\ Head(queue).op = "instances"
      BY <3>1, OrderlyTail DEF Answer, LifeInv, TypeInv, RouterTypes
    <3>3. QED
      BY <3>2 DEF Placed
  <2>2. Answer("row") \/ Answer("instances")
    BY <1>3 DEF ReadInstance
  <2>3. QED
    BY <1>3, <2>1, <2>2, ReadInstanceTypes, ReadRowLife, ReadInstancesLife
<1>4. CASE AnnounceStarted
  BY <1>4, AnnounceStartedTypes, AnnounceStartedLife
<1>5. QED
  BY <1>1, <1>2, <1>3, <1>4 DEF Database

LEMMA RegistryStep ==
    ASSUME TypeInv, LifeInv, Registry
    PROVE  TypeInv' /\ LifeInv'
<1>1. ASSUME NEW i \in Instance, Register(i)
      PROVE  TypeInv' /\ LifeInv'
  <2>1. i \notin Running
    BY <1>1 DEF Register, LifeInv, Absent
  <2>2. QED
    BY <1>1, <2>1, RegisterTypes, RegisterLife
<1>2. ASSUME NEW i \in Instance, StartFails(i)
      PROVE  TypeInv' /\ LifeInv'
  BY <1>2, StartFailsTypes, StartFailsLife
<1>3. ASSUME NEW i \in Instance, NEW told \in BOOLEAN, Disconnected(i, told)
      PROVE  TypeInv' /\ LifeInv'
  BY <1>3, DisconnectedTypes, DisconnectedLife
<1>4. ASSUME NEW i \in Instance, SweepStarts(i)
      PROVE  TypeInv' /\ LifeInv'
  BY <1>4, SweepStartsTypes, SweepStartsLife
<1>5. ASSUME NEW i \in Instance, NEW told \in BOOLEAN, SweepStops(i, told)
      PROVE  TypeInv' /\ LifeInv'
  BY <1>5, SweepStopsTypes, SweepStopsLife
<1>6. CASE SweepLoads
  BY <1>6, SweepLoadsTypes, SweepLoadsLife
<1>7. CASE SweepEnds
  BY <1>7, SweepEndsTypes, SweepEndsLife
<1>8. QED
  BY <1>1, <1>2, <1>3, <1>4, <1>5, <1>6, <1>7 DEF Registry

LEMMA OutsideStep ==
    ASSUME TypeInv, LifeInv, Outside
    PROVE  TypeInv' /\ LifeInv'
<1>1. ASSUME NEW v \in Values, Publish(v)
      PROVE  TypeInv' /\ LifeInv'
  BY <1>1, PublishTypes, PublishLife
<1>2. ASSUME NEW i \in Instance, LinkUp(i) \/ LinkDown(i)
      PROVE  TypeInv' /\ LifeInv'
  BY <1>2, LinkUpTypes, LinkDownTypes, LinkLife
<1>3. ASSUME NEW i \in Instance, NEW enabled \in {"on", "off"}, Restart(i, enabled)
      PROVE  TypeInv' /\ LifeInv'
  BY <1>3, RestartTypes, RestartLife
<1>4. ASSUME NEW i \in Instance, NEW delete \in BOOLEAN, Stop(i, delete)
      PROVE  TypeInv' /\ LifeInv'
  BY <1>4, StopTypes, StopLife
<1>5. ASSUME NEW restore \in BOOLEAN, BeginSweep(restore)
      PROVE  TypeInv' /\ LifeInv'
  BY <1>5, BeginSweepTypes, BeginSweepLife
<1>6. ASSUME NEW b \in Binding, NEW i \in Instance, NEW f \in Filter, CreateBinding(b, i, f)
      PROVE  TypeInv' /\ LifeInv'
  <2>1. LifeInv'
    BY <1>6, BindingLife DEF CreateBinding
  <2>2. QED
    BY <1>6, <2>1, CreateBindingTypes
<1>7. ASSUME NEW b \in Binding, NEW mode \in {"on", "off"}, NEW f \in Filter, UpdateBinding(b, mode, f)
      PROVE  TypeInv' /\ LifeInv'
  <2>1. LifeInv'
    BY <1>7, BindingLife DEF UpdateBinding
  <2>2. QED
    BY <1>7, <2>1, UpdateBindingTypes
<1>8. ASSUME NEW i \in Instance, NEW j \in Instance, MigrateBindings(i, j)
      PROVE  TypeInv' /\ LifeInv'
  <2>1. LifeInv'
    BY <1>8, BindingLife DEF MigrateBindings
  <2>2. QED
    BY <1>8, <2>1, MigrateBindingsTypes
<1>9. ASSUME NEW b \in Binding, DeleteBinding(b)
      PROVE  TypeInv' /\ LifeInv'
  <2>1. LifeInv'
    BY <1>9, BindingLife DEF DeleteBinding
  <2>2. QED
    BY <1>9, <2>1, DeleteBindingTypes
<1>10. QED
  BY <1>1, <1>2, <1>3, <1>4, <1>5, <1>6, <1>7, <1>8, <1>9 DEF Outside

LEMMA Unmoved ==
    ASSUME TypeInv, LifeInv, UNCHANGED vars
    PROVE  TypeInv' /\ LifeInv'
<1>1. TypeInv'
  BY DEF vars, TypeInv, TableTypes, LinkTypes, RouterTypes, WorkTypes, OfferTypes
<1>2. Orderly(queue, life, sweep)'
  BY DEF vars, LifeInv
<1>3. LifeInv'
  BY <1>2, QuietStep DEF vars
<1>4. QED
  BY <1>1, <1>3

LEMMA Inductive == Spec => [](TypeInv /\ LifeInv)
<1>1. Init => TypeInv /\ LifeInv
  BY InitTypes, InitLife
<1>2. TypeInv /\ LifeInv /\ [Next]_vars => (TypeInv /\ LifeInv)'
  BY RouterStep, DatabaseStep, RegistryStep, OutsideStep, Unmoved DEF Next
<1>3. QED
  BY <1>1, <1>2, PTL DEF Spec

\* Every variable keeps its type, whatever starts, stops, restores and changes of
\* bindings write_router.py and registry.py go through; the dictionary of
\* instances holds each instance once.
THEOREM TypeCorrect == Spec => []TypeOK
<1>1. TypeInv => TypeOK
  <2> SUFFICES ASSUME TypeInv
               PROVE  TypeOK
    OBVIOUS
  <2>1. Running \subseteq Instance
    BY RunningIsInstance DEF TypeInv
  <2>2. \A n \in DOMAIN sweep : sweep[n].stage \in {"stop", "load", "start"}
    <3>1. sweep \in Seq(Sweeps)
      BY DEF TypeInv, LinkTypes
    <3>2. \A n \in DOMAIN sweep : sweep[n] \in Sweeps
      BY <3>1, ElementOfSeq, LenProperties
    <3>3. QED
      BY <3>2 DEF Sweeps
  <2>3. \A n \in DOMAIN queue : queue[n].op \in {"list", "one", "all", "reload", "row", "instances", "start"}
    <3>1. \A n \in DOMAIN queue : queue[n] \in Jobs
      BY DEF TypeInv, RouterTypes
    <3>2. QED
      BY <3>1 DEF Jobs
  <2>4. \A n \in DOMAIN writing : writing[n].row.b \in Binding
    <3>1. writing \in Seq([row : Read, task : Tasks])
      BY DEF TypeInv, RouterTypes
    <3>2. \A n \in DOMAIN writing : writing[n] \in [row : Read, task : Tasks]
      BY <3>1, ElementOfSeq, LenProperties
    <3>3. QED
      BY <3>2 DEF Read
  <2>5. QED
    BY <2>1, <2>2, <2>3, <2>4
    DEF TypeOK, TypeInv, TableTypes, LinkTypes, RouterTypes, WorkTypes, OfferTypes, Stored, Places
<1>2. QED
  BY <1>1, Inductive, PTL

\* _connected_instances and the connections agree for every registered instance
\* that is not being started: handle_adapter_status and handle_instance_started
\* keep it so through every order of links, restarts and stops.
THEOREM RouterKnowsConnections == Spec => []SeenIsConnected
<1>1. LifeInv => SeenIsConnected
  BY DEF LifeInv
<1>2. QED
  BY <1>1, Inductive, PTL

\* Whatever an enabled binding is owed and was not offered is on its way: a
\* query, a coroutine, a resend with empty caches or the start of its instance
\* brings it, and what it brings is the present value.
THEOREM ValueIsOnItsWay == Spec => []PromiseInv
<1>1. Init => PromiseInv
  BY InitPromise
<1>2. TypeInv /\ TypeInv' /\ LifeInv /\ PromiseInv /\ [Next]_vars => PromiseInv'
  BY PromiseStep
<1>3. QED
  BY <1>1, <1>2, Inductive, PTL DEF Spec

\* When nothing is under way, every enabled binding whose instance is registered
\* and connected was offered the current value of the data point, or a filter
\* held it back: what handle_adapter_status, handle_instance_started and the
\* routes that change bindings promise together, in whatever order they meet.
THEOREM SettledMeansOffered == Spec => []OfferedWhenSettled
<1>1. TypeInv /\ PromiseInv => OfferedWhenSettled
  <2>1. SUFFICES ASSUME TypeInv, PromiseInv, Settled, NEW b \in Binding, Owed(b)
                 PROVE  Offered(b)
    BY DEF OfferedWhenSettled
  <2>2. Waiting = {} /\ UnderWay = {}
    BY <2>1 DEF Settled, Waiting, UnderWay, ToSet
  <2>3. life[row[b].inst] = "idle"
    BY <2>1, OwedInstance DEF Settled
  <2>4. ~Coming(b)
    BY <2>2, <2>3 DEF Coming
  <2>5. QED
    BY <2>1, <2>4 DEF PromiseInv, Promised
<1>2. QED
  BY <1>1, ValueIsOnItsWay, Inductive, PTL
=============================================================================
