------------------------ MODULE KnxConfirmationsProofs ------------------------
(***************************************************************************)
(* Theorems about KnxConfirmations, for any bindings, addresses, codec and *)
(* bounds: its types, that a command acts once, that confirmations are     *)
(* published in the order of the commands, and that nothing written comes  *)
(* back as a new value.  The handler of a telegram is a fold over the      *)
(* bindings that listen; what each entry keeps the handler keeps           *)
(* (StepsKeep), so every fact about it is one about a single entry.        *)
(***************************************************************************)
EXTENDS KnxConfirmations, FiniteSetTheorems, SequenceTheorems, TLAPS

-----------------------------------------------------------------------------
(* Sequences.                                                              *)

(* A set of numbers has a least one.                                       *)
LEMMA LeastOf ==
    ASSUME NEW S, S \subseteq Nat, S # {}
    PROVE  \E x \in S : \A y \in S : x <= y
<1>1. PICK x \in S : \A y \in S : <<y, x>> \notin OpToRel(<, Nat)
  BY WFMin, NatLessThanWellFounded, Zenon
<1>2. \A y \in S : y \in Nat /\ x \in Nat
  OBVIOUS
<1>3. \A y \in S : ~(y < x)
  BY <1>1, <1>2, Zenon DEF OpToRel
<1>4. QED
  BY <1>2, <1>3

Increasing(s, S) ==
    /\ s \in [1..Cardinality(S) -> S]
    /\ \A i, j \in DOMAIN s : i < j => s[i] < s[j]

(* The least number first, then the others: a set of numbers that has no   *)
(* order has a smaller one.                                                *)
LEMMA HasOrder ==
    ASSUME NEW S \in SUBSET Nat, IsFiniteSet(S)
    PROVE  \E s : Increasing(s, S)
<1> DEFINE Without(k) == \E T \in SUBSET Nat : IsFiniteSet(T) /\ Cardinality(T) = k /\ ~ \E s : Increasing(s, T)
           D == {k \in Nat : Without(k)}
<1>1. Cardinality(S) \in Nat
  BY FS_CardinalityType
<1>2. SUFFICES ASSUME D # {} PROVE FALSE
  BY <1>1
<1>3. PICK m \in D : \A k \in D : m <= k
  BY <1>2, LeastOf
<1>4. PICK T \in SUBSET Nat : IsFiniteSet(T) /\ Cardinality(T) = m /\ ~ \E s : Increasing(s, T)
  BY <1>3
<1>5. m \in Nat
  BY <1>3
<1>6. T # {}
  <2>1. SUFFICES ASSUME T = {} PROVE \E s : Increasing(s, T)
    BY <1>4
  <2>2. Cardinality(T) = 0
    BY <2>1, FS_EmptySet
  <2>3. 1..Cardinality(T) = {}
    BY <2>2
  <2>4. [i \in {} |-> i] \in [1..Cardinality(T) -> T] /\ DOMAIN [i \in {} |-> i] = {}
    BY <2>3
  <2>5. QED
    BY <2>4 DEF Increasing
<1>7. PICK x \in T : \A y \in T : x <= y
  BY <1>6, LeastOf
<1> DEFINE U == T \ {x}
<1>8. IsFiniteSet(U) /\ Cardinality(U) = m - 1
  BY <1>4, <1>7, FS_RemoveElement
<1>9. m # 0 /\ m - 1 \in Nat
  BY <1>4, <1>5, <1>6, FS_EmptySet
<1>10. m - 1 \notin D
  BY <1>3, <1>5, <1>9
<1>11. PICK s : Increasing(s, U)
  BY <1>8, <1>9, <1>10
<1> DEFINE t == [i \in 1..m |-> IF i = 1 THEN x ELSE s[i - 1]]
<1>12. s \in [1..(m - 1) -> U] /\ \A i, j \in 1..(m - 1) : i < j => s[i] < s[j]
  BY <1>8, <1>11 DEF Increasing
<1>13. \A i \in 1..m : i # 1 => i - 1 \in 1..(m - 1) /\ s[i - 1] \in U
  BY <1>5, <1>12
<1>14. t \in [1..m -> T] /\ DOMAIN t = 1..m
  BY <1>7, <1>13
<1>15. ASSUME NEW i \in 1..m, NEW j \in 1..m, i < j PROVE t[i] < t[j]
  <2>1. j # 1 /\ s[j - 1] \in U /\ j - 1 \in 1..(m - 1)
    BY <1>13, <1>15
  <2>2. CASE i = 1
    <3>1. x <= s[j - 1] /\ x # s[j - 1] /\ x \in Nat /\ s[j - 1] \in Nat
      BY <1>7, <2>1
    <3>2. QED
      BY <2>1, <2>2, <3>1
  <2>3. CASE i # 1
    <3>1. s[i - 1] < s[j - 1]
      BY <1>12, <1>13, <1>15, <2>1, <2>3
    <3>2. QED
      BY <2>1, <2>3, <3>1
  <2>4. QED
    BY <2>2, <2>3
<1>16. Increasing(t, T)
  BY <1>4, <1>14, <1>15 DEF Increasing
<1>17. QED
  BY <1>4, <1>16

(* Ordered lists the numbers of a finite set, smallest first.              *)
LEMMA OrderedIs ==
    ASSUME NEW S \in SUBSET Nat, IsFiniteSet(S)
    PROVE  /\ Ordered(S) \in Seq(S)
           /\ \A i, j \in 1..Len(Ordered(S)) : i < j => Ordered(S)[i] < Ordered(S)[j]
<1>1. Cardinality(S) \in Nat
  BY FS_CardinalityType
<1>2. Increasing(Ordered(S), S)
  BY HasOrder DEF Ordered, Increasing
<1>3. Ordered(S) \in [1..Cardinality(S) -> S]
  BY <1>2 DEF Increasing
<1>4. Ordered(S) \in Seq(S)
  BY <1>1, <1>3
<1>5. DOMAIN Ordered(S) = 1..Len(Ordered(S))
  BY <1>4, LenProperties
<1>6. QED
  BY <1>2, <1>4, <1>5 DEF Increasing

(* What lies in an interval is finite.                                     *)
LEMMA IntervalFinite ==
    ASSUME NEW n \in Nat, NEW S \in SUBSET (1..n)
    PROVE  IsFiniteSet(S) /\ S \in SUBSET Nat
<1>1. IsFiniteSet(1..n)
  BY FS_Interval
<1>2. IsFiniteSet(S)
  BY <1>1, FS_Subset
<1>3. QED
  BY <1>2

(* A filtered sequence is a sequence of the same elements.                 *)
LEMMA FilteredIs ==
    ASSUME NEW T, NEW s \in Seq(T), NEW kept
    PROVE  Filtered(s, kept) \in Seq(T)
<1> DEFINE K == {i \in DOMAIN s : s[i] \in kept}
           at == Ordered(K)
<1>1. DOMAIN s = 1..Len(s) /\ Len(s) \in Nat
  BY LenProperties
<1>2. K \in SUBSET Nat /\ K \in SUBSET (1..Len(s))
  BY <1>1
<1>9. IsFiniteSet(K)
  BY <1>1, <1>2, IntervalFinite
<1>3. at \in Seq(K)
  BY <1>2, <1>9, OrderedIs
<1> HIDE DEF at
<1>4. DOMAIN at = 1..Len(at) /\ Len(at) \in Nat /\ \A i \in 1..Len(at) : at[i] \in K
  BY <1>3, LenProperties, ElementOfSeq
<1>5. \A i \in 1..Len(at) : s[at[i]] \in T
  BY <1>1, <1>4, ElementOfSeq
<1>6. [i \in DOMAIN at |-> s[at[i]]] \in [1..Len(at) -> T]
  BY <1>4, <1>5
<1>7. [i \in DOMAIN at |-> s[at[i]]] \in Seq(T)
  BY <1>4, <1>6
<1>8. QED
  BY <1>7 DEF Filtered, at

(* What is left of sequences of which one gives up its head.               *)
Rest(s, i) == IF Len(s[i]) = 1 THEN RemoveAt(s, i) ELSE [s EXCEPT ![i] = Tail(@)]
Nonempty(s) == \A i \in DOMAIN s : s[i] # <<>>

(* Where the k-th of them was, and how far its elements have moved.        *)
Before(s, i, k) == IF Len(s[i]) = 1 /\ k >= i THEN k + 1 ELSE k
Moved(s, i, k) == IF Len(s[i]) # 1 /\ k = i THEN 1 ELSE 0

(* A function on the first numbers is a sequence.                          *)
LEMMA FunctionIsSeq ==
    ASSUME NEW T, NEW n \in Nat, NEW f \in [1..n -> T]
    PROVE  f \in Seq(T) /\ DOMAIN f = 1..n
OBVIOUS

LEMMA RemoveAtIs ==
    ASSUME NEW T, NEW s \in Seq(T), NEW i \in DOMAIN s
    PROVE  /\ RemoveAt(s, i) \in Seq(T)
           /\ Len(RemoveAt(s, i)) = Len(s) - 1
           /\ \A k \in 1..(Len(s) - 1) : RemoveAt(s, i)[k] = s[IF k >= i THEN k + 1 ELSE k]
<1> DEFINE a == SubSeq(s, 1, i - 1)
           b == SubSeq(s, i + 1, Len(s))
<1>1. Len(s) \in Nat /\ i \in 1..Len(s) /\ \A k \in 1..Len(s) : s[k] \in T
  BY LenProperties, ElementOfSeq
<1>2. /\ a \in Seq(T) /\ Len(a) = i - 1
      /\ \A k \in 1..(i - 1) : a[k] = s[k]
  <2>1. \A k \in 1..(i - 1) : s[k] \in T
    BY <1>1
  <2>2. 1 \in Int /\ i - 1 \in Int
    BY <1>1
  <2>3. /\ SubSeq(s, 1, i - 1) \in Seq(T)
        /\ Len(SubSeq(s, 1, i - 1)) = IF 1 <= i - 1 THEN (i - 1) - 1 + 1 ELSE 0
        /\ \A k \in 1..((i - 1) - 1 + 1) : SubSeq(s, 1, i - 1)[k] = s[1 + k - 1]
    BY <2>1, <2>2, SubSeqProperties
  <2>4. QED
    BY <1>1, <2>3
<1>3. /\ b \in Seq(T) /\ Len(b) = Len(s) - i
      /\ \A k \in 1..(Len(s) - i) : b[k] = s[i + k]
  <2>1. \A k \in (i + 1)..Len(s) : s[k] \in T
    BY <1>1
  <2>2. i + 1 \in Int /\ Len(s) \in Int
    BY <1>1
  <2>3. /\ SubSeq(s, i + 1, Len(s)) \in Seq(T)
        /\ Len(SubSeq(s, i + 1, Len(s))) = IF i + 1 <= Len(s) THEN Len(s) - (i + 1) + 1 ELSE 0
        /\ \A k \in 1..(Len(s) - (i + 1) + 1) : SubSeq(s, i + 1, Len(s))[k] = s[(i + 1) + k - 1]
    BY <2>1, <2>2, SubSeqProperties
  <2>4. QED
    BY <1>1, <2>3
<1> HIDE DEF a, b
<1>4. /\ a \o b \in Seq(T) /\ Len(a \o b) = Len(s) - 1
      /\ \A k \in 1..(Len(s) - 1) : (a \o b)[k] = IF k <= i - 1 THEN a[k] ELSE b[k - (i - 1)]
  <2>1. /\ a \o b \in Seq(T) /\ Len(a \o b) = Len(a) + Len(b)
        /\ \A k \in 1..Len(a) + Len(b) : (a \o b)[k] = IF k <= Len(a) THEN a[k] ELSE b[k - Len(a)]
    BY <1>2, <1>3, ConcatProperties
  <2>2. Len(a) + Len(b) = Len(s) - 1
    BY <1>1, <1>2, <1>3
  <2>3. QED
    BY <1>2, <2>1, <2>2
<1>5. ASSUME NEW k \in 1..(Len(s) - 1) PROVE (a \o b)[k] = s[IF k >= i THEN k + 1 ELSE k]
  <2>1. CASE k <= i - 1
    <3>1. k \in 1..(i - 1) /\ ~(k >= i)
      BY <1>1, <2>1
    <3>2. QED
      BY <1>2, <1>4, <2>1, <3>1
  <2>2. CASE ~(k <= i - 1)
    <3>1. k - (i - 1) \in 1..(Len(s) - i) /\ k >= i /\ i + (k - (i - 1)) = k + 1
      BY <1>1, <2>2
    <3>2. QED
      BY <1>3, <1>4, <2>2, <3>1
  <2>3. QED
    BY <2>1, <2>2
<1>6. RemoveAt(s, i) = a \o b
  BY DEF RemoveAt, a, b
<1>7. QED
  BY <1>4, <1>5, <1>6

LEMMA RestIs ==
    ASSUME NEW T, NEW s \in Seq(Seq(T)), Nonempty(s), NEW i \in DOMAIN s
    PROVE  /\ Rest(s, i) \in Seq(Seq(T)) /\ Nonempty(Rest(s, i))
           /\ \A k \in DOMAIN Rest(s, i) : Before(s, i, k) \in DOMAIN s
           /\ \A k \in DOMAIN Rest(s, i) : \A m \in DOMAIN Rest(s, i)[k] :
                 /\ m + Moved(s, i, k) \in DOMAIN s[Before(s, i, k)]
                 /\ Rest(s, i)[k][m] = s[Before(s, i, k)][m + Moved(s, i, k)]
                 /\ Before(s, i, k) = i => m + Moved(s, i, k) # 1
<1>1. /\ Len(s) \in Nat /\ DOMAIN s = 1..Len(s) /\ i \in 1..Len(s)
      /\ \A k \in 1..Len(s) : s[k] \in Seq(T) /\ s[k] # <<>>
  BY LenProperties, ElementOfSeq DEF Nonempty
<1>2. \A k \in 1..Len(s) : Len(s[k]) \in Nat \ {0} /\ DOMAIN s[k] = 1..Len(s[k])
  BY <1>1, LenProperties, EmptySeq
<1>3. CASE Len(s[i]) = 1
  <2>1. /\ Rest(s, i) \in Seq(Seq(T)) /\ Len(Rest(s, i)) = Len(s) - 1
        /\ \A k \in 1..(Len(s) - 1) : Rest(s, i)[k] = s[IF k >= i THEN k + 1 ELSE k]
    BY <1>3, RemoveAtIs DEF Rest
  <2>2. DOMAIN Rest(s, i) = 1..(Len(s) - 1)
    BY <2>1, LenProperties
  <2>3. \A k \in 1..(Len(s) - 1) : /\ Before(s, i, k) \in 1..Len(s) /\ Rest(s, i)[k] = s[Before(s, i, k)]
                                   /\ Moved(s, i, k) = 0 /\ Before(s, i, k) # i
    <3>1. TAKE k \in 1..(Len(s) - 1)
    <3>2. Before(s, i, k) = (IF k >= i THEN k + 1 ELSE k) /\ Moved(s, i, k) = 0
      BY <1>3 DEF Before, Moved
    <3>3. Rest(s, i)[k] = s[Before(s, i, k)]
      BY ONLY <2>1, <3>1, <3>2
    <3>4. Before(s, i, k) \in 1..Len(s) /\ Before(s, i, k) # i
      BY ONLY <1>1, <3>1, <3>2
    <3>5. QED
      BY ONLY <3>2, <3>3, <3>4
  <2>4. Nonempty(Rest(s, i))
    BY <1>1, <2>2, <2>3 DEF Nonempty
  <2>5. ASSUME NEW k \in DOMAIN Rest(s, i), NEW m \in DOMAIN Rest(s, i)[k]
        PROVE  /\ m + Moved(s, i, k) \in DOMAIN s[Before(s, i, k)]
               /\ Rest(s, i)[k][m] = s[Before(s, i, k)][m + Moved(s, i, k)]
    <3>1. m \in DOMAIN s[Before(s, i, k)] /\ m + Moved(s, i, k) = m
      BY <1>2, <2>2, <2>3
    <3>2. QED
      BY <2>2, <2>3, <3>1
  <2>6. QED
    BY <1>1, <2>1, <2>2, <2>3, <2>4, <2>5
<1>4. CASE Len(s[i]) # 1
  <2>1. /\ Tail(s[i]) \in Seq(T) /\ Len(Tail(s[i])) = Len(s[i]) - 1 /\ Len(s[i]) - 1 > 0
        /\ \A m \in 1..(Len(s[i]) - 1) : Tail(s[i])[m] = s[i][m + 1]
    <3>1. s[i] \in Seq(T) /\ s[i] # <<>> /\ Len(s[i]) \in Nat \ {0}
      BY <1>1, <1>2
    <3>2. /\ Tail(s[i]) \in Seq(T) /\ Len(Tail(s[i])) = Len(s[i]) - 1
          /\ \A m \in 1..Len(Tail(s[i])) : Tail(s[i])[m] = s[i][m + 1]
      BY <3>1, HeadTailProperties
    <3>3. QED
      BY <1>4, <3>1, <3>2
  <2>2. Rest(s, i) = [s EXCEPT ![i] = Tail(s[i])]
    BY <1>4 DEF Rest
  <2>3. /\ Rest(s, i) \in Seq(Seq(T)) /\ Len(Rest(s, i)) = Len(s)
        /\ \A k \in 1..Len(s) : Rest(s, i)[k] = IF k = i THEN Tail(s[i]) ELSE s[k]
    BY <1>1, <2>1, <2>2, ExceptSeq
  <2>4. DOMAIN Rest(s, i) = 1..Len(s)
    BY <2>3, LenProperties
  <2>5. \A k \in 1..Len(s) : Before(s, i, k) = k /\ Moved(s, i, k) = IF k = i THEN 1 ELSE 0
    BY <1>4 DEF Before, Moved
  <2>6. Tail(s[i]) # <<>> /\ DOMAIN Tail(s[i]) = 1..(Len(s[i]) - 1)
    <3> DEFINE t == Tail(s[i])
    <3>1. Len(s[i]) \in Nat
      BY <1>1, <1>2
    <3>2. t \in Seq(T) /\ Len(t) = Len(s[i]) - 1 /\ Len(s[i]) - 1 > 0
      BY <2>1
    <3> HIDE DEF t
    <3>3. DOMAIN t = 1..Len(t)
      BY <3>2, LenProperties
    <3>4. Len(t) > 0
      BY <3>2
    <3>5. t # <<>>
      BY <3>4, EmptySeq
    <3>6. QED
      BY <3>2, <3>3, <3>5 DEF t
  <2>7. Nonempty(Rest(s, i))
    BY <1>1, <2>3, <2>4, <2>6 DEF Nonempty
  <2>8. ASSUME NEW k \in 1..Len(s), NEW m \in DOMAIN Rest(s, i)[k]
        PROVE  /\ m + Moved(s, i, k) \in DOMAIN s[Before(s, i, k)]
               /\ Rest(s, i)[k][m] = s[Before(s, i, k)][m + Moved(s, i, k)]
               /\ Before(s, i, k) = i => m + Moved(s, i, k) # 1
    <3>1. CASE k = i
      <4>1. Rest(s, i)[k] = Tail(s[i]) /\ m \in 1..(Len(s[i]) - 1)
        BY <2>3, <2>6, <3>1
      <4>2. QED
        BY <1>2, <2>1, <2>5, <3>1, <4>1
    <3>2. CASE k # i
      <4>1. Rest(s, i)[k] = s[k] /\ m \in DOMAIN s[k] /\ m + Moved(s, i, k) = m
        BY <1>2, <2>3, <2>5, <3>2
      <4>2. QED
        BY <2>5, <3>2, <4>1
    <3>3. QED
      BY <3>1, <3>2
  <2>9. QED
    BY <1>1, <2>3, <2>4, <2>5, <2>7, <2>8
<1>5. QED
  BY <1>3, <1>4

(* The larger of two numbers.                                              *)
LEMMA PairMax ==
    ASSUME NEW m \in Nat, NEW n \in Nat
    PROVE  Max({m, n}) \in {m, n} /\ Max({m, n}) >= m /\ Max({m, n}) >= n
<1> DEFINE G(x) == \A y \in {m, n} : x >= y
<1>1. \E x \in {m, n} : G(x)
  OBVIOUS
<1>2. Max({m, n}) = CHOOSE x \in {m, n} : G(x)
  BY DEF Max
<1>3. Max({m, n}) \in {m, n} /\ G(Max({m, n}))
  BY <1>1, <1>2
<1>4. QED
  BY <1>3

-----------------------------------------------------------------------------
(* One telegram.                                                           *)

RecentOf == [w : Write, ga : Ga, at : Nat]
HandlerState == [recent : SUBSET RecentOf, latest : [Dp -> 0..MaxOrders], claimed : SUBSET (1..MaxOrders),
                 done : SUBSET Dp, events : Seq(Event)]

(* The handler's states, one after each entry.                             *)
Entries(tel) == Ordered(Listeners(tel.ga))
Steps(tel, h) ==
    h = [i \in 0..Len(Entries(tel)) |-> IF i = 0 THEN Untouched ELSE HandleEntry(tel, Entries(tel)[i], h[i - 1])]

(* The bindings that listen, each once.                                    *)
LEMMA EntriesAre ==
    ASSUME NEW tel
    PROVE  /\ Entries(tel) \in Seq(Listeners(tel.ga)) /\ Len(Entries(tel)) \in Nat
           /\ \A i \in 1..Len(Entries(tel)) : Entries(tel)[i] \in Listeners(tel.ga)
           /\ \A i, j \in 1..Len(Entries(tel)) : i # j => Entries(tel)[i] # Entries(tel)[j]
<1>1. Listeners(tel.ga) \subseteq Binding
  BY DEF Listeners
<1>2. IsFiniteSet(Listeners(tel.ga)) /\ Listeners(tel.ga) \in SUBSET Nat
  <2>1. IsFiniteSet(Binding) /\ Binding \subseteq Nat
    BY BindingAssumption
  <2>2. IsFiniteSet(Listeners(tel.ga))
    BY <1>1, <2>1, FS_Subset
  <2>3. QED
    BY <1>1, <2>1, <2>2
<1>3. /\ Entries(tel) \in Seq(Listeners(tel.ga))
      /\ \A i, j \in 1..Len(Entries(tel)) : i < j => Entries(tel)[i] < Entries(tel)[j]
  BY <1>2, OrderedIs DEF Entries
<1>4. Len(Entries(tel)) \in Nat /\ \A i \in 1..Len(Entries(tel)) : Entries(tel)[i] \in Listeners(tel.ga)
  BY <1>3, LenProperties, ElementOfSeq
<1>5. ASSUME NEW i \in 1..Len(Entries(tel)), NEW j \in 1..Len(Entries(tel)), i # j
      PROVE  Entries(tel)[i] # Entries(tel)[j]
  <2>1. Entries(tel)[i] \in Nat /\ Entries(tel)[j] \in Nat
    BY <1>2, <1>4
  <2>2. i < j \/ j < i
    BY <1>4, <1>5
  <2>3. QED
    BY <1>3, <2>1, <2>2
<1>6. QED
  BY <1>3, <1>4, <1>5

(* The recursion of the handler has a solution: a first prefix without one *)
(* would follow a prefix that has one.                                     *)
LEMMA StepsExist ==
    ASSUME NEW tel
    PROVE  \E h : Steps(tel, h)
<1> DEFINE n == Len(Entries(tel))
           Upto(h, k) == h = [i \in 0..k |-> IF i = 0 THEN Untouched ELSE HandleEntry(tel, Entries(tel)[i], h[i - 1])]
           D == {k \in Nat : ~ \E h : Upto(h, k)}
<1>1. n \in Nat
  BY EntriesAre
<1>2. D \subseteq Nat /\ \A k \in Nat : k \notin D <=> \E h : Upto(h, k)
  OBVIOUS
<1>3. SUFFICES ASSUME D # {} PROVE FALSE
  BY <1>1 DEF Steps
<1>4. Upto([i \in 0..0 |-> Untouched], 0)
  OBVIOUS
<1>5. 0 \notin D
  BY <1>2, <1>4
<1> HIDE DEF D, Upto
<1>6. PICK m \in D : \A k \in D : m <= k
  BY <1>2, <1>3, LeastOf
<1>7. m \in Nat /\ m # 0
  BY <1>2, <1>5, <1>6
<1>8. m - 1 \in Nat /\ ~(m <= m - 1)
  BY <1>7
<1>9. PICK h : Upto(h, m - 1)
  BY <1>2, <1>6, <1>8
<1> DEFINE g == [i \in 0..m |-> IF i = m THEN HandleEntry(tel, Entries(tel)[m], h[m - 1]) ELSE h[i]]
<1>10. ASSUME NEW i \in 0..m
       PROVE  g[i] = IF i = 0 THEN Untouched ELSE HandleEntry(tel, Entries(tel)[i], g[i - 1])
  <2>1. CASE i = m
    BY <1>7, <1>8, <2>1
  <2>2. CASE i # m
    <3>1. i \in 0..(m - 1) /\ g[i] = h[i]
      BY <1>7, <2>2
    <3>2. h[i] = IF i = 0 THEN Untouched ELSE HandleEntry(tel, Entries(tel)[i], h[i - 1])
      BY <1>9, <3>1 DEF Upto
    <3>3. i # 0 => i - 1 \in 0..m /\ i - 1 # m
      BY <1>7, <2>2
    <3>4. i # 0 => g[i - 1] = h[i - 1]
      BY <3>3
    <3>5. QED
      BY <3>1, <3>2, <3>4
  <2>3. QED
    BY <2>1, <2>2
<1>11. g = [i \in 0..m |-> g[i]]
  OBVIOUS
<1> HIDE DEF g
<1>12. Upto(g, m)
  BY <1>10, <1>11 DEF Upto
<1>13. QED
  BY <1>2, <1>6, <1>7, <1>12

(* What the handler of the model computes is the last of its steps.        *)
LEMMA HandledBySteps ==
    ASSUME NEW tel
    PROVE  \E h : Steps(tel, h) /\ Handled(tel) = h[Len(Entries(tel))]
BY StepsExist DEF Handled, Steps, Entries

(* What one entry does: nothing a publication follows from, a new value,   *)
(* or a confirmation of the command of one of its expectations.            *)
Skips(st, next) == next.events = st.events /\ next.claimed = st.claimed /\ next.done = st.done
Renews(tel, b, st, next) ==
    /\ next.events = Append(st.events, NewValue(tel, b)) /\ next.claimed = st.claimed /\ next.done = st.done
    /\ Consumable(tel, b, st) = {} /\ loaded[b].dp \notin LocalDps(tel)
Confirms(tel, b, st, next) ==
    \E e \in Consumable(tel, b, st) :
        /\ next.events = Append(st.events, Confirmation(tel, b, e.w, Acts(e.w, st.claimed)))
        /\ next.claimed = IF e.w.direct THEN st.claimed \cup {e.w.n} ELSE st.claimed
        /\ next.done = st.done \cup {loaded[b].dp}
        /\ e.w.n >= st.latest[e.w.c.dp] /\ e.w.n <= next.latest[e.w.c.dp]

(* A binding that listens has a configuration with the address.            *)
LEMMA ListenerIs ==
    ASSUME TypeOK, NEW ga, NEW b \in Listeners(ga)
    PROVE  /\ b \in Binding /\ loaded[b] \in Configs /\ loaded[b].dp \in Dp
           /\ ga \in {loaded[b].cmd, loaded[b].state}
<1>1. b \in Binding /\ loaded[b] # NoConfig /\ ga \in {loaded[b].cmd, loaded[b].state}
  BY DEF Listeners
<1>2. loaded[b] \in Configs
  BY <1>1 DEF TypeOK
<1>3. QED
  BY <1>1, <1>2, ConfigAssumption

(* The parts of a write.                                                   *)
LEMMA WriteIs ==
    ASSUME NEW w \in Write
    PROVE  /\ w.n \in 1..MaxOrders /\ w.n \in Nat \ {0} /\ w.b \in Binding /\ w.c \in Configs /\ w.val \in Value
           /\ w.direct \in BOOLEAN
           /\ w.c.dp \in Dp /\ w.c.cmd \in Ga /\ w.c.state \in Ga \cup {NoGa} /\ Encode[w.val] \in Raw
<1>1. w.n \in 1..MaxOrders /\ w.b \in Binding /\ w.c \in Configs /\ w.val \in Value /\ w.direct \in BOOLEAN
  BY DEF Write
<1>2. MaxOrders \in Nat
  BY BoundAssumption
<1>3. w.c.dp \in Dp /\ w.c.cmd \in Ga /\ w.c.state \in Ga \cup {NoGa}
  BY <1>1, ConfigAssumption
<1>4. QED
  BY <1>1, <1>2, <1>3, CodecAssumption

(* What a binding may consume is an expectation of its own.                *)
LEMMA ConsumableIs ==
    ASSUME NEW tel, NEW b, NEW st \in HandlerState, NEW e \in Consumable(tel, b, st)
    PROVE  /\ e \in st.recent /\ e \in RecentOf /\ e.w \in Write /\ e.ga = tel.ga /\ e.w.b = b
           /\ Encode[e.w.val] = tel.raw
           /\ tel.out = TRUE => Owned(tel) /\ e.w = tel.origin
           /\ tel.out # TRUE => loaded[b].dp \notin st.done /\ loaded[b].state = tel.ga
<1>1. e \in st.recent /\ e.ga = tel.ga /\ e.w.b = b /\ Encode[e.w.val] = tel.raw
  BY DEF Consumable, Newest, Matching
<1>2. e \in RecentOf /\ e.w \in Write
  BY <1>1 DEF HandlerState, RecentOf
<1>3. /\ tel.out = TRUE => Owned(tel) /\ e.w = tel.origin
      /\ tel.out # TRUE => loaded[b].dp \notin st.done /\ loaded[b].state = tel.ga
  BY DEF Consumable
<1>4. QED
  BY <1>1, <1>2, <1>3

(* The events a handler makes.                                             *)
LEMMA EventTyped ==
    ASSUME TypeOK, NEW tel \in Telegram, NEW b \in Listeners(tel.ga)
    PROVE  /\ NewValue(tel, b) \in Event
           /\ NewValue(tel, b).n = 0 /\ NewValue(tel, b).dp = loaded[b].dp
           /\ \A w \in Write, a \in BOOLEAN : /\ Confirmation(tel, b, w, a) \in Event
                                              /\ Confirmation(tel, b, w, a).n = w.n
                                              /\ Confirmation(tel, b, w, a).actions = a
                                              /\ Confirmation(tel, b, w, a).dp = loaded[b].dp
<1>1. b \in Binding /\ loaded[b].dp \in Dp
  BY ListenerIs
<1>2. tel.raw \in Raw /\ tel.origin \in Write \cup {NoWrite} /\ tel.out \in BOOLEAN
  BY DEF Telegram
<1>3. Decode[tel.raw] \in Value
  BY <1>2, CodecAssumption
<1>4. MaxOrders \in Nat
  BY BoundAssumption
<1>5. NewValue(tel, b) \in Event
  BY <1>1, <1>2, <1>3, <1>4 DEF NewValue, Event
<1>6. ASSUME NEW w \in Write, NEW a \in BOOLEAN PROVE Confirmation(tel, b, w, a) \in Event
  <2>1. w.val \in Value /\ w.n \in 0..MaxOrders
    BY <1>4, WriteIs
  <2>2. QED
    BY <1>1, <1>2, <2>1 DEF Confirmation, Event
<1>7. QED
  BY <1>5, <1>6 DEF NewValue, Confirmation

(* Confirming drops the expectation, and publishes it or not.              *)
LEMMA ConfirmDoes ==
    ASSUME TypeOK, NEW tel \in Telegram, NEW b \in Listeners(tel.ga), NEW st \in HandlerState,
           NEW e \in Consumable(tel, b, st), NEW next, next = Confirm(tel, b, e, st)
    PROVE  /\ next \in HandlerState /\ next.recent \subseteq st.recent
           /\ \A d \in Dp : next.latest[d] >= st.latest[d]
           /\ \A d \in Dp : next.latest[d] = st.latest[d] \/ \E f \in st.recent : next.latest[d] = f.w.n
           /\ Skips(st, next) \/ Confirms(tel, b, st, next)
<1> DEFINE w == e.w
           rest == st.recent \ {e}
           now == [st.latest EXCEPT ![w.c.dp] = Max({st.latest[w.c.dp], w.n})]
           accepted == [recent |-> rest, latest |-> now,
                        claimed |-> IF w.direct THEN st.claimed \cup {w.n} ELSE st.claimed,
                        done |-> st.done \cup {loaded[b].dp},
                        events |-> Append(st.events, Confirmation(tel, b, w, Acts(w, st.claimed)))]
<1>1. w \in Write /\ w.n \in 1..MaxOrders /\ w.n \in Nat /\ w.c.dp \in Dp /\ w.direct \in BOOLEAN
  BY ConsumableIs, WriteIs
<1>2. /\ st.recent \subseteq RecentOf /\ st.latest \in [Dp -> 0..MaxOrders] /\ st.claimed \subseteq 1..MaxOrders
      /\ st.done \subseteq Dp /\ st.events \in Seq(Event)
  BY DEF HandlerState
<1>3. MaxOrders \in Nat
  BY BoundAssumption
<1>4. \A d \in Dp : st.latest[d] \in Nat /\ st.latest[d] \in 0..MaxOrders
  BY <1>2, <1>3
<1>5. /\ Max({st.latest[w.c.dp], w.n}) \in 0..MaxOrders
      /\ Max({st.latest[w.c.dp], w.n}) >= st.latest[w.c.dp] /\ Max({st.latest[w.c.dp], w.n}) >= w.n
  <2>1. st.latest[w.c.dp] \in Nat
    BY <1>1, <1>4
  <2>2. /\ Max({st.latest[w.c.dp], w.n}) \in {st.latest[w.c.dp], w.n}
        /\ Max({st.latest[w.c.dp], w.n}) >= st.latest[w.c.dp] /\ Max({st.latest[w.c.dp], w.n}) >= w.n
    BY <1>1, <2>1, PairMax
  <2>3. w.n \in 0..MaxOrders
    BY <1>1, <1>3
  <2>4. QED
    BY <1>1, <1>4, <2>2, <2>3
<1>6. /\ now \in [Dp -> 0..MaxOrders] /\ \A d \in Dp : now[d] >= st.latest[d]
      /\ \A d \in Dp : now[d] = st.latest[d] \/ \E f \in st.recent : now[d] = f.w.n
  <2>1. now \in [Dp -> 0..MaxOrders]
    BY <1>1, <1>2, <1>5
  <2>2. \A d \in Dp : now[d] = IF d = w.c.dp THEN Max({st.latest[w.c.dp], w.n}) ELSE st.latest[d]
    BY <1>1, <1>2
  <2>3. Max({st.latest[w.c.dp], w.n}) \in {st.latest[w.c.dp], w.n}
    BY <1>1, <1>4, PairMax
  <2>4. e \in st.recent
    BY ConsumableIs
  <2>5. \A d \in Dp : now[d] >= st.latest[d]
    BY <1>4, <1>5, <2>2
  <2>6. \A d \in Dp : now[d] = st.latest[d] \/ now[d] = e.w.n
    <3> DEFINE m == Max({st.latest[w.c.dp], w.n})
    <3>1. m = st.latest[w.c.dp] \/ m = e.w.n
      BY <2>3
    <3>2. \A d \in Dp : now[d] = IF d = w.c.dp THEN m ELSE st.latest[d]
      BY <2>2
    <3> HIDE DEF m, now
    <3>3. QED
      BY <3>1, <3>2
  <2>7. QED
    BY ONLY <2>1, <2>4, <2>5, <2>6
<1> HIDE DEF now
<1>7. now[w.c.dp] >= w.n
  BY <1>1, <1>2, <1>5 DEF now
<1>8. loaded[b].dp \in Dp
  BY ListenerIs
<1>9. Acts(w, st.claimed) \in BOOLEAN
  BY <1>1 DEF Acts
<1>10. Confirmation(tel, b, w, Acts(w, st.claimed)) \in Event
  BY <1>1, <1>9, EventTyped
<1>11. Append(st.events, Confirmation(tel, b, w, Acts(w, st.claimed))) \in Seq(Event)
  BY <1>2, <1>10, AppendProperties
<1>12. CASE next = [st EXCEPT !.recent = rest]
  <2>1. next \in HandlerState
    BY <1>2, <1>12 DEF HandlerState
  <2>2. next.recent = rest /\ next.latest = st.latest /\ Skips(st, next)
    BY <1>12 DEF HandlerState, Skips
  <2>3. QED
    BY <1>4, <2>1, <2>2
<1>13. CASE next = [st EXCEPT !.recent = rest, !.latest = now]
  <2>1. next \in HandlerState
    BY <1>2, <1>6, <1>13 DEF HandlerState
  <2>2. next.recent = rest /\ next.latest = now /\ Skips(st, next)
    BY <1>13 DEF HandlerState, Skips
  <2>3. QED
    BY <1>6, <2>1, <2>2
<1>14. CASE next = accepted /\ ~Stale(w, now)
  <2>1. next \in HandlerState
    <3>1. accepted.claimed \subseteq 1..MaxOrders
      BY <1>1, <1>2
    <3>2. QED
      BY <1>2, <1>6, <1>8, <1>11, <1>14, <3>1 DEF HandlerState
  <2>2. w.n >= now[w.c.dp]
    BY <1>1, <1>4, <1>6, <1>14 DEF Stale
  <2>3. w.n >= st.latest[w.c.dp]
    BY <1>1, <1>4, <1>6, <2>2
  <2>4. /\ next.recent = rest /\ next.latest = now /\ next.done = st.done \cup {loaded[b].dp}
        /\ next.claimed = IF w.direct THEN st.claimed \cup {w.n} ELSE st.claimed
        /\ next.events = Append(st.events, Confirmation(tel, b, w, Acts(w, st.claimed)))
    <3>1. next.recent = rest /\ next.latest = now /\ next.done = st.done \cup {loaded[b].dp}
      BY <1>14
    <3>2. next.claimed = IF w.direct THEN st.claimed \cup {w.n} ELSE st.claimed
      BY <1>14
    <3>3. next.events = Append(st.events, Confirmation(tel, b, w, Acts(w, st.claimed)))
      BY <1>14
    <3>4. QED
      BY <3>1, <3>2, <3>3
  <2>5. w.n <= now[w.c.dp]
    BY <1>1, <1>4, <1>6, <1>7
  <2>6. Confirms(tel, b, st, next)
    BY <2>3, <2>4, <2>5 DEF Confirms
  <2>7. rest \subseteq st.recent
    OBVIOUS
  <2>8. QED
    BY <1>6, <2>1, <2>4, <2>6, <2>7
<1>15. \/ next = [st EXCEPT !.recent = rest]
       \/ next = [st EXCEPT !.recent = rest, !.latest = now]
       \/ next = accepted /\ ~Stale(w, now)
  BY DEF Confirm, now
<1>16. QED
  BY <1>12, <1>13, <1>14, <1>15

(* An entry skips, renews or confirms, and lowers no mark.                 *)
LEMMA EntryDoes ==
    ASSUME TypeOK, NEW tel \in Telegram, NEW b \in Listeners(tel.ga), NEW st \in HandlerState,
           NEW next, next = HandleEntry(tel, b, st)
    PROVE  /\ next \in HandlerState /\ next.recent \subseteq st.recent
           /\ \A d \in Dp : next.latest[d] >= st.latest[d]
           /\ \A d \in Dp : next.latest[d] = st.latest[d] \/ \E f \in st.recent : next.latest[d] = f.w.n
           /\ Skips(st, next) \/ Renews(tel, b, st, next) \/ Confirms(tel, b, st, next)
<1>1. \A d \in Dp : st.latest[d] >= st.latest[d]
  BY BoundAssumption DEF HandlerState
<1>2. CASE next = st
  BY <1>1, <1>2 DEF Skips
<1>3. CASE Consumable(tel, b, st) # {} /\ next = Confirm(tel, b, CHOOSE e \in Consumable(tel, b, st) : TRUE, st)
  <2>1. PICK e \in Consumable(tel, b, st) : next = Confirm(tel, b, e, st)
    BY <1>3
  <2>2. next \in HandlerState /\ next.recent \subseteq st.recent
    BY <2>1, ConfirmDoes
  <2>3. \A d \in Dp : next.latest[d] >= st.latest[d]
    BY <2>1, ConfirmDoes
  <2>4. \A d \in Dp : next.latest[d] = st.latest[d] \/ \E f \in st.recent : next.latest[d] = f.w.n
    <3>1. TAKE d \in Dp
    <3>2. QED
      BY <2>1, ConfirmDoes
  <2>5. Skips(st, next) \/ Confirms(tel, b, st, next)
    BY <2>1, ConfirmDoes
  <2>6. QED
    BY <2>2, <2>3, <2>4, <2>5
<1>4. CASE /\ Consumable(tel, b, st) = {} /\ loaded[b].dp \notin LocalDps(tel)
           /\ next = [st EXCEPT !.events = Append(st.events, NewValue(tel, b))]
  <2>1. st.events \in Seq(Event) /\ NewValue(tel, b) \in Event
    BY EventTyped DEF HandlerState
  <2>2. Append(st.events, NewValue(tel, b)) \in Seq(Event)
    BY <2>1, AppendProperties
  <2>3. next \in HandlerState
    BY <1>4, <2>2 DEF HandlerState
  <2>4. next.recent = st.recent /\ next.latest = st.latest /\ Renews(tel, b, st, next)
    BY <1>4 DEF HandlerState, Renews
  <2>5. QED
    BY <1>1, <2>3, <2>4
<1>5. \/ next = st
      \/ Consumable(tel, b, st) # {} /\ next = Confirm(tel, b, CHOOSE e \in Consumable(tel, b, st) : TRUE, st)
      \/ /\ Consumable(tel, b, st) = {} /\ loaded[b].dp \notin LocalDps(tel)
         /\ next = [st EXCEPT !.events = Append(st.events, NewValue(tel, b))]
  BY DEF HandleEntry
<1>6. QED
  BY <1>2, <1>3, <1>4, <1>5

(* What it activates is a command whose telegram was awaited.              *)
LEMMA EntryActivates ==
    ASSUME TypeOK, NEW tel \in Telegram, NEW b \in Listeners(tel.ga), NEW st \in HandlerState, NEW d \in Dp
    PROVE  LET next == HandleEntry(tel, b, st)
           IN  next.latest[d] = st.latest[d] \/ \E f \in st.recent : next.latest[d] = f.w.n
<1> DEFINE next == HandleEntry(tel, b, st)
<1>1. next = HandleEntry(tel, b, st)
  OBVIOUS
<1> HIDE DEF next
<1>2. next.latest[d] = st.latest[d] \/ \E f \in st.recent : next.latest[d] = f.w.n
  BY <1>1, EntryDoes
<1>3. QED
  BY <1>2 DEF next

-----------------------------------------------------------------------------
(* Types.                                                                  *)

Routed == [dp : Dp, val : Value, direct : BOOLEAN, skip : Binding \cup {0}]
TombOf == [at : Nat, b : Binding, dp : Dp, ga : Ga, raw : Raw]

(* Nobody is left with nothing to do; an expectation is not from a later   *)
(* time than now; a device answers on a state address.                     *)
Busy == Nonempty(writing) /\ Nonempty(later)
Timed == \A e \in recent : e.at <= clock
Answered == \A o \in owed : o.w.c.state # NoGa
TypeInv == TypeOK /\ Busy /\ Timed /\ Answered

LEMMA InitTypes == Init => TypeInv
<1> SUFFICES ASSUME Init PROVE TypeInv
  OBVIOUS
<1>1. \A T : <<>> \in Seq(T)
  BY EmptySeq
<1>2. MaxOrders \in Nat /\ MaxInputs \in Nat /\ MaxRebinds \in Nat
  BY BoundAssumption
<1>3. /\ stored \in [Binding -> Configs \cup {NoConfig}] /\ loaded \in [Binding -> Configs \cup {NoConfig}]
  BY ConfigAssumption DEF Init
<1>4. /\ routing \in Seq(Routed) /\ writing \in Seq(Seq(Write)) /\ outbox \in Seq(Write)
      /\ tombs \in Seq(TombOf) /\ inbox \in Seq(Telegram) /\ later \in Seq(Seq(Event))
  BY <1>1 DEF Init
<1>5. /\ seq \in 0..MaxOrders /\ latest \in [Dp -> 0..MaxOrders] /\ claimed \subseteq 1..MaxOrders
      /\ shown \in [Dp -> Event \cup {NothingShown}] /\ clock \in Nat
      /\ strayed \subseteq (Ga \cup {NoGa}) \X Raw
      /\ counts \in [inputs : 0..MaxInputs, rebinds : 0..MaxRebinds]
      /\ confirmed \in [Dp -> 0..MaxOrders] /\ acted \in [1..MaxOrders -> Nat]
  BY <1>2 DEF Init
<1>6. /\ pending \subseteq Write /\ invalid \subseteq [w : Write, dp : Dp] /\ owners \subseteq [w : Write, at : Nat]
      /\ recent \subseteq RecentOf /\ owed \subseteq [w : Write, at : Nat]
  BY DEF Init
<1>7. TypeOK
  BY <1>3, <1>4, <1>5, <1>6 DEF TypeOK, Routed, TombOf, RecentOf
<1>8. Busy /\ Timed /\ Answered
  BY EmptySeq DEF Init, Busy, Nonempty, Timed, Answered
<1>9. QED
  BY <1>7, <1>8 DEF TypeInv

LEMMA DirectWriteTypes ==
    ASSUME TypeInv, NEW dp \in Dp, NEW val \in Value, DirectWrite(dp, val)
    PROVE  TypeInv'
<1>1. routing \in Seq(Routed) /\ counts \in [inputs : 0..MaxInputs, rebinds : 0..MaxRebinds] /\ MaxInputs \in Nat
  BY BoundAssumption DEF TypeInv, TypeOK, Routed
<1>2. [dp |-> dp, val |-> val, direct |-> TRUE, skip |-> 0] \in Routed
  BY DEF Routed
<1>3. routing' \in Seq(Routed)
  BY <1>1, <1>2, AppendProperties DEF DirectWrite
<1>4. counts' \in [inputs : 0..MaxInputs, rebinds : 0..MaxRebinds]
  BY <1>1 DEF DirectWrite
<1>5. UNCHANGED <<stored, loaded, writing, orderVars, outbox, adapterVars, inbox, later, publishedVars, sentVars>>
  BY DEF DirectWrite
<1>6. QED
  BY <1>3, <1>4, <1>5 DEF TypeInv, TypeOK, Busy, Nonempty, Timed, Answered, Routed, orderVars,
     adapterVars, publishedVars, sentVars

LEMMA RouteWriteTypes ==
    ASSUME TypeInv, RouteWrite
    PROVE  TypeInv'
<1> DEFINE cmd == Head(routing)
           D == Destinations(cmd.dp) \ {cmd.skip}
           rows == Ordered(D)
           n == seq + 1
           group == [i \in DOMAIN rows |-> Command(cmd, n, rows[i])]
<1>1. /\ routing \in Seq(Routed) /\ routing # <<>> /\ writing \in Seq(Seq(Write)) /\ seq \in 0..MaxOrders
      /\ latest \in [Dp -> 0..MaxOrders] /\ stored \in [Binding -> Configs \cup {NoConfig}] /\ MaxOrders \in Nat
  BY BoundAssumption DEF RouteWrite, TypeInv, TypeOK, Routed
<1>2. cmd \in Routed /\ routing' \in Seq(Routed)
  BY <1>1, HeadTailProperties DEF RouteWrite
<1>3. cmd.dp \in Dp /\ cmd.val \in Value /\ cmd.direct \in BOOLEAN
  BY <1>2 DEF Routed
<1>4. D \in SUBSET Binding /\ \A b \in D : stored[b] \in Configs
  BY <1>1 DEF Destinations
<1>5. rows \in Seq(D)
  <2>1. IsFiniteSet(Binding) /\ Binding \in SUBSET Nat
    BY BindingAssumption
  <2>2. IsFiniteSet(D)
    BY <1>4, <2>1, FS_Subset
  <2>3. D \in SUBSET Nat
    BY <1>4, <2>1
  <2>4. QED
    BY <2>2, <2>3, OrderedIs
<1>6. CASE Destinations(cmd.dp) = {}
  <2>1. UNCHANGED <<seq, latest, writing>>
    BY <1>6 DEF RouteWrite
  <2>2. UNCHANGED <<stored, loaded, claimed, outbox, adapterVars, inbox, later, publishedVars, sentVars, counts>>
    BY DEF RouteWrite
  <2>3. QED
    BY <1>2, <2>1, <2>2 DEF TypeInv, TypeOK, Busy, Nonempty, Timed, Answered, Routed, adapterVars,
       publishedVars, sentVars
<1>7. CASE Destinations(cmd.dp) # {}
  <2>1. /\ n <= MaxOrders /\ seq' = n
        /\ latest' = IF cmd.direct THEN latest ELSE [latest EXCEPT ![cmd.dp] = n]
        /\ writing' = IF rows = <<>> THEN writing ELSE Append(writing, group)
    BY <1>7 DEF RouteWrite
  <2>2. n \in 1..MaxOrders /\ n \in 0..MaxOrders
    BY <1>1, <2>1
  <2>3. latest' \in [Dp -> 0..MaxOrders] /\ seq' \in 0..MaxOrders
    BY <1>1, <1>3, <2>1, <2>2
  <2>4. DOMAIN rows = 1..Len(rows) /\ Len(rows) \in Nat /\ \A i \in 1..Len(rows) : rows[i] \in D
    BY <1>5, LenProperties, ElementOfSeq
  <2>5. \A b \in D : Command(cmd, n, b) \in Write
    BY <1>3, <1>4, <2>2 DEF Command, Write
  <2>6. group \in [1..Len(rows) -> Write]
    BY <2>4, <2>5
  <2>7. group \in Seq(Write) /\ DOMAIN group = 1..Len(rows)
    BY <2>4, <2>6, FunctionIsSeq
  <2>8. rows # <<>> => group # <<>>
    <3>1. SUFFICES ASSUME rows # <<>> PROVE group # <<>>
      OBVIOUS
    <3>2. Len(rows) \in Nat \ {0}
      BY <1>5, <3>1, EmptySeq
    <3>3. 1 \in DOMAIN group
      BY <2>7, <3>2
    <3>4. DOMAIN <<>> = {}
      OBVIOUS
    <3>5. QED
      BY <3>3, <3>4
  <2> HIDE DEF group, rows
  <2>9. writing' \in Seq(Seq(Write)) /\ Nonempty(writing')
    <3>1. CASE rows = <<>>
      BY <1>1, <2>1, <3>1 DEF TypeInv, Busy
    <3>2. CASE rows # <<>>
      <4>1. /\ writing' \in Seq(Seq(Write)) /\ Len(writing') = Len(writing) + 1 /\ Len(writing) \in Nat
            /\ \A i \in 1..Len(writing) : writing'[i] = writing[i]
            /\ writing'[Len(writing) + 1] = group
        BY <1>1, <2>1, <2>7, <3>2, AppendProperties, LenProperties
      <4>2. DOMAIN writing = 1..Len(writing) /\ DOMAIN writing' = 1..(Len(writing) + 1)
        BY <1>1, <4>1, LenProperties
      <4>3. \A i \in 1..(Len(writing) + 1) : i \in 1..Len(writing) \/ i = Len(writing) + 1
        BY <4>1
      <4>4. QED
        BY <2>8, <3>2, <4>1, <4>2, <4>3 DEF TypeInv, Busy, Nonempty
    <3>3. QED
      BY <3>1, <3>2
  <2>10. UNCHANGED <<stored, loaded, claimed, outbox, adapterVars, inbox, later, publishedVars, sentVars, counts>>
    BY DEF RouteWrite
  <2>11. QED
    BY <1>2, <2>3, <2>9, <2>10
       DEF TypeInv, TypeOK, Busy, Nonempty, Timed, Answered, Routed, adapterVars, publishedVars, sentVars
<1>8. QED
  BY <1>6, <1>7

LEMMA WriteRowTypes ==
    ASSUME TypeInv, NEW i \in DOMAIN writing, WriteRow(i)
    PROVE  TypeInv'
<1>1. writing \in Seq(Seq(Write)) /\ Nonempty(writing) /\ outbox \in Seq(Write) /\ pending \subseteq Write
  BY DEF TypeInv, Busy, TypeOK
<1>2. writing[i] \in Seq(Write) /\ writing[i] # <<>>
  BY <1>1, LenProperties, ElementOfSeq DEF Nonempty
<1>3. Head(writing[i]) \in Write
  BY <1>2, HeadTailProperties
<1>4. outbox' \in Seq(Write)
  BY <1>1, <1>3, AppendProperties DEF WriteRow
<1>5. pending' \subseteq Write
  BY <1>1, <1>3 DEF WriteRow
<1>6. writing' = Rest(writing, i)
  BY DEF WriteRow, Rest
<1>7. writing' \in Seq(Seq(Write)) /\ Nonempty(writing')
  BY <1>1, <1>6, RestIs
<1>8. UNCHANGED <<stored, loaded, routing, orderVars, invalid, owners, recent, tombs, inbox, later, publishedVars, sentVars, counts>>
  BY DEF WriteRow
<1>9. QED
  BY <1>4, <1>5, <1>7, <1>8 DEF TypeInv, TypeOK, Busy, Nonempty, Timed, Answered, orderVars,
     publishedVars, sentVars

(* Who hears a telegram is told so.                                        *)
LEMMA ScheduledTyped ==
    ASSUME TypeOK, NEW tel \in Telegram
    PROVE  Scheduled(tel) \in Seq(Telegram)
<1>1. inbox \in Seq(Telegram)
  BY DEF TypeOK
<1>2. Append(inbox, tel) \in Seq(Telegram)
  BY <1>1, AppendProperties
<1>3. QED
  BY <1>1, <1>2 DEF Scheduled

LEMMA TransmitTypes ==
    ASSUME TypeInv, Transmit
    PROVE  TypeInv'
<1> DEFINE w == Head(outbox)
           valid == w \in pending /\ ~ \E i \in invalid : i.w = w
           at == clock + 1
           tel == [out |-> TRUE, ga |-> w.c.cmd, raw |-> Encode[w.val], origin |-> w]
           expected == {[w |-> w, ga |-> ga, at |-> at] : ga \in IF valid THEN {w.c.cmd, w.c.state} \ {NoGa} ELSE {}}
<1>1. /\ outbox \in Seq(Write) /\ outbox # <<>> /\ clock \in Nat
      /\ recent \subseteq RecentOf /\ owners \subseteq [w : Write, at : Nat] /\ owed \subseteq [w : Write, at : Nat]
      /\ pending \subseteq Write
  BY DEF TypeInv, TypeOK, RecentOf, Transmit
<1>2. w \in Write /\ outbox' \in Seq(Write)
  BY <1>1, HeadTailProperties DEF Transmit
<1>3. w.c.cmd \in Ga /\ w.c.state \in Ga \cup {NoGa} /\ Encode[w.val] \in Raw
  BY <1>2, WriteIs
<1> HIDE DEF w
<1>4. at \in Nat /\ clock <= at
  BY <1>1
<1>5. /\ recent' = recent \cup expected
      /\ owners' = owners \cup (IF valid THEN {[w |-> w, at |-> at]} ELSE {})
      /\ pending' = IF valid THEN pending \ {w} ELSE pending
      /\ owed' = IF w.c.state = NoGa THEN owed ELSE owed \cup {[w |-> w, at |-> at]}
      /\ strayed' = IF Astray(w) THEN strayed \cup {<<w.c.state, Encode[w.val]>>} ELSE strayed
      /\ inbox' = Scheduled(tel)
      /\ clock' = at
  BY DEF Transmit, w
<1>6. expected \subseteq RecentOf /\ \A e \in expected : e.at = at
  <2>1. \A ga \in {w.c.cmd, w.c.state} \ {NoGa} : ga \in Ga
    BY <1>3
  <2>2. \A ga \in Ga : [w |-> w, ga |-> ga, at |-> at] \in RecentOf
    BY <1>2, <1>4 DEF RecentOf
  <2>3. QED
    BY <2>1, <2>2
<1>7. tel \in Telegram
  BY <1>2, <1>3 DEF Telegram
<1>8. inbox' \in Seq(Telegram)
  BY <1>5, <1>7, ScheduledTyped DEF TypeInv
<1>9. [w |-> w, at |-> at] \in [w : Write, at : Nat]
  BY <1>2, <1>4
<1> HIDE DEF tel, valid, at, expected
<1>10. recent' \subseteq RecentOf /\ Timed'
  <2>1. \A e \in recent : e.at \in Nat /\ e.at <= clock
    BY <1>1 DEF TypeInv, Timed, RecentOf
  <2>2. \A e \in recent : e.at <= at
    BY <1>1, <1>4, <2>1
  <2>3. QED
    BY <1>1, <1>4, <1>5, <1>6, <2>2 DEF Timed
<1>11. owners' \subseteq [w : Write, at : Nat] /\ owed' \subseteq [w : Write, at : Nat] /\ pending' \subseteq Write
  BY <1>1, <1>5, <1>9
<1>12. Answered'
  BY <1>5 DEF TypeInv, Answered
<1>13. strayed' \subseteq (Ga \cup {NoGa}) \X Raw
  BY <1>3, <1>5 DEF TypeInv, TypeOK
<1>14. UNCHANGED <<stored, loaded, routing, writing, orderVars, invalid, tombs, later, publishedVars, counts>>
  BY DEF Transmit
<1>15. QED
  BY <1>2, <1>4, <1>5, <1>8, <1>10, <1>11, <1>12, <1>13, <1>14
     DEF TypeInv, TypeOK, Busy, Nonempty, RecentOf, orderVars, publishedVars, sentVars

LEMMA SendFailsTypes ==
    ASSUME TypeInv, SendFails
    PROVE  TypeInv'
<1>1. outbox' \in Seq(Write)
  BY HeadTailProperties DEF TypeInv, TypeOK, SendFails
<1>2. UNCHANGED <<stored, loaded, routing, writing, orderVars, adapterVars, inbox, later, publishedVars,
                  sentVars, counts>>
  BY DEF SendFails
<1>3. QED
  BY <1>1, <1>2 DEF TypeInv, TypeOK, Busy, Nonempty, Timed, Answered, orderVars, adapterVars,
     publishedVars, sentVars

LEMMA FeedbackTypes ==
    ASSUME TypeInv, NEW o \in owed, Feedback(o)
    PROVE  TypeInv'
<1> DEFINE tel == [out |-> FALSE, ga |-> o.w.c.state, raw |-> Encode[o.w.val], origin |-> o.w]
<1>1. o.w \in Write /\ o.w.c.state # NoGa
  BY DEF TypeInv, TypeOK, Answered
<1>2. tel \in Telegram
  BY <1>1, WriteIs DEF Telegram
<1>3. inbox' \in Seq(Telegram)
  BY <1>2, ScheduledTyped DEF TypeInv, Feedback
<1>4. owed' \subseteq owed
  BY DEF Feedback
<1>5. UNCHANGED <<stored, loaded, routing, writing, orderVars, outbox, adapterVars, later, publishedVars, clock, strayed, counts>>
  BY DEF Feedback
<1>6. QED
  BY <1>3, <1>4, <1>5 DEF TypeInv, TypeOK, Busy, Nonempty, Timed, Answered, orderVars, adapterVars,
     publishedVars, sentVars

LEMMA ForeignTypes ==
    ASSUME TypeInv, NEW ga \in Ga, NEW raw \in Raw, Foreign(ga, raw)
    PROVE  TypeInv'
<1>1. [out |-> FALSE, ga |-> ga, raw |-> raw, origin |-> NoWrite] \in Telegram
  BY DEF Telegram
<1>2. inbox' \in Seq(Telegram)
  BY <1>1, AppendProperties DEF TypeInv, TypeOK, Foreign
<1>3. counts' \in [inputs : 0..MaxInputs, rebinds : 0..MaxRebinds]
  <2>1. /\ counts \in [inputs : 0..MaxInputs, rebinds : 0..MaxRebinds] /\ MaxInputs \in Nat
        /\ counts.inputs < MaxInputs /\ counts' = [counts EXCEPT !.inputs = counts.inputs + 1]
    BY BoundAssumption DEF TypeInv, TypeOK, Foreign
  <2>2. QED
    BY <2>1
<1>4. UNCHANGED <<stored, loaded, routing, writing, orderVars, outbox, adapterVars, later, publishedVars, sentVars>>
  BY DEF Foreign
<1>5. QED
  BY <1>2, <1>3, <1>4 DEF TypeInv, TypeOK, Busy, Nonempty, Timed, Answered, orderVars, adapterVars,
     publishedVars, sentVars

(* A publication reaches the registry and the router.                      *)
LEMMA PublishTypes ==
    ASSUME TypeOK, NEW e \in Event, Publish(e)
    PROVE  /\ shown' \in [Dp -> Event \cup {NothingShown}] /\ confirmed' \in [Dp -> 0..MaxOrders]
           /\ acted' \in [1..MaxOrders -> Nat] /\ routing' \in Seq(Routed)
<1>1. e.dp \in Dp /\ e.val \in Value /\ e.b \in Binding /\ e.n \in 0..MaxOrders
  BY DEF Event
<1>2. /\ shown \in [Dp -> Event \cup {NothingShown}] /\ confirmed \in [Dp -> 0..MaxOrders]
      /\ acted \in [1..MaxOrders -> Nat] /\ routing \in Seq(Routed)
  BY DEF TypeOK, Routed
<1>3. shown' \in [Dp -> Event \cup {NothingShown}] /\ confirmed' \in [Dp -> 0..MaxOrders]
  BY <1>1, <1>2 DEF Publish
<1>4. acted' \in [1..MaxOrders -> Nat]
  <2>1. CASE e.n = 0 \/ ~e.actions
    BY <1>2, <2>1 DEF Publish
  <2>2. CASE ~(e.n = 0 \/ ~e.actions)
    <3>1. acted' = [acted EXCEPT ![e.n] = acted[e.n] + 1]
      BY <2>2 DEF Publish
    <3>2. e.n \in 1..MaxOrders
      BY <1>1, <2>2, BoundAssumption
    <3>3. acted[e.n] + 1 \in Nat
      BY <1>2, <3>2
    <3>4. QED
      BY <1>2, <3>1, <3>2, <3>3
  <2>3. QED
    BY <2>1, <2>2
<1>5. [dp |-> e.dp, val |-> e.val, direct |-> FALSE, skip |-> e.b] \in Routed
  BY <1>1 DEF Routed
<1>6. routing' \in Seq(Routed)
  BY <1>2, <1>5, AppendProperties DEF Publish
<1>7. QED
  BY <1>3, <1>4, <1>6

LEMMA PublishNextTypes ==
    ASSUME TypeInv, NEW i \in DOMAIN later, PublishNext(i)
    PROVE  TypeInv'
<1>1. later \in Seq(Seq(Event)) /\ Nonempty(later)
  BY DEF TypeInv, Busy, TypeOK
<1>2. later[i] \in Seq(Event) /\ later[i] # <<>>
  BY <1>1, LenProperties, ElementOfSeq DEF Nonempty
<1>3. Head(later[i]) \in Event /\ Publish(Head(later[i]))
  BY <1>2, HeadTailProperties DEF PublishNext
<1>4. later' = Rest(later, i)
  BY DEF PublishNext, Rest
<1>5. later' \in Seq(Seq(Event)) /\ Nonempty(later')
  BY <1>1, <1>4, RestIs
<1>6. /\ shown' \in [Dp -> Event \cup {NothingShown}] /\ confirmed' \in [Dp -> 0..MaxOrders]
      /\ acted' \in [1..MaxOrders -> Nat] /\ routing' \in Seq(Routed)
  BY <1>3, PublishTypes DEF TypeInv
<1>7. UNCHANGED <<stored, loaded, writing, orderVars, outbox, adapterVars, inbox, sentVars, counts>>
  BY DEF PublishNext
<1>8. QED
  BY <1>5, <1>6, <1>7 DEF TypeInv, TypeOK, Busy, Nonempty, Timed, Answered, Routed, orderVars,
     adapterVars, sentVars

(* What every entry keeps, the handler keeps.                              *)
LEMMA StepsKeep ==
    ASSUME NEW tel, NEW h, Steps(tel, h), NEW G, Untouched \in G[0],
           \A i \in 1..Len(Entries(tel)) : \A st \in G[i - 1] : HandleEntry(tel, Entries(tel)[i], st) \in G[i]
    PROVE  h[Len(Entries(tel))] \in G[Len(Entries(tel))]
<1> DEFINE n == Len(Entries(tel))
           D == {i \in 0..n : h[i] \notin G[i]}
<1>1. n \in Nat
  BY EntriesAre
<1>2. SUFFICES ASSUME D # {} PROVE FALSE
  BY <1>1
<1>3. PICK m \in D : \A i \in D : m <= i
  <2>1. D \subseteq Nat
    BY <1>1
  <2>2. QED
    BY <1>2, <2>1, LeastOf
<1>4. m \in 0..n /\ h[m] \notin G[m]
  BY <1>3
<1>5. \A i \in 0..n : h[i] = IF i = 0 THEN Untouched ELSE HandleEntry(tel, Entries(tel)[i], h[i - 1])
  BY DEF Steps
<1>6. m # 0
  BY <1>1, <1>4, <1>5
<1>7. m \in 1..n /\ m - 1 \in 0..n /\ ~(m <= m - 1)
  BY <1>1, <1>4, <1>6
<1>8. h[m - 1] \in G[m - 1]
  BY <1>3, <1>7
<1>9. h[m] = HandleEntry(tel, Entries(tel)[m], h[m - 1])
  BY <1>4, <1>5, <1>6
<1>10. QED
  BY <1>4, <1>7, <1>8, <1>9

(* A confirmation that triggers actions.                                   *)
Acting(e) == e.n # 0 /\ e.actions = TRUE

(* The handler only adds: it activates commands, and claims one for each   *)
(* confirmation that acts.                                                 *)
Adds(st) ==
    /\ st \in HandlerState /\ st.recent \subseteq recent
    /\ \A d \in Dp : st.latest[d] >= latest[d]
    /\ claimed \subseteq st.claimed
    /\ \A i \in 1..Len(st.events) : Acting(st.events[i]) => st.events[i].n \in st.claimed \ claimed
    /\ \A i, j \in 1..Len(st.events) :
          Acting(st.events[i]) /\ Acting(st.events[j]) /\ st.events[i].n = st.events[j].n => i = j

(* Before its first entry the handler has added nothing.                   *)
LEMMA UntouchedAdds ==
    ASSUME TypeOK
    PROVE  Adds(Untouched)
<1>1. recent \subseteq RecentOf /\ latest \in [Dp -> 0..MaxOrders] /\ claimed \subseteq 1..MaxOrders
  BY DEF TypeOK, RecentOf
<1>2. <<>> \in Seq(Event) /\ Len(<<>>) = 0
  BY EmptySeq
<1>3. Untouched \in HandlerState
  BY <1>1, <1>2 DEF Untouched, HandlerState
<1>4. \A d \in Dp : latest[d] >= latest[d]
  BY <1>1, BoundAssumption
<1>5. Untouched.recent = recent /\ Untouched.latest = latest /\ Untouched.claimed = claimed /\ Untouched.events = <<>>
  BY DEF Untouched
<1>6. QED
  BY <1>2, <1>3, <1>4, <1>5 DEF Adds

(* An entry adds at most one event, with a number nobody has claimed if it *)
(* acts.                                                                   *)
LEMMA EntryAdds ==
    ASSUME TypeOK, NEW tel \in Telegram, NEW b \in Listeners(tel.ga), NEW st, Adds(st)
    PROVE  Adds(HandleEntry(tel, b, st))
<1> DEFINE next == HandleEntry(tel, b, st)
<1> SUFFICES Adds(next)
  OBVIOUS
<1> HIDE DEF next
<1>1. st \in HandlerState /\ st.events \in Seq(Event) /\ Len(st.events) \in Nat
  BY LenProperties DEF Adds, HandlerState
<1>2. /\ next \in HandlerState /\ next.recent \subseteq st.recent
      /\ \A d \in Dp : next.latest[d] >= st.latest[d]
      /\ Skips(st, next) \/ Renews(tel, b, st, next) \/ Confirms(tel, b, st, next)
  BY <1>1, EntryDoes DEF next
<1>3. /\ next.recent \subseteq recent
      /\ \A d \in Dp : next.latest[d] >= latest[d]
  <2>1. \A d \in Dp : next.latest[d] \in Nat /\ st.latest[d] \in Nat /\ latest[d] \in Nat
    BY <1>1, <1>2, BoundAssumption DEF HandlerState, TypeOK
  <2>2. st.recent \subseteq recent /\ \A d \in Dp : st.latest[d] >= latest[d]
    BY DEF Adds
  <2>3. ASSUME NEW d \in Dp PROVE next.latest[d] >= latest[d]
    BY <1>2, <2>1, <2>2
  <2>4. QED
    BY <1>2, <2>2, <2>3
<1>4. CASE Skips(st, next)
  BY <1>2, <1>3, <1>4 DEF Skips, Adds
<1>5. CASE Renews(tel, b, st, next)
  <2>1. NewValue(tel, b) \in Event /\ ~Acting(NewValue(tel, b))
    BY EventTyped DEF Acting
  <2>2. next.events = Append(st.events, NewValue(tel, b)) /\ next.claimed = st.claimed
    BY <1>5 DEF Renews
  <2>3. /\ Len(next.events) = Len(st.events) + 1
        /\ \A i \in 1..Len(st.events) : next.events[i] = st.events[i]
        /\ next.events[Len(st.events) + 1] = NewValue(tel, b)
    BY <1>1, <2>1, <2>2, AppendProperties
  <2>4. \A i \in 1..Len(next.events) : i \in 1..Len(st.events) \/ i = Len(st.events) + 1
    BY <1>1, <2>3
  <2>5. \A i \in 1..Len(next.events) : Acting(next.events[i]) => i \in 1..Len(st.events) /\ next.events[i] = st.events[i]
    BY <2>1, <2>3, <2>4
  <2>6. ASSUME NEW i \in 1..Len(next.events), Acting(next.events[i])
        PROVE  next.events[i].n \in next.claimed \ claimed
    BY <2>2, <2>5, <2>6 DEF Adds
  <2>7. ASSUME NEW i \in 1..Len(next.events), NEW j \in 1..Len(next.events),
               Acting(next.events[i]), Acting(next.events[j]), next.events[i].n = next.events[j].n
        PROVE  i = j
    BY <2>5, <2>7 DEF Adds
  <2>8. claimed \subseteq next.claimed
    BY <2>2 DEF Adds
  <2>9. QED
    BY ONLY <1>2, <1>3, <2>6, <2>7, <2>8 DEF Adds
<1>6. CASE Confirms(tel, b, st, next)
  <2>1. PICK e \in Consumable(tel, b, st) :
           /\ next.events = Append(st.events, Confirmation(tel, b, e.w, Acts(e.w, st.claimed)))
           /\ next.claimed = IF e.w.direct THEN st.claimed \cup {e.w.n} ELSE st.claimed
    BY <1>6 DEF Confirms
  <2> DEFINE new == Confirmation(tel, b, e.w, Acts(e.w, st.claimed))
  <2>2. e.w \in Write /\ Acts(e.w, st.claimed) \in BOOLEAN
    <3>1. e.w \in Write
      BY <1>1, ConsumableIs
    <3>2. e.w.direct \in BOOLEAN
      BY <3>1, WriteIs
    <3>3. QED
      BY <3>1, <3>2 DEF Acts
  <2>3. new \in Event /\ new.n = e.w.n /\ new.actions = Acts(e.w, st.claimed)
    BY <2>2, EventTyped
  <2>4. Acting(new) => e.w.n \notin st.claimed /\ e.w.n \in next.claimed
    BY <2>1, <2>3 DEF Acting, Acts
  <2> HIDE DEF new
  <2>5. /\ Len(next.events) = Len(st.events) + 1
        /\ \A i \in 1..Len(st.events) : next.events[i] = st.events[i]
        /\ next.events[Len(st.events) + 1] = new
    BY <1>1, <2>1, <2>3, AppendProperties DEF new
  <2>6. \A i \in 1..Len(next.events) : i \in 1..Len(st.events) \/ i = Len(st.events) + 1
    BY <1>1, <2>5
  <2>7. st.claimed \subseteq next.claimed
    BY <2>1
  <2>8. ASSUME NEW i \in 1..Len(next.events), Acting(next.events[i])
        PROVE  next.events[i].n \in next.claimed \ claimed
    <3>1. CASE i \in 1..Len(st.events)
      BY <2>5, <2>7, <2>8, <3>1 DEF Adds
    <3>2. CASE i = Len(st.events) + 1
      BY <2>3, <2>4, <2>5, <2>8, <3>2 DEF Adds
    <3>3. QED
      BY <2>6, <3>1, <3>2
  <2>9. ASSUME NEW i \in 1..Len(next.events), NEW j \in 1..Len(next.events),
               Acting(next.events[i]), Acting(next.events[j]), next.events[i].n = next.events[j].n
        PROVE  i = j
    <3>1. CASE i \in 1..Len(st.events) /\ j \in 1..Len(st.events)
      BY <2>5, <2>9, <3>1 DEF Adds
    <3>2. CASE i \in 1..Len(st.events) /\ j = Len(st.events) + 1
      BY <2>3, <2>4, <2>5, <2>9, <3>2 DEF Adds
    <3>3. CASE i = Len(st.events) + 1 /\ j \in 1..Len(st.events)
      BY <2>3, <2>4, <2>5, <2>9, <3>3 DEF Adds
    <3>4. QED
      BY <2>6, <3>1, <3>2, <3>3
  <2>10. claimed \subseteq next.claimed
    BY <2>7 DEF Adds
  <2>11. QED
    BY ONLY <1>2, <1>3, <2>8, <2>9, <2>10 DEF Adds
<1>7. QED
  BY <1>2, <1>4, <1>5, <1>6

(* So does the handler as a whole: its acting events have numbers of their *)
(* own.                                                                    *)
LEMMA HandledAdds ==
    ASSUME TypeOK, NEW tel \in Telegram
    PROVE  Adds(Handled(tel))
<1>1. PICK h : Steps(tel, h) /\ Handled(tel) = h[Len(Entries(tel))]
  BY HandledBySteps
<1> DEFINE n == Len(Entries(tel))
           All == {st \in HandlerState : Adds(st)}
           G == [i \in 0..n |-> All]
<1>2. n \in Nat /\ \A i \in 1..n : Entries(tel)[i] \in Listeners(tel.ga)
  BY EntriesAre
<1>3. \A st : Adds(st) => st \in All
  BY DEF Adds
<1>4. Untouched \in G[0]
  BY <1>2, <1>3, UntouchedAdds
<1>5. ASSUME NEW i \in 1..n, NEW st \in G[i - 1]
      PROVE  HandleEntry(tel, Entries(tel)[i], st) \in G[i]
  <2>1. i - 1 \in 0..n /\ i \in 0..n
    BY <1>2
  <2>2. Adds(st)
    BY <2>1, <1>5
  <2>3. Adds(HandleEntry(tel, Entries(tel)[i], st))
    BY <1>2, <2>2, EntryAdds
  <2>4. QED
    BY <1>3, <2>1, <2>3
<1>6. n \in 0..n
  BY <1>2
<1> HIDE DEF G
<1>7. h[n] \in G[n]
  BY <1>1, <1>4, <1>5, StepsKeep
<1>8. QED
  BY <1>1, <1>6, <1>7 DEF G

LEMMA OnTelegramTypes ==
    ASSUME TypeInv, OnTelegram
    PROVE  TypeInv'
<1> DEFINE tel == Head(inbox)
           st == Handled(tel)
<1>1. inbox \in Seq(Telegram) /\ inbox # <<>>
  BY DEF TypeInv, TypeOK, OnTelegram
<1>2. tel \in Telegram /\ inbox' \in Seq(Telegram)
  BY <1>1, HeadTailProperties DEF OnTelegram
<1>3. st \in HandlerState /\ st.recent \subseteq recent
  BY <1>2, HandledAdds DEF TypeInv, Adds
<1>4. /\ recent' = st.recent /\ latest' = st.latest /\ claimed' = st.claimed
      /\ owners' \subseteq owners /\ invalid' \subseteq invalid
      /\ tombs' = Filtered(tombs, Range(tombs) \ UsedTombs(tel))
      /\ IF st.events = <<>>
         THEN UNCHANGED <<publishedVars, routing, later>>
         ELSE /\ Publish(Head(st.events))
              /\ later' = IF Len(st.events) = 1 THEN later ELSE Append(later, Tail(st.events))
  BY DEF OnTelegram
<1> HIDE DEF st, tel
<1>5. st.latest \in [Dp -> 0..MaxOrders] /\ st.claimed \subseteq 1..MaxOrders /\ st.events \in Seq(Event)
  BY <1>3 DEF HandlerState
<1>6. tombs' \in Seq(TombOf)
  BY <1>4, FilteredIs DEF TypeInv, TypeOK, TombOf
<1>7. /\ shown' \in [Dp -> Event \cup {NothingShown}] /\ confirmed' \in [Dp -> 0..MaxOrders]
      /\ acted' \in [1..MaxOrders -> Nat] /\ routing' \in Seq(Routed)
      /\ later' \in Seq(Seq(Event)) /\ Nonempty(later')
  <2>1. CASE st.events = <<>>
    BY <1>4, <2>1 DEF TypeInv, TypeOK, Busy, Routed, publishedVars, sentVars
  <2>2. CASE st.events # <<>>
    <3>1. /\ Head(st.events) \in Event /\ Tail(st.events) \in Seq(Event) /\ Len(Tail(st.events)) = Len(st.events) - 1
          /\ Len(st.events) \in Nat \ {0}
      BY <1>5, <2>2, HeadTailProperties, EmptySeq
    <3>2. Publish(Head(st.events)) /\ later' = IF Len(st.events) = 1 THEN later ELSE Append(later, Tail(st.events))
      BY <1>4, <2>2
    <3>3. /\ shown' \in [Dp -> Event \cup {NothingShown}] /\ confirmed' \in [Dp -> 0..MaxOrders]
          /\ acted' \in [1..MaxOrders -> Nat] /\ routing' \in Seq(Routed)
      BY <3>1, <3>2, PublishTypes DEF TypeInv
    <3>4. later \in Seq(Seq(Event)) /\ Nonempty(later)
      BY DEF TypeInv, TypeOK, Busy
    <3>5. CASE Len(st.events) = 1
      BY <3>2, <3>3, <3>4, <3>5
    <3>6. CASE Len(st.events) # 1
      <4> DEFINE t == Tail(st.events)
      <4>1. t \in Seq(Event) /\ Len(t) = Len(st.events) - 1
        BY <3>1
      <4>2. later' = Append(later, t)
        BY <3>2, <3>6
      <4> HIDE DEF t
      <4>3. Len(t) > 0
        <5> DEFINE l == Len(st.events)
        <5>1. l \in Nat \ {0} /\ l # 1 /\ Len(t) = l - 1
          BY <3>1, <3>6, <4>1
        <5> HIDE DEF l
        <5>2. QED
          BY <5>1
      <4>4. t # <<>>
        BY <4>3, EmptySeq
      <4>5. /\ later' \in Seq(Seq(Event)) /\ Len(later') = Len(later) + 1 /\ Len(later) \in Nat
            /\ \A i \in 1..Len(later) : later'[i] = later[i]
            /\ later'[Len(later) + 1] = t
        BY <3>4, <4>1, <4>2, AppendProperties, LenProperties
      <4>6. DOMAIN later = 1..Len(later) /\ DOMAIN later' = 1..(Len(later) + 1)
        BY <3>4, <4>5, LenProperties
      <4>7. \A i \in 1..(Len(later) + 1) : i \in 1..Len(later) \/ i = Len(later) + 1
        BY <4>5
      <4>8. Nonempty(later')
        BY <3>4, <4>4, <4>5, <4>6, <4>7 DEF Nonempty
      <4>9. QED
        BY <3>3, <4>5, <4>8
    <3>7. QED
      BY <3>5, <3>6
  <2>3. QED
    BY <2>1, <2>2
<1>8. UNCHANGED <<stored, loaded, writing, seq, outbox, pending, sentVars, counts>>
  BY DEF OnTelegram
<1>9. QED
  BY <1>2, <1>3, <1>4, <1>5, <1>6, <1>7, <1>8 DEF TypeInv, TypeOK, Busy, Nonempty, Timed, Answered,
     Routed, TombOf, sentVars

LEMMA RebindTypes ==
    ASSUME TypeInv, NEW b \in Binding, NEW c \in Options[b] \cup {NoConfig}, Rebind(b, c)
    PROVE  TypeInv'
<1>1. c \in Configs \cup {NoConfig}
  BY DEF Configs
<1>2. stored' \in [Binding -> Configs \cup {NoConfig}]
  BY <1>1 DEF Rebind, TypeInv, TypeOK
<1>3. counts' \in [inputs : 0..MaxInputs, rebinds : 0..MaxRebinds]
  <2>1. /\ counts \in [inputs : 0..MaxInputs, rebinds : 0..MaxRebinds] /\ MaxRebinds \in Nat
        /\ counts.rebinds < MaxRebinds /\ counts' = [counts EXCEPT !.rebinds = counts.rebinds + 1]
    BY BoundAssumption DEF TypeInv, TypeOK, Rebind
  <2>2. QED
    BY <2>1
<1>4. UNCHANGED <<loaded, routing, writing, orderVars, outbox, adapterVars, inbox, later, publishedVars, sentVars>>
  BY DEF Rebind
<1>5. QED
  BY <1>2, <1>3, <1>4 DEF TypeInv, TypeOK, Busy, Nonempty, Timed, Answered, orderVars, adapterVars,
     publishedVars, sentVars

LEMMA ReloadTypes ==
    ASSUME TypeInv, Reload
    PROVE  TypeInv'
<1> DEFINE lost == {e \in recent : Outdated(e.w)}
           feedback == {e \in lost : e.ga = e.w.c.state}
           disowned == {o \in owners : \E e \in lost : e.w.b = o.w.b}
           dropped == {w \in pending : Outdated(w)}
           ats == {e.at : e \in feedback}
           times == Ordered(ats)
           tomb(e) == [at |-> e.at, b |-> e.w.b, dp |-> e.w.c.dp, ga |-> e.ga, raw |-> Encode[e.w.val]]
           last(i) == CHOOSE e \in feedback : e.at = times[i]
           stones == [i \in DOMAIN times |-> tomb(last(i))]
<1>1. /\ recent \subseteq RecentOf /\ tombs \in Seq(TombOf) /\ clock \in Nat /\ pending \subseteq Write
      /\ owners \subseteq [w : Write, at : Nat] /\ invalid \subseteq [w : Write, dp : Dp]
  BY DEF TypeInv, TypeOK, RecentOf, TombOf
<1>2. /\ loaded' = stored /\ recent' = recent \ lost /\ owners' = owners \ disowned /\ pending' = pending \ dropped
      /\ tombs' = tombs \o stones
      /\ invalid' = (invalid \cup {[w |-> w, dp |-> w.c.dp] : w \in dropped})
                    \cup {[w |-> o.w, dp |-> (CHOOSE e \in lost : e.w.b = o.w.b).w.c.dp] : o \in disowned}
  BY DEF Reload
<1>3. \A e \in recent : e.at \in Nat /\ e.at <= clock /\ e.w \in Write /\ e.ga \in Ga
  BY <1>1 DEF RecentOf, TypeInv, Timed
<1>4. ats \in SUBSET Nat /\ IsFiniteSet(ats)
  <2>1. ats \in SUBSET Nat /\ \A t \in ats : t <= clock
    BY <1>3
  <2>2. IsFiniteSet(ats)
    BY <1>1, <2>1, FS_BoundedSetOfNaturals
  <2>3. QED
    BY <2>1, <2>2
<1>5. times \in Seq(ats)
  BY <1>4, OrderedIs
<1> HIDE DEF times
<1>6. DOMAIN times = 1..Len(times) /\ Len(times) \in Nat /\ \A i \in 1..Len(times) : times[i] \in ats
  BY <1>5, LenProperties, ElementOfSeq
<1>7. \A i \in 1..Len(times) : last(i) \in feedback
  BY <1>6
<1>8. \A e \in feedback : tomb(e) \in TombOf
  <2>1. ASSUME NEW e \in feedback PROVE tomb(e) \in TombOf
    <3>1. e.w \in Write /\ e.at \in Nat /\ e.ga \in Ga
      BY <1>3, <2>1
    <3>2. e.w.b \in Binding /\ e.w.c.dp \in Dp /\ Encode[e.w.val] \in Raw
      BY <3>1, WriteIs
    <3>3. QED
      BY <3>1, <3>2 DEF TombOf
  <2>2. QED
    BY <2>1
<1>9. stones \in [1..Len(times) -> TombOf]
  BY <1>6, <1>7, <1>8
<1> HIDE DEF stones
<1>10. stones \in Seq(TombOf)
  BY <1>6, <1>9, FunctionIsSeq
<1>11. tombs' \in Seq(TombOf)
  BY <1>1, <1>2, <1>10, ConcatProperties
<1>12. \A w \in dropped : [w |-> w, dp |-> w.c.dp] \in [w : Write, dp : Dp]
  <2>1. \A w \in Write : w.c.dp \in Dp
    BY WriteIs
  <2>2. QED
    BY <1>1, <2>1
<1>13. ASSUME NEW o \in disowned
       PROVE  [w |-> o.w, dp |-> (CHOOSE e \in lost : e.w.b = o.w.b).w.c.dp] \in [w : Write, dp : Dp]
  <2>1. o.w \in Write
    BY <1>1
  <2>2. PICK e \in lost : e = CHOOSE f \in lost : f.w.b = o.w.b
    BY <1>13
  <2>3. e.w \in Write
    BY <1>3, <2>2
  <2>4. e.w.c.dp \in Dp
    BY <2>3, WriteIs
  <2>5. QED
    BY <2>1, <2>2, <2>4
<1>14. invalid' \subseteq [w : Write, dp : Dp]
  <2>1. {[w |-> w, dp |-> w.c.dp] : w \in dropped} \subseteq [w : Write, dp : Dp]
    BY <1>12
  <2>2. {[w |-> o.w, dp |-> (CHOOSE e \in lost : e.w.b = o.w.b).w.c.dp] : o \in disowned} \subseteq [w : Write, dp : Dp]
    BY <1>13
  <2>3. QED
    BY <1>1, <1>2, <2>1, <2>2
<1>15. recent' \subseteq recent /\ owners' \subseteq owners /\ pending' \subseteq pending
  BY <1>2
<1>16. UNCHANGED <<stored, routing, writing, orderVars, outbox, inbox, later, publishedVars, sentVars, counts>>
  BY DEF Reload
<1>17. QED
  BY <1>2, <1>11, <1>14, <1>15, <1>16
     DEF TypeInv, TypeOK, Busy, Nonempty, Timed, Answered, TombOf, orderVars, publishedVars, sentVars

LEMMA ExpireTypes ==
    ASSUME TypeInv, NEW k, ExpireEchoes(k) \/ ExpireStates(k)
    PROVE  TypeInv'
<1>1. CASE ExpireEchoes(k)
  <2>1. recent' \subseteq recent /\ owners' \subseteq owners
    BY <1>1 DEF ExpireEchoes
  <2>2. UNCHANGED <<stored, loaded, routing, writing, orderVars, outbox, pending, invalid, tombs, inbox, later,
                    publishedVars, sentVars, counts>>
    BY <1>1 DEF ExpireEchoes
  <2>3. QED
    BY <2>1, <2>2 DEF TypeInv, TypeOK, Busy, Nonempty, Timed, Answered, orderVars, publishedVars, sentVars
<1>2. CASE ExpireStates(k)
  <2>1. recent' \subseteq recent /\ owners' \subseteq owners /\ owed' \subseteq owed
    BY <1>2 DEF ExpireStates
  <2>2. tombs' \in Seq(TombOf)
    BY <1>2, FilteredIs DEF ExpireStates, TypeInv, TypeOK, TombOf
  <2>3. UNCHANGED <<stored, loaded, routing, writing, orderVars, outbox, pending, invalid, inbox, later,
                    publishedVars, clock, strayed, counts>>
    BY <1>2 DEF ExpireStates
  <2>4. QED
    BY <2>1, <2>2, <2>3 DEF TypeInv, TypeOK, Busy, Nonempty, Timed, Answered, TombOf, orderVars,
       publishedVars, sentVars
<1>3. QED
  BY <1>1, <1>2

LEMMA NextTypes == TypeInv /\ [Next]_vars => TypeInv'
<1> SUFFICES ASSUME TypeInv, [Next]_vars PROVE TypeInv'
  OBVIOUS
<1>1. CASE UNCHANGED vars
  BY <1>1 DEF vars, TypeInv, TypeOK, Busy, Nonempty, Timed, Answered, orderVars, adapterVars,
     publishedVars, sentVars
<1>2. ASSUME NEW b \in Binding, NEW c \in Options[b] \cup {NoConfig}, Rebind(b, c) PROVE TypeInv'
  BY <1>2, RebindTypes
<1>3. ASSUME NEW k \in 1..clock, ExpireEchoes(k) \/ ExpireStates(k) PROVE TypeInv'
  BY <1>3, ExpireTypes
<1>4. QED
  BY <1>1, <1>2, <1>3, DirectWriteTypes, RouteWriteTypes, WriteRowTypes, TransmitTypes,
     SendFailsTypes, FeedbackTypes,
     ForeignTypes, OnTelegramTypes, PublishNextTypes, ReloadTypes DEF Next

(* Every queue, table and record of the router, the adapter and the bus    *)
(* keeps its type, for any bindings, addresses and bounds: no event or     *)
(* write is made of a binding that a reload has taken away                 *)
(* (adapters/knx/adapter.py, core/write_router.py).                        *)
THEOREM TypeCorrect == Spec => []TypeOK
<1>1. TypeInv => TypeOK
  BY DEF TypeInv
<1>2. QED
  BY <1>1, InitTypes, NextTypes, PTL DEF Spec

-----------------------------------------------------------------------------
(* A command acts once.                                                    *)

(* A number that acted is claimed; a confirmation that is still to act has *)
(* claimed its number, and no other one has.                               *)
Counted == \A n \in 1..MaxOrders : acted[n] <= 1 /\ (acted[n] # 0 => n \in claimed)
Waiting ==
    \A i \in DOMAIN later : \A j \in DOMAIN later[i] :
        Acting(later[i][j]) => later[i][j].n \in claimed /\ acted[later[i][j].n] = 0
Alone ==
    \A i, k \in DOMAIN later : \A j \in DOMAIN later[i], m \in DOMAIN later[k] :
        /\ Acting(later[i][j]) /\ Acting(later[k][m]) /\ later[i][j].n = later[k][m].n
        => i = k /\ j = m
OnceInv == Counted /\ Waiting /\ Alone

LEMMA InitOnce == Init => OnceInv
<1> SUFFICES ASSUME Init PROVE OnceInv
  OBVIOUS
<1>1. \A n \in 1..MaxOrders : acted[n] = 0
  BY DEF Init
<1>2. DOMAIN later = {}
  BY DEF Init
<1>3. QED
  BY <1>1, <1>2 DEF OnceInv, Counted, Waiting, Alone

(* An event that acts is of a numbered command.                            *)
LEMMA ActingIs ==
    ASSUME NEW e \in Event
    PROVE  Acting(e) => e.n \in 1..MaxOrders
<1>1. e.n \in 0..MaxOrders /\ MaxOrders \in Nat
  BY BoundAssumption DEF Event
<1>2. QED
  BY <1>1 DEF Acting

(* A publication counts for its own number only.                           *)
LEMMA PublishActs ==
    ASSUME TypeOK, NEW e \in Event, Publish(e)
    PROVE  \A n \in 1..MaxOrders : acted'[n] = IF Acting(e) /\ e.n = n THEN acted[n] + 1 ELSE acted[n]
<1>1. acted \in [1..MaxOrders -> Nat] /\ e.actions \in BOOLEAN
  BY DEF TypeOK, Event
<1>2. CASE Acting(e)
  <2>1. acted' = [acted EXCEPT ![e.n] = acted[e.n] + 1]
    BY <1>2 DEF Publish, Acting
  <2>2. QED
    BY <1>1, <1>2, <2>1
<1>3. CASE ~Acting(e)
  <2>1. acted' = acted
    BY <1>1, <1>3 DEF Publish, Acting
  <2>2. QED
    BY <1>3, <2>1
<1>4. QED
  BY <1>2, <1>3

(* An event that waited is published.                                      *)
LEMMA PublishNextOnce ==
    ASSUME TypeInv, OnceInv, NEW i \in DOMAIN later, PublishNext(i)
    PROVE  OnceInv'
<1> DEFINE e == later[i][1]
<1>1. later \in Seq(Seq(Event)) /\ Nonempty(later)
  BY DEF TypeInv, Busy, TypeOK
<1>2. /\ Len(later) \in Nat /\ DOMAIN later = 1..Len(later) /\ i \in 1..Len(later)
      /\ \A k \in DOMAIN later : later[k] \in Seq(Event) /\ later[k] # <<>>
  BY <1>1, LenProperties, ElementOfSeq DEF Nonempty
<1>3. \A k \in DOMAIN later : \A j \in DOMAIN later[k] : later[k][j] \in Event /\ j \in Nat
  BY <1>2, LenProperties, ElementOfSeq
<1>4. 1 \in DOMAIN later[i] /\ Head(later[i]) = e
  <2>1. later[i] \in Seq(Event) /\ later[i] # <<>> /\ Len(later[i]) \in Nat \ {0}
    BY <1>2, EmptySeq
  <2>2. QED
    BY <2>1, LenProperties
<1>5. later' = Rest(later, i) /\ Publish(e) /\ claimed' = claimed
  BY <1>4 DEF PublishNext, Rest, orderVars
<1>6. e \in Event
  BY <1>3, <1>4
<1>7. \A n \in 1..MaxOrders : acted'[n] = IF Acting(e) /\ e.n = n THEN acted[n] + 1 ELSE acted[n]
  BY <1>5, <1>6, PublishActs DEF TypeInv
<1>8. Acting(e) => e.n \in 1..MaxOrders /\ e.n \in claimed /\ acted[e.n] = 0
  BY <1>4, <1>6, ActingIs DEF OnceInv, Waiting
<1>9. Counted'
  BY <1>5, <1>7, <1>8 DEF OnceInv, Counted
<1>10. /\ \A k \in DOMAIN later' : Before(later, i, k) \in DOMAIN later /\ k \in Nat
       /\ \A k \in DOMAIN later' : \A m \in DOMAIN later'[k] :
             /\ m + Moved(later, i, k) \in DOMAIN later[Before(later, i, k)]
             /\ later'[k][m] = later[Before(later, i, k)][m + Moved(later, i, k)]
             /\ Before(later, i, k) = i => m + Moved(later, i, k) # 1
  <2>1. later' \in Seq(Seq(Event))
    BY <1>1, <1>5, RestIs
  <2>2. \A k \in DOMAIN later' : k \in Nat
    BY <2>1, LenProperties
  <2>3. QED
    BY <1>1, <1>5, <2>2, RestIs
<1> HIDE DEF e
<1>11. Waiting'
  <2>1. SUFFICES ASSUME NEW k \in DOMAIN later', NEW m \in DOMAIN later'[k], Acting(later'[k][m])
                 PROVE  later'[k][m].n \in claimed' /\ acted'[later'[k][m].n] = 0
    BY DEF Waiting
  <2> DEFINE p == Before(later, i, k)
             q == m + Moved(later, i, k)
             f == later[p][q]
  <2>2. p \in DOMAIN later /\ q \in DOMAIN later[p] /\ later'[k][m] = f /\ (p = i => q # 1)
    BY <1>10
  <2> HIDE DEF p, q
  <2>3. f \in Event /\ Acting(f)
    BY <1>3, <2>1, <2>2
  <2>4. f.n \in 1..MaxOrders /\ f.n \in claimed /\ acted[f.n] = 0
    BY <2>2, <2>3, ActingIs DEF OnceInv, Waiting
  <2>5. Acting(e) => f.n # e.n
    BY <1>4, <2>2, <2>3 DEF OnceInv, Alone, e
  <2>6. acted'[f.n] = 0
    BY <1>7, <2>4, <2>5
  <2>7. QED
    BY <1>5, <2>2, <2>4, <2>6
<1>12. Alone'
  <2>1. SUFFICES ASSUME NEW k \in DOMAIN later', NEW l \in DOMAIN later',
                        NEW j \in DOMAIN later'[k], NEW m \in DOMAIN later'[l],
                        Acting(later'[k][j]), Acting(later'[l][m]), later'[k][j].n = later'[l][m].n
                 PROVE  k = l /\ j = m
    BY DEF Alone
  <2>2. Before(later, i, k) = Before(later, i, l) /\ j + Moved(later, i, k) = m + Moved(later, i, l)
    BY <1>10, <2>1 DEF OnceInv, Alone
  <2>3. k \in Nat /\ l \in Nat /\ i \in Nat /\ j \in Nat /\ m \in Nat
    <3>1. later' \in Seq(Seq(Event))
      BY <1>1, <1>5, RestIs
    <3>2. later'[k] \in Seq(Event) /\ later'[l] \in Seq(Event)
      BY <3>1, LenProperties, ElementOfSeq
    <3>3. QED
      BY <1>2, <1>10, <3>2, LenProperties
  <2>4. k = l
    BY <2>2, <2>3 DEF Before
  <2>5. Moved(later, i, k) \in Nat
    BY DEF Moved
  <2>6. QED
    BY <2>2, <2>3, <2>4, <2>5
<1>13. QED
  BY <1>9, <1>11, <1>12 DEF OnceInv

(* What a handler publishes at once, and what it leaves for later.         *)
LEMMA OnTelegramLeaves ==
    ASSUME TypeInv, OnTelegram, NEW st, st = Handled(Head(inbox))
    PROVE  /\ Head(inbox) \in Telegram /\ Adds(st) /\ st.events \in Seq(Event) /\ Len(st.events) \in Nat
           /\ latest' = st.latest /\ claimed' = st.claimed
           /\ st.events = <<>> => UNCHANGED <<publishedVars, routing, later>>
           /\ st.events # <<>> => 1 \in 1..Len(st.events) /\ st.events[1] \in Event /\ Publish(st.events[1])
           /\ Len(later) \in Nat /\ DOMAIN later = 1..Len(later)
           /\ \A k \in DOMAIN later' :
                 \/ k \in DOMAIN later /\ later'[k] = later[k]
                 \/ /\ k = Len(later) + 1
                    /\ \A m \in DOMAIN later'[k] :
                          m \in Nat \ {0} /\ m + 1 \in 1..Len(st.events) /\ later'[k][m] = st.events[m + 1]
<1>1. inbox \in Seq(Telegram) /\ inbox # <<>> /\ later \in Seq(Seq(Event))
  BY DEF TypeInv, TypeOK, OnTelegram
<1>2. Head(inbox) \in Telegram
  BY <1>1, HeadTailProperties
<1>3. Adds(st)
  BY <1>2, HandledAdds DEF TypeInv
<1>4. st.events \in Seq(Event) /\ Len(st.events) \in Nat
  BY <1>3, LenProperties DEF Adds, HandlerState
<1>5. /\ latest' = st.latest /\ claimed' = st.claimed
      /\ IF st.events = <<>>
         THEN UNCHANGED <<publishedVars, routing, later>>
         ELSE /\ Publish(Head(st.events))
              /\ later' = IF Len(st.events) = 1 THEN later ELSE Append(later, Tail(st.events))
  BY DEF OnTelegram
<1>6. Len(later) \in Nat /\ DOMAIN later = 1..Len(later)
  BY <1>1, LenProperties
<1>7. CASE st.events = <<>>
  BY <1>2, <1>3, <1>4, <1>5, <1>6, <1>7
<1>8. CASE st.events # <<>>
  <2>1. /\ Head(st.events) = st.events[1] /\ Head(st.events) \in Event
        /\ Tail(st.events) \in Seq(Event) /\ Len(Tail(st.events)) = Len(st.events) - 1
        /\ \A m \in 1..Len(Tail(st.events)) : Tail(st.events)[m] = st.events[m + 1]
        /\ Len(st.events) \in Nat \ {0}
    BY <1>4, <1>8, HeadTailProperties, EmptySeq
  <2> DEFINE t == Tail(st.events)
             l == Len(st.events)
  <2>2. /\ t \in Seq(Event) /\ Len(t) = l - 1 /\ l \in Nat \ {0}
        /\ \A m \in 1..Len(t) : t[m] = st.events[m + 1]
        /\ later' = IF l = 1 THEN later ELSE Append(later, t)
    BY <1>5, <1>8, <2>1
  <2> HIDE DEF t, l
  <2>3. DOMAIN t = 1..Len(t) /\ Len(t) \in Nat
    BY <2>2, LenProperties
  <2>4. \A m \in DOMAIN t : m \in Nat \ {0} /\ m + 1 \in 1..l /\ t[m] = st.events[m + 1]
    BY <2>2, <2>3
  <2>5. CASE l = 1
    BY <1>2, <1>3, <1>4, <1>5, <1>6, <1>8, <2>1, <2>2, <2>5 DEF l
  <2>6. CASE l # 1
    <3>1. /\ later' \in Seq(Seq(Event)) /\ Len(later') = Len(later) + 1
          /\ \A i \in 1..Len(later) : later'[i] = later[i]
          /\ later'[Len(later) + 1] = t
      BY <1>1, <2>2, <2>6, AppendProperties
    <3>2. DOMAIN later' = 1..(Len(later) + 1)
      BY <3>1, LenProperties
    <3>3. \A k \in 1..(Len(later) + 1) : k \in 1..Len(later) \/ k = Len(later) + 1
      BY <1>6
    <3>4. ASSUME NEW k \in DOMAIN later'
          PROVE  \/ k \in DOMAIN later /\ later'[k] = later[k]
                 \/ /\ k = Len(later) + 1
                    /\ \A m \in DOMAIN later'[k] : m \in Nat \ {0} /\ m + 1 \in 1..l /\ later'[k][m] = st.events[m + 1]
      BY <1>6, <2>4, <3>1, <3>2, <3>3
    <3>5. QED
      BY <1>2, <1>3, <1>4, <1>5, <1>6, <1>8, <2>1, <3>4 DEF l
  <2>7. QED
    BY <2>5, <2>6
<1>9. QED
  BY <1>7, <1>8

(* A handler claims the number of each event that is to act: none that     *)
(* waits already has it.                                                   *)
LEMMA OnTelegramOnce ==
    ASSUME TypeInv, OnceInv, OnTelegram
    PROVE  OnceInv'
<1> DEFINE st == Handled(Head(inbox))
           old == Len(later)
           e == st.events[1]
<1>1. /\ Adds(st) /\ st.events \in Seq(Event) /\ Len(st.events) \in Nat
      /\ claimed' = st.claimed
      /\ st.events = <<>> => UNCHANGED <<publishedVars, routing, later>>
      /\ st.events # <<>> => 1 \in 1..Len(st.events) /\ e \in Event /\ Publish(e)
      /\ old \in Nat /\ DOMAIN later = 1..old
  BY OnTelegramLeaves
<1>2. ASSUME NEW k \in DOMAIN later'
      PROVE  \/ k \in DOMAIN later /\ later'[k] = later[k]
             \/ /\ k = old + 1
                /\ \A m \in DOMAIN later'[k] :
                      m \in Nat \ {0} /\ m + 1 \in 1..Len(st.events) /\ later'[k][m] = st.events[m + 1]
  BY OnTelegramLeaves
<1> HIDE DEF st
<1>3. claimed \subseteq claimed'
  BY <1>1 DEF Adds
<1>4. \A i \in 1..Len(st.events) : /\ st.events[i] \in Event
                                   /\ Acting(st.events[i]) => /\ st.events[i].n \in claimed' \ claimed
                                                              /\ st.events[i].n \in 1..MaxOrders
                                                              /\ acted[st.events[i].n] = 0
  <2>1. ASSUME NEW i \in 1..Len(st.events)
        PROVE  /\ st.events[i] \in Event
               /\ Acting(st.events[i]) => /\ st.events[i].n \in claimed' \ claimed /\ st.events[i].n \in 1..MaxOrders
                                          /\ acted[st.events[i].n] = 0
    <3>1. st.events[i] \in Event
      BY <1>1, <2>1, ElementOfSeq
    <3>2. Acting(st.events[i]) => st.events[i].n \in 1..MaxOrders
      BY <3>1, ActingIs
    <3>3. Acting(st.events[i]) => st.events[i].n \in claimed' \ claimed
      BY <1>1, <2>1 DEF Adds
    <3>4. QED
      BY <3>1, <3>2, <3>3 DEF OnceInv, Counted
  <2>2. QED
    BY <2>1
<1>5. \A n \in 1..MaxOrders :
         acted'[n] = IF st.events # <<>> /\ Acting(e) /\ e.n = n THEN acted[n] + 1 ELSE acted[n]
  <2>1. CASE st.events = <<>>
    BY <1>1, <2>1 DEF publishedVars, sentVars
  <2>2. CASE st.events # <<>>
    BY <1>1, <2>2, PublishActs DEF TypeInv
  <2>3. QED
    BY <2>1, <2>2
<1>6. Counted'
  <2>1. SUFFICES ASSUME NEW n \in 1..MaxOrders PROVE acted'[n] <= 1 /\ (acted'[n] # 0 => n \in claimed')
    BY DEF Counted
  <2>2. acted[n] <= 1 /\ (acted[n] # 0 => n \in claimed')
    BY <1>3 DEF OnceInv, Counted
  <2>3. CASE st.events # <<>> /\ Acting(e) /\ e.n = n
    <3>1. n \in claimed' /\ acted[n] = 0
      BY <1>1, <1>4, <2>3
    <3>2. acted'[n] = 1
      BY <1>5, <2>3, <3>1
    <3>3. QED
      BY <3>1, <3>2
  <2>4. CASE ~(st.events # <<>> /\ Acting(e) /\ e.n = n)
    BY <1>5, <2>2, <2>4
  <2>5. QED
    BY <2>3, <2>4
<1> HIDE DEF e
<1>7. \A k \in DOMAIN later : \A j \in DOMAIN later[k] : Acting(later[k][j]) =>
         later[k][j].n \in claimed /\ acted[later[k][j].n] = 0 /\ later[k][j].n \in 1..MaxOrders
  <2>1. SUFFICES ASSUME NEW k \in DOMAIN later, NEW j \in DOMAIN later[k], Acting(later[k][j])
                 PROVE  later[k][j].n \in 1..MaxOrders
    BY DEF OnceInv, Waiting
  <2>2. later[k][j] \in Event
    <3>1. later \in Seq(Seq(Event))
      BY DEF TypeInv, TypeOK
    <3>2. later[k] \in Seq(Event)
      BY <3>1, LenProperties, ElementOfSeq
    <3>3. QED
      BY <3>2, LenProperties, ElementOfSeq
  <2>3. QED
    BY <2>1, <2>2, ActingIs
<1>8. \A i \in 1..Len(st.events) : st.events # <<>> /\ Acting(st.events[i]) /\ Acting(e) /\ e.n = st.events[i].n => i = 1
  BY <1>1 DEF Adds, e
<1>9. Waiting'
  <2>1. SUFFICES ASSUME NEW k \in DOMAIN later', NEW m \in DOMAIN later'[k], Acting(later'[k][m])
                 PROVE  later'[k][m].n \in claimed' /\ acted'[later'[k][m].n] = 0
    BY DEF Waiting
  <2>2. CASE k \in DOMAIN later /\ later'[k] = later[k]
    <3> DEFINE f == later[k][m]
    <3>1. f.n \in claimed /\ acted[f.n] = 0 /\ f.n \in 1..MaxOrders
      BY <1>7, <2>1, <2>2
    <3>2. st.events # <<>> /\ Acting(e) => e.n # f.n
      BY <1>1, <1>4, <3>1 DEF e
    <3>3. acted'[f.n] = 0
      BY <1>5, <3>1, <3>2
    <3>4. QED
      BY <1>3, <2>2, <3>1, <3>3
  <2>3. CASE m \in Nat \ {0} /\ m + 1 \in 1..Len(st.events) /\ later'[k][m] = st.events[m + 1]
    <3> DEFINE f == st.events[m + 1]
    <3>1. Acting(f) /\ f.n \in claimed' /\ acted[f.n] = 0 /\ f.n \in 1..MaxOrders
      BY <1>4, <2>1, <2>3
    <3>2. m + 1 # 1
      BY <2>3
    <3>3. st.events # <<>> /\ Acting(e) => e.n # f.n
      BY <1>8, <2>3, <3>1, <3>2
    <3> HIDE DEF f
    <3>4. acted'[f.n] = 0
      BY <1>5, <3>1, <3>3
    <3>5. QED
      BY <2>3, <3>1, <3>4 DEF f
  <2>4. QED
    BY <1>2, <2>2, <2>3
<1>10. Alone'
  <2>1. SUFFICES ASSUME NEW i \in DOMAIN later', NEW k \in DOMAIN later',
                        NEW j \in DOMAIN later'[i], NEW m \in DOMAIN later'[k],
                        Acting(later'[i][j]), Acting(later'[k][m]), later'[i][j].n = later'[k][m].n
                 PROVE  i = k /\ j = m
    BY DEF Alone
  <2> DEFINE Old(x) == x \in DOMAIN later /\ later'[x] = later[x]
             New(x, y) == /\ x = old + 1 /\ y \in Nat \ {0} /\ y + 1 \in 1..Len(st.events)
                          /\ later'[x][y] = st.events[y + 1]
  <2>2. (Old(i) \/ New(i, j)) /\ (Old(k) \/ New(k, m))
    BY <1>2
  <2>3. CASE Old(i) /\ Old(k)
    BY <2>1, <2>3 DEF OnceInv, Alone
  <2>4. CASE Old(i) /\ New(k, m)
    <3>1. later'[i][j].n \in claimed
      BY <1>7, <2>1, <2>4
    <3>2. later'[k][m].n \notin claimed
      BY <1>4, <2>1, <2>4
    <3>3. QED
      BY <2>1, <3>1, <3>2
  <2>5. CASE New(i, j) /\ Old(k)
    <3>1. later'[k][m].n \in claimed
      BY <1>7, <2>1, <2>5
    <3>2. later'[i][j].n \notin claimed
      BY <1>4, <2>1, <2>5
    <3>3. QED
      BY <2>1, <3>1, <3>2
  <2>6. CASE New(i, j) /\ New(k, m)
    <3>1. j + 1 = m + 1
      BY <1>1, <2>1, <2>6 DEF Adds
    <3>2. QED
      BY <2>6, <3>1
  <2>7. QED
    BY <2>2, <2>3, <2>4, <2>5, <2>6
<1>11. QED
  BY <1>6, <1>9, <1>10 DEF OnceInv

LEMMA NextOnce == TypeInv /\ OnceInv /\ [Next]_vars => OnceInv'
<1> SUFFICES ASSUME TypeInv, OnceInv, [Next]_vars PROVE OnceInv'
  OBVIOUS
<1>1. ASSUME UNCHANGED <<later, acted, claimed>> PROVE OnceInv'
  BY <1>1 DEF OnceInv, Counted, Waiting, Alone
<1>2. CASE OnTelegram
  BY <1>2, OnTelegramOnce
<1>3. CASE \E i \in DOMAIN later : PublishNext(i)
  BY <1>3, PublishNextOnce
<1>4. CASE UNCHANGED vars
  BY <1>1, <1>4 DEF vars, orderVars, publishedVars, sentVars
<1>5. CASE \E dp \in Dp, val \in Value : DirectWrite(dp, val)
  BY <1>1, <1>5 DEF DirectWrite, orderVars, publishedVars, sentVars
<1>6. CASE RouteWrite
  BY <1>1, <1>6 DEF RouteWrite, publishedVars, sentVars
<1>7. CASE \E i \in DOMAIN writing : WriteRow(i)
  BY <1>1, <1>7 DEF WriteRow, orderVars, publishedVars, sentVars
<1>8. CASE Transmit \/ SendFails
  BY <1>1, <1>8 DEF Transmit, SendFails, orderVars, publishedVars, sentVars
<1>9. CASE \E o \in owed : Feedback(o)
  BY <1>1, <1>9 DEF Feedback, orderVars, publishedVars, sentVars
<1>10. CASE \E ga \in Ga, raw \in Raw : Foreign(ga, raw)
  BY <1>1, <1>10 DEF Foreign, orderVars, publishedVars, sentVars
<1>11. CASE \E b \in Binding : \E c \in Options[b] \cup {NoConfig} : Rebind(b, c)
  BY <1>1, <1>11 DEF Rebind, orderVars, publishedVars, sentVars
<1>12. CASE Reload
  BY <1>1, <1>12 DEF Reload, orderVars, publishedVars, sentVars
<1>13. CASE \E k \in 1..clock : ExpireEchoes(k) \/ ExpireStates(k)
  BY <1>1, <1>13 DEF ExpireEchoes, ExpireStates, orderVars, publishedVars, sentVars
<1>14. QED
  BY <1>2, <1>3, <1>4, <1>5, <1>6, <1>7, <1>8, <1>9, <1>10, <1>11, <1>12, <1>13 DEF Next

(* At most one confirmation of a command triggers actions, however many    *)
(* bindings and addresses confirm it and whatever is reloaded, lost or     *)
(* expires in between (ActionToken.claim and                               *)
(* suppress_actions_at_confirmation in obs/adapters/base.py).              *)
THEOREM ActsOnce == Spec => []ActionsAtMostOnce
<1>1. OnceInv => ActionsAtMostOnce
  BY DEF OnceInv, Counted, ActionsAtMostOnce
<1>2. QED
  BY <1>1, InitTypes, NextTypes, InitOnce, NextOnce, PTL DEF Spec

-----------------------------------------------------------------------------
(* Confirmations in the order of the commands.                             *)

(* What a binding may ever be set to.  Bindings that share an address are  *)
(* of one data point, and no binding's state address is, in another of its *)
(* settings, its command address.                                          *)
Settings(b) == (Options[b] \cup {InitConfig[b]}) \ {NoConfig}
Tidy ==
    /\ \A a, b \in Binding : \A c \in Settings(a), d \in Settings(b) :
          {c.cmd, c.state} \cap {d.cmd, d.state} \cap Ga # {} => c.dp = d.dp
    /\ \A b \in Binding : \A c, d \in Settings(b) : c.state # d.cmd

(* Every write on its way is of a command already numbered, for a setting  *)
(* of its binding; what waits to be published confirms nothing; and no     *)
(* confirmation is ahead of the newest activated command.                  *)
Issued(w) == w.c \in Settings(w.b) /\ w.n <= seq
Configured == \A b \in Binding : {stored[b], loaded[b]} \subseteq Settings(b) \cup {NoConfig}
Numbered ==
    /\ \A i \in DOMAIN writing : \A j \in DOMAIN writing[i] : Issued(writing[i][j])
    /\ \A i \in DOMAIN outbox : Issued(outbox[i])
Expecting == \A e \in recent : Issued(e.w) /\ e.ga \in {e.w.c.cmd, e.w.c.state}
Echo(tel) == tel.out = TRUE => tel.origin \in Write /\ tel.ga = tel.origin.c.cmd
Echoes == \A i \in DOMAIN inbox : Echo(inbox[i])
NoneLater == \A i \in DOMAIN later : \A j \in DOMAIN later[i] : later[i][j].n = 0
Behind == \A d \in Dp : confirmed[d] <= latest[d] /\ latest[d] <= seq
OrderInv == Configured /\ Numbered /\ Expecting /\ Echoes /\ NoneLater /\ Behind

(* All who hear an address are of one data point.                          *)
LEMMA OneDataPoint ==
    ASSUME Tidy, TypeOK, Configured, NEW ga \in Ga, NEW a \in Listeners(ga), NEW b \in Listeners(ga)
    PROVE  loaded[a].dp = loaded[b].dp
<1>1. /\ a \in Binding /\ loaded[a] \in Configs /\ ga \in {loaded[a].cmd, loaded[a].state}
      /\ b \in Binding /\ loaded[b] \in Configs /\ ga \in {loaded[b].cmd, loaded[b].state}
  BY ListenerIs
<1>2. loaded[a] # NoConfig /\ loaded[b] # NoConfig
  BY <1>1, ConfigAssumption
<1>3. loaded[a] \in Settings(a) /\ loaded[b] \in Settings(b)
  BY <1>1, <1>2 DEF Configured
<1>4. {loaded[a].cmd, loaded[a].state} \cap {loaded[b].cmd, loaded[b].state} \cap Ga # {}
  BY <1>1
<1>5. QED
  BY <1>1, <1>3, <1>4 DEF Tidy

(* What a binding consumes answers a command of its data point, and the    *)
(* telegram is then known to be an answer.                                 *)
LEMMA ConsumedIsLocal ==
    ASSUME Tidy, TypeOK, Configured, Expecting, NEW tel \in Telegram, Echo(tel), NEW b \in Listeners(tel.ga),
           NEW st \in HandlerState, st.recent \subseteq recent, NEW e \in Consumable(tel, b, st)
    PROVE  /\ e.w \in Write /\ e.w.n \in Nat \ {0} /\ e.w.c.dp = loaded[b].dp /\ loaded[b].dp \in LocalDps(tel)
           /\ tel.out = TRUE => b = tel.origin.b
           /\ tel.out # TRUE => loaded[b].dp \notin st.done
<1>1. /\ e \in recent /\ e.w \in Write /\ e.ga = tel.ga /\ e.w.b = b /\ Encode[e.w.val] = tel.raw
      /\ tel.out = TRUE => Owned(tel) /\ e.w = tel.origin
      /\ tel.out # TRUE => loaded[b].dp \notin st.done /\ loaded[b].state = tel.ga
  <2>1. e \in st.recent /\ e.ga = tel.ga /\ e.w.b = b /\ Encode[e.w.val] = tel.raw
    BY DEF Consumable, Newest, Matching
  <2>2. e.w \in Write
    BY <2>1 DEF HandlerState, RecentOf
  <2>3. /\ tel.out = TRUE => Owned(tel) /\ e.w = tel.origin
        /\ tel.out # TRUE => loaded[b].dp \notin st.done /\ loaded[b].state = tel.ga
    BY DEF Consumable
  <2>4. QED
    BY <2>1, <2>2, <2>3
<1>2. e.w.n \in Nat \ {0} /\ e.w.c \in Configs
  BY <1>1, WriteIs
<1>3. b \in Binding /\ loaded[b] \in Configs /\ tel.ga \in {loaded[b].cmd, loaded[b].state} /\ tel.ga \in Ga
  BY ListenerIs DEF Telegram
<1>4. loaded[b] \in Settings(b)
  BY <1>3, ConfigAssumption DEF Configured
<1>5. e.w.c \in Settings(b) /\ tel.ga \in {e.w.c.cmd, e.w.c.state}
  BY <1>1 DEF Expecting, Issued
<1>6. e.w.c.dp = loaded[b].dp
  BY <1>3, <1>4, <1>5 DEF Tidy
<1>7. e \in Matching(recent, tel)
  BY <1>1 DEF Matching
<1>8. CASE tel.out = TRUE
  <2>1. Owned(tel) /\ tel.ga = e.w.c.cmd /\ b = tel.origin.b
    BY <1>1, <1>8 DEF Echo
  <2>2. loaded[b].dp \in LocalDps(tel)
    BY <1>6, <1>7, <1>8, <2>1 DEF LocalDps
  <2>3. QED
    BY <1>1, <1>2, <1>6, <1>8, <2>1, <2>2
<1>9. CASE tel.out # TRUE
  <2>1. tel.ga = loaded[b].state
    BY <1>1, <1>9
  <2>2. tel.ga # e.w.c.cmd
    BY <1>3, <1>4, <1>5, <2>1 DEF Tidy
  <2>3. tel.ga = e.w.c.state
    BY <1>5, <2>2
  <2>4. tel.out = FALSE
    BY <1>9 DEF Telegram
  <2>5. loaded[b].dp \in LocalDps(tel)
    BY <1>6, <1>7, <2>3, <2>4 DEF LocalDps
  <2>6. QED
    BY <1>1, <1>2, <1>6, <1>9, <2>5
<1>10. QED
  BY <1>8, <1>9

(* One telegram is either an answer, of which at most one confirmation is  *)
(* published and nothing else, or it confirms nothing.  i: the entries     *)
(* that have been handled.                                                 *)
Expected(tel) == \E b \in Listeners(tel.ga) : loaded[b].dp \in LocalDps(tel)
Confirmed(tel, st, i) ==
    /\ Len(st.events) = 1
    /\ st.events[1].dp \in Dp /\ st.events[1].n # 0
    /\ latest[st.events[1].dp] <= st.events[1].n /\ st.events[1].n <= st.latest[st.events[1].dp]
    /\ tel.out = TRUE => \E j \in 1..i : Entries(tel)[j] = tel.origin.b
    /\ tel.out # TRUE => \A b \in Listeners(tel.ga) : loaded[b].dp \in st.done
Single(tel, st, i) ==
    /\ Adds(st)
    /\ \A d \in Dp : st.latest[d] <= seq
    /\ IF Expected(tel) THEN st.events = <<>> \/ Confirmed(tel, st, i)
       ELSE \A k \in 1..Len(st.events) : st.events[k].n = 0

(* Before its first entry the handler has published nothing.               *)
LEMMA UntouchedSingle ==
    ASSUME TypeOK, Behind, NEW tel
    PROVE  Single(tel, Untouched, 0)
<1>1. Untouched.events = <<>> /\ Untouched.latest = latest
  BY DEF Untouched
<1>2. Len(<<>>) = 0 /\ 1..0 = {}
  BY EmptySeq
<1>3. QED
  BY <1>1, <1>2, UntouchedAdds DEF Single, Behind

(* A second confirmation is impossible: an echo has one owner, a feedback  *)
(* is done after the first.                                                *)
LEMMA EntrySingle ==
    ASSUME Tidy, TypeOK, Configured, Expecting, NEW tel \in Telegram, Echo(tel), NEW i \in 1..Len(Entries(tel)),
           NEW st, Single(tel, st, i - 1)
    PROVE  Single(tel, HandleEntry(tel, Entries(tel)[i], st), i)
<1> DEFINE b == Entries(tel)[i]
           next == HandleEntry(tel, b, st)
<1> SUFFICES Single(tel, next, i)
  OBVIOUS
<1>1. /\ b \in Listeners(tel.ga) /\ i \in Nat /\ Len(Entries(tel)) \in Nat
      /\ \A j \in 1..(i - 1) : Entries(tel)[j] # b
  BY EntriesAre
<1> HIDE DEF b
<1>2. Adds(st) /\ st \in HandlerState /\ st.recent \subseteq recent /\ st.events \in Seq(Event) /\ Len(st.events) \in Nat
  BY LenProperties DEF Single, Adds, HandlerState
<1>3. /\ Adds(next)
      /\ \A d \in Dp : next.latest[d] >= st.latest[d]
      /\ \A d \in Dp : next.latest[d] = st.latest[d] \/ \E f \in st.recent : next.latest[d] = f.w.n
      /\ Skips(st, next) \/ Renews(tel, b, st, next) \/ Confirms(tel, b, st, next)
  <2>1. Adds(next)
    BY <1>1, <1>2, EntryAdds
  <2>2. \A d \in Dp : next.latest[d] >= st.latest[d]
    BY <1>1, <1>2, EntryDoes
  <2>3. \A d \in Dp : next.latest[d] = st.latest[d] \/ \E f \in st.recent : next.latest[d] = f.w.n
    BY <1>1, <1>2, EntryActivates
  <2>4. Skips(st, next) \/ Renews(tel, b, st, next) \/ Confirms(tel, b, st, next)
    BY <1>1, <1>2, EntryDoes
  <2>5. QED
    BY <2>1, <2>2, <2>3, <2>4
<1> HIDE DEF next
<1>4. \A d \in Dp : next.latest[d] <= seq
  BY <1>2, <1>3 DEF Single, Expecting, Issued
<1>5. \A d \in Dp : next.latest[d] \in Nat /\ st.latest[d] \in Nat /\ latest[d] \in Nat
  BY <1>2, <1>3, BoundAssumption DEF Adds, HandlerState, TypeOK
<1>6. ASSUME Confirmed(tel, st, i - 1), next.events = st.events, next.done = st.done
      PROVE  Confirmed(tel, next, i)
  <2>1. \A n \in Nat : n <= st.latest[st.events[1].dp] => n <= next.latest[st.events[1].dp]
    BY <1>3, <1>5, <1>6 DEF Confirmed
  <2>2. st.events[1].n \in Nat
    <3>1. st.events[1] \in Event
      BY <1>2, <1>6, ElementOfSeq DEF Confirmed
    <3>2. QED
      BY <3>1, BoundAssumption DEF Event
  <2>3. \A j \in 1..(i - 1) : j \in 1..i
    BY <1>1
  <2>4. QED
    BY <1>6, <2>1, <2>2, <2>3 DEF Confirmed
<1>7. CASE Skips(st, next)
  BY <1>3, <1>4, <1>6, <1>7 DEF Skips, Single
<1>8. CASE Renews(tel, b, st, next)
  <2>1. loaded[b].dp \notin LocalDps(tel)
    BY <1>8 DEF Renews
  <2>2. ~Expected(tel)
    <3>1. tel.ga \in Ga
      BY DEF Telegram
    <3>2. \A a \in Listeners(tel.ga) : loaded[a].dp = loaded[b].dp
      BY <1>1, <3>1, OneDataPoint
    <3>3. QED
      BY <2>1, <3>2 DEF Expected
  <2>3. NewValue(tel, b) \in Event /\ NewValue(tel, b).n = 0
    BY <1>1, EventTyped
  <2>4. /\ Len(next.events) = Len(st.events) + 1
        /\ \A k \in 1..Len(st.events) : next.events[k] = st.events[k]
        /\ next.events[Len(st.events) + 1] = NewValue(tel, b)
    BY <1>2, <1>8, <2>3, AppendProperties DEF Renews
  <2>5. \A k \in 1..Len(next.events) : k \in 1..Len(st.events) \/ k = Len(st.events) + 1
    BY <1>2, <2>4
  <2>6. \A k \in 1..Len(next.events) : next.events[k].n = 0
    BY <2>2, <2>3, <2>4, <2>5 DEF Single
  <2>7. QED
    BY <1>3, <1>4, <2>2, <2>6 DEF Single
<1>9. CASE Confirms(tel, b, st, next)
  <2>1. PICK e \in Consumable(tel, b, st) :
           /\ next.events = Append(st.events, Confirmation(tel, b, e.w, Acts(e.w, st.claimed)))
           /\ next.done = st.done \cup {loaded[b].dp}
           /\ e.w.n >= st.latest[e.w.c.dp] /\ e.w.n <= next.latest[e.w.c.dp]
    BY <1>9 DEF Confirms
  <2> DEFINE new == Confirmation(tel, b, e.w, Acts(e.w, st.claimed))
  <2>2. /\ e.w \in Write /\ e.w.n \in Nat \ {0} /\ e.w.c.dp = loaded[b].dp /\ loaded[b].dp \in LocalDps(tel)
        /\ tel.out = TRUE => b = tel.origin.b
        /\ tel.out # TRUE => loaded[b].dp \notin st.done
    BY <1>1, <1>2, ConsumedIsLocal
  <2>3. Expected(tel)
    BY <1>1, <2>2 DEF Expected
  <2>4. st.events = <<>>
    <3>1. st.events = <<>> \/ Confirmed(tel, st, i - 1)
      BY <2>3 DEF Single
    <3>2. SUFFICES ASSUME Confirmed(tel, st, i - 1) PROVE FALSE
      BY <3>1
    <3>3. CASE tel.out = TRUE
      BY <1>1, <2>2, <3>2, <3>3 DEF Confirmed
    <3>4. CASE tel.out # TRUE
      BY <1>1, <2>2, <3>2, <3>4 DEF Confirmed
    <3>5. QED
      BY <3>3, <3>4
  <2>5. new \in Event /\ new.n = e.w.n /\ new.dp = loaded[b].dp
    <3>1. e.w.direct \in BOOLEAN
      BY <2>2, WriteIs
    <3>2. Acts(e.w, st.claimed) \in BOOLEAN
      BY <3>1 DEF Acts
    <3>3. QED
      BY <1>1, <2>2, <3>2, EventTyped
  <2>6. next.events = Append(<<>>, new)
    BY <2>1, <2>4
  <2> HIDE DEF new
  <2>7. Len(next.events) = 1 /\ next.events[1] = new
    BY <2>5, <2>6
  <2>8. loaded[b].dp \in Dp
    BY <1>1, ListenerIs
  <2>9. latest[new.dp] <= new.n /\ new.n <= next.latest[new.dp]
    <3>1. st.latest[loaded[b].dp] >= latest[loaded[b].dp]
      BY <1>2, <2>8 DEF Adds
    <3>2. QED
      BY <1>5, <2>1, <2>2, <2>5, <2>8, <3>1
  <2>10. tel.out = TRUE => \E j \in 1..i : Entries(tel)[j] = tel.origin.b
    BY <1>1, <2>2 DEF b
  <2>11. \A a \in Listeners(tel.ga) : loaded[a].dp \in next.done
    <3>1. tel.ga \in Ga
      BY DEF Telegram
    <3>2. \A a \in Listeners(tel.ga) : loaded[a].dp = loaded[b].dp
      BY <1>1, <3>1, OneDataPoint
    <3>3. QED
      BY <2>1, <3>2
  <2>12. Confirmed(tel, next, i)
    BY <2>2, <2>5, <2>7, <2>8, <2>9, <2>10, <2>11 DEF Confirmed
  <2>13. QED
    BY <1>3, <1>4, <2>3, <2>12 DEF Single
<1>10. QED
  BY <1>3, <1>7, <1>8, <1>9

(* So a handler confirms at most once, and then publishes nothing else.    *)
LEMMA HandledSingle ==
    ASSUME Tidy, TypeOK, Configured, Expecting, Behind, NEW tel \in Telegram, Echo(tel)
    PROVE  Single(tel, Handled(tel), Len(Entries(tel)))
<1>1. PICK h : Steps(tel, h) /\ Handled(tel) = h[Len(Entries(tel))]
  BY HandledBySteps
<1> DEFINE n == Len(Entries(tel))
           G == [i \in 0..n |-> {st \in HandlerState : Single(tel, st, i)}]
<1>2. n \in Nat
  BY EntriesAre
<1>3. \A st, i : Single(tel, st, i) => st \in HandlerState
  BY DEF Single, Adds
<1>4. Untouched \in G[0]
  BY <1>2, <1>3, UntouchedSingle
<1>5. ASSUME NEW i \in 1..n, NEW st \in G[i - 1]
      PROVE  HandleEntry(tel, Entries(tel)[i], st) \in G[i]
  <2>1. i - 1 \in 0..n /\ i \in 0..n
    BY <1>2
  <2>2. Single(tel, st, i - 1)
    BY <2>1, <1>5
  <2>3. Single(tel, HandleEntry(tel, Entries(tel)[i], st), i)
    BY <2>2, EntrySingle
  <2>4. QED
    BY <1>3, <2>1, <2>3
<1>6. n \in 0..n
  BY <1>2
<1> HIDE DEF G
<1>7. h[n] \in G[n]
  BY <1>1, <1>4, <1>5, StepsKeep
<1>8. QED
  BY <1>1, <1>6, <1>7 DEF G

LEMMA InitOrder == Init => OrderInv
<1> SUFFICES ASSUME Init PROVE OrderInv
  OBVIOUS
<1>1. Configured
  BY DEF Init, Configured, Settings
<1>2. Numbered /\ Echoes /\ NoneLater
  <2>1. DOMAIN writing = {} /\ DOMAIN outbox = {} /\ DOMAIN inbox = {} /\ DOMAIN later = {}
    BY DEF Init
  <2>2. QED
    BY <2>1 DEF Numbered, Echoes, NoneLater
<1>3. Expecting /\ Behind
  BY DEF Init, Expecting, Behind
<1>4. QED
  BY <1>1, <1>2, <1>3 DEF OrderInv

(* A publication moves the mark of its own data point only.                *)
LEMMA PublishConfirms ==
    ASSUME TypeOK, NEW e \in Event, Publish(e)
    PROVE  \A d \in Dp : confirmed'[d] = IF e.n # 0 /\ d = e.dp THEN e.n ELSE confirmed[d]
<1>1. confirmed \in [Dp -> 0..MaxOrders] /\ e.dp \in Dp
  BY DEF TypeOK, Event
<1>2. CASE e.n = 0
  BY <1>2 DEF Publish
<1>3. CASE e.n # 0
  <2>1. confirmed' = [confirmed EXCEPT ![e.dp] = e.n]
    BY <1>3 DEF Publish
  <2>2. QED
    BY <1>1, <1>3, <2>1
<1>4. QED
  BY <1>2, <1>3

(* The marks can be compared.                                              *)
LEMMA MarksAreNumbers ==
    ASSUME TypeOK
    PROVE  seq \in Nat /\ \A d \in Dp : confirmed[d] \in Nat /\ latest[d] \in Nat
BY BoundAssumption DEF TypeOK

(* The handler publishes a confirmation that is not behind, and leaves     *)
(* none for later.                                                         *)
LEMMA OnTelegramOrder ==
    ASSUME Tidy, TypeInv, OrderInv, OnTelegram
    PROVE  OrderInv' /\ \A d \in Dp : confirmed'[d] >= confirmed[d]
<1> DEFINE tel == Head(inbox)
           st == Handled(tel)
<1>1. TypeOK /\ Configured /\ Numbered /\ Expecting /\ Echoes /\ NoneLater /\ Behind
  BY DEF TypeInv, OrderInv
<1>2. inbox \in Seq(Telegram) /\ inbox # <<>> /\ inbox' = Tail(inbox) /\ tel \in Telegram
  BY <1>1, HeadTailProperties DEF TypeOK, OnTelegram
<1>3. Echo(tel) /\ Echoes'
  <2>1. /\ DOMAIN inbox = 1..Len(inbox) /\ Len(inbox) \in Nat \ {0} /\ tel = inbox[1]
        /\ Tail(inbox) \in Seq(Telegram) /\ Len(Tail(inbox)) = Len(inbox) - 1
        /\ \A i \in 1..Len(Tail(inbox)) : Tail(inbox)[i] = inbox[i + 1]
    BY <1>2, HeadTailProperties, LenProperties, EmptySeq
  <2> DEFINE t == Tail(inbox)
             l == Len(inbox)
  <2>2. /\ DOMAIN inbox = 1..l /\ l \in Nat \ {0} /\ tel = inbox[1] /\ Len(t) = l - 1
        /\ \A i \in 1..Len(t) : t[i] = inbox[i + 1]
        /\ DOMAIN t = 1..Len(t) /\ inbox' = t
    BY <1>2, <2>1, LenProperties
  <2> HIDE DEF t, l, tel
  <2>3. Echo(tel)
    BY <1>1, <2>2 DEF Echoes
  <2>4. \A i \in DOMAIN t : i + 1 \in DOMAIN inbox /\ t[i] = inbox[i + 1]
    BY <2>2
  <2>5. \A i \in DOMAIN inbox' : Echo(inbox'[i])
    BY <1>1, <2>2, <2>4 DEF Echoes
  <2>6. QED
    BY <2>3, <2>5 DEF Echoes, Echo
<1>4. Single(tel, st, Len(Entries(tel)))
  BY <1>1, <1>2, <1>3, HandledSingle
<1>5. /\ Adds(st) /\ st.events \in Seq(Event) /\ Len(st.events) \in Nat
      /\ latest' = st.latest
      /\ st.events = <<>> => UNCHANGED <<publishedVars, routing, later>>
      /\ st.events # <<>> => 1 \in 1..Len(st.events) /\ st.events[1] \in Event /\ Publish(st.events[1])
  BY OnTelegramLeaves
<1>6. \A k \in DOMAIN later' :
         \/ k \in DOMAIN later /\ later'[k] = later[k]
         \/ /\ k = Len(later) + 1
            /\ \A m \in DOMAIN later'[k] :
                  m \in Nat \ {0} /\ m + 1 \in 1..Len(st.events) /\ later'[k][m] = st.events[m + 1]
  BY OnTelegramLeaves
<1>7. /\ recent' = st.recent
      /\ UNCHANGED <<stored, loaded, writing, seq, outbox, pending, sentVars, counts>>
  BY DEF OnTelegram
<1> HIDE DEF st, tel
<1>8. \A k \in 1..Len(st.events) : st.events[k].n = 0 \/ (k = 1 /\ Len(st.events) = 1)
  <2>1. CASE Expected(tel)
    <3>1. st.events = <<>> \/ Len(st.events) = 1
      BY <1>4, <2>1 DEF Single, Confirmed
    <3>2. \A k \in 1..1 : k = 1
      OBVIOUS
    <3>3. CASE st.events = <<>>
      BY <3>3, EmptySeq
    <3>4. CASE Len(st.events) = 1
      BY <3>2, <3>4
    <3>5. QED
      BY <3>1, <3>3, <3>4
  <2>2. CASE ~Expected(tel)
    BY <1>4, <2>2 DEF Single
  <2>3. QED
    BY <2>1, <2>2
<1>9. NoneLater'
  <2>1. SUFFICES ASSUME NEW k \in DOMAIN later', NEW m \in DOMAIN later'[k] PROVE later'[k][m].n = 0
    BY DEF NoneLater
  <2>2. CASE k \in DOMAIN later /\ later'[k] = later[k]
    BY <1>1, <2>1, <2>2 DEF NoneLater
  <2>3. CASE m \in Nat \ {0} /\ m + 1 \in 1..Len(st.events) /\ later'[k][m] = st.events[m + 1]
    <3>1. m + 1 # 1
      BY <2>3
    <3>2. QED
      BY <1>8, <2>3, <3>1
  <2>4. QED
    BY <1>6, <2>2, <2>3
<1>10. seq \in Nat /\ \A d \in Dp : confirmed[d] \in Nat /\ latest[d] \in Nat /\ st.latest[d] \in Nat
  <2>1. st.latest \in [Dp -> 0..MaxOrders]
    BY <1>5 DEF Adds, HandlerState
  <2>2. QED
    BY <1>1, <2>1, MarksAreNumbers, BoundAssumption
<1>11. \A d \in Dp : latest[d] <= st.latest[d] /\ st.latest[d] <= seq
  BY <1>4, <1>5, <1>10 DEF Adds, Single
<1>12. \A d \in Dp : confirmed'[d] \in Nat /\ confirmed'[d] >= confirmed[d] /\ confirmed'[d] <= st.latest[d]
  <2>1. SUFFICES ASSUME NEW d \in Dp
                 PROVE  confirmed'[d] \in Nat /\ confirmed'[d] >= confirmed[d] /\ confirmed'[d] <= st.latest[d]
    OBVIOUS
  <2>2. confirmed[d] <= latest[d] /\ latest[d] <= st.latest[d]
    BY <1>1, <1>11 DEF Behind
  <2>3. CASE confirmed'[d] = confirmed[d]
    BY <1>10, <2>2, <2>3
  <2>4. CASE st.events # <<>> /\ st.events[1].n # 0 /\ d = st.events[1].dp /\ confirmed'[d] = st.events[1].n
    <3>1. Expected(tel)
      BY <1>4, <1>5, <2>4 DEF Single
    <3>2. latest[d] <= st.events[1].n /\ st.events[1].n <= st.latest[d]
      BY <1>4, <2>4, <3>1 DEF Single, Confirmed
    <3>3. st.events[1].n \in Nat
      BY <1>5, <2>4, BoundAssumption DEF Event
    <3>4. QED
      BY <1>10, <2>2, <2>4, <3>2, <3>3
  <2>5. confirmed'[d] = confirmed[d]
        \/ (st.events # <<>> /\ st.events[1].n # 0 /\ d = st.events[1].dp /\ confirmed'[d] = st.events[1].n)
    <3>1. CASE st.events = <<>>
      BY <1>5, <3>1 DEF publishedVars, sentVars
    <3>2. CASE st.events # <<>>
      BY <1>1, <1>5, <3>2, PublishConfirms
    <3>3. QED
      BY <3>1, <3>2
  <2>6. QED
    BY <2>3, <2>4, <2>5
<1>13. Behind'
  BY <1>5, <1>7, <1>11, <1>12 DEF Behind
<1>14. Expecting'
  <2>1. recent' \subseteq recent
    BY <1>5, <1>7 DEF Adds
  <2>2. QED
    BY <1>1, <1>7, <2>1 DEF Expecting, Issued
<1>15. Configured' /\ Numbered'
  BY <1>1, <1>7 DEF Configured, Numbered, Issued
<1>16. QED
  BY <1>3, <1>9, <1>12, <1>13, <1>14, <1>15 DEF OrderInv

(* What waited confirms nothing.                                           *)
LEMMA PublishNextOrder ==
    ASSUME TypeInv, OrderInv, NEW i \in DOMAIN later, PublishNext(i)
    PROVE  OrderInv' /\ confirmed' = confirmed
<1>1. TypeOK /\ later \in Seq(Seq(Event)) /\ Nonempty(later)
  BY DEF TypeInv, Busy, TypeOK
<1>2. later[i] \in Seq(Event) /\ later[i] # <<>>
  BY <1>1, LenProperties, ElementOfSeq DEF Nonempty
<1>3. Head(later[i]) = later[i][1] /\ 1 \in DOMAIN later[i]
  <2>1. Len(later[i]) \in Nat \ {0}
    BY <1>2, EmptySeq
  <2>2. QED
    BY <1>2, <2>1, LenProperties
<1>4. later[i][1].n = 0
  BY <1>3 DEF OrderInv, NoneLater
<1>5. confirmed' = confirmed
  BY <1>3, <1>4 DEF PublishNext, Publish
<1>6. later' = Rest(later, i)
  BY DEF PublishNext, Rest
<1>7. NoneLater'
  BY <1>1, <1>6, RestIs DEF OrderInv, NoneLater
<1>8. UNCHANGED <<stored, loaded, writing, orderVars, outbox, adapterVars, inbox, sentVars, counts>>
  BY DEF PublishNext
<1>9. QED
  BY <1>5, <1>7, <1>8
     DEF OrderInv, Configured, Numbered, Expecting, Echoes, Echo, Behind, Issued, orderVars, adapterVars

(* The router numbers the writes of a command.                             *)
LEMMA RouteWriteOrder ==
    ASSUME TypeInv, OrderInv, RouteWrite
    PROVE  OrderInv' /\ confirmed' = confirmed
<1> DEFINE cmd == Head(routing)
           D == Destinations(cmd.dp) \ {cmd.skip}
           rows == Ordered(D)
           n == seq + 1
           group == [i \in DOMAIN rows |-> Command(cmd, n, rows[i])]
<1>1. /\ writing \in Seq(Seq(Write)) /\ latest \in [Dp -> 0..MaxOrders]
      /\ stored \in [Binding -> Configs \cup {NoConfig}] /\ seq \in Nat
      /\ \A d \in Dp : latest[d] \in Nat /\ confirmed[d] \in Nat
  BY MarksAreNumbers DEF TypeInv, TypeOK
<1>2. UNCHANGED <<stored, loaded, claimed, outbox, adapterVars, inbox, later, publishedVars, sentVars, counts>>
  BY DEF RouteWrite
<1>3. confirmed' = confirmed /\ Configured' /\ Echoes' /\ NoneLater'
  BY <1>2 DEF OrderInv, Configured, Echoes, Echo, NoneLater, publishedVars, sentVars
<1>4. CASE Destinations(cmd.dp) = {}
  <2>1. UNCHANGED <<seq, latest, writing>>
    BY <1>4 DEF RouteWrite
  <2>2. QED
    BY <1>2, <1>3, <2>1 DEF OrderInv, Numbered, Expecting, Behind, Issued, adapterVars
<1>5. CASE Destinations(cmd.dp) # {}
  <2>1. /\ seq' = n
        /\ latest' = IF cmd.direct THEN latest ELSE [latest EXCEPT ![cmd.dp] = n]
        /\ writing' = IF rows = <<>> THEN writing ELSE Append(writing, group)
    BY <1>5 DEF RouteWrite
  <2>2. \A w : Issued(w) /\ w.n \in Nat => w.c \in Settings(w.b) /\ w.n <= n
    BY <1>1 DEF Issued
  <2>3. Expecting'
    <3>1. \A e \in recent : Issued(e.w) /\ e.w.n \in Nat /\ e.ga \in {e.w.c.cmd, e.w.c.state}
      <4>1. \A e \in recent : e.w \in Write
        BY DEF TypeInv, TypeOK
      <4>2. QED
        BY <4>1, WriteIs DEF OrderInv, Expecting
    <3>2. QED
      BY <1>2, <2>1, <2>2, <3>1 DEF Expecting, Issued, adapterVars
  <2>4. Behind'
    <3>1. \A d \in Dp : latest'[d] = latest[d] \/ latest'[d] = n
      BY <1>1, <2>1
    <3>2. QED
      BY <1>1, <1>3, <2>1, <3>1 DEF OrderInv, Behind
  <2>5. D \in SUBSET Binding /\ \A b \in D : stored[b] # NoConfig
    BY DEF Destinations
  <2>6. \A b \in D : stored[b] \in Settings(b)
    BY <2>5 DEF OrderInv, Configured
  <2>7. rows \in Seq(D)
    <3>1. IsFiniteSet(Binding) /\ Binding \in SUBSET Nat
      BY BindingAssumption
    <3>2. IsFiniteSet(D) /\ D \in SUBSET Nat
      BY <2>5, <3>1, FS_Subset
    <3>3. QED
      BY <3>2, OrderedIs
  <2>8. DOMAIN rows = 1..Len(rows) /\ Len(rows) \in Nat /\ \A i \in 1..Len(rows) : rows[i] \in D
    BY <2>7, LenProperties, ElementOfSeq
  <2> HIDE DEF rows, n
  <2>9. \A b \in D : LET w == Command(cmd, n, b) IN w.c \in Settings(w.b) /\ w.n = n
    BY <2>6 DEF Command
  <2>10. \A i \in DOMAIN group : group[i].c \in Settings(group[i].b) /\ group[i].n = n
    BY <2>8, <2>9
  <2>11. DOMAIN group = 1..Len(rows)
    BY <2>8
  <2>12. n \in Nat
    BY <1>1 DEF n
  <2> HIDE DEF group, D, cmd
  <2>13. \A i \in DOMAIN writing : \A j \in DOMAIN writing[i] :
            writing[i][j].c \in Settings(writing[i][j].b) /\ writing[i][j].n <= n
    <3>1. SUFFICES ASSUME NEW i \in DOMAIN writing, NEW j \in DOMAIN writing[i]
                   PROVE  writing[i][j].c \in Settings(writing[i][j].b) /\ writing[i][j].n <= n
      OBVIOUS
    <3>2. writing[i] \in Seq(Write)
      BY <1>1, LenProperties, ElementOfSeq
    <3>3. writing[i][j] \in Write
      BY <3>2, LenProperties, ElementOfSeq
    <3>4. writing[i][j].n \in Nat /\ Issued(writing[i][j])
      BY <3>1, <3>3, WriteIs DEF OrderInv, Numbered
    <3>5. QED
      BY <2>2, <3>4
  <2>14. \A i \in DOMAIN writing' : \A j \in DOMAIN writing'[i] :
            writing'[i][j].c \in Settings(writing'[i][j].b) /\ writing'[i][j].n <= n
    <3>1. CASE rows = <<>>
      BY <2>1, <2>13, <3>1
    <3>2. CASE rows # <<>>
      <4>1. /\ DOMAIN writing' = 1..(Len(writing) + 1) /\ DOMAIN writing = 1..Len(writing) /\ Len(writing) \in Nat
            /\ \A i \in 1..Len(writing) : writing'[i] = writing[i]
            /\ writing'[Len(writing) + 1] = group
        BY <1>1, <2>1, <3>2, AppendProperties, LenProperties
      <4>2. \A i \in 1..(Len(writing) + 1) : i \in 1..Len(writing) \/ i = Len(writing) + 1
        BY <4>1
      <4>3. \A i \in DOMAIN writing' : (i \in DOMAIN writing /\ writing'[i] = writing[i]) \/ writing'[i] = group
        BY <4>1, <4>2
      <4>4. n <= n
        BY <2>12
      <4>5. QED
        BY <2>10, <2>13, <4>3, <4>4
    <3>3. QED
      BY <3>1, <3>2
  <2>15. outbox' = outbox /\ seq' = n
    BY <1>2, <2>1
  <2>16. \A i \in DOMAIN outbox : outbox[i].c \in Settings(outbox[i].b) /\ outbox[i].n <= n
    <3>1. \A i \in DOMAIN outbox : outbox[i] \in Write /\ Issued(outbox[i])
      <4>1. outbox \in Seq(Write)
        BY DEF TypeInv, TypeOK
      <4>2. QED
        BY <4>1, LenProperties, ElementOfSeq DEF OrderInv, Numbered
    <3>2. QED
      BY <2>2, <3>1, WriteIs
  <2>17. Numbered'
    BY <2>14, <2>15, <2>16 DEF Numbered, Issued
  <2>18. QED
    BY <1>3, <2>3, <2>4, <2>17 DEF OrderInv
<1>6. QED
  BY <1>4, <1>5

(* A fetched row becomes a telegram in the queue.                          *)
LEMMA WriteRowOrder ==
    ASSUME TypeInv, OrderInv, NEW i \in DOMAIN writing, WriteRow(i)
    PROVE  OrderInv' /\ confirmed' = confirmed
<1>1. writing \in Seq(Seq(Write)) /\ Nonempty(writing) /\ outbox \in Seq(Write)
  BY DEF TypeInv, Busy, TypeOK
<1>2. writing[i] \in Seq(Write) /\ writing[i] # <<>>
  BY <1>1, LenProperties, ElementOfSeq DEF Nonempty
<1>3. Head(writing[i]) = writing[i][1] /\ 1 \in DOMAIN writing[i] /\ writing[i][1] \in Write
  <2>1. Len(writing[i]) \in Nat \ {0}
    BY <1>2, EmptySeq
  <2>2. QED
    BY <1>2, <2>1, LenProperties, ElementOfSeq
<1> DEFINE w == writing[i][1]
<1>4. Issued(w)
  BY <1>3 DEF OrderInv, Numbered
<1>5. outbox' = Append(outbox, w) /\ writing' = Rest(writing, i) /\ seq' = seq
  BY <1>3 DEF WriteRow, Rest, orderVars
<1>6. UNCHANGED <<stored, loaded, routing, orderVars, invalid, owners, recent, tombs, inbox, later, publishedVars,
                  sentVars, counts>>
  BY DEF WriteRow
<1> HIDE DEF w
<1>7. \A k \in DOMAIN writing' : \A m \in DOMAIN writing'[k] : Issued(writing'[k][m])
  BY <1>1, <1>5, RestIs DEF OrderInv, Numbered
<1>8. \A k \in DOMAIN outbox' : Issued(outbox'[k])
  <2>1. w \in Write
    BY <1>3 DEF w
  <2>2. /\ DOMAIN outbox' = 1..(Len(outbox) + 1) /\ DOMAIN outbox = 1..Len(outbox) /\ Len(outbox) \in Nat
        /\ \A k \in 1..Len(outbox) : outbox'[k] = outbox[k]
        /\ outbox'[Len(outbox) + 1] = w
    BY <1>1, <1>5, <2>1, AppendProperties, LenProperties
  <2>3. \A k \in 1..(Len(outbox) + 1) : k \in 1..Len(outbox) \/ k = Len(outbox) + 1
    BY <2>2
  <2>4. QED
    BY <1>4, <2>2, <2>3 DEF OrderInv, Numbered
<1>9. \A x : Issued(x)' <=> x.c \in Settings(x.b) /\ x.n <= seq
  BY <1>5 DEF Issued
<1>10. Numbered'
  BY <1>5, <1>7, <1>8 DEF Numbered, Issued
<1>11. QED
  BY <1>6, <1>10
     DEF OrderInv, Configured, Expecting, Echoes, Echo, NoneLater, Behind, Issued, orderVars, publishedVars, sentVars

(* The queue gives up its head.                                            *)
LEMMA OutboxLeft ==
    ASSUME TypeInv, OrderInv, outbox # <<>>, outbox' = Tail(outbox)
    PROVE  /\ Head(outbox) \in Write /\ Issued(Head(outbox))
           /\ \A k \in DOMAIN outbox' : Issued(outbox'[k])
<1> DEFINE t == Tail(outbox)
           l == Len(outbox)
<1>1. outbox \in Seq(Write)
  BY DEF TypeInv, TypeOK
<1>2. /\ DOMAIN outbox = 1..l /\ l \in Nat \ {0} /\ Head(outbox) = outbox[1] /\ Len(t) = l - 1
      /\ \A k \in 1..Len(t) : t[k] = outbox[k + 1]
      /\ DOMAIN t = 1..Len(t)
  <2>1. /\ Tail(outbox) \in Seq(Write) /\ Len(Tail(outbox)) = Len(outbox) - 1
        /\ \A k \in 1..Len(Tail(outbox)) : Tail(outbox)[k] = outbox[k + 1]
    BY <1>1, HeadTailProperties
  <2>2. DOMAIN outbox = 1..Len(outbox) /\ Len(outbox) \in Nat \ {0} /\ Head(outbox) = outbox[1]
    BY <1>1, LenProperties, EmptySeq
  <2>3. DOMAIN Tail(outbox) = 1..Len(Tail(outbox))
    BY <2>1, LenProperties
  <2>4. QED
    BY <2>1, <2>2, <2>3
<1>3. outbox' = t
  OBVIOUS
<1> HIDE DEF t, l
<1>4. 1 \in DOMAIN outbox /\ \A k \in DOMAIN t : k + 1 \in DOMAIN outbox /\ t[k] = outbox[k + 1]
  BY <1>2
<1>5. \A k \in DOMAIN outbox : outbox[k] \in Write /\ Issued(outbox[k])
  BY <1>1, LenProperties, ElementOfSeq DEF OrderInv, Numbered
<1>6. QED
  BY <1>2, <1>3, <1>4, <1>5

(* The telegram a listener is told of is an echo like any other.           *)
LEMMA ScheduledEchoes ==
    ASSUME TypeOK, Echoes, NEW tel \in Telegram, Echo(tel), inbox' = Scheduled(tel) \/ inbox' = Append(inbox, tel)
    PROVE  Echoes'
<1>1. inbox \in Seq(Telegram)
  BY DEF TypeOK
<1>2. CASE inbox' = inbox
  BY <1>2 DEF Echoes, Echo
<1>3. CASE inbox' = Append(inbox, tel)
  <2>1. /\ DOMAIN inbox' = 1..(Len(inbox) + 1) /\ DOMAIN inbox = 1..Len(inbox) /\ Len(inbox) \in Nat
        /\ \A k \in 1..Len(inbox) : inbox'[k] = inbox[k]
        /\ inbox'[Len(inbox) + 1] = tel
    BY <1>1, <1>3, AppendProperties, LenProperties
  <2>2. \A k \in 1..(Len(inbox) + 1) : k \in 1..Len(inbox) \/ k = Len(inbox) + 1
    BY <2>1
  <2>3. \A k \in DOMAIN inbox' : Echo(inbox'[k])
    BY <2>1, <2>2 DEF Echoes
  <2>4. QED
    BY <2>3 DEF Echoes, Echo
<1>4. QED
  BY <1>2, <1>3 DEF Scheduled

(* A transmitted telegram is expected back on its two addresses.           *)
LEMMA TransmitOrder ==
    ASSUME TypeInv, OrderInv, Transmit
    PROVE  OrderInv' /\ confirmed' = confirmed
<1> DEFINE w == Head(outbox)
           valid == w \in pending /\ ~ \E i \in invalid : i.w = w
           at == clock + 1
           tel == [out |-> TRUE, ga |-> w.c.cmd, raw |-> Encode[w.val], origin |-> w]
           expected == {[w |-> w, ga |-> ga, at |-> at] : ga \in IF valid THEN {w.c.cmd, w.c.state} \ {NoGa} ELSE {}}
<1>1. outbox # <<>> /\ outbox' = Tail(outbox)
  BY DEF Transmit
<1>2. w \in Write /\ Issued(w) /\ \A k \in DOMAIN outbox' : Issued(outbox'[k])
  BY <1>1, OutboxLeft
<1>3. w.c.cmd \in Ga /\ Encode[w.val] \in Raw
  BY <1>2, WriteIs
<1>4. recent' = recent \cup expected /\ inbox' = Scheduled(tel)
  BY DEF Transmit
<1> HIDE DEF w
<1>5. tel \in Telegram /\ Echo(tel)
  BY <1>2, <1>3 DEF Telegram, Echo
<1>6. \A e \in expected : e.w = w /\ e.ga \in {w.c.cmd, w.c.state}
  OBVIOUS
<1> HIDE DEF tel, expected
<1>7. Echoes'
  BY <1>4, <1>5, ScheduledEchoes DEF TypeInv, OrderInv
<1>8. UNCHANGED <<stored, loaded, routing, writing, orderVars, invalid, tombs, later, publishedVars, counts>>
  BY DEF Transmit
<1>9. \A e \in recent' : Issued(e.w) /\ e.ga \in {e.w.c.cmd, e.w.c.state}
  BY <1>2, <1>4, <1>6 DEF OrderInv, Expecting
<1>10. Expecting' /\ Numbered'
  BY <1>2, <1>8, <1>9 DEF OrderInv, Expecting, Numbered, Issued, orderVars
<1>11. QED
  BY <1>7, <1>8, <1>10 DEF OrderInv, Configured, NoneLater, Behind, orderVars, publishedVars, sentVars

LEMMA SendFailsOrder ==
    ASSUME TypeInv, OrderInv, SendFails
    PROVE  OrderInv' /\ confirmed' = confirmed
<1>1. outbox # <<>> /\ outbox' = Tail(outbox)
  BY DEF SendFails
<1>2. \A k \in DOMAIN outbox' : Issued(outbox'[k])
  BY <1>1, OutboxLeft
<1>3. UNCHANGED <<stored, loaded, routing, writing, orderVars, adapterVars, inbox, later, publishedVars,
                  sentVars, counts>>
  BY DEF SendFails
<1>4. QED
  BY <1>2, <1>3 DEF OrderInv, Configured, Numbered, Expecting, Echoes, Echo, NoneLater, Behind, Issued,
                    orderVars, adapterVars, publishedVars, sentVars

(* What another device sends is no echo.                                   *)
LEMMA ReceivedOrder ==
    ASSUME TypeInv, OrderInv, (\E o \in owed : Feedback(o)) \/ (\E ga \in Ga, raw \in Raw : Foreign(ga, raw))
    PROVE  OrderInv' /\ confirmed' = confirmed
<1>1. \E tel \in Telegram : tel.out = FALSE /\ (inbox' = Scheduled(tel) \/ inbox' = Append(inbox, tel))
  <2>1. ASSUME NEW o \in owed, Feedback(o)
        PROVE  \E tel \in Telegram : tel.out = FALSE /\ inbox' = Scheduled(tel)
    <3> DEFINE tel == [out |-> FALSE, ga |-> o.w.c.state, raw |-> Encode[o.w.val], origin |-> o.w]
    <3>1. o.w \in Write /\ o.w.c.state # NoGa
      BY DEF TypeInv, TypeOK, Answered
    <3>2. tel \in Telegram /\ tel.out = FALSE
      BY <3>1, WriteIs DEF Telegram
    <3>3. inbox' = Scheduled(tel)
      BY <2>1 DEF Feedback
    <3> HIDE DEF tel
    <3>4. QED
      BY <3>2, <3>3
  <2>2. ASSUME NEW ga \in Ga, NEW raw \in Raw, Foreign(ga, raw)
        PROVE  \E tel \in Telegram : tel.out = FALSE /\ inbox' = Append(inbox, tel)
    <3> DEFINE tel == [out |-> FALSE, ga |-> ga, raw |-> raw, origin |-> NoWrite]
    <3>1. tel \in Telegram /\ tel.out = FALSE
      BY DEF Telegram
    <3>2. inbox' = Append(inbox, tel)
      BY <2>2 DEF Foreign
    <3> HIDE DEF tel
    <3>3. QED
      BY <3>1, <3>2
  <2>3. QED
    BY <2>1, <2>2
<1>2. Echoes'
  BY <1>1, ScheduledEchoes DEF Echo, TypeInv, OrderInv
<1>3. UNCHANGED <<stored, loaded, routing, writing, orderVars, outbox, adapterVars, later, publishedVars, clock>>
  BY DEF Feedback, Foreign, sentVars
<1>4. QED
  BY <1>2, <1>3
     DEF OrderInv, Configured, Numbered, Expecting, NoneLater, Behind, Issued, orderVars, adapterVars, publishedVars, sentVars

LEMMA RebindOrder ==
    ASSUME TypeInv, OrderInv, NEW b \in Binding, NEW c \in Options[b] \cup {NoConfig}, Rebind(b, c)
    PROVE  OrderInv' /\ confirmed' = confirmed
<1>1. /\ stored' = [stored EXCEPT ![b] = c]
      /\ UNCHANGED <<loaded, routing, writing, orderVars, outbox, adapterVars, inbox, later, publishedVars, sentVars>>
  BY DEF Rebind
<1>2. c \in Settings(b) \cup {NoConfig}
  BY DEF Settings
<1>3. \A a \in Binding : stored'[a] \in Settings(a) \cup {NoConfig} /\ loaded'[a] \in Settings(a) \cup {NoConfig}
  BY <1>1, <1>2 DEF TypeInv, TypeOK, OrderInv, Configured
<1>4. Configured'
  BY <1>3 DEF Configured
<1>5. QED
  BY <1>1, <1>4 DEF OrderInv, Numbered, Expecting, Echoes, Echo, NoneLater, Behind, Issued,
                    orderVars, adapterVars, publishedVars, sentVars

(* A reload takes over what is stored; it and time only forget.            *)
LEMMA ForgetOrder ==
    ASSUME TypeInv, OrderInv, Reload \/ \E k \in 1..clock : ExpireEchoes(k) \/ ExpireStates(k)
    PROVE  OrderInv' /\ confirmed' = confirmed
<1>1. /\ recent' \subseteq recent /\ stored' = stored /\ loaded' \in {stored, loaded}
      /\ UNCHANGED <<routing, writing, orderVars, outbox, inbox, later, publishedVars, clock, strayed, counts>>
  <2>1. CASE Reload
    BY <2>1 DEF Reload, sentVars
  <2>2. CASE \E k \in 1..clock : ExpireEchoes(k)
    BY <2>2 DEF ExpireEchoes, sentVars
  <2>3. CASE \E k \in 1..clock : ExpireStates(k)
    BY <2>3 DEF ExpireStates
  <2>4. QED
    BY <2>1, <2>2, <2>3
<1>2. Configured'
  BY <1>1 DEF OrderInv, Configured
<1>3. QED
  BY <1>1, <1>2
     DEF OrderInv, Numbered, Expecting, Echoes, Echo, NoneLater, Behind, Issued, orderVars, publishedVars, sentVars

LEMMA DirectWriteOrder ==
    ASSUME OrderInv, NEW dp \in Dp, NEW val \in Value, DirectWrite(dp, val)
    PROVE  OrderInv' /\ confirmed' = confirmed
<1>1. UNCHANGED <<stored, loaded, writing, orderVars, outbox, adapterVars, inbox, later, publishedVars, sentVars>>
  BY DEF DirectWrite
<1>2. QED
  BY <1>1 DEF OrderInv, Configured, Numbered, Expecting, Echoes, Echo, NoneLater, Behind, Issued,
              orderVars, adapterVars, publishedVars, sentVars

LEMMA NextOrder ==
    ASSUME Tidy, TypeInv, OrderInv, [Next]_vars
    PROVE  OrderInv' /\ \A d \in Dp : confirmed'[d] >= confirmed[d]
<1>1. \A d \in Dp : confirmed[d] >= confirmed[d]
  <2>1. \A d \in Dp : confirmed[d] \in Nat
    BY MarksAreNumbers DEF TypeInv
  <2>2. QED
    BY <2>1
<1>2. CASE OnTelegram
  BY <1>2, OnTelegramOrder
<1>3. CASE UNCHANGED vars
  BY <1>1, <1>3 DEF vars, OrderInv, Configured, Numbered, Expecting, Echoes, Echo, NoneLater,
     Behind, Issued,
                    orderVars, adapterVars, publishedVars, sentVars
<1>4. CASE \E dp \in Dp, val \in Value : DirectWrite(dp, val)
  BY <1>1, <1>4, DirectWriteOrder
<1>5. CASE \E i \in DOMAIN later : PublishNext(i)
  BY <1>1, <1>5, PublishNextOrder
<1>6. CASE RouteWrite
  BY <1>1, <1>6, RouteWriteOrder
<1>7. CASE \E i \in DOMAIN writing : WriteRow(i)
  BY <1>1, <1>7, WriteRowOrder
<1>8. CASE Transmit
  BY <1>1, <1>8, TransmitOrder
<1>9. CASE SendFails
  BY <1>1, <1>9, SendFailsOrder
<1>10. CASE (\E o \in owed : Feedback(o)) \/ (\E ga \in Ga, raw \in Raw : Foreign(ga, raw))
  BY <1>1, <1>10, ReceivedOrder
<1>11. CASE \E b \in Binding : \E c \in Options[b] \cup {NoConfig} : Rebind(b, c)
  BY <1>1, <1>11, RebindOrder
<1>12. CASE Reload \/ \E k \in 1..clock : ExpireEchoes(k) \/ ExpireStates(k)
  BY <1>1, <1>12, ForgetOrder
<1>13. QED
  BY <1>2, <1>3, <1>4, <1>5, <1>6, <1>7, <1>8, <1>9, <1>10, <1>11, <1>12 DEF Next

(* Where bindings that share an address are of one data point, and no      *)
(* setting of a binding turns its state address into its command address,  *)
(* the confirmations of a data point are published in the order of its     *)
(* commands: a late echo or feedback of an older command is dropped        *)
(* (accept_confirmation in obs/adapters/base.py, _on_telegram in           *)
(* obs/adapters/knx/adapter.py).                                           *)
THEOREM InOrder == Tidy => (Spec => ConfirmationsInOrder)
<1>1. SUFFICES ASSUME Tidy PROVE Spec => ConfirmationsInOrder
  OBVIOUS
<1>2. TypeInv /\ OrderInv /\ [Next]_vars => OrderInv' /\ [\A d \in Dp : confirmed'[d] >= confirmed[d]]_confirmed
  BY <1>1, NextOrder
<1>3. QED
  BY <1>2, InitTypes, NextTypes, InitOrder, PTL DEF Spec, ConfirmationsInOrder

-----------------------------------------------------------------------------
(* No feedback loop.                                                       *)

(* A queue that grows by one, and one that gives up its head.              *)
LEMMA Grown ==
    ASSUME NEW T, NEW s \in Seq(T), NEW x \in T
    PROVE  /\ Append(s, x) \in Seq(T) /\ Len(s) \in Nat
           /\ DOMAIN s = 1..Len(s) /\ DOMAIN Append(s, x) = 1..(Len(s) + 1)
           /\ \A i \in DOMAIN Append(s, x) : (i \in DOMAIN s /\ Append(s, x)[i] = s[i]) \/ (i = Len(s) + 1 /\ Append(s, x)[i] = x)
           /\ \A i \in DOMAIN s : Append(s, x)[i] = s[i] /\ i # Len(s) + 1 /\ i \in DOMAIN Append(s, x)
<1> DEFINE t == Append(s, x)
<1>1. /\ t \in Seq(T) /\ Len(t) = Len(s) + 1 /\ Len(s) \in Nat
      /\ \A i \in 1..Len(s) : t[i] = s[i]
      /\ t[Len(s) + 1] = x
  BY AppendProperties, LenProperties
<1> HIDE DEF t
<1>2. DOMAIN s = 1..Len(s) /\ DOMAIN t = 1..(Len(s) + 1)
  BY <1>1, LenProperties
<1>3. \A i \in 1..(Len(s) + 1) : i \in 1..Len(s) \/ i = Len(s) + 1
  BY <1>1
<1>4. \A i \in 1..Len(s) : i \in 1..(Len(s) + 1) /\ i # Len(s) + 1
  BY <1>1
<1>5. QED
  BY <1>1, <1>2, <1>3, <1>4 DEF t

LEMMA Shortened ==
    ASSUME NEW T, NEW s \in Seq(T), s # <<>>
    PROVE  /\ Tail(s) \in Seq(T) /\ Head(s) = s[1] /\ 1 \in DOMAIN s /\ Head(s) \in T
           /\ DOMAIN s \subseteq Nat /\ DOMAIN Tail(s) \subseteq Nat
           /\ \A i \in DOMAIN Tail(s) : i + 1 \in DOMAIN s /\ i + 1 # 1 /\ Tail(s)[i] = s[i + 1]
           /\ \A i \in DOMAIN s : i # 1 => i - 1 \in DOMAIN Tail(s) /\ (i - 1) + 1 = i
<1> DEFINE t == Tail(s)
<1>1. /\ t \in Seq(T) /\ Len(t) = Len(s) - 1 /\ Len(s) \in Nat \ {0} /\ Head(s) = s[1] /\ Head(s) \in T
      /\ \A i \in 1..Len(t) : t[i] = s[i + 1]
  BY HeadTailProperties, EmptySeq
<1> HIDE DEF t
<1>2. DOMAIN s = 1..Len(s) /\ DOMAIN t = 1..(Len(s) - 1)
  BY <1>1, LenProperties
<1>3. /\ 1 \in DOMAIN s
      /\ DOMAIN s \subseteq Nat /\ DOMAIN t \subseteq Nat
      /\ \A i \in DOMAIN t : i + 1 \in DOMAIN s /\ i + 1 # 1 /\ t[i] = s[i + 1]
      /\ \A i \in DOMAIN s : i # 1 => i - 1 \in DOMAIN t /\ (i - 1) + 1 = i
  BY <1>1, <1>2
<1>4. QED
  BY <1>1, <1>3 DEF t

(* How many of the elements of a queue are in a set.                       *)
Among(s, K) == {i \in DOMAIN s : s[i] \in K}

LEMMA AmongFinite ==
    ASSUME NEW T, NEW s \in Seq(T), NEW K
    PROVE  IsFiniteSet(Among(s, K)) /\ Cardinality(Among(s, K)) \in Nat
<1>1. Among(s, K) \in SUBSET (1..Len(s)) /\ Len(s) \in Nat
  BY LenProperties DEF Among
<1>2. IsFiniteSet(Among(s, K))
  BY <1>1, IntervalFinite
<1>3. QED
  BY <1>2, FS_CardinalityType

LEMMA AmongGrown ==
    ASSUME NEW T, NEW s \in Seq(T), NEW x \in T, NEW K
    PROVE  Cardinality(Among(Append(s, x), K)) = Cardinality(Among(s, K)) + (IF x \in K THEN 1 ELSE 0)
<1> DEFINE l == Len(s) + 1
<1>1. IsFiniteSet(Among(s, K)) /\ Cardinality(Among(s, K)) \in Nat
  BY AmongFinite
<1>2. l \notin Among(s, K)
  BY Grown DEF Among
<1>3. CASE x \in K
  <2>1. Among(Append(s, x), K) = Among(s, K) \cup {l}
    <3>1. l \in DOMAIN Append(s, x) /\ Append(s, x)[l] = x
      BY Grown
    <3>2. QED
      BY <1>3, <3>1, Grown DEF Among
  <2>2. QED
    BY <1>1, <1>2, <1>3, <2>1, FS_AddElement
<1>4. CASE x \notin K
  <2>1. Among(Append(s, x), K) = Among(s, K)
    BY <1>4, Grown DEF Among
  <2>2. QED
    BY <1>1, <1>4, <2>1
<1>5. QED
  BY <1>3, <1>4

LEMMA AmongShortened ==
    ASSUME NEW T, NEW s \in Seq(T), s # <<>>, NEW K
    PROVE  Cardinality(Among(Tail(s), K)) <= Cardinality(Among(s, K)) - (IF Head(s) \in K THEN 1 ELSE 0)
<1> DEFINE A == Among(Tail(s), K)
           B == Among(s, K) \ {1}
           f == [i \in A |-> i + 1]
<1>1. /\ \A i \in DOMAIN Tail(s) : i \in Nat /\ i + 1 \in DOMAIN s /\ i + 1 # 1 /\ Tail(s)[i] = s[i + 1]
      /\ Head(s) = s[1] /\ 1 \in DOMAIN s
  BY Shortened
<1>2. f \in [A -> B]
  BY <1>1 DEF Among
<1>3. \A i, j \in A : f[i] = f[j] => i = j
  BY <1>1 DEF Among
<1> HIDE DEF f, A, B
<1>4. f \in Injection(A, B)
  BY <1>2, <1>3 DEF Injection, IsInjective
<1> USE DEF B
<1>5. IsFiniteSet(Among(s, K)) /\ Cardinality(Among(s, K)) \in Nat
  BY AmongFinite
<1>6. IsFiniteSet(B) /\ Cardinality(B) = IF 1 \in Among(s, K) THEN Cardinality(Among(s, K)) - 1 ELSE Cardinality(Among(s, K))
  BY <1>5, FS_RemoveElement
<1>7. Cardinality(A) <= Cardinality(B)
  BY <1>4, <1>6, FS_Injection
<1>8. 1 \in Among(s, K) <=> Head(s) \in K
  BY <1>1 DEF Among
<1> HIDE DEF B
<1>9. Cardinality(A) <= Cardinality(Among(s, K)) - (IF Head(s) \in K THEN 1 ELSE 0)
  BY <1>5, <1>6, <1>7, <1>8
<1>10. QED
  BY <1>9 DEF A

(* A write of a configured binding, and one that is to come back.          *)
Ours(w) == w.c = InitConfig[w.b] /\ w.c.dir # "SOURCE"
Paired(w) == w.c = InitConfig[w.b] /\ w.c.dir = "BOTH"

(* The configuration: what confirms a BOTH binding confirms no other that  *)
(* writes, and nobody reads for a data point an address of a binding that  *)
(* only writes for the same data point.                                    *)
Is(b, dirs) == InitConfig[b] # NoConfig /\ InitConfig[b].dir \in dirs
Separate ==
    /\ \A a, b \in Binding :
          Is(a, {"DEST", "BOTH"}) /\ Is(b, {"BOTH"}) /\ InitConfig[a].state = InitConfig[b].state /\ InitConfig[a].state \in Ga
          => a = b
    /\ \A a, b \in Binding :
          Is(a, {"DEST"}) /\ Is(b, {"SOURCE", "BOTH"}) /\ InitConfig[a].dp = InitConfig[b].dp
          => {InitConfig[a].cmd, InitConfig[a].state} \cap {InitConfig[b].cmd, InitConfig[b].state} \subseteq {NoGa}

Steady == stored = InitConfig /\ loaded = InitConfig /\ invalid = {}

(* From the rows to the queue; a telegram that is to come back is in       *)
(* pending until it is transmitted, and every one is there once.           *)
Queued ==
    /\ \A i \in DOMAIN writing : \A j \in DOMAIN writing[i] :
          Ours(writing[i][j]) /\ writing[i][j].n <= seq /\ writing[i][j] \notin pending
    /\ \A w \in pending : Paired(w) /\ w.n <= seq
    /\ \A k \in DOMAIN outbox : Ours(outbox[k]) /\ outbox[k].n <= seq /\ (Paired(outbox[k]) => outbox[k] \in pending)
Once ==
    /\ \A i, k \in DOMAIN writing : \A j \in DOMAIN writing[i], m \in DOMAIN writing[k] :
          writing[i][j] = writing[k][m] => i = k /\ j = m
    /\ \A i, k \in DOMAIN outbox : Paired(outbox[i]) /\ outbox[i] = outbox[k] => i = k

(* Expectations and unanswered writes.                                     *)
Awaiting ==
    /\ IsFiniteSet(recent) /\ IsFiniteSet(owed)
    /\ \A e \in recent : Paired(e.w) /\ e.ga \in {e.w.c.cmd, e.w.c.state}
    /\ \A o \in owed : Ours(o.w)

(* A telegram whose handler is to run: an echo, with its owner and its     *)
(* expectation if it has one; an answer; or one that reads like no answer. *)
IsEcho(tel) ==
    /\ tel.out = TRUE /\ tel.origin \in Write /\ tel.ga = tel.origin.c.cmd /\ tel.raw = Encode[tel.origin.val]
    /\ Ours(tel.origin) /\ tel.origin.n <= seq
    /\ Paired(tel.origin) => /\ tel.origin \notin pending
                             /\ \E o \in owners : o.w = tel.origin
                             /\ \E e \in recent : e.w = tel.origin /\ e.ga = tel.ga
IsAnswer(tel) ==
    /\ tel.out = FALSE /\ tel.origin \in Write /\ tel.ga = tel.origin.c.state /\ tel.raw = Encode[tel.origin.val]
    /\ Ours(tel.origin)
IsForeign(tel) ==
    /\ tel.out = FALSE /\ tel.origin = NoWrite
    /\ \A e \in recent : ~(e.w.c.state = tel.ga /\ Encode[e.w.val] = tel.raw)
Heard == \A i \in DOMAIN inbox : IsEcho(inbox[i]) \/ IsAnswer(inbox[i]) \/ IsForeign(inbox[i])
EchoedOnce ==
    /\ \A i, k \in DOMAIN inbox :
          inbox[i].out = TRUE /\ inbox[k].out = TRUE /\ inbox[i].origin = inbox[k].origin /\ Paired(inbox[i].origin)
          => i = k
    /\ \A k \in DOMAIN inbox : inbox[k].out = TRUE /\ Paired(inbox[k].origin) =>
          \A i \in DOMAIN writing : \A j \in DOMAIN writing[i] : writing[i][j] # inbox[k].origin

(* Of each BOTH binding and reading: the answers still to come and those whose  *)
(* handlers are to run are not more than the answers expected.             *)
Answers(b, r) == {tel \in Telegram : tel.out = FALSE /\ tel.origin # NoWrite /\ tel.origin.b = b /\ tel.raw = r}
Owing(b, r) == {o \in owed : o.w.b = b /\ Encode[o.w.val] = r}
Awaited(b, r) == {e \in recent : e.w.b = b /\ e.ga = e.w.c.state /\ Encode[e.w.val] = r}
Balanced ==
    \A b \in Binding, r \in Raw : Is(b, {"BOTH"}) =>
        Cardinality(Owing(b, r)) + Cardinality(Among(inbox, Answers(b, r))) <= Cardinality(Awaited(b, r))

(* No event, published or to be published, is a write that came back as a  *)
(* new value.                                                              *)
ReallyNew(e) == e.n = 0 /\ e.origin # NoWrite => e.origin.c.dp # e.dp
NothingBack == \A d \in Dp : shown[d].n = 0 /\ shown[d].origin # NoWrite => shown[d].origin.c.dp # d
NewLater == \A i \in DOMAIN later : \A j \in DOMAIN later[i] : ReallyNew(later[i][j])

LoopInv ==
    Steady /\ Queued /\ Once /\ Awaiting /\ Heard /\ EchoedOnce /\ Balanced /\ NewLater /\ NothingBack

-----------------------------------------------------------------------------
(* The handler of one telegram.                                            *)

(* A telegram of OBS is known to be one for its own data point.            *)
Recognised(tel) ==
    tel.origin # NoWrite =>
        \A b \in Listeners(tel.ga) : loaded[b].dp = tel.origin.c.dp => loaded[b].dp \in LocalDps(tel)

(* The handler takes from a binding at most one expectation, which the     *)
(* telegram fits, and makes no new value of what it recognised.  i: the    *)
(* entries that have been handled.                                         *)
Fits(e, tel) ==
    /\ e.ga = tel.ga /\ Encode[e.w.val] = tel.raw
    /\ tel.out = TRUE => e.w = tel.origin /\ loaded[e.w.b].state # tel.ga
    /\ tel.out # TRUE => loaded[e.w.b].state = tel.ga
Takes(tel, st, i) ==
    /\ Adds(st)
    /\ \A m \in 1..Len(st.events) : ReallyNew(st.events[m])
    /\ \A e \in recent \ st.recent : Fits(e, tel) /\ \E j \in 1..i : Entries(tel)[j] = e.w.b
    /\ \A e, f \in recent \ st.recent : e.w.b = f.w.b => e = f

LEMMA EntryLoses ==
    ASSUME NEW tel, NEW b, NEW st \in HandlerState, NEW next, next = HandleEntry(tel, b, st)
    PROVE  next.recent = st.recent \/ \E e \in Consumable(tel, b, st) : next.recent = st.recent \ {e}
<1>1. CASE Consumable(tel, b, st) # {} /\ next = Confirm(tel, b, CHOOSE e \in Consumable(tel, b, st) : TRUE, st)
  <2>1. PICK e \in Consumable(tel, b, st) : next = Confirm(tel, b, e, st)
    BY <1>1
  <2>2. next.recent = st.recent \ {e}
    BY <2>1 DEF Confirm, HandlerState
  <2>3. QED
    BY <2>2
<1>2. CASE next = st \/ next = [st EXCEPT !.events = Append(st.events, NewValue(tel, b))]
  BY <1>2 DEF HandlerState
<1>3. QED
  BY <1>1, <1>2 DEF HandleEntry

LEMMA UntouchedTakes ==
    ASSUME TypeOK, NEW tel
    PROVE  Takes(tel, Untouched, 0)
<1>1. Adds(Untouched)
  BY UntouchedAdds
<1>2. Untouched.recent = recent /\ Untouched.events = <<>>
  BY DEF Untouched
<1>3. 1..Len(<<>>) = {}
  OBVIOUS
<1>4. QED
  BY <1>1, <1>2, <1>3 DEF Takes

LEMMA EntryTakes ==
    ASSUME TypeOK, NEW tel \in Telegram, Recognised(tel), NEW i \in 1..Len(Entries(tel)), NEW st, Takes(tel, st, i - 1)
    PROVE  Takes(tel, HandleEntry(tel, Entries(tel)[i], st), i)
<1> DEFINE b == Entries(tel)[i]
           next == HandleEntry(tel, b, st)
<1>1. /\ b \in Listeners(tel.ga) /\ Len(Entries(tel)) \in Nat
      /\ \A j \in 1..(i - 1) : Entries(tel)[j] # b /\ j \in 1..i
      /\ i \in 1..i
  <2>1. /\ Len(Entries(tel)) \in Nat
        /\ \A k \in 1..Len(Entries(tel)) : Entries(tel)[k] \in Listeners(tel.ga)
        /\ \A k, j \in 1..Len(Entries(tel)) : k # j => Entries(tel)[k] # Entries(tel)[j]
    BY EntriesAre
  <2>2. \A j \in 1..(i - 1) : j \in 1..Len(Entries(tel)) /\ j # i /\ j \in 1..i
    BY <2>1
  <2>3. QED
    BY <2>1, <2>2
<1>2. Adds(st) /\ st \in HandlerState /\ st.recent \subseteq recent /\ st.events \in Seq(Event)
  BY DEF Takes, Adds, HandlerState
<1>3. Adds(next)
  BY <1>1, <1>2, EntryAdds
<1>4. Skips(st, next) \/ Renews(tel, b, st, next) \/ Confirms(tel, b, st, next)
  BY <1>1, <1>2, EntryDoes
<1>5. next.recent = st.recent \/ \E e \in Consumable(tel, b, st) : next.recent = st.recent \ {e}
  BY <1>2, EntryLoses
<1> HIDE DEF b, next
<1>6. \A m \in 1..Len(next.events) : ReallyNew(next.events[m])
  <2>1. \A m \in 1..Len(st.events) : ReallyNew(st.events[m])
    BY DEF Takes
  <2>2. CASE next.events = st.events
    BY <2>1, <2>2
  <2>3. ASSUME NEW x \in Event, ReallyNew(x), next.events = Append(st.events, x)
        PROVE  \A m \in 1..Len(next.events) : ReallyNew(next.events[m])
    <3>1. /\ DOMAIN next.events = 1..Len(next.events)
          /\ DOMAIN st.events = 1..Len(st.events)
          /\ \A m \in DOMAIN next.events : (m \in DOMAIN st.events /\ next.events[m] = st.events[m]) \/ next.events[m] = x
      <4>1. next.events \in Seq(Event)
        BY <1>2, <2>3, Grown
      <4>2. QED
        BY <1>2, <2>3, <4>1, Grown, LenProperties
    <3>2. QED
      BY <2>1, <2>3, <3>1
  <2>4. CASE Renews(tel, b, st, next)
    <3>1. NewValue(tel, b) \in Event
      BY <1>1, EventTyped
    <3>2. loaded[b].dp \notin LocalDps(tel) /\ next.events = Append(st.events, NewValue(tel, b))
      BY <2>4 DEF Renews
    <3>3. ReallyNew(NewValue(tel, b))
      BY <1>1, <3>2 DEF Recognised, ReallyNew, NewValue
    <3>4. QED
      BY <2>3, <3>1, <3>2, <3>3
  <2>5. CASE Confirms(tel, b, st, next)
    <3>1. PICK e \in Consumable(tel, b, st) :
             next.events = Append(st.events, Confirmation(tel, b, e.w, Acts(e.w, st.claimed)))
      BY <2>5 DEF Confirms
    <3>2. e.w \in Write
      BY <1>2, ConsumableIs
    <3>3. Acts(e.w, st.claimed) \in BOOLEAN /\ e.w.n # 0
      BY <3>2, WriteIs DEF Acts
    <3> DEFINE a == Acts(e.w, st.claimed)
               x == Confirmation(tel, b, e.w, a)
    <3> HIDE DEF a
    <3>4. x \in Event /\ x.n = e.w.n
      <4>1. a \in BOOLEAN
        BY <3>3 DEF a
      <4>2. x \in Event
        BY <1>1, <3>2, <4>1, EventTyped
      <4>3. x.n = e.w.n
        BY DEF Confirmation
      <4>4. QED
        BY <4>2, <4>3
    <3>5. ReallyNew(x)
      BY <3>3, <3>4 DEF ReallyNew
    <3>6. next.events = Append(st.events, x)
      BY <3>1 DEF a
    <3>7. QED
      BY <2>3, <3>4, <3>5, <3>6
  <2>6. QED
    BY <1>4, <2>2, <2>4, <2>5 DEF Skips
<1>7. /\ \A e \in recent \ st.recent : Fits(e, tel) /\ \E j \in 1..(i - 1) : Entries(tel)[j] = e.w.b
      /\ \A e, f \in recent \ st.recent : e.w.b = f.w.b => e = f
  BY DEF Takes
<1>8. \A e \in recent \ st.recent : e.w.b # b /\ \E j \in 1..i : Entries(tel)[j] = e.w.b
  BY <1>1, <1>7
<1>9. CASE next.recent = st.recent
  BY <1>3, <1>6, <1>7, <1>8, <1>9 DEF Takes, next, b
<1>10. ASSUME NEW e \in Consumable(tel, b, st), next.recent = st.recent \ {e}
       PROVE  Takes(tel, next, i)
  <2>1. /\ e \in st.recent /\ e.ga = tel.ga /\ e.w.b = b /\ Encode[e.w.val] = tel.raw
        /\ tel.out = TRUE => e.w = tel.origin
        /\ tel.out # TRUE => loaded[b].state = tel.ga
    BY DEF Consumable, Newest, Matching
  <2>2. tel.out = TRUE => loaded[b].state # tel.ga
    BY DEF Consumable
  <2>3. Fits(e, tel)
    BY <2>1, <2>2 DEF Fits
  <2>4. \A f \in recent \ next.recent : f \in recent \ st.recent \/ f = e
    BY <1>10
  <2>5. \E j \in 1..i : Entries(tel)[j] = e.w.b
    BY <1>1, <2>1 DEF b
  <2>6. \A f \in recent \ next.recent : Fits(f, tel) /\ \E j \in 1..i : Entries(tel)[j] = f.w.b
    BY <1>7, <1>8, <2>3, <2>4, <2>5
  <2>7. \A f, g \in recent \ next.recent : f.w.b = g.w.b => f = g
    BY <1>7, <1>8, <2>1, <2>4
  <2>8. QED
    BY <1>3, <1>6, <2>6, <2>7 DEF Takes
<1>11. QED
  BY <1>5, <1>9, <1>10 DEF next, b

LEMMA HandledTakes ==
    ASSUME TypeOK, NEW tel \in Telegram, Recognised(tel)
    PROVE  Takes(tel, Handled(tel), Len(Entries(tel)))
<1>1. PICK h : Steps(tel, h) /\ Handled(tel) = h[Len(Entries(tel))]
  BY HandledBySteps
<1> DEFINE n == Len(Entries(tel))
           G == [i \in 0..n |-> {st \in HandlerState : Takes(tel, st, i)}]
<1>2. n \in Nat
  BY EntriesAre
<1>3. \A st, i : Takes(tel, st, i) => st \in HandlerState
  BY DEF Takes, Adds
<1>4. Untouched \in G[0]
  BY <1>2, <1>3, UntouchedTakes
<1>5. ASSUME NEW i \in 1..n, NEW st \in G[i - 1]
      PROVE  HandleEntry(tel, Entries(tel)[i], st) \in G[i]
  <2>1. i - 1 \in 0..n /\ i \in 0..n
    BY <1>2
  <2>2. Takes(tel, st, i - 1)
    BY <2>1, <1>5
  <2>3. Takes(tel, HandleEntry(tel, Entries(tel)[i], st), i)
    BY <2>2, EntryTakes
  <2>4. QED
    BY <1>3, <2>1, <2>3
<1>6. n \in 0..n
  BY <1>2
<1> HIDE DEF G
<1>7. h[n] \in G[n]
  BY <1>1, <1>4, <1>5, StepsKeep
<1>8. QED
  BY <1>1, <1>6, <1>7 DEF G

-----------------------------------------------------------------------------
(* The invariant.                                                          *)

LEMMA InitLoop == Init => LoopInv
<1> SUFFICES ASSUME Init PROVE LoopInv
  OBVIOUS
<1>1. Steady /\ Queued /\ Once /\ Heard /\ EchoedOnce /\ NewLater
  <2>1. DOMAIN writing = {} /\ DOMAIN outbox = {} /\ DOMAIN inbox = {} /\ DOMAIN later = {} /\ pending = {}
    BY DEF Init
  <2>2. Steady
    BY DEF Init, Steady
  <2>3. QED
    BY <2>1, <2>2 DEF Queued, Once, Heard, EchoedOnce, NewLater
<1>2. recent = {} /\ owed = {} /\ inbox = <<>>
  BY DEF Init
<1>3. Awaiting
  BY <1>2, FS_EmptySet DEF Awaiting
<1>4. Balanced
  <2>1. SUFFICES ASSUME NEW b \in Binding, NEW r \in Raw, Is(b, {"BOTH"})
        PROVE  Cardinality(Owing(b, r)) + Cardinality(Among(inbox, Answers(b, r))) <= Cardinality(Awaited(b, r))
    BY DEF Balanced
  <2>2. Owing(b, r) = {} /\ Among(inbox, Answers(b, r)) = {} /\ Awaited(b, r) = {}
    BY <1>2 DEF Owing, Among, Awaited
  <2>3. QED
    BY <2>2, FS_EmptySet
<1>5. NothingBack
  BY DEF Init, NothingBack, NothingShown
<1>6. QED
  BY <1>1, <1>3, <1>4, <1>5 DEF LoopInv

LEMMA SameBalance ==
    ASSUME Balanced, UNCHANGED <<recent, inbox, owed>>
    PROVE  Balanced'
BY DEF Balanced, Owing, Awaited

LEMMA SameAwaiting ==
    ASSUME Awaiting, UNCHANGED <<recent, owed>>
    PROVE  Awaiting'
BY DEF Awaiting

LEMMA DirectWriteLoop ==
    ASSUME LoopInv, NEW dp \in Dp, NEW val \in Value, DirectWrite(dp, val)
    PROVE  LoopInv'
<1>1. UNCHANGED <<stored, loaded, writing, seq, outbox, pending, invalid, owners, recent, inbox, later, shown, owed>>
  BY DEF DirectWrite, orderVars, adapterVars, publishedVars, sentVars
<1>2. Balanced' /\ Awaiting'
  BY <1>1, SameBalance, SameAwaiting DEF LoopInv
<1>3. Steady' /\ Queued' /\ Once' /\ NewLater' /\ NothingBack'
  BY <1>1 DEF LoopInv, Steady, Queued, Once, NewLater, NothingBack
<1>4. Heard' /\ EchoedOnce'
  BY <1>1 DEF LoopInv, Heard, EchoedOnce, IsEcho, IsAnswer, IsForeign
<1>5. QED
  BY <1>2, <1>3, <1>4 DEF LoopInv

(* A publication is the value the registry now has.                        *)
LEMMA PublishShows ==
    ASSUME TypeOK, NothingBack, NEW e \in Event, ReallyNew(e), Publish(e)
    PROVE  NothingBack'
<1>1. shown' = [shown EXCEPT ![e.dp] = e] /\ shown \in [Dp -> Event \cup {NothingShown}] /\ e.dp \in Dp
  BY DEF Publish, TypeOK, Event
<1>2. \A d \in Dp : shown'[d] = IF d = e.dp THEN e ELSE shown[d]
  BY <1>1
<1>3. QED
  BY <1>2 DEF NothingBack, ReallyNew

LEMMA PublishNextLoop ==
    ASSUME TypeInv, LoopInv, NEW i \in DOMAIN later, PublishNext(i)
    PROVE  LoopInv'
<1>1. TypeOK /\ later \in Seq(Seq(Event)) /\ Nonempty(later)
  BY DEF TypeInv, Busy, TypeOK
<1>2. later[i] \in Seq(Event) /\ later[i] # <<>>
  BY <1>1, LenProperties, ElementOfSeq DEF Nonempty
<1>3. Head(later[i]) = later[i][1] /\ 1 \in DOMAIN later[i] /\ later[i][1] \in Event
  BY <1>2, Shortened
<1>4. ReallyNew(later[i][1])
  BY <1>3 DEF LoopInv, NewLater
<1>5. NothingBack'
  BY <1>1, <1>3, <1>4, PublishShows DEF PublishNext, LoopInv
<1>6. later' = Rest(later, i)
  BY DEF PublishNext, Rest
<1>7. NewLater'
  BY <1>1, <1>6, RestIs DEF LoopInv, NewLater
<1>8. UNCHANGED <<stored, loaded, writing, seq, outbox, pending, invalid, owners, recent, inbox, owed>>
  BY DEF PublishNext, orderVars, adapterVars, sentVars
<1>9. Balanced' /\ Awaiting'
  BY <1>8, SameBalance, SameAwaiting DEF LoopInv
<1>10. Steady' /\ Queued' /\ Once'
  BY <1>8 DEF LoopInv, Steady, Queued, Once
<1>11. Heard' /\ EchoedOnce'
  BY <1>8 DEF LoopInv, Heard, EchoedOnce, IsEcho, IsAnswer, IsForeign
<1>12. QED
  BY <1>5, <1>7, <1>9, <1>10, <1>11 DEF LoopInv

(* The marks grow, the telegrams heard stay what they are.                 *)
LEMMA StillHeard ==
    ASSUME TypeOK, Heard, seq' \in Nat, seq <= seq', inbox' = inbox, recent' = recent, owners' = owners,
           \A i \in DOMAIN inbox : inbox[i].out = TRUE /\ Paired(inbox[i].origin) => inbox[i].origin \notin pending'
    PROVE  Heard'
<1>1. SUFFICES ASSUME NEW i \in DOMAIN inbox
               PROVE  IsEcho(inbox[i])' \/ IsAnswer(inbox[i])' \/ IsForeign(inbox[i])'
  BY DEF Heard
<1>2. IsEcho(inbox[i]) \/ IsAnswer(inbox[i]) \/ IsForeign(inbox[i])
  BY <1>1 DEF Heard
<1>3. CASE IsEcho(inbox[i])
  <2>1. inbox[i].origin.n \in Nat /\ seq \in Nat
    BY <1>3, WriteIs, MarksAreNumbers DEF IsEcho
  <2>2. inbox[i].origin.n <= seq'
    BY <1>3, <2>1 DEF IsEcho
  <2>3. QED
    BY <1>1, <1>3, <2>2 DEF IsEcho
<1>4. CASE IsAnswer(inbox[i]) \/ IsForeign(inbox[i])
  BY <1>4 DEF IsAnswer, IsForeign
<1>5. QED
  BY <1>2, <1>3, <1>4

LEMMA WritingIs ==
    ASSUME TypeOK, NEW i \in DOMAIN writing, NEW j \in DOMAIN writing[i]
    PROVE  writing[i][j] \in Write /\ i \in Nat /\ j \in Nat
<1>1. writing \in Seq(Seq(Write))
  BY DEF TypeOK
<1>2. writing[i] \in Seq(Write) /\ i \in Nat
  BY <1>1, LenProperties, ElementOfSeq
<1>3. QED
  BY <1>2, LenProperties, ElementOfSeq

LEMMA OutboxIs ==
    ASSUME TypeOK, NEW i \in DOMAIN outbox
    PROVE  outbox[i] \in Write
<1>1. outbox \in Seq(Write)
  BY DEF TypeOK
<1>2. QED
  BY <1>1, LenProperties, ElementOfSeq

(* The rows of a new command differ from all there were: its number is new.*)
LEMMA RouteWriteLoop ==
    ASSUME TypeInv, LoopInv, RouteWrite
    PROVE  LoopInv'
<1> DEFINE cmd == Head(routing)
           D == Destinations(cmd.dp) \ {cmd.skip}
           rows == Ordered(D)
           n == seq + 1
           group == [i \in DOMAIN rows |-> Command(cmd, n, rows[i])]
<1>1. TypeOK /\ Steady /\ Queued /\ Once /\ Awaiting /\ Heard /\ EchoedOnce /\ Balanced /\ NewLater /\ NothingBack
  BY DEF TypeInv, LoopInv
<1>2. UNCHANGED <<stored, loaded, outbox, pending, invalid, owners, recent, inbox, later, shown, owed>>
  BY DEF RouteWrite, adapterVars, publishedVars, sentVars
<1>3. Steady' /\ NewLater' /\ NothingBack' /\ Balanced' /\ Awaiting'
  BY <1>1, <1>2, SameBalance, SameAwaiting DEF Steady, NewLater, NothingBack
<1>4. CASE UNCHANGED <<seq, writing>>
  <2>1. Queued' /\ Once' /\ Heard' /\ EchoedOnce'
    BY <1>1, <1>2, <1>4 DEF Queued, Once, Heard, EchoedOnce, IsEcho, IsAnswer, IsForeign
  <2>2. QED
    BY <1>3, <2>1 DEF LoopInv
<1>5. CASE seq' = n /\ writing' = IF rows = <<>> THEN writing ELSE Append(writing, group)
  <2>1. writing \in Seq(Seq(Write)) /\ seq \in Nat /\ n \in Nat /\ seq <= n /\ ~(n <= seq)
    BY <1>1, MarksAreNumbers DEF TypeOK
  <2>2. D \subseteq Binding /\ \A b \in D : stored[b] = InitConfig[b] /\ stored[b].dir # "SOURCE"
    BY <1>1 DEF Destinations, Steady
  <2>3. /\ rows \in Seq(D)
        /\ \A i, j \in 1..Len(rows) : i < j => rows[i] < rows[j]
    <3>1. IsFiniteSet(Binding) /\ Binding \in SUBSET Nat
      BY BindingAssumption
    <3>2. IsFiniteSet(D) /\ D \in SUBSET Nat
      BY <2>2, <3>1, FS_Subset
    <3>3. QED
      BY <3>2, OrderedIs
  <2>4. /\ DOMAIN rows = 1..Len(rows) /\ Len(rows) \in Nat
        /\ \A i \in DOMAIN rows : rows[i] \in D /\ rows[i] \in Nat /\ i \in Nat
        /\ \A i, j \in DOMAIN rows : rows[i] = rows[j] => i = j
    <3> HIDE DEF rows, D
    <3>1. DOMAIN rows = 1..Len(rows) /\ Len(rows) \in Nat /\ \A i \in 1..Len(rows) : rows[i] \in D
      BY <2>3, LenProperties, ElementOfSeq
    <3>2. \A i \in 1..Len(rows) : rows[i] \in Nat /\ i \in Nat
      <4>1. \A b \in D : b \in Nat
        BY <2>2, BindingAssumption
      <4>2. \A i \in 1..Len(rows) : i \in Nat
        BY <3>1
      <4>3. QED
        BY <3>1, <4>1, <4>2
    <3>3. \A i, j \in 1..Len(rows) : rows[i] = rows[j] => i = j
      BY <2>3, <3>1, <3>2
    <3>4. QED
      BY <3>1, <3>2, <3>3
  <2> HIDE DEF rows, n
  <2>5. \A j \in DOMAIN group : Ours(group[j]) /\ group[j].n = n /\ group[j].b = rows[j] /\ j \in DOMAIN rows
    <3>1. \A b \in D : Ours(Command(cmd, n, b)) /\ Command(cmd, n, b).n = n /\ Command(cmd, n, b).b = b
      BY <2>2 DEF Command, Ours
    <3>2. DOMAIN group = DOMAIN rows /\ \A j \in DOMAIN rows : group[j] = Command(cmd, n, rows[j])
      OBVIOUS
    <3> HIDE DEF D, cmd, group
    <3>3. QED
      BY <2>4, <3>1, <3>2
  <2>6. \A j, m \in DOMAIN group : group[j] = group[m] => j = m
    <3> HIDE DEF group
    <3>1. QED
      BY <2>4, <2>5
  <2>7. \A i \in DOMAIN writing' : (i \in DOMAIN writing /\ writing'[i] = writing[i])
                                   \/ (i = Len(writing) + 1 /\ writing'[i] = group)
    <3>1. CASE rows = <<>>
      BY <1>5, <3>1
    <3>2. CASE rows # <<>>
      <4>1. group \in Seq(Write)
        <5>1. /\ cmd.val \in Value /\ cmd.direct \in BOOLEAN
          <6>1. routing \in Seq(Routed) /\ routing # <<>>
            BY <1>1 DEF TypeOK, Routed, RouteWrite
          <6>2. cmd \in Routed
            BY <6>1, Shortened
          <6>3. QED
            BY <6>2 DEF Routed
        <5>2. n \in 1..MaxOrders
          <6>1. seq' \in 0..MaxOrders
            BY RouteWriteTypes DEF TypeInv, TypeOK
          <6>2. QED
            BY <1>5, <2>1, <6>1, BoundAssumption DEF n
        <5>3. \A b \in D : stored[b] \in Configs /\ b \in Binding
          BY <1>1 DEF Destinations, TypeOK
        <5>4. \A b \in D : Command(cmd, n, b) \in Write
          BY <5>1, <5>2, <5>3 DEF Command, Write
        <5>5. group \in [1..Len(rows) -> Write]
          BY <2>4, <5>4
        <5>6. QED
          BY <2>4, <5>5, FunctionIsSeq
      <4> HIDE DEF group
      <4>2. writing' = Append(writing, group)
        BY <1>5, <3>2
      <4>3. QED
        BY <2>1, <4>1, <4>2, Grown
    <3>3. QED
      BY <3>1, <3>2
  <2> HIDE DEF group, D, cmd
  <2>8. \A i \in DOMAIN writing : \A j \in DOMAIN writing[i] :
           /\ Ours(writing[i][j]) /\ writing[i][j].n \in Nat /\ writing[i][j].n <= seq /\ writing[i][j] \notin pending
    BY <1>1, WritingIs, WriteIs DEF Queued
  <2>9. \A w \in Write : w.n <= seq => w.n <= n
    BY <2>1, WriteIs
  <2>10. Queued'
    <3>1. \A w \in pending : Paired(w) /\ w.n <= seq /\ w \in Write
      BY <1>1 DEF Queued, TypeOK
    <3>2. \A j \in DOMAIN group : group[j].n <= n /\ group[j] \notin pending
      BY <2>1, <2>5, <3>1
    <3>3. \A i \in DOMAIN writing' : \A j \in DOMAIN writing'[i] :
             Ours(writing'[i][j]) /\ writing'[i][j].n <= n /\ writing'[i][j] \notin pending
      <4>1. \A i \in DOMAIN writing : \A j \in DOMAIN writing[i] : writing[i][j].n <= n
        BY <1>1, <2>8, <2>9, WritingIs
      <4>2. QED
        BY <2>5, <2>7, <2>8, <3>2, <4>1
    <3>4. \A k \in DOMAIN outbox : /\ Ours(outbox[k]) /\ outbox[k].n <= n
                                   /\ Paired(outbox[k]) => outbox[k] \in pending
      BY <1>1, <2>9, OutboxIs DEF Queued
    <3>5. \A w \in pending : Paired(w) /\ w.n <= n
      BY <2>9, <3>1
    <3>6. QED
      BY <1>2, <1>5, <3>3, <3>4, <3>5 DEF Queued
  <2>11. Once'
    <3>1. ASSUME NEW i \in DOMAIN writing', NEW k \in DOMAIN writing',
                 NEW j \in DOMAIN writing'[i], NEW m \in DOMAIN writing'[k], writing'[i][j] = writing'[k][m]
          PROVE  i = k /\ j = m
      <4>1. CASE writing'[i] = group /\ writing'[k] = group /\ i = Len(writing) + 1 /\ k = Len(writing) + 1
        BY <2>6, <3>1, <4>1
      <4>2. CASE i \in DOMAIN writing /\ writing'[i] = writing[i] /\ k \in DOMAIN writing /\ writing'[k] = writing[k]
        BY <1>1, <3>1, <4>2 DEF Once
      <4>3. CASE i \in DOMAIN writing /\ writing'[i] = writing[i] /\ writing'[k] = group
        BY <2>1, <2>5, <2>8, <3>1, <4>3
      <4>4. CASE writing'[i] = group /\ k \in DOMAIN writing /\ writing'[k] = writing[k]
        BY <2>1, <2>5, <2>8, <3>1, <4>4
      <4>5. QED
        BY <2>7, <4>1, <4>2, <4>3, <4>4
    <3>2. QED
      BY <1>1, <1>2, <3>1 DEF Once
  <2>12. Heard'
    BY <1>1, <1>2, <1>5, <2>1, StillHeard DEF Heard, IsEcho, IsAnswer, IsForeign
  <2>13. EchoedOnce'
    <3>1. \A k \in DOMAIN inbox : inbox[k].out = TRUE => inbox[k].origin.n <= seq
      BY <1>1 DEF Heard, IsEcho, IsAnswer, IsForeign
    <3>2. \A k \in DOMAIN inbox : inbox[k].out = TRUE =>
             \A i \in DOMAIN writing' : writing'[i] = group => \A j \in DOMAIN writing'[i] : writing'[i][j] # inbox[k].origin
      BY <2>1, <2>5, <3>1
    <3>3. QED
      BY <1>1, <1>2, <2>7, <3>2 DEF EchoedOnce
  <2>14. QED
    BY <1>3, <2>10, <2>11, <2>12, <2>13 DEF LoopInv
<1>6. QED
  BY <1>4, <1>5 DEF RouteWrite

(* A fetched row is written once.                                          *)
LEMMA WriteRowLoop ==
    ASSUME TypeInv, LoopInv, NEW i \in DOMAIN writing, WriteRow(i)
    PROVE  LoopInv'
<1> DEFINE w == writing[i][1]
<1>1. TypeOK /\ Steady /\ Queued /\ Once /\ Awaiting /\ Heard /\ EchoedOnce /\ Balanced /\ NewLater /\ NothingBack
  BY DEF TypeInv, LoopInv
<1>2. /\ UNCHANGED <<stored, loaded, invalid, owners, recent, inbox, later, shown, owed, seq>>
      /\ writing \in Seq(Seq(Write)) /\ Nonempty(writing) /\ outbox \in Seq(Write)
  BY DEF WriteRow, orderVars, publishedVars, sentVars, TypeInv, Busy, TypeOK
<1>3. Steady' /\ NewLater' /\ NothingBack' /\ Balanced' /\ Awaiting'
  BY <1>1, <1>2, SameBalance, SameAwaiting DEF Steady, NewLater, NothingBack
<1>4. Head(writing[i]) = w /\ 1 \in DOMAIN writing[i] /\ w \in Write /\ i \in Nat
  <2>1. writing[i] \in Seq(Write) /\ writing[i] # <<>> /\ i \in Nat
    BY <1>2, LenProperties, ElementOfSeq DEF Nonempty
  <2>2. QED
    BY <2>1, Shortened
<1>5. /\ writing' = Rest(writing, i) /\ outbox' = Append(outbox, w)
      /\ pending' = IF w.c.dir = "BOTH" THEN pending \cup {w} ELSE pending
  BY <1>4 DEF WriteRow, Rest
<1>6. Ours(w) /\ w.n <= seq /\ w \notin pending
  BY <1>1, <1>4 DEF Queued
<1>7. pending' = pending \cup IF Paired(w) THEN {w} ELSE {}
  BY <1>5, <1>6 DEF Ours, Paired
<1>8. /\ \A k \in DOMAIN writing' : Before(writing, i, k) \in DOMAIN writing /\ k \in Nat
      /\ \A k \in DOMAIN writing' : \A m \in DOMAIN writing'[k] :
            /\ m \in Nat
            /\ m + Moved(writing, i, k) \in DOMAIN writing[Before(writing, i, k)]
            /\ writing'[k][m] = writing[Before(writing, i, k)][m + Moved(writing, i, k)]
            /\ Before(writing, i, k) = i => m + Moved(writing, i, k) # 1
  <2>1. writing' \in Seq(Seq(Write))
    BY <1>2, <1>5, RestIs
  <2>2. \A k \in DOMAIN writing' : k \in Nat /\ writing'[k] \in Seq(Write)
    BY <2>1, LenProperties, ElementOfSeq
  <2>3. \A k \in DOMAIN writing' : \A m \in DOMAIN writing'[k] : m \in Nat
    BY <2>2, LenProperties
  <2>4. QED
    BY <1>2, <1>5, <2>2, <2>3, RestIs
<1>9. \A k \in DOMAIN writing' : \A m \in DOMAIN writing'[k] :
         /\ writing'[k][m] # w
         /\ \E l \in DOMAIN writing : \E j \in DOMAIN writing[l] : writing'[k][m] = writing[l][j]
  <2>1. SUFFICES ASSUME NEW k \in DOMAIN writing', NEW m \in DOMAIN writing'[k]
                 PROVE  /\ writing'[k][m] # w
                        /\ \E l \in DOMAIN writing : \E j \in DOMAIN writing[l] : writing'[k][m] = writing[l][j]
    OBVIOUS
  <2> DEFINE p == Before(writing, i, k)
             q == m + Moved(writing, i, k)
  <2>2. p \in DOMAIN writing /\ q \in DOMAIN writing[p] /\ writing'[k][m] = writing[p][q] /\ (p = i => q # 1)
    BY <1>8
  <2> HIDE DEF p, q
  <2>3. writing[p][q] # writing[i][1]
    BY <1>1, <1>4, <2>2 DEF Once
  <2>4. QED
    BY <2>2, <2>3
<1> HIDE DEF w
<1>10. \A k \in DOMAIN outbox' : (k \in DOMAIN outbox /\ outbox'[k] = outbox[k]) \/ (k = Len(outbox) + 1 /\ outbox'[k] = w)
  BY <1>2, <1>4, <1>5, Grown
<1>11. Queued'
  <2>1. \A k \in DOMAIN writing' : \A m \in DOMAIN writing'[k] :
           Ours(writing'[k][m]) /\ writing'[k][m].n <= seq /\ writing'[k][m] \notin pending'
    BY <1>1, <1>7, <1>9 DEF Queued
  <2>2. \A x \in pending' : Paired(x) /\ x.n <= seq
    BY <1>1, <1>6, <1>7 DEF Queued
  <2>3. \A k \in DOMAIN outbox' : Ours(outbox'[k]) /\ outbox'[k].n <= seq /\ (Paired(outbox'[k]) => outbox'[k] \in pending')
    BY <1>1, <1>6, <1>7, <1>10 DEF Queued
  <2>4. QED
    BY <1>2, <2>1, <2>2, <2>3 DEF Queued
<1>12. Once'
  <2>1. ASSUME NEW k \in DOMAIN writing', NEW l \in DOMAIN writing',
               NEW j \in DOMAIN writing'[k], NEW m \in DOMAIN writing'[l], writing'[k][j] = writing'[l][m]
        PROVE  k = l /\ j = m
    <3>1. Before(writing, i, k) = Before(writing, i, l) /\ j + Moved(writing, i, k) = m + Moved(writing, i, l)
      BY <1>1, <1>8, <2>1 DEF Once
    <3>2. k \in Nat /\ l \in Nat /\ j \in Nat /\ m \in Nat
      BY <1>8
    <3>3. k = l
      BY <1>4, <3>1, <3>2 DEF Before
    <3>4. Moved(writing, i, k) \in Nat
      BY DEF Moved
    <3>5. QED
      BY <3>1, <3>2, <3>3, <3>4
  <2>2. ASSUME NEW k \in DOMAIN outbox', NEW l \in DOMAIN outbox', Paired(outbox'[k]), outbox'[k] = outbox'[l]
        PROVE  k = l
    <3>1. \A m \in DOMAIN outbox : Paired(outbox[m]) => outbox[m] # w
      BY <1>1, <1>6 DEF Queued
    <3>2. QED
      BY <1>1, <1>10, <2>2, <3>1 DEF Once
  <2>3. QED
    BY <2>1, <2>2 DEF Once, Paired
<1>13. \A k \in DOMAIN inbox : inbox[k].out = TRUE /\ Paired(inbox[k].origin) => inbox[k].origin \notin pending /\ inbox[k].origin # w
  <2>1. \A k \in DOMAIN inbox : inbox[k].out = TRUE /\ Paired(inbox[k].origin) => inbox[k].origin \notin pending
    BY <1>1 DEF Heard, IsEcho, IsAnswer, IsForeign
  <2>2. \A k \in DOMAIN inbox : inbox[k].out = TRUE /\ Paired(inbox[k].origin) => inbox[k].origin # w
    BY <1>1, <1>4 DEF EchoedOnce, w
  <2>3. QED
    BY <2>1, <2>2
<1>14. Heard'
  <2>1. seq' \in Nat /\ seq <= seq'
    BY <1>1, <1>2, MarksAreNumbers
  <2>2. QED
    BY <1>1, <1>2, <1>7, <1>13, <2>1, StillHeard
<1>15. EchoedOnce'
  <2>1. \A k \in DOMAIN inbox : inbox[k].out = TRUE /\ Paired(inbox[k].origin) =>
           \A l \in DOMAIN writing' : \A j \in DOMAIN writing'[l] : writing'[l][j] # inbox[k].origin
    BY <1>1, <1>9 DEF EchoedOnce
  <2>2. QED
    BY <1>1, <1>2, <2>1 DEF EchoedOnce, Paired
<1>16. QED
  BY <1>3, <1>11, <1>12, <1>14, <1>15 DEF LoopInv

(* The queue gives up its head; what is left was there.                    *)
LEMMA OutboxGivesUp ==
    ASSUME TypeInv, LoopInv, outbox # <<>>, outbox' = Tail(outbox)
    PROVE  /\ Head(outbox) \in Write /\ Ours(Head(outbox)) /\ Head(outbox).n <= seq
           /\ Paired(Head(outbox)) <=> Head(outbox) \in pending
           /\ \A k \in DOMAIN outbox' :
                 /\ Ours(outbox'[k]) /\ outbox'[k].n <= seq
                 /\ Paired(outbox'[k]) => outbox'[k] \in pending /\ outbox'[k] # Head(outbox)
           /\ \A k, l \in DOMAIN outbox' : Paired(outbox'[k]) /\ outbox'[k] = outbox'[l] => k = l
<1>1. outbox \in Seq(Write) /\ Queued /\ Once
  BY DEF TypeInv, TypeOK, LoopInv
<1>2. /\ Head(outbox) = outbox[1] /\ 1 \in DOMAIN outbox /\ Head(outbox) \in Write /\ DOMAIN outbox' \subseteq Nat
      /\ \A k \in DOMAIN outbox' : k + 1 \in DOMAIN outbox /\ k + 1 # 1 /\ outbox'[k] = outbox[k + 1]
  BY <1>1, Shortened
<1>3. Ours(outbox[1]) /\ outbox[1].n <= seq /\ (Paired(outbox[1]) <=> outbox[1] \in pending)
  BY <1>1, <1>2 DEF Queued
<1>4. \A k \in DOMAIN outbox' :
         /\ Ours(outbox'[k]) /\ outbox'[k].n <= seq
         /\ Paired(outbox'[k]) => outbox'[k] \in pending /\ outbox'[k] # outbox[1]
  BY <1>1, <1>2 DEF Queued, Once
<1>5. ASSUME NEW k \in DOMAIN outbox', NEW l \in DOMAIN outbox', Paired(outbox'[k]), outbox'[k] = outbox'[l]
      PROVE  k = l
  <2>1. k + 1 = l + 1
    BY <1>1, <1>2, <1>5 DEF Once
  <2>2. QED
    BY <1>2, <2>1
<1>6. QED
  BY <1>2, <1>3, <1>4, <1>5

LEMMA SendFailsLoop ==
    ASSUME TypeInv, LoopInv, SendFails
    PROVE  LoopInv'
<1>1. TypeOK /\ Steady /\ Queued /\ Once /\ Awaiting /\ Heard /\ EchoedOnce /\ Balanced /\ NewLater /\ NothingBack
  BY DEF TypeInv, LoopInv
<1>2. /\ UNCHANGED <<stored, loaded, writing, seq, pending, invalid, owners, recent, inbox, later, shown, owed>>
      /\ outbox # <<>> /\ outbox' = Tail(outbox)
  BY DEF SendFails, orderVars, adapterVars, publishedVars, sentVars
<1>3. Steady' /\ NewLater' /\ NothingBack' /\ Balanced' /\ Awaiting'
  BY <1>1, <1>2, SameBalance, SameAwaiting DEF Steady, NewLater, NothingBack
<1>4. Queued' /\ Once'
  <2>1. /\ \A k \in DOMAIN outbox' : Ours(outbox'[k]) /\ outbox'[k].n <= seq /\ (Paired(outbox'[k]) => outbox'[k] \in pending)
        /\ \A k, l \in DOMAIN outbox' : Paired(outbox'[k]) /\ outbox'[k] = outbox'[l] => k = l
    BY <1>2, OutboxGivesUp
  <2>2. QED
    BY <1>1, <1>2, <2>1 DEF Queued, Once, Paired
<1>5. Heard' /\ EchoedOnce'
  BY <1>1, <1>2 DEF Heard, EchoedOnce, IsEcho, IsAnswer, IsForeign
<1>6. QED
  BY <1>3, <1>4, <1>5 DEF LoopInv

(* The queue of handlers after a telegram was received.                    *)
LEMMA HeardMore ==
    ASSUME TypeOK, NEW tel \in Telegram, inbox' = Scheduled(tel) \/ inbox' = Append(inbox, tel)
    PROVE  /\ \A i \in DOMAIN inbox' : (i \in DOMAIN inbox /\ inbox'[i] = inbox[i]) \/ (i = Len(inbox) + 1 /\ inbox'[i] = tel)
           /\ \A K : /\ Cardinality(Among(inbox, K)) \in Nat /\ Cardinality(Among(inbox', K)) \in Nat
                     /\ Cardinality(Among(inbox', K)) <= Cardinality(Among(inbox, K)) + (IF tel \in K THEN 1 ELSE 0)
<1>1. inbox \in Seq(Telegram)
  BY DEF TypeOK
<1>2. \A K : Cardinality(Among(inbox, K)) \in Nat
  BY <1>1, AmongFinite
<1>3. CASE inbox' = inbox
  BY <1>2, <1>3
<1>4. CASE inbox' = Append(inbox, tel)
  <2>1. \A K : Cardinality(Among(inbox', K)) = Cardinality(Among(inbox, K)) + (IF tel \in K THEN 1 ELSE 0)
    BY <1>1, <1>4, AmongGrown
  <2>2. \A i \in DOMAIN inbox' : (i \in DOMAIN inbox /\ inbox'[i] = inbox[i]) \/ (i = Len(inbox) + 1 /\ inbox'[i] = tel)
    BY <1>1, <1>4, Grown
  <2>3. QED
    BY <1>2, <2>1, <2>2
<1>5. QED
  BY <1>3, <1>4 DEF Scheduled

(* A telegram that is no echo joins the queue.                             *)
LEMMA NoEchoMore ==
    ASSUME TypeOK, Heard, EchoedOnce, NEW tel \in Telegram, IsAnswer(tel) \/ IsForeign(tel),
           inbox' = Scheduled(tel) \/ inbox' = Append(inbox, tel),
           UNCHANGED <<seq, writing, pending, owners, recent>>
    PROVE  Heard' /\ EchoedOnce'
<1>1. \A i \in DOMAIN inbox' : (i \in DOMAIN inbox /\ inbox'[i] = inbox[i]) \/ (i = Len(inbox) + 1 /\ inbox'[i] = tel)
  BY HeardMore
<1>2. tel.out # TRUE
  BY DEF IsAnswer, IsForeign
<1>3. Heard'
  <2>1. \A i \in DOMAIN inbox' : IsEcho(inbox'[i]) \/ IsAnswer(inbox'[i]) \/ IsForeign(inbox'[i])
    BY <1>1 DEF Heard
  <2>2. QED
    BY <2>1 DEF Heard, IsEcho, IsAnswer, IsForeign, Ours, Paired
<1>4. EchoedOnce'
  <2>1. \A i \in DOMAIN inbox' : inbox'[i].out = TRUE => i \in DOMAIN inbox /\ inbox'[i] = inbox[i]
    BY <1>1, <1>2
  <2>2. \A i, k \in DOMAIN inbox' :
           inbox'[i].out = TRUE /\ inbox'[k].out = TRUE /\ inbox'[i].origin = inbox'[k].origin /\ Paired(inbox'[i].origin)
           => i = k
    BY <2>1 DEF EchoedOnce
  <2>3. \A k \in DOMAIN inbox' : inbox'[k].out = TRUE /\ Paired(inbox'[k].origin) =>
           \A i \in DOMAIN writing : \A j \in DOMAIN writing[i] : writing[i][j] # inbox'[k].origin
    BY <2>1 DEF EchoedOnce
  <2>4. QED
    BY <2>2, <2>3 DEF EchoedOnce, Paired
<1>5. QED
  BY <1>3, <1>4

(* The sizes that are compared are numbers.                                *)
LEMMA Sizes ==
    ASSUME Awaiting, NEW b, NEW r
    PROVE  /\ IsFiniteSet(Owing(b, r)) /\ Cardinality(Owing(b, r)) \in Nat
           /\ IsFiniteSet(Awaited(b, r)) /\ Cardinality(Awaited(b, r)) \in Nat
<1>1. Owing(b, r) \in SUBSET owed /\ Awaited(b, r) \in SUBSET recent
  BY DEF Owing, Awaited
<1>2. IsFiniteSet(Owing(b, r)) /\ IsFiniteSet(Awaited(b, r))
  BY <1>1, FS_Subset DEF Awaiting
<1>3. QED
  BY <1>2, FS_CardinalityType

(* A device answers: one answer less to come, one more to be handled.      *)
LEMMA FeedbackLoop ==
    ASSUME TypeInv, LoopInv, NEW o \in owed, Feedback(o)
    PROVE  LoopInv'
<1> DEFINE tel == [out |-> FALSE, ga |-> o.w.c.state, raw |-> Encode[o.w.val], origin |-> o.w]
<1>1. TypeOK /\ Steady /\ Queued /\ Once /\ Awaiting /\ Heard /\ EchoedOnce /\ Balanced /\ NewLater /\ NothingBack
  BY DEF TypeInv, LoopInv
<1>2. /\ UNCHANGED <<stored, loaded, writing, seq, outbox, pending, invalid, owners, recent, later, shown>>
      /\ owed' = owed \ {o} /\ inbox' = Scheduled(tel)
  BY DEF Feedback, orderVars, adapterVars, publishedVars, sentVars
<1>3. Steady' /\ Queued' /\ Once' /\ NewLater' /\ NothingBack'
  BY <1>1, <1>2 DEF Steady, Queued, Once, NewLater, NothingBack
<1>4. o.w \in Write /\ Ours(o.w) /\ o.w.c.state # NoGa
  BY <1>1 DEF TypeOK, Awaiting, TypeInv, Answered
<1>5. tel \in Telegram /\ IsAnswer(tel)
  BY <1>4, WriteIs DEF Telegram, IsAnswer
<1>6. /\ tel.out = FALSE /\ tel.origin # NoWrite /\ tel.origin.b = o.w.b /\ tel.raw = Encode[o.w.val]
  BY <1>4, OriginAssumption
<1> HIDE DEF tel
<1>7. Heard' /\ EchoedOnce'
  BY <1>1, <1>2, <1>5, NoEchoMore
<1>8. Awaiting'
  BY <1>1, <1>2, FS_RemoveElement DEF Awaiting
<1>9. Balanced'
  <2>1. SUFFICES ASSUME NEW b \in Binding, NEW r \in Raw, Is(b, {"BOTH"})
        PROVE  Cardinality(Owing(b, r)') + Cardinality(Among(inbox', Answers(b, r))) <= Cardinality(Awaited(b, r)')
    BY DEF Balanced, Among
  <2> DEFINE K == Answers(b, r)
  <2>2. Cardinality(Owing(b, r)) + Cardinality(Among(inbox, K)) <= Cardinality(Awaited(b, r))
    BY <1>1, <2>1 DEF Balanced
  <2>3. Awaited(b, r)' = Awaited(b, r)
    BY <1>2 DEF Awaited
  <2>4. /\ Cardinality(Among(inbox, K)) \in Nat /\ Cardinality(Among(inbox', K)) \in Nat
        /\ Cardinality(Among(inbox', K)) <= Cardinality(Among(inbox, K)) + (IF tel \in K THEN 1 ELSE 0)
    BY <1>1, <1>2, <1>5, HeardMore
  <2>5. /\ IsFiniteSet(Owing(b, r)) /\ Cardinality(Owing(b, r)) \in Nat /\ Cardinality(Awaited(b, r)) \in Nat
    BY <1>1, Sizes
  <2>6. Owing(b, r)' = Owing(b, r) \ {o}
    BY <1>2 DEF Owing
  <2>7. o \in Owing(b, r) <=> tel \in K
    BY <1>5, <1>6 DEF Owing, Answers
  <2>8. Cardinality(Owing(b, r)') = IF tel \in K THEN Cardinality(Owing(b, r)) - 1 ELSE Cardinality(Owing(b, r))
    BY <2>5, <2>6, <2>7, FS_RemoveElement
  <2> HIDE DEF K
  <2>9. QED
    BY <2>2, <2>3, <2>4, <2>5, <2>8 DEF K
<1>10. QED
  BY <1>3, <1>7, <1>8, <1>9 DEF LoopInv

(* What another device sends reads like no answer.                         *)
LEMMA ForeignLoop ==
    ASSUME TypeInv, LoopInv, NEW ga \in Ga, NEW raw \in Raw, Foreign(ga, raw)
    PROVE  LoopInv'
<1> DEFINE tel == [out |-> FALSE, ga |-> ga, raw |-> raw, origin |-> NoWrite]
<1>1. TypeOK /\ Steady /\ Queued /\ Once /\ Awaiting /\ Heard /\ EchoedOnce /\ Balanced /\ NewLater /\ NothingBack
  BY DEF TypeInv, LoopInv
<1>2. /\ UNCHANGED <<stored, loaded, writing, seq, outbox, pending, invalid, owners, recent, later, shown, owed>>
      /\ inbox' = Append(inbox, tel)
  BY DEF Foreign, orderVars, adapterVars, publishedVars, sentVars
<1>3. Steady' /\ Queued' /\ Once' /\ NewLater' /\ NothingBack' /\ Awaiting'
  BY <1>1, <1>2, SameAwaiting DEF Steady, Queued, Once, NewLater, NothingBack
<1>4. tel \in Telegram /\ IsForeign(tel) /\ tel.origin = NoWrite
  BY DEF Telegram, IsForeign, Foreign
<1> HIDE DEF tel
<1>5. Heard' /\ EchoedOnce'
  BY <1>1, <1>2, <1>4, NoEchoMore
<1>6. Balanced'
  <2>1. SUFFICES ASSUME NEW b \in Binding, NEW r \in Raw, Is(b, {"BOTH"})
        PROVE  Cardinality(Owing(b, r)') + Cardinality(Among(inbox', Answers(b, r))) <= Cardinality(Awaited(b, r)')
    BY DEF Balanced, Among
  <2>2. Cardinality(Owing(b, r)) + Cardinality(Among(inbox, Answers(b, r))) <= Cardinality(Awaited(b, r))
    BY <1>1, <2>1 DEF Balanced
  <2>3. Awaited(b, r)' = Awaited(b, r) /\ Owing(b, r)' = Owing(b, r)
    BY <1>2 DEF Awaited, Owing
  <2>4. tel \notin Answers(b, r)
    BY <1>4 DEF Answers
  <2>5. /\ Cardinality(Among(inbox, Answers(b, r))) \in Nat /\ Cardinality(Among(inbox', Answers(b, r))) \in Nat
        /\ Cardinality(Among(inbox', Answers(b, r))) <= Cardinality(Among(inbox, Answers(b, r)))
    <3>1. /\ Cardinality(Among(inbox, Answers(b, r))) \in Nat /\ Cardinality(Among(inbox', Answers(b, r))) \in Nat
          /\ Cardinality(Among(inbox', Answers(b, r)))
             <= Cardinality(Among(inbox, Answers(b, r))) + (IF tel \in Answers(b, r) THEN 1 ELSE 0)
      BY <1>1, <1>2, <1>4, HeardMore
    <3>2. QED
      BY <2>4, <3>1
  <2>6. Cardinality(Owing(b, r)) \in Nat /\ Cardinality(Awaited(b, r)) \in Nat
    BY <1>1, Sizes
  <2>7. QED
    BY <2>2, <2>3, <2>5, <2>6
<1>7. QED
  BY <1>3, <1>5, <1>6 DEF LoopInv

(* A transmission expects as many answers more as it asks for.             *)
LEMMA TransmitLoop ==
    ASSUME TypeInv, LoopInv, Transmit
    PROVE  LoopInv'
<1> DEFINE w == Head(outbox)
           valid == w \in pending /\ ~ \E i \in invalid : i.w = w
           at == clock + 1
           o == [w |-> w, at |-> at]
           e(ga) == [w |-> w, ga |-> ga, at |-> at]
           tel == [out |-> TRUE, ga |-> w.c.cmd, raw |-> Encode[w.val], origin |-> w]
<1>1. TypeOK /\ Steady /\ Queued /\ Once /\ Awaiting /\ Heard /\ EchoedOnce /\ Balanced /\ NewLater /\ NothingBack
  BY DEF TypeInv, LoopInv
<1>2. /\ UNCHANGED <<stored, loaded, writing, seq, invalid, later, shown>>
      /\ outbox # <<>> /\ outbox' = Tail(outbox)
      /\ recent' = recent \cup {e(ga) : ga \in IF valid THEN {w.c.cmd, w.c.state} \ {NoGa} ELSE {}}
      /\ owners' = owners \cup (IF valid THEN {o} ELSE {})
      /\ pending' = IF valid THEN pending \ {w} ELSE pending
      /\ owed' = IF w.c.state = NoGa THEN owed ELSE owed \cup {o}
      /\ inbox' = Scheduled(tel)
      /\ BusSettled(w)
  BY DEF Transmit, orderVars, publishedVars, sentVars
<1>3. Steady' /\ NewLater' /\ NothingBack'
  BY <1>1, <1>2 DEF Steady, NewLater, NothingBack
<1>4. /\ w \in Write /\ Ours(w) /\ w.n <= seq /\ (Paired(w) <=> w \in pending)
      /\ \A k \in DOMAIN outbox' :
            /\ Ours(outbox'[k]) /\ outbox'[k].n <= seq
            /\ Paired(outbox'[k]) => outbox'[k] \in pending /\ outbox'[k] # w
      /\ \A k, l \in DOMAIN outbox' : Paired(outbox'[k]) /\ outbox'[k] = outbox'[l] => k = l
  BY <1>2, OutboxGivesUp
<1>5. /\ w.b \in Binding /\ w.c.cmd \in Ga /\ w.c.state \in Ga \cup {NoGa} /\ Encode[w.val] \in Raw
      /\ w.c.cmd # w.c.state /\ w.c.cmd # NoGa
  BY <1>4, WriteIs, ConfigAssumption
<1>6. valid <=> Paired(w)
  BY <1>1, <1>4 DEF Steady
<1>7. tel \in Telegram
  BY <1>4, <1>5 DEF Telegram
<1>8. clock \in Nat /\ at \in Nat /\ \A x \in recent : x \in RecentOf /\ x.at \in Nat /\ x.at # at
  <2>1. clock \in Nat /\ \A x \in recent : x \in RecentOf /\ x.at \in Nat /\ x.at <= clock
    BY DEF TypeInv, TypeOK, Timed, RecentOf
  <2>2. QED
    BY <2>1
<1>9. /\ tel.out = TRUE /\ tel.origin = w /\ tel.ga = w.c.cmd /\ tel.raw = Encode[w.val]
      /\ o.w = w /\ \A ga : e(ga).w = w /\ e(ga).ga = ga /\ e(ga).at = at
  OBVIOUS
<1> HIDE DEF w, valid, at, o, e, tel
<1>10. Queued' /\ Once'
  <2>1. pending' \subseteq pending /\ \A x \in pending : x # w => x \in pending'
    BY <1>2
  <2>2. \A i \in DOMAIN writing : \A j \in DOMAIN writing[i] :
           Ours(writing[i][j]) /\ writing[i][j].n <= seq /\ writing[i][j] \notin pending'
    BY <1>1, <2>1 DEF Queued
  <2>3. \A x \in pending' : Paired(x) /\ x.n <= seq
    BY <1>1, <2>1 DEF Queued
  <2>4. \A k \in DOMAIN outbox' : Ours(outbox'[k]) /\ outbox'[k].n <= seq /\ (Paired(outbox'[k]) => outbox'[k] \in pending')
    BY <1>4, <2>1
  <2>5. Queued'
    BY <1>2, <2>2, <2>3, <2>4 DEF Queued
  <2>6. Once'
    BY <1>1, <1>2, <1>4 DEF Once, Paired
  <2>7. QED
    BY <2>5, <2>6
<1>11. /\ \A x \in recent' : x \in recent \/ (x.w = w /\ x.ga \in {w.c.cmd, w.c.state} /\ valid)
       /\ valid => e(w.c.cmd) \in recent'
  BY <1>2, <1>5, <1>9
<1>12. Awaiting'
  <2>1. IsFiniteSet(recent')
    <3>1. IsFiniteSet(recent \cup {e(w.c.cmd)})
      BY <1>1, FS_AddElement DEF Awaiting
    <3>2. IsFiniteSet((recent \cup {e(w.c.cmd)}) \cup {e(w.c.state)})
      BY <3>1, FS_AddElement
    <3>3. recent' \in SUBSET ((recent \cup {e(w.c.cmd)}) \cup {e(w.c.state)})
      BY <1>2
    <3>4. QED
      BY <3>2, <3>3, FS_Subset
  <2>2. IsFiniteSet(owed')
    <3>1. IsFiniteSet(owed \cup {o})
      BY <1>1, FS_AddElement DEF Awaiting
    <3>2. owed' \in SUBSET (owed \cup {o})
      BY <1>2
    <3>3. QED
      BY <3>1, <3>2, FS_Subset
  <2>3. \A x \in recent' : Paired(x.w) /\ x.ga \in {x.w.c.cmd, x.w.c.state}
    BY <1>1, <1>6, <1>11 DEF Awaiting
  <2>4. \A x \in owed' : Ours(x.w)
    BY <1>1, <1>2, <1>4, <1>9 DEF Awaiting
  <2>5. QED
    BY <2>1, <2>2, <2>3, <2>4 DEF Awaiting, Ours, Paired
<1>13. \A i \in DOMAIN inbox' : (i \in DOMAIN inbox /\ inbox'[i] = inbox[i]) \/ (i = Len(inbox) + 1 /\ inbox'[i] = tel)
  BY <1>1, <1>2, <1>7, HeardMore
<1>14. Heard'
  <2>1. SUFFICES ASSUME NEW i \in DOMAIN inbox', NEW t, t = inbox'[i]
                 PROVE  IsEcho(t)' \/ IsAnswer(t)' \/ IsForeign(t)'
    BY DEF Heard, IsEcho, IsAnswer, IsForeign, Ours, Paired
  <2>2. CASE t = tel
    <3>1. Paired(w) => /\ w \notin pending'
                       /\ \E x \in owners' : x.w = w
                       /\ \E x \in recent' : x.w = w /\ x.ga = tel.ga
      <4>1. SUFFICES ASSUME Paired(w) PROVE w \notin pending' /\ o \in owners' /\ e(w.c.cmd) \in recent'
        BY <1>9
      <4>2. QED
        BY <1>2, <1>6, <1>11, <4>1
    <3>2. /\ tel.out = TRUE /\ tel.origin \in Write /\ tel.ga = tel.origin.c.cmd /\ tel.raw = Encode[tel.origin.val]
          /\ Ours(tel.origin) /\ tel.origin.n <= seq'
      BY <1>2, <1>4, <1>9
    <3>3. QED
      BY <1>9, <2>2, <3>1, <3>2 DEF IsEcho, Ours, Paired
  <2>3. CASE i \in DOMAIN inbox /\ t = inbox[i]
    <3>1. IsEcho(t) \/ IsAnswer(t) \/ IsForeign(t)
      BY <1>1, <2>3 DEF Heard
    <3>2. CASE IsEcho(t)
      <4>1. pending' \subseteq pending /\ owners \subseteq owners' /\ recent \subseteq recent' /\ seq' = seq
        BY <1>2
      <4>2. QED
        BY <2>3, <3>2, <4>1 DEF IsEcho, Ours, Paired
    <3>3. CASE IsAnswer(t)
      BY <2>3, <3>3 DEF IsAnswer, Ours
    <3>4. CASE IsForeign(t)
      <4>1. ~(t.ga = w.c.state /\ t.raw = Encode[w.val])
        BY <1>2, <2>3, <3>4 DEF BusSettled, IsForeign
      <4>2. \A x \in recent' : ~(x.w.c.state = t.ga /\ Encode[x.w.val] = t.raw)
        BY <1>11, <3>4, <4>1 DEF IsForeign
      <4>3. QED
        BY <2>3, <3>4, <4>2 DEF IsForeign
    <3>5. QED
      BY <3>1, <3>2, <3>3, <3>4
  <2>4. QED
    BY <1>13, <2>1, <2>2, <2>3
<1>15. EchoedOnce'
  <2>1. \A k \in DOMAIN inbox : inbox[k].out = TRUE /\ Paired(inbox[k].origin) => inbox[k].origin \notin pending
    BY <1>1 DEF Heard, IsEcho, IsAnswer, IsForeign
  <2>2. Paired(w) => \A k \in DOMAIN inbox : inbox[k].out = TRUE => inbox[k].origin # w
    BY <1>4, <2>1
  <2>3. ASSUME NEW i \in DOMAIN inbox', NEW k \in DOMAIN inbox',
               inbox'[i].out = TRUE, inbox'[k].out = TRUE, inbox'[i].origin = inbox'[k].origin, Paired(inbox'[i].origin)
        PROVE  i = k
    BY <1>1, <1>9, <1>13, <2>2, <2>3 DEF EchoedOnce
  <2>4. ASSUME NEW k \in DOMAIN inbox', inbox'[k].out = TRUE, Paired(inbox'[k].origin),
               NEW i \in DOMAIN writing, NEW j \in DOMAIN writing[i]
        PROVE  writing[i][j] # inbox'[k].origin
    <3>1. CASE inbox'[k] = tel
      BY <1>1, <1>4, <1>9, <2>4, <3>1 DEF Queued
    <3>2. CASE k \in DOMAIN inbox /\ inbox'[k] = inbox[k]
      BY <1>1, <2>4, <3>2 DEF EchoedOnce
    <3>3. QED
      BY <1>13, <3>1, <3>2
  <2>5. QED
    BY <1>2, <2>3, <2>4 DEF EchoedOnce, Paired
<1>16. Balanced'
  <2>1. SUFFICES ASSUME NEW b \in Binding, NEW r \in Raw, Is(b, {"BOTH"})
        PROVE  Cardinality(Owing(b, r)') + Cardinality(Among(inbox', Answers(b, r))) <= Cardinality(Awaited(b, r)')
    BY DEF Balanced, Among
  <2> DEFINE asks == w.c.state # NoGa /\ w.b = b /\ Encode[w.val] = r
  <2>2. Cardinality(Owing(b, r)) + Cardinality(Among(inbox, Answers(b, r))) <= Cardinality(Awaited(b, r))
    BY <1>1, <2>1 DEF Balanced
  <2>3. /\ Cardinality(Among(inbox, Answers(b, r))) \in Nat /\ Cardinality(Among(inbox', Answers(b, r))) \in Nat
        /\ Cardinality(Among(inbox', Answers(b, r))) <= Cardinality(Among(inbox, Answers(b, r)))
    <3>1. tel \notin Answers(b, r)
      BY <1>9 DEF Answers
    <3>2. /\ Cardinality(Among(inbox, Answers(b, r))) \in Nat /\ Cardinality(Among(inbox', Answers(b, r))) \in Nat
          /\ Cardinality(Among(inbox', Answers(b, r)))
             <= Cardinality(Among(inbox, Answers(b, r))) + (IF tel \in Answers(b, r) THEN 1 ELSE 0)
      BY <1>1, <1>2, <1>7, HeardMore
    <3>3. QED
      BY <3>1, <3>2
  <2>4. /\ IsFiniteSet(Owing(b, r)) /\ Cardinality(Owing(b, r)) \in Nat
        /\ IsFiniteSet(Awaited(b, r)) /\ Cardinality(Awaited(b, r)) \in Nat
    BY <1>1, Sizes
  <2> HIDE DEF asks
  <2>5. CASE asks
    <3>1. valid /\ w.c.state # NoGa /\ w.b = b /\ Encode[w.val] = r
      BY <1>4, <1>6, <2>1, <2>5 DEF asks, Is, Ours, Paired
    <3>2. Owing(b, r)' \in SUBSET (Owing(b, r) \cup {o})
      BY <1>2 DEF Owing
    <3>3. IsFiniteSet(Owing(b, r) \cup {o}) /\ Cardinality(Owing(b, r) \cup {o}) <= Cardinality(Owing(b, r)) + 1
      BY <2>4, FS_AddElement
    <3>4. /\ Cardinality(Owing(b, r)') <= Cardinality(Owing(b, r) \cup {o}) /\ Cardinality(Owing(b, r)') \in Nat
          /\ Cardinality(Owing(b, r) \cup {o}) \in Nat
      BY <3>2, <3>3, FS_Subset, FS_CardinalityType
    <3>5. Awaited(b, r)' = Awaited(b, r) \cup {e(w.c.state)}
      <4>1. e(w.c.state) \in recent'
        BY <1>2, <3>1
      <4>2. \A x \in recent' : x \in recent \/ x = e(w.c.cmd) \/ x = e(w.c.state)
        BY <1>2
      <4>3. e(w.c.cmd).ga # e(w.c.cmd).w.c.state
        BY <1>5, <1>9
      <4>4. recent \subseteq recent'
        BY <1>2
      <4>5. QED
        BY <1>9, <3>1, <4>1, <4>2, <4>3, <4>4 DEF Awaited
    <3>6. e(w.c.state) \notin Awaited(b, r)
      BY <1>8, <1>9 DEF Awaited
    <3>7. Cardinality(Awaited(b, r)') = Cardinality(Awaited(b, r)) + 1
      BY <2>4, <3>5, <3>6, FS_AddElement
    <3>8. QED
      BY <2>2, <2>3, <2>4, <3>3, <3>4, <3>7
  <2>6. CASE ~asks
    <3>1. Owing(b, r)' \in SUBSET Owing(b, r)
      BY <1>2, <1>9, <2>6 DEF Owing, asks
    <3>2. Awaited(b, r)' = Awaited(b, r)
      <4>1. recent \subseteq recent' /\ \A x \in recent' : x \in recent \/ x = e(w.c.cmd) \/ (x = e(w.c.state) /\ valid /\ w.c.state # NoGa)
        BY <1>2
      <4>2. e(w.c.cmd).ga # e(w.c.cmd).w.c.state
        BY <1>5, <1>9
      <4>3. QED
        BY <1>9, <2>6, <4>1, <4>2 DEF Awaited, asks
    <3>3. Cardinality(Owing(b, r)') <= Cardinality(Owing(b, r)) /\ Cardinality(Owing(b, r)') \in Nat
      BY <2>4, <3>1, FS_Subset, FS_CardinalityType
    <3>4. QED
      BY <2>2, <2>3, <2>4, <3>2, <3>3
  <2>7. QED
    BY <2>5, <2>6
<1>17. QED
  BY <1>3, <1>10, <1>12, <1>14, <1>15, <1>16 DEF LoopInv

(* Time only forgets expectations, of echoes when their handlers have run, *)
(* and of answers when none that reads like them is to come.               *)
LEMMA FewerAwaited ==
    ASSUME Awaiting, recent' \subseteq recent, owed' \subseteq owed
    PROVE  Awaiting'
<1>1. recent' \in SUBSET recent /\ owed' \in SUBSET owed
  OBVIOUS
<1>2. IsFiniteSet(recent') /\ IsFiniteSet(owed')
  BY <1>1, FS_Subset DEF Awaiting
<1>3. QED
  BY <1>2 DEF Awaiting, Ours, Paired

LEMMA ExpireEchoesLoop ==
    ASSUME TypeInv, LoopInv, NEW k, ExpireEchoes(k)
    PROVE  LoopInv'
<1>1. TypeOK /\ Steady /\ Queued /\ Once /\ Awaiting /\ Heard /\ EchoedOnce /\ Balanced /\ NewLater /\ NothingBack
  BY DEF TypeInv, LoopInv
<1>2. /\ UNCHANGED <<stored, loaded, writing, seq, outbox, pending, invalid, inbox, later, shown, owed>>
      /\ recent' = {e \in recent : e.ga = e.w.c.state \/ e.at > k}
      /\ \A i \in DOMAIN inbox : ~inbox[i].out
  BY DEF ExpireEchoes, orderVars, publishedVars, sentVars
<1>3. Steady' /\ Queued' /\ Once' /\ NewLater' /\ NothingBack' /\ EchoedOnce'
  BY <1>1, <1>2 DEF Steady, Queued, Once, NewLater, NothingBack, EchoedOnce
<1>4. Awaiting'
  BY <1>1, <1>2, FewerAwaited
<1>5. Heard'
  <2>1. \A i \in DOMAIN inbox : IsAnswer(inbox[i]) \/ IsForeign(inbox[i])
    BY <1>1, <1>2 DEF Heard, IsEcho
  <2>2. QED
    BY <1>2, <2>1 DEF Heard, IsAnswer, IsForeign, Ours
<1>6. Balanced'
  <2>1. \A b, r : Awaited(b, r)' = Awaited(b, r) /\ Owing(b, r)' = Owing(b, r)
    BY <1>2 DEF Awaited, Owing
  <2>2. QED
    BY <1>1, <1>2, <2>1 DEF Balanced
<1>7. QED
  BY <1>3, <1>4, <1>5, <1>6 DEF LoopInv

LEMMA ExpireStatesLoop ==
    ASSUME TypeInv, LoopInv, NEW k, ExpireStates(k)
    PROVE  LoopInv'
<1> DEFINE expired == {e \in recent : e.at <= k}
           spent == {<<e.ga, Encode[e.w.val]>> : e \in expired} \cup {<<t.ga, t.raw>> : t \in {u \in Range(tombs) : u.at <= k}}
           answered(o) == o.at <= k \/ <<o.w.c.state, Encode[o.w.val]>> \in spent
<1>1. TypeOK /\ Steady /\ Queued /\ Once /\ Awaiting /\ Heard /\ EchoedOnce /\ Balanced /\ NewLater /\ NothingBack
  BY DEF TypeInv, LoopInv
<1>2. /\ UNCHANGED <<stored, loaded, writing, seq, outbox, pending, invalid, inbox, later, shown>>
      /\ recent' = recent \ expired
      /\ owed' = {o \in owed : ~answered(o)}
      /\ inbox = <<>>
  BY DEF ExpireStates, orderVars, publishedVars, sentVars
<1>3. Steady' /\ Queued' /\ Once' /\ NewLater' /\ NothingBack'
  BY <1>1, <1>2 DEF Steady, Queued, Once, NewLater, NothingBack
<1>4. Heard' /\ EchoedOnce'
  BY <1>2 DEF Heard, EchoedOnce
<1>5. Awaiting'
  BY <1>1, <1>2, FewerAwaited
<1>6. Balanced'
  <2>1. SUFFICES ASSUME NEW b \in Binding, NEW r \in Raw, Is(b, {"BOTH"})
        PROVE  Cardinality(Owing(b, r)') + Cardinality(Among(inbox', Answers(b, r))) <= Cardinality(Awaited(b, r)')
    BY DEF Balanced, Among
  <2>2. Among(inbox, Answers(b, r)) = {} /\ Among(inbox', Answers(b, r)) = {} /\ Cardinality({}) = 0
    <3>1. inbox' = <<>> /\ inbox = <<>>
      BY <1>2
    <3>2. QED
      BY <3>1, FS_EmptySet DEF Among
  <2>3. Cardinality(Owing(b, r)) + 0 <= Cardinality(Awaited(b, r))
    BY <1>1, <2>1, <2>2 DEF Balanced
  <2>4. /\ IsFiniteSet(Owing(b, r)) /\ Cardinality(Owing(b, r)) \in Nat
        /\ IsFiniteSet(Awaited(b, r)) /\ Cardinality(Awaited(b, r)) \in Nat
        /\ Cardinality(Awaited(b, r)') \in Nat
    <3>1. Awaited(b, r)' \in SUBSET recent'
      BY DEF Awaited
    <3>2. IsFiniteSet(Awaited(b, r)')
      BY <1>5, <3>1, FS_Subset DEF Awaiting
    <3>3. QED
      BY <1>1, <3>2, Sizes, FS_CardinalityType
  <2>5. CASE \E e \in Awaited(b, r) : e \in expired
    <3>1. PICK e \in Awaited(b, r) : e \in expired
      BY <2>5
    <3>2. e.w.c = InitConfig[b] /\ <<e.w.c.state, r>> \in spent
      BY <1>1, <3>1 DEF Awaited, Awaiting, Paired
    <3>3. \A o \in Owing(b, r) : o.w.c.state = e.w.c.state /\ Encode[o.w.val] = r
      BY <1>1, <3>2 DEF Owing, Awaiting, Ours
    <3> HIDE DEF spent
    <3>4. Owing(b, r)' = {}
      BY <1>2, <3>2, <3>3 DEF Owing
    <3>5. QED
      BY <2>2, <2>4, <3>4
  <2>6. CASE ~ \E e \in Awaited(b, r) : e \in expired
    <3> HIDE DEF expired, answered
    <3>1. Awaited(b, r)' = Awaited(b, r)
      BY <1>2, <2>6 DEF Awaited
    <3>2. Owing(b, r)' \in SUBSET Owing(b, r)
      BY <1>2 DEF Owing
    <3>3. Cardinality(Owing(b, r)') <= Cardinality(Owing(b, r)) /\ Cardinality(Owing(b, r)') \in Nat
      BY <2>4, <3>2, FS_Subset, FS_CardinalityType
    <3>4. QED
      BY <2>2, <2>3, <2>4, <3>1, <3>3
  <2>7. QED
    BY <2>5, <2>6
<1>7. QED
  BY <1>3, <1>4, <1>5, <1>6 DEF LoopInv

(* Every telegram of OBS is recognised: an echo by its owner and the       *)
(* expectation of it, an answer by one of the expectations, of which there *)
(* are no fewer; and a telegram nobody expects back is not read for the    *)
(* data point it was written for.                                          *)
LEMMA HeadIsRecognised ==
    ASSUME Separate, TypeInv, LoopInv, inbox # <<>>, NEW tel, tel = Head(inbox)
    PROVE  /\ tel \in Telegram /\ 1 \in DOMAIN inbox /\ tel = inbox[1]
           /\ IsEcho(tel) \/ IsAnswer(tel) \/ IsForeign(tel)
           /\ Recognised(tel)
<1>1. TypeOK /\ Steady /\ Awaiting /\ Heard /\ Balanced /\ inbox \in Seq(Telegram)
  BY DEF TypeInv, LoopInv, TypeOK
<1>2. tel \in Telegram /\ 1 \in DOMAIN inbox /\ tel = inbox[1]
  BY <1>1, Shortened
<1>3. IsEcho(tel) \/ IsAnswer(tel) \/ IsForeign(tel)
  BY <1>1, <1>2 DEF Heard
<1>4. SUFFICES ASSUME tel.origin # NoWrite, NEW b \in Listeners(tel.ga), loaded[b].dp = tel.origin.c.dp
               PROVE  loaded[b].dp \in LocalDps(tel)
  BY <1>2, <1>3 DEF Recognised
<1> DEFINE o == tel.origin
<1>5. CASE IsEcho(tel) /\ Paired(o)
  <2>1. PICK e \in recent : e.w = o /\ e.ga = tel.ga
    BY <1>5 DEF IsEcho
  <2>2. Owned(tel) /\ tel.out = TRUE /\ tel.ga = e.w.c.cmd /\ Encode[e.w.val] = tel.raw
    BY <1>5, <2>1 DEF IsEcho, Owned
  <2>3. e \in Matching(recent, tel)
    BY <2>1, <2>2 DEF Matching
  <2>4. e.w.c.dp \in LocalDps(tel)
    BY <2>2, <2>3 DEF LocalDps
  <2>5. QED
    BY <1>4, <2>1, <2>4
<1>6. CASE (IsEcho(tel) \/ IsAnswer(tel)) /\ ~Paired(o)
  <2>1. o \in Write /\ o.b \in Binding /\ o.c \in Configs /\ Ours(o) /\ tel.ga \in {o.c.cmd, o.c.state}
    BY <1>6, WriteIs DEF IsEcho, IsAnswer
  <2>2. o.c = InitConfig[o.b] /\ o.c.dir = "DEST" /\ o.c # NoConfig
    BY <1>6, <2>1, ConfigAssumption DEF Ours, Paired
  <2>3. Is(o.b, {"DEST"})
    BY <2>2 DEF Is
  <2>4. /\ b \in Binding /\ loaded[b] = InitConfig[b] /\ Is(b, {"SOURCE", "BOTH"})
        /\ tel.ga \in {InitConfig[b].cmd, InitConfig[b].state}
    BY <1>1 DEF Steady, Listeners, Is
  <2>5. tel.ga # NoGa
    BY <1>2, ConfigAssumption DEF Telegram
  <2>6. QED
    BY <1>4, <2>1, <2>2, <2>3, <2>4, <2>5 DEF Separate
<1>7. CASE IsAnswer(tel) /\ Paired(o)
  <2>1. /\ o \in Write /\ Paired(o) /\ tel.out = FALSE /\ tel.ga = o.c.state /\ tel.raw = Encode[o.val]
        /\ o.b \in Binding /\ tel.raw \in Raw /\ Is(o.b, {"BOTH"})
    BY <1>7, WriteIs, ConfigAssumption DEF IsAnswer, Paired, Is
  <2> DEFINE A == Among(inbox, Answers(o.b, tel.raw))
  <2>2. 1 \in A
    BY <1>2, <1>4, <2>1 DEF Among, Answers
  <2>3. IsFiniteSet(A) /\ Cardinality(A) \in Nat
    BY <1>1, AmongFinite
  <2>4. Cardinality(A) # 0
    BY <2>2, <2>3, FS_EmptySet
  <2>5. Cardinality(Owing(o.b, tel.raw)) + Cardinality(A) <= Cardinality(Awaited(o.b, tel.raw))
    BY <1>1, <2>1 DEF Balanced
  <2>6. Cardinality(Owing(o.b, tel.raw)) \in Nat /\ Cardinality(Awaited(o.b, tel.raw)) \in Nat
    BY <1>1, Sizes
  <2> HIDE DEF A
  <2>7. Cardinality(Awaited(o.b, tel.raw)) # 0
    BY <2>3, <2>4, <2>5, <2>6
  <2>8. Awaited(o.b, tel.raw) # {}
    BY <2>7, FS_EmptySet
  <2>9. PICK e \in recent : e.w.b = o.b /\ e.ga = e.w.c.state /\ Encode[e.w.val] = tel.raw
    BY <2>8 DEF Awaited
  <2>10. e.w.c = o.c
    BY <1>1, <2>1, <2>9 DEF Awaiting, Paired
  <2>11. e \in Matching(recent, tel) /\ tel.ga = e.w.c.state
    BY <2>1, <2>9, <2>10 DEF Matching
  <2>12. e.w.c.dp \in LocalDps(tel)
    BY <2>1, <2>11 DEF LocalDps
  <2>13. QED
    BY <1>4, <2>10, <2>12
<1>8. CASE IsForeign(tel)
  BY <1>4, <1>8 DEF IsForeign
<1>9. QED
  BY <1>3, <1>5, <1>6, <1>7, <1>8

(* The handler takes the expectation a telegram answers, and no other.     *)
LEMMA OnTelegramLoop ==
    ASSUME Separate, TypeInv, LoopInv, OnTelegram
    PROVE  LoopInv'
<1> DEFINE tel == Head(inbox)
           st == Handled(tel)
<1>1. TypeOK /\ Steady /\ Queued /\ Once /\ Awaiting /\ Heard /\ EchoedOnce /\ Balanced /\ NewLater /\ NothingBack
  BY DEF TypeInv, LoopInv
<1>2. /\ inbox # <<>> /\ inbox' = Tail(inbox) /\ inbox \in Seq(Telegram)
      /\ recent' = st.recent
      /\ owners' = {o \in owners : ~(tel.out /\ Listeners(tel.ga) # {} /\ o.w = tel.origin)}
      /\ UNCHANGED <<stored, loaded, writing, seq, outbox, pending, owed>>
      /\ invalid' = {i \in invalid : ~(tel.out /\ i.w = tel.origin)}
  BY <1>1 DEF OnTelegram, TypeOK, sentVars
<1>3. /\ tel \in Telegram /\ 1 \in DOMAIN inbox /\ tel = inbox[1]
      /\ IsEcho(tel) \/ IsAnswer(tel) \/ IsForeign(tel)
      /\ Recognised(tel)
  BY <1>2, HeadIsRecognised
<1>4. Takes(tel, st, Len(Entries(tel)))
  BY <1>1, <1>3, HandledTakes
<1>5. /\ st.events \in Seq(Event) /\ Len(st.events) \in Nat
      /\ st.events = <<>> => UNCHANGED <<publishedVars, routing, later>>
      /\ st.events # <<>> => 1 \in 1..Len(st.events) /\ st.events[1] \in Event /\ Publish(st.events[1])
      /\ \A k \in DOMAIN later' :
            \/ k \in DOMAIN later /\ later'[k] = later[k]
            \/ /\ k = Len(later) + 1
               /\ \A m \in DOMAIN later'[k] :
                     m \in Nat \ {0} /\ m + 1 \in 1..Len(st.events) /\ later'[k][m] = st.events[m + 1]
  BY OnTelegramLeaves
<1> HIDE DEF st, tel
<1>6. /\ \A m \in 1..Len(st.events) : ReallyNew(st.events[m])
      /\ recent' \subseteq recent
      /\ \A e \in recent \ recent' : Fits(e, tel)
      /\ \A e, f \in recent \ recent' : e.w.b = f.w.b => e = f
  BY <1>2, <1>4 DEF Takes, Adds
<1>7. NewLater' /\ NothingBack'
  <2>1. NewLater'
    BY <1>1, <1>5, <1>6 DEF NewLater
  <2>2. CASE st.events = <<>>
    BY <1>1, <1>5, <2>1, <2>2 DEF NothingBack, publishedVars, sentVars
  <2>3. CASE st.events # <<>>
    BY <1>1, <1>5, <1>6, <2>1, <2>3, PublishShows
  <2>4. QED
    BY <2>2, <2>3
<1>8. Steady' /\ Queued' /\ Once'
  BY <1>1, <1>2 DEF Steady, Queued, Once
<1>9. Awaiting'
  BY <1>1, <1>2, <1>6, FewerAwaited
<1>10. /\ DOMAIN inbox' \subseteq Nat
       /\ \A i \in DOMAIN inbox' : i + 1 \in DOMAIN inbox /\ i + 1 # 1 /\ inbox'[i] = inbox[i + 1]
  BY <1>2, Shortened
<1>11. EchoedOnce'
  <2>1. ASSUME NEW i \in DOMAIN inbox', NEW k \in DOMAIN inbox', inbox'[i].out = TRUE, inbox'[k].out = TRUE,
               inbox'[i].origin = inbox'[k].origin, Paired(inbox'[i].origin)
        PROVE  i = k
    <3>1. i + 1 = k + 1
      BY <1>1, <1>10, <2>1 DEF EchoedOnce
    <3>2. QED
      BY <1>10, <3>1
  <2>2. \A k \in DOMAIN inbox' : inbox'[k].out = TRUE /\ Paired(inbox'[k].origin) =>
           \A i \in DOMAIN writing : \A j \in DOMAIN writing[i] : writing[i][j] # inbox'[k].origin
    BY <1>1, <1>10 DEF EchoedOnce
  <2>3. QED
    BY <1>2, <2>1, <2>2 DEF EchoedOnce, Paired
<1>12. Heard'
  <2>1. SUFFICES ASSUME NEW i \in DOMAIN inbox', NEW t, t = inbox'[i]
                 PROVE  IsEcho(t)' \/ IsAnswer(t)' \/ IsForeign(t)'
    BY DEF Heard, IsEcho, IsAnswer, IsForeign, Ours, Paired
  <2>2. i + 1 \in DOMAIN inbox /\ i + 1 # 1 /\ t = inbox[i + 1]
    BY <1>10, <2>1
  <2>3. IsEcho(t) \/ IsAnswer(t) \/ IsForeign(t)
    BY <1>1, <2>2 DEF Heard
  <2>4. CASE IsEcho(t)
    <3>1. ASSUME Paired(t.origin)
          PROVE  /\ \E o \in owners' : o.w = t.origin
                 /\ \E e \in recent' : e.w = t.origin /\ e.ga = t.ga
      <4>1. t.out = TRUE /\ t.ga = t.origin.c.cmd /\ t.origin \in Write
        BY <2>4 DEF IsEcho
      <4>2. tel.out = TRUE => tel.origin # t.origin
        BY <1>1, <1>3, <2>2, <3>1, <4>1 DEF EchoedOnce
      <4>3. tel.out \in BOOLEAN
        BY <1>3 DEF Telegram
      <4>4. PICK o \in owners : o.w = t.origin
        BY <2>4, <3>1 DEF IsEcho
      <4>5. o \in owners'
        BY <1>2, <4>2, <4>3, <4>4
      <4>6. PICK e \in recent : e.w = t.origin /\ e.ga = t.ga
        BY <2>4, <3>1 DEF IsEcho
      <4>7. loaded[e.w.b].state = e.w.c.state /\ e.w.c.state # e.w.c.cmd
        BY <1>1, <3>1, <4>1, <4>6, WriteIs, ConfigAssumption DEF Steady, Paired
      <4>8. ~Fits(e, tel)
        BY <4>1, <4>2, <4>6, <4>7 DEF Fits
      <4>9. e \in recent'
        BY <1>6, <4>8
      <4>10. QED
        BY <4>4, <4>5, <4>6, <4>9
    <3>2. QED
      BY <1>2, <2>4, <3>1 DEF IsEcho, Ours, Paired
  <2>5. CASE IsAnswer(t)
    BY <2>5 DEF IsAnswer, Ours
  <2>6. CASE IsForeign(t)
    BY <1>6, <2>6 DEF IsForeign
  <2>7. QED
    BY <2>3, <2>4, <2>5, <2>6
<1>13. Balanced'
  <2>1. SUFFICES ASSUME NEW b \in Binding, NEW r \in Raw, Is(b, {"BOTH"})
        PROVE  Cardinality(Owing(b, r)') + Cardinality(Among(inbox', Answers(b, r))) <= Cardinality(Awaited(b, r)')
    BY DEF Balanced, Among
  <2> DEFINE K == Answers(b, r)
  <2>2. Cardinality(Owing(b, r)) + Cardinality(Among(inbox, K)) <= Cardinality(Awaited(b, r))
    BY <1>1, <2>1 DEF Balanced
  <2>3. Owing(b, r)' = Owing(b, r)
    BY <1>2 DEF Owing
  <2>4. /\ Cardinality(Among(inbox, K)) \in Nat /\ Cardinality(Among(inbox', K)) \in Nat
        /\ Cardinality(Among(inbox', K)) <= Cardinality(Among(inbox, K)) - (IF tel \in K THEN 1 ELSE 0)
    <3>1. inbox' \in Seq(Telegram)
      BY <1>2, Shortened
    <3>2. Cardinality(Among(Tail(inbox), K)) <= Cardinality(Among(inbox, K)) - (IF Head(inbox) \in K THEN 1 ELSE 0)
      BY <1>2, AmongShortened
    <3>3. QED
      BY <1>2, <3>1, <3>2, AmongFinite DEF tel
  <2>5. /\ IsFiniteSet(Awaited(b, r)) /\ Cardinality(Awaited(b, r)) \in Nat /\ Cardinality(Owing(b, r)) \in Nat
    BY <1>1, Sizes
  <2>6. CASE Awaited(b, r) \subseteq recent'
    <3>1. Awaited(b, r)' = Awaited(b, r)
      BY <1>6, <2>6 DEF Awaited
    <3> HIDE DEF K
    <3>2. Cardinality(Among(inbox', K)) <= Cardinality(Among(inbox, K))
      BY <2>4
    <3>3. QED
      BY <2>2, <2>3, <2>4, <2>5, <3>1, <3>2 DEF K
  <2>7. CASE ~(Awaited(b, r) \subseteq recent')
    <3>1. PICK e \in Awaited(b, r) : e \in recent \ recent'
      BY <2>7 DEF Awaited
    <3>2. /\ e.w.b = b /\ e.ga = e.w.c.state /\ Encode[e.w.val] = r
          /\ Fits(e, tel) /\ Paired(e.w) /\ e.w \in Write
      BY <1>1, <1>6, <3>1 DEF Awaited, Awaiting, TypeOK
    <3>3. /\ tel.out # TRUE /\ e.ga = tel.ga /\ tel.raw = r
          /\ e.w.c = InitConfig[b] /\ InitConfig[b].state = tel.ga
      BY <1>1, <3>2 DEF Fits, Steady, Paired
    <3>4. IsAnswer(tel)
      BY <1>3, <3>1, <3>2, <3>3 DEF IsEcho, IsForeign
    <3>5. /\ tel.origin \in Write /\ tel.origin.b \in Binding /\ Ours(tel.origin) /\ tel.origin.c \in Configs
          /\ tel.out = FALSE /\ tel.ga = tel.origin.c.state
      BY <3>4, WriteIs DEF IsAnswer
    <3>6. Is(tel.origin.b, {"DEST", "BOTH"})
      BY <3>5, ConfigAssumption DEF Is, Ours
    <3>7. tel.origin.b = b
      <4>1. InitConfig[tel.origin.b].state = tel.ga /\ tel.ga \in Ga
        BY <1>3, <3>5 DEF Ours, Telegram
      <4>2. QED
        BY <2>1, <3>3, <3>5, <3>6, <4>1 DEF Separate
    <3>8. tel \in K
      BY <1>3, <3>3, <3>5, <3>7, OriginAssumption DEF Answers
    <3>9. Awaited(b, r)' = Awaited(b, r) \ {e}
      BY <1>6, <3>1, <3>2 DEF Awaited
    <3>10. Cardinality(Awaited(b, r)') = Cardinality(Awaited(b, r)) - 1
      BY <2>5, <3>1, <3>9, FS_RemoveElement
    <3> HIDE DEF K
    <3>11. Cardinality(Among(inbox', K)) <= Cardinality(Among(inbox, K)) - 1
      BY <2>4, <3>8
    <3>12. QED
      BY <2>2, <2>3, <2>4, <2>5, <3>10, <3>11 DEF K
  <2>8. QED
    BY <2>6, <2>7
<1>14. QED
  BY <1>7, <1>8, <1>9, <1>11, <1>12, <1>13 DEF LoopInv

LEMMA NextLoop ==
    ASSUME Separate, MaxRebinds = 0, TypeInv, LoopInv, [Next]_vars
    PROVE  LoopInv'
<1>1. CASE UNCHANGED vars
  <2>1. UNCHANGED <<stored, loaded, writing, seq, outbox, pending, invalid, owners, recent, inbox, later, shown, owed>>
    BY <1>1 DEF vars, orderVars, adapterVars, publishedVars, sentVars
  <2>2. Balanced' /\ Awaiting'
    BY <2>1, SameBalance, SameAwaiting DEF LoopInv
  <2>3. QED
    BY <2>1, <2>2 DEF LoopInv, Steady, Queued, Once, NewLater, NothingBack, Heard, EchoedOnce, IsEcho, IsAnswer, IsForeign
<1>2. CASE \E dp \in Dp, val \in Value : DirectWrite(dp, val)
  BY <1>2, DirectWriteLoop
<1>3. CASE RouteWrite
  BY <1>3, RouteWriteLoop
<1>4. CASE \E i \in DOMAIN writing : WriteRow(i)
  BY <1>4, WriteRowLoop
<1>5. CASE Transmit
  BY <1>5, TransmitLoop
<1>6. CASE SendFails
  BY <1>6, SendFailsLoop
<1>7. CASE \E o \in owed : Feedback(o)
  BY <1>7, FeedbackLoop
<1>8. CASE \E ga \in Ga, raw \in Raw : Foreign(ga, raw)
  BY <1>8, ForeignLoop
<1>9. CASE OnTelegram
  BY <1>9, OnTelegramLoop
<1>10. CASE \E i \in DOMAIN later : PublishNext(i)
  BY <1>10, PublishNextLoop
<1>11. CASE \E b \in Binding : \E c \in Options[b] \cup {NoConfig} : Rebind(b, c)
  <2>1. counts.rebinds \in 0..0 /\ counts.rebinds < 0
    BY <1>11 DEF Rebind, TypeInv, TypeOK
  <2>2. QED
    BY <2>1
<1>12. CASE Reload
  BY <1>12 DEF Reload, LoopInv, Steady
<1>13. CASE \E k \in 1..clock : ExpireEchoes(k) \/ ExpireStates(k)
  BY <1>13, ExpireEchoesLoop, ExpireStatesLoop
<1>14. QED
  BY <1>1, <1>2, <1>3, <1>4, <1>5, <1>6, <1>7, <1>8, <1>9, <1>10, <1>11, <1>12, <1>13 DEF Next

(* Where the configuration does not change, and bindings that write share  *)
(* no state address and no data point that confuses their answers          *)
(* (Separate), nothing OBS wrote for a data point comes back as a new      *)
(* value of it, not even an answer that reads like one to a stray write,   *)
(* however commands overlap, telegrams fail to be sent, answers are late   *)
(* or missing and handlers interleave (_on_telegram and                    *)
(* _local_confirmation_datapoint_ids in obs/adapters/knx/adapter.py).      *)
THEOREM NoLoop == Separate /\ MaxRebinds = 0 => (Spec => [](NothingBack /\ NoFeedbackLoop))
<1>1. SUFFICES ASSUME Separate, MaxRebinds = 0 PROVE Spec => [](NothingBack /\ NoFeedbackLoop)
  OBVIOUS
<1>2. TypeInv /\ LoopInv /\ [Next]_vars => LoopInv'
  BY <1>1, NextLoop
<1>3. LoopInv => NothingBack /\ NoFeedbackLoop
  BY DEF LoopInv, NothingBack, NoFeedbackLoop
<1>4. QED
  BY <1>2, <1>3, InitTypes, NextTypes, InitLoop, PTL DEF Spec
==============================================================================
