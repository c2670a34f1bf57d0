------------------------- MODULE SegmentQueryProofs -------------------------
(***************************************************************************)
(* Proofs about the queries of SegmentStore, which read beside rotation    *)
(* and retention without a lock, for every value of the constants but      *)
(* MaxFaults: crashes, damaged files and any number of queries are         *)
(* allowed, steps that raise are not (MaxFaults = 0).                      *)
(*   - WindowsCover: the manifest never hides an event of a sealed segment *)
(*     from a query for a time window;                                     *)
(*   - PagesHaveNoGap: a latest page has no gap.                           *)
(* When steps raise, both are false: the first after one, the second after *)
(* two.                                                                    *)
(*                                                                         *)
(* The argument is the invariant QueryInv.  RowFacts: rows never get out   *)
(* of the order of the segments.  PlaceFacts: which segments are active,   *)
(* and that nothing lies behind the open one.  Counted: the manifest's     *)
(* count of a segment is complete before the segment can stop being the    *)
(* open one.  Reading: what a query has still to read is older than all it *)
(* has found.                                                              *)
(***************************************************************************)
EXTENDS SegmentStoreProofs, FiniteSetTheorems

-----------------------------------------------------------------------------
(* The newest rows of a file, and of a page.                               *)

LEMMA EventsAreFinite ==
    /\ IsFiniteSet(Event) /\ Event \subseteq 0..MaxEvents
    /\ \A S \in SUBSET Event : IsFiniteSet(S) /\ Cardinality(S) \in Nat /\ S \subseteq Nat
<1>1. MaxEvents \in Nat /\ Event = 1..MaxEvents
  BY Constants DEF Event
<1>2. IsFiniteSet(Event)
  BY <1>1, FS_Interval
<1>3. \A S \in SUBSET Event : IsFiniteSet(S) /\ Cardinality(S) \in Nat
  BY <1>2, FS_Subset, FS_CardinalityType
<1>4. QED
  BY <1>1, <1>2, <1>3

LEMMA SubsetCounts ==
    ASSUME NEW S \in SUBSET Event, NEW T \in SUBSET S
    PROVE  Cardinality(T) <= Cardinality(S) /\ Cardinality(T) \in Nat
BY EventsAreFinite, FS_Subset

(* One more newest row: the newest of the rest.                            *)
LEMMA OneMore ==
    ASSUME NEW S \in SUBSET Event, NEW k \in Nat, Cardinality(S) >= k + 1,
           Cardinality(Newest(k, S)) = k
    PROVE  Cardinality(Newest(k + 1, S)) = k + 1
<1> DEFINE N == Newest(k, S)
           After(e) == {f \in S : f > e}
           x == Max(S \ N)
<1>1. N \subseteq S /\ \A e \in S : After(e) \in SUBSET Event /\ Cardinality(After(e)) \in Nat
  BY EventsAreFinite DEF Newest
<1>2. \A e \in S : e \in N <=> Cardinality(After(e)) < k
  BY DEF Newest
<1>3. S \ N # {}
  BY <1>1
<1>4. x \in S \ N /\ \A y \in S \ N : y <= x
  BY <1>3, MaxIsMember, EventsAreFinite, Constants
<1>5. S \subseteq Nat
  BY EventsAreFinite
<1> HIDE DEF x, N
<1>6. \A f \in N : f > x
  <2>1. SUFFICES ASSUME NEW f \in N, ~(f > x) PROVE FALSE
    OBVIOUS
  <2>2. f < x
    BY <1>1, <1>4, <1>5, <2>1
  <2>3. After(x) \subseteq After(f)
    <3>1. f \in Nat /\ x \in Nat
      BY <1>1, <1>4, <1>5
    <3>2. \A g \in S : g \in Nat /\ (g > x => g > f)
      BY <1>5, <2>2, <3>1
    <3>3. QED
      BY <3>2
  <2>4. Cardinality(After(x)) <= Cardinality(After(f))
    BY <1>1, <2>3, SubsetCounts
  <2>5. QED
    BY <1>1, <1>2, <1>4, <2>4
<1>7. After(x) = N
  <2>1. \A f \in S : f \notin N => ~(f > x)
    BY <1>4, <1>5
  <2>2. QED
    BY <1>1, <1>6, <2>1
<1>8. Cardinality(N) = k
  BY DEF N
<1>9. IsFiniteSet(N) /\ x \notin N
  BY <1>1, <1>4, EventsAreFinite
<1>10. Cardinality(N \union {x}) = k + 1
  BY <1>8, <1>9, FS_AddElement
<1>11. Newest(k + 1, S) = N \union {x}
  <2>1. Newest(k + 1, S) = {e \in S : Cardinality(After(e)) < k + 1}
    BY DEF Newest
  <2>2. N \union {x} \subseteq Newest(k + 1, S)
    <3>1. \A e \in N : e \in S /\ Cardinality(After(e)) < k + 1
      BY <1>1, <1>2
    <3>2. x \in S /\ Cardinality(After(x)) < k + 1
      BY <1>4, <1>7, <1>8
    <3>3. QED
      BY <2>1, <3>1, <3>2
  <2>3. ASSUME NEW y \in S, y \notin N, y # x
        PROVE  Cardinality(After(y)) >= k + 1
    <3>1. y < x
      BY <1>4, <1>5, <2>3
    <3>2. N \union {x} \subseteq After(y)
      <4>1. y \in Nat /\ x \in Nat /\ x \in S /\ x > y
        BY <1>4, <1>5, <3>1
      <4>2. \A f \in N : f \in S /\ f \in Nat /\ f > y
        BY <1>1, <1>5, <1>6, <4>1
      <4>3. QED
        BY <4>1, <4>2
    <3>3. QED
      BY <1>1, <1>10, <2>3, <3>2, SubsetCounts
  <2>4. \A y \in S : Cardinality(After(y)) < k + 1 => y \in N \union {x}
    BY <1>1, <2>3
  <2>5. QED
    BY <2>1, <2>2, <2>4
<1>12. QED
  BY <1>10, <1>11

(* The newest n of at least n rows are n.                                  *)
LEMMA NewestAreEnough ==
    ASSUME NEW S \in SUBSET Event, NEW n \in Nat, Cardinality(S) >= n
    PROVE  Cardinality(Newest(n, S)) = n
<1> DEFINE Wrong == {m \in 0..n : Cardinality(Newest(m, S)) # m}
<1>1. SUFFICES ASSUME Wrong # {} PROVE FALSE
  BY DEF Wrong
<1>2. Wrong \subseteq Nat
  OBVIOUS
<1>3. PICK m \in Wrong : \A j \in Wrong : <<j, m>> \notin OpToRel(<, Nat)
  BY <1>1, <1>2, WFMin, NatLessThanWellFounded, Zenon
<1>4. \A j \in Wrong : ~(j < m)
  BY <1>2, <1>3 DEF OpToRel
<1>5. m # 0
  <2>1. \A e \in S : Cardinality({f \in S : f > e}) \in Nat
    BY EventsAreFinite
  <2>2. Newest(0, S) = {}
    BY <2>1 DEF Newest
  <2>3. QED
    BY <2>2, FS_EmptySet
<1>6. m - 1 \in 0..n /\ m - 1 \notin Wrong
  BY <1>2, <1>4, <1>5
<1>7. Cardinality(Newest(m - 1, S)) = m - 1
  BY <1>6
<1>8. Cardinality(S) \in Nat /\ Cardinality(S) >= (m - 1) + 1 /\ m - 1 \in Nat /\ (m - 1) + 1 = m
  BY <1>5, EventsAreFinite
<1>9. Cardinality(Newest((m - 1) + 1, S)) = (m - 1) + 1
  BY <1>7, <1>8, OneMore
<1>10. QED
  BY <1>8, <1>9

(* Rows that are beaten by n others are older than all of the newest n.    *)
LEMMA NewestAreNewer ==
    ASSUME NEW S \in SUBSET Event, NEW n \in Nat, NEW e \in Event,
           Cardinality({f \in S : f > e}) >= n
    PROVE  /\ Cardinality(Newest(n, S)) = n
           /\ \A g \in Newest(n, S) : g > e
<1> DEFINE After(d) == {f \in S : f > d}
<1>1. \A d \in Event : After(d) \in SUBSET S /\ After(d) \in SUBSET Event
  OBVIOUS
<1>2. Cardinality(S) >= n
  BY <1>1, SubsetCounts, EventsAreFinite
<1>3. Cardinality(Newest(n, S)) = n
  BY <1>2, NewestAreEnough
<1>4. ASSUME NEW g \in Newest(n, S), ~(g > e) PROVE FALSE
  <2>1. g \in S /\ Cardinality(After(g)) < n
    BY <1>4 DEF Newest
  <2>2. g \in Event /\ g \in Nat /\ e \in Nat /\ \A f \in S : f \in Nat
    BY <2>1, EventsAreFinite
  <2>3. After(e) \subseteq After(g)
    <3>1. SUFFICES ASSUME NEW f \in S, f > e PROVE f > g
      OBVIOUS
    <3>2. QED
      BY <1>4, <2>2, <3>1
  <2>4. Cardinality(After(e)) <= Cardinality(After(g)) /\ Cardinality(After(e)) \in Nat
    BY <1>1, <2>2, <2>3, SubsetCounts
  <2>5. Cardinality(After(g)) \in Nat
    BY <1>1, <2>2, EventsAreFinite
  <2>6. QED
    BY <2>1, <2>4, <2>5
<1>5. QED
  BY <1>3, <1>4

(* What a full read leaves out is beaten by what it took.                  *)
LEMMA LeftOutIsBeaten ==
    ASSUME NEW S \in SUBSET Event, NEW n \in Nat, NEW e \in S, e \notin Newest(n, S)
    PROVE  Cardinality({f \in Newest(n, S) : f > e}) >= n
<1>1. Cardinality({f \in S : f > e}) \in Nat
  BY EventsAreFinite
<1>2. Cardinality({f \in S : f > e}) >= n
  BY <1>1 DEF Newest
<1>3. Cardinality(Newest(n, S)) = n /\ \A g \in Newest(n, S) : g > e
  BY <1>2, NewestAreNewer
<1>4. {f \in Newest(n, S) : f > e} = Newest(n, S)
  BY <1>3
<1>5. QED
  BY <1>3, <1>4

-----------------------------------------------------------------------------
(* The invariant of a store in which no step raises.                       *)

Closing == {"checkpoint", "closeOld", "closePending"}
NothingRaises == pc \notin {"failed", "undo", "demote"}

(* Rows are in files that can be read, segment after segment in the order  *)
(* of their ids, and the id in hand is no row yet.                         *)
RowsAreReadable == \A s \in SegmentId : file[s].rows # {} => file[s].state = "ok"
RowsInOrder == \A s, t \in SegmentId : s < t =>
                   \A e \in file[s].rows, f \in file[t].rows : e < f
IssuedOnce == \A s \in SegmentId : \A e \in file[s].rows :
                  e <= lastId /\ (pc = "insert" => e # lastId)

(* The active rows of the manifest: the writer's, and beside it the        *)
(* replacement a rotation prepares or the segment it retires.  A query may *)
(* have quarantined the replacement.                                       *)
ActiveRows == \A s \in SegmentId : segments[s].status = "active" =>
    /\ pc # "create"
    /\ pc \in {"pick", "probe", "connect"} => s = GetActive
    /\ active # 0 => \/ s = active
                     \/ pc \in {"prepare", "switch"} /\ s = lastSegment
                     \/ pc \in Closing /\ s = old
WriterRow == active # 0 => /\ active <= lastSegment
                           /\ segments[active].status \in {"active", "quarantined", "none"}
ReplacementRow == pc \in {"prepare", "switch"} =>
    active < lastSegment /\ segments[lastSegment].status \in {"active", "quarantined"}
OldRow == pc \in Closing => /\ old # 0 /\ old < active
                            /\ \A s \in SegmentId : s > old => file[s].rows = {}
UnusedAreEmpty == \A s \in SegmentId : s > lastSegment =>
                      segments[s].status = "none" /\ file[s].rows = {}

(* The count of a segment is complete when it is not open, and when a      *)
(* rotation is about to leave it or to seal it.                            *)
Counts(s) == segments[s].status # "none" => file[s].rows \subseteq segments[s].counted
Counted ==
    /\ \A s \in SegmentId : s # OpenSegment /\ segments[s].status # "quarantined" => Counts(s)
    /\ pc \in {"replace", "prepare", "switch"} => Counts(active)
    /\ pc \in Closing => Counts(old)

(* What was there when the query began and is still there has still to be  *)
(* read, or was found, or a page of newer rows was; and what has still to  *)
(* be read is older than all that was found.                               *)
Beaten(e, found) == Cardinality({f \in found : f > e}) >= PageSize
Reading == reader.on =>
    /\ \A e \in reader.before : e <= lastId /\ (pc = "insert" => e # lastId)
    /\ \A s \in SegmentId : \A e \in file[s].rows \intersect reader.before :
            s \in reader.left \/ e \in reader.found \/ Beaten(e, reader.found)
    /\ \A s \in reader.left : \A e \in file[s].rows \intersect reader.before :
            \A f \in reader.found : e < f

RowFacts == RowsAreReadable /\ RowsInOrder /\ IssuedOnce
PlaceFacts == /\ NothingRaises /\ ActiveRows /\ WriterRow /\ ReplacementRow /\ OldRow
              /\ UnusedAreEmpty /\ NewerAreEmpty
QueryInv == RowFacts /\ PlaceFacts /\ Counted /\ Reading
-----------------------------------------------------------------------------
(* What most steps have in common.                                         *)

LEMMA NoFault == MaxFaults = 0 /\ TypeInv => ~Spend("faults", MaxFaults)
BY DEF TypeInv, Spend

(* A commit is done, and the operation goes on.                            *)
LEMMA CommitIsDone ==
    ASSUME MaxFaults = 0, TypeInv, NEW write, NEW undone, NEW next, NEW raised,
           Commit(write, undone, next, raised)
    PROVE  write /\ pc' = next /\ UNCHANGED used
BY NoFault DEF Commit

LEMMA ManifestIsDone ==
    ASSUME MaxFaults = 0, TypeInv, NEW write, NEW next, NEW raised,
           ManifestCommit(write, next, raised)
    PROVE  write /\ pc' = next /\ UNCHANGED <<lastSegment, lastId, file, used>>
BY NoFault DEF ManifestCommit, Commit

(* An id is in hand only when it was reserved just before.                 *)
Issued == lastId' >= lastId /\ (pc' = "insert" => lastId' > lastId \/ pc = "insert")
Shrinks == \A s \in SegmentId : file'[s].rows \subseteq file[s].rows
                                /\ (file'[s].rows # {} => file'[s].state = "ok")

LEMMA IdsAreNumbers ==
    ASSUME TypeInv
    PROVE  /\ lastId \in Nat /\ lastSegment \in Nat /\ active \in Nat /\ old \in Nat
           /\ \A s \in SegmentId : s \in Nat /\ s # 0
           /\ \A s \in SegmentId : \A e \in file[s].rows : e \in Nat
           /\ reader.before \subseteq Nat /\ reader.found \subseteq Nat
<1>1. /\ lastId \in Nat /\ lastSegment \in Nat /\ active \in Nat /\ old \in Nat
      /\ \A s \in SegmentId : s \in Nat /\ s # 0
  <2>1. lastId \in Event \union {0} /\ lastSegment \in SegmentId \union {0}
        /\ active \in SegmentId \union {0} /\ old \in SegmentId \union {0}
    BY DEF TypeInv, TypeOK
  <2>2. \A s \in SegmentId : s \in Nat /\ s # 0
    BY Constants
  <2>3. \A e \in Event : e \in Nat
    BY Constants
  <2>4. QED
    BY <2>1, <2>2, <2>3
<1>2. \A s \in SegmentId : file[s].rows \subseteq Event
  BY DEF TypeInv, TypeOK, File
<1>3. reader.before \subseteq Event /\ reader.found \subseteq Event
  BY DEF TypeInv, TypeOK
<1>4. QED
  BY <1>1, <1>2, <1>3, Constants

(* Rows that only become fewer stay in order.                              *)
LEMMA RowsKept ==
    ASSUME TypeInv, TypeInv', RowFacts, Issued, Shrinks
    PROVE  RowFacts'
<1>1. lastId' \in Nat
  BY Constants DEF TypeInv, TypeOK
<1>2. RowsAreReadable'
  BY DEF Shrinks, RowsAreReadable
<1>3. RowsInOrder'
  <2>1. SUFFICES ASSUME NEW s \in SegmentId, NEW t \in SegmentId, s < t,
                        NEW e \in file'[s].rows, NEW f \in file'[t].rows
                 PROVE  e < f
    BY DEF RowsInOrder
  <2>2. e \in file[s].rows /\ f \in file[t].rows
    BY DEF Shrinks
  <2>3. QED
    BY <2>1, <2>2 DEF RowFacts, RowsInOrder
<1>4. IssuedOnce'
  <2>1. SUFFICES ASSUME NEW s \in SegmentId, NEW e \in file'[s].rows
                 PROVE  e <= lastId' /\ (pc' = "insert" => e # lastId')
    BY DEF IssuedOnce
  <2>3. e \in file[s].rows
    BY DEF Shrinks
  <2>4. e \in Nat /\ lastId \in Nat /\ e <= lastId /\ (pc = "insert" => e # lastId)
    BY <2>3, IdsAreNumbers DEF RowFacts, IssuedOnce
  <2>5. QED
    BY <1>1, <2>4 DEF Issued
<1>5. QED
  BY <1>2, <1>3, <1>4 DEF RowFacts

(* The query does not mind that rows go beside it.                         *)
LEMMA ReadingKept ==
    ASSUME TypeInv, TypeInv', Reading, Issued, Shrinks, reader' = reader \/ ~reader'.on
    PROVE  Reading'
<1>1. CASE ~reader'.on
  BY <1>1 DEF Reading
<1>2. CASE reader' = reader /\ reader.on
  <2>1. lastId' \in Nat
    BY Constants DEF TypeInv, TypeOK
  <2>2. \A e \in reader.before : e <= lastId' /\ (pc' = "insert" => e # lastId')
    <3>1. TAKE e \in reader.before
    <3>2. e \in Nat /\ lastId \in Nat /\ e <= lastId /\ (pc = "insert" => e # lastId)
      BY <1>2, IdsAreNumbers DEF Reading
    <3>3. QED
      BY <2>1, <3>2 DEF Issued
  <2>3. \A s \in SegmentId : \A e \in file'[s].rows \intersect reader.before :
            s \in reader.left \/ e \in reader.found \/ Beaten(e, reader.found)
    BY <1>2 DEF Reading, Shrinks
  <2>4. \A s \in reader.left : \A e \in file'[s].rows \intersect reader.before :
            \A f \in reader.found : e < f
    BY <1>2 DEF Reading, Shrinks, TypeInv, TypeOK
  <2>5. QED
    BY <1>2, <2>2, <2>3, <2>4 DEF Reading, Beaten
<1>3. QED
  BY <1>1, <1>2

(* A step that touches neither the manifest nor a file.                    *)
QuietPlace ==
    \/ pc' = pc /\ old' = old
    \/ pc \in Closing /\ pc' \in Closing /\ old' = old
    \/ /\ pc \notin {"prepare", "switch"} \union Closing
       /\ pc' \notin {"failed", "undo", "demote", "pick", "probe", "connect", "create",
                      "replace", "prepare", "switch"} \union Closing

LEMMA QuietKeeps ==
    ASSUME TypeInv, TypeInv', QueryInv, QuietPlace, Issued,
           UNCHANGED <<segments, file, lastSegment, active>>
    PROVE  RowFacts' /\ PlaceFacts' /\ Counted'
<1>1. RowFacts'
  <2>1. Shrinks
    BY DEF Shrinks, QueryInv, RowFacts, RowsAreReadable
  <2>2. QED
    BY <2>1, RowsKept DEF QueryInv
<1>2. GetActive' = GetActive /\ OpenSegment' = OpenSegment
  BY SameActive DEF OpenSegment
<1>3. NothingRaises' /\ WriterRow' /\ UnusedAreEmpty' /\ NewerAreEmpty'
  BY <1>2 DEF QueryInv, PlaceFacts, NothingRaises, WriterRow, UnusedAreEmpty, NewerAreEmpty,
              QuietPlace, Closing
<1>4. ActiveRows' /\ ReplacementRow' /\ OldRow'
  BY <1>2 DEF QueryInv, PlaceFacts, ActiveRows, ReplacementRow, OldRow, QuietPlace, Closing
<1>5. Counted'
  BY <1>2 DEF QueryInv, Counted, Counts, QuietPlace, Closing
<1>6. QED
  BY <1>1, <1>3, <1>4, <1>5 DEF PlaceFacts

(* A quiet step that is not of the query.                                  *)
LEMMA QuietStep ==
    ASSUME TypeInv, TypeInv', QueryInv, QuietPlace, Issued,
           UNCHANGED <<segments, file, lastSegment, active, reader>>
    PROVE  QueryInv'
<1>1. Shrinks
  BY DEF Shrinks, QueryInv, RowFacts, RowsAreReadable
<1>2. QED
  BY <1>1, QuietKeeps, ReadingKept DEF QueryInv

LEMMA QuietActions ==
    ASSUME MaxFaults = 0, TypeInv, TypeInv', QueryInv,
           \/ OpenStore \/ Record \/ Reconfigure \/ Reserve \/ Due \/ CheckpointOld
           \/ BeginRetention \/ FinishPass \/ ChooseVictim
    PROVE  QueryInv'
<1>1. lastId \in Nat
  BY IdsAreNumbers
<1>2. Issued /\ UNCHANGED <<segments, file, lastSegment, active, reader>>
  BY <1>1, NoFault
     DEF Issued, OpenStore, Record, Reconfigure, Reserve, Due, CheckpointOld, BeginRetention,
         FinishPass, ChooseVictim, RotateOr, EndPass, Commit, At, Goto, disk, local, history
<1>3. QuietPlace
  <2>1. CASE OpenStore \/ Record \/ Reconfigure \/ Reserve \/ Due
    BY <2>1, NoFault
       DEF QuietPlace, Closing, OpenStore, Record, Reconfigure, Reserve, Due, RotateOr, Commit,
           At, Goto
  <2>2. CASE CheckpointOld
    BY <2>2, NoFault DEF QuietPlace, Closing, CheckpointOld, At, Goto, local
  <2>3. CASE BeginRetention \/ ChooseVictim \/ FinishPass
    BY <2>3 DEF QuietPlace, Closing, BeginRetention, ChooseVictim, FinishPass, EndPass, At, Goto
  <2>4. QED
    BY <2>1, <2>2, <2>3
<1>4. QED
  BY <1>2, <1>3, QuietStep
-----------------------------------------------------------------------------
(* Opening the store.                                                      *)

LEMMA FilesShrink ==
    ASSUME TypeInv, TypeInv', QueryInv, Issued, Shrinks, reader' = reader \/ ~reader'.on
    PROVE  RowFacts' /\ Reading'
BY RowsKept, ReadingKept DEF QueryInv

LEMMA FilesSame ==
    ASSUME TypeInv, TypeInv', QueryInv, Issued, UNCHANGED file, reader' = reader \/ ~reader'.on
    PROVE  RowFacts' /\ Reading'
<1>1. Shrinks
  BY DEF Shrinks, QueryInv, RowFacts, RowsAreReadable
<1>2. QED
  BY <1>1, FilesShrink

(* What a change of a status does to the manifest.                         *)
StatusSet(s, status) ==
    \A t \in SegmentId :
        /\ segments'[t].counted = segments[t].counted
        /\ segments'[t].status =
               IF t = s /\ segments[t].status # "none" THEN status ELSE segments[t].status

LEMMA SetStatusDoes ==
    ASSUME TypeInv, NEW s, NEW status, SetStatus(s, status)
    PROVE  StatusSet(s, status)
BY DEF TypeInv, TypeOK, SetStatus, StatusSet, Known, Row

LEMMA SameManifest ==
    ASSUME UNCHANGED segments
    PROVE  GetActive' = GetActive
BY SameActive

LEMMA ReconcileQuery ==
    ASSUME MaxFaults = 0, TypeInv, TypeInv', QueryInv, ReconcileActive
    PROVE  QueryInv'
<1> DEFINE stale == With("active") \ {GetActive}
           s == Min(stale)
<1>1. /\ stale = {} => UNCHANGED segments /\ pc' = "pick"
      /\ stale # {} => /\ s \in SegmentId /\ s # GetActive /\ segments[s].status = "active"
                       /\ StatusSet(s, "closed") /\ pc' = "reconcile"
  <2>1. stale \subseteq SegmentId /\ stale \subseteq Nat
    BY Constants DEF With
  <2>2. stale # {} => s \in stale
    BY <2>1, MinIsMember
  <2>3. stale # {} => SetStatus(s, "closed") /\ pc' = "reconcile"
    BY ManifestIsDone DEF ReconcileActive
  <2>4. QED
    BY <2>1, <2>2, <2>3, SetStatusDoes DEF ReconcileActive, Goto, disk, With
<1>2. stale = {} => \A t \in SegmentId : segments[t].status = "active" => t = GetActive
  BY DEF With
<1> HIDE DEF stale, s
<1>3. /\ pc = "reconcile" /\ active = 0
      /\ UNCHANGED <<file, lastSegment, lastId, local, reader>>
  BY ManifestIsDone DEF ReconcileActive, At, disk, TypeInv, WriterIsOpen, Opening
<1>4. RowFacts' /\ Reading'
  <2>1. lastId \in Nat
    BY IdsAreNumbers
  <2>2. Issued
    BY <1>1, <1>3, <2>1 DEF Issued
  <2>3. QED
    BY <1>3, <2>2, FilesSame
<1>5. GetActive' = GetActive /\ OpenSegment' = OpenSegment
  <2>1. CASE stale = {}
    BY <1>1, <1>3, <2>1, SameActive DEF OpenSegment, local
  <2>2. CASE stale # {}
    <3>1. \A t \in SegmentId :
             segments'[t].status = "active" <=> segments[t].status = "active" /\ t # s
      BY <1>1, <2>2 DEF StatusSet
    <3>2. GetActive \in SegmentId /\ GetActive' \in SegmentId
      BY <1>1, <2>2, <3>1, GetActiveIsNewest, GetActiveStaysNewest DEF NewestRow
    <3>3. GetActive \in Nat /\ GetActive' \in Nat /\ GetActive # 0 /\ GetActive' # 0
      BY <3>2, IdsAreNumbers
    <3>4. segments[GetActive].status = "active" /\ segments'[GetActive'].status = "active"
      BY <3>3, GetActiveIsNewest, GetActiveStaysNewest DEF NewestRow
    <3>5. GetActive <= GetActive' /\ GetActive' <= GetActive
      BY <1>1, <2>2, <3>1, <3>2, <3>4, GetActiveIsNewest, GetActiveStaysNewest DEF NewestRow
    <3>6. QED
      BY <1>3, <3>3, <3>5 DEF OpenSegment, local
  <2>3. QED
    BY <2>1, <2>2
<1>6. NothingRaises' /\ WriterRow' /\ ReplacementRow' /\ OldRow'
  BY <1>1, <1>3 DEF NothingRaises, WriterRow, ReplacementRow, OldRow, Closing, local
<1>7. ActiveRows'
  BY <1>1, <1>2, <1>3, <1>5 DEF ActiveRows, StatusSet, local
<1>8. UnusedAreEmpty' /\ NewerAreEmpty'
  BY <1>1, <1>3, <1>5 DEF QueryInv, PlaceFacts, UnusedAreEmpty, NewerAreEmpty, StatusSet
<1>9. Counted'
  <2>1. CASE stale = {}
    BY <1>1, <1>3, <1>5, <2>1 DEF QueryInv, Counted, Counts, Closing
  <2>2. CASE stale # {}
    BY <1>1, <1>3, <1>5, <2>2 DEF QueryInv, Counted, Counts, Closing, StatusSet
  <2>3. QED
    BY <2>1, <2>2
<1>10. QED
  BY <1>4, <1>6, <1>7, <1>8, <1>9 DEF QueryInv, PlaceFacts

(* The open isolates the newest active row, or goes on with it.            *)
LEMMA ProbedQuery ==
    ASSUME MaxFaults = 0, TypeInv, TypeInv', QueryInv, pc \in {"pick", "probe"},
           UNCHANGED <<lastSegment, lastId, file, local, reader>>,
           \/ UNCHANGED segments /\ GetActive = 0 /\ pc' = "create"
           \/ UNCHANGED segments /\ pc' \in {"probe", "connect"}
           \/ GetActive # 0 /\ StatusSet(GetActive, "quarantined") /\ pc' = "create"
    PROVE  QueryInv'
<1>1. active = 0 /\ active' = 0
  BY DEF TypeInv, WriterIsOpen, Opening, local
<1>2. RowFacts' /\ Reading'
  <2>1. lastId \in Nat
    BY IdsAreNumbers
  <2>2. Issued
    BY <2>1 DEF Issued
  <2>3. QED
    BY <2>2, FilesSame
<1>3. \A t \in SegmentId : segments[t].status = "active" => t = GetActive
  BY DEF QueryInv, PlaceFacts, ActiveRows
<1>4. /\ \A t \in SegmentId : segments'[t].status = "active" => segments[t].status = "active"
      /\ \A t \in SegmentId : segments'[t].status = "none" <=> segments[t].status = "none"
      /\ \A t \in SegmentId : segments'[t].counted = segments[t].counted
  BY DEF StatusSet
<1>5. \/ UNCHANGED segments /\ GetActive' = GetActive
      \/ GetActive' = 0 /\ StatusSet(GetActive, "quarantined") /\ pc' = "create"
  <2>1. CASE UNCHANGED segments
    BY <2>1, SameActive
  <2>2. CASE GetActive # 0 /\ StatusSet(GetActive, "quarantined") /\ pc' = "create"
    <3>1. \A t \in SegmentId : segments'[t].status # "active"
      BY <1>3, <2>2 DEF StatusSet
    <3>2. QED
      BY <2>2, <3>1, GetActiveStaysNewest DEF NewestRow
  <2>3. QED
    BY <2>1, <2>2
<1>6. NothingRaises' /\ WriterRow' /\ ReplacementRow' /\ OldRow'
  BY <1>1 DEF NothingRaises, WriterRow, ReplacementRow, OldRow, Closing
<1>7. ActiveRows'
  <2>1. CASE UNCHANGED segments /\ GetActive' = GetActive
    <3>1. \A t \in SegmentId : segments[t].status = "active" => GetActive # 0
      BY GetActiveIsNewest DEF NewestRow
    <3>2. (\E t \in SegmentId : segments[t].status = "active") => pc' # "create"
      <4>1. GetActive # 0 => GetActive \in SegmentId /\ segments[GetActive].status = "active"
        BY GetActiveIsNewest DEF NewestRow
      <4>2. StatusSet(GetActive, "quarantined") => GetActive = 0
        BY <2>1, <4>1 DEF StatusSet
      <4>3. QED
        BY <3>1, <4>2
    <3>3. QED
      BY <1>1, <1>3, <2>1, <3>2 DEF ActiveRows
  <2>2. CASE GetActive' = 0
    <3>1. \A t \in SegmentId : segments'[t].status # "active"
      BY <2>2, GetActiveStaysNewest DEF NewestRow
    <3>2. QED
      BY <3>1 DEF ActiveRows
  <2>3. QED
    BY <1>5, <2>1, <2>2
<1>8. UnusedAreEmpty' /\ NewerAreEmpty'
  BY <1>1, <1>4, <1>5 DEF QueryInv, PlaceFacts, UnusedAreEmpty, NewerAreEmpty, OpenSegment
<1>9. Counted'
  <2>1. CASE UNCHANGED segments /\ GetActive' = GetActive
    BY <1>1, <2>1 DEF QueryInv, Counted, Counts, Closing, OpenSegment
  <2>2. CASE StatusSet(GetActive, "quarantined") /\ pc' = "create"
    BY <1>1, <1>4, <2>2 DEF QueryInv, Counted, Counts, Closing, OpenSegment, StatusSet
  <2>3. QED
    BY <1>5, <2>1, <2>2
<1>10. QED
  BY <1>2, <1>6, <1>7, <1>8, <1>9 DEF QueryInv, PlaceFacts

LEMMA PickAndProbeQuery ==
    ASSUME MaxFaults = 0, TypeInv, TypeInv', QueryInv, PickActive \/ ProbeActive
    PROVE  QueryInv'
<1>1. Quarantine(GetActive) => /\ StatusSet(GetActive, "quarantined") /\ pc' = "create"
                               /\ UNCHANGED <<lastSegment, lastId, file>>
  BY ManifestIsDone, SetStatusDoes DEF Quarantine
<1>2. pc = "probe" => GetActive # 0
  BY DEF TypeInv, WriterIsOpen
<1>3. QED
  BY <1>1, <1>2, ProbedQuery DEF PickActive, ProbeActive, At, Goto, disk
(* What a new row does to the manifest.                                    *)
RowCreated ==
    /\ lastSegment' = lastSegment + 1
    /\ \A t \in SegmentId : segments'[t] = IF t = lastSegment + 1
           THEN [status |-> "active", counted |-> {}] ELSE segments[t]

LEMMA CreateRowDoes ==
    ASSUME TypeInv, CreateRow
    PROVE  RowCreated
BY DEF TypeInv, TypeOK, CreateRow, RowCreated

LEMMA CreateQuery ==
    ASSUME MaxFaults = 0, TypeInv, TypeInv', QueryInv, CreateActive
    PROVE  QueryInv'
<1> DEFINE n == lastSegment + 1
<1>1. /\ pc = "create" /\ pc' = "connect" /\ RowCreated
      /\ UNCHANGED <<lastId, file, local, reader>>
  BY CommitIsDone, CreateRowDoes, Zenon DEF CreateActive, CreateCommit, At
<1>2. active = 0 /\ active' = 0
  BY <1>1 DEF TypeInv, WriterIsOpen, Opening, local
<1>3. lastSegment \in Nat /\ n \in Nat /\ n # 0 /\ lastId \in Nat
  BY IdsAreNumbers
<1>4. n \in SegmentId
  BY <1>1, <1>3, Constants DEF TypeInv, TypeOK, RoomForSegment, Opening, SegmentId
<1>5. \A t \in SegmentId : segments[t].status # "active"
  BY <1>1 DEF QueryInv, PlaceFacts, ActiveRows
<1>6. \A t \in SegmentId : segments'[t].status = "active" <=> t = n
  BY <1>1, <1>4, <1>5 DEF RowCreated
<1>7. GetActive = 0
  BY <1>5, GetActiveIsNewest DEF NewestRow
<1>8. GetActive' = n
  BY <1>4, <1>6, GetActiveStaysNewest DEF NewestRow
<1>9. RowFacts' /\ Reading'
  <2>1. Issued
    BY <1>1, <1>3 DEF Issued
  <2>2. QED
    BY <1>1, <2>1, FilesSame DEF local
<1>10. NothingRaises' /\ WriterRow' /\ ReplacementRow' /\ OldRow'
  BY <1>1, <1>2 DEF NothingRaises, WriterRow, ReplacementRow, OldRow, Closing
<1>11. ActiveRows'
  BY <1>1, <1>2, <1>6, <1>8 DEF ActiveRows
<1>12. UnusedAreEmpty'
  <2>1. SUFFICES ASSUME NEW s \in SegmentId, s > lastSegment'
                 PROVE  segments'[s].status = "none" /\ file'[s].rows = {}
    BY DEF UnusedAreEmpty
  <2>2. s \in Nat /\ s > lastSegment /\ s # n
    BY <1>1, <1>3, <2>1, IdsAreNumbers DEF RowCreated
  <2>3. QED
    BY <1>1, <2>2 DEF QueryInv, PlaceFacts, UnusedAreEmpty, RowCreated
<1>13. NewerAreEmpty'
  <2>1. SUFFICES ASSUME NEW s \in SegmentId, s > n
                 PROVE  file'[s].rows = {}
    BY <1>2, <1>8 DEF NewerAreEmpty, OpenSegment
  <2>2. s > lastSegment
    BY <1>3, <2>1, IdsAreNumbers
  <2>3. QED
    BY <1>1, <2>2 DEF QueryInv, PlaceFacts, UnusedAreEmpty
<1>14. Counted'
  BY <1>1, <1>2, <1>7, <1>8, Constants
     DEF QueryInv, Counted, Counts, Closing, OpenSegment, RowCreated
<1>15. QED
  BY <1>9, <1>10, <1>11, <1>12, <1>13, <1>14 DEF QueryInv, PlaceFacts

LEMMA ConnectQuery ==
    ASSUME MaxFaults = 0, TypeInv, TypeInv', QueryInv, ConnectActive
    PROVE  QueryInv'
<1>1. /\ pc = "connect" /\ pc' = "refresh" /\ active' = GetActive
      /\ FileIs(GetActive, "ok", file[GetActive].rows)
      /\ UNCHANGED <<segments, lastSegment, lastId, reader, old>>
  BY NoFault DEF ConnectActive, At, Goto
<1>2. active = 0 /\ GetActive # 0
  BY <1>1 DEF TypeInv, WriterIsOpen, Opening
<1>3. GetActive \in SegmentId /\ segments[GetActive].status = "active" /\ GetActive' = GetActive
  BY <1>1, <1>2, GetActiveIsNewest, SameActive DEF NewestRow
<1>4. \A s \in SegmentId : file'[s].rows = file[s].rows
                           /\ (file'[s].state = IF s = GetActive THEN "ok" ELSE file[s].state)
  BY <1>1 DEF FileIs, TypeInv, TypeOK, File
<1>5. RowFacts' /\ Reading'
  <2>1. Issued
    BY <1>1, IdsAreNumbers DEF Issued
  <2>2. Shrinks
    BY <1>4 DEF Shrinks, QueryInv, RowFacts, RowsAreReadable
  <2>3. QED
    BY <1>1, <2>1, <2>2, FilesShrink
<1>6. NothingRaises' /\ WriterRow' /\ ReplacementRow' /\ OldRow'
  <2>1. ~(GetActive > lastSegment)
    BY <1>3 DEF QueryInv, PlaceFacts, UnusedAreEmpty
  <2>2. GetActive <= lastSegment
    BY <1>3, <2>1, IdsAreNumbers
  <2>3. QED
    BY <1>1, <1>3, <2>2 DEF NothingRaises, WriterRow, ReplacementRow, OldRow, Closing
<1>7. ActiveRows'
  BY <1>1 DEF QueryInv, PlaceFacts, ActiveRows
<1>8. OpenSegment' = OpenSegment
  BY <1>1, <1>2, <1>3 DEF OpenSegment
<1>9. UnusedAreEmpty' /\ NewerAreEmpty'
  BY <1>1, <1>4, <1>8 DEF QueryInv, PlaceFacts, UnusedAreEmpty, NewerAreEmpty
<1>10. Counted'
  BY <1>1, <1>4, <1>8 DEF QueryInv, Counted, Counts, Closing
<1>11. QED
  BY <1>5, <1>6, <1>7, <1>9, <1>10 DEF QueryInv, PlaceFacts

-----------------------------------------------------------------------------
(* The statistics of the writer's segment.                                 *)

CountSet(s, events) ==
    \A t \in SegmentId :
        /\ segments'[t].status = segments[t].status
        /\ segments'[t].counted =
               IF t = s /\ segments[t].status # "none" THEN events ELSE segments[t].counted

LEMMA RecountDoes ==
    ASSUME TypeInv, NEW s, NEW events, Recount(s, events)
    PROVE  CountSet(s, events)
BY DEF TypeInv, TypeOK, Recount, CountSet, Known, Row

LEMMA SameStatus ==
    ASSUME \A t \in SegmentId : segments'[t].status = segments[t].status
    PROVE  GetActive' = GetActive
<1>1. With("active")' = With("active")
  BY DEF With
<1>2. QED
  BY <1>1 DEF GetActive

LEMMA RecountQuery ==
    ASSUME MaxFaults = 0, TypeInv, TypeInv', QueryInv, NEW events, CountSet(active, events),
           UNCHANGED <<file, lastSegment, lastId, active, old, reader>>,
           \/ pc \in {"refresh", "advance"} /\ pc' \in {"retain", "due"}
           \/ pc = "rotate" /\ pc' = "replace" /\ events = file[active].rows
    PROVE  QueryInv'
<1>1. GetActive' = GetActive /\ OpenSegment' = OpenSegment
  BY SameStatus DEF OpenSegment, CountSet
<1>2. active # 0 /\ OpenSegment = active
  BY DEF TypeInv, WriterIsOpen, Opening, OpenSegment
<1>3. RowFacts' /\ Reading'
  <2>1. Issued
    BY IdsAreNumbers DEF Issued
  <2>2. QED
    BY <2>1, FilesSame
<1>4. NothingRaises' /\ WriterRow' /\ ReplacementRow' /\ OldRow'
  BY DEF QueryInv, PlaceFacts, NothingRaises, WriterRow, ReplacementRow, OldRow, Closing,
         CountSet, TypeInv, TypeOK
<1>5. ActiveRows'
  BY DEF QueryInv, PlaceFacts, ActiveRows, CountSet, Closing
<1>6. UnusedAreEmpty' /\ NewerAreEmpty'
  BY <1>1 DEF QueryInv, PlaceFacts, UnusedAreEmpty, NewerAreEmpty, CountSet
<1>7. Counted'
  <2>1. \A s \in SegmentId : s # active => Counts(s)' = Counts(s)
    BY DEF Counts, CountSet
  <2>2. pc' = "replace" => Counts(active)'
    BY <1>2 DEF Counts, CountSet, TypeInv, TypeOK
  <2>3. \A s \in SegmentId : s # OpenSegment' /\ segments'[s].status # "quarantined" => Counts(s)'
    BY <1>1, <1>2, <2>1 DEF QueryInv, Counted, CountSet
  <2>4. pc' \notin Closing \union {"prepare", "switch"}
    BY DEF Closing
  <2>5. QED
    BY <2>2, <2>3, <2>4 DEF Counted
<1>8. QED
  BY <1>3, <1>4, <1>5, <1>6, <1>7 DEF QueryInv, PlaceFacts

LEMMA RefreshQuery ==
    ASSUME MaxFaults = 0, TypeInv, TypeInv', QueryInv,
           RefreshOnOpen \/ RefreshOnRotate \/ Advance
    PROVE  QueryInv'
<1>1. CASE RefreshOnOpen
  <2>1. /\ Recount(active, memory') /\ pc = "refresh" /\ pc' = "retain"
        /\ UNCHANGED <<file, lastSegment, lastId, active, old, reader>>
    BY <1>1, ManifestIsDone DEF RefreshOnOpen, Refresh, At
  <2>2. QED
    BY <2>1, RecountDoes, RecountQuery
<1>2. CASE RefreshOnRotate
  <2>1. /\ Recount(active, memory') /\ pc = "rotate" /\ pc' = "replace"
        /\ memory' = file[active].rows
        /\ UNCHANGED <<file, lastSegment, lastId, active, old, reader>>
    BY <1>2, ManifestIsDone DEF RefreshOnRotate, Refresh, At
  <2>2. QED
    BY <2>1, RecountDoes, RecountQuery
<1>3. CASE Advance
  <2>1. /\ Recount(active, memory') /\ pc = "advance" /\ pc' = "due"
        /\ UNCHANGED <<file, lastSegment, lastId, active, old, reader>>
    BY <1>3, ManifestIsDone DEF Advance, At
  <2>2. QED
    BY <2>1, RecountDoes, RecountQuery
<1>4. QED
  BY <1>1, <1>2, <1>3
-----------------------------------------------------------------------------
(* Append and rotation.                                                    *)

LEMMA InsertQuery ==
    ASSUME MaxFaults = 0, TypeInv, TypeInv', QueryInv, Insert
    PROVE  QueryInv'
<1> DEFINE now == IF file[active].state = "ok" THEN file[active].rows \union {lastId} ELSE {}
<1>1. /\ pc = "insert" /\ pc' = "advance" /\ FileIs(active, file[active].state, now)
      /\ UNCHANGED <<segments, lastSegment, lastId, active, old, reader>>
  BY CommitIsDone DEF Insert, At, local
<1>2. active # 0 /\ active \in SegmentId
  BY <1>1, Constants DEF TypeInv, TypeOK, WriterIsOpen, Opening
<1>3. /\ \A s \in SegmentId : s # active => file'[s] = file[s]
      /\ file'[active] = [state |-> file[active].state, rows |-> now]
  BY <1>1, <1>2 DEF FileIs, TypeInv, TypeOK
<1>4. \A s \in SegmentId : \A e \in file'[s].rows :
          e \in file[s].rows \/ (s = active /\ e = lastId)
  <2>1. file'[active].rows \subseteq file[active].rows \union {lastId}
    BY <1>3
  <2>2. QED
    BY <1>3, <2>1
<1>5. GetActive' = GetActive /\ OpenSegment' = active /\ OpenSegment = active
  BY <1>1, <1>2, SameActive DEF OpenSegment
<1>6. lastId \in Nat /\ \A s \in SegmentId : s \in Nat /\ \A e \in file[s].rows : e \in Nat
  BY IdsAreNumbers
<1>7. \A s \in SegmentId : s > active => file'[s].rows = {}
  BY <1>2, <1>3, <1>5, <1>6 DEF QueryInv, PlaceFacts, NewerAreEmpty
<1>8. \A s \in SegmentId : \A e \in file[s].rows : e < lastId
  BY <1>1, <1>6 DEF QueryInv, RowFacts, IssuedOnce
<1>9. RowsAreReadable'
  BY <1>2, <1>3 DEF QueryInv, RowFacts, RowsAreReadable
<1>10. RowsInOrder'
  <2>1. SUFFICES ASSUME NEW s \in SegmentId, NEW t \in SegmentId, s < t,
                        NEW e \in file'[s].rows, NEW f \in file'[t].rows
                 PROVE  e < f
    BY DEF RowsInOrder
  <2>2. CASE s = active
    BY <1>6, <1>7, <2>1, <2>2
  <2>3. CASE s # active
    <3>1. e \in file[s].rows
      BY <1>4, <2>3
    <3>2. CASE f \in file[t].rows
      BY <2>1, <3>1, <3>2 DEF QueryInv, RowFacts, RowsInOrder
    <3>3. CASE f = lastId
      BY <1>8, <3>1, <3>3
    <3>4. QED
      BY <1>4, <3>2, <3>3
  <2>4. QED
    BY <2>2, <2>3
<1>11. IssuedOnce'
  <2>1. SUFFICES ASSUME NEW s \in SegmentId, NEW e \in file'[s].rows
                 PROVE  e <= lastId
    BY <1>1 DEF IssuedOnce
  <2>2. e \in file[s].rows \/ e = lastId
    BY <1>4
  <2>3. QED
    BY <1>6, <1>8, <2>2
<1>12. Reading'
  <2>1. SUFFICES ASSUME reader.on PROVE Reading'
    BY <1>1 DEF Reading
  <2>2. \A e \in reader.before : e <= lastId /\ e # lastId
    BY <1>1, <2>1 DEF QueryInv, Reading
  <2>3. \A s \in SegmentId : file'[s].rows \intersect reader.before
                             \subseteq file[s].rows \intersect reader.before
    BY <1>4, <2>2
  <2>4. reader.left \subseteq SegmentId
    BY DEF TypeInv, TypeOK
  <2>5. /\ \A s \in SegmentId : \A e \in file'[s].rows \intersect reader.before :
               s \in reader.left \/ e \in reader.found \/ Beaten(e, reader.found)
        /\ \A s \in reader.left : \A e \in file'[s].rows \intersect reader.before :
               \A f \in reader.found : e < f
    BY <2>1, <2>3, <2>4 DEF QueryInv, Reading
  <2>6. QED
    BY <1>1, <2>2, <2>5 DEF Reading, Beaten
<1>13. NothingRaises' /\ WriterRow' /\ ReplacementRow' /\ OldRow' /\ ActiveRows'
  BY <1>1, <1>5
     DEF QueryInv, PlaceFacts, NothingRaises, WriterRow, ReplacementRow, OldRow, ActiveRows, Closing
<1>14. UnusedAreEmpty'
  <2>1. \A s \in SegmentId : s > lastSegment => s # active
    BY <1>2, <1>6, IdsAreNumbers DEF QueryInv, PlaceFacts, WriterRow
  <2>2. QED
    BY <1>1, <1>3, <2>1 DEF QueryInv, PlaceFacts, UnusedAreEmpty
<1>15. NewerAreEmpty'
  BY <1>5, <1>7 DEF NewerAreEmpty
<1>16. Counted'
  BY <1>1, <1>3, <1>5 DEF QueryInv, Counted, Counts, Closing
<1>17. QED
  BY <1>9, <1>10, <1>11, <1>12, <1>13, <1>14, <1>15, <1>16 DEF QueryInv, RowFacts, PlaceFacts

LEMMA ReplaceQuery ==
    ASSUME MaxFaults = 0, TypeInv, TypeInv', QueryInv, CreateReplacement
    PROVE  QueryInv'
<1> DEFINE n == lastSegment + 1
<1>1. /\ pc = "replace" /\ pc' = "prepare" /\ RowCreated
      /\ UNCHANGED <<lastId, file, active, old, reader>>
  BY CommitIsDone, CreateRowDoes, Zenon DEF CreateReplacement, CreateCommit, At, local
<1>2. active # 0 /\ active \in SegmentId
  BY <1>1, Constants DEF TypeInv, TypeOK, WriterIsOpen, Opening
<1>3. lastSegment \in Nat /\ n \in Nat /\ lastId \in Nat /\ active \in Nat
  BY IdsAreNumbers
<1>4. n \in SegmentId /\ n > lastSegment /\ active < n /\ active # n
  BY <1>1, <1>2, <1>3, Constants
     DEF TypeInv, RoomForSegment, SegmentId, QueryInv, PlaceFacts, WriterRow
<1>5. OpenSegment = active /\ OpenSegment' = active
  BY <1>1, <1>2 DEF OpenSegment
<1>6. RowFacts' /\ Reading'
  <2>1. Issued
    BY <1>1, <1>3 DEF Issued
  <2>2. QED
    BY <1>1, <2>1, FilesSame
<1>7. segments'[active] = segments[active] /\ segments'[n].status = "active"
      /\ lastSegment' = n
  BY <1>1, <1>2, <1>4 DEF RowCreated
<1>8. NothingRaises' /\ OldRow'
  BY <1>1 DEF NothingRaises, OldRow, Closing
<1>9. WriterRow' /\ ReplacementRow'
  BY <1>1, <1>2, <1>3, <1>4, <1>7 DEF QueryInv, PlaceFacts, WriterRow, ReplacementRow
<1>10. ActiveRows'
  BY <1>1, <1>2, <1>7 DEF QueryInv, PlaceFacts, ActiveRows, RowCreated, Closing
<1>11. UnusedAreEmpty'
  <2>1. SUFFICES ASSUME NEW s \in SegmentId, s > lastSegment'
                 PROVE  segments'[s].status = "none" /\ file'[s].rows = {}
    BY DEF UnusedAreEmpty
  <2>2. s \in Nat /\ s > lastSegment /\ s # n
    BY <1>3, <1>7, <2>1, IdsAreNumbers
  <2>3. QED
    BY <1>1, <2>2 DEF QueryInv, PlaceFacts, UnusedAreEmpty, RowCreated
<1>12. NewerAreEmpty'
  BY <1>1, <1>5 DEF QueryInv, PlaceFacts, NewerAreEmpty
<1>13. Counted'
  <2>1. \A s \in SegmentId : /\ s = n => file'[s].rows = {}
                             /\ s # n => segments'[s] = segments[s] /\ file'[s] = file[s]
    BY <1>1, <1>4 DEF QueryInv, PlaceFacts, UnusedAreEmpty, RowCreated
  <2>2. \A s \in SegmentId : s # active /\ segments'[s].status # "quarantined" => Counts(s)'
    BY <1>5, <2>1 DEF QueryInv, Counted, Counts
  <2>3. Counts(active)'
    BY <1>1, <1>2, <1>4, <2>1 DEF QueryInv, Counted, Counts
  <2>4. QED
    BY <1>1, <1>5, <2>2, <2>3 DEF Counted, Closing, Counts
<1>14. QED
  BY <1>6, <1>8, <1>9, <1>10, <1>11, <1>12, <1>13 DEF QueryInv, PlaceFacts

(* A segment that holds nothing gets a file that holds nothing.            *)
LEMMA EmptyFileDoes ==
    ASSUME TypeInv, QueryInv, NEW s \in SegmentId, NEW state, FileIs(s, state, {})
    PROVE  /\ Shrinks
           /\ \A t \in SegmentId : t # s => file'[t].rows = file[t].rows
           /\ file'[s].rows = {}
<1>1. \A t \in SegmentId : file'[t] = IF t = s THEN [state |-> state, rows |-> {}] ELSE file[t]
  BY DEF FileIs, TypeInv, TypeOK
<1>2. QED
  BY <1>1 DEF Shrinks, QueryInv, RowFacts, RowsAreReadable

LEMMA PrepareQuery ==
    ASSUME MaxFaults = 0, TypeInv, TypeInv', QueryInv, PrepareReplacement
    PROVE  QueryInv'
<1>1. /\ pc = "prepare" /\ pc' = "switch" /\ FileIs(lastSegment, "bare", {})
      /\ UNCHANGED <<segments, lastSegment, lastId, active, old, reader>>
  BY CommitIsDone DEF PrepareReplacement, At, local
<1>2. active # 0 /\ active < lastSegment /\ lastSegment \in SegmentId
  BY <1>1, Constants
     DEF TypeInv, TypeOK, WriterIsOpen, Opening, RoomForSegment, QueryInv, PlaceFacts,
         ReplacementRow
<1>3. GetActive' = GetActive /\ OpenSegment' = active /\ OpenSegment = active
  BY <1>1, <1>2, SameActive DEF OpenSegment
<1>4. Shrinks /\ \A t \in SegmentId : file'[t].rows = file[t].rows
  <2>1. file[lastSegment].rows = {}
    BY <1>2, <1>3, IdsAreNumbers DEF QueryInv, PlaceFacts, NewerAreEmpty
  <2>2. QED
    BY <1>1, <1>2, <2>1, EmptyFileDoes
<1>5. RowFacts' /\ Reading'
  <2>1. Issued
    BY <1>1, IdsAreNumbers DEF Issued
  <2>2. QED
    BY <1>1, <1>4, <2>1, FilesShrink
<1>6. NothingRaises' /\ WriterRow' /\ ReplacementRow' /\ OldRow' /\ ActiveRows'
  BY <1>1, <1>2
     DEF QueryInv, PlaceFacts, NothingRaises, WriterRow, ReplacementRow, OldRow, ActiveRows, Closing
<1>7. UnusedAreEmpty' /\ NewerAreEmpty'
  BY <1>1, <1>3, <1>4 DEF QueryInv, PlaceFacts, UnusedAreEmpty, NewerAreEmpty
<1>8. Counted'
  <2>1. active \in SegmentId
    BY <1>2, Constants DEF TypeInv, TypeOK
  <2>2. QED
    BY <1>1, <1>3, <1>4, <2>1 DEF QueryInv, Counted, Counts, Closing
<1>9. QED
  BY <1>5, <1>6, <1>7, <1>8 DEF QueryInv, PlaceFacts

LEMMA SwitchQuery ==
    ASSUME MaxFaults = 0, TypeInv, TypeInv', QueryInv, SwitchWriter
    PROVE  QueryInv'
<1>1. /\ pc = "switch" /\ pc' = "checkpoint" /\ FileIs(lastSegment, "ok", {})
      /\ active' = lastSegment /\ old' = active
      /\ UNCHANGED <<segments, lastSegment, lastId, reader>>
  BY NoFault DEF SwitchWriter, At, Goto
<1>2. active # 0 /\ active < lastSegment /\ lastSegment \in SegmentId /\ active \in SegmentId
  BY <1>1, Constants
     DEF TypeInv, TypeOK, WriterIsOpen, Opening, RoomForSegment, QueryInv, PlaceFacts,
         ReplacementRow
<1>3. lastSegment # 0 /\ lastSegment \in Nat /\ active \in Nat
  BY <1>2, IdsAreNumbers
<1>4. OpenSegment' = lastSegment /\ OpenSegment = active
  BY <1>1, <1>2, <1>3 DEF OpenSegment
<1>5. Shrinks /\ \A t \in SegmentId : file'[t].rows = file[t].rows
  <2>1. file[lastSegment].rows = {}
    BY <1>2, <1>4, IdsAreNumbers DEF QueryInv, PlaceFacts, NewerAreEmpty
  <2>2. QED
    BY <1>1, <1>2, <2>1, EmptyFileDoes
<1>6. RowFacts' /\ Reading'
  <2>1. Issued
    BY <1>1, IdsAreNumbers DEF Issued
  <2>2. QED
    BY <1>1, <1>5, <2>1, FilesShrink
<1>7. NothingRaises' /\ ReplacementRow' /\ ActiveRows'
  BY <1>1, <1>2
     DEF QueryInv, PlaceFacts, NothingRaises, ReplacementRow, ActiveRows, Closing
<1>8. WriterRow'
  BY <1>1, <1>2, <1>3 DEF QueryInv, PlaceFacts, WriterRow, ReplacementRow
<1>9. OldRow'
  BY <1>1, <1>2, <1>4, <1>5 DEF QueryInv, PlaceFacts, NewerAreEmpty, OldRow
<1>10. UnusedAreEmpty' /\ NewerAreEmpty'
  BY <1>1, <1>4, <1>5 DEF QueryInv, PlaceFacts, UnusedAreEmpty, NewerAreEmpty
<1>11. Counted'
  <2>1. \A s \in SegmentId : Counts(s)' = Counts(s)
    BY <1>1, <1>5 DEF Counts
  <2>2. \A s \in SegmentId : s # lastSegment /\ segments[s].status # "quarantined" => Counts(s)
    BY <1>1, <1>4 DEF QueryInv, Counted
  <2>3. Counts(active)
    BY <1>1 DEF QueryInv, Counted
  <2>4. Counts(old)'
    BY <1>1, <1>2, <1>5, <2>3 DEF Counts
  <2>5. QED
    BY <1>1, <1>4, <2>1, <2>2, <2>4 DEF Counted, Closing
<1>12. QED
  BY <1>6, <1>7, <1>8, <1>9, <1>10, <1>11 DEF QueryInv, PlaceFacts

LEMMA CloseOldQuery ==
    ASSUME MaxFaults = 0, TypeInv, TypeInv', QueryInv, CloseOld
    PROVE  QueryInv'
<1>1. PICK status \in {"closed", "checkpoint_pending"} :
          /\ pc \in Closing /\ pc' = "retain" /\ SetStatus(old, status)
          /\ UNCHANGED <<lastSegment, lastId, file, active, old, reader>>
  BY ManifestIsDone
     DEF CloseOld, At, local, Closing, QueryInv, PlaceFacts, NothingRaises
<1>2. StatusSet(old, status)
  BY <1>1, SetStatusDoes
<1>3. active # 0 /\ active \in SegmentId /\ old < active /\ old \in SegmentId /\ old # active
  BY <1>1, Constants, IdsAreNumbers
     DEF TypeInv, TypeOK, WriterIsOpen, Opening, Closing, QueryInv, PlaceFacts, OldRow
<1>4. OpenSegment = active /\ OpenSegment' = active
  BY <1>1, <1>3 DEF OpenSegment
<1>5. RowFacts' /\ Reading'
  <2>1. Issued
    BY <1>1, IdsAreNumbers DEF Issued
  <2>2. QED
    BY <1>1, <2>1, FilesSame
<1>6. NothingRaises' /\ WriterRow' /\ ReplacementRow' /\ OldRow'
  BY <1>1, <1>2, <1>3
     DEF QueryInv, PlaceFacts, NothingRaises, WriterRow, ReplacementRow, OldRow, StatusSet, Closing
<1>7. ActiveRows'
  BY <1>1, <1>2, <1>3 DEF QueryInv, PlaceFacts, ActiveRows, StatusSet, Closing
<1>8. UnusedAreEmpty' /\ NewerAreEmpty'
  BY <1>1, <1>2, <1>4 DEF QueryInv, PlaceFacts, UnusedAreEmpty, NewerAreEmpty, StatusSet
<1>9. Counted'
  <2>1. \A s \in SegmentId : Counts(s)' <=> Counts(s)
    BY <1>1, <1>2 DEF Counts, StatusSet
  <2>2. Counts(old)
    BY <1>1 DEF QueryInv, Counted
  <2>3. \A s \in SegmentId : s # active /\ segments'[s].status # "quarantined" => Counts(s)
    BY <1>2, <1>4, <2>2 DEF QueryInv, Counted, StatusSet
  <2>4. QED
    BY <1>1, <1>4, <2>1, <2>3 DEF Counted, Closing
<1>10. QED
  BY <1>5, <1>6, <1>7, <1>8, <1>9 DEF QueryInv, PlaceFacts
-----------------------------------------------------------------------------
(* Retention, and damage.                                                  *)

(* A segment is isolated, or a pending checkpoint is done.                 *)
Isolated ==
    \A t \in SegmentId :
        /\ segments'[t].counted = segments[t].counted
        /\ \/ segments'[t].status = segments[t].status
           \/ segments'[t].status = "quarantined" /\ segments[t].status # "none"
           \/ segments'[t].status = "closed" /\ segments[t].status = "checkpoint_pending"

LEMMA IsolatedKeeps ==
    ASSUME TypeInv, TypeInv', QueryInv, Isolated, active # 0, pc' = pc,
           UNCHANGED <<file, lastSegment, lastId, active, old>>
    PROVE  RowFacts' /\ PlaceFacts' /\ Counted'
<1>1. RowFacts'
  <2>1. Shrinks
    BY DEF Shrinks, QueryInv, RowFacts, RowsAreReadable
  <2>2. Issued
    BY IdsAreNumbers DEF Issued
  <2>3. QED
    BY <2>1, <2>2, RowsKept DEF QueryInv
<1>2. OpenSegment = active /\ OpenSegment' = active
  BY DEF OpenSegment
<1>3. pc \notin {"pick", "probe", "connect", "create"} /\ active \in SegmentId
  BY Constants DEF TypeInv, TypeOK, WriterIsOpen, Opening
<1>4. NothingRaises' /\ WriterRow' /\ OldRow'
  BY <1>3 DEF QueryInv, PlaceFacts, NothingRaises, WriterRow, OldRow, Isolated
<1>5. ReplacementRow'
  <2>1. pc \in {"prepare", "switch"} => lastSegment \in SegmentId
    BY DEF TypeInv, TypeOK, RoomForSegment
  <2>2. QED
    BY <2>1 DEF QueryInv, PlaceFacts, ReplacementRow, Isolated
<1>6. ActiveRows'
  BY <1>3 DEF QueryInv, PlaceFacts, ActiveRows, Isolated
<1>7. UnusedAreEmpty' /\ NewerAreEmpty'
  BY <1>2 DEF QueryInv, PlaceFacts, UnusedAreEmpty, NewerAreEmpty, Isolated
<1>8. Counted'
  <2>1. \A s \in SegmentId : Counts(s)' <=> Counts(s)
    BY DEF Counts, Isolated
  <2>2. \A s \in SegmentId : s # active /\ segments'[s].status # "quarantined" => Counts(s)
    BY <1>2 DEF QueryInv, Counted, Isolated
  <2>3. pc \in {"replace", "prepare", "switch"} => Counts(active)'
    BY <1>3, <2>1 DEF QueryInv, Counted, Counts
  <2>4. pc \in Closing => Counts(old)'
    <3>1. pc \in Closing => old \in SegmentId
      BY DEF QueryInv, PlaceFacts, OldRow, TypeInv, TypeOK
    <3>2. QED
      BY <2>1, <3>1 DEF QueryInv, Counted, Counts
  <2>5. QED
    BY <1>2, <2>1, <2>2, <2>3, <2>4 DEF Counted
<1>9. QED
  BY <1>1, <1>4, <1>5, <1>6, <1>7, <1>8 DEF PlaceFacts

LEMMA RetryQuery ==
    ASSUME MaxFaults = 0, TypeInv, TypeInv', QueryInv, RetryCheckpoint
    PROVE  QueryInv'
<1> DEFINE s == Min(pending)
<1>1. /\ pc = "pending" /\ pc' = "pending"
      /\ \/ SetStatus(s, "quarantined")
         \/ segments[s].status = "checkpoint_pending" /\ SetStatus(s, "closed")
         \/ UNCHANGED segments
      /\ UNCHANGED <<file, lastSegment, lastId, active, old, reader>>
  BY ManifestIsDone, Zenon DEF RetryCheckpoint, At, disk
<1> HIDE DEF s
<1>2. Isolated
  <2>1. SetStatus(s, "quarantined") => Isolated
    BY SetStatusDoes DEF StatusSet, Isolated
  <2>2. segments[s].status = "checkpoint_pending" /\ SetStatus(s, "closed") => Isolated
    BY SetStatusDoes DEF StatusSet, Isolated
  <2>3. UNCHANGED segments => Isolated
    BY DEF Isolated
  <2>4. QED
    BY <1>1, <2>1, <2>2, <2>3
<1>3. active # 0
  BY <1>1 DEF TypeInv, WriterIsOpen, Opening
<1>4. Reading'
  <2>1. Issued
    BY <1>1, IdsAreNumbers DEF Issued
  <2>2. QED
    BY <1>1, <2>1, FilesSame
<1>5. QED
  BY <1>1, <1>2, <1>3, <1>4, IsolatedKeeps DEF QueryInv

(* Rows go, by retention or from outside.                                  *)
LEMMA RowsGo ==
    ASSUME TypeInv, TypeInv', QueryInv, Shrinks, QuietPlace, pc' # "insert" \/ pc = "insert",
           UNCHANGED <<segments, lastSegment, lastId, active, old, reader>>
    PROVE  QueryInv'
<1>1. RowFacts' /\ Reading'
  <2>1. Issued
    BY IdsAreNumbers DEF Issued
  <2>2. QED
    BY <2>1, FilesShrink
<1>2. GetActive' = GetActive /\ OpenSegment' = OpenSegment
  BY SameActive DEF OpenSegment
<1>3. NothingRaises' /\ WriterRow' /\ ReplacementRow' /\ ActiveRows'
  BY <1>2 DEF QueryInv, PlaceFacts, NothingRaises, WriterRow, ReplacementRow, ActiveRows,
              QuietPlace, Closing
<1>4. OldRow' /\ UnusedAreEmpty' /\ NewerAreEmpty'
  BY <1>2 DEF QueryInv, PlaceFacts, OldRow, UnusedAreEmpty, NewerAreEmpty, QuietPlace, Shrinks,
              Closing
<1>5. Counted'
  <2>1. \A s \in SegmentId : Counts(s) => Counts(s)'
    BY DEF Counts, Shrinks
  <2>2. pc \in {"replace", "prepare", "switch"} => active \in SegmentId
    BY DEF TypeInv, TypeOK, WriterIsOpen, Opening
  <2>3. pc \in Closing => old \in SegmentId
    BY DEF QueryInv, PlaceFacts, OldRow, TypeInv, TypeOK
  <2>4. pc' \in {"replace", "prepare", "switch"} => Counts(active)'
    BY <2>1, <2>2 DEF QueryInv, Counted, Counts, QuietPlace, Closing
  <2>5. pc' \in Closing => Counts(old)'
    BY <2>1, <2>3 DEF QueryInv, Counted, Counts, QuietPlace, Closing
  <2>6. \A s \in SegmentId : s # OpenSegment' /\ segments'[s].status # "quarantined" => Counts(s)'
    BY <1>2, <2>1 DEF QueryInv, Counted
  <2>7. QED
    BY <2>4, <2>5, <2>6 DEF Counted
<1>6. QED
  BY <1>1, <1>3, <1>4, <1>5 DEF QueryInv, PlaceFacts

LEMMA UnlinkQuery ==
    ASSUME MaxFaults = 0, TypeInv, TypeInv', QueryInv, Unlink
    PROVE  QueryInv'
<1>1. /\ pc = "unlink" /\ pc' = "forget" /\ FileIs(victim, "absent", {})
      /\ UNCHANGED <<segments, lastSegment, lastId, active, old, reader>>
  BY NoFault DEF Unlink, At, Goto
<1>2. victim \in SegmentId
  BY <1>1 DEF TypeInv, TypeOK
<1>3. Shrinks
  BY <1>1, <1>2, EmptyFileDoes
<1>4. QuietPlace
  BY <1>1 DEF QuietPlace, Closing
<1>5. QED
  BY <1>1, <1>3, <1>4, RowsGo

LEMMA DamageQuery ==
    ASSUME TypeInv, TypeInv', QueryInv, NEW s \in SegmentId, NEW state, Damage(s, state)
    PROVE  QueryInv'
<1>1. /\ pc' = pc /\ FileIs(s, state, {})
      /\ UNCHANGED <<segments, lastSegment, lastId, active, old, reader>>
  BY DEF Damage, local
<1>2. Shrinks
  BY <1>1, EmptyFileDoes
<1>3. QuietPlace
  BY <1>1 DEF QuietPlace
<1>4. QED
  BY <1>1, <1>2, <1>3, RowsGo

LEMMA ForgetQuery ==
    ASSUME MaxFaults = 0, TypeInv, TypeInv', QueryInv, ForgetSegment
    PROVE  QueryInv'
<1>1. /\ pc = "forget" /\ pc' = "pass" /\ DeleteRow(victim)
      /\ UNCHANGED <<file, lastSegment, lastId, active, old, reader>>
  BY ManifestIsDone DEF ForgetSegment, At, local
<1>2. \A t \in SegmentId : \/ segments'[t] = segments[t]
                           \/ segments'[t] = [status |-> "none", counted |-> {}]
  BY <1>1 DEF DeleteRow, TypeInv, TypeOK
<1>3. active # 0 /\ active \in SegmentId
  BY <1>1, Constants DEF TypeInv, TypeOK, WriterIsOpen, Opening
<1>4. OpenSegment = active /\ OpenSegment' = active
  BY <1>1, <1>3 DEF OpenSegment
<1>5. RowFacts' /\ Reading'
  <2>1. Issued
    BY <1>1, IdsAreNumbers DEF Issued
  <2>2. QED
    BY <1>1, <2>1, FilesSame
<1>6. NothingRaises' /\ ReplacementRow' /\ OldRow'
  BY <1>1 DEF NothingRaises, ReplacementRow, OldRow, Closing
<1>7. WriterRow'
  <2>1. \/ segments'[active] = segments[active]
        \/ segments'[active] = [status |-> "none", counted |-> {}]
    BY <1>2, <1>3
  <2>2. QED
    BY <1>1, <2>1 DEF QueryInv, PlaceFacts, WriterRow
<1>8. ActiveRows'
  <2>1. \A t \in SegmentId : segments'[t].status = "active" => segments[t].status = "active"
    BY <1>2
  <2>2. QED
    BY <1>1, <1>3, <2>1 DEF QueryInv, PlaceFacts, ActiveRows, Closing
<1>9. UnusedAreEmpty' /\ NewerAreEmpty'
  <2>1. \A t \in SegmentId : segments[t].status = "none" => segments'[t].status = "none"
    BY <1>2
  <2>2. QED
    BY <1>1, <1>4, <2>1 DEF QueryInv, PlaceFacts, UnusedAreEmpty, NewerAreEmpty
<1>10. Counted'
  <2>1. \A t \in SegmentId : t # active /\ segments'[t].status # "quarantined" => Counts(t)'
    BY <1>1, <1>2, <1>4 DEF QueryInv, Counted, Counts
  <2>2. QED
    BY <1>1, <1>4, <2>1 DEF Counted, Closing
<1>11. QED
  BY <1>5, <1>6, <1>7, <1>8, <1>9, <1>10 DEF QueryInv, PlaceFacts
-----------------------------------------------------------------------------
(* Queries.                                                                *)

(* A row lies in one segment.                                              *)
LEMMA OneSegment ==
    ASSUME TypeInv, RowFacts, NEW s \in SegmentId, NEW t \in SegmentId,
           NEW e \in file[s].rows, e \in file[t].rows
    PROVE  s = t
<1>1. s \in Nat /\ t \in Nat /\ e \in Nat
  BY IdsAreNumbers
<1>2. ~(s < t) /\ ~(t < s)
  BY <1>1 DEF RowFacts, RowsInOrder
<1>3. QED
  BY <1>1, <1>2

LEMMA VisibleRows ==
    ASSUME NEW e \in Visible
    PROVE  \E s \in SegmentId : s \in Listed /\ e \in file[s].rows
<1>1. PICK s \in SegmentId : e \in Readable(s)
  BY DEF Visible
<1>2. QED
  BY <1>1 DEF Readable

LEMMA BeginQueryQuery ==
    ASSUME MaxFaults = 0, TypeInv, TypeInv', QueryInv, BeginQuery
    PROVE  QueryInv'
<1>1. /\ pc' = pc /\ UNCHANGED <<segments, file, lastSegment, lastId, active, old>>
      /\ reader' = [on |-> TRUE, left |-> Listed, found |-> {}, before |-> Visible]
  BY DEF BeginQuery, disk, local
<1>2. RowFacts' /\ PlaceFacts' /\ Counted'
  <2>1. QuietPlace
    BY <1>1 DEF QuietPlace
  <2>2. Issued
    BY <1>1, IdsAreNumbers DEF Issued
  <2>3. QED
    BY <1>1, <2>1, <2>2, QuietKeeps
<1>3. \A e \in Visible : e <= lastId /\ (pc = "insert" => e # lastId)
  BY VisibleRows DEF QueryInv, RowFacts, IssuedOnce
<1>4. ASSUME NEW s \in SegmentId, NEW e \in file[s].rows \intersect Visible
      PROVE  s \in Listed
  <2>1. PICK t \in SegmentId : t \in Listed /\ e \in file[t].rows
    BY <1>4, VisibleRows
  <2>2. s = t
    BY <1>4, <2>1, OneSegment DEF QueryInv
  <2>3. QED
    BY <2>1, <2>2
<1>5. Reading'
  BY <1>1, <1>3, <1>4 DEF Reading
<1>6. QED
  BY <1>2, <1>5 DEF QueryInv

(* A query that reads nothing from its next segment.                       *)
LEMMA NothingRead ==
    ASSUME TypeInv, QueryInv, reader.on, NEW s \in SegmentId, file[s].rows = {},
           reader' = [reader EXCEPT !.left = @ \ {s}, !.found = reader.found],
           UNCHANGED <<file, lastId, pc>>
    PROVE  Reading'
<1>1. /\ reader'.on = reader.on /\ reader'.left = reader.left \ {s}
      /\ reader'.found = reader.found /\ reader'.before = reader.before
  BY DEF TypeInv, TypeOK
<1>2. QED
  BY <1>1 DEF QueryInv, Reading, Beaten

(* A query that reads its next segment: the newest one that is left.       *)
LEMMA NewestRead ==
    ASSUME TypeInv, QueryInv, reader.on, NEW s \in SegmentId, s \in reader.left,
           \A t \in reader.left : t <= s,
           reader' = [reader EXCEPT !.left = @ \ {s},
                          !.found = reader.found \union Newest(PageSize, file[s].rows)],
           UNCHANGED <<file, lastId, pc>>
    PROVE  Reading'
<1> DEFINE new == Newest(PageSize, file[s].rows)
<1>1. /\ reader'.on = reader.on /\ reader'.left = reader.left \ {s}
      /\ reader'.found = reader.found \union new /\ reader'.before = reader.before
  BY DEF TypeInv, TypeOK
<1>2. file[s].rows \in SUBSET Event /\ new \subseteq file[s].rows /\ reader.found \subseteq Event
  BY DEF TypeInv, TypeOK, File, Newest
<1>3. PageSize \in Nat
  BY Constants
<1>4. ASSUME NEW e \in Event, NEW S \in SUBSET (reader.found \union new),
             Cardinality({f \in S : f > e}) >= PageSize
      PROVE  Beaten(e, reader.found \union new)
  <2>1. {f \in reader.found \union new : f > e} \in SUBSET Event
    BY <1>2
  <2>2. {f \in S : f > e} \in SUBSET {f \in reader.found \union new : f > e}
    BY <1>4
  <2>3. /\ Cardinality({f \in S : f > e})
               <= Cardinality({f \in reader.found \union new : f > e})
        /\ Cardinality({f \in S : f > e}) \in Nat
        /\ Cardinality({f \in reader.found \union new : f > e}) \in Nat
    BY <2>1, <2>2, SubsetCounts, EventsAreFinite
  <2>4. QED
    BY <1>3, <1>4, <2>3 DEF Beaten
<1>5. ASSUME NEW t \in SegmentId, NEW e \in file[t].rows \intersect reader.before
      PROVE  t \in reader.left \ {s} \/ e \in reader.found \union new
             \/ Beaten(e, reader.found \union new)
  <2>1. e \in Event
    BY DEF TypeInv, TypeOK, File
  <2>2. t \in reader.left \/ e \in reader.found \/ Beaten(e, reader.found)
    BY <1>5 DEF QueryInv, Reading
  <2>3. CASE Beaten(e, reader.found)
    BY <1>4, <2>1, <2>3 DEF Beaten
  <2>4. CASE t = s /\ e \notin new
    <3>1. Cardinality({f \in new : f > e}) >= PageSize
      BY <1>2, <1>3, <2>4, LeftOutIsBeaten
    <3>2. QED
      BY <1>4, <2>1, <3>1
  <2>5. QED
    BY <2>2, <2>3, <2>4
<1>6. ASSUME NEW t \in reader.left \ {s}, NEW e \in file[t].rows \intersect reader.before,
             NEW f \in reader.found \union new
      PROVE  e < f
  <2>1. t \in SegmentId /\ t \in reader.left
    BY DEF TypeInv, TypeOK
  <2>2. CASE f \in reader.found
    BY <1>6, <2>1, <2>2 DEF QueryInv, Reading
  <2>3. CASE f \in new
    <3>1. t < s
      BY <2>1, IdsAreNumbers
    <3>2. f \in file[s].rows /\ e \in file[t].rows
      BY <1>2, <2>3
    <3>3. QED
      BY <2>1, <3>1, <3>2 DEF QueryInv, RowFacts, RowsInOrder
  <2>4. QED
    BY <2>2, <2>3
<1>7. \A e \in reader.before : e <= lastId /\ (pc = "insert" => e # lastId)
  BY DEF QueryInv, Reading
<1>8. QED
  BY <1>1, <1>5, <1>6, <1>7 DEF Reading

LEMMA ReadSegmentQuery ==
    ASSUME MaxFaults = 0, TypeInv, TypeInv', QueryInv, ReadSegment
    PROVE  QueryInv'
<1> DEFINE s == Max(reader.left)
           Took(found) == reader' = [reader EXCEPT !.left = @ \ {s}, !.found = found]
<1>1. s \in reader.left /\ s \in SegmentId /\ \A t \in reader.left : t <= s
  <2>1. reader.left \subseteq SegmentId /\ reader.left # {}
    BY DEF ReadSegment, TypeInv, TypeOK
  <2>2. QED
    BY <2>1, SegmentsAreBounded, MaxIsMember
<1>2. /\ reader.on /\ pc' = pc
      /\ UNCHANGED <<file, lastSegment, lastId, active, old>>
      /\ \/ /\ file[s].state = "ok" /\ UNCHANGED segments
            /\ Took(reader.found \union Newest(PageSize, file[s].rows))
         \/ reader' = NoReader /\ UNCHANGED segments
         \/ /\ file[s].state # "ok" /\ Took(reader.found)
            /\ UNCHANGED segments \/ SetStatus(s, "quarantined")
  BY DEF ReadSegment, local
<1> HIDE DEF s
<1>3. active # 0
  BY <1>2 DEF TypeInv, WriterIsOpen
<1>4. Isolated
  <2>1. SetStatus(s, "quarantined") => Isolated
    BY SetStatusDoes DEF StatusSet, Isolated
  <2>2. UNCHANGED segments => Isolated
    BY DEF Isolated
  <2>3. QED
    BY <1>2, <2>1, <2>2
<1>5. RowFacts' /\ PlaceFacts' /\ Counted'
  BY <1>2, <1>3, <1>4, IsolatedKeeps
<1>6. Reading'
  <2>1. CASE Took(reader.found \union Newest(PageSize, file[s].rows))
    BY <1>1, <1>2, <2>1, NewestRead
  <2>2. CASE reader' = NoReader
    BY <2>2 DEF Reading, NoReader
  <2>3. CASE file[s].state # "ok" /\ Took(reader.found)
    <3>1. file[s].rows = {}
      BY <1>1, <2>3 DEF QueryInv, RowFacts, RowsAreReadable
    <3>2. QED
      BY <1>1, <1>2, <2>3, <3>1, NothingRead
  <2>4. QED
    BY <1>2, <2>1, <2>2, <2>3
<1>7. QED
  BY <1>5, <1>6 DEF QueryInv

LEMMA EndQueryQuery ==
    ASSUME MaxFaults = 0, TypeInv, TypeInv', QueryInv, EndQuery
    PROVE  QueryInv'
<1>1. /\ pc' = pc /\ UNCHANGED <<segments, file, lastSegment, lastId, active, old>>
      /\ reader' = NoReader
  BY DEF EndQuery, disk, local
<1>2. QuietPlace
  BY <1>1 DEF QuietPlace
<1>3. Issued
  BY <1>1, IdsAreNumbers DEF Issued
<1>4. Reading'
  BY <1>1 DEF Reading, NoReader
<1>5. QED
  BY <1>1, <1>2, <1>3, <1>4, QuietKeeps DEF QueryInv

-----------------------------------------------------------------------------
(* The process dies.                                                       *)

LEMMA CrashQuery ==
    ASSUME TypeInv, TypeInv', QueryInv, Crash
    PROVE  QueryInv'
<1>1. /\ pc' = "down" /\ active' = 0 /\ reader' = NoReader
      /\ UNCHANGED <<segments, file, lastSegment, lastId>>
  BY DEF Crash, ForgetProcess, Goto, disk
<1>2. GetActive' = GetActive /\ OpenSegment' = GetActive
  BY <1>1, SameActive DEF OpenSegment
<1>3. RowFacts' /\ Reading'
  <2>1. Issued
    BY <1>1, IdsAreNumbers DEF Issued
  <2>2. ~reader'.on
    BY <1>1 DEF NoReader
  <2>3. QED
    BY <1>1, <2>1, <2>2, FilesSame
<1>4. NothingRaises' /\ WriterRow' /\ ReplacementRow' /\ OldRow' /\ ActiveRows'
  BY <1>1 DEF NothingRaises, WriterRow, ReplacementRow, OldRow, ActiveRows, Closing
<1>5. UnusedAreEmpty'
  BY <1>1 DEF QueryInv, PlaceFacts, UnusedAreEmpty
<1>6. GetActive # 0 /\ active # 0 =>
          \/ GetActive = active
          \/ pc \in {"prepare", "switch"} /\ GetActive = lastSegment
          \/ pc \in Closing /\ GetActive = old
  BY GetActiveIsNewest DEF NewestRow, QueryInv, PlaceFacts, ActiveRows
<1>7. NewerAreEmpty'
  <2>1. SUFFICES ASSUME NEW s \in SegmentId, GetActive # 0, s > GetActive
                 PROVE  file[s].rows = {}
    BY <1>1, <1>2 DEF NewerAreEmpty
  <2>2. CASE active = 0 \/ GetActive = active
    BY <2>1, <2>2 DEF QueryInv, PlaceFacts, NewerAreEmpty, OpenSegment
  <2>3. CASE GetActive = lastSegment
    BY <2>1, <2>3 DEF QueryInv, PlaceFacts, UnusedAreEmpty
  <2>4. CASE pc \in Closing /\ GetActive = old
    BY <2>1, <2>4 DEF QueryInv, PlaceFacts, OldRow
  <2>5. QED
    BY <1>6, <2>1, <2>2, <2>3, <2>4
<1>8. Counted'
  <2>1. SUFFICES ASSUME NEW s \in SegmentId, s # GetActive, segments[s].status # "quarantined"
                 PROVE  Counts(s)
    BY <1>1, <1>2 DEF Counted, Counts, Closing
  <2>2. CASE s # OpenSegment
    BY <2>1, <2>2 DEF QueryInv, Counted
  <2>3. CASE s = OpenSegment
    <3>1. active # 0 /\ s = active
      BY <2>1, <2>3 DEF OpenSegment
    <3>2. segments[s].status \in {"active", "none"}
      BY <2>1, <3>1 DEF QueryInv, PlaceFacts, WriterRow
    <3>3. CASE segments[s].status = "none"
      BY <3>3 DEF Counts
    <3>4. CASE segments[s].status = "active"
      <4>1. GetActive # 0 /\ s <= GetActive
        BY <3>4, GetActiveIsNewest DEF NewestRow
      <4>2. pc \in Closing => old < active
        BY DEF QueryInv, PlaceFacts, OldRow
      <4>3. pc \in {"prepare", "switch"}
        BY <1>6, <2>1, <3>1, <4>1, <4>2, IdsAreNumbers
      <4>4. QED
        BY <3>1, <4>3 DEF QueryInv, Counted
    <3>5. QED
      BY <3>2, <3>3, <3>4
  <2>4. QED
    BY <2>2, <2>3
<1>9. QED
  BY <1>3, <1>4, <1>5, <1>7, <1>8 DEF QueryInv, PlaceFacts
-----------------------------------------------------------------------------
(* Every state.                                                            *)

LEMMA InitQuery == Init => QueryInv
<1> SUFFICES ASSUME Init PROVE QueryInv
  OBVIOUS
<1>1. \A s \in SegmentId : file[s] = [state |-> "absent", rows |-> {}]
                           /\ segments[s] = [status |-> "none", counted |-> {}]
  BY DEF Init
<1>2. pc = "down" /\ active = 0 /\ ~reader.on
  BY DEF Init, NoReader
<1>3. RowFacts
  BY <1>1 DEF RowFacts, RowsAreReadable, RowsInOrder, IssuedOnce
<1>4. PlaceFacts
  BY <1>1, <1>2
     DEF PlaceFacts, NothingRaises, ActiveRows, WriterRow, ReplacementRow, OldRow, Closing,
         UnusedAreEmpty, NewerAreEmpty
<1>5. Counted
  BY <1>1, <1>2 DEF Counted, Counts, Closing
<1>6. QED
  BY <1>2, <1>3, <1>4, <1>5 DEF QueryInv, Reading

LEMMA QueryStep ==
    ASSUME MaxFaults = 0, TypeInv, TypeInv', QueryInv, [Next]_vars
    PROVE  QueryInv'
<1>1. CASE OpenStore \/ Record \/ Reconfigure \/ Reserve \/ Due \/ CheckpointOld
           \/ BeginRetention \/ FinishPass \/ ChooseVictim
  BY <1>1, QuietActions
<1>2. CASE ReconcileActive
  BY <1>2, ReconcileQuery
<1>3. CASE PickActive \/ ProbeActive
  BY <1>3, PickAndProbeQuery
<1>4. CASE CreateActive
  BY <1>4, CreateQuery
<1>5. CASE ConnectActive
  BY <1>5, ConnectQuery
<1>6. CASE RefreshOnOpen \/ RefreshOnRotate \/ Advance
  BY <1>6, RefreshQuery
<1>7. CASE CloseAfterError \/ UndoReplacement
  BY <1>7 DEF CloseAfterError, UndoReplacement, At, QueryInv, PlaceFacts, NothingRaises
<1>8. CASE Insert
  BY <1>8, InsertQuery
<1>9. CASE CreateReplacement
  BY <1>9, ReplaceQuery
<1>10. CASE PrepareReplacement
  BY <1>10, PrepareQuery
<1>11. CASE SwitchWriter
  BY <1>11, SwitchQuery
<1>12. CASE CloseOld
  BY <1>12, CloseOldQuery
<1>13. CASE RetryCheckpoint
  BY <1>13, RetryQuery
<1>14. CASE Unlink
  BY <1>14, UnlinkQuery
<1>15. CASE ForgetSegment
  BY <1>15, ForgetQuery
<1>16. CASE BeginQuery
  BY <1>16, BeginQueryQuery
<1>17. CASE ReadSegment
  BY <1>17, ReadSegmentQuery
<1>18. CASE EndQuery
  BY <1>18, EndQueryQuery
<1>19. CASE Crash
  BY <1>19, CrashQuery
<1>20. CASE \E s \in SegmentId, state \in {"absent", "bare", "corrupt"} : Damage(s, state)
  BY <1>20, DamageQuery
<1>21. CASE UNCHANGED vars
  <2>1. /\ pc' = pc /\ UNCHANGED <<segments, file, lastSegment, lastId, active, old, reader>>
    BY <1>21 DEF vars, disk, local
  <2>2. QuietPlace
    BY <2>1 DEF QuietPlace
  <2>3. Issued
    BY <2>1, IdsAreNumbers DEF Issued
  <2>4. QED
    BY <2>1, <2>2, <2>3, QuietStep
<1>22. QED
  BY <1>1, <1>2, <1>3, <1>4, <1>5, <1>6, <1>7, <1>8, <1>9, <1>10, <1>11, <1>12, <1>13, <1>14,
     <1>15, <1>16, <1>17, <1>18, <1>19, <1>20, <1>21
     DEF Next, Open, Append, Rotate, Retention, Query, Environment

(* As long as no step raises, QueryInv holds whatever crashes, is damaged, *)
(* or is queried beside the store's operations.                            *)
THEOREM QueryInvariant == MaxFaults = 0 => (Spec => [](TypeInv /\ QueryInv))
<1> SUFFICES ASSUME MaxFaults = 0 PROVE Spec => [](TypeInv /\ QueryInv)
  OBVIOUS
<1>1. Init => TypeInv /\ QueryInv
  BY InitType, InitQuery
<1>2. TypeInv /\ QueryInv /\ [Next]_vars => TypeInv' /\ QueryInv'
  BY TypeStep, QueryStep
<1>3. QED
  BY <1>1, <1>2, PTL DEF Spec

-----------------------------------------------------------------------------
(* The properties.                                                         *)

LEMMA BetweenMinAndMax ==
    ASSUME NEW S \in SUBSET Event, NEW e \in S
    PROVE  e \in Min(S)..Max(S)
<1>1. S \subseteq Nat /\ S \subseteq 0..MaxEvents /\ MaxEvents \in Nat /\ e \in Nat
  BY EventsAreFinite, Constants
<1>2. Max(S) \in S /\ e <= Max(S)
  BY <1>1, MaxIsMember
<1>3. PICK x \in S : \A y \in S : <<y, x>> \notin OpToRel(<, Nat)
  BY <1>1, WFMin, NatLessThanWellFounded, Zenon
<1>4. \A y \in S : y \in Nat /\ x \in Nat
  BY <1>1
<1>5. \A y \in S : ~(y < x)
  BY <1>3, <1>4, Zenon DEF OpToRel
<1>6. \A y \in S : x <= y
  BY <1>4, <1>5, SMT
<1>7. Min(S) \in S /\ \A y \in S : Min(S) <= y
  BY <1>6, Zenon DEF Min
<1>8. QED
  BY <1>1, <1>2, <1>7

(* As long as no step raises, from_ts and to_ts of every sealed segment    *)
(* span what its file holds, or are unknown: the newest active segment is  *)
(* counted again before rotate() leaves it, and a crash in between is made *)
(* up for when the store opens (rotate, _refresh_active_segment_stats).    *)
THEOREM WindowsCover == MaxFaults = 0 => (Spec => []WindowsCoverRows)
<1> SUFFICES ASSUME MaxFaults = 0 PROVE Spec => []WindowsCoverRows
  OBVIOUS
<1>1. TypeInv /\ QueryInv => WindowsCoverRows
  <2>1. SUFFICES ASSUME TypeInv, QueryInv, NEW s \in Listed \ {OpenSegment},
                        NEW e \in file[s].rows
                 PROVE  e \in Min(segments[s].counted)..Max(segments[s].counted)
    BY DEF WindowsCoverRows
  <2>2. s \in SegmentId /\ segments[s].status \notin {"none", "quarantined"}
    BY DEF Listed, With
  <2>3. segments[s].counted \in SUBSET Event
    BY <2>1, <2>2 DEF TypeInv, TypeOK, Row
  <2>4. e \in segments[s].counted
    BY <2>1, <2>2 DEF QueryInv, Counted, Counts
  <2>5. QED
    BY <2>3, <2>4, BetweenMinAndMax
<1>2. QED
  BY <1>1, QueryInvariant, PTL

(* As long as no step raises, the latest page has no gap, whatever is      *)
(* written, rotated, deleted or damaged while it is read: a row that was   *)
(* there from the first to the last step of the query is shown, or is      *)
(* older than a full page (query, _collect_rows_across_segments).           *)
THEOREM PagesHaveNoGap == MaxFaults = 0 => (Spec => []PageHasNoGap)
<1> SUFFICES ASSUME MaxFaults = 0 PROVE Spec => []PageHasNoGap
  OBVIOUS
<1>1. TypeInv /\ QueryInv => PageHasNoGap
  <2> DEFINE shown == Newest(PageSize, reader.found)
  <2>1. SUFFICES ASSUME TypeInv, QueryInv, reader.on, QueryEnded,
                        NEW e \in (reader.before \intersect Visible) \ shown
                 PROVE  Cardinality(shown) = PageSize /\ e < Min(shown)
    BY DEF PageHasNoGap
  <2>2. reader.found \in SUBSET Event /\ e \in Event /\ PageSize \in Nat \ {0}
    BY <2>1, RatioAssumption DEF TypeInv, TypeOK
  <2>3. PICK s \in SegmentId : s \in Listed /\ e \in file[s].rows
    BY <2>1, VisibleRows
  <2>4. Cardinality({f \in reader.found : f > e}) >= PageSize
    <3>1. CASE s \in reader.left
      <4>1. Cardinality(reader.found) >= PageSize
        BY <2>1, <3>1 DEF QueryEnded, Full
      <4>2. \A f \in reader.found : e < f
        BY <2>1, <2>3, <3>1 DEF QueryInv, Reading
      <4>3. {f \in reader.found : f > e} = reader.found
        BY <2>2, <4>2, EventsAreFinite
      <4>4. QED
        BY <4>1, <4>3
    <3>2. CASE e \in reader.found
      <4>1. Cardinality({f \in shown : f > e}) >= PageSize
        BY <2>2, <3>2, LeftOutIsBeaten
      <4>2. {f \in shown : f > e} \in SUBSET {f \in reader.found : f > e}
        BY DEF Newest
      <4>3. {f \in reader.found : f > e} \in SUBSET Event
        BY <2>2
      <4>4. /\ Cardinality({f \in shown : f > e}) <= Cardinality({f \in reader.found : f > e})
            /\ Cardinality({f \in shown : f > e}) \in Nat
            /\ Cardinality({f \in reader.found : f > e}) \in Nat
        BY <4>2, <4>3, SubsetCounts, EventsAreFinite
      <4>5. QED
        BY <2>2, <4>1, <4>4
    <3>3. CASE Beaten(e, reader.found)
      BY <3>3 DEF Beaten
    <3>4. QED
      BY <2>1, <2>3, <3>1, <3>2, <3>3 DEF QueryInv, Reading
  <2>5. Cardinality(shown) = PageSize /\ \A g \in shown : g > e
    BY <2>2, <2>4, NewestAreNewer
  <2>6. shown \subseteq Nat /\ shown \in SUBSET Event
    BY <2>2, EventsAreFinite DEF Newest
  <2>7. shown # {}
    BY <2>2, <2>5, FS_EmptySet
  <2>8. Min(shown) \in shown
    BY <2>6, <2>7, MinIsMember
  <2>9. e \in Nat
    BY <2>2, Constants
  <2>10. QED
    BY <2>5, <2>6, <2>8, <2>9
<1>2. QED
  BY <1>1, QueryInvariant, PTL
==============================================================================
