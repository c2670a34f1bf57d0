------------------------- MODULE SegmentStoreProofs -------------------------
(***************************************************************************)
(* Proofs about SegmentStore, for every value of its constants:            *)
(*   - TypeCorrect: the type invariant;                                    *)
(*   - Committed: an event whose segment commit happened stays readable    *)
(*     until retention unlinks its segment or the disk loses it;           *)
(*   - Refines: the store implements RetainedLog.                          *)
(*                                                                         *)
(* The last two are for a store without queries (MaxReads = 0).  A query   *)
(* may quarantine the replacement that a rotation is preparing, and then   *)
(* both are false: the run segments_quarantine shows it.                   *)
(*                                                                         *)
(* The argument is the invariant TypeInv /\ StoreInv.  TypeInv adds to the *)
(* types what each place in an operation implies; StoreInv says where the  *)
(* rows are (RowInv), that ids only grow and that nothing lies behind the  *)
(* segment that is written to (IdInv), and which segments a rotation, a    *)
(* checkpoint or a retention pass may touch (PlaceInv).                    *)
(***************************************************************************)
EXTENDS SegmentStore, WellFoundedInduction, TLAPS

-----------------------------------------------------------------------------
(* Smallest and largest members.                                           *)

LEMMA MinIsMember ==
    ASSUME NEW S, S \subseteq Nat, S # {}
    PROVE  Min(S) \in S
<1>1. PICK x \in S : \A y \in S : <<y, x>> \notin OpToRel(<, Nat)
  BY WFMin, NatLessThanWellFounded, Zenon
<1>2. \A y \in S : y \in Nat /\ x \in Nat
  OBVIOUS
<1>3. \A y \in S : ~(y < x)
  BY <1>1, <1>2, Zenon DEF OpToRel
<1>4. \A y \in S : x <= y
  BY <1>2, <1>3, SMT
<1>5. QED
  BY <1>4, Zenon DEF Min

LEMMA MaxIsMember ==
    ASSUME NEW n \in Nat, NEW S, S \subseteq 0..n, S # {}
    PROVE  Max(S) \in S /\ \A y \in S : y <= Max(S)
<1> DEFINE T == {n - y : y \in S}
<1>1. T \subseteq Nat /\ T # {}
  <2>1. \A y \in S : n - y \in Nat
    OBVIOUS
  <2>2. QED
    BY <2>1
<1>2. PICK d \in T : \A t \in T : <<t, d>> \notin OpToRel(<, Nat)
  BY <1>1, WFMin, NatLessThanWellFounded, Zenon
<1>3. \A t \in T : ~(t < d)
  BY <1>1, <1>2, Zenon DEF OpToRel
<1>4. PICK x \in S : d = n - x
  OBVIOUS
<1>5. \A y \in S : x >= y
  <2>1. TAKE y \in S
  <2>2. ~(n - y < n - x)
    BY <1>3, <1>4
  <2>3. QED
    BY <2>2
<1>6. Max(S) \in S /\ \A y \in S : Max(S) >= y
  BY <1>5, Zenon DEF Max
<1>7. QED
  BY <1>6

-----------------------------------------------------------------------------
(* What the places of the operations imply.                                *)

Opening == {"down", "reconcile", "pick", "probe", "create", "connect"}
Writing == {"insert", "advance", "due"}
Place == Opening \union Writing \union
         {"failed", "refresh", "idle", "reserve", "retain", "pending", "pass", "unlink", "forget",
          "rotate", "replace", "prepare", "switch", "undo", "checkpoint", "closeOld",
          "closePending", "demote"}

(* A store has a writer from the moment it is open, readers only then.     *)
WriterIsOpen ==
    /\ pc \in Opening => active = 0
    /\ pc \notin Opening \union {"failed"} => active # 0
    /\ reader.on => active # 0
    /\ pc \in {"probe", "connect"} => GetActive # 0

(* The bounds of the run leave room for the next id and the next segment.  *)
RoomForEvent ==
    /\ pc = "reserve" => lastId < MaxEvents
    /\ pc \notin Writing \union {"idle"} /\ goal = "append" => lastId < MaxEvents
    /\ pc \in {"insert", "advance"} => lastId # 0

RoomForSegment ==
    /\ used.crashes <= MaxCrashes /\ used.faults <= MaxFaults
    /\ lastSegment <= MaxSegments + used.crashes + used.faults
    /\ pc \in (Opening \ {"connect"}) \union {"failed"} =>
            lastSegment < MaxSegments + used.crashes + used.faults
    /\ pc \in {"rotate", "replace"} => lastSegment < MaxSegments
    /\ pc \in {"prepare", "switch"} => lastSegment # 0

TypeInv ==
    /\ TypeOK
    /\ used \in [crashes : Nat, faults : Nat, damages : Nat, reads : Nat]
    /\ pc \in Place
    /\ pc \in {"unlink", "forget"} => victim # 0
    /\ WriterIsOpen /\ RoomForEvent /\ RoomForSegment

(* The newest active row.                                                  *)
NewestActive ==
    /\ GetActive = 0 <=> With("active") = {}
    /\ GetActive # 0 => /\ GetActive \in SegmentId
                        /\ segments[GetActive].status = "active"
                        /\ \A s \in With("active") : s <= GetActive
    /\ GetActive \in SegmentId \union {0}

LEMMA Constants ==
    /\ MaxSegments \in Nat \ {0} /\ MaxEvents \in Nat /\ PageSize \in Nat
    /\ MaxCrashes \in Nat /\ MaxFaults \in Nat /\ MaxReads \in Nat /\ MaxDamages \in Nat
    /\ 0 \notin SegmentId /\ SegmentId \subseteq Nat /\ Event \subseteq Nat
BY RatioAssumption DEF SegmentId, Event

LEMMA ActiveIsNewest == NewestActive
<1> DEFINE n == MaxSegments + MaxCrashes + MaxFaults
<1>1. n \in Nat /\ SegmentId = 1..n
  BY Constants DEF SegmentId
<1>2. With("active") \subseteq SegmentId /\ \A s \in With("active") : segments[s].status = "active"
  BY DEF With
<1>3. CASE With("active") = {}
  BY <1>3 DEF GetActive, NewestActive
<1>4. CASE With("active") # {}
  <2>1. With("active") \subseteq 0..n
    BY <1>1, <1>2
  <2>2. Max(With("active")) \in With("active")
        /\ \A y \in With("active") : y <= Max(With("active"))
    BY <1>1, <1>4, <2>1, MaxIsMember
  <2>3. GetActive = Max(With("active"))
    BY <1>4 DEF GetActive
  <2>4. QED
    BY <1>2, <1>4, <2>2, <2>3, Constants DEF NewestActive
<1>5. QED
  BY <1>3, <1>4

-----------------------------------------------------------------------------
(* Types.                                                                  *)

(* A fresh process has the types, and nothing is under way.                *)
LEMMA InitType == Init => TypeInv
<1> SUFFICES ASSUME Init PROVE TypeInv
  OBVIOUS
<1>1. TypeOK
  BY Constants DEF Init, TypeOK, Row, Status, File, NoReader
<1>2. QED
  BY <1>1, Constants DEF Init, TypeInv, WriterIsOpen, RoomForEvent, RoomForSegment, Place,
       Opening,
     Writing, NoReader

(* The manifest's statements keep its type.                                *)
LEMMA SetStatusType ==
    ASSUME segments \in [SegmentId -> Row], NEW s, NEW status \in Status, SetStatus(s, status)
    PROVE  segments' \in [SegmentId -> Row]
BY DEF SetStatus, Row

LEMMA RecountType ==
    ASSUME segments \in [SegmentId -> Row], NEW s, NEW events \in SUBSET Event, Recount(s, events)
    PROVE  segments' \in [SegmentId -> Row]
BY DEF Recount, Row

LEMMA DeleteRowType ==
    ASSUME segments \in [SegmentId -> Row], NEW s, DeleteRow(s)
    PROVE  segments' \in [SegmentId -> Row]
BY DEF DeleteRow, Row, Status

LEMMA CreateRowType ==
    ASSUME segments \in [SegmentId -> Row], CreateRow
    PROVE  segments' \in [SegmentId -> Row]
BY DEF CreateRow, Row, Status

LEMMA FileType ==
    ASSUME file \in [SegmentId -> File], NEW s, NEW state \in {"absent", "bare", "ok", "corrupt"},
           NEW rows \in SUBSET Event, FileIs(s, state, rows)
    PROVE  file' \in [SegmentId -> File]
BY DEF FileIs, File

(* The newest active row depends on the manifest only.                     *)
LEMMA SameActive == UNCHANGED segments => GetActive' = GetActive
BY DEF GetActive, With

(* Segment ids are bounded, so a set of them has a largest.                *)
LEMMA SegmentsAreBounded ==
    /\ MaxSegments + MaxCrashes + MaxFaults \in Nat
    /\ SegmentId \subseteq 0..(MaxSegments + MaxCrashes + MaxFaults)
BY Constants DEF SegmentId

(* Retention chooses among the segments it may delete.                     *)
LEMMA OldestIsMember ==
    ASSUME Victims # {}
    PROVE  Oldest(Victims) \in Victims
<1> DEFINE dated == {s \in Victims : segments[s].counted # {}}
<1>1. Victims \subseteq Nat
  BY Constants DEF Victims, Eligible, With
<1>2. CASE dated # {}
  <2>1. dated \subseteq Nat /\ dated \subseteq Victims
    BY <1>1
  <2>2. Min(dated) \in dated
    BY <1>2, <2>1, MinIsMember
  <2>3. QED
    BY <1>2, <2>1, <2>2 DEF Oldest
<1>3. CASE dated = {}
  BY <1>1, <1>3, MinIsMember DEF Oldest
<1>4. QED
  BY <1>2, <1>3

-----------------------------------------------------------------------------
(* Every step keeps the types: one lemma per action.                       *)

LEMMA OpenStoreType == TypeInv /\ OpenStore => TypeInv'
BY Constants
   DEF TypeInv, TypeOK, WriterIsOpen, RoomForEvent, RoomForSegment, Place, Opening, Writing,
       OpenStore, At, Goto, disk, history, GetActive, With

LEMMA ReconcileType == TypeInv /\ ReconcileActive => TypeInv'
<1> SUFFICES ASSUME TypeInv, ReconcileActive PROVE TypeInv'
  OBVIOUS
<1>1. segments' \in [SegmentId -> Row]
  BY SetStatusType
     DEF TypeInv, TypeOK, ReconcileActive, Status, ManifestCommit, Commit, Spend, At, Goto,
         disk, local, history
<1>2. QED
  BY <1>1, Constants
     DEF TypeInv, TypeOK, WriterIsOpen, RoomForEvent, RoomForSegment, Place, Opening, Writing,
         ReconcileActive, Status, ManifestCommit, Commit, Spend, At, Goto, disk, local, history

LEMMA PickType == TypeInv /\ PickActive => TypeInv'
<1> SUFFICES ASSUME TypeInv, PickActive PROVE TypeInv'
  OBVIOUS
<1>1. segments' \in [SegmentId -> Row]
  BY SetStatusType
     DEF TypeInv, TypeOK, PickActive, Quarantine, Status, ManifestCommit, Commit, Spend, At,
         Goto, disk, local, history
<1>2. QED
  BY <1>1, Constants, SameActive
     DEF TypeInv, TypeOK, WriterIsOpen, RoomForEvent, RoomForSegment, Place, Opening, Writing,
         PickActive, Quarantine, Status, ManifestCommit, Commit, Spend, At, Goto, disk, local,
         history

LEMMA ProbeType == TypeInv /\ ProbeActive => TypeInv'
<1> SUFFICES ASSUME TypeInv, ProbeActive PROVE TypeInv'
  OBVIOUS
<1>1. segments' \in [SegmentId -> Row]
  BY SetStatusType
     DEF TypeInv, TypeOK, ProbeActive, Quarantine, Status, ManifestCommit, Commit, Spend, At,
         Goto, disk, local, history
<1>2. QED
  BY <1>1, Constants, SameActive
     DEF TypeInv, TypeOK, WriterIsOpen, RoomForEvent, RoomForSegment, Place, Opening, Writing,
         ProbeActive, Quarantine, Status, ManifestCommit, Commit, Spend, At, Goto, disk, local,
         history

LEMMA ConnectType == TypeInv /\ ConnectActive => TypeInv'
<1> SUFFICES ASSUME TypeInv, ConnectActive PROVE TypeInv'
  OBVIOUS
<1>1. GetActive \in SegmentId
  BY ActiveIsNewest DEF NewestActive, TypeInv, WriterIsOpen, ConnectActive, At
<1>2. segments[GetActive].counted \in SUBSET Event /\ file[GetActive].rows \in SUBSET Event
  BY <1>1 DEF TypeInv, TypeOK, Row, File
<1>3. file' \in [SegmentId -> File]
  BY <1>2, FileType DEF TypeInv, TypeOK, ConnectActive
<1>4. GetActive # 0
  BY <1>1, Constants
<1>5. memory' \in SUBSET Event /\ active' \in SegmentId \union {0}
  BY <1>1, <1>2 DEF ConnectActive, TypeInv, TypeOK
<1>6. /\ UNCHANGED <<segments, lastSegment, lastId, goal, pass, old, pending, victim, reader, history>>
      /\ pc = "connect"
      /\ \/ pc' = "refresh" /\ active' = GetActive /\ UNCHANGED used
         \/ pc' = "failed" /\ active' = active /\ Spend("faults", MaxFaults)
  BY DEF ConnectActive, At, Goto
<1>7. TypeOK'
  BY <1>3, <1>4, <1>5, <1>6, Constants
     DEF TypeInv, TypeOK, WriterIsOpen, RoomForEvent, RoomForSegment, Opening, Writing, Spend,
         history
<1>8. used' \in [crashes : Nat, faults : Nat, damages : Nat, reads : Nat]
  BY <1>3, <1>4, <1>5, <1>6, Constants
     DEF TypeInv, Spend, history
<1>9. pc' \in Place /\ WriterIsOpen' /\ RoomForEvent' /\ RoomForSegment'
  BY <1>3, <1>4, <1>5, <1>6, Constants
     DEF TypeInv, TypeOK, WriterIsOpen, RoomForEvent, RoomForSegment, Place, Opening, Writing,
         Spend, history
<1>10. QED
  BY <1>7, <1>8, <1>9, <1>3, <1>4, <1>5, <1>6, Constants
     DEF TypeInv, Spend, history

LEMMA CreateType == TypeInv /\ CreateActive => TypeInv'
<1> SUFFICES ASSUME TypeInv, CreateActive PROVE TypeInv'
  OBVIOUS
<1>1. segments' \in [SegmentId -> Row]
  BY CreateRowType DEF TypeInv, TypeOK, CreateActive, CreateCommit, Commit
<1>2. lastSegment + 1 \in SegmentId /\ lastSegment \in Nat
  BY Constants
     DEF TypeInv, TypeOK, WriterIsOpen, RoomForEvent, RoomForSegment, Place, Opening, Writing,
         CreateActive, At, SegmentId
<1>3. pc' = "connect" => GetActive' # 0
  <2>1. SUFFICES ASSUME pc' = "connect" PROVE GetActive' # 0
    OBVIOUS
  <2>2. segments'[lastSegment + 1].status = "active"
    BY <1>2, <2>1 DEF CreateActive, CreateCommit, Commit, CreateRow, TypeInv, TypeOK, At
  <2>3. With("active")' # {}
    BY <1>2, <2>2 DEF With
  <2>4. NewestActive'
    BY ActiveIsNewest, PTL
  <2>5. QED
    BY <2>3, <2>4 DEF NewestActive
<1>4. QED
  BY <1>1, <1>2, <1>3, Constants
     DEF TypeInv, TypeOK, WriterIsOpen, RoomForEvent, RoomForSegment, Place, Opening, Writing,
         CreateActive, CreateCommit, CreateRow, Commit, Spend, At, Goto, local, history

LEMMA ReplaceType == TypeInv /\ CreateReplacement => TypeInv'
<1> SUFFICES ASSUME TypeInv, CreateReplacement PROVE TypeInv'
  OBVIOUS
<1>1. segments' \in [SegmentId -> Row]
  BY CreateRowType DEF TypeInv, TypeOK, CreateReplacement, CreateCommit, Commit
<1>2. lastSegment + 1 \in SegmentId /\ lastSegment \in Nat
  BY Constants
     DEF TypeInv, TypeOK, WriterIsOpen, RoomForEvent, RoomForSegment, Place, Opening, Writing,
         CreateReplacement, At, SegmentId
<1>3. QED
  BY <1>1, <1>2, Constants
     DEF TypeInv, TypeOK, WriterIsOpen, RoomForEvent, RoomForSegment, Place, Opening, Writing,
         CreateReplacement, CreateCommit, CreateRow, Commit, Spend, At, Goto, local, history

LEMMA PrepareType == TypeInv /\ PrepareReplacement => TypeInv'
<1> SUFFICES ASSUME TypeInv, PrepareReplacement PROVE TypeInv'
  OBVIOUS
<1>1. file' \in [SegmentId -> File]
  BY FileType DEF TypeInv, TypeOK, PrepareReplacement, Commit
<1>2. TypeOK'
  BY <1>1, Constants
     DEF TypeInv, TypeOK, WriterIsOpen, RoomForEvent, RoomForSegment, Opening, Writing,
         PrepareReplacement, Commit, Spend, At, Goto, local, history
<1>3. used' \in [crashes : Nat, faults : Nat, damages : Nat, reads : Nat]
  BY <1>1, Constants
     DEF TypeInv, PrepareReplacement, Commit, Spend, At, Goto, local, history
<1>4. pc' \in Place /\ WriterIsOpen' /\ RoomForEvent' /\ RoomForSegment'
  BY <1>1, Constants
     DEF TypeInv, TypeOK, WriterIsOpen, RoomForEvent, RoomForSegment, Place, Opening, Writing,
         PrepareReplacement, Commit, Spend, At, Goto, local, history
<1>5. QED
  BY <1>2, <1>3, <1>4, <1>1, Constants
     DEF TypeInv, PrepareReplacement, Commit, Spend, At, Goto, local, history

LEMMA SwitchType == TypeInv /\ SwitchWriter => TypeInv'
<1> SUFFICES ASSUME TypeInv, SwitchWriter PROVE TypeInv'
  OBVIOUS
<1>1. file' \in [SegmentId -> File]
  BY FileType DEF TypeInv, TypeOK, SwitchWriter
<1>2. TypeOK'
  BY <1>1, Constants
     DEF TypeInv, TypeOK, WriterIsOpen, RoomForEvent, RoomForSegment, Opening, Writing,
         SwitchWriter, Spend, At, Goto, history
<1>3. used' \in [crashes : Nat, faults : Nat, damages : Nat, reads : Nat]
  BY <1>1, Constants
     DEF TypeInv, SwitchWriter, Spend, At, Goto, history
<1>4. pc' \in Place /\ WriterIsOpen' /\ RoomForEvent' /\ RoomForSegment'
  BY <1>1, Constants
     DEF TypeInv, TypeOK, WriterIsOpen, RoomForEvent, RoomForSegment, Place, Opening, Writing,
         SwitchWriter, Spend, At, Goto, history
<1>5. QED
  BY <1>2, <1>3, <1>4, <1>1, Constants
     DEF TypeInv, SwitchWriter, Spend, At, Goto, history

LEMMA RefreshType ==
    ASSUME NEW place \in {"refresh", "rotate"}, NEW next, NEW raised,
           <<place, next, raised>> \in {<<"refresh", "retain", "failed">>, <<"rotate", "replace", "idle">>},
           TypeInv, Refresh(place, next, raised)
    PROVE  TypeInv'
<1>1. active \in SegmentId
  BY DEF TypeInv, TypeOK, WriterIsOpen, RoomForEvent, RoomForSegment, Place, Opening, Writing,
         Refresh, At
<1>2. file[active].rows \in SUBSET Event
  BY <1>1 DEF TypeInv, TypeOK, File
<1>3. segments' \in [SegmentId -> Row]
  BY <1>2, RecountType DEF TypeInv, TypeOK, Refresh, ManifestCommit, Commit
<1>4. QED
  BY <1>2, <1>3, Constants
     DEF TypeInv, TypeOK, WriterIsOpen, RoomForEvent, RoomForSegment, Place, Opening, Writing,
         Refresh, ManifestCommit, Commit, Spend, At, Goto, local, history

LEMMA InsertType == TypeInv /\ Insert => TypeInv'
<1> SUFFICES ASSUME TypeInv, Insert PROVE TypeInv'
  OBVIOUS
<1>1. active \in SegmentId /\ lastId \in Event
  BY DEF TypeInv, TypeOK, WriterIsOpen, RoomForEvent, RoomForSegment, Place, Opening, Writing,
         Insert, At
<1>2. file[active].state \in {"absent", "bare", "ok", "corrupt"} /\ file[active].rows \in SUBSET Event
  BY <1>1 DEF TypeInv, TypeOK, File
<1>3. file' \in [SegmentId -> File]
  <2> DEFINE rows == IF file[active].state = "ok" THEN file[active].rows \union {lastId} ELSE {}
  <2>1. rows \in SUBSET Event
    BY <1>1, <1>2
  <2>2. FileIs(active, file[active].state, rows) \/ UNCHANGED file
    BY DEF Insert, Commit
  <2>3. QED
    BY <1>2, <2>1, <2>2, FileType DEF TypeInv, TypeOK
<1>4. TypeOK'
  BY <1>1, <1>3, Constants
     DEF TypeInv, TypeOK, WriterIsOpen, RoomForEvent, RoomForSegment, Opening, Writing, Insert,
         Commit, Spend, At, Goto, local, history
<1>5. used' \in [crashes : Nat, faults : Nat, damages : Nat, reads : Nat]
  BY <1>1, <1>3, Constants
     DEF TypeInv, Insert, Commit, Spend, At, Goto, local, history
<1>6. pc' \in Place /\ WriterIsOpen' /\ RoomForEvent' /\ RoomForSegment'
  BY <1>1, <1>3, Constants
     DEF TypeInv, TypeOK, WriterIsOpen, RoomForEvent, RoomForSegment, Place, Opening, Writing,
         Insert, Commit, Spend, At, Goto, local, history
<1>7. QED
  BY <1>4, <1>5, <1>6, <1>1, <1>3, Constants
     DEF TypeInv, Insert, Commit, Spend, At, Goto, local, history

LEMMA AdvanceType == TypeInv /\ Advance => TypeInv'
<1> SUFFICES ASSUME TypeInv, Advance PROVE TypeInv'
  OBVIOUS
<1>1. memory' \in SUBSET Event
  BY DEF Advance, At, TypeInv, TypeOK, RoomForEvent
<1>2. segments' \in [SegmentId -> Row]
  BY <1>1, RecountType DEF TypeInv, TypeOK, Advance, ManifestCommit, Commit
<1>3. QED
  BY <1>1, <1>2, Constants
     DEF TypeInv, TypeOK, WriterIsOpen, RoomForEvent, RoomForSegment, Place, Opening, Writing,
         Advance, ManifestCommit, Commit, Spend, At, Goto, local, history

LEMMA RetryType == TypeInv /\ RetryCheckpoint => TypeInv'
<1> SUFFICES ASSUME TypeInv, RetryCheckpoint PROVE TypeInv'
  OBVIOUS
<1>1. segments' \in [SegmentId -> Row]
  BY SetStatusType DEF TypeInv, TypeOK, RetryCheckpoint, ManifestCommit, Commit, Status, disk
<1>2. TypeOK'
  BY <1>1, Constants
     DEF TypeInv, TypeOK, WriterIsOpen, RoomForEvent, RoomForSegment, Opening, Writing,
         RetryCheckpoint, Raised, ManifestCommit, Commit, Spend, At, Goto, disk, local, history
<1>3. used' \in [crashes : Nat, faults : Nat, damages : Nat, reads : Nat]
  BY <1>1, Constants
     DEF TypeInv, RetryCheckpoint, Raised, ManifestCommit, Commit, Spend, At, Goto, disk,
         local, history
<1>4. pc' \in Place /\ WriterIsOpen' /\ RoomForEvent' /\ RoomForSegment'
  BY <1>1, Constants
     DEF TypeInv, TypeOK, WriterIsOpen, RoomForEvent, RoomForSegment, Place, Opening, Writing,
         RetryCheckpoint, Raised, ManifestCommit, Commit, Spend, At, Goto, disk, local, history
<1>5. QED
  BY <1>2, <1>3, <1>4, <1>1, Constants
     DEF TypeInv, RetryCheckpoint, Raised, ManifestCommit, Commit, Spend, At, Goto, disk,
         local, history

LEMMA ChooseType == TypeInv /\ ChooseVictim => TypeInv'
<1> SUFFICES ASSUME TypeInv, ChooseVictim PROVE TypeInv'
  OBVIOUS
<1>1. victim' \in Victims
  BY OldestIsMember DEF ChooseVictim
<1>2. victim' \in SegmentId
  BY <1>1 DEF Victims, Eligible, With
<1>3. QED
  BY <1>2, Constants
     DEF TypeInv, TypeOK, WriterIsOpen, RoomForEvent, RoomForSegment, Place, Opening, Writing,
         ChooseVictim, At, Goto, disk, history

LEMMA UnlinkType == TypeInv /\ Unlink => TypeInv'
<1> SUFFICES ASSUME TypeInv, Unlink PROVE TypeInv'
  OBVIOUS
<1>1. victim \in SegmentId
  BY DEF TypeInv, TypeOK, Unlink, At
<1>2. file[victim].rows \in SUBSET Event
  BY <1>1 DEF TypeInv, TypeOK, File
<1>3. file' \in [SegmentId -> File]
  BY <1>1, FileType DEF TypeInv, TypeOK, Unlink
<1>4. TypeOK'
  BY <1>1, <1>2, <1>3, Constants
     DEF TypeInv, TypeOK, WriterIsOpen, RoomForEvent, RoomForSegment, Opening, Writing, Unlink,
         EndPass, Spend, At, Goto, history
<1>5. used' \in [crashes : Nat, faults : Nat, damages : Nat, reads : Nat]
  BY <1>1, <1>2, <1>3, Constants
     DEF TypeInv, Unlink, EndPass, Spend, At, Goto, history
<1>6. pc' \in Place /\ WriterIsOpen' /\ RoomForEvent' /\ RoomForSegment'
  BY <1>1, <1>2, <1>3, Constants
     DEF TypeInv, TypeOK, WriterIsOpen, RoomForEvent, RoomForSegment, Place, Opening, Writing,
         Unlink, EndPass, Spend, At, Goto, history
<1>7. QED
  BY <1>4, <1>5, <1>6, <1>1, <1>2, <1>3, Constants
     DEF TypeInv, Unlink, EndPass, Spend, At, Goto, history

LEMMA BeginQueryType == TypeInv /\ BeginQuery => TypeInv'
<1> SUFFICES ASSUME TypeInv, BeginQuery PROVE TypeInv'
  OBVIOUS
<1>1. Listed \in SUBSET SegmentId
  BY DEF Listed, With
<1>2. Visible \in SUBSET Event
  BY DEF TypeInv, TypeOK, Visible, Readable, Listed, With, File
<1>3. reader' \in [on : BOOLEAN, left : SUBSET SegmentId, found : SUBSET Event, before : SUBSET Event]
  BY <1>1, <1>2 DEF BeginQuery
<1>4. QED
  BY <1>3, SameActive, Constants
     DEF TypeInv, TypeOK, WriterIsOpen, RoomForEvent, RoomForSegment, Place, Opening, Writing,
         BeginQuery, Spend, disk, local, history

LEMMA ReadSegmentType == TypeInv /\ ReadSegment => TypeInv'
<1> SUFFICES ASSUME TypeInv, ReadSegment PROVE TypeInv'
  OBVIOUS
<1> DEFINE s == Max(reader.left)
<1>1. s \in SegmentId
  <2>1. reader.left \subseteq SegmentId /\ reader.left # {}
    BY DEF TypeInv, TypeOK, ReadSegment
  <2>2. s \in reader.left
    BY <2>1, SegmentsAreBounded, MaxIsMember
  <2>3. QED
    BY <2>1, <2>2
<1>2. Newest(PageSize, file[s].rows) \in SUBSET Event
  BY <1>1 DEF TypeInv, TypeOK, Newest, File
<1> HIDE DEF s
<1>3. segments' \in [SegmentId -> Row]
  BY SetStatusType DEF TypeInv, TypeOK, ReadSegment, Status, s
<1>4. reader' \in [on : BOOLEAN, left : SUBSET SegmentId, found : SUBSET Event, before : SUBSET Event]
  <2>1. \/ reader' = NoReader
        \/ reader' = [reader EXCEPT !.left = @ \ {s}, !.found = reader.found]
        \/ reader' = [reader EXCEPT !.left = @ \ {s},
                                    !.found = reader.found \union Newest(PageSize, file[s].rows)]
    BY DEF ReadSegment, s
  <2>2. reader.left \in SUBSET SegmentId /\ reader.found \in SUBSET Event
    BY DEF TypeInv, TypeOK
  <2>3. CASE reader' = NoReader
    BY <2>3 DEF NoReader
  <2>4. ASSUME NEW found \in SUBSET Event, reader' = [reader EXCEPT !.left = @ \ {s}, !.found = found]
        PROVE  reader' \in [on : BOOLEAN, left : SUBSET SegmentId, found : SUBSET Event,
                            before : SUBSET Event]
    BY <2>4 DEF TypeInv, TypeOK
  <2>5. reader.found \union Newest(PageSize, file[s].rows) \in SUBSET Event
    BY <1>2, <2>2
  <2>6. QED
    BY <2>1, <2>2, <2>3, <2>4, <2>5
<1>5. reader.on /\ active # 0
  BY DEF TypeInv, WriterIsOpen, ReadSegment
<1>6. QED
  BY <1>3, <1>4, <1>5, Constants
     DEF TypeInv, TypeOK, WriterIsOpen, RoomForEvent, RoomForSegment, Place, Opening, Writing,
         ReadSegment, local, history

LEMMA DamageType ==
    ASSUME NEW s \in SegmentId, NEW state \in {"absent", "bare", "corrupt"},
           TypeInv, Damage(s, state)
    PROVE  TypeInv'
<1>1. file' \in [SegmentId -> File]
  <2>1. FileIs(s, state, {}) /\ file \in [SegmentId -> File]
    BY DEF Damage, TypeInv, TypeOK
  <2>2. state \in {"absent", "bare", "ok", "corrupt"} /\ {} \in SUBSET Event
    OBVIOUS
  <2>3. QED
    BY <2>1, <2>2, FileType
<1>2. file[s].rows \in SUBSET Event
  BY DEF TypeInv, TypeOK, File
<1>3. TypeOK'
  BY <1>1, <1>2, Constants
     DEF TypeInv, TypeOK, WriterIsOpen, RoomForEvent, RoomForSegment, Opening, Writing, Damage,
         Spend, local, history
<1>4. used' \in [crashes : Nat, faults : Nat, damages : Nat, reads : Nat]
  BY <1>1, <1>2, Constants
     DEF TypeInv, Damage, Spend, local, history
<1>5. pc' \in Place /\ WriterIsOpen' /\ RoomForEvent' /\ RoomForSegment'
  BY <1>1, <1>2, Constants
     DEF TypeInv, TypeOK, WriterIsOpen, RoomForEvent, RoomForSegment, Place, Opening, Writing,
         Damage, Spend, local, history
<1>6. QED
  BY <1>3, <1>4, <1>5, <1>1, <1>2, Constants
     DEF TypeInv, Damage, Spend, local, history

LEMMA CloseAfterErrorType == TypeInv /\ CloseAfterError => TypeInv'
BY Constants
   DEF TypeInv, TypeOK, WriterIsOpen, RoomForEvent, RoomForSegment, Place, Opening, Writing,
       CloseAfterError, ForgetProcess, NoReader, At, Goto, disk, history

LEMMA RecordType == TypeInv /\ Record => TypeInv'
BY Constants
   DEF TypeInv, TypeOK, WriterIsOpen, RoomForEvent, RoomForSegment, Place, Opening, Writing,
       Record, MayRotate, At, Goto, disk, history

LEMMA ReconfigureType == TypeInv /\ Reconfigure => TypeInv'
BY Constants
   DEF TypeInv, TypeOK, WriterIsOpen, RoomForEvent, RoomForSegment, Place, Opening, Writing,
       Reconfigure, RotateOr, MayRotate, At, Goto, disk, history

LEMMA ReserveType == TypeInv /\ Reserve => TypeInv'
BY Constants
   DEF TypeInv, TypeOK, WriterIsOpen, RoomForEvent, RoomForSegment, Place, Opening, Writing,
       Reserve, Commit, Spend, At, Goto, local, history, Event

LEMMA DueType == TypeInv /\ Due => TypeInv'
BY Constants
   DEF TypeInv, TypeOK, WriterIsOpen, RoomForEvent, RoomForSegment, Place, Opening, Writing,
       Due, RotateOr, MayRotate, At, Goto, disk, history

LEMMA CheckpointType == TypeInv /\ CheckpointOld => TypeInv'
BY Constants
   DEF TypeInv, TypeOK, WriterIsOpen, RoomForEvent, RoomForSegment, Place, Opening, Writing,
       CheckpointOld, Spend, At, Goto, disk, local, history

LEMMA CloseOldType == TypeInv /\ CloseOld => TypeInv'
<1> SUFFICES ASSUME TypeInv, CloseOld PROVE TypeInv'
  OBVIOUS
<1>1. segments' \in [SegmentId -> Row]
  BY SetStatusType
     DEF TypeInv, TypeOK, CloseOld, Status, ManifestCommit, Commit, Spend, At, Goto, disk,
         local, history
<1>2. QED
  BY <1>1, Constants
     DEF TypeInv, TypeOK, WriterIsOpen, RoomForEvent, RoomForSegment, Place, Opening, Writing,
         CloseOld, Status, ManifestCommit, Commit, Spend, At, Goto, disk, local, history

LEMMA BeginRetentionType == TypeInv /\ BeginRetention => TypeInv'
BY Constants
   DEF TypeInv, TypeOK, WriterIsOpen, RoomForEvent, RoomForSegment, Place, Opening, Writing,
       BeginRetention, With, At, Goto, disk, history

LEMMA FinishPassType == TypeInv /\ FinishPass => TypeInv'
BY Constants
   DEF TypeInv, TypeOK, WriterIsOpen, RoomForEvent, RoomForSegment, Place, Opening, Writing,
       FinishPass, EndPass, At, Goto, disk, history

LEMMA ForgetType == TypeInv /\ ForgetSegment => TypeInv'
<1> SUFFICES ASSUME TypeInv, ForgetSegment PROVE TypeInv'
  OBVIOUS
<1>1. segments' \in [SegmentId -> Row]
  BY DeleteRowType
     DEF TypeInv, TypeOK, ForgetSegment, Raised, ManifestCommit, Commit, Spend, At, Goto, disk,
         local, history
<1>2. QED
  BY <1>1, Constants
     DEF TypeInv, TypeOK, WriterIsOpen, RoomForEvent, RoomForSegment, Place, Opening, Writing,
         ForgetSegment, Raised, ManifestCommit, Commit, Spend, At, Goto, disk, local, history

LEMMA UndoType == TypeInv /\ UndoReplacement => TypeInv'
<1> SUFFICES ASSUME TypeInv, UndoReplacement PROVE TypeInv'
  OBVIOUS
<1>1. segments' \in [SegmentId -> Row]
  BY DeleteRowType
     DEF TypeInv, TypeOK, UndoReplacement, ManifestCommit, Commit, Spend, At, Goto, disk,
         local, history
<1>2. QED
  BY <1>1, Constants
     DEF TypeInv, TypeOK, WriterIsOpen, RoomForEvent, RoomForSegment, Place, Opening, Writing,
         UndoReplacement, ManifestCommit, Commit, Spend, At, Goto, disk, local, history

LEMMA EndQueryType == TypeInv /\ EndQuery => TypeInv'
BY Constants
   DEF TypeInv, TypeOK, WriterIsOpen, RoomForEvent, RoomForSegment, Place, Opening, Writing,
       EndQuery, NoReader, disk, local, history

LEMMA CrashType == TypeInv /\ Crash => TypeInv'
BY Constants
   DEF TypeInv, TypeOK, WriterIsOpen, RoomForEvent, RoomForSegment, Place, Opening, Writing,
       Crash, ForgetProcess, NoReader, Spend, Goto, disk, history

(* The stutter, and every step.                                            *)
LEMMA TypeStutter == TypeInv /\ UNCHANGED vars => TypeInv'
BY DEF TypeInv, TypeOK, WriterIsOpen, RoomForEvent, RoomForSegment, Place, Opening, Writing,
       vars, disk, local, history, GetActive, With

(* One step per action of the next-state relation.                         *)
LEMMA TypeStep == TypeInv /\ [Next]_vars => TypeInv'
<1> SUFFICES ASSUME TypeInv, [Next]_vars PROVE TypeInv'
  OBVIOUS
<1>1. CASE OpenStore
  BY <1>1, OpenStoreType
<1>2. CASE ReconcileActive
  BY <1>2, ReconcileType
<1>3. CASE PickActive
  BY <1>3, PickType
<1>4. CASE ProbeActive
  BY <1>4, ProbeType
<1>5. CASE CreateActive
  BY <1>5, CreateType
<1>6. CASE ConnectActive
  BY <1>6, ConnectType
<1>7. CASE CloseAfterError
  BY <1>7, CloseAfterErrorType
<1>8. CASE Reserve
  BY <1>8, ReserveType
<1>9. CASE Insert
  BY <1>9, InsertType
<1>10. CASE Advance
  BY <1>10, AdvanceType
<1>11. CASE Due
  BY <1>11, DueType
<1>12. CASE CreateReplacement
  BY <1>12, ReplaceType
<1>13. CASE PrepareReplacement
  BY <1>13, PrepareType
<1>14. CASE SwitchWriter
  BY <1>14, SwitchType
<1>15. CASE UndoReplacement
  BY <1>15, UndoType
<1>16. CASE CheckpointOld
  BY <1>16, CheckpointType
<1>17. CASE CloseOld
  BY <1>17, CloseOldType
<1>18. CASE BeginRetention
  BY <1>18, BeginRetentionType
<1>19. CASE RetryCheckpoint
  BY <1>19, RetryType
<1>20. CASE ChooseVictim
  BY <1>20, ChooseType
<1>21. CASE FinishPass
  BY <1>21, FinishPassType
<1>22. CASE Unlink
  BY <1>22, UnlinkType
<1>23. CASE ForgetSegment
  BY <1>23, ForgetType
<1>24. CASE Record
  BY <1>24, RecordType
<1>25. CASE Reconfigure
  BY <1>25, ReconfigureType
<1>26. CASE BeginQuery
  BY <1>26, BeginQueryType
<1>27. CASE ReadSegment
  BY <1>27, ReadSegmentType
<1>28. CASE EndQuery
  BY <1>28, EndQueryType
<1>29. CASE Crash
  BY <1>29, CrashType
<1>30. CASE RefreshOnOpen
  BY <1>30, RefreshType DEF RefreshOnOpen
<1>31. CASE RefreshOnRotate
  BY <1>31, RefreshType DEF RefreshOnRotate
<1>32. CASE \E s \in SegmentId, state \in {"absent", "bare", "corrupt"} : Damage(s, state)
  BY <1>32, DamageType
<1>33. CASE UNCHANGED vars
  BY <1>33, TypeStutter
<1>34. QED
  BY <1>1, <1>2, <1>3, <1>4, <1>5, <1>6, <1>7, <1>8, <1>9, <1>10, <1>11, <1>12, <1>13, <1>14,
     <1>15, <1>16, <1>17, <1>18, <1>19, <1>20, <1>21, <1>22, <1>23, <1>24, <1>25, <1>26, <1>27,
     <1>28, <1>29, <1>30, <1>31, <1>32, <1>33
     DEF Next, Open, Append, Rotate, Retention, Query, Environment

(* The state has its types in every reachable state: the manifest never    *)
(* gets a row outside its ids, and an operation that raised or crashed      *)
(* never leaves a place, a writer or a victim that does not exist.          *)
THEOREM TypeCorrect == Spec => []TypeOK
<1>1. Init => TypeInv
  BY InitType
<1>2. TypeInv /\ [Next]_vars => TypeInv'
  BY TypeStep
<1>3. TypeInv => TypeOK
  BY DEF TypeInv
<1>4. QED
  BY <1>1, <1>2, <1>3, PTL DEF Spec

-----------------------------------------------------------------------------
(* The invariant of a store that no query quarantines a segment of.        *)

(* Every row is where a query finds it, in one segment, and recorded.      *)
RowsAreListed ==
    \A s \in SegmentId : file[s].rows # {} =>
        file[s].state = "ok" /\ segments[s].status \in {"active", "closed", "checkpoint_pending"}
RowsAreDisjoint == \A s, t \in SegmentId : s # t => file[s].rows \intersect file[t].rows = {}
RowsAreWritten == \A s \in SegmentId : file[s].rows \subseteq written
WrittenIsKept == \A e \in written \ gone : \E s \in SegmentId : e \in file[s].rows

(* Ids only grow.                                                          *)
IdsGrow == /\ \A e \in written : e <= lastId
           /\ pc = "insert" => lastId \notin written
UnusedIds == \A s \in SegmentId : s > lastSegment => segments[s].status = "none"

(* What lies behind the open segment is empty: left over by a rotation.    *)
WriterIsActive == active # 0 => segments[active].status = "active" /\ file[active].state = "ok"
NewerAreEmpty == \A s \in SegmentId : OpenSegment # 0 /\ s > OpenSegment => file[s].rows = {}

(* The segments an operation works on besides the writer's.                *)
OneActive == \A s \in SegmentId : segments[s].status = "active" =>
                 pc # "create" /\ (pc \in {"pick", "probe"} => s = GetActive)
ReplacementIsNew == /\ pc \in {"prepare", "switch", "undo"} => active < lastSegment
                    /\ pc \in {"prepare", "switch"} => segments[lastSegment].status = "active"
OldIsRetired == pc \in {"checkpoint", "closeOld", "closePending", "demote"} => old # active
PendingIsRetired == pc = "pending" => active \notin pending
VictimIsSealed == /\ pc \in {"unlink", "forget"} =>
                        segments[victim].status \in {"closed", "quarantined"}
                  /\ pc = "forget" => file[victim].rows = {}

RowInv == RowsAreListed /\ RowsAreDisjoint /\ RowsAreWritten /\ WrittenIsKept
IdInv == IdsGrow /\ UnusedIds /\ WriterIsActive /\ NewerAreEmpty
PlaceInv == OneActive /\ ReplacementIsNew /\ OldIsRetired /\ PendingIsRetired /\ VictimIsSealed
StoreInv == ~reader.on /\ RowInv /\ IdInv /\ PlaceInv

(* GetActive without Max, as the steps need it.                            *)
NewestRow ==
    /\ GetActive \in SegmentId \union {0}
    /\ GetActive # 0 => segments[GetActive].status = "active"
    /\ \A s \in SegmentId : segments[s].status = "active" => GetActive # 0 /\ s <= GetActive

LEMMA GetActiveIsNewest == NewestRow
BY ActiveIsNewest DEF NewestActive, NewestRow, With

LEMMA GetActiveStaysNewest == NewestRow'
BY GetActiveIsNewest, PTL

-----------------------------------------------------------------------------
(* Every step of the store keeps the invariant: one lemma per action.      *)

LEMMA OpenStoreStore == TypeInv /\ StoreInv /\ OpenStore => StoreInv'
<1> SUFFICES ASSUME TypeInv, StoreInv, OpenStore PROVE StoreInv'
  OBVIOUS
<1>1. RowInv'
  BY DEF StoreInv, RowInv, RowsAreListed, RowsAreDisjoint, RowsAreWritten, WrittenIsKept,
         OpenStore, At, Goto, disk, local, history
<1>2. IdsGrow' /\ UnusedIds' /\ WriterIsActive' /\ ~reader'.on
  BY Constants
     DEF StoreInv, IdInv, IdsGrow, UnusedIds, WriterIsActive, TypeInv, TypeOK, OpenStore, At,
         Goto, disk, local, history
<1>3. NewerAreEmpty'
  BY SameActive
     DEF StoreInv, IdInv, NewerAreEmpty, OpenSegment, OpenStore, At, Goto, disk, local, history
<1>4. OneActive' /\ ReplacementIsNew' /\ OldIsRetired' /\ PendingIsRetired' /\ VictimIsSealed'
  BY SameActive
     DEF StoreInv, PlaceInv, OneActive, ReplacementIsNew, OldIsRetired, PendingIsRetired,
         VictimIsSealed, OpenStore, At, Goto, disk, local, history
<1>5. QED
  BY <1>1, <1>2, <1>3, <1>4 DEF StoreInv, IdInv, PlaceInv

LEMMA RecordStore == TypeInv /\ StoreInv /\ Record => StoreInv'
<1> SUFFICES ASSUME TypeInv, StoreInv, Record PROVE StoreInv'
  OBVIOUS
<1>1. RowInv'
  BY DEF StoreInv, RowInv, RowsAreListed, RowsAreDisjoint, RowsAreWritten, WrittenIsKept,
         Record, At, Goto, disk, local, history
<1>2. IdsGrow' /\ UnusedIds' /\ WriterIsActive' /\ ~reader'.on
  BY Constants
     DEF StoreInv, IdInv, IdsGrow, UnusedIds, WriterIsActive, TypeInv, TypeOK, Record, At,
         Goto, disk, local, history
<1>3. NewerAreEmpty'
  BY SameActive
     DEF StoreInv, IdInv, NewerAreEmpty, OpenSegment, Record, At, Goto, disk, local, history
<1>4. OneActive' /\ ReplacementIsNew' /\ OldIsRetired' /\ PendingIsRetired' /\ VictimIsSealed'
  BY SameActive
     DEF StoreInv, PlaceInv, OneActive, ReplacementIsNew, OldIsRetired, PendingIsRetired,
         VictimIsSealed, Record, At, Goto, disk, local, history
<1>5. QED
  BY <1>1, <1>2, <1>3, <1>4 DEF StoreInv, IdInv, PlaceInv

LEMMA ReconfigureStore == TypeInv /\ StoreInv /\ Reconfigure => StoreInv'
<1> SUFFICES ASSUME TypeInv, StoreInv, Reconfigure PROVE StoreInv'
  OBVIOUS
<1>1. RowInv'
  BY DEF StoreInv, RowInv, RowsAreListed, RowsAreDisjoint, RowsAreWritten, WrittenIsKept,
         Reconfigure, RotateOr, At, Goto, disk, local, history
<1>2. IdsGrow' /\ UnusedIds' /\ WriterIsActive' /\ ~reader'.on
  BY Constants
     DEF StoreInv, IdInv, IdsGrow, UnusedIds, WriterIsActive, TypeInv, TypeOK, Reconfigure,
         RotateOr, At, Goto, disk, local, history
<1>3. NewerAreEmpty'
  BY SameActive
     DEF StoreInv, IdInv, NewerAreEmpty, OpenSegment, Reconfigure, RotateOr, At, Goto, disk,
         local, history
<1>4. OneActive' /\ ReplacementIsNew' /\ OldIsRetired' /\ PendingIsRetired' /\ VictimIsSealed'
  BY SameActive
     DEF StoreInv, PlaceInv, OneActive, ReplacementIsNew, OldIsRetired, PendingIsRetired,
         VictimIsSealed, Reconfigure, RotateOr, At, Goto, disk, local, history
<1>5. QED
  BY <1>1, <1>2, <1>3, <1>4 DEF StoreInv, IdInv, PlaceInv

LEMMA DueStore == TypeInv /\ StoreInv /\ Due => StoreInv'
<1> SUFFICES ASSUME TypeInv, StoreInv, Due PROVE StoreInv'
  OBVIOUS
<1>1. RowInv'
  BY DEF StoreInv, RowInv, RowsAreListed, RowsAreDisjoint, RowsAreWritten, WrittenIsKept, Due,
         RotateOr, At, Goto, disk, local, history
<1>2. IdsGrow' /\ UnusedIds' /\ WriterIsActive' /\ ~reader'.on
  BY Constants
     DEF StoreInv, IdInv, IdsGrow, UnusedIds, WriterIsActive, TypeInv, TypeOK, Due, RotateOr,
         At, Goto, disk, local, history
<1>3. NewerAreEmpty'
  BY SameActive
     DEF StoreInv, IdInv, NewerAreEmpty, OpenSegment, Due, RotateOr, At, Goto, disk, local,
         history
<1>4. OneActive' /\ ReplacementIsNew' /\ OldIsRetired' /\ PendingIsRetired' /\ VictimIsSealed'
  BY SameActive
     DEF StoreInv, PlaceInv, OneActive, ReplacementIsNew, OldIsRetired, PendingIsRetired,
         VictimIsSealed, Due, RotateOr, At, Goto, disk, local, history
<1>5. QED
  BY <1>1, <1>2, <1>3, <1>4 DEF StoreInv, IdInv, PlaceInv

LEMMA CheckpointStore == TypeInv /\ StoreInv /\ CheckpointOld => StoreInv'
<1> SUFFICES ASSUME TypeInv, StoreInv, CheckpointOld PROVE StoreInv'
  OBVIOUS
<1>1. RowInv'
  BY DEF StoreInv, RowInv, RowsAreListed, RowsAreDisjoint, RowsAreWritten, WrittenIsKept,
         CheckpointOld, Spend, At, Goto, disk, local, history
<1>2. IdsGrow' /\ UnusedIds' /\ WriterIsActive' /\ ~reader'.on
  BY Constants
     DEF StoreInv, IdInv, IdsGrow, UnusedIds, WriterIsActive, TypeInv, TypeOK, CheckpointOld,
         Spend, At, Goto, disk, local, history
<1>3. NewerAreEmpty'
  BY SameActive
     DEF StoreInv, IdInv, NewerAreEmpty, OpenSegment, CheckpointOld, Spend, At, Goto, disk,
         local, history
<1>4. OneActive' /\ ReplacementIsNew' /\ OldIsRetired' /\ PendingIsRetired' /\ VictimIsSealed'
  BY SameActive
     DEF StoreInv, PlaceInv, OneActive, ReplacementIsNew, OldIsRetired, PendingIsRetired,
         VictimIsSealed, CheckpointOld, Spend, At, Goto, disk, local, history
<1>5. QED
  BY <1>1, <1>2, <1>3, <1>4 DEF StoreInv, IdInv, PlaceInv

LEMMA BeginRetentionStore == TypeInv /\ StoreInv /\ BeginRetention => StoreInv'
<1> SUFFICES ASSUME TypeInv, StoreInv, BeginRetention PROVE StoreInv'
  OBVIOUS
<1>1. RowInv'
  BY DEF StoreInv, RowInv, RowsAreListed, RowsAreDisjoint, RowsAreWritten, WrittenIsKept,
         BeginRetention, With, At, Goto, disk, local, history
<1>2. IdsGrow' /\ UnusedIds' /\ WriterIsActive' /\ ~reader'.on
  BY Constants
     DEF StoreInv, IdInv, IdsGrow, UnusedIds, WriterIsActive, TypeInv, TypeOK, BeginRetention,
         With, At, Goto, disk, local, history
<1>3. NewerAreEmpty'
  BY SameActive
     DEF StoreInv, IdInv, NewerAreEmpty, OpenSegment, BeginRetention, With, At, Goto, disk,
         local, history
<1>4. OneActive' /\ ReplacementIsNew' /\ OldIsRetired' /\ PendingIsRetired' /\ VictimIsSealed'
  BY Constants, SameActive
     DEF StoreInv, PlaceInv, OneActive, ReplacementIsNew, OldIsRetired, PendingIsRetired,
         VictimIsSealed, IdInv, UnusedIds, WriterIsActive, TypeInv, TypeOK, WriterIsOpen,
         Opening, BeginRetention, With, At, Goto, disk, local, history
<1>5. QED
  BY <1>1, <1>2, <1>3, <1>4 DEF StoreInv, IdInv, PlaceInv

LEMMA FinishPassStore == TypeInv /\ StoreInv /\ FinishPass => StoreInv'
<1> SUFFICES ASSUME TypeInv, StoreInv, FinishPass PROVE StoreInv'
  OBVIOUS
<1>1. RowInv'
  BY DEF StoreInv, RowInv, RowsAreListed, RowsAreDisjoint, RowsAreWritten, WrittenIsKept,
         FinishPass, EndPass, At, Goto, disk, local, history
<1>2. IdsGrow' /\ UnusedIds' /\ WriterIsActive' /\ ~reader'.on
  BY Constants
     DEF StoreInv, IdInv, IdsGrow, UnusedIds, WriterIsActive, TypeInv, TypeOK, FinishPass,
         EndPass, At, Goto, disk, local, history
<1>3. NewerAreEmpty'
  BY SameActive
     DEF StoreInv, IdInv, NewerAreEmpty, OpenSegment, FinishPass, EndPass, At, Goto, disk,
         local, history
<1>4. OneActive' /\ ReplacementIsNew' /\ OldIsRetired' /\ PendingIsRetired' /\ VictimIsSealed'
  BY SameActive
     DEF StoreInv, PlaceInv, OneActive, ReplacementIsNew, OldIsRetired, PendingIsRetired,
         VictimIsSealed, FinishPass, EndPass, At, Goto, disk, local, history
<1>5. QED
  BY <1>1, <1>2, <1>3, <1>4 DEF StoreInv, IdInv, PlaceInv

(* What a commit of the manifest does to the states of the segments.       *)
Moved(s, status) ==
    \A t \in SegmentId :
        \/ segments'[t].status = segments[t].status
        \/ t = s /\ segments[t].status # "none" /\ segments'[t].status = status

LEMMA SetStatusMoves ==
    ASSUME segments \in [SegmentId -> Row], NEW s, NEW status,
           SetStatus(s, status) \/ UNCHANGED segments
    PROVE  Moved(s, status)
BY DEF SetStatus, Known, Moved, Row

LEMMA RecountMovesNothing ==
    ASSUME segments \in [SegmentId -> Row], NEW s, NEW events,
           Recount(s, events) \/ UNCHANGED segments
    PROVE  \A t \in SegmentId : segments'[t].status = segments[t].status
BY DEF Recount, Known, Row

(* A segment may be sealed, and isolated when it holds nothing.            *)
LEMMA MovedRows ==
    ASSUME TypeInv, StoreInv, NEW s, NEW status \in Status, Moved(s, status),
           UNCHANGED <<file, written, gone, lastSegment>>,
           s \in SegmentId => file[s].rows = {} \/ status \in {"closed", "checkpoint_pending"}
    PROVE  RowInv' /\ UnusedIds'
<1>1. RowsAreListed'
  BY DEF StoreInv, RowInv, RowsAreListed, Moved
<1>2. RowsAreDisjoint' /\ RowsAreWritten' /\ WrittenIsKept'
  BY DEF StoreInv, RowInv, RowsAreDisjoint, RowsAreWritten, WrittenIsKept
<1>3. UnusedIds'
  BY DEF StoreInv, IdInv, UnusedIds, Moved
<1>4. QED
  BY <1>1, <1>2, <1>3 DEF RowInv

LEMMA RecountedRows ==
    ASSUME TypeInv, StoreInv, \A s \in SegmentId : segments'[s].status = segments[s].status,
           UNCHANGED <<file, written, gone, lastSegment>>
    PROVE  RowInv' /\ UnusedIds'
BY DEF StoreInv, RowInv, RowsAreListed, RowsAreDisjoint, RowsAreWritten, WrittenIsKept, IdInv, UnusedIds

LEMMA ReconcileStore == TypeInv /\ StoreInv /\ ReconcileActive => StoreInv'
<1> SUFFICES ASSUME TypeInv, StoreInv, ReconcileActive PROVE StoreInv'
  OBVIOUS
<1> DEFINE stale == With("active") \ {GetActive}
             s == Min(stale)
<1>1. /\ stale = {} => UNCHANGED segments /\ pc' = "pick"
      /\ stale # {} => pc' \in {"reconcile", "failed"} /\ s \in SegmentId /\ s # GetActive
  <2>1. stale \subseteq SegmentId /\ stale \subseteq Nat
    BY Constants DEF With
  <2>2. stale # {} => s \in stale
    BY <2>1, MinIsMember
  <2>3. QED
    BY <2>1, <2>2 DEF ReconcileActive, ManifestCommit, Commit, Goto, disk
<1>2. Moved(s, "closed")
  BY SetStatusMoves DEF TypeInv, TypeOK, ReconcileActive, ManifestCommit, Commit, disk
<1>3. stale = {} => \A t \in SegmentId : segments[t].status = "active" => t = GetActive
  BY DEF With
<1> HIDE DEF stale, s
<1>4. /\ pc = "reconcile" /\ pc' \in {"pick", "reconcile", "failed"}
      /\ UNCHANGED <<lastSegment, lastId, file, local, reader, history>>
  BY <1>1 DEF ReconcileActive, ManifestCommit, Commit, Spend, At, Goto, disk
<1>5. RowInv' /\ UnusedIds'
  BY <1>1, <1>2, MovedRows DEF Status, ReconcileActive, ManifestCommit, Commit, disk, history
<1>6. IdsGrow' /\ WriterIsActive' /\ ~reader'.on
  BY Constants, GetActiveIsNewest, GetActiveStaysNewest, <1>1, <1>2, <1>3, <1>4
     DEF TypeInv, TypeOK, WriterIsOpen, Opening, Writing, NewestRow, StoreInv, IdInv, IdsGrow,
         WriterIsActive, Moved, local, history
<1>7. NewerAreEmpty'
  BY Constants, GetActiveIsNewest, GetActiveStaysNewest, <1>1, <1>2, <1>3, <1>4
     DEF TypeInv, TypeOK, WriterIsOpen, Opening, Writing, NewestRow, StoreInv, IdInv,
         WriterIsActive, NewerAreEmpty, OpenSegment, Moved, local, history
<1>8. OneActive' /\ ReplacementIsNew' /\ OldIsRetired' /\ PendingIsRetired' /\ VictimIsSealed'
  BY Constants, GetActiveIsNewest, GetActiveStaysNewest, <1>1, <1>2, <1>3, <1>4
     DEF TypeInv, TypeOK, WriterIsOpen, Opening, Writing, NewestRow, StoreInv, PlaceInv,
         OneActive, ReplacementIsNew, OldIsRetired, PendingIsRetired, VictimIsSealed, Moved,
         local, history
<1>9. QED
  BY <1>5, <1>6, <1>7, <1>8 DEF StoreInv, IdInv, PlaceInv

(* The open isolates the newest active row only when its file is empty.    *)
LEMMA ProbedStore ==
    ASSUME TypeInv, StoreInv, pc \in {"pick", "probe"},
           UNCHANGED <<lastSegment, lastId, file, local, reader, history>>,
           \/ UNCHANGED segments /\ GetActive = 0 /\ pc' = "create"
           \/ UNCHANGED segments /\ pc' \in {"probe", "connect", "failed"}
           \/ /\ GetActive \in SegmentId /\ file[GetActive].rows = {}
              /\ Moved(GetActive, "quarantined")
              /\ segments'[GetActive].status = "quarantined" /\ pc' \in {"create", "failed"}
    PROVE  StoreInv'
<1> USE Constants, GetActiveIsNewest, GetActiveStaysNewest
<1>1. RowInv' /\ UnusedIds'
  <2>1. CASE UNCHANGED segments
    BY <2>1, RecountedRows DEF history
  <2>2. CASE ~UNCHANGED segments
    BY <2>2, MovedRows DEF Status, history
  <2>3. QED
    BY <2>1, <2>2
<1>2. active = 0
  BY DEF TypeInv, WriterIsOpen, Opening
<1>3. IdsGrow' /\ WriterIsActive' /\ ~reader'.on
  BY <1>2 DEF StoreInv, IdInv, IdsGrow, WriterIsActive, local, history
<1>4. \A s \in SegmentId : segments[s].status = "active" => s = GetActive
  BY DEF StoreInv, PlaceInv, OneActive
<1>5. GetActive' # 0 => UNCHANGED segments
  BY <1>4 DEF NewestRow, Moved
<1>6. NewerAreEmpty'
  BY <1>2, <1>5, SameActive DEF StoreInv, IdInv, NewerAreEmpty, OpenSegment, local
<1>7. OneActive'
  BY <1>4, SameActive DEF OneActive, NewestRow, Moved
<1>8. ReplacementIsNew' /\ OldIsRetired' /\ PendingIsRetired' /\ VictimIsSealed'
  BY DEF ReplacementIsNew, OldIsRetired, PendingIsRetired, VictimIsSealed
<1>9. QED
  BY <1>1, <1>3, <1>6, <1>7, <1>8 DEF StoreInv, IdInv, PlaceInv

LEMMA PickStore == TypeInv /\ StoreInv /\ PickActive => StoreInv'
<1> SUFFICES ASSUME TypeInv, StoreInv, PickActive PROVE StoreInv'
  OBVIOUS
<1>1. GetActive \in SegmentId \union {0} /\ (GetActive # 0 => segments[GetActive].status = "active")
  BY GetActiveIsNewest DEF NewestRow
<1>2. GetActive \in SegmentId /\ file[GetActive].rows # {} => file[GetActive].state = "ok"
  BY DEF StoreInv, RowInv, RowsAreListed
<1>3. SetStatus(GetActive, "quarantined") => Moved(GetActive, "quarantined")
  BY SetStatusMoves DEF TypeInv, TypeOK
<1>4. SetStatus(GetActive, "quarantined") /\ GetActive # 0 =>
        segments'[GetActive].status = "quarantined"
  BY <1>1, Constants DEF TypeInv, TypeOK, SetStatus, Known, Row
<1>5. QED
  BY <1>1, <1>2, <1>3, <1>4, ProbedStore, Constants
     DEF TypeInv, WriterIsOpen, PickActive, Quarantine, ManifestCommit, Commit, At, Goto, disk

LEMMA ProbeStore == TypeInv /\ StoreInv /\ ProbeActive => StoreInv'
<1> SUFFICES ASSUME TypeInv, StoreInv, ProbeActive PROVE StoreInv'
  OBVIOUS
<1>1. GetActive \in SegmentId \union {0} /\ (GetActive # 0 => segments[GetActive].status = "active")
  BY GetActiveIsNewest DEF NewestRow
<1>2. GetActive \in SegmentId /\ file[GetActive].rows # {} => file[GetActive].state = "ok"
  BY DEF StoreInv, RowInv, RowsAreListed
<1>3. SetStatus(GetActive, "quarantined") => Moved(GetActive, "quarantined")
  BY SetStatusMoves DEF TypeInv, TypeOK
<1>4. SetStatus(GetActive, "quarantined") /\ GetActive # 0 =>
        segments'[GetActive].status = "quarantined"
  BY <1>1, Constants DEF TypeInv, TypeOK, SetStatus, Known, Row
<1>5. QED
  BY <1>1, <1>2, <1>3, <1>4, ProbedStore, Constants
     DEF TypeInv, WriterIsOpen, ProbeActive, Quarantine, ManifestCommit, Commit, At, Goto, disk

LEMMA RefreshOnOpenStore == TypeInv /\ StoreInv /\ RefreshOnOpen => StoreInv'
<1> SUFFICES ASSUME TypeInv, StoreInv, RefreshOnOpen PROVE StoreInv'
  OBVIOUS
<1>1. \A t \in SegmentId : segments'[t].status = segments[t].status
  BY RecountMovesNothing DEF TypeInv, TypeOK, RefreshOnOpen, Refresh, ManifestCommit, Commit
<1>2. RowInv' /\ UnusedIds'
  BY <1>1, RecountedRows DEF RefreshOnOpen, Refresh, ManifestCommit, history
<1>3. IdsGrow' /\ WriterIsActive' /\ ~reader'.on
  BY Constants, GetActiveIsNewest, GetActiveStaysNewest, <1>1
     DEF TypeInv, TypeOK, WriterIsOpen, Opening, Writing, NewestRow, StoreInv, IdInv, IdsGrow,
         WriterIsActive, Moved, RefreshOnOpen, Refresh, ManifestCommit, Commit, Spend, At,
         Goto, disk, local, history
<1>4. NewerAreEmpty'
  BY Constants, GetActiveIsNewest, GetActiveStaysNewest, <1>1
     DEF TypeInv, TypeOK, WriterIsOpen, Opening, Writing, NewestRow, StoreInv, IdInv,
         WriterIsActive, NewerAreEmpty, OpenSegment, Moved, RefreshOnOpen, Refresh,
         ManifestCommit, Commit, Spend, At, Goto, disk, local, history
<1>5. OneActive' /\ ReplacementIsNew' /\ OldIsRetired' /\ PendingIsRetired' /\ VictimIsSealed'
  BY Constants, GetActiveIsNewest, GetActiveStaysNewest, <1>1
     DEF TypeInv, TypeOK, WriterIsOpen, Opening, Writing, NewestRow, StoreInv, PlaceInv,
         OneActive, ReplacementIsNew, OldIsRetired, PendingIsRetired, VictimIsSealed, Moved,
         RefreshOnOpen, Refresh, ManifestCommit, Commit, Spend, At, Goto, disk, local, history
<1>6. QED
  BY <1>2, <1>3, <1>4, <1>5 DEF StoreInv, IdInv, PlaceInv

LEMMA RefreshOnRotateStore == TypeInv /\ StoreInv /\ RefreshOnRotate => StoreInv'
<1> SUFFICES ASSUME TypeInv, StoreInv, RefreshOnRotate PROVE StoreInv'
  OBVIOUS
<1>1. \A t \in SegmentId : segments'[t].status = segments[t].status
  BY RecountMovesNothing DEF TypeInv, TypeOK, RefreshOnRotate, Refresh, ManifestCommit, Commit
<1>2. RowInv' /\ UnusedIds'
  BY <1>1, RecountedRows DEF RefreshOnRotate, Refresh, ManifestCommit, history
<1>3. IdsGrow' /\ WriterIsActive' /\ ~reader'.on
  BY Constants, GetActiveIsNewest, GetActiveStaysNewest, <1>1
     DEF TypeInv, TypeOK, WriterIsOpen, Opening, Writing, NewestRow, StoreInv, IdInv, IdsGrow,
         WriterIsActive, Moved, RefreshOnRotate, Refresh, ManifestCommit, Commit, Spend, At,
         Goto, disk, local, history
<1>4. NewerAreEmpty'
  BY Constants, GetActiveIsNewest, GetActiveStaysNewest, <1>1
     DEF TypeInv, TypeOK, WriterIsOpen, Opening, Writing, NewestRow, StoreInv, IdInv,
         WriterIsActive, NewerAreEmpty, OpenSegment, Moved, RefreshOnRotate, Refresh,
         ManifestCommit, Commit, Spend, At, Goto, disk, local, history
<1>5. OneActive' /\ ReplacementIsNew' /\ OldIsRetired' /\ PendingIsRetired' /\ VictimIsSealed'
  BY Constants, GetActiveIsNewest, GetActiveStaysNewest, <1>1
     DEF TypeInv, TypeOK, WriterIsOpen, Opening, Writing, NewestRow, StoreInv, PlaceInv,
         OneActive, ReplacementIsNew, OldIsRetired, PendingIsRetired, VictimIsSealed, Moved,
         RefreshOnRotate, Refresh, ManifestCommit, Commit, Spend, At, Goto, disk, local,
         history
<1>6. QED
  BY <1>2, <1>3, <1>4, <1>5 DEF StoreInv, IdInv, PlaceInv

LEMMA AdvanceStore == TypeInv /\ StoreInv /\ Advance => StoreInv'
<1> SUFFICES ASSUME TypeInv, StoreInv, Advance PROVE StoreInv'
  OBVIOUS
<1>1. \A t \in SegmentId : segments'[t].status = segments[t].status
  BY RecountMovesNothing DEF TypeInv, TypeOK, Advance, ManifestCommit, Commit
<1>2. RowInv' /\ UnusedIds'
  BY <1>1, RecountedRows DEF Advance, ManifestCommit, history
<1>3. IdsGrow' /\ WriterIsActive' /\ ~reader'.on
  BY Constants, GetActiveIsNewest, GetActiveStaysNewest, <1>1
     DEF TypeInv, TypeOK, WriterIsOpen, Opening, Writing, NewestRow, StoreInv, IdInv, IdsGrow,
         WriterIsActive, Moved, Advance, ManifestCommit, Commit, Spend, At, Goto, disk, local,
         history
<1>4. NewerAreEmpty'
  BY Constants, GetActiveIsNewest, GetActiveStaysNewest, <1>1
     DEF TypeInv, TypeOK, WriterIsOpen, Opening, Writing, NewestRow, StoreInv, IdInv,
         WriterIsActive, NewerAreEmpty, OpenSegment, Moved, Advance, ManifestCommit, Commit,
         Spend, At, Goto, disk, local, history
<1>5. OneActive' /\ ReplacementIsNew' /\ OldIsRetired' /\ PendingIsRetired' /\ VictimIsSealed'
  BY Constants, GetActiveIsNewest, GetActiveStaysNewest, <1>1
     DEF TypeInv, TypeOK, WriterIsOpen, Opening, Writing, NewestRow, StoreInv, PlaceInv,
         OneActive, ReplacementIsNew, OldIsRetired, PendingIsRetired, VictimIsSealed, Moved,
         Advance, ManifestCommit, Commit, Spend, At, Goto, disk, local, history
<1>6. QED
  BY <1>2, <1>3, <1>4, <1>5 DEF StoreInv, IdInv, PlaceInv

LEMMA CloseOldStore == TypeInv /\ StoreInv /\ CloseOld => StoreInv'
<1> SUFFICES ASSUME TypeInv, StoreInv, CloseOld PROVE StoreInv'
  OBVIOUS
<1>1. /\ Moved(old, "closed") \/ Moved(old, "checkpoint_pending")
      /\ UNCHANGED <<lastSegment, lastId, file, local, reader, history>>
      /\ pc \in {"closeOld", "closePending", "demote"} /\ pc' \in {"retain", "demote", "idle"}
  BY SetStatusMoves DEF TypeInv, TypeOK, CloseOld, ManifestCommit, Commit, At
<1>2. old # active /\ active \in SegmentId
  BY <1>1 DEF StoreInv, PlaceInv, OldIsRetired, TypeInv, TypeOK, WriterIsOpen, Opening
<1>3. RowInv' /\ UnusedIds'
  BY <1>1, MovedRows DEF Status, history
<1>4. IdsGrow' /\ WriterIsActive' /\ ~reader'.on
  BY Constants, GetActiveIsNewest, GetActiveStaysNewest, <1>1, <1>2
     DEF TypeInv, TypeOK, WriterIsOpen, Opening, Writing, NewestRow, StoreInv, IdInv, IdsGrow,
         WriterIsActive, Moved, local, history
<1>5. NewerAreEmpty'
  BY Constants, GetActiveIsNewest, GetActiveStaysNewest, <1>1, <1>2
     DEF TypeInv, TypeOK, WriterIsOpen, Opening, Writing, NewestRow, StoreInv, IdInv,
         WriterIsActive, NewerAreEmpty, OpenSegment, Moved, local, history
<1>6. OneActive' /\ ReplacementIsNew' /\ OldIsRetired' /\ PendingIsRetired' /\ VictimIsSealed'
  BY Constants, GetActiveIsNewest, GetActiveStaysNewest, <1>1, <1>2
     DEF TypeInv, TypeOK, WriterIsOpen, Opening, Writing, NewestRow, StoreInv, PlaceInv,
         OneActive, ReplacementIsNew, OldIsRetired, PendingIsRetired, VictimIsSealed, Moved,
         local, history
<1>7. QED
  BY <1>3, <1>4, <1>5, <1>6 DEF StoreInv, IdInv, PlaceInv

LEMMA RetryStore == TypeInv /\ StoreInv /\ RetryCheckpoint => StoreInv'
<1> SUFFICES ASSUME TypeInv, StoreInv, RetryCheckpoint PROVE StoreInv'
  OBVIOUS
<1> DEFINE s == Min(pending)
<1>1. s \in pending /\ s \in SegmentId /\ s # active
  <2>1. pending # {} /\ pending \subseteq SegmentId /\ pending \subseteq Nat
    BY Constants DEF TypeInv, TypeOK, RetryCheckpoint
  <2>2. s \in pending
    BY <2>1, MinIsMember
  <2>3. QED
    BY <2>1, <2>2 DEF StoreInv, PlaceInv, PendingIsRetired, RetryCheckpoint, At
<1>2. \/ Moved(s, "closed")
      \/ Moved(s, "quarantined") /\ file[s].rows = {}
  <2>1. Lost(s) => file[s].rows = {}
    BY <1>1 DEF Lost, StoreInv, RowInv, RowsAreListed
  <2>2. QED
    BY <2>1, SetStatusMoves DEF TypeInv, TypeOK, RetryCheckpoint, ManifestCommit, Commit, disk
<1> HIDE DEF s
<1>3. /\ pc = "pending" /\ pending' \subseteq pending /\ pc' \in {"pending", "failed", "idle"}
      /\ UNCHANGED <<lastSegment, lastId, file, active, old, victim, reader, history>>
  BY DEF RetryCheckpoint, ManifestCommit, Commit, Spend, Raised, At, disk
<1>4. RowInv' /\ UnusedIds'
  BY <1>2, <1>3, MovedRows DEF RetryCheckpoint, ManifestCommit, Status, disk, history
<1>5. IdsGrow' /\ WriterIsActive' /\ ~reader'.on
  BY Constants, GetActiveIsNewest, GetActiveStaysNewest, <1>1, <1>2, <1>3
     DEF TypeInv, TypeOK, WriterIsOpen, Opening, Writing, NewestRow, StoreInv, IdInv, IdsGrow,
         WriterIsActive, Moved, history
<1>6. NewerAreEmpty'
  BY Constants, GetActiveIsNewest, GetActiveStaysNewest, <1>1, <1>2, <1>3
     DEF TypeInv, TypeOK, WriterIsOpen, Opening, Writing, NewestRow, StoreInv, IdInv,
         WriterIsActive, NewerAreEmpty, OpenSegment, Moved, history
<1>7. OneActive' /\ ReplacementIsNew' /\ OldIsRetired' /\ PendingIsRetired' /\ VictimIsSealed'
  BY Constants, GetActiveIsNewest, GetActiveStaysNewest, <1>1, <1>2, <1>3
     DEF TypeInv, TypeOK, WriterIsOpen, Opening, Writing, NewestRow, StoreInv, PlaceInv,
         OneActive, ReplacementIsNew, OldIsRetired, PendingIsRetired, VictimIsSealed, Moved,
         history
<1>8. QED
  BY <1>4, <1>5, <1>6, <1>7 DEF StoreInv, IdInv, PlaceInv

LEMMA CloseAfterErrorStore == TypeInv /\ StoreInv /\ CloseAfterError => StoreInv'
<1> SUFFICES ASSUME TypeInv, StoreInv, CloseAfterError PROVE StoreInv'
  OBVIOUS
<1>1. /\ active' = 0 /\ pc' = "down" /\ ~reader'.on
      /\ UNCHANGED <<segments, file, lastSegment, lastId, history>>
  BY DEF CloseAfterError, ForgetProcess, NoReader, At, Goto, disk, history
<1>2. RowInv'
  BY <1>1 DEF StoreInv, RowInv, RowsAreListed, RowsAreDisjoint, RowsAreWritten, WrittenIsKept,
       history
<1>3. IdsGrow' /\ UnusedIds' /\ WriterIsActive'
  BY <1>1 DEF StoreInv, IdInv, IdsGrow, UnusedIds, WriterIsActive, history
<1>4. NewerAreEmpty'
  <2>1. OpenSegment' = GetActive
    BY <1>1, SameActive DEF OpenSegment
  <2>2. CASE active = 0
    BY <1>1, <2>1, <2>2 DEF StoreInv, IdInv, NewerAreEmpty, OpenSegment
  <2>3. CASE active # 0
    <3>1. active \in SegmentId /\ segments[active].status = "active"
      BY <2>3 DEF TypeInv, TypeOK, StoreInv, IdInv, WriterIsActive
    <3>2. GetActive \in Nat /\ active <= GetActive
      BY <3>1, GetActiveIsNewest, Constants DEF NewestRow
    <3>3. \A s \in SegmentId : s > GetActive => s > active
      BY <3>1, <3>2, Constants
    <3>4. QED
      BY <1>1, <2>1, <2>3, <3>3 DEF StoreInv, IdInv, NewerAreEmpty, OpenSegment
  <2>4. QED
    BY <2>2, <2>3
<1>5. PlaceInv'
  BY <1>1 DEF PlaceInv, OneActive, ReplacementIsNew, OldIsRetired, PendingIsRetired,
       VictimIsSealed
<1>6. QED
  BY <1>1, <1>2, <1>3, <1>4, <1>5 DEF StoreInv, IdInv

LEMMA CrashStore == TypeInv /\ StoreInv /\ Crash => StoreInv'
<1> SUFFICES ASSUME TypeInv, StoreInv, Crash PROVE StoreInv'
  OBVIOUS
<1>1. /\ active' = 0 /\ pc' = "down" /\ ~reader'.on
      /\ UNCHANGED <<segments, file, lastSegment, lastId, history>>
  BY DEF Crash, ForgetProcess, NoReader, Spend, Goto, disk, history
<1>2. RowInv'
  BY <1>1 DEF StoreInv, RowInv, RowsAreListed, RowsAreDisjoint, RowsAreWritten, WrittenIsKept,
       history
<1>3. IdsGrow' /\ UnusedIds' /\ WriterIsActive'
  BY <1>1 DEF StoreInv, IdInv, IdsGrow, UnusedIds, WriterIsActive, history
<1>4. NewerAreEmpty'
  <2>1. OpenSegment' = GetActive
    BY <1>1, SameActive DEF OpenSegment
  <2>2. CASE active = 0
    BY <1>1, <2>1, <2>2 DEF StoreInv, IdInv, NewerAreEmpty, OpenSegment
  <2>3. CASE active # 0
    <3>1. active \in SegmentId /\ segments[active].status = "active"
      BY <2>3 DEF TypeInv, TypeOK, StoreInv, IdInv, WriterIsActive
    <3>2. GetActive \in Nat /\ active <= GetActive
      BY <3>1, GetActiveIsNewest, Constants DEF NewestRow
    <3>3. \A s \in SegmentId : s > GetActive => s > active
      BY <3>1, <3>2, Constants
    <3>4. QED
      BY <1>1, <2>1, <2>3, <3>3 DEF StoreInv, IdInv, NewerAreEmpty, OpenSegment
  <2>4. QED
    BY <2>2, <2>3
<1>5. PlaceInv'
  BY <1>1 DEF PlaceInv, OneActive, ReplacementIsNew, OldIsRetired, PendingIsRetired,
       VictimIsSealed
<1>6. QED
  BY <1>1, <1>2, <1>3, <1>4, <1>5 DEF StoreInv, IdInv

LEMMA CreateStore == TypeInv /\ StoreInv /\ CreateActive => StoreInv'
<1> SUFFICES ASSUME TypeInv, StoreInv, CreateActive PROVE StoreInv'
  OBVIOUS
<1>1. RowInv'
  BY Constants
     DEF StoreInv, RowInv, RowsAreListed, RowsAreDisjoint, RowsAreWritten, WrittenIsKept,
         IdInv, IdsGrow, UnusedIds, WriterIsActive, NewerAreEmpty, OpenSegment, TypeInv,
         TypeOK, WriterIsOpen, Opening, CreateActive, CreateCommit, CreateRow, Commit, Spend,
         At, Goto, disk, local, history
<1>2. IdsGrow' /\ UnusedIds' /\ WriterIsActive' /\ ~reader'.on
  BY Constants
     DEF StoreInv, IdInv, IdsGrow, UnusedIds, WriterIsActive, TypeInv, TypeOK, CreateActive,
         CreateCommit, CreateRow, Commit, Spend, At, Goto, disk, local, history
<1>3. NewerAreEmpty'
  BY Constants, GetActiveIsNewest, GetActiveStaysNewest
     DEF StoreInv, TypeInv, TypeOK, WriterIsOpen, Opening, Writing, NewestRow, StoreInv,
         RowInv, RowsAreListed, RowsAreDisjoint, RowsAreWritten, WrittenIsKept, IdInv, IdsGrow,
         UnusedIds, WriterIsActive, NewerAreEmpty, OpenSegment, PlaceInv, OneActive,
         ReplacementIsNew, OldIsRetired, PendingIsRetired, VictimIsSealed, CreateActive,
         CreateCommit, CreateRow, Commit, Spend, At, Goto, disk, local, history
<1>4. OneActive' /\ ReplacementIsNew' /\ OldIsRetired' /\ PendingIsRetired' /\ VictimIsSealed'
  BY SameActive
     DEF StoreInv, PlaceInv, OneActive, ReplacementIsNew, OldIsRetired, PendingIsRetired,
         VictimIsSealed, CreateActive, CreateCommit, CreateRow, Commit, Spend, At, Goto, disk,
         local, history
<1>5. QED
  BY <1>1, <1>2, <1>3, <1>4 DEF StoreInv, IdInv, PlaceInv

LEMMA ConnectStore == TypeInv /\ StoreInv /\ ConnectActive => StoreInv'
<1> SUFFICES ASSUME TypeInv, StoreInv, ConnectActive PROVE StoreInv'
  OBVIOUS
<1>1. RowInv'
  BY Constants
     DEF StoreInv, RowInv, RowsAreListed, RowsAreDisjoint, RowsAreWritten, WrittenIsKept,
         IdInv, IdsGrow, UnusedIds, WriterIsActive, NewerAreEmpty, OpenSegment, TypeInv,
         TypeOK, WriterIsOpen, Opening, ConnectActive, FileIs, Spend, At, Goto, disk, local,
         history
<1>2. IdsGrow' /\ UnusedIds' /\ WriterIsActive' /\ ~reader'.on
  BY Constants, GetActiveIsNewest, GetActiveStaysNewest
     DEF StoreInv, TypeInv, TypeOK, WriterIsOpen, Opening, Writing, NewestRow, StoreInv,
         RowInv, RowsAreListed, RowsAreDisjoint, RowsAreWritten, WrittenIsKept, IdInv, IdsGrow,
         UnusedIds, WriterIsActive, NewerAreEmpty, OpenSegment, PlaceInv, OneActive,
         ReplacementIsNew, OldIsRetired, PendingIsRetired, VictimIsSealed, ConnectActive,
         FileIs, Spend, At, Goto, disk, local, history
<1>3. NewerAreEmpty'
  BY Constants, GetActiveIsNewest, GetActiveStaysNewest
     DEF StoreInv, IdInv, NewerAreEmpty, UnusedIds, WriterIsActive, OpenSegment, TypeInv,
         TypeOK, WriterIsOpen, Opening, NewestRow, ConnectActive, FileIs, Spend, At, Goto,
         disk, local, history
<1>4. OneActive' /\ ReplacementIsNew' /\ OldIsRetired' /\ PendingIsRetired' /\ VictimIsSealed'
  BY SameActive
     DEF StoreInv, PlaceInv, OneActive, ReplacementIsNew, OldIsRetired, PendingIsRetired,
         VictimIsSealed, ConnectActive, FileIs, Spend, At, Goto, disk, local, history
<1>5. QED
  BY <1>1, <1>2, <1>3, <1>4 DEF StoreInv, IdInv, PlaceInv

LEMMA ReserveStore == TypeInv /\ StoreInv /\ Reserve => StoreInv'
<1> SUFFICES ASSUME TypeInv, StoreInv, Reserve PROVE StoreInv'
  OBVIOUS
<1>1. /\ pc = "reserve" /\ pc' \in {"insert", "idle"} /\ lastId' \in {lastId, lastId + 1}
      /\ pc' = "insert" => lastId' = lastId + 1
      /\ UNCHANGED <<segments, lastSegment, file, local, reader, history>>
  BY DEF Reserve, Commit, At
<1>2. RowInv'
  BY <1>1 DEF StoreInv, RowInv, RowsAreListed, RowsAreDisjoint, RowsAreWritten, WrittenIsKept,
       history
<1>3. IdsGrow'
  <2>1. lastId \in Nat /\ written \subseteq Nat
    BY Constants DEF TypeInv, TypeOK
  <2>2. \A e \in written : e <= lastId
    BY DEF StoreInv, IdInv, IdsGrow
  <2>3. \A e \in written : e <= lastId' /\ e # lastId + 1
    BY <1>1, <2>1, <2>2
  <2>4. QED
    BY <1>1, <2>3 DEF IdsGrow, history
<1>4. UnusedIds' /\ WriterIsActive' /\ ~reader'.on
  BY <1>1 DEF StoreInv, IdInv, UnusedIds, WriterIsActive, local
<1>5. NewerAreEmpty'
  BY <1>1, SameActive DEF StoreInv, IdInv, NewerAreEmpty, OpenSegment, local
<1>6. PlaceInv'
  BY <1>1 DEF PlaceInv, OneActive, ReplacementIsNew, OldIsRetired, PendingIsRetired,
       VictimIsSealed
<1>7. QED
  BY <1>2, <1>3, <1>4, <1>5, <1>6 DEF StoreInv, IdInv

LEMMA InsertStore == TypeInv /\ StoreInv /\ Insert => StoreInv'
<1> SUFFICES ASSUME TypeInv, StoreInv, Insert PROVE StoreInv'
  OBVIOUS
<1>1. RowInv'
  BY Constants
     DEF StoreInv, RowInv, RowsAreListed, RowsAreDisjoint, RowsAreWritten, WrittenIsKept,
         IdInv, IdsGrow, UnusedIds, WriterIsActive, NewerAreEmpty, OpenSegment, TypeInv,
         TypeOK, WriterIsOpen, Opening, Insert, Commit, FileIs, Spend, At, Goto, disk, local,
         history
<1>2. IdsGrow' /\ UnusedIds' /\ WriterIsActive' /\ ~reader'.on
  BY Constants
     DEF StoreInv, IdInv, IdsGrow, UnusedIds, WriterIsActive, TypeInv, TypeOK, Insert, Commit,
         FileIs, Spend, At, Goto, disk, local, history
<1>3. NewerAreEmpty'
  BY Constants, GetActiveIsNewest, GetActiveStaysNewest
     DEF StoreInv, IdInv, NewerAreEmpty, UnusedIds, WriterIsActive, OpenSegment, TypeInv,
         TypeOK, WriterIsOpen, Opening, NewestRow, Insert, Commit, FileIs, Spend, At, Goto,
         disk, local, history
<1>4. OneActive' /\ ReplacementIsNew' /\ OldIsRetired' /\ PendingIsRetired' /\ VictimIsSealed'
  BY SameActive
     DEF StoreInv, PlaceInv, OneActive, ReplacementIsNew, OldIsRetired, PendingIsRetired,
         VictimIsSealed, Insert, Commit, FileIs, Spend, At, Goto, disk, local, history
<1>5. QED
  BY <1>1, <1>2, <1>3, <1>4 DEF StoreInv, IdInv, PlaceInv

LEMMA ReplaceStore == TypeInv /\ StoreInv /\ CreateReplacement => StoreInv'
<1> SUFFICES ASSUME TypeInv, StoreInv, CreateReplacement PROVE StoreInv'
  OBVIOUS
<1>1. /\ active \in SegmentId /\ lastSegment \in Nat
      /\ lastSegment < MaxSegments + MaxCrashes + MaxFaults
  <2>1. used.crashes \in Nat /\ used.faults \in Nat /\ lastSegment < MaxSegments
    BY DEF TypeInv, RoomForSegment, CreateReplacement, At
  <2>2. QED
    BY <2>1, Constants DEF TypeInv, TypeOK, WriterIsOpen, Opening, CreateReplacement, At
<1>2. lastSegment + 1 \in SegmentId
  BY <1>1, Constants DEF SegmentId
<1>3. active <= lastSegment
  BY <1>1, Constants DEF StoreInv, IdInv, UnusedIds, WriterIsActive
<1>4. RowInv'
  BY Constants, <1>1, <1>2, <1>3
     DEF StoreInv, RowInv, RowsAreListed, RowsAreDisjoint, RowsAreWritten, WrittenIsKept,
         IdInv, IdsGrow, UnusedIds, WriterIsActive, NewerAreEmpty, OpenSegment, TypeInv,
         TypeOK, WriterIsOpen, Opening, CreateReplacement, CreateCommit, CreateRow, Commit,
         Spend, At, Goto, disk, local, history
<1>5. IdsGrow' /\ UnusedIds' /\ WriterIsActive' /\ ~reader'.on
  BY Constants, <1>1, <1>2, <1>3
     DEF StoreInv, IdInv, IdsGrow, UnusedIds, WriterIsActive, TypeInv, TypeOK,
         CreateReplacement, CreateCommit, CreateRow, Commit, Spend, At, Goto, disk, local,
         history
<1>6. NewerAreEmpty'
  BY Constants, GetActiveIsNewest, GetActiveStaysNewest, <1>1, <1>2, <1>3
     DEF StoreInv, IdInv, NewerAreEmpty, UnusedIds, WriterIsActive, OpenSegment, TypeInv,
         TypeOK, WriterIsOpen, Opening, NewestRow, CreateReplacement, CreateCommit, CreateRow,
         Commit, Spend, At, Goto, disk, local, history
<1>7. OneActive' /\ ReplacementIsNew' /\ OldIsRetired' /\ PendingIsRetired' /\ VictimIsSealed'
  BY Constants, SameActive, <1>1, <1>2, <1>3
     DEF StoreInv, PlaceInv, OneActive, ReplacementIsNew, OldIsRetired, PendingIsRetired,
         VictimIsSealed, IdInv, UnusedIds, WriterIsActive, TypeInv, TypeOK, WriterIsOpen,
         Opening, CreateReplacement, CreateCommit, CreateRow, Commit, Spend, At, Goto, disk,
         local, history
<1>8. QED
  BY <1>4, <1>5, <1>6, <1>7 DEF StoreInv, IdInv, PlaceInv

LEMMA PrepareStore == TypeInv /\ StoreInv /\ PrepareReplacement => StoreInv'
<1> SUFFICES ASSUME TypeInv, StoreInv, PrepareReplacement PROVE StoreInv'
  OBVIOUS
<1>1. RowInv'
  BY Constants, GetActiveIsNewest, GetActiveStaysNewest
     DEF StoreInv, TypeInv, TypeOK, WriterIsOpen, Opening, Writing, NewestRow, StoreInv,
         RowInv, RowsAreListed, RowsAreDisjoint, RowsAreWritten, WrittenIsKept, IdInv, IdsGrow,
         UnusedIds, WriterIsActive, NewerAreEmpty, OpenSegment, PlaceInv, OneActive,
         ReplacementIsNew, OldIsRetired, PendingIsRetired, VictimIsSealed, PrepareReplacement,
         FileIs, Commit, Spend, At, Goto, disk, local, history
<1>2. IdsGrow' /\ UnusedIds' /\ WriterIsActive' /\ ~reader'.on
  BY Constants
     DEF StoreInv, IdInv, IdsGrow, UnusedIds, WriterIsActive, RowInv, RowsAreWritten, PlaceInv,
         ReplacementIsNew, TypeInv, TypeOK, WriterIsOpen, Opening, PrepareReplacement, FileIs,
         Commit, Spend, At, Goto, disk, local, history
<1>3. NewerAreEmpty'
  BY Constants, GetActiveIsNewest, GetActiveStaysNewest
     DEF StoreInv, IdInv, NewerAreEmpty, UnusedIds, WriterIsActive, OpenSegment, TypeInv,
         TypeOK, WriterIsOpen, Opening, NewestRow, PrepareReplacement, FileIs, Commit, Spend,
         At, Goto, disk, local, history
<1>4. OneActive' /\ ReplacementIsNew' /\ OldIsRetired' /\ PendingIsRetired' /\ VictimIsSealed'
  BY SameActive
     DEF StoreInv, PlaceInv, OneActive, ReplacementIsNew, OldIsRetired, PendingIsRetired,
         VictimIsSealed, PrepareReplacement, FileIs, Commit, Spend, At, Goto, disk, local,
         history
<1>5. QED
  BY <1>1, <1>2, <1>3, <1>4 DEF StoreInv, IdInv, PlaceInv

LEMMA SwitchStore == TypeInv /\ StoreInv /\ SwitchWriter => StoreInv'
<1> SUFFICES ASSUME TypeInv, StoreInv, SwitchWriter PROVE StoreInv'
  OBVIOUS
<1>1. RowInv'
  BY Constants, GetActiveIsNewest, GetActiveStaysNewest
     DEF StoreInv, TypeInv, TypeOK, WriterIsOpen, Opening, Writing, NewestRow, StoreInv,
         RowInv, RowsAreListed, RowsAreDisjoint, RowsAreWritten, WrittenIsKept, IdInv, IdsGrow,
         UnusedIds, WriterIsActive, NewerAreEmpty, OpenSegment, PlaceInv, OneActive,
         ReplacementIsNew, OldIsRetired, PendingIsRetired, VictimIsSealed, SwitchWriter,
         FileIs, Spend, At, Goto, disk, local, history
<1>2. IdsGrow' /\ UnusedIds' /\ WriterIsActive' /\ ~reader'.on
  BY Constants
     DEF StoreInv, IdInv, IdsGrow, UnusedIds, WriterIsActive, RowInv, RowsAreWritten, PlaceInv,
         ReplacementIsNew, TypeInv, TypeOK, WriterIsOpen, Opening, SwitchWriter, FileIs, Spend,
         At, Goto, disk, local, history
<1>3. NewerAreEmpty'
  BY Constants, GetActiveIsNewest, GetActiveStaysNewest
     DEF StoreInv, TypeInv, TypeOK, WriterIsOpen, Opening, Writing, NewestRow, StoreInv,
         RowInv, RowsAreListed, RowsAreDisjoint, RowsAreWritten, WrittenIsKept, IdInv, IdsGrow,
         UnusedIds, WriterIsActive, NewerAreEmpty, OpenSegment, PlaceInv, OneActive,
         ReplacementIsNew, OldIsRetired, PendingIsRetired, VictimIsSealed, SwitchWriter,
         FileIs, Spend, At, Goto, disk, local, history
<1>4. OneActive' /\ ReplacementIsNew' /\ OldIsRetired' /\ PendingIsRetired' /\ VictimIsSealed'
  BY Constants, SameActive
     DEF StoreInv, PlaceInv, OneActive, ReplacementIsNew, OldIsRetired, PendingIsRetired,
         VictimIsSealed, IdInv, UnusedIds, WriterIsActive, TypeInv, TypeOK, WriterIsOpen,
         Opening, SwitchWriter, FileIs, Spend, At, Goto, disk, local, history
<1>5. QED
  BY <1>1, <1>2, <1>3, <1>4 DEF StoreInv, IdInv, PlaceInv

LEMMA UndoStore == TypeInv /\ StoreInv /\ UndoReplacement => StoreInv'
<1> SUFFICES ASSUME TypeInv, StoreInv, UndoReplacement PROVE StoreInv'
  OBVIOUS
<1>1. /\ UNCHANGED segments \/ DeleteRow(lastSegment)
      /\ pc = "undo" /\ pc' = "idle"
      /\ UNCHANGED <<lastSegment, lastId, file, local, reader, history>>
  BY DEF UndoReplacement, ManifestCommit, Commit, At
<1>2. active \in SegmentId /\ lastSegment \in SegmentId /\ active # lastSegment
  <2>1. active \in SegmentId /\ lastSegment \in SegmentId \union {0} /\ active < lastSegment
    BY <1>1 DEF TypeInv, TypeOK, WriterIsOpen, Opening, StoreInv, PlaceInv, ReplacementIsNew
  <2>2. QED
    BY <2>1, Constants
<1>3. file[lastSegment].rows = {}
  BY <1>1, <1>2, Constants DEF StoreInv, IdInv, PlaceInv, NewerAreEmpty, OpenSegment,
       ReplacementIsNew
<1>4. \A s \in SegmentId :
        segments'[s].status = segments[s].status \/ (s = lastSegment /\ segments'[s].status = "none")
  <2>1. CASE UNCHANGED segments
    BY <2>1
  <2>2. CASE DeleteRow(lastSegment)
    BY <1>2, <2>2 DEF DeleteRow, TypeInv, TypeOK
  <2>3. QED
    BY <1>1, <2>1, <2>2
<1>5. RowInv'
  <2>1. RowsAreListed'
    BY <1>1, <1>3, <1>4 DEF StoreInv, RowInv, RowsAreListed
  <2>2. QED
    BY <1>1, <2>1 DEF StoreInv, RowInv, RowsAreDisjoint, RowsAreWritten, WrittenIsKept, history
<1>6. IdsGrow' /\ UnusedIds' /\ ~reader'.on
  BY <1>1, <1>4 DEF StoreInv, IdInv, IdsGrow, UnusedIds, history
<1>7. WriterIsActive'
  BY <1>1, <1>2, <1>4 DEF StoreInv, IdInv, WriterIsActive, local
<1>8. NewerAreEmpty'
  BY <1>1, <1>2, Constants DEF StoreInv, IdInv, NewerAreEmpty, OpenSegment, local
<1>9. PlaceInv'
  BY <1>1 DEF PlaceInv, OneActive, ReplacementIsNew, OldIsRetired, PendingIsRetired,
       VictimIsSealed
<1>10. QED
  BY <1>1, <1>5, <1>6, <1>7, <1>8, <1>9 DEF StoreInv, IdInv

LEMMA ChooseStore == TypeInv /\ StoreInv /\ ChooseVictim => StoreInv'
<1> SUFFICES ASSUME TypeInv, StoreInv, ChooseVictim PROVE StoreInv'
  OBVIOUS
<1>1. victim' \in SegmentId
  BY OldestIsMember DEF ChooseVictim, Victims, Eligible, With
<1>2. segments[victim'].status \in {"closed", "quarantined"}
  BY OldestIsMember DEF ChooseVictim, Victims, Eligible, With
<1>3. RowInv'
  BY <1>1, <1>2
     DEF StoreInv, RowInv, RowsAreListed, RowsAreDisjoint, RowsAreWritten, WrittenIsKept,
         ChooseVictim, At, Goto, disk, local, history
<1>4. IdsGrow' /\ UnusedIds' /\ WriterIsActive' /\ ~reader'.on
  BY Constants, <1>1, <1>2
     DEF StoreInv, IdInv, IdsGrow, UnusedIds, WriterIsActive, TypeInv, TypeOK, ChooseVictim,
         At, Goto, disk, local, history
<1>5. NewerAreEmpty'
  BY SameActive, <1>1, <1>2
     DEF StoreInv, IdInv, NewerAreEmpty, OpenSegment, ChooseVictim, At, Goto, disk, local,
         history
<1>6. OneActive' /\ ReplacementIsNew' /\ OldIsRetired' /\ PendingIsRetired' /\ VictimIsSealed'
  BY SameActive, <1>1, <1>2
     DEF StoreInv, PlaceInv, OneActive, ReplacementIsNew, OldIsRetired, PendingIsRetired,
         VictimIsSealed, ChooseVictim, At, Goto, disk, local, history
<1>7. QED
  BY <1>3, <1>4, <1>5, <1>6 DEF StoreInv, IdInv, PlaceInv

LEMMA UnlinkStore == TypeInv /\ StoreInv /\ Unlink => StoreInv'
<1> SUFFICES ASSUME TypeInv, StoreInv, Unlink PROVE StoreInv'
  OBVIOUS
<1>1. RowInv'
  BY Constants
     DEF StoreInv, RowInv, RowsAreListed, RowsAreDisjoint, RowsAreWritten, WrittenIsKept,
         IdInv, IdsGrow, UnusedIds, WriterIsActive, NewerAreEmpty, OpenSegment, TypeInv,
         TypeOK, WriterIsOpen, Opening, Unlink, FileIs, EndPass, Spend, At, Goto, disk, local,
         history
<1>2. IdsGrow' /\ UnusedIds' /\ WriterIsActive' /\ ~reader'.on
  BY Constants, GetActiveIsNewest, GetActiveStaysNewest
     DEF StoreInv, TypeInv, TypeOK, WriterIsOpen, Opening, Writing, NewestRow, StoreInv,
         RowInv, RowsAreListed, RowsAreDisjoint, RowsAreWritten, WrittenIsKept, IdInv, IdsGrow,
         UnusedIds, WriterIsActive, NewerAreEmpty, OpenSegment, PlaceInv, OneActive,
         ReplacementIsNew, OldIsRetired, PendingIsRetired, VictimIsSealed, Unlink, FileIs,
         EndPass, Spend, At, Goto, disk, local, history
<1>3. NewerAreEmpty'
  BY Constants, GetActiveIsNewest, GetActiveStaysNewest
     DEF StoreInv, IdInv, NewerAreEmpty, UnusedIds, WriterIsActive, OpenSegment, TypeInv,
         TypeOK, WriterIsOpen, Opening, NewestRow, Unlink, FileIs, EndPass, Spend, At, Goto,
         disk, local, history
<1>4. OneActive' /\ ReplacementIsNew' /\ OldIsRetired' /\ PendingIsRetired' /\ VictimIsSealed'
  BY Constants, SameActive
     DEF StoreInv, PlaceInv, OneActive, ReplacementIsNew, OldIsRetired, PendingIsRetired,
         VictimIsSealed, IdInv, UnusedIds, WriterIsActive, TypeInv, TypeOK, WriterIsOpen,
         Opening, Unlink, FileIs, EndPass, Spend, At, Goto, disk, local, history
<1>5. QED
  BY <1>1, <1>2, <1>3, <1>4 DEF StoreInv, IdInv, PlaceInv

LEMMA ForgetStore == TypeInv /\ StoreInv /\ ForgetSegment => StoreInv'
<1> SUFFICES ASSUME TypeInv, StoreInv, ForgetSegment PROVE StoreInv'
  OBVIOUS
<1>1. RowInv'
  BY Constants, GetActiveIsNewest, GetActiveStaysNewest
     DEF StoreInv, TypeInv, TypeOK, WriterIsOpen, Opening, Writing, NewestRow, StoreInv,
         RowInv, RowsAreListed, RowsAreDisjoint, RowsAreWritten, WrittenIsKept, IdInv, IdsGrow,
         UnusedIds, WriterIsActive, NewerAreEmpty, OpenSegment, PlaceInv, OneActive,
         ReplacementIsNew, OldIsRetired, PendingIsRetired, VictimIsSealed, ForgetSegment,
         DeleteRow, Raised, ManifestCommit, Commit, Spend, At, Goto, disk, local, history
<1>2. IdsGrow' /\ UnusedIds' /\ WriterIsActive' /\ ~reader'.on
  BY Constants, GetActiveIsNewest, GetActiveStaysNewest
     DEF StoreInv, TypeInv, TypeOK, WriterIsOpen, Opening, Writing, NewestRow, StoreInv,
         RowInv, RowsAreListed, RowsAreDisjoint, RowsAreWritten, WrittenIsKept, IdInv, IdsGrow,
         UnusedIds, WriterIsActive, NewerAreEmpty, OpenSegment, PlaceInv, OneActive,
         ReplacementIsNew, OldIsRetired, PendingIsRetired, VictimIsSealed, ForgetSegment,
         DeleteRow, Raised, ManifestCommit, Commit, Spend, At, Goto, disk, local, history
<1>3. NewerAreEmpty'
  BY Constants, GetActiveIsNewest, GetActiveStaysNewest
     DEF StoreInv, IdInv, NewerAreEmpty, UnusedIds, WriterIsActive, OpenSegment, TypeInv,
         TypeOK, WriterIsOpen, Opening, NewestRow, ForgetSegment, DeleteRow, Raised,
         ManifestCommit, Commit, Spend, At, Goto, disk, local, history
<1>4. OneActive' /\ ReplacementIsNew' /\ OldIsRetired' /\ PendingIsRetired' /\ VictimIsSealed'
  BY SameActive
     DEF StoreInv, PlaceInv, OneActive, ReplacementIsNew, OldIsRetired, PendingIsRetired,
         VictimIsSealed, ForgetSegment, DeleteRow, Raised, ManifestCommit, Commit, Spend, At,
         Goto, disk, local, history
<1>5. QED
  BY <1>1, <1>2, <1>3, <1>4 DEF StoreInv, IdInv, PlaceInv

(* The disk takes the rows of a file the writer does not hold.             *)
LEMMA DamageStore ==
    ASSUME TypeInv, StoreInv, NEW s \in SegmentId, NEW state, Damage(s, state)
    PROVE  StoreInv'
<1> USE Constants
<1>1. /\ pc \in {"down", "idle"} /\ s # active /\ gone' = gone \union file[s].rows
      /\ UNCHANGED <<segments, lastSegment, lastId, pc, local, reader, written>>
      /\ \A t \in SegmentId : IF t = s THEN file'[t].rows = {} ELSE file'[t] = file[t]
  BY DEF Damage, FileIs, TypeInv, TypeOK
<1>2. RowsAreListed' /\ RowsAreDisjoint' /\ RowsAreWritten'
  BY <1>1 DEF StoreInv, RowInv, RowsAreListed, RowsAreDisjoint, RowsAreWritten
<1>3. WrittenIsKept'
  BY <1>1 DEF StoreInv, RowInv, WrittenIsKept
<1>4. IdsGrow' /\ UnusedIds' /\ ~reader'.on
  BY <1>1 DEF StoreInv, IdInv, IdsGrow, UnusedIds
<1>5. WriterIsActive' /\ NewerAreEmpty'
  <2>1. active' = active /\ active \in SegmentId \union {0} /\ OpenSegment' = OpenSegment
    BY <1>1, SameActive DEF OpenSegment, local, TypeInv, TypeOK
  <2>2. WriterIsActive'
    BY <1>1, <2>1 DEF StoreInv, IdInv, WriterIsActive
  <2>3. NewerAreEmpty'
    BY <1>1, <2>1 DEF StoreInv, IdInv, NewerAreEmpty
  <2>4. QED
    BY <2>2, <2>3
<1>6. PlaceInv'
  BY <1>1, SameActive DEF StoreInv, PlaceInv, OneActive, ReplacementIsNew, OldIsRetired,
     PendingIsRetired, VictimIsSealed
<1>7. QED
  BY <1>2, <1>3, <1>4, <1>5, <1>6 DEF StoreInv, RowInv, IdInv

(* Nothing has been written.                                               *)
LEMMA InitStore == Init => StoreInv
<1> SUFFICES ASSUME Init PROVE StoreInv
  OBVIOUS
<1>1. RowInv
  BY DEF Init, RowInv, RowsAreListed, RowsAreDisjoint, RowsAreWritten, WrittenIsKept
<1>2. IdInv
  BY Constants, GetActiveIsNewest DEF Init, IdInv, IdsGrow, UnusedIds, WriterIsActive,
       NewerAreEmpty
<1>3. PlaceInv
  BY DEF Init, PlaceInv, OneActive, ReplacementIsNew, OldIsRetired, PendingIsRetired,
       VictimIsSealed
<1>4. QED
  BY <1>1, <1>2, <1>3 DEF Init, NoReader, StoreInv

(* Without queries in the bounds no step of a query is possible.           *)
LEMMA NoQuery ==
    ASSUME MaxReads = 0, TypeInv, StoreInv
    PROVE  ~Query
<1>1. used.reads \in Nat /\ ~reader.on
  BY DEF TypeInv, StoreInv
<1>2. ~BeginQuery
  BY <1>1 DEF BeginQuery, Spend
<1>3. QED
  BY <1>1, <1>2 DEF Query, ReadSegment, EndQuery

(* One step per action, the queries excepted.                              *)
LEMMA StoreStep ==
    ASSUME MaxReads = 0, TypeInv, StoreInv, [Next]_vars
    PROVE  StoreInv'
<1>1. CASE OpenStore
  BY <1>1, OpenStoreStore
<1>2. CASE ReconcileActive
  BY <1>2, ReconcileStore
<1>3. CASE PickActive
  BY <1>3, PickStore
<1>4. CASE ProbeActive
  BY <1>4, ProbeStore
<1>5. CASE CreateActive
  BY <1>5, CreateStore
<1>6. CASE ConnectActive
  BY <1>6, ConnectStore
<1>7. CASE CloseAfterError
  BY <1>7, CloseAfterErrorStore
<1>8. CASE Reserve
  BY <1>8, ReserveStore
<1>9. CASE Insert
  BY <1>9, InsertStore
<1>10. CASE Advance
  BY <1>10, AdvanceStore
<1>11. CASE Due
  BY <1>11, DueStore
<1>12. CASE CreateReplacement
  BY <1>12, ReplaceStore
<1>13. CASE PrepareReplacement
  BY <1>13, PrepareStore
<1>14. CASE SwitchWriter
  BY <1>14, SwitchStore
<1>15. CASE UndoReplacement
  BY <1>15, UndoStore
<1>16. CASE CheckpointOld
  BY <1>16, CheckpointStore
<1>17. CASE CloseOld
  BY <1>17, CloseOldStore
<1>18. CASE BeginRetention
  BY <1>18, BeginRetentionStore
<1>19. CASE RetryCheckpoint
  BY <1>19, RetryStore
<1>20. CASE ChooseVictim
  BY <1>20, ChooseStore
<1>21. CASE FinishPass
  BY <1>21, FinishPassStore
<1>22. CASE Unlink
  BY <1>22, UnlinkStore
<1>23. CASE ForgetSegment
  BY <1>23, ForgetStore
<1>24. CASE Record
  BY <1>24, RecordStore
<1>25. CASE Reconfigure
  BY <1>25, ReconfigureStore
<1>26. CASE Crash
  BY <1>26, CrashStore
<1>27. CASE RefreshOnOpen
  BY <1>27, RefreshOnOpenStore
<1>28. CASE RefreshOnRotate
  BY <1>28, RefreshOnRotateStore
<1>29. CASE \E s \in SegmentId, state \in {"absent", "bare", "corrupt"} : Damage(s, state)
  BY <1>29, DamageStore
<1>30. CASE UNCHANGED vars
  <2>1. GetActive' = GetActive
    BY <1>30, SameActive DEF vars, disk
  <2>2. QED
    BY <1>30, <2>1 DEF vars, disk, local, history, RowInv, RowsAreListed, RowsAreDisjoint,
         RowsAreWritten, WrittenIsKept,
       IdInv, IdsGrow, UnusedIds, WriterIsActive, NewerAreEmpty, OpenSegment,
       PlaceInv, OneActive, ReplacementIsNew, OldIsRetired, PendingIsRetired, VictimIsSealed,
       StoreInv
<1>31. QED
  BY NoQuery, <1>1, <1>2, <1>3, <1>4, <1>5, <1>6, <1>7, <1>8, <1>9, <1>10, <1>11, <1>12, <1>13,
     <1>14, <1>15, <1>16, <1>17, <1>18, <1>19, <1>20, <1>21, <1>22, <1>23, <1>24, <1>25, <1>26,
     <1>27, <1>28, <1>29, <1>30
     DEF Next, Open, Append, Rotate, Retention, Environment

(* The inductive invariant holds in every state.                           *)
LEMMA StoreCorrect == MaxReads = 0 => (Spec => [](TypeInv /\ StoreInv))
<1> SUFFICES ASSUME MaxReads = 0 PROVE Spec => [](TypeInv /\ StoreInv)
  OBVIOUS
<1>1. Init => TypeInv /\ StoreInv
  BY InitType, InitStore
<1>2. TypeInv /\ StoreInv /\ [Next]_vars => TypeInv' /\ StoreInv'
  BY TypeStep, StoreStep
<1>3. QED
  BY <1>1, <1>2, PTL DEF Spec

(* Rows are only where a query finds them.                                 *)
LEMMA ReadableRows ==
    ASSUME StoreInv, NEW s \in SegmentId
    PROVE  Readable(s) = file[s].rows
BY DEF StoreInv, RowInv, RowsAreListed, Readable, Listed, With

(* Across crashes between any two commits, failed steps, rotation,          *)
(* recovery and retention, an event whose segment commit happened stays     *)
(* readable until retention unlinks its whole segment or the disk loses it. *)
THEOREM Committed == MaxReads = 0 => (Spec => []CommittedStayReadable)
<1> SUFFICES ASSUME MaxReads = 0 PROVE Spec => []CommittedStayReadable
  OBVIOUS
<1>1. StoreInv => CommittedStayReadable
  BY ReadableRows DEF StoreInv, RowInv, WrittenIsKept, CommittedStayReadable, Visible
<1>2. QED
  BY <1>1, StoreCorrect, PTL

-----------------------------------------------------------------------------
(* The store implements the log.                                           *)

(* The refinement mapping in terms of the files.                           *)
RowBlocks ==
    /\ OpenSegment \in SegmentId \union {0}
    /\ OpenBlock = IF OpenSegment = 0 THEN {} ELSE file[OpenSegment].rows
    /\ SealedBlocks = {file[s].rows : s \in SegmentId \ {OpenSegment}} \ {{}}

LEMMA BlocksAreRows == TypeInv /\ StoreInv => RowBlocks
<1> SUFFICES ASSUME TypeInv, StoreInv PROVE RowBlocks
  OBVIOUS
<1>1. OpenSegment \in SegmentId \union {0}
  BY GetActiveIsNewest DEF OpenSegment, NewestRow, TypeInv, TypeOK
<1>2. QED
  BY <1>1, ReadableRows DEF OpenBlock, SealedBlocks, RowBlocks

LEMMA BlocksAreRowsAfter == TypeInv' /\ StoreInv' => RowBlocks'
BY BlocksAreRows, PTL

(* A step that leaves the rows alone is a stutter or a seal.               *)
Quiet ==
    /\ \A s \in SegmentId : file'[s].rows = file[s].rows
    /\ UNCHANGED written /\ used'.damages = used.damages
Calm == Quiet /\ (OpenSegment' = OpenSegment \/ OpenSegment' = 0 \/ file[OpenSegment'].rows = {})

LEMMA QuietSteps ==
    ASSUME TypeInv, StoreInv, TypeInv', StoreInv', Quiet, OpenSegment' = OpenSegment
    PROVE  UNCHANGED Log!vars
<1>1. OpenBlock' = OpenBlock
  <2>1. OpenSegment \in SegmentId => file'[OpenSegment].rows = file[OpenSegment].rows
    BY DEF Quiet
  <2>2. OpenBlock = IF OpenSegment = 0 THEN {} ELSE file[OpenSegment].rows
    BY BlocksAreRows DEF RowBlocks
  <2>3. OpenBlock' = IF OpenSegment = 0 THEN {} ELSE file'[OpenSegment].rows
    BY BlocksAreRowsAfter DEF RowBlocks
  <2>4. OpenSegment \in SegmentId \union {0}
    BY BlocksAreRows DEF RowBlocks
  <2>5. QED
    BY <2>1, <2>2, <2>3, <2>4
<1>2. {file'[s].rows : s \in SegmentId \ {OpenSegment}}
        = {file[s].rows : s \in SegmentId \ {OpenSegment}}
  BY DEF Quiet
<1>3. SealedBlocks' = SealedBlocks
  BY <1>2, BlocksAreRows, BlocksAreRowsAfter DEF RowBlocks
<1>4. QED
  BY <1>1, <1>3 DEF Log!vars, Quiet, LastWritten

LEMMA CalmSteps ==
    ASSUME TypeInv, StoreInv, TypeInv', StoreInv', Calm
    PROVE  Log!Seal \/ UNCHANGED Log!vars
<1>1. UNCHANGED <<LastWritten, used.damages>>
  BY DEF Calm, Quiet, LastWritten
<1>2. CASE OpenSegment' = OpenSegment
  BY <1>2, QuietSteps DEF Calm
<1>3. CASE OpenSegment' = 0 \/ file[OpenSegment'].rows = {}
  <2>1. OpenBlock' = {}
    BY <1>3, BlocksAreRowsAfter DEF Calm, Quiet, RowBlocks
  <2>2. SealedBlocks' = {file[s].rows : s \in SegmentId} \ {{}}
    BY <1>3, BlocksAreRowsAfter, Constants DEF Calm, Quiet, RowBlocks
  <2>3. SealedBlocks \union ({OpenBlock} \ {{}}) = {file[s].rows : s \in SegmentId} \ {{}}
    BY BlocksAreRows, Constants DEF RowBlocks
  <2>4. QED
    BY <1>1, <2>1, <2>2, <2>3 DEF Log!Seal
<1>4. QED
  BY <1>2, <1>3 DEF Calm

(* The insert of a new event is the only step that adds to a block.        *)
LEMMA InsertRecords ==
    ASSUME TypeInv, StoreInv, TypeInv', StoreInv', Insert
    PROVE  Log!Record(lastId) \/ UNCHANGED Log!vars
<1>1. /\ active \in SegmentId /\ OpenSegment = active /\ OpenSegment' = active
      /\ file[active].state = "ok"
  BY Constants DEF Insert, At, local, OpenSegment, TypeInv, TypeOK, WriterIsOpen, Opening,
     StoreInv, IdInv, WriterIsActive
<1>6. /\ lastId \in Nat /\ lastId # 0 /\ written \subseteq Nat
      /\ \A e \in written : e <= lastId /\ e # lastId
  BY Constants DEF Insert, At, TypeInv, TypeOK, RoomForEvent, StoreInv, IdInv, IdsGrow
<1>2. used'.damages = used.damages
  BY DEF Insert, Commit, Spend, TypeInv
<1>3. CASE UNCHANGED <<file, written>>
  BY <1>1, <1>2, <1>3, QuietSteps DEF Quiet
<1>4. CASE FileIs(active, "ok", file[active].rows \union {lastId}) /\ written' = written \union {lastId}
  <2>1. \A s \in SegmentId : file'[s].rows = IF s = active THEN file[s].rows \union {lastId}
                                                           ELSE file[s].rows
    BY <1>1, <1>4 DEF FileIs, TypeInv, TypeOK
  <2>2. OpenBlock' = OpenBlock \union {lastId} /\ SealedBlocks' = SealedBlocks
    <3>1. {file'[s].rows : s \in SegmentId \ {active}} = {file[s].rows : s \in SegmentId \ {active}}
      BY <2>1
    <3>2. QED
      BY <1>1, <2>1, <3>1, BlocksAreRows, BlocksAreRowsAfter, Constants DEF RowBlocks
  <2>3. LastWritten < lastId
    <3>1. CASE written = {}
      BY <1>6, <3>1 DEF LastWritten
    <3>2. CASE written # {}
      <4>1. written \subseteq 0..lastId
        BY <1>6
      <4>2. Max(written) \in written
        BY <1>6, <3>2, <4>1, MaxIsMember
      <4>3. \A e \in written : e < lastId
        BY <1>6
      <4>4. QED
        BY <3>2, <4>2, <4>3, Zenon DEF LastWritten
    <3>3. QED
      BY <3>1, <3>2
  <2>4. LastWritten' = lastId
    <3>1. written' \subseteq 0..lastId /\ written' # {} /\ lastId \in written'
      BY <1>4, <1>6
    <3>2. Max(written') \in written' /\ \A e \in written' : e <= Max(written')
      BY <1>6, <3>1, MaxIsMember
    <3>3. \A e \in written' : lastId <= e => e = lastId
      BY <1>6, <3>1
    <3>4. QED
      BY <3>1, <3>2, <3>3, Zenon DEF LastWritten
  <2>5. QED
    BY <1>2, <2>2, <2>3, <2>4 DEF Log!Record
<1>5. QED
  BY <1>1, <1>3, <1>4 DEF Insert, Commit

(* The rows of a segment taken away are a block of their own.              *)
LEMMA Taken ==
    ASSUME TypeInv, StoreInv, TypeInv', StoreInv', NEW s \in SegmentId,
           OpenSegment' = OpenSegment,
           \A t \in SegmentId : file'[t].rows = IF t = s THEN {} ELSE file[t].rows,
           file[s].rows # {}
    PROVE  /\ SealedBlocks' = SealedBlocks \ {file[s].rows}
           /\ OpenBlock' = IF OpenBlock = file[s].rows THEN {} ELSE OpenBlock
           /\ file[s].rows \in SealedBlocks \union {OpenBlock}
           /\ s # OpenSegment => file[s].rows \in SealedBlocks /\ OpenBlock' = OpenBlock
<1>1. \A t \in SegmentId : t # s => file[t].rows # file[s].rows
  BY DEF StoreInv, RowInv, RowsAreDisjoint
<1>2. SealedBlocks' = SealedBlocks \ {file[s].rows}
  BY <1>1, BlocksAreRows, BlocksAreRowsAfter DEF RowBlocks
<1>3. OpenBlock = file[s].rows <=> s = OpenSegment
  BY <1>1, BlocksAreRows, Constants DEF RowBlocks
<1>4. OpenBlock' = IF s = OpenSegment THEN {} ELSE OpenBlock
  BY BlocksAreRows, BlocksAreRowsAfter DEF RowBlocks
<1>5. s # OpenSegment => file[s].rows \in SealedBlocks
  BY BlocksAreRows DEF RowBlocks
<1>6. QED
  BY <1>2, <1>3, <1>4, <1>5

(* Retention takes a sealed block, never the open one.                     *)
LEMMA UnlinkDrops ==
    ASSUME TypeInv, StoreInv, TypeInv', StoreInv', Unlink
    PROVE  (\E block \in SealedBlocks : Log!Drop(block)) \/ UNCHANGED Log!vars
<1>1. /\ victim \in SegmentId /\ active # 0 /\ active # victim
      /\ OpenSegment = active /\ OpenSegment' = active
  BY DEF Unlink, At, OpenSegment, TypeInv, TypeOK, WriterIsOpen, Opening, StoreInv, IdInv,
       PlaceInv,
         WriterIsActive, VictimIsSealed
<1>2. UNCHANGED <<LastWritten, used.damages>>
  BY DEF Unlink, Spend, LastWritten, TypeInv
<1>3. ASSUME \A t \in SegmentId : file'[t].rows = file[t].rows
      PROVE  UNCHANGED Log!vars
  <2>1. Quiet
    BY <1>2, <1>3 DEF Quiet, Unlink
  <2>2. QED
    BY <1>1, <2>1, QuietSteps
<1>4. CASE FileIs(victim, "absent", {}) /\ file[victim].rows # {}
  <2>1. \A t \in SegmentId : file'[t].rows = IF t = victim THEN {} ELSE file[t].rows
    BY <1>4 DEF FileIs, TypeInv, TypeOK
  <2>2. /\ SealedBlocks' = SealedBlocks \ {file[victim].rows}
        /\ file[victim].rows \in SealedBlocks /\ OpenBlock' = OpenBlock
    BY <1>1, <1>4, <2>1, Taken
  <2>3. QED
    BY <1>2, <2>2 DEF Log!Drop
<1>5. CASE FileIs(victim, "absent", {}) /\ file[victim].rows = {}
  <2>1. \A t \in SegmentId : file'[t].rows = file[t].rows
    BY <1>1, <1>5 DEF FileIs, TypeInv, TypeOK
  <2>2. QED
    BY <1>3, <2>1
<1>6. CASE UNCHANGED file
  BY <1>3, <1>6
<1>7. UNCHANGED file \/ FileIs(victim, "absent", {})
  BY DEF Unlink
<1>8. QED
  BY <1>4, <1>5, <1>6, <1>7, Zenon

(* Damage takes one block, the open one only when the process is down.     *)
LEMMA DamageLoses ==
    ASSUME TypeInv, StoreInv, TypeInv', StoreInv', NEW s \in SegmentId, NEW state, Damage(s,
           state)
    PROVE  \E block \in SealedBlocks \union {OpenBlock} : Log!Lose(block)
<1>1. OpenSegment' = OpenSegment
  BY SameActive DEF Damage, local, OpenSegment
<1>2. LastWritten' = LastWritten /\ used'.damages = used.damages + 1
  BY DEF Damage, Spend, LastWritten, TypeInv
<1>3. \A t \in SegmentId : file'[t].rows = IF t = s THEN {} ELSE file[t].rows
  BY DEF Damage, FileIs, TypeInv, TypeOK
<1>4. file[s].rows # {}
  BY DEF Damage
<1>5. /\ SealedBlocks' = SealedBlocks \ {file[s].rows}
      /\ OpenBlock' = IF OpenBlock = file[s].rows THEN {} ELSE OpenBlock
      /\ file[s].rows \in SealedBlocks \union {OpenBlock}
  BY <1>1, <1>3, <1>4, Taken
<1>6. QED
  BY <1>2, <1>5 DEF Log!Lose

(* All the other actions leave the rows where they are.                    *)
LEMMA OpenStoreIsCalm == TypeInv /\ StoreInv /\ OpenStore => Calm
BY SameActive
   DEF TypeInv, TypeOK, WriterIsOpen, Opening, Calm, Quiet, OpenSegment, OpenStore, disk,
       history

LEMMA RecordIsCalm == TypeInv /\ StoreInv /\ Record => Calm
BY SameActive
   DEF TypeInv, TypeOK, WriterIsOpen, Opening, Calm, Quiet, OpenSegment, Record, disk, history

LEMMA ReconfigureIsCalm == TypeInv /\ StoreInv /\ Reconfigure => Calm
BY SameActive
   DEF TypeInv, TypeOK, WriterIsOpen, Opening, Calm, Quiet, OpenSegment, Reconfigure, disk,
       history

LEMMA DueIsCalm == TypeInv /\ StoreInv /\ Due => Calm
BY SameActive
   DEF TypeInv, TypeOK, WriterIsOpen, Opening, Calm, Quiet, OpenSegment, Due, disk, history

LEMMA CheckpointOldIsCalm == TypeInv /\ StoreInv /\ CheckpointOld => Calm
BY SameActive
   DEF TypeInv, TypeOK, WriterIsOpen, Opening, Calm, Quiet, OpenSegment, CheckpointOld, Spend,
       disk, local, history

LEMMA BeginRetentionIsCalm == TypeInv /\ StoreInv /\ BeginRetention => Calm
BY SameActive
   DEF TypeInv, TypeOK, WriterIsOpen, Opening, Calm, Quiet, OpenSegment, BeginRetention, disk,
       history

LEMMA FinishPassIsCalm == TypeInv /\ StoreInv /\ FinishPass => Calm
BY SameActive
   DEF TypeInv, TypeOK, WriterIsOpen, Opening, Calm, Quiet, OpenSegment, FinishPass, disk,
       history

LEMMA ChooseVictimIsCalm == TypeInv /\ StoreInv /\ ChooseVictim => Calm
BY SameActive
   DEF TypeInv, TypeOK, WriterIsOpen, Opening, Calm, Quiet, OpenSegment, ChooseVictim, disk,
       history

LEMMA ReserveIsCalm == TypeInv /\ StoreInv /\ Reserve => Calm
BY SameActive
   DEF TypeInv, TypeOK, WriterIsOpen, Opening, Calm, Quiet, OpenSegment, Reserve, Commit,
       Spend, local, history

LEMMA RefreshOnRotateIsCalm == TypeInv /\ StoreInv /\ RefreshOnRotate => Calm
BY SameActive
   DEF TypeInv, TypeOK, WriterIsOpen, Opening, Calm, Quiet, OpenSegment, RefreshOnRotate,
       Refresh, ManifestCommit, Commit, Spend, At, history

LEMMA RefreshOnOpenIsCalm == TypeInv /\ StoreInv /\ RefreshOnOpen => Calm
BY SameActive
   DEF TypeInv, TypeOK, WriterIsOpen, Opening, Calm, Quiet, OpenSegment, RefreshOnOpen,
       Refresh, ManifestCommit, Commit, Spend, At, history

LEMMA AdvanceIsCalm == TypeInv /\ StoreInv /\ Advance => Calm
BY SameActive
   DEF TypeInv, TypeOK, WriterIsOpen, Opening, Calm, Quiet, OpenSegment, Advance,
       ManifestCommit, Commit, Spend, At, history

LEMMA CreateReplacementIsCalm == TypeInv /\ StoreInv /\ CreateReplacement => Calm
BY SameActive
   DEF TypeInv, TypeOK, WriterIsOpen, Opening, Calm, Quiet, OpenSegment, CreateReplacement,
       CreateCommit, Commit, Spend, At, local, history

LEMMA UndoReplacementIsCalm == TypeInv /\ StoreInv /\ UndoReplacement => Calm
BY SameActive
   DEF TypeInv, TypeOK, WriterIsOpen, Opening, Calm, Quiet, OpenSegment, UndoReplacement,
       ManifestCommit, Commit, Spend, At, local, history

LEMMA CloseOldIsCalm == TypeInv /\ StoreInv /\ CloseOld => Calm
BY SameActive
   DEF TypeInv, TypeOK, WriterIsOpen, Opening, Calm, Quiet, OpenSegment, CloseOld,
       ManifestCommit, Commit, Spend, At, local, history

LEMMA RetryCheckpointIsCalm == TypeInv /\ StoreInv /\ RetryCheckpoint => Calm
BY SameActive
   DEF TypeInv, TypeOK, WriterIsOpen, Opening, Calm, Quiet, OpenSegment, RetryCheckpoint,
       ManifestCommit, Commit, Spend, At, disk, history

LEMMA ForgetSegmentIsCalm == TypeInv /\ StoreInv /\ ForgetSegment => Calm
BY SameActive
   DEF TypeInv, TypeOK, WriterIsOpen, Opening, Calm, Quiet, OpenSegment, ForgetSegment,
       ManifestCommit, Commit, Spend, At, local, history

LEMMA PrepareReplacementIsCalm == TypeInv /\ StoreInv /\ PrepareReplacement => Calm
<1> SUFFICES ASSUME TypeInv, StoreInv, PrepareReplacement PROVE Calm
  OBVIOUS
<1>1. /\ lastSegment \in SegmentId /\ active \in SegmentId /\ OpenSegment = active /\ active < lastSegment
  BY Constants DEF TypeInv, TypeOK, WriterIsOpen, Opening, RoomForSegment, OpenSegment,
       StoreInv, PlaceInv,
     ReplacementIsNew, PrepareReplacement, At
<1>2. file[lastSegment].rows = {}
  BY <1>1, Constants DEF StoreInv, IdInv, NewerAreEmpty
<1>3. UNCHANGED file \/ FileIs(lastSegment, "bare", {})
  BY DEF PrepareReplacement, Commit
<1>4. \A s \in SegmentId : file'[s].rows = file[s].rows
  <2>1. CASE FileIs(lastSegment, "bare", {})
    BY <1>1, <1>2, <2>1 DEF FileIs, TypeInv, TypeOK
  <2>2. QED
    BY <1>3, <2>1
<1>5. OpenSegment' \in {OpenSegment, lastSegment}
  BY <1>1, Constants DEF PrepareReplacement, local, OpenSegment
<1>6. UNCHANGED written /\ used'.damages = used.damages
  BY DEF PrepareReplacement, Commit, Spend, history, TypeInv
<1>7. QED
  BY <1>2, <1>4, <1>5, <1>6 DEF Calm, Quiet

LEMMA SwitchWriterIsCalm == TypeInv /\ StoreInv /\ SwitchWriter => Calm
<1> SUFFICES ASSUME TypeInv, StoreInv, SwitchWriter PROVE Calm
  OBVIOUS
<1>1. /\ lastSegment \in SegmentId /\ active \in SegmentId /\ OpenSegment = active /\ active < lastSegment
  BY Constants DEF TypeInv, TypeOK, WriterIsOpen, Opening, RoomForSegment, OpenSegment,
       StoreInv, PlaceInv,
     ReplacementIsNew, SwitchWriter, At
<1>2. file[lastSegment].rows = {}
  BY <1>1, Constants DEF StoreInv, IdInv, NewerAreEmpty
<1>3. UNCHANGED file \/ FileIs(lastSegment, "ok", {})
  BY DEF SwitchWriter, Commit
<1>4. \A s \in SegmentId : file'[s].rows = file[s].rows
  <2>1. CASE FileIs(lastSegment, "ok", {})
    BY <1>1, <1>2, <2>1 DEF FileIs, TypeInv, TypeOK
  <2>2. QED
    BY <1>3, <2>1
<1>5. OpenSegment' \in {OpenSegment, lastSegment}
  BY <1>1, Constants DEF SwitchWriter, local, OpenSegment
<1>6. UNCHANGED written /\ used'.damages = used.damages
  BY DEF SwitchWriter, Commit, Spend, history, TypeInv
<1>7. QED
  BY <1>2, <1>4, <1>5, <1>6 DEF Calm, Quiet

LEMMA ConnectActiveIsCalm == TypeInv /\ StoreInv /\ ConnectActive => Calm
BY SameActive, Constants, GetActiveIsNewest
   DEF TypeInv, TypeOK, WriterIsOpen, Opening, Calm, Quiet, OpenSegment, ConnectActive, FileIs,
       Spend, At, history

LEMMA CloseAfterErrorIsCalm == TypeInv /\ StoreInv /\ CloseAfterError => Calm
<1> SUFFICES ASSUME TypeInv, StoreInv, CloseAfterError PROVE Calm
  OBVIOUS
<1>1. active' = 0 /\ UNCHANGED <<segments, file, written>> /\ used'.damages = used.damages
  BY DEF CloseAfterError, ForgetProcess, disk, history, TypeInv
<1>2. OpenSegment' = GetActive
  BY <1>1, SameActive DEF OpenSegment
<1>3. active # 0 => active \in Nat /\ GetActive \in SegmentId /\ active <= GetActive
  BY GetActiveIsNewest, Constants DEF NewestRow, TypeInv, TypeOK, StoreInv, IdInv, WriterIsActive
<1>4. GetActive # OpenSegment => file[GetActive].rows = {}
  <2>1. CASE active = 0
    BY <2>1 DEF OpenSegment
  <2>2. CASE active # 0
    <3>1. OpenSegment = active
      BY <2>2 DEF OpenSegment
    <3>2. active \in Nat /\ GetActive \in Nat /\ GetActive \in SegmentId /\ active <= GetActive
      BY <1>3, <2>2, Constants
    <3>3. GetActive # active => GetActive > active
      BY <3>2
    <3>4. QED
      BY <2>2, <3>1, <3>2, <3>3 DEF StoreInv, IdInv, NewerAreEmpty
  <2>3. QED
    BY <2>1, <2>2
<1>5. QED
  BY <1>1, <1>2, <1>4 DEF Calm, Quiet

LEMMA CrashIsCalm == TypeInv /\ StoreInv /\ Crash => Calm
<1> SUFFICES ASSUME TypeInv, StoreInv, Crash PROVE Calm
  OBVIOUS
<1>1. active' = 0 /\ UNCHANGED <<segments, file, written>> /\ used'.damages = used.damages
  BY DEF Crash, ForgetProcess, Spend, disk, history, TypeInv
<1>2. OpenSegment' = GetActive
  BY <1>1, SameActive DEF OpenSegment
<1>3. active # 0 => active \in Nat /\ GetActive \in SegmentId /\ active <= GetActive
  BY GetActiveIsNewest, Constants DEF NewestRow, TypeInv, TypeOK, StoreInv, IdInv, WriterIsActive
<1>4. GetActive # OpenSegment => file[GetActive].rows = {}
  <2>1. CASE active = 0
    BY <2>1 DEF OpenSegment
  <2>2. CASE active # 0
    <3>1. OpenSegment = active
      BY <2>2 DEF OpenSegment
    <3>2. active \in Nat /\ GetActive \in Nat /\ GetActive \in SegmentId /\ active <= GetActive
      BY <1>3, <2>2, Constants
    <3>3. GetActive # active => GetActive > active
      BY <3>2
    <3>4. QED
      BY <2>2, <3>1, <3>2, <3>3 DEF StoreInv, IdInv, NewerAreEmpty
  <2>3. QED
    BY <2>1, <2>2
<1>5. QED
  BY <1>1, <1>2, <1>4 DEF Calm, Quiet

LEMMA PickActiveIsCalm == TypeInv /\ StoreInv /\ PickActive => Calm
<1> SUFFICES ASSUME TypeInv, StoreInv, PickActive PROVE Calm
  OBVIOUS
<1>1. /\ active = 0 /\ active' = 0 /\ UNCHANGED <<file, written>> /\ used'.damages = used.damages
      /\ pc \in {"pick", "probe"}
  BY DEF PickActive, Quarantine, ManifestCommit, Commit, Spend, At, disk, local, history,
       TypeInv, WriterIsOpen, Opening
<1>2. Moved(GetActive, "quarantined")
  BY SetStatusMoves DEF TypeInv, TypeOK, PickActive, Quarantine, ManifestCommit, Commit, disk
<1>3. GetActive' \in {GetActive, 0}
  BY <1>1, <1>2, GetActiveIsNewest, GetActiveStaysNewest
     DEF NewestRow, Moved, StoreInv, PlaceInv, OneActive
<1>4. QED
  BY <1>1, <1>3 DEF Calm, Quiet, OpenSegment

LEMMA ProbeActiveIsCalm == TypeInv /\ StoreInv /\ ProbeActive => Calm
<1> SUFFICES ASSUME TypeInv, StoreInv, ProbeActive PROVE Calm
  OBVIOUS
<1>1. /\ active = 0 /\ active' = 0 /\ UNCHANGED <<file, written>> /\ used'.damages = used.damages
      /\ pc \in {"pick", "probe"}
  BY DEF ProbeActive, Quarantine, ManifestCommit, Commit, Spend, At, disk, local, history,
       TypeInv, WriterIsOpen, Opening
<1>2. Moved(GetActive, "quarantined")
  BY SetStatusMoves DEF TypeInv, TypeOK, ProbeActive, Quarantine, ManifestCommit, Commit, disk
<1>3. GetActive' \in {GetActive, 0}
  BY <1>1, <1>2, GetActiveIsNewest, GetActiveStaysNewest
     DEF NewestRow, Moved, StoreInv, PlaceInv, OneActive
<1>4. QED
  BY <1>1, <1>3 DEF Calm, Quiet, OpenSegment

LEMMA ReconcileActiveIsCalm == TypeInv /\ StoreInv /\ ReconcileActive => Calm
<1> SUFFICES ASSUME TypeInv, StoreInv, ReconcileActive PROVE Calm
  OBVIOUS
<1> DEFINE stale == With("active") \ {GetActive}
           s == Min(stale)
<1>1. /\ active = 0 /\ active' = 0 /\ UNCHANGED <<file, written>> /\ used'.damages = used.damages
  BY DEF ReconcileActive, ManifestCommit, Commit, Spend, At, disk, local, history, TypeInv,
       WriterIsOpen,
     Opening
<1>2. UNCHANGED segments \/ s # GetActive
  <2>1. stale \subseteq Nat
    BY Constants DEF With
  <2>2. stale # {} => s \in stale
    BY <2>1, MinIsMember
  <2>3. QED
    BY <2>2 DEF ReconcileActive, disk
<1>3. Moved(s, "closed")
  BY SetStatusMoves DEF TypeInv, TypeOK, ReconcileActive, ManifestCommit, Commit, disk
<1> HIDE DEF stale, s
<1>4. GetActive' = GetActive
  <2>1. CASE UNCHANGED segments
    BY <2>1, SameActive
  <2>2. CASE s # GetActive
    BY <1>3, <2>2, GetActiveIsNewest, GetActiveStaysNewest, Constants DEF NewestRow, Moved
  <2>3. QED
    BY <1>2, <2>1, <2>2
<1>5. QED
  BY <1>1, <1>4 DEF Calm, Quiet, OpenSegment

LEMMA CreateActiveIsCalm == TypeInv /\ StoreInv /\ CreateActive => Calm
<1> SUFFICES ASSUME TypeInv, StoreInv, CreateActive PROVE Calm
  OBVIOUS
<1>1. /\ active = 0 /\ active' = 0 /\ UNCHANGED <<file, written>> /\ used'.damages = used.damages
      /\ pc = "create"
  BY DEF CreateActive, CreateCommit, Commit, Spend, At, local, history, TypeInv, WriterIsOpen,
       Opening
<1>2. \A s \in SegmentId : segments'[s].status = "active" => s = lastSegment + 1
  BY <1>1 DEF CreateActive, CreateCommit, Commit, CreateRow, StoreInv, PlaceInv, OneActive,
       TypeInv, TypeOK
<1>3. lastSegment + 1 \in SegmentId => file[lastSegment + 1].rows = {}
  <2>1. lastSegment \in Nat /\ lastSegment + 1 > lastSegment
    BY Constants DEF TypeInv, TypeOK
  <2>2. QED
    BY <2>1 DEF StoreInv, IdInv, UnusedIds, RowInv, RowsAreListed
<1>4. OpenSegment' = GetActive'
  BY <1>1 DEF OpenSegment
<1>5. GetActive' # 0 => file[GetActive'].rows = {}
  BY <1>2, <1>3, GetActiveStaysNewest DEF NewestRow
<1>6. QED
  BY <1>1, <1>4, <1>5 DEF Calm, Quiet

(* The store starts as an empty log.                                       *)
LEMMA LogInit == Init => Log!Init
<1> SUFFICES ASSUME Init PROVE Log!Init
  OBVIOUS
<1>1. TypeInv /\ StoreInv
  BY InitType, InitStore
<1>2. OpenSegment = 0
  <2>1. GetActive = 0
    BY GetActiveIsNewest DEF NewestRow, Init
  <2>2. QED
    BY <2>1 DEF OpenSegment, Init
<1>3. OpenBlock = {}
  BY <1>2 DEF OpenBlock
<1>4. SealedBlocks = {}
  BY <1>1, BlocksAreRows DEF RowBlocks, Init
<1>5. QED
  BY <1>3, <1>4 DEF Log!Init, LastWritten, Init

LEMMA StepIsCalm ==
    ASSUME MaxReads = 0, TypeInv, StoreInv, [Next]_vars
    PROVE  \/ Calm \/ Insert \/ Unlink
           \/ \E s \in SegmentId, state \in {"absent", "bare", "corrupt"} : Damage(s, state)
<1>1. CASE OpenStore
  BY <1>1, OpenStoreIsCalm
<1>2. CASE ReconcileActive
  BY <1>2, ReconcileActiveIsCalm
<1>3. CASE PickActive
  BY <1>3, PickActiveIsCalm
<1>4. CASE ProbeActive
  BY <1>4, ProbeActiveIsCalm
<1>5. CASE CreateActive
  BY <1>5, CreateActiveIsCalm
<1>6. CASE ConnectActive
  BY <1>6, ConnectActiveIsCalm
<1>7. CASE CloseAfterError
  BY <1>7, CloseAfterErrorIsCalm
<1>8. CASE Reserve
  BY <1>8, ReserveIsCalm
<1>9. CASE Advance
  BY <1>9, AdvanceIsCalm
<1>10. CASE Due
  BY <1>10, DueIsCalm
<1>11. CASE CreateReplacement
  BY <1>11, CreateReplacementIsCalm
<1>12. CASE PrepareReplacement
  BY <1>12, PrepareReplacementIsCalm
<1>13. CASE SwitchWriter
  BY <1>13, SwitchWriterIsCalm
<1>14. CASE UndoReplacement
  BY <1>14, UndoReplacementIsCalm
<1>15. CASE CheckpointOld
  BY <1>15, CheckpointOldIsCalm
<1>16. CASE CloseOld
  BY <1>16, CloseOldIsCalm
<1>17. CASE BeginRetention
  BY <1>17, BeginRetentionIsCalm
<1>18. CASE RetryCheckpoint
  BY <1>18, RetryCheckpointIsCalm
<1>19. CASE ChooseVictim
  BY <1>19, ChooseVictimIsCalm
<1>20. CASE FinishPass
  BY <1>20, FinishPassIsCalm
<1>21. CASE ForgetSegment
  BY <1>21, ForgetSegmentIsCalm
<1>22. CASE Record
  BY <1>22, RecordIsCalm
<1>23. CASE Reconfigure
  BY <1>23, ReconfigureIsCalm
<1>24. CASE Crash
  BY <1>24, CrashIsCalm
<1>25. CASE RefreshOnOpen
  BY <1>25, RefreshOnOpenIsCalm
<1>26. CASE RefreshOnRotate
  BY <1>26, RefreshOnRotateIsCalm
<1>27. CASE UNCHANGED vars
  <2>1. UNCHANGED <<segments, file, active, written, used>>
    BY <1>27 DEF vars, disk, local, history
  <2>2. QED
    BY <2>1, SameActive DEF Calm, Quiet, OpenSegment
<1>28. QED
  BY NoQuery, <1>1, <1>2, <1>3, <1>4, <1>5, <1>6, <1>7, <1>8, <1>9, <1>10, <1>11, <1>12, <1>13,
     <1>14, <1>15, <1>16, <1>17, <1>18, <1>19, <1>20, <1>21, <1>22, <1>23, <1>24, <1>25, <1>26,
     <1>27
     DEF Next, Open, Append, Rotate, Retention, Environment

(* Every step of the store is a step of the log, or none.                  *)
LEMMA LogStep ==
    ASSUME MaxReads = 0, TypeInv, StoreInv, [Next]_vars
    PROVE  [Log!Next]_(Log!vars)
<1>1. TypeInv' /\ StoreInv'
  BY TypeStep, StoreStep
<1>2. CASE Calm
  BY <1>1, <1>2, CalmSteps DEF Log!Next
<1>3. CASE Insert
  <2>1. lastId \in Event
    BY <1>3 DEF Insert, At, TypeInv, TypeOK, RoomForEvent
  <2>2. QED
    BY <1>1, <1>3, <2>1, InsertRecords DEF Log!Next
<1>4. CASE Unlink
  BY <1>1, <1>4, UnlinkDrops DEF Log!Next
<1>5. CASE \E s \in SegmentId, state \in {"absent", "bare", "corrupt"} : Damage(s, state)
  BY <1>1, <1>5, DamageLoses DEF Log!Next
<1>6. QED
  BY <1>2, <1>3, <1>4, <1>5, StepIsCalm

(* The store implements the log of RetainedLog: whatever fails or crashes,  *)
(* it adds events to the open block in the order of their ids, seals it,    *)
(* and gives up whole sealed blocks, never the open one or part of a block. *)
THEOREM Refines == MaxReads = 0 => (Spec => ImplementsRetainedLog)
<1> SUFFICES ASSUME MaxReads = 0 PROVE Spec => ImplementsRetainedLog
  OBVIOUS
<1>1. Init => Log!Init
  BY LogInit
<1>2. TypeInv /\ StoreInv /\ [Next]_vars => [Log!Next]_(Log!vars)
  BY LogStep
<1>3. QED
  BY <1>1, <1>2, StoreCorrect, PTL DEF Spec, ImplementsRetainedLog, Log!Spec

=============================================================================
