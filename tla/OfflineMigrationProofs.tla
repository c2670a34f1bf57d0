------------------------ MODULE OfflineMigrationProofs ------------------------
(* No history is lost by the offline migration, none is delivered twice,   *)
(* the assistant is not closed while a source is left, and retention takes *)
(* only what a decision has released, for any number of sources, chunks,   *)
(* requests and crashes.                                                   *)
EXTENDS OfflineMigration, WellFoundedInduction, TLAPS

-----------------------------------------------------------------------------
(* The control flow.                                                       *)

MainPlace == {"down", "attach", "discards", "complete", "orphans", "protect", "retain", "unlink", "forget", "failed",
              "repair", "persistRepair", "acknowledge", "finalize", "idle"}
JobPlace == {"none", "discards", "complete", "orphans", "stale", "plan", "sample", "fillSample", "dropSample",
             "cutoff", "copy", "fill", "unlinkSource", "commit", "retain", "book", "lockDecision", "repair",
             "persistRepair", "acknowledge", "persistMigrated", "failed", "end"}
ApiPlace == {"none", "wait", "poll", "repair", "persistRepair", "acknowledge", "finalize", "start", "prepare",
             "decide", "persistPending", "persistSkipped", "persistKeep", "persistMigrated", "persistDiscarded",
             "protectOn", "protectOff", "lockDiscard", "leftover", "copies", "mark", "finishDiscard", "discarded",
             "end"}
Place == MainPlace \union JobPlace \union ApiPlace

(* What main does once requests are served, and what a request may do      *)
(* beside a job.                                                           *)
Retaining == {"retain", "unlink", "forget"}
Serving == Retaining \union {"idle", "failed"}
BesideJob == {"none", "wait", "poll", "persistPending", "repair", "persistRepair", "acknowledge", "finalize",
              "start", "decide", "end"}
DiscardLocked == {"leftover", "copies", "mark", "finishDiscard", "discarded"}

(* A job runs only in a started process, and no decision beside it.  It    *)
(* takes no part in retention while the sources are protected, which they  *)
(* are until its bookkeeping, and after it if one is left.                 *)
Places ==
    /\ pc["main"] \in MainPlace /\ pc["job"] \in JobPlace /\ pc["api"] \in ApiPlace
    /\ booted => pc["main"] \in Serving
    /\ ~booted => pc["job"] = "none" /\ pc["api"] = "none"
    /\ pc["job"] # "none" => pc["api"] \in BesideJob
    /\ pc["api"] = "decide" => request \in {"skip", "keep", "discard"}

Locked ==
    /\ booted /\ pc["main"] \in Retaining \union {"failed"} => writeLock = "main"
    /\ pc["job"] \in {"unlinkSource", "commit"} => writeLock = "job"
    /\ pc["api"] \in DiscardLocked => writeLock = "api"

Booking == {"lockDecision", "repair", "persistRepair", "acknowledge", "persistMigrated", "end"}
Guarded ==
    /\ pc["job"] \in JobPlace \ ({"none"} \union Booking) \/ pc["api"] = "prepare" => protected
    /\ pc["job"] \in Booking => protected \/ Attached = {}

Job_ == [source : Source \union {0}, chunks : SUBSET Chunk, prev : BOOLEAN, unlinked : BOOLEAN]
Status == {"none", "legacy", "quarantined", "discarding"}

Types ==
    /\ legacy \in [Source -> Status]
    /\ migrating \subseteq Copy /\ closed \subseteq Copy /\ filled \subseteq Copy /\ surrendered \subseteq Copy
    /\ committed \in BOOLEAN /\ repair \in BOOLEAN /\ booted \in BOOLEAN /\ protected \in BOOLEAN
    /\ keepSource \in Source \union {0} /\ legacyFile \subseteq Source
    /\ decision \in Decision /\ request \in Kind
    /\ job \in Job_
    /\ decisionLock \in Actor \union {"free"} /\ writeLock \in Actor \union {"free"}
    /\ victim \in [Actor -> Source \union {0}]
    /\ pc \in [Actor -> Place]
    /\ used \in [{"requests", "crashes", "faults"} -> Nat]

(* A job that copies knows its source, and copies while a chunk is left.   *)
Copying == {"sample", "fillSample", "dropSample", "cutoff", "copy", "fill", "unlinkSource", "commit"}
HasSource ==
    /\ pc["job"] \in Copying => job.source \in Source
    /\ pc["job"] = "fill" => Left # {}

Flow == Types /\ Places /\ Locked /\ Guarded /\ HasSource

-----------------------------------------------------------------------------
(* Helpers.                                                                *)

LEMMA MinIsMember ==
    ASSUME NEW S, S \subseteq Nat, S # {}
    PROVE  Min(S) \in S
<1>1. PICK x \in S : \A y \in S : <<y, x>> \notin OpToRel(<, Nat)
  BY WFMin, NatLessThanWellFounded, Zenon
<1>2. \A y \in S : y \in Nat /\ x \in Nat
  OBVIOUS
<1>3. \A y \in S : ~(y < x)
  BY <1>1, <1>2, Zenon DEF OpToRel
<1>4. \A y \in S : x =< y
  BY <1>2, <1>3, SMT
<1>5. QED
  BY <1>4, Zenon DEF Min

LEMMA SourceMin ==
    ASSUME NEW S \in SUBSET Source, S # {}
    PROVE  Min(S) \in S /\ Min(S) \in Source
BY SourceAssumption, MinIsMember

LEMMA NextIsLeft ==
    ASSUME Types, Left # {}
    PROVE  NextCopy \in Left /\ \E c \in Chunk : NextCopy = <<job.source, c>> /\ c \in job.chunks
<1> DEFINE C == {k[2] : k \in Left}
<1>1. job.chunks \subseteq Chunk
  BY DEF Types, Job_
<1>2. C # {} /\ C \subseteq job.chunks /\ \A c \in C : <<job.source, c>> \in Left
  BY DEF Left
<1>3. C \subseteq Nat
  BY <1>1, <1>2 DEF Chunk
<1>4. Min(C) \in C
  BY <1>2, <1>3, MinIsMember
<1>5. QED
  BY <1>1, <1>2, <1>4 DEF NextCopy

(* A step from one place to another.                                       *)
LEMMA PcAfter ==
    ASSUME Types, NEW a \in Actor, NEW place, Goto(a, place)
    PROVE  /\ pc'[a] = place
           /\ \A b \in Actor : b # a => pc'[b] = pc[b]
           /\ place \in Place => pc' \in [Actor -> Place]
BY DEF Types, Goto

(* What a discard of copies changes: files, then rows whose file is gone.  *)
LEMMA DiscardCopiesDoes ==
    ASSUME Types, NEW a \in Actor, NEW S, NEW place, NEW next, NEW kept, NEW raised,
           DiscardCopies(a, S, place, next, kept, raised)
    PROVE  /\ pc[a] = place /\ pc'[a] \in {place, next, kept, raised}
           /\ pc'[a] = next /\ next \notin {place, kept, raised} => S = {}
           /\ \A b \in Actor : b # a => pc'[b] = pc[b]
           /\ {place, next, kept, raised} \subseteq Place => pc' \in [Actor -> Place]
           /\ used' \in [{"requests", "crashes", "faults"} -> Nat]
           /\ filled' \subseteq filled /\ filled \ filled' \subseteq S
           /\ migrating' \subseteq migrating /\ migrating \ migrating' \subseteq S \ filled'
           /\ UNCHANGED <<legacy, closed, committed, keepSource, repair, legacyFile, decision, protected, booted, job,
                          request, victim, decisionLock, writeLock, surrendered>>
<1> USE DEF At, Goto, Spend, Do
<1>1. pc \in [Actor -> Place] /\ used \in [{"requests", "crashes", "faults"} -> Nat]
  BY DEF Types
<1>2. /\ pc[a] = place
      /\ UNCHANGED <<legacy, closed, committed, keepSource, repair, legacyFile, decision, protected, booted, job,
                     request, victim, decisionLock, writeLock, surrendered>>
  BY DEF DiscardCopies, rest, locks
<1>3. used' \in [{"requests", "crashes", "faults"} -> Nat]
  BY <1>1 DEF DiscardCopies
<1>4. PICK to \in {place, next, kept, raised} : pc' = [pc EXCEPT ![a] = to] /\ (to = next => S = {} \/ next \in {place, kept, raised})
  BY DEF DiscardCopies
<1>5. /\ filled' \subseteq filled /\ filled \ filled' \subseteq S
      /\ migrating' \subseteq migrating /\ migrating \ migrating' \subseteq S \ filled'
  BY DEF DiscardCopies
<1>6. QED
  BY <1>1, <1>2, <1>3, <1>4, <1>5

(* What finishing a discard changes: files, then rows, of marked sources.  *)
LEMMA FinishDiscardDoes ==
    ASSUME Types, NEW a \in Actor, NEW place, NEW next, NEW raised,
           FinishDiscard(a, place, next, raised)
    PROVE  /\ pc[a] = place /\ pc'[a] \in {place, next, raised}
           /\ \A b \in Actor : b # a => pc'[b] = pc[b]
           /\ {place, next, raised} \subseteq Place => pc' \in [Actor -> Place]
           /\ used' \in [{"requests", "crashes", "faults"} -> Nat]
           /\ legacyFile' \subseteq legacyFile
           /\ \A s \in legacyFile \ legacyFile' : legacy[s] = "discarding"
           /\ legacy' \in [Source -> Status]
           /\ \A s \in Source : \/ legacy'[s] = legacy[s]
                                \/ legacy[s] = "discarding" /\ legacy'[s] = "none" /\ s \notin legacyFile
           /\ UNCHANGED <<migrating, closed, committed, keepSource, repair, filled, decision, protected, booted, job,
                          request, victim, decisionLock, writeLock, surrendered>>
<1> USE DEF At, Goto, Spend, Do, SetLegacy
<1>1. pc \in [Actor -> Place] /\ used \in [{"requests", "crashes", "faults"} -> Nat] /\ legacy \in [Source -> Status]
      /\ legacyFile \subseteq Source
  BY DEF Types
<1>2. /\ pc[a] = place
      /\ UNCHANGED <<migrating, closed, committed, keepSource, repair, filled, decision, protected, booted, job,
                     request, victim, decisionLock, writeLock, surrendered>>
  BY DEF FinishDiscard, rest, locks
<1>3. used' \in [{"requests", "crashes", "faults"} -> Nat]
  BY <1>1 DEF FinishDiscard
<1>4. PICK to \in {place, next, raised} : pc' = [pc EXCEPT ![a] = to]
  BY DEF FinishDiscard
<1>5. legacyFile' \subseteq legacyFile /\ \A s \in legacyFile \ legacyFile' : legacy[s] = "discarding"
  BY DEF FinishDiscard, Discarding
<1>6. /\ legacy' \in [Source -> Status]
      /\ \A s \in Source : \/ legacy'[s] = legacy[s]
                           \/ legacy[s] = "discarding" /\ legacy'[s] = "none" /\ s \notin legacyFile
  BY <1>1 DEF FinishDiscard, Discarding, Status
<1>7. QED
  BY <1>1, <1>2, <1>3, <1>4, <1>5, <1>6

(* A commit of the decision.                                               *)
LEMMA DecisionCommitDoes ==
    ASSUME Types, NEW a \in Actor, NEW value \in Decision, NEW next, NEW raised,
           DecisionCommit(a, value, next, raised)
    PROVE  /\ pc'[a] \in {next, raised} /\ (pc'[a] = next /\ next # raised => decision' = value)
           /\ \A b \in Actor : b # a => pc'[b] = pc[b]
           /\ {next, raised} \subseteq Place => pc' \in [Actor -> Place]
           /\ used' \in [{"requests", "crashes", "faults"} -> Nat]
           /\ decision' \in {decision, value}
           /\ UNCHANGED <<legacy, migrating, closed, committed, keepSource, repair, legacyFile, filled, booted, job,
                          request, victim, decisionLock, writeLock, surrendered>>
<1> USE DEF Goto, Spend, Do
<1>1. pc \in [Actor -> Place] /\ used \in [{"requests", "crashes", "faults"} -> Nat]
  BY DEF Types
<1>2. used' \in [{"requests", "crashes", "faults"} -> Nat]
  BY <1>1 DEF DecisionCommit
<1>3. QED
  BY <1>1, <1>2 DEF DecisionCommit, manifest, files, rest, locks

(* A promotion detaches the sources and closes their copies.               *)
LEMMA PromoteDoes ==
    ASSUME Types, NEW S \in SUBSET Source, NEW unscoped \in BOOLEAN, Promote(S, unscoped)
    PROVE  /\ legacy' \in [Source -> Status]
           /\ \A s \in Source : legacy'[s] = IF s \in S THEN "none" ELSE legacy[s]
           /\ migrating' \subseteq migrating /\ closed \subseteq closed'
           /\ migrating \union closed = migrating' \union closed'
           /\ closed' \ closed \subseteq migrating \ migrating'
           /\ \A k \in Copy : k \in closed' \ closed => k[2] = 0 \/ k[1] \in S
           /\ \A k \in Copy : k \in migrating /\ k[1] \in S /\ k[2] # 0 => k \in closed'
           /\ committed' \in BOOLEAN /\ repair' \in BOOLEAN /\ keepSource' = 0
<1>1. legacy \in [Source -> Status] /\ migrating \subseteq Copy /\ repair \in BOOLEAN
  BY DEF Types
<1>2. legacy' \in [Source -> Status] /\ \A s \in Source : legacy'[s] = IF s \in S THEN "none" ELSE legacy[s]
  BY <1>1 DEF Promote, Status
<1>3. committed' \in BOOLEAN /\ repair' \in BOOLEAN /\ keepSource' = 0
  BY <1>1 DEF Promote
<1>4. closed' = closed \union Promoted(S, unscoped) /\ migrating' = migrating \ Promoted(S, unscoped)
  BY DEF Promote
<1>5. Promoted(S, unscoped) \subseteq migrating
  BY DEF Promoted
<1>6. \A k \in Promoted(S, unscoped) : k[2] = 0 \/ k[1] \in S
  BY DEF Promoted
<1>7. \A k \in migrating : k[1] \in S /\ k[2] # 0 => k \in Promoted(S, unscoped)
  BY DEF Promoted
<1>8. QED
  BY <1>1, <1>2, <1>3, <1>4, <1>5, <1>6, <1>7

LEMMA CompleteCommitDoes ==
    ASSUME Types, NEW a \in Actor, CompleteCommit(a)
    PROVE  /\ pc[a] = "complete"
           /\ \/ pc' = [pc EXCEPT ![a] = AfterCompletion(a)] /\ Promote(Missing, TRUE)
              \/ pc' = [pc EXCEPT ![a] = "failed"] /\ UNCHANGED manifest
              \/ pc' = [pc EXCEPT ![a] = "orphans"] /\ Missing = {} /\ UNCHANGED manifest
           /\ used' \in [{"requests", "crashes", "faults"} -> Nat]
           /\ UNCHANGED <<legacyFile, filled, decision, protected, booted, job, request, victim, decisionLock,
                          writeLock, surrendered>>
<1> USE DEF Spend, Do, Goto
<1>1. used \in [{"requests", "crashes", "faults"} -> Nat]
  BY DEF Types
<1>2. used' \in [{"requests", "crashes", "faults"} -> Nat]
  <2>1. used' = used \/ used' = [used EXCEPT !["faults"] = used["faults"] + 1]
    BY Zenon DEF CompleteCommit
  <2>2. QED
    BY <1>1, <2>1
<1>3. pc[a] = "complete"
  BY DEF CompleteCommit, At
<1>4. \/ pc' = [pc EXCEPT ![a] = AfterCompletion(a)] /\ Promote(Missing, TRUE)
      \/ pc' = [pc EXCEPT ![a] = "failed"] /\ UNCHANGED manifest
      \/ pc' = [pc EXCEPT ![a] = "orphans"] /\ Missing = {} /\ UNCHANGED manifest
  BY DEF CompleteCommit
<1>5. QED
  BY <1>2, <1>3, <1>4 DEF CompleteCommit, files, rest, locks

-----------------------------------------------------------------------------
(* The places.                                                             *)

LEMMA MainPlaces ==
    ASSUME Flow, Main
    PROVE  Places'
<1> USE DEF At, Goto, Spend, Do, SetLegacy
<1>1. pc \in [Actor -> Place] /\ Actor = {"main", "job", "api"} /\ Types
  BY DEF Flow, Types, Actor
<1>2. CASE Start \/ Attach \/ ProtectForRepair
  BY <1>1, <1>2 DEF Start, Attach, ProtectForRepair, Flow, Places, MainPlace, Serving, Retaining, rest
<1>3. CASE ReconcileDiscards("main")
  <2>1. /\ pc["main"] = "discards" /\ pc'["main"] \in {"discards", "complete"}
        /\ UNCHANGED <<booted, request>> /\ pc'["api"] = pc["api"] /\ pc'["job"] = pc["job"]
    BY <1>1, <1>3, FinishDiscardDoes DEF ReconcileDiscards
  <2>2. QED
    BY <2>1 DEF Flow, Places, MainPlace, Serving, Retaining
<1>4. CASE CompleteCommit("main")
  <2>1. /\ pc["main"] = "complete" /\ pc'["main"] \in {"protect", "failed", "orphans"}
        /\ UNCHANGED <<booted, request>> /\ pc'["api"] = pc["api"] /\ pc'["job"] = pc["job"]
    BY <1>1, <1>4, CompleteCommitDoes DEF AfterCompletion
  <2>2. QED
    BY <2>1 DEF Flow, Places, MainPlace, Serving, Retaining
<1>5. CASE DiscardOrphans("main")
  <2>1. /\ pc["main"] = "orphans" /\ pc'["main"] \in {"orphans", "protect", "failed"}
        /\ UNCHANGED <<booted, request>> /\ pc'["api"] = pc["api"] /\ pc'["job"] = pc["job"]
    BY <1>1, <1>5, DiscardCopiesDoes DEF DiscardOrphans, AfterReconcile
  <2>2. QED
    BY <2>1 DEF Flow, Places, MainPlace, Serving, Retaining
<1>6. CASE Retention("main") \/ RetentionFails
  BY <1>1, <1>6 DEF Retention, EndRetention, AfterRetention, ChooseSource, UnlinkVictim, ForgetVictim, TrimCopy,
       RetentionFails, Flow, Places, MainPlace, Serving, Retaining, rest
<1>7. CASE Repairs("main") \/ Finalize("main") \/ Booted
  BY <1>1, <1>7 DEF Repairs, Repair, AfterRepair, Raised, PersistRepair, DecisionCommit, Acknowledge, Finalize, Booted,
       Flow, Places, MainPlace, Serving, Retaining, rest
<1>8. CASE StartFails
  BY <1>1, <1>8 DEF StartFails, Forget, Flow, Places, MainPlace, JobPlace, ApiPlace, BesideJob
<1>9. QED
  BY <1>2, <1>3, <1>4, <1>5, <1>6, <1>7, <1>8 DEF Main, Reconcile

LEMMA JobPlaces ==
    ASSUME Flow, Job
    PROVE  Places'
<1> USE DEF At, Goto, Spend, Do, SetLegacy
<1>1. pc \in [Actor -> Place] /\ Actor = {"main", "job", "api"} /\ Types
  BY DEF Flow, Types, Actor
<1>2. SUFFICES /\ pc["job"] # "none" /\ pc'["job"] \in JobPlace
               /\ UNCHANGED <<booted, request>> /\ pc'["api"] = pc["api"] /\ pc'["main"] = pc["main"]
  BY <1>1 DEF Flow, Places
<1>3. CASE ReconcileDiscards("job")
  BY <1>1, <1>3, FinishDiscardDoes DEF ReconcileDiscards, JobPlace
<1>4. CASE CompleteCommit("job")
  BY <1>1, <1>4, CompleteCommitDoes DEF AfterCompletion, JobPlace
<1>5. CASE DiscardOrphans("job")
  BY <1>1, <1>5, DiscardCopiesDoes DEF DiscardOrphans, AfterReconcile, JobPlace
<1>6. CASE DiscardStale
  BY <1>1, <1>6, DiscardCopiesDoes DEF DiscardStale, JobPlace
<1>7. CASE DropSample
  BY <1>1, <1>7, DiscardCopiesDoes DEF DropSample, JobPlace
<1>8. CASE Plan \/ CreateSample \/ FillSample \/ Cutoff \/ SourceGone \/ CopyRows
  BY <1>1, <1>8 DEF Plan, CreateSample, CreateCopy, FillSample, FillCopy, Cutoff, SourceGone, CopyRows, rest, JobPlace
<1>9. CASE LockForCommit \/ UnlinkSource \/ CommitMigration
  BY <1>1, <1>9 DEF LockForCommit, UnlinkSource, CommitMigration, rest, JobPlace
<1>10. CASE Retention("job")
  <2>1. ~ChooseSource("job")
    BY DEF ChooseSource, Flow, Guarded, Released, JobPlace, Booking
  <2>2. ~UnlinkVictim("job") /\ ~ForgetVictim("job")
    BY DEF UnlinkVictim, ForgetVictim, Flow, Places, JobPlace
  <2>3. QED
    BY <1>1, <1>10, <2>1, <2>2 DEF Retention, EndRetention, AfterRetention, TrimCopy, rest, JobPlace
<1>11. CASE Bookkeeping \/ LockDecision \/ PersistMigrated \/ JobFails \/ JobEnds
  BY <1>1, <1>11 DEF Bookkeeping, LockDecision, PersistMigrated, DecisionCommit, JobFails, JobEnds, rest, JobPlace
<1>12. CASE Repairs("job")
  BY <1>1, <1>12 DEF Repairs, Repair, AfterRepair, Raised, PersistRepair, DecisionCommit, Acknowledge, rest, JobPlace
<1>13. QED
  BY <1>3, <1>4, <1>5, <1>6, <1>7, <1>8, <1>9, <1>10, <1>11, <1>12 DEF Job, Reconcile

LEMMA ApiPlaces ==
    ASSUME Flow, Api
    PROVE  Places'
<1> USE DEF At, Goto, Spend, Do, SetLegacy
<1>1. pc \in [Actor -> Place] /\ Actor = {"main", "job", "api"} /\ Types /\ request \in Kind
      /\ (pc["api"] = "decide" => request \in {"skip", "keep", "discard"})
      /\ (pc["job"] # "none" => pc["api"] \in BesideJob)
  BY DEF Flow, Types, Actor, Places
<1>2. CASE PrepareMigration
  <2>1. booted
    BY <1>2 DEF PrepareMigration, Flow, Places
  <2>2. pc["job"] = "none"
    BY <1>2 DEF PrepareMigration, Flow, Places, BesideJob
  <2>3. QED
    BY <1>1, <1>2, <2>1, <2>2 DEF PrepareMigration, Flow, Places, BesideJob, JobPlace, ApiPlace
<1>3. ASSUME /\ pc["api"] # "none" /\ pc'["api"] \in ApiPlace
             /\ pc["job"] # "none" => pc'["api"] \in BesideJob
             /\ pc'["api"] = "decide" => request \in {"skip", "keep", "discard"}
             /\ UNCHANGED <<booted, request>> /\ pc'["job"] = pc["job"] /\ pc'["main"] = pc["main"]
      PROVE  Places'
  BY <1>1, <1>3 DEF Flow, Places
<1>4. CASE EnterRequest \/ Poll \/ Finalize("api")
  BY <1>1, <1>3, <1>4 DEF EnterRequest, Poll, Finalize, Raised, DecisionCommit, rest, ApiPlace, BesideJob
<1>5. CASE Repairs("api")
  BY <1>1, <1>3, <1>5 DEF Repairs, Repair, AfterRepair, Raised, PersistRepair, DecisionCommit, Acknowledge, rest,
       ApiPlace, BesideJob, Kind
<1>6. CASE Decide
  <2>1. pc["job"] # "none" => Refused
    BY DEF Refused
  <2>2. pc'["api"] \in {"end", "persistSkipped", "lockDiscard", "persistMigrated", "persistKeep"}
        /\ (Refused => pc'["api"] = "end")
    <3>1. CASE Refused
      BY <1>1, <1>6, <3>1 DEF Decide
    <3>2. CASE ~Refused /\ request = "skip"
      BY <1>1, <1>6, <3>2 DEF Decide
    <3>3. CASE ~Refused /\ request = "discard"
      BY <1>1, <1>6, <3>3 DEF Decide
    <3>4. CASE ~Refused /\ request = "keep"
      BY <1>1, <1>6, <3>4 DEF Decide
    <3>5. request \in {"skip", "keep", "discard"}
      BY <1>1, <1>6 DEF Decide
    <3>6. QED
      BY <3>1, <3>2, <3>3, <3>4, <3>5
  <2>3. UNCHANGED <<booted, request>> /\ pc'["job"] = pc["job"] /\ pc'["main"] = pc["main"] /\ pc["api"] = "decide"
    BY <1>1, <1>6 DEF Decide, rest
  <2>4. QED
    BY <1>3, <2>1, <2>2, <2>3 DEF ApiPlace, BesideJob
<1>7. CASE PersistDecision \/ SetProtection
  BY <1>1, <1>3, <1>7 DEF PersistDecision, Persist, DecisionCommit, SetProtection, rest, ApiPlace, BesideJob
<1>8. CASE LockDiscard \/ MarkDiscarding \/ Discarded
  BY <1>1, <1>3, <1>8 DEF LockDiscard, MarkDiscarding, Discarded, rest, ApiPlace, BesideJob
<1>9. CASE DiscardLeftover \/ DiscardTarget
  BY <1>1, <1>3, <1>9, FinishDiscardDoes DEF DiscardLeftover, DiscardTarget, ApiPlace, BesideJob
<1>10. CASE DiscardTargetCopies
  BY <1>1, <1>3, <1>10, DiscardCopiesDoes DEF DiscardTargetCopies, ApiPlace, BesideJob
<1>11. CASE StartMigration
  BY <1>1, <1>3, <1>11 DEF StartMigration, StartRefused, ApiPlace, BesideJob
<1>12. CASE EndRequest
  BY <1>1, <1>3, <1>12 DEF EndRequest, rest, ApiPlace, BesideJob
<1>13. QED
  BY <1>2, <1>4, <1>5, <1>6, <1>7, <1>8, <1>9, <1>10, <1>11, <1>12 DEF Api

-----------------------------------------------------------------------------
(* The types.                                                              *)

LEMMA RetentionTypes ==
    ASSUME Types, NEW a \in Actor, Retention(a)
    PROVE  Types'
<1> USE DEF At, Goto, Spend, Do, SetLegacy, rest, locks, manifest, files
<1>1. pc' \in [Actor -> Place] /\ used' \in [{"requests", "crashes", "faults"} -> Nat]
  BY DEF Retention, EndRetention, AfterRetention, ChooseSource, UnlinkVictim, ForgetVictim, TrimCopy, Types, Place,
         MainPlace, JobPlace
<1>2. CASE EndRetention(a)
  BY <1>1, <1>2 DEF EndRetention, Types
<1>3. CASE ChooseSource(a)
  <2>1. Min(Released) \in Source
    BY <1>3, SourceMin DEF ChooseSource, Released
  <2>2. QED
    BY <1>1, <1>3, <2>1 DEF ChooseSource, Types
<1>4. CASE UnlinkVictim(a)
  <2>1. victim[a] \in legacyFile => RowsOf(victim[a]) \subseteq Copy
    BY DEF Types, RowsOf, Copy, Chunk
  <2>2. QED
    BY <1>1, <1>4, <2>1 DEF UnlinkVictim, Types
<1>5. CASE ForgetVictim(a)
  BY <1>1, <1>5 DEF ForgetVictim, Types, Status
<1>6. CASE TrimCopy(a)
  BY <1>1, <1>6 DEF TrimCopy, Types
<1>7. QED
  BY <1>2, <1>3, <1>4, <1>5, <1>6 DEF Retention

LEMMA RepairsTypes ==
    ASSUME Types, NEW a \in Actor, Repairs(a)
    PROVE  Types'
<1> USE DEF At, Goto, Spend, Do, rest, locks, manifest, files
<1>1. pc' \in [Actor -> Place] /\ used' \in [{"requests", "crashes", "faults"} -> Nat]
  BY DEF Repairs, Repair, AfterRepair, Raised, PersistRepair, DecisionCommit, Acknowledge, Types, Place, MainPlace,
         JobPlace, ApiPlace
<1>2. QED
  BY <1>1 DEF Repairs, Repair, PersistRepair, DecisionCommit, Acknowledge, Types, Decision, Protected

LEMMA FinalizeTypes ==
    ASSUME Types, NEW a \in Actor, Finalize(a)
    PROVE  Types'
<1> USE DEF At, Goto, Spend, Do, rest, locks, manifest, files
<1>1. pc' \in [Actor -> Place] /\ used' \in [{"requests", "crashes", "faults"} -> Nat]
  BY DEF Finalize, Raised, DecisionCommit, Types, Place, MainPlace, ApiPlace
<1>2. QED
  BY <1>1 DEF Finalize, DecisionCommit, Types, Decision, Terminal

LEMMA ForgetTypes ==
    ASSUME Types, Forget,
           UNCHANGED <<legacy, migrating, closed, committed, keepSource, repair, legacyFile, filled, decision,
                       surrendered>>,
           used' \in [{"requests", "crashes", "faults"} -> Nat]
    PROVE  Types'
<1>1. pc' \in [Actor -> Place] /\ victim' \in [Actor -> Source \union {0}]
  BY DEF Forget, Place, MainPlace, JobPlace
<1>2. job' \in Job_ /\ request' \in Kind
  BY DEF Forget, NoJob, Job_, Kind
<1>3. QED
  BY <1>1, <1>2 DEF Forget, Types

ManifestTypes ==
    /\ legacy \in [Source -> Status]
    /\ migrating \subseteq Copy /\ closed \subseteq Copy
    /\ committed \in BOOLEAN /\ repair \in BOOLEAN /\ keepSource \in Source \union {0}

LEMMA MainTypes ==
    ASSUME Flow, Main, Places'
    PROVE  Types'
<1> USE DEF At, Goto, Spend, Do, SetLegacy, rest, locks, manifest, files
<1>1. Types /\ "main" \in Actor /\ {"job", "api"} \subseteq Actor
  BY DEF Flow, Actor
<1>2. CASE Start
  <2>1. decision' \in Decision
    BY <1>1, <1>2 DEF Start, Ensured, Decision, Protected, Terminal, Types
  <2>2. protected' \in BOOLEAN
    <3>1. protected' = (Ensured \in Protected) \/ protected' = TRUE
      BY <1>2 DEF Start
    <3>2. (Ensured \in Protected) \in BOOLEAN
      OBVIOUS
    <3>3. QED
      BY <3>1, <3>2, Zenon
  <2>3. pc' \in [Actor -> Place] /\ used' \in [{"requests", "crashes", "faults"} -> Nat]
    BY <1>1, <1>2 DEF Start, Types, Place, MainPlace
  <2>4. QED
    BY <1>1, <1>2, <2>1, <2>2, <2>3 DEF Start, Types
<1>3. CASE Attach
  <2>1. legacy' \in [Source -> Status]
    BY <1>1, <1>3 DEF Attach, Types, Status
  <2>2. pc' \in [Actor -> Place] /\ used' \in [{"requests", "crashes", "faults"} -> Nat]
    BY <1>1, <1>3 DEF Attach, Types, Place, MainPlace
  <2>3. QED
    BY <1>1, <1>3, <2>1, <2>2 DEF Attach, Types
<1>4. CASE ReconcileDiscards("main")
  <2>1. {"discards", "complete"} \subseteq Place
    BY DEF Place, MainPlace
  <2>2. QED
    BY <1>1, <1>4, <2>1, FinishDiscardDoes DEF ReconcileDiscards, Types
<1>5. CASE CompleteCommit("main")
  <2>1. pc' \in [Actor -> Place]
    BY <1>1, <1>5, CompleteCommitDoes DEF Types, AfterCompletion, Place, MainPlace
  <2>2. ManifestTypes'
    <3>1. CASE Promote(Missing, TRUE)
      <4>1. Missing \in SUBSET Source
        BY DEF Missing, Attached
      <4>2. QED
        BY <1>1, <3>1, <4>1, PromoteDoes DEF Types, ManifestTypes
    <3>2. CASE UNCHANGED manifest
      BY <1>1, <3>2 DEF Types, ManifestTypes
    <3>3. QED
      BY <1>1, <1>5, <3>1, <3>2, CompleteCommitDoes
  <2>3. QED
    BY <1>1, <1>5, <2>1, <2>2, CompleteCommitDoes DEF Types, ManifestTypes
<1>6. CASE DiscardOrphans("main")
  <2>1. {"orphans", "protect", "failed"} \subseteq Place
    BY DEF Place, MainPlace
  <2>2. QED
    BY <1>1, <1>6, <2>1, DiscardCopiesDoes DEF DiscardOrphans, AfterReconcile, Types
<1>7. CASE ProtectForRepair \/ Booted
  BY <1>1, <1>7 DEF ProtectForRepair, Booted, Types, Place, MainPlace
<1>8. CASE Retention("main")
  BY <1>1, <1>8, RetentionTypes
<1>9. CASE RetentionFails
  BY <1>1, <1>9 DEF RetentionFails, Types, Place, MainPlace
<1>10. CASE Repairs("main")
  BY <1>1, <1>10, RepairsTypes
<1>11. CASE Finalize("main")
  BY <1>1, <1>11, FinalizeTypes
<1>12. CASE StartFails
  <2>1. used' \in [{"requests", "crashes", "faults"} -> Nat]
    BY <1>1, <1>12 DEF StartFails, Types
  <2>2. QED
    BY <1>1, <1>12, <2>1, ForgetTypes DEF StartFails
<1>13. QED
  BY <1>2, <1>3, <1>4, <1>5, <1>6, <1>7, <1>8, <1>9, <1>10, <1>11, <1>12 DEF Main, Reconcile

LEMMA JobTypes ==
    ASSUME Flow, Job, Places'
    PROVE  Types'
<1> USE DEF At, Goto, Spend, Do, SetLegacy, rest, locks, manifest, files
<1>1. Types /\ "job" \in Actor /\ job \in Job_ /\ LastChunk \in Nat
  BY SourceAssumption DEF Flow, Actor, Types
<1>2. CASE ReconcileDiscards("job")
  <2>1. {"discards", "complete"} \subseteq Place
    BY DEF Place, MainPlace
  <2>2. QED
    BY <1>1, <1>2, <2>1, FinishDiscardDoes DEF ReconcileDiscards, Types
<1>3. CASE CompleteCommit("job")
  <2>1. pc' \in [Actor -> Place]
    <3>1. pc \in [Actor -> Place] /\ {AfterCompletion("job"), "orphans", "failed"} \subseteq Place
      BY <1>1 DEF Types, AfterCompletion, Place, MainPlace, JobPlace
    <3>2. QED
      BY <1>1, <1>3, <3>1, CompleteCommitDoes
  <2>2. ManifestTypes'
    <3>1. CASE Promote(Missing, TRUE)
      <4>1. Missing \in SUBSET Source
        BY DEF Missing, Attached
      <4>2. QED
        BY <1>1, <3>1, <4>1, PromoteDoes DEF Types, ManifestTypes
    <3>2. CASE UNCHANGED manifest
      BY <1>1, <3>2 DEF Types, ManifestTypes
    <3>3. QED
      BY <1>1, <1>3, <3>1, <3>2, CompleteCommitDoes
  <2>3. QED
    BY <1>1, <1>3, <2>1, <2>2, CompleteCommitDoes DEF Types, ManifestTypes
<1>4. CASE DiscardOrphans("job")
  <2>1. {"orphans", "stale", "failed"} \subseteq Place
    BY DEF Place, JobPlace
  <2>2. QED
    BY <1>1, <1>4, <2>1, DiscardCopiesDoes DEF DiscardOrphans, AfterReconcile, Types
<1>5. CASE DiscardStale
  <2>1. {"stale", "plan", "failed"} \subseteq Place
    BY DEF Place, JobPlace
  <2>2. QED
    BY <1>1, <1>5, <2>1, DiscardCopiesDoes DEF DiscardStale, Types
<1>6. CASE DropSample
  <2>1. {"dropSample", "cutoff", "failed"} \subseteq Place
    BY DEF Place, JobPlace
  <2>2. QED
    BY <1>1, <1>6, <2>1, DiscardCopiesDoes DEF DropSample, Types
<1>7. CASE Plan
  <2>1. {s \in Source : legacy[s] = "legacy"} # {} =>
           Min({s \in Source : legacy[s] = "legacy"}) \in Source
    BY SourceMin
  <2>2. job' \in Job_
    BY <1>1, <1>7, <2>1 DEF Plan, Job_
  <2>3. pc' \in [Actor -> Place]
    BY <1>1, <1>7 DEF Plan, Types, Place, JobPlace
  <2>4. QED
    BY <1>1, <1>7, <2>2, <2>3 DEF Plan, Types
<1>8. ASSUME NEW k \in Copy, NEW place, NEW next \in Place,
             CreateCopy(k, place, next) \/ FillCopy(k, place, next)
      PROVE  Types'
  <2>1. "failed" \in Place
    BY DEF Place, JobPlace
  <2>2. pc' \in [Actor -> Place] /\ used' \in [{"requests", "crashes", "faults"} -> Nat]
    BY <1>1, <1>8, <2>1 DEF CreateCopy, FillCopy, Types
  <2>3. QED
    BY <1>1, <1>8, <2>2 DEF CreateCopy, FillCopy, Types
<1>9. CASE CreateSample \/ FillSample
  <2>1. job.source \in Source => Sample(job.source) \in Copy
    BY <1>1 DEF Sample, Copy
  <2>2. job.source \in Source
    BY <1>1, <1>9 DEF CreateSample, FillSample, FillCopy, Flow, HasSource, Copying, Types
  <2>3. QED
    BY <1>8, <1>9, <2>1, <2>2 DEF CreateSample, FillSample, Place, JobPlace
<1>10. CASE CopyRows
  <2>1. Left # {} /\ job.source \in Source
    BY <1>10 DEF CopyRows, CreateCopy, FillCopy, Flow, HasSource, Copying
  <2>2. NextCopy \in Copy
    BY <1>1, <2>1, NextIsLeft DEF Copy, Chunk
  <2>3. QED
    BY <1>8, <1>10, <2>2 DEF CopyRows, Place, JobPlace
<1>11. CASE Cutoff
  <2>1. \A first \in 1..(LastChunk + 1) : first..LastChunk \in SUBSET Chunk
    BY <1>1 DEF Chunk
  <2>2. job' \in Job_
    BY <1>1, <1>11, <2>1 DEF Cutoff, Job_
  <2>3. QED
    BY <1>1, <1>11, <2>2 DEF Cutoff, Types, Place, JobPlace
<1>12. CASE SourceGone \/ LockForCommit
  BY <1>1, <1>12 DEF SourceGone, LockForCommit, Types, Place, JobPlace
<1>13. CASE UnlinkSource
  <2>1. job.source \in Source
    BY <1>13 DEF UnlinkSource, Flow, HasSource, Copying
  <2>2. RowsOf(job.source) \subseteq Copy
    BY <2>1 DEF RowsOf, Copy, Chunk
  <2>3. pc' \in [Actor -> Place] /\ used' \in [{"requests", "crashes", "faults"} -> Nat]
    BY <1>1, <1>13 DEF UnlinkSource, Types, Place, JobPlace
  <2>4. job' \in Job_
    BY <1>1, <1>13 DEF UnlinkSource, Job_
  <2>5. QED
    BY <1>1, <1>13, <2>2, <2>3, <2>4 DEF UnlinkSource, Types
<1>14. CASE CommitMigration
  <2>1. pc' \in [Actor -> Place] /\ used' \in [{"requests", "crashes", "faults"} -> Nat]
    <3>1. used' = used \/ used' = [used EXCEPT !["faults"] = used["faults"] + 1]
      BY <1>14, Zenon DEF CommitMigration
    <3>2. pc' = [pc EXCEPT !["job"] = "retain"] \/ pc' = [pc EXCEPT !["job"] = "failed"]
      BY <1>14, Zenon DEF CommitMigration
    <3>3. QED
      BY <1>1, <3>1, <3>2 DEF Types, Place, JobPlace
  <2>2. ManifestTypes'
    <3>1. CASE Promote({job.source}, FALSE)
      <4>1. {job.source} \in SUBSET Source
        BY <1>14 DEF CommitMigration, Flow, HasSource, Copying
      <4>2. QED
        BY <1>1, <3>1, <4>1, PromoteDoes DEF Types, ManifestTypes
    <3>2. CASE UNCHANGED manifest
      BY <1>1, <3>2 DEF Types, ManifestTypes
    <3>3. QED
      BY <1>14, <3>1, <3>2, Zenon DEF CommitMigration
  <2>3. QED
    BY <1>1, <1>14, <2>1, <2>2 DEF CommitMigration, Types, ManifestTypes
<1>15. CASE Retention("job")
  BY <1>1, <1>15, RetentionTypes
<1>16. CASE Bookkeeping
  <2>1. protected' \in BOOLEAN
    BY <1>1, <1>16 DEF Bookkeeping, Types
  <2>2. QED
    BY <1>1, <1>16, <2>1 DEF Bookkeeping, Types, Place, JobPlace
<1>17. CASE LockDecision
  BY <1>1, <1>17 DEF LockDecision, Types, Place, JobPlace
<1>18. CASE Repairs("job")
  BY <1>1, <1>18, RepairsTypes
<1>19. CASE PersistMigrated
  <2>1. DecisionCommit("job", "migrated", "end", "end") /\ UNCHANGED protected
    BY <1>19 DEF PersistMigrated
  <2>2. "migrated" \in Decision /\ {"end"} \subseteq Place
    BY DEF Decision, Terminal, Place, JobPlace
  <2>3. QED
    BY <1>1, <2>1, <2>2, DecisionCommitDoes DEF Types
<1>20. CASE JobFails \/ JobEnds
  <2>1. NoJob \in Job_ /\ job.prev \in BOOLEAN /\ protected \in BOOLEAN
    BY <1>1 DEF NoJob, Job_, Types
  <2>2. job' = NoJob /\ (protected' = protected \/ protected' = job.prev)
    BY <1>20 DEF JobFails, JobEnds
  <2>3. QED
    BY <1>1, <1>20, <2>1, <2>2 DEF JobFails, JobEnds, Release, Types, Place, JobPlace
<1>21. QED
  BY <1>2, <1>3, <1>4, <1>5, <1>6, <1>7, <1>9, <1>10, <1>11, <1>12, <1>13, <1>14, <1>15, <1>16, <1>17, <1>18, <1>19,
     <1>20 DEF Job, Reconcile

LEMMA ApiTypes ==
    ASSUME Flow, Api, Places'
    PROVE  Types'
<1> USE DEF At, Goto, Spend, Do, SetLegacy, rest, locks, manifest, files
<1>1. Types /\ "api" \in Actor /\ "job" \in Actor /\ job \in Job_
  BY DEF Flow, Actor, Types
<1>2. Attached # {} => Min(Attached) \in Source
  BY SourceMin DEF Attached
<1>3. CASE EnterRequest \/ Poll
  BY <1>1, <1>3 DEF EnterRequest, Poll, Types, Place, ApiPlace
<1>4. CASE Repairs("api")
  BY <1>1, <1>4, RepairsTypes
<1>5. CASE Finalize("api")
  BY <1>1, <1>5, FinalizeTypes
<1>6. CASE Decide
  <2>1. pc' \in [Actor -> Place]
    BY <1>1, <1>6 DEF Decide, Types, Places, Place
  <2>2. QED
    BY <1>1, <1>6, <2>1 DEF Decide, Types
<1>7. CASE PersistDecision
  <2>1. PICK value \in {"pending", "skipped", "keep", "migrated", "discarded"},
             next \in {"end", "protectOn", "protectOff"} :
               DecisionCommit("api", value, next, "end") /\ UNCHANGED protected
    BY <1>7 DEF PersistDecision, Persist
  <2>2. value \in Decision /\ {next, "end"} \subseteq Place
    BY DEF Decision, Terminal, Protected, Place, ApiPlace
  <2>3. QED
    BY <1>1, <2>1, <2>2, DecisionCommitDoes DEF Types
<1>8. CASE SetProtection
  <2>1. protected' \in BOOLEAN
    BY <1>8 DEF SetProtection
  <2>2. QED
    BY <1>1, <1>8, <2>1 DEF SetProtection, Types, Place, ApiPlace
<1>9. CASE LockDiscard
  BY <1>1, <1>9 DEF LockDiscard, Types, Place, ApiPlace
<1>10. CASE DiscardLeftover \/ DiscardTarget
  <2>1. {"leftover", "copies", "end", "finishDiscard", "discarded"} \subseteq Place
    BY DEF Place, ApiPlace
  <2>2. QED
    BY <1>1, <1>10, <2>1, FinishDiscardDoes DEF DiscardLeftover, DiscardTarget, Types
<1>11. CASE DiscardTargetCopies
  <2>1. {"copies", "mark", "end"} \subseteq Place
    BY DEF Place, ApiPlace
  <2>2. QED
    BY <1>1, <1>11, <2>1, DiscardCopiesDoes DEF DiscardTargetCopies, Types
<1>12. CASE MarkDiscarding
  <2>1. Attached # {} => RowsOf(Min(Attached)) \subseteq Copy
    BY <1>2 DEF RowsOf, Copy, Chunk
  <2>2. pc' \in [Actor -> Place] /\ used' \in [{"requests", "crashes", "faults"} -> Nat]
    BY <1>1, <1>12 DEF MarkDiscarding, Types, Place, ApiPlace
  <2>3. legacy' \in [Source -> Status]
    BY <1>1, <1>12 DEF MarkDiscarding, Types, Status
  <2>4. surrendered' \subseteq Copy
    BY <1>1, <1>12, <2>1 DEF MarkDiscarding, Types
  <2>5. QED
    BY <1>1, <1>12, <2>2, <2>3, <2>4 DEF MarkDiscarding, Types
<1>13. CASE Discarded
  <2>1. protected' \in BOOLEAN
    BY <1>13 DEF Discarded
  <2>2. QED
    BY <1>1, <1>13, <2>1 DEF Discarded, Types, Place, ApiPlace
<1>14. CASE StartMigration
  <2>1. job' \in Job_ /\ protected' \in BOOLEAN
    BY <1>1, <1>2, <1>14 DEF StartMigration, StartRefused, NoJob, Job_, Types
  <2>2. pc' \in [Actor -> Place]
    BY <1>1, <1>14 DEF StartMigration, Types, Place, ApiPlace
  <2>3. UNCHANGED <<manifest, files, decision, booted, request, victim, locks, surrendered, used>>
    BY <1>14 DEF StartMigration
  <2>4. QED
    BY <1>1, <2>1, <2>2, <2>3 DEF Types
<1>15. CASE PrepareMigration
  <2>1. job' \in Job_ /\ protected' \in BOOLEAN /\ keepSource' \in Source \union {0}
    <3>1. NoJob \in Job_ /\ job.prev \in BOOLEAN /\ protected \in BOOLEAN /\ job.source \in Source \union {0}
          /\ keepSource \in Source \union {0}
      BY <1>1 DEF NoJob, Job_, Types
    <3>2. /\ job' = NoJob \/ job' = job
          /\ protected' = protected \/ protected' = job.prev
          /\ keepSource' \in {keepSource, job.source, 0}
      BY <1>15 DEF PrepareMigration
    <3>3. QED
      BY <1>1, <3>1, <3>2
  <2>2. pc' \in [Actor -> Place] /\ used' \in [{"requests", "crashes", "faults"} -> Nat]
    BY <1>1, <1>15 DEF PrepareMigration, Types, Place, ApiPlace, JobPlace
  <2>3. QED
    BY <1>1, <1>15, <2>1, <2>2 DEF PrepareMigration, Types
<1>16. CASE EndRequest
  BY <1>1, <1>16 DEF EndRequest, Release, Types, Place, ApiPlace
<1>17. QED
  BY <1>3, <1>4, <1>5, <1>6, <1>7, <1>8, <1>9, <1>10, <1>11, <1>12, <1>13, <1>14, <1>15, <1>16 DEF Api

-----------------------------------------------------------------------------
(* The locks and the protection.                                           *)

Rest == Locked /\ Guarded /\ HasSource

(* While the process starts there is neither a job nor a request.          *)
LEMMA StartingIsAlone ==
    ASSUME Places', ~booted' \/ (pc'["job"] = "none" /\ pc'["api"] = "none" /\ pc'["main"] = "idle")
    PROVE  Rest'
BY DEF Places, Rest, Locked, Guarded, HasSource, Retaining, DiscardLocked, JobPlace, Booking, Copying

LEMMA MainRest ==
    ASSUME Flow, Main, Places'
    PROVE  Rest'
<1> USE DEF At, Goto, Spend, Do, SetLegacy, rest, locks, manifest, files
<1>1. pc \in [Actor -> Place] /\ Actor = {"main", "job", "api"} /\ legacy \in [Source -> Status]
  BY DEF Flow, Types, Actor
<1>2. CASE ~booted
  <2>1. CASE Booted
    <3>1. pc'["job"] = "none" /\ pc'["api"] = "none" /\ pc'["main"] = "idle"
      BY <1>2, <2>1 DEF Booted, Flow, Places
    <3>2. QED
      BY <3>1, StartingIsAlone
  <2>2. CASE ~Booted
    <3>1. ~booted'
      BY <1>2, <2>2 DEF Main, Start, Attach, Reconcile, ReconcileDiscards, FinishDiscard, CompleteCommit,
         DiscardOrphans, DiscardCopies, ProtectForRepair, StartFails, Forget, Retention, EndRetention, ChooseSource,
         UnlinkVictim, ForgetVictim, TrimCopy, RetentionFails, Repairs, Repair, PersistRepair, DecisionCommit,
         Acknowledge, Finalize
    <3>2. QED
      BY <3>1, StartingIsAlone
  <2>3. QED
    BY <2>1, <2>2
<1>3. CASE booted
  <2>1. Retention("main") \/ RetentionFails
    BY <1>3 DEF Main, Start, Attach, Reconcile, ReconcileDiscards, FinishDiscard, CompleteCommit,
       DiscardOrphans, DiscardCopies, ProtectForRepair, StartFails, Repairs, Repair, PersistRepair, Acknowledge,
       Finalize, Booted, Flow, Places, Serving, Retaining
  <2>2. /\ UNCHANGED <<booted, protected, job>> /\ pc'["job"] = pc["job"] /\ pc'["api"] = pc["api"]
        /\ filled' \subseteq filled
    BY <1>1, <2>1 DEF Retention, EndRetention, ChooseSource, UnlinkVictim, ForgetVictim, TrimCopy, RetentionFails
  <2>3. Locked'
    BY <1>1, <1>3, <2>1, <2>2 DEF Retention, EndRetention, AfterRetention, ChooseSource, UnlinkVictim, ForgetVictim,
       TrimCopy, RetentionFails, Flow, Locked, Retaining
  <2>4. Attached' \subseteq Attached
    BY <1>1, <2>1 DEF Retention, EndRetention, ChooseSource, UnlinkVictim, ForgetVictim, TrimCopy, RetentionFails,
       Attached
  <2>5. Guarded'
    BY <2>2, <2>4 DEF Flow, Guarded
  <2>6. HasSource'
    BY <2>2 DEF Flow, HasSource, Left
  <2>7. QED
    BY <2>3, <2>5, <2>6 DEF Rest
<1>4. QED
  BY <1>2, <1>3

(* Steps of the job that touch neither the protection nor a source.        *)
LEMMA JobRestAfter ==
    ASSUME Flow, pc["job"] # "none",
           pc'["main"] = pc["main"], pc'["api"] = pc["api"], UNCHANGED booted,
           protected' = protected \/ protected', Attached' \subseteq Attached,
           writeLock' = writeLock \/ writeLock = "job" \/ writeLock = "free",
           pc'["job"] \in {"unlinkSource", "commit"} => writeLock' = "job",
           pc'["job"] \in JobPlace \ ({"none"} \union Booking) => pc["job"] \notin Booking,
           pc'["job"] \in Copying => job'.source \in Source,
           pc'["job"] = "fill" => Left' # {}
    PROVE  Rest'
<1>1. pc["api"] \in BesideJob /\ (pc["job"] \in JobPlace)
  BY DEF Flow, Places
<1>2. Locked'
  BY <1>1 DEF Flow, Locked, BesideJob, DiscardLocked
<1>3. Guarded'
  BY <1>1 DEF Flow, Guarded, BesideJob
<1>4. QED
  BY <1>2, <1>3 DEF Rest, HasSource

LEMMA JobRest ==
    ASSUME Flow, Job, Places'
    PROVE  Rest'
<1> USE DEF At, Goto, Spend, Do, SetLegacy
<1>1. /\ pc \in [Actor -> Place] /\ Actor = {"main", "job", "api"} /\ legacy \in [Source -> Status] /\ Types
      /\ "job" \in Actor
  BY DEF Flow, Types, Actor
<1>2. pc["job"] # "none"
  BY DEF Job, Reconcile, ReconcileDiscards, FinishDiscard, CompleteCommit, DiscardOrphans, DiscardCopies, DiscardStale,
     Plan, CreateSample, CreateCopy, FillSample, FillCopy, DropSample, Cutoff, SourceGone, CopyRows, LockForCommit,
     UnlinkSource, CommitMigration, Retention, EndRetention, ChooseSource, UnlinkVictim, ForgetVictim, TrimCopy,
     Bookkeeping, LockDecision, Repairs, Repair, PersistRepair, Acknowledge, PersistMigrated, JobFails, JobEnds
<1>3. CASE ReconcileDiscards("job")
  <2>1. Attached' \subseteq Attached
    BY <1>1, <1>3, FinishDiscardDoes DEF ReconcileDiscards, Attached
  <2>2. QED
    BY <1>1, <1>2, <1>3, <2>1, FinishDiscardDoes, JobRestAfter DEF ReconcileDiscards, Booking, Copying
<1>4. CASE CompleteCommit("job")
  <2>1. Attached' \subseteq Attached
    <3>1. CASE Promote(Missing, TRUE)
      <4>1. Missing \in SUBSET Source
        BY DEF Missing, Attached
      <4>2. QED
        BY <1>1, <3>1, <4>1, PromoteDoes DEF Attached
    <3>2. CASE UNCHANGED manifest
      BY <3>2 DEF manifest, Attached
    <3>3. QED
      BY <1>1, <1>4, <3>1, <3>2, CompleteCommitDoes
  <2>2. pc["job"] = "complete" /\ pc'["job"] \in {"book", "failed", "orphans"}
        /\ pc'["main"] = pc["main"] /\ pc'["api"] = pc["api"]
        /\ UNCHANGED <<booted, protected, writeLock>>
    BY <1>1, <1>4, CompleteCommitDoes DEF AfterCompletion
  <2>3. QED
    BY <1>2, <2>1, <2>2, JobRestAfter DEF Booking, Copying
<1>5. CASE DiscardOrphans("job") \/ DiscardStale \/ DropSample
  <2>1. /\ pc["job"] \in {"orphans", "stale", "dropSample"} /\ pc'["job"] \in {"orphans", "stale", "plan", "dropSample", "cutoff", "failed"}
        /\ pc'["job"] \in {"dropSample", "cutoff"} => pc["job"] = "dropSample"
        /\ pc'["main"] = pc["main"] /\ pc'["api"] = pc["api"]
        /\ UNCHANGED <<booted, protected, writeLock, legacy, job>>
    BY <1>1, <1>5, DiscardCopiesDoes DEF DiscardOrphans, AfterReconcile, DiscardStale, DropSample
  <2>2. Attached' \subseteq Attached
    BY <2>1 DEF Attached
  <2>3. pc'["job"] \in Copying => job'.source \in Source
    BY <2>1 DEF Flow, HasSource, Copying
  <2>4. QED
    BY <1>2, <2>1, <2>2, <2>3, JobRestAfter DEF Booking
<1>6. CASE Plan
  <2>1. {s \in Source : legacy[s] = "legacy"} # {} =>
           Min({s \in Source : legacy[s] = "legacy"}) \in Source
    BY SourceMin
  <2>2. /\ pc["job"] = "plan" /\ pc'["job"] \in {"failed", "sample", "cutoff"}
        /\ pc'["main"] = pc["main"] /\ pc'["api"] = pc["api"]
        /\ UNCHANGED <<booted, protected, writeLock, legacy>>
    BY <1>1, <1>6 DEF Plan, manifest, locks
  <2>3. pc'["job"] # "failed" => job'.source \in Source
    BY <1>1, <1>6, <2>1 DEF Plan, Types, Job_
  <2>4. QED
    BY <1>2, <2>2, <2>3, JobRestAfter DEF Attached, Copying, Booking
<1>7. CASE CreateSample \/ FillSample \/ Cutoff \/ SourceGone
  <2>1. /\ pc["job"] \in {"sample", "fillSample", "cutoff"}
        /\ pc'["job"] \in {"fillSample", "dropSample", "copy", "failed"}
        /\ pc'["main"] = pc["main"] /\ pc'["api"] = pc["api"]
        /\ UNCHANGED <<booted, protected, writeLock, legacy>>
    BY <1>1, <1>7 DEF CreateSample, CreateCopy, FillSample, FillCopy, Cutoff, SourceGone, manifest, locks, rest
  <2>2. job'.source = job.source
    BY <1>1, <1>7 DEF CreateSample, CreateCopy, FillSample, FillCopy, Cutoff, SourceGone, rest, Types, Job_
  <2>3. job.source \in Source
    BY <2>1 DEF Flow, HasSource, Copying
  <2>4. QED
    BY <1>2, <2>1, <2>2, <2>3, JobRestAfter DEF Attached, Booking
<1>8. CASE CopyRows
  <2>1. /\ pc["job"] \in {"copy", "fill"} /\ pc'["job"] \in {"copy", "fill", "failed"}
        /\ pc'["main"] = pc["main"] /\ pc'["api"] = pc["api"]
        /\ UNCHANGED <<booted, protected, writeLock, legacy, job>>
    BY <1>1, <1>8 DEF CopyRows, CreateCopy, FillCopy, manifest, locks, rest
  <2>2. pc'["job"] = "fill" => Left' # {}
    <3>1. pc'["job"] = "fill" => Left # {} /\ filled' = filled
      BY <1>1, <1>8 DEF CopyRows, CreateCopy, FillCopy, files
    <3>2. QED
      BY <2>1, <3>1 DEF Left
  <2>3. job.source \in Source
    BY <2>1 DEF Flow, HasSource, Copying
  <2>4. QED
    BY <1>2, <2>1, <2>2, <2>3, JobRestAfter DEF Attached, Booking
<1>9. CASE LockForCommit \/ UnlinkSource
  <2>1. /\ pc["job"] \in {"copy", "unlinkSource"} /\ pc'["job"] \in {"unlinkSource", "commit", "failed"}
        /\ pc'["main"] = pc["main"] /\ pc'["api"] = pc["api"]
        /\ UNCHANGED <<booted, protected, legacy>>
    BY <1>1, <1>9 DEF LockForCommit, UnlinkSource, manifest, rest
  <2>2. job'.source = job.source
    BY <1>1, <1>9 DEF LockForCommit, UnlinkSource, rest, Types, Job_
  <2>3. job.source \in Source /\ (pc["job"] = "unlinkSource" => writeLock = "job")
    BY <2>1 DEF Flow, HasSource, Copying, Locked
  <2>4. writeLock' = writeLock \/ writeLock = "free"
    BY <1>9 DEF LockForCommit, UnlinkSource, locks
  <2>5. pc'["job"] \in {"unlinkSource", "commit"} => writeLock' = "job"
    BY <1>1, <1>9, <2>3 DEF LockForCommit, UnlinkSource, locks
  <2>6. QED
    BY <1>2, <2>1, <2>2, <2>3, <2>4, <2>5, JobRestAfter DEF Attached, Booking
<1>10. CASE CommitMigration
  <2>1. \/ pc' = [pc EXCEPT !["job"] = "retain"] /\ Promote({job.source}, FALSE)
        \/ pc' = [pc EXCEPT !["job"] = "failed"] /\ UNCHANGED manifest
    BY <1>10, Zenon DEF CommitMigration
  <2>2. /\ pc["job"] = "commit" /\ pc'["job"] \in {"retain", "failed"}
        /\ pc'["main"] = pc["main"] /\ pc'["api"] = pc["api"]
        /\ UNCHANGED <<booted, protected>>
    BY <1>1, <1>10, <2>1 DEF CommitMigration, rest
  <2>3. job.source \in Source /\ writeLock = "job"
    BY <2>2 DEF Flow, HasSource, Copying, Locked
  <2>4. Attached' \subseteq Attached
    <3>1. CASE Promote({job.source}, FALSE)
      BY <1>1, <2>3, <3>1, PromoteDoes DEF Attached
    <3>2. CASE UNCHANGED manifest
      BY <3>2 DEF manifest, Attached
    <3>3. QED
      BY <2>1, <3>1, <3>2
  <2>5. QED
    BY <1>2, <2>2, <2>3, <2>4, JobRestAfter DEF Booking, Copying
<1>11. CASE Retention("job")
  <2>1. ~ChooseSource("job") /\ ~UnlinkVictim("job") /\ ~ForgetVictim("job")
    BY DEF ChooseSource, UnlinkVictim, ForgetVictim, Flow, Places, Guarded, Released, JobPlace, Booking
  <2>2. /\ pc["job"] = "retain" /\ pc'["job"] \in {"retain", "book"}
        /\ pc'["main"] = pc["main"] /\ pc'["api"] = pc["api"]
        /\ UNCHANGED <<booted, protected, legacy>> /\ (writeLock' = writeLock \/ writeLock = "job")
    BY <1>1, <1>11, <2>1 DEF Retention, EndRetention, AfterRetention, TrimCopy, manifest, locks, rest
  <2>3. QED
    BY <1>2, <2>2, JobRestAfter DEF Attached, Booking, Copying
<1>12. CASE Bookkeeping
  <2>1. /\ pc["job"] = "book" /\ pc'["job"] = "lockDecision"
        /\ pc'["main"] = pc["main"] /\ pc'["api"] = pc["api"]
        /\ UNCHANGED <<booted, writeLock, legacy, job>>
        /\ protected' = (protected /\ Attached # {})
    BY <1>1, <1>12 DEF Bookkeeping, manifest, locks, rest
  <2>2. protected
    BY <2>1 DEF Flow, Guarded, JobPlace, Booking
  <2>3. Locked' /\ HasSource'
    BY <2>1 DEF Flow, Locked, HasSource, Copying, DiscardLocked
  <2>4. Guarded'
    BY <2>1, <2>2 DEF Flow, Guarded, Places, BesideJob, Booking, Attached
  <2>5. QED
    BY <2>3, <2>4 DEF Rest
<1>13. CASE LockDecision \/ PersistMigrated \/ Repairs("job") \/ JobEnds
  <2>1. /\ pc["job"] \in Booking /\ pc'["job"] \in Booking \union {"none"}
        /\ pc'["main"] = pc["main"] /\ pc'["api"] = pc["api"]
        /\ UNCHANGED <<booted, legacy>> /\ (protected' = protected \/ protected')
        /\ (writeLock' = writeLock \/ writeLock = "job")
    BY <1>1, <1>13 DEF LockDecision, PersistMigrated, DecisionCommit, Repairs, Repair, AfterRepair, Raised,
       PersistRepair, Acknowledge, JobEnds, Release, manifest, locks, rest, Booking
  <2>2. QED
    BY <1>2, <2>1, JobRestAfter DEF Attached, Booking, Copying, JobPlace
<1>14. CASE JobFails
  <2>1. /\ pc'["job"] = "none" /\ pc'["main"] = pc["main"] /\ pc'["api"] = pc["api"] /\ UNCHANGED <<booted, legacy>>
        /\ writeLock' = IF writeLock = "job" THEN "free" ELSE writeLock
    BY <1>1, <1>14 DEF JobFails, Release, manifest
  <2>2. pc["api"] \in BesideJob
    BY <1>2 DEF Flow, Places
  <2>3. QED
    BY <2>1, <2>2 DEF Flow, Rest, Locked, Guarded, HasSource, BesideJob, DiscardLocked, Booking, Copying
<1>15. QED
  BY <1>3, <1>4, <1>5, <1>6, <1>7, <1>8, <1>9, <1>10, <1>11, <1>12, <1>13, <1>14 DEF Job, Reconcile

(* Steps of a request that touch neither a job nor a source.               *)
LEMMA ApiRestAfter ==
    ASSUME Flow, Places', pc["api"] # "none",
           pc'["main"] = pc["main"], pc'["job"] = pc["job"], UNCHANGED <<booted, filled, job>>,
           Attached' \subseteq Attached,
           pc["job"] # "none" => protected' = protected \/ protected',
           pc'["api"] = "prepare" => protected',
           writeLock' = writeLock \/ writeLock = "api" \/ writeLock = "free",
           pc'["api"] \in DiscardLocked => writeLock' = "api"
    PROVE  Rest'
<1>1. Locked'
  BY DEF Flow, Locked, Places
<1>2. Guarded'
  BY DEF Flow, Guarded, Places, JobPlace, Booking
<1>3. HasSource'
  BY DEF Flow, HasSource, Left
<1>4. QED
  BY <1>1, <1>2, <1>3 DEF Rest

LEMMA ApiRest ==
    ASSUME Flow, Api, Places'
    PROVE  Rest'
<1> USE DEF At, Goto, Spend, Do, SetLegacy
<1>1. /\ pc \in [Actor -> Place] /\ Actor = {"main", "job", "api"} /\ legacy \in [Source -> Status] /\ Types
      /\ "api" \in Actor /\ (pc["job"] # "none" => pc["api"] \in BesideJob)
      /\ (pc["api"] \in DiscardLocked => writeLock = "api")
  BY DEF Flow, Types, Actor, Places, Locked
<1>2. CASE EnterRequest \/ Poll \/ Repairs("api") \/ Finalize("api")
  <2>1. /\ pc["api"] # "none" /\ pc'["api"] \notin DiscardLocked \union {"prepare"}
        /\ pc'["main"] = pc["main"] /\ pc'["job"] = pc["job"]
        /\ UNCHANGED <<booted, filled, job, legacy, writeLock>> /\ (protected' = protected \/ protected')
    BY <1>1, <1>2 DEF EnterRequest, Poll, Repairs, Repair, AfterRepair, Raised, PersistRepair, DecisionCommit,
       Acknowledge, Finalize, manifest, files, locks, rest, DiscardLocked
  <2>2. QED
    BY <2>1, ApiRestAfter DEF Attached
<1>3. CASE Decide
  <2>1. /\ pc["api"] = "decide" /\ pc'["main"] = pc["main"] /\ pc'["job"] = pc["job"]
        /\ UNCHANGED <<booted, filled, job, legacy, writeLock, protected>>
    BY <1>1, <1>3 DEF Decide, manifest, files, locks, rest
  <2>2. request \in {"skip", "keep", "discard"}
    BY <2>1 DEF Flow, Places
  <2>3. pc'["api"] \notin DiscardLocked \union {"prepare"}
    <3>1. CASE Refused
      BY <1>1, <1>3, <3>1 DEF Decide, DiscardLocked
    <3>2. CASE ~Refused /\ request = "skip"
      BY <1>1, <1>3, <3>2 DEF Decide, DiscardLocked
    <3>3. CASE ~Refused /\ request = "discard"
      BY <1>1, <1>3, <3>3 DEF Decide, DiscardLocked
    <3>4. CASE ~Refused /\ request = "keep"
      BY <1>1, <1>3, <3>4 DEF Decide, DiscardLocked
    <3>5. QED
      BY <2>2, <3>1, <3>2, <3>3, <3>4
  <2>4. QED
    BY <2>1, <2>3, ApiRestAfter DEF Attached
<1>4. CASE PersistDecision
  <2>1. /\ pc["api"] # "none" /\ pc'["api"] \notin DiscardLocked \union {"prepare"}
        /\ pc'["main"] = pc["main"] /\ pc'["job"] = pc["job"]
        /\ UNCHANGED <<booted, filled, job, legacy, writeLock, protected>>
    BY <1>1, <1>4 DEF PersistDecision, Persist, DecisionCommit, manifest, files, locks, rest, DiscardLocked
  <2>2. QED
    BY <2>1, ApiRestAfter DEF Attached
<1>5. CASE SetProtection
  <2>1. /\ pc["api"] \in {"protectOn", "protectOff"} /\ pc'["api"] = "end"
        /\ pc'["main"] = pc["main"] /\ pc'["job"] = pc["job"]
        /\ UNCHANGED <<booted, filled, job, legacy, writeLock>>
    BY <1>1, <1>5 DEF SetProtection, manifest, files, locks, rest
  <2>2. QED
    BY <1>1, <2>1, ApiRestAfter DEF Attached, BesideJob, DiscardLocked
<1>6. CASE LockDiscard \/ MarkDiscarding
  <2>1. /\ pc["api"] \in {"lockDiscard", "mark"} /\ pc'["api"] \in {"leftover", "discarded", "finishDiscard", "end"}
        /\ pc'["main"] = pc["main"] /\ pc'["job"] = pc["job"]
        /\ UNCHANGED <<booted, filled, job, protected>>
    BY <1>1, <1>6 DEF LockDiscard, MarkDiscarding, manifest, files, locks, rest
  <2>2. writeLock' = "api"
    BY <1>1, <1>6 DEF LockDiscard, MarkDiscarding, DiscardLocked, locks
  <2>3. writeLock' = writeLock \/ writeLock = "free"
    BY <1>6 DEF LockDiscard, MarkDiscarding, locks
  <2>4. Attached' \subseteq Attached
    <3>1. UNCHANGED legacy \/ legacy' = [legacy EXCEPT ![Min(Attached)] = "discarding"]
      BY <1>6 DEF LockDiscard, MarkDiscarding, manifest
    <3>2. QED
      BY <1>1, <3>1 DEF Attached
  <2>5. QED
    BY <1>1, <2>1, <2>2, <2>3, <2>4, ApiRestAfter DEF BesideJob
<1>7. CASE DiscardLeftover \/ DiscardTarget
  <2>1. /\ pc["api"] \in {"leftover", "finishDiscard"} /\ pc'["main"] = pc["main"] /\ pc'["job"] = pc["job"]
        /\ pc'["api"] \in {"leftover", "copies", "end", "finishDiscard", "discarded"}
        /\ UNCHANGED <<booted, filled, job, protected, writeLock>>
    BY <1>1, <1>7, FinishDiscardDoes DEF DiscardLeftover, DiscardTarget
  <2>2. Attached' \subseteq Attached
    BY <1>1, <1>7, FinishDiscardDoes DEF DiscardLeftover, DiscardTarget, Attached
  <2>3. QED
    BY <1>1, <2>1, <2>2, ApiRestAfter DEF BesideJob, DiscardLocked
<1>8. CASE DiscardTargetCopies
  <2>1. /\ pc["api"] = "copies" /\ pc'["main"] = pc["main"] /\ pc'["job"] = pc["job"]
        /\ pc'["api"] \in {"copies", "mark", "end"}
        /\ UNCHANGED <<booted, job, protected, writeLock, legacy>>
    BY <1>1, <1>8, DiscardCopiesDoes DEF DiscardTargetCopies
  <2>2. pc["job"] = "none" /\ writeLock = "api"
    BY <1>1, <2>1 DEF BesideJob, DiscardLocked
  <2>3. pc["main"] \in Serving
    BY <2>1 DEF Flow, Places
  <2>4. Locked' /\ Guarded' /\ HasSource'
    BY <2>1, <2>2, <2>3 DEF Flow, Locked, Guarded, HasSource, Booking, Copying
  <2>5. QED
    BY <2>4 DEF Rest
<1>9. CASE Discarded
  <2>1. /\ pc["api"] = "discarded" /\ pc'["main"] = pc["main"] /\ pc'["job"] = pc["job"]
        /\ pc'["api"] \in {"persistDiscarded", "persistSkipped"}
        /\ UNCHANGED <<booted, filled, job, legacy>> /\ writeLock = "api"
    BY <1>1, <1>9 DEF Discarded, manifest, files, locks, rest, DiscardLocked
  <2>2. QED
    BY <1>1, <2>1, ApiRestAfter DEF BesideJob, DiscardLocked, Attached
<1>10. CASE StartMigration
  <2>1. /\ pc["api"] = "start" /\ pc'["main"] = pc["main"] /\ pc'["job"] = pc["job"]
        /\ \/ pc'["api"] = "end" /\ UNCHANGED <<protected, job>>
           \/ pc'["api"] = "prepare" /\ protected' /\ pc["job"] = "none"
        /\ UNCHANGED <<booted, filled, legacy, writeLock>>
    BY <1>1, <1>10 DEF StartMigration, StartRefused, manifest, files, locks
  <2>2. CASE pc["job"] = "none"
    BY <1>1, <2>1, <2>2 DEF Flow, Rest, Locked, Guarded, HasSource, Copying, Booking, DiscardLocked
  <2>3. CASE pc["job"] # "none"
    BY <2>1, <2>3, ApiRestAfter DEF Attached, DiscardLocked
  <2>4. QED
    BY <2>2, <2>3
<1>11. CASE PrepareMigration
  <2>1. /\ pc["api"] = "prepare" /\ pc'["main"] = pc["main"] /\ pc'["api"] = "end"
        /\ UNCHANGED <<booted, filled, legacy, writeLock>>
        /\ \/ pc'["job"] = "discards" /\ UNCHANGED <<protected, job>>
           \/ pc'["job"] = pc["job"]
    BY <1>1, <1>11 DEF PrepareMigration, files, locks
  <2>2. pc["job"] = "none" /\ protected
    BY <1>1, <2>1 DEF BesideJob, Flow, Guarded
  <2>3. QED
    BY <1>1, <2>1, <2>2 DEF Flow, Rest, Locked, Guarded, HasSource, Copying, Booking, DiscardLocked
<1>12. CASE EndRequest
  <2>1. /\ pc["api"] = "end" /\ pc'["main"] = pc["main"] /\ pc'["job"] = pc["job"] /\ pc'["api"] = "none"
        /\ UNCHANGED <<booted, filled, job, legacy, protected>> /\ (writeLock' = writeLock \/ writeLock = "api")
    BY <1>1, <1>12 DEF EndRequest, Release, manifest, files, rest
  <2>2. QED
    BY <2>1, ApiRestAfter DEF Attached, DiscardLocked
<1>13. QED
  BY <1>2, <1>3, <1>4, <1>5, <1>6, <1>7, <1>8, <1>9, <1>10, <1>11, <1>12 DEF Api

-----------------------------------------------------------------------------
(* The steps that no actor takes, and the flow as a whole.                 *)

LEMMA OutsideFlow ==
    ASSUME Flow,
           \/ BeginRetention \/ Crash \/ (\E kind \in Kind : Request(kind)) \/ (\E s \in Source : Quarantine(s))
           \/ UNCHANGED vars
    PROVE  Flow'
<1> USE DEF At, Goto, Spend, SetLegacy, manifest, files, locks, rest
<1>1. /\ pc \in [Actor -> Place] /\ Actor = {"main", "job", "api"} /\ legacy \in [Source -> Status] /\ Types
  BY DEF Flow, Types, Actor
<1>2. CASE BeginRetention
  <2>1. Types'
    BY <1>1, <1>2 DEF BeginRetention, Types, Place, MainPlace
  <2>2. QED
    BY <1>1, <1>2, <2>1 DEF BeginRetention, Flow, Places, Locked, Guarded, HasSource, Left, Attached, MainPlace,
       Serving, Retaining
<1>3. CASE Crash
  <2>1. used' \in [{"requests", "crashes", "faults"} -> Nat]
    BY <1>1, <1>3 DEF Crash, Types
  <2>2. Types'
    BY <1>1, <1>3, <2>1, ForgetTypes DEF Crash
  <2>3. ~booted' /\ pc'["main"] = "down" /\ pc'["job"] = "none" /\ pc'["api"] = "none"
    BY <1>1, <1>3 DEF Crash, Forget
  <2>4. Places'
    BY <2>3 DEF Places, MainPlace, JobPlace, ApiPlace, BesideJob
  <2>5. QED
    BY <2>2, <2>3, <2>4, StartingIsAlone DEF Flow, Rest
<1>4. CASE \E kind \in Kind : Request(kind)
  <2>1. Types'
    BY <1>1, <1>4 DEF Request, Types, Place, ApiPlace
  <2>2. /\ pc["api"] = "none" /\ pc'["api"] = "wait" /\ pc'["main"] = pc["main"] /\ pc'["job"] = pc["job"]
        /\ UNCHANGED <<booted, protected, legacy, writeLock, job, filled>> /\ booted
    BY <1>1, <1>4 DEF Request
  <2>3. QED
    BY <2>1, <2>2 DEF Flow, Places, Locked, Guarded, HasSource, Left, Attached, ApiPlace, BesideJob, DiscardLocked
<1>5. CASE \E s \in Source : Quarantine(s)
  <2>1. PICK s \in Source : Quarantine(s)
    BY <1>5
  <2>2. RowsOf(s) \subseteq Copy
    BY DEF RowsOf, Copy, Chunk
  <2>3. Types'
    BY <1>1, <2>1, <2>2 DEF Quarantine, Types, Status
  <2>4. Attached' = Attached
    BY <1>1, <2>1 DEF Quarantine, Attached
  <2>5. QED
    BY <2>1, <2>3, <2>4 DEF Quarantine, Flow, Places, Locked, Guarded, HasSource, Left
<1>6. CASE UNCHANGED vars
  BY <1>6 DEF vars, Flow, Types, Places, Locked, Guarded, HasSource, Left, Attached
<1>7. QED
  BY <1>2, <1>3, <1>4, <1>5, <1>6

LEMMA InitFlow ==
    ASSUME Init
    PROVE  Flow
<1>1. job \in Job_ /\ request \in Kind /\ decision \in Decision
  BY DEF Init, Job_, NoJob, Kind, Decision
<1>2. legacy \in [Source -> Status] /\ victim \in [Actor -> Source \union {0}] /\ pc \in [Actor -> Place]
  BY DEF Init, Status, Place, MainPlace, JobPlace
<1>3. used \in [{"requests", "crashes", "faults"} -> Nat]
  BY DEF Init
<1>4. Types
  BY <1>1, <1>2, <1>3 DEF Init, Types, Copy, Actor
<1>5. QED
  BY <1>4 DEF Init, Flow, Places, Locked, Guarded, HasSource, Actor, MainPlace, JobPlace, ApiPlace, Booking, Copying,
     DiscardLocked

LEMMA NextFlow ==
    ASSUME Flow, [Next]_vars
    PROVE  Flow'
<1>1. CASE Main
  BY <1>1, MainPlaces, MainTypes, MainRest DEF Flow, Rest
<1>2. CASE Job
  BY <1>2, JobPlaces, JobTypes, JobRest DEF Flow, Rest
<1>3. CASE Api
  BY <1>3, ApiPlaces, ApiTypes, ApiRest DEF Flow, Rest
<1>4. QED
  BY <1>1, <1>2, <1>3, OutsideFlow DEF Next

(* Every variable of the migration keeps its type, whatever the number of  *)
(* sources and chunks, and however often a write fails or the process ends *)
(* (offline_migration.py, persisted_config.py, api/v1/ringbuffer.py).      *)
THEOREM TypeCorrect == Spec => []TypeOK
<1>1. Init => Flow
  BY InitFlow
<1>2. Flow /\ [Next]_vars => Flow'
  BY NextFlow
<1>3. Flow => TypeOK
  BY DEF Flow, Types, TypeOK, Status, Job_
<1>4. QED
  BY <1>1, <1>2, <1>3, PTL DEF Spec

-----------------------------------------------------------------------------
(* What a step may do to the rows of the old history.                      *)

GivenUp(s) == RowsOf(s) \subseteq surrendered
MissingGivenUp == \A s \in Missing : GivenUp(s)

(* A source is marked for the discard only with its rows given up; a copy  *)
(* is filled after its manifest row and closed after its source is gone.   *)
Discards == \A s \in Source : legacy[s] = "discarding" => GivenUp(s)
Copies ==
    /\ filled \subseteq migrating \union closed
    /\ \A k \in closed : k[2] # 0 => k \notin migrating /\ k[1] \notin legacyFile /\ legacy[k[1]] = "none"
Kept == Discards /\ Copies /\ HistoryIsKept

Quiet == UNCHANGED <<legacy, migrating, closed, legacyFile, filled, surrendered>>
Attaches ==
    /\ \E s \in legacyFile : legacy[s] = "none" /\ legacy' = [legacy EXCEPT ![s] = "legacy"]
    /\ UNCHANGED <<migrating, closed, legacyFile, filled, surrendered>>
Finishes ==
    /\ legacyFile' \subseteq legacyFile /\ \A s \in legacyFile \ legacyFile' : legacy[s] = "discarding"
    /\ \A s \in Source : \/ legacy'[s] = legacy[s]
                         \/ legacy[s] = "discarding" /\ legacy'[s] = "none" /\ s \notin legacyFile
    /\ UNCHANGED <<migrating, closed, filled, surrendered>>
Promotes ==
    /\ \E S \in SUBSET (Source \ legacyFile) : Promote(S, TRUE) \/ Promote(S, FALSE)
    /\ UNCHANGED <<legacyFile, filled, surrendered>>
Spare == {k \in migrating : k[2] = 0 \/ k[1] \notin Missing \/ GivenUp(k[1])}
Drops ==
    /\ filled' \subseteq filled /\ filled \ filled' \subseteq Spare
    /\ migrating' \subseteq migrating /\ migrating \ migrating' \subseteq Spare \ filled'
    /\ UNCHANGED <<legacy, closed, legacyFile, surrendered>>
Trims ==
    /\ \E k \in closed : /\ closed' = closed \ {k} /\ filled' = filled \ {k}
                         /\ surrendered' = surrendered \union {k}
    /\ UNCHANGED <<legacy, migrating, legacyFile>>
Takes ==
    /\ \E s \in Source : /\ legacyFile' = legacyFile \ {s}
                         /\ surrendered' = surrendered \union (IF s \in legacyFile THEN RowsOf(s) ELSE {})
    /\ UNCHANGED <<legacy, migrating, closed, filled>>
Forgets ==
    /\ \E s \in Source \ legacyFile : GivenUp(s) /\ legacy' = [legacy EXCEPT ![s] = "none"]
    /\ UNCHANGED <<migrating, closed, legacyFile, filled, surrendered>>
Creates ==
    /\ \E k \in Copy : (k[2] = 0 \/ k \notin closed) /\ migrating' = migrating \union {k}
    /\ UNCHANGED <<legacy, closed, legacyFile, filled, surrendered>>
Fills ==
    /\ \E k \in migrating : filled' = filled \union {k}
    /\ UNCHANGED <<legacy, migrating, closed, legacyFile, surrendered>>
Unlinks ==
    /\ \E s \in Source :
          /\ legacyFile' = legacyFile \ {s} /\ (s \in Attached \/ GivenUp(s))
          /\ \A k \in RowsOf(s) : k \in surrendered' \/ k \in filled \intersect migrating
    /\ surrendered \subseteq surrendered' /\ surrendered' \subseteq Copy
    /\ UNCHANGED <<legacy, migrating, closed, filled>>
GivesUp ==
    /\ \E s \in Attached : /\ surrendered' = surrendered \union RowsOf(s)
                           /\ legacy' = legacy \/ legacy' = [legacy EXCEPT ![s] = "discarding"]
                              \/ legacy' = [legacy EXCEPT ![s] = "quarantined"]
    /\ UNCHANGED <<migrating, closed, legacyFile, filled>>

Calm == \/ Quiet \/ Attaches \/ Finishes \/ Promotes \/ Drops \/ Trims \/ Takes \/ Forgets \/ Creates \/ Fills
        \/ GivesUp

LEMMA PromotesDoes ==
    ASSUME Types, Promotes
    PROVE  \E S \in SUBSET (Source \ legacyFile) :
              /\ \A s \in Source : legacy'[s] = IF s \in S THEN "none" ELSE legacy[s]
              /\ migrating' \subseteq migrating /\ closed \subseteq closed'
              /\ migrating \union closed = migrating' \union closed'
              /\ closed' \ closed \subseteq migrating \ migrating'
              /\ \A k \in Copy : k \in closed' \ closed => k[2] = 0 \/ k[1] \in S
              /\ \A k \in Copy : k \in migrating /\ k[1] \in S /\ k[2] # 0 => k \in closed'
              /\ UNCHANGED <<legacyFile, filled, surrendered>>
<1>1. PICK S \in SUBSET (Source \ legacyFile) : Promote(S, TRUE) \/ Promote(S, FALSE)
  BY DEF Promotes
<1>2. S \in SUBSET Source
  OBVIOUS
<1>3. /\ \A s \in Source : legacy'[s] = IF s \in S THEN "none" ELSE legacy[s]
      /\ migrating' \subseteq migrating /\ closed \subseteq closed'
      /\ migrating \union closed = migrating' \union closed'
      /\ closed' \ closed \subseteq migrating \ migrating'
      /\ \A k \in Copy : k \in closed' \ closed => k[2] = 0 \/ k[1] \in S
      /\ \A k \in Copy : k \in migrating /\ k[1] \in S /\ k[2] # 0 => k \in closed'
  BY <1>1, <1>2, PromoteDoes
<1>4. UNCHANGED <<legacyFile, filled, surrendered>>
  BY DEF Promotes
<1>5. QED
  BY <1>3, <1>4

LEMMA RowsAre ==
    ASSUME NEW s \in Source
    PROVE  RowsOf(s) \subseteq Copy /\ RowsOf(s) \subseteq Source \X Chunk
           /\ \A k \in RowsOf(s) : k[1] = s /\ k[2] # 0
           /\ \A m \in Source \X Chunk : m[1] = s => m \in RowsOf(s)
BY DEF RowsOf, Copy, Chunk

LEMMA KeepsDiscards ==
    ASSUME Types, Discards, Calm \/ Unlinks
    PROVE  Discards'
<1> USE DEF Types
<1>1. surrendered \subseteq surrendered'
  BY DEF Calm, Quiet, Attaches, Finishes, Promotes, Drops, Trims, Takes, Forgets, Creates, Fills, GivesUp, Unlinks
<1>2. \A s \in Source : legacy'[s] = "discarding" => legacy[s] = "discarding" \/ RowsOf(s) \subseteq surrendered'
  <2>1. CASE Promotes
    BY <2>1, PromoteDoes DEF Promotes
  <2>2. CASE ~Promotes
    BY <2>2 DEF Calm, Quiet, Attaches, Finishes, Drops, Trims, Takes, Forgets, Creates, Fills, GivesUp, Unlinks,
       Attached
  <2>3. QED
    BY <2>1, <2>2
<1>3. QED
  BY <1>1, <1>2 DEF Discards, GivenUp

LEMMA KeepsMissing ==
    ASSUME Types, MissingGivenUp, Calm
    PROVE  MissingGivenUp'
<1> USE DEF Types
<1>1. surrendered \subseteq surrendered'
  BY DEF Calm, Quiet, Attaches, Finishes, Promotes, Drops, Trims, Takes, Forgets, Creates, Fills, GivesUp
<1>2. \A s \in Source : s \in Missing' => s \in Missing \/ RowsOf(s) \subseteq surrendered'
  <2>1. CASE Promotes
    BY <2>1, PromoteDoes DEF Promotes, Missing, Attached
  <2>2. CASE ~Promotes
    BY <2>2 DEF Calm, Quiet, Attaches, Finishes, Drops, Trims, Takes, Forgets, Creates, Fills, GivesUp, Missing,
       Attached
  <2>3. QED
    BY <2>1, <2>2
<1>3. Missing' \subseteq Source
  BY DEF Missing, Attached
<1>4. QED
  BY <1>1, <1>2, <1>3 DEF MissingGivenUp, GivenUp

LEMMA KeepsCopies ==
    ASSUME Types, Copies, Calm \/ Unlinks
    PROVE  Copies'
<1> USE DEF Types, Copies
<1>1. CASE Quiet \/ Drops \/ Trims \/ Takes \/ Creates \/ Fills \/ Unlinks
  BY <1>1 DEF Quiet, Drops, Trims, Takes, Creates, Fills, Unlinks
<1>2. CASE Attaches \/ Finishes \/ Forgets \/ GivesUp
  <2>1. closed \subseteq Source \X (0..LastChunk)
    BY DEF Copy
  <2>2. \A k \in closed : k[1] \in Source
    BY <2>1
  <2>3. \A s \in Source : legacy[s] = "none" /\ s \notin legacyFile => legacy'[s] = "none"
    BY <1>2 DEF Attaches, Finishes, Forgets, GivesUp, Attached
  <2>4. legacyFile' \subseteq legacyFile /\ UNCHANGED <<migrating, closed, filled>>
    BY <1>2 DEF Attaches, Finishes, Forgets, GivesUp
  <2>5. QED
    BY <2>2, <2>3, <2>4
<1>3. CASE Promotes
  <2>1. PICK S \in SUBSET (Source \ legacyFile) :
          /\ \A s \in Source : legacy'[s] = IF s \in S THEN "none" ELSE legacy[s]
          /\ migrating' \subseteq migrating /\ closed \subseteq closed'
          /\ migrating \union closed = migrating' \union closed'
          /\ closed' \ closed \subseteq migrating \ migrating'
          /\ \A k \in Copy : k \in closed' \ closed => k[2] = 0 \/ k[1] \in S
          /\ UNCHANGED <<legacyFile, filled>>
    BY <1>3, PromotesDoes
  <2>2. closed \subseteq Copy /\ closed' \subseteq Copy /\ \A k \in Copy : k[1] \in Source
    BY <2>1 DEF Copy
  <2>3. QED
    BY <2>1, <2>2
<1>4. QED
  BY <1>1, <1>2, <1>3 DEF Calm

LEMMA KeepsHistory ==
    ASSUME Types, Kept, Calm \/ Unlinks
    PROVE  HistoryIsKept'
<1> USE DEF Types
<1>1. SUFFICES ASSUME NEW k \in Source \X Chunk, k \notin surrendered'
               PROVE  Recoverable(k)'
  BY DEF HistoryIsKept
<1>2. surrendered \subseteq surrendered'
  BY DEF Calm, Quiet, Attaches, Finishes, Promotes, Drops, Trims, Takes, Forgets, Creates, Fills, GivesUp, Unlinks
<1>3. Recoverable(k) /\ k[1] \in Source /\ k[2] # 0 /\ k \in RowsOf(k[1]) /\ k \in Copy
  BY <1>1, <1>2 DEF Kept, HistoryIsKept, RowsOf, Copy, Chunk
<1>4. CASE Quiet \/ Creates \/ Fills
  BY <1>3, <1>4 DEF Quiet, Creates, Fills, Recoverable, Missing, Attached
<1>5. CASE Attaches
  <2>1. PICK s \in legacyFile : legacy[s] = "none" /\ legacy' = [legacy EXCEPT ![s] = "legacy"]
    BY <1>5 DEF Attaches
  <2>2. \A r \in Source : r \in Attached => r \in Attached'
    BY <2>1 DEF Attached
  <2>3. k[1] \in legacyFile /\ legacy[k[1]] = "none" => k[1] \in Attached' \/ legacy'[k[1]] = "none"
    BY <2>1 DEF Attached
  <2>4. UNCHANGED <<migrating, closed, legacyFile, filled>>
    BY <1>5 DEF Attaches
  <2>5. QED
    BY <1>3, <2>2, <2>3, <2>4 DEF Recoverable, Missing
<1>6. CASE Finishes
  <2>1. legacy[k[1]] # "discarding"
    BY <1>1, <1>2, <1>3 DEF Kept, Discards, GivenUp
  <2>2. legacy'[k[1]] = legacy[k[1]] /\ (k[1] \in legacyFile' <=> k[1] \in legacyFile)
    BY <1>3, <1>6, <2>1 DEF Finishes
  <2>3. UNCHANGED <<migrating, closed, filled>>
    BY <1>6 DEF Finishes
  <2>4. QED
    BY <1>3, <2>2, <2>3 DEF Recoverable, Missing, Attached
<1>7. CASE Promotes
  <2>1. PICK S \in SUBSET (Source \ legacyFile) :
          /\ \A s \in Source : legacy'[s] = IF s \in S THEN "none" ELSE legacy[s]
          /\ closed \subseteq closed' /\ migrating \union closed = migrating' \union closed'
          /\ \A r \in Copy : r \in closed' \ closed => r[2] = 0 \/ r[1] \in S
          /\ \A r \in Copy : r \in migrating /\ r[1] \in S /\ r[2] # 0 => r \in closed'
          /\ UNCHANGED <<legacyFile, filled>>
    BY <1>7, PromotesDoes
  <2>2. /\ legacy'[k[1]] = IF k[1] \in S THEN "none" ELSE legacy[k[1]]
        /\ closed \subseteq closed' /\ migrating \union closed = migrating' \union closed'
        /\ k \in migrating /\ k[1] \in S => k \in closed'
        /\ k \in closed' \ closed => k[1] \in S
        /\ UNCHANGED <<legacyFile, filled>>
    BY <1>3, <2>1
  <2>3. CASE k[1] \in S
    BY <1>3, <2>1, <2>2, <2>3 DEF Recoverable
  <2>4. CASE k[1] \notin S
    BY <1>3, <2>2, <2>4 DEF Recoverable, Missing, Attached
  <2>5. QED
    BY <2>3, <2>4
<1>8. CASE Drops
  <2>1. k \in closed => k \notin migrating
    BY <1>3 DEF Kept, Copies
  <2>2. k[1] \in Missing => ~GivenUp(k[1])
    BY <1>1, <1>2, <1>3 DEF GivenUp
  <2>3. k \in closed \/ k[1] \in Missing => k \notin Spare
    BY <1>3, <2>1, <2>2 DEF Spare
  <2>4. Missing' = Missing /\ UNCHANGED <<legacy, closed, legacyFile>> /\ Attached' = Attached
    BY <1>8 DEF Drops, Missing, Attached
  <2>5. QED
    BY <1>3, <1>8, <2>3, <2>4 DEF Drops, Recoverable
<1>9. CASE Trims
  BY <1>1, <1>3, <1>9 DEF Trims, Recoverable, Missing, Attached
<1>10. CASE Takes
  <2>1. k[1] \in legacyFile => k[1] \in legacyFile'
    BY <1>1, <1>3, <1>10 DEF Takes
  <2>2. UNCHANGED <<legacy, migrating, closed, filled>> /\ legacyFile' \subseteq legacyFile
    BY <1>10 DEF Takes
  <2>3. QED
    BY <1>3, <2>1, <2>2 DEF Recoverable, Missing, Attached
<1>11. CASE Forgets
  <2>1. PICK s \in Source \ legacyFile : GivenUp(s) /\ legacy' = [legacy EXCEPT ![s] = "none"]
    BY <1>11 DEF Forgets
  <2>2. k[1] # s
    BY <1>1, <1>2, <1>3, <2>1 DEF GivenUp
  <2>3. legacy'[k[1]] = legacy[k[1]] /\ UNCHANGED <<migrating, closed, legacyFile, filled>>
    BY <1>3, <1>11, <2>1, <2>2 DEF Forgets
  <2>4. QED
    BY <1>3, <2>3 DEF Recoverable, Missing, Attached
<1>12. CASE GivesUp
  <2>1. PICK s \in Attached : /\ surrendered' = surrendered \union RowsOf(s)
                              /\ legacy' = legacy \/ legacy' = [legacy EXCEPT ![s] = "discarding"]
                                 \/ legacy' = [legacy EXCEPT ![s] = "quarantined"]
    BY <1>12 DEF GivesUp
  <2>2. k[1] # s
    BY <1>1, <1>3, <2>1
  <2>3. legacy'[k[1]] = legacy[k[1]] /\ UNCHANGED <<migrating, closed, legacyFile, filled>>
    BY <1>3, <1>12, <2>1, <2>2 DEF GivesUp
  <2>4. QED
    BY <1>3, <2>3 DEF Recoverable, Missing, Attached
<1>13. CASE Unlinks
  <2>1. PICK s \in Source :
          /\ legacyFile' = legacyFile \ {s} /\ (s \in Attached \/ GivenUp(s))
          /\ \A r \in RowsOf(s) : r \in surrendered' \/ r \in filled \intersect migrating
    BY <1>13 DEF Unlinks
  <2>2. UNCHANGED <<legacy, migrating, closed, filled>> /\ Attached' = Attached
    BY <1>13 DEF Unlinks, Attached
  <2>3. CASE k[1] = s
    <3>1. k \in filled \intersect migrating
      BY <1>1, <1>3, <2>1, <2>3
    <3>2. s \in Attached
      BY <1>1, <1>2, <1>3, <2>1, <2>3 DEF GivenUp
    <3>3. s \in Missing'
      BY <2>1, <2>2, <3>2 DEF Missing
    <3>4. QED
      BY <2>2, <2>3, <3>1, <3>3 DEF Recoverable
  <2>4. CASE k[1] # s
    BY <1>3, <2>1, <2>2, <2>4 DEF Recoverable, Missing
  <2>5. QED
    BY <2>3, <2>4
<1>14. QED
  BY <1>4, <1>5, <1>6, <1>7, <1>8, <1>9, <1>10, <1>11, <1>12, <1>13 DEF Calm

-----------------------------------------------------------------------------
(* What the actors know when they touch those rows.                        *)

(* A retention pass of main holds a source, and forgets it only when its   *)
(* file is gone and its rows are given up.                                 *)
Victim ==
    /\ pc["main"] \in {"unlink", "forget"} => victim["main"] \in Source
    /\ pc["main"] = "unlink" /\ victim["main"] \notin legacyFile => GivenUp(victim["main"])
    /\ pc["main"] = "forget" => victim["main"] \notin legacyFile /\ GivenUp(victim["main"])

(* Who drops copies, or lets retention begin, has no source whose file is  *)
(* gone and whose rows live on in copies alone.                            *)
Working == {"orphans", "stale", "plan", "sample", "fillSample", "dropSample", "cutoff", "copy", "fill",
            "unlinkSource"}
Unfinished == Working \union {"discards", "complete", "commit", "failed"}
Deciding == {"persistKeep", "protectOff", "lockDiscard", "leftover", "copies", "mark"}
BootDone == MainPlace \ {"down", "attach", "discards", "complete", "failed"}
Protects ==
    /\ booted /\ ~protected => MissingGivenUp
    /\ ~booted /\ pc["main"] \in BootDone => MissingGivenUp
    /\ pc["job"] \in Working => MissingGivenUp
    /\ pc["api"] \in Deciding => MissingGivenUp
    /\ pc["job"] \in Unfinished \/ pc["api"] = "prepare" => job.prev = TRUE \/ job.unlinked = TRUE \/ MissingGivenUp
    /\ pc["api"] = "prepare" => job.unlinked = FALSE

(* The job copies rows that are not yet closed, of a source that is there  *)
(* until retention takes it; it unlinks the source when all are filled.    *)
Jobs ==
    /\ pc["job"] \in Copying => /\ \A c \in Chunk : <<job.source, c>> \notin closed
                                /\ job.source \in Attached \/ GivenUp(job.source)
    /\ pc["job"] = "fillSample" => Sample(job.source) \in migrating
    /\ pc["job"] = "fill" => NextCopy \in migrating
    /\ pc["job"] \in {"unlinkSource", "commit"} => {job.source} \X job.chunks \subseteq filled
    /\ pc["job"] = "commit" => job.unlinked = TRUE /\ job.source \notin legacyFile

Held == Flow /\ Kept /\ Victim /\ Protects /\ Jobs

LEMMA FinishCalm ==
    ASSUME Types, NEW a \in Actor, NEW place, NEW next, NEW raised, FinishDiscard(a, place, next, raised)
    PROVE  Calm
BY FinishDiscardDoes DEF Calm, Finishes

LEMMA CompleteCalm ==
    ASSUME Types, NEW a \in Actor, CompleteCommit(a)
    PROVE  Calm
<1>1. UNCHANGED <<legacyFile, filled, surrendered>> /\ (Promote(Missing, TRUE) \/ UNCHANGED manifest)
  BY CompleteCommitDoes
<1>2. Missing \in SUBSET (Source \ legacyFile)
  BY DEF Missing, Attached
<1>3. CASE Promote(Missing, TRUE)
  BY <1>1, <1>2, <1>3 DEF Calm, Promotes
<1>4. CASE UNCHANGED manifest
  BY <1>1, <1>4 DEF Calm, Quiet, manifest
<1>5. QED
  BY <1>1, <1>3, <1>4

LEMMA DropCalm ==
    ASSUME Types, NEW a \in Actor, NEW S, NEW place, NEW next, NEW kept, NEW raised,
           DiscardCopies(a, S, place, next, kept, raised), S \subseteq Spare
    PROVE  Calm
<1>1. /\ filled' \subseteq filled /\ filled \ filled' \subseteq S
      /\ migrating' \subseteq migrating /\ migrating \ migrating' \subseteq S \ filled'
      /\ UNCHANGED <<legacy, closed, legacyFile, surrendered>>
  BY DiscardCopiesDoes
<1>2. QED
  BY <1>1 DEF Calm, Drops

LEMMA OrphansCalm ==
    ASSUME Types, NEW a \in Actor, DiscardOrphans(a)
    PROVE  Calm
<1>1. (IF Attached = {} THEN migrating ELSE {}) \subseteq Spare
  BY DEF Spare, Missing
<1>2. QED
  BY <1>1, DropCalm DEF DiscardOrphans

LEMMA ReconcileFrame ==
    ASSUME Types, NEW a \in Actor, Reconcile(a)
    PROVE  /\ \A b \in Actor : b # a => pc'[b] = pc[b]
           /\ UNCHANGED <<booted, job, victim, protected, decision>>
           /\ pc[a] \in {"discards", "complete", "orphans"}
<1>1. pc \in [Actor -> Place]
  BY DEF Types
<1>2. CASE ReconcileDiscards(a)
  BY <1>2, FinishDiscardDoes DEF ReconcileDiscards
<1>3. CASE CompleteCommit(a)
  BY <1>1, <1>3, CompleteCommitDoes
<1>4. CASE DiscardOrphans(a)
  BY <1>4, DiscardCopiesDoes DEF DiscardOrphans
<1>5. QED
  BY <1>2, <1>3, <1>4 DEF Reconcile

LEMMA RepairsQuiet ==
    ASSUME NEW a \in Actor, Repairs(a) \/ Finalize(a)
    PROVE  Quiet
BY DEF Repairs, Repair, PersistRepair, DecisionCommit, Acknowledge, Finalize, Quiet, manifest, files

LEMMA MainCalm ==
    ASSUME Held, Main
    PROVE  Calm
<1> USE DEF At, Goto, Spend, Do, SetLegacy
<1>1. Types /\ "main" \in Actor
  BY DEF Held, Flow, Actor
<1>2. CASE \/ Start \/ ProtectForRepair \/ StartFails \/ Booted \/ RetentionFails \/ EndRetention("main")
           \/ ChooseSource("main")
  BY <1>2 DEF Start, ProtectForRepair, StartFails, Booted, RetentionFails, EndRetention, ChooseSource, Calm, Quiet,
     manifest, files
<1>3. CASE Attach
  <2>1. Primary \in legacyFile => Primary \in Source
    BY <1>1 DEF Types
  <2>2. QED
    BY <1>3 DEF Attach, Calm, Quiet, Attaches, files
<1>4. CASE Reconcile("main")
  BY <1>1, <1>4, FinishCalm, CompleteCalm, OrphansCalm DEF Reconcile, ReconcileDiscards
<1>5. CASE UnlinkVictim("main")
  <2>1. victim["main"] \in Source
    BY <1>5 DEF UnlinkVictim, Held, Victim
  <2>2. QED
    BY <1>5, <2>1 DEF UnlinkVictim, Calm, Quiet, Takes, manifest
<1>6. CASE ForgetVictim("main")
  <2>1. victim["main"] \in Source \ legacyFile /\ GivenUp(victim["main"])
    BY <1>6 DEF ForgetVictim, Held, Victim
  <2>2. QED
    BY <1>6, <2>1 DEF ForgetVictim, Calm, Quiet, Forgets, files
<1>7. CASE TrimCopy("main")
  BY <1>7 DEF TrimCopy, Calm, Trims
<1>8. CASE Repairs("main") \/ Finalize("main")
  BY <1>1, <1>8, RepairsQuiet DEF Calm
<1>9. QED
  BY <1>2, <1>3, <1>4, <1>5, <1>6, <1>7, <1>8 DEF Main, Retention

(* The job takes no victim: while it could, the sources are protected.     *)
LEMMA JobTrims ==
    ASSUME Flow, Retention("job")
    PROVE  EndRetention("job") \/ TrimCopy("job")
BY DEF Retention, ChooseSource, UnlinkVictim, ForgetVictim, At, Flow, Places, Guarded, Released, JobPlace, Booking

LEMMA JobCalm ==
    ASSUME Held, Job
    PROVE  Calm \/ (UnlinkSource /\ Unlinks)
<1> USE DEF At, Goto, Spend, Do
<1>1. Types /\ "job" \in Actor
  BY DEF Held, Flow, Actor
<1>2. CASE Reconcile("job")
  BY <1>1, <1>2, FinishCalm, CompleteCalm, OrphansCalm DEF Reconcile, ReconcileDiscards
<1>3. CASE DiscardStale
  <2>1. MissingGivenUp
    BY <1>3 DEF DiscardStale, DiscardCopies, Held, Protects, Working
  <2>2. migrating \subseteq Spare
    BY <2>1 DEF Spare, MissingGivenUp
  <2>3. QED
    BY <1>1, <1>3, <2>2, DropCalm DEF DiscardStale
<1>4. CASE DropSample
  <2>1. migrating \intersect {Sample(job.source)} \subseteq Spare
    BY DEF Spare, Sample
  <2>2. QED
    BY <1>1, <1>4, <2>1, DropCalm DEF DropSample
<1>5. CASE \/ Plan \/ Cutoff \/ SourceGone \/ LockForCommit \/ EndRetention("job") \/ Bookkeeping \/ LockDecision
           \/ PersistMigrated \/ JobFails \/ JobEnds
  BY <1>5 DEF Plan, Cutoff, SourceGone, LockForCommit, EndRetention, Bookkeeping, LockDecision, PersistMigrated,
     DecisionCommit, JobFails, JobEnds, Calm, Quiet, manifest, files
<1>6. CASE CreateSample \/ FillSample
  <2>1. job.source \in Source
    BY <1>6 DEF CreateSample, FillSample, CreateCopy, FillCopy, Held, Flow, HasSource, Copying
  <2>2. Sample(job.source) \in Copy /\ Sample(job.source)[2] = 0
    BY <2>1, SourceAssumption DEF Sample, Copy
  <2>3. CASE CreateSample
    BY <2>2, <2>3 DEF CreateSample, CreateCopy, Calm, Quiet, Creates, files
  <2>4. CASE FillSample
    <3>1. Sample(job.source) \in migrating
      BY <2>4 DEF FillSample, FillCopy, Held, Jobs
    <3>2. QED
      BY <2>4, <3>1 DEF FillSample, FillCopy, Calm, Quiet, Fills, manifest
  <2>5. QED
    BY <1>6, <2>3, <2>4
<1>7. CASE CopyRows
  <2>1. Left # {} /\ job.source \in Source /\ pc["job"] \in Copying
    BY <1>7 DEF CopyRows, CreateCopy, FillCopy, Held, Flow, HasSource, Copying
  <2>2. \E c \in Chunk : NextCopy = <<job.source, c>>
    BY <1>1, <2>1, NextIsLeft
  <2>3. NextCopy \in Copy /\ NextCopy \notin closed
    BY <2>1, <2>2 DEF Held, Jobs, Copy, Chunk
  <2>4. CASE CreateCopy(NextCopy, "copy", "fill")
    BY <2>3, <2>4 DEF CreateCopy, Calm, Quiet, Creates, files
  <2>5. CASE FillCopy(NextCopy, "fill", "copy")
    <3>1. NextCopy \in migrating
      BY <2>5 DEF FillCopy, Held, Jobs
    <3>2. QED
      BY <2>5, <3>1 DEF FillCopy, Calm, Quiet, Fills, manifest
  <2>6. QED
    BY <1>7, <2>4, <2>5 DEF CopyRows
<1>8. CASE UnlinkSource
  <2>1. pc["job"] = "unlinkSource" /\ job.source \in Source /\ job \in Job_
    BY <1>1, <1>8 DEF UnlinkSource, Held, Flow, HasSource, Copying, Types
  <2>2. /\ {job.source} \X job.chunks \subseteq filled /\ \A c \in Chunk : <<job.source, c>> \notin closed
        /\ job.source \in Attached \/ GivenUp(job.source)
    BY <2>1 DEF Held, Jobs, Copying
  <2>3. {job.source} \X job.chunks \subseteq filled \intersect migrating
    <3>1. job.chunks \subseteq Chunk
      BY <2>1 DEF Job_
    <3>2. filled \subseteq migrating \union closed
      BY DEF Held, Kept, Copies
    <3>3. QED
      BY <2>2, <3>1, <3>2
  <2>4. CASE surrendered' = surrendered \union (RowsOf(job.source) \ ({job.source} \X job.chunks))
             /\ legacyFile' = legacyFile \ {job.source}
    <3>1. RowsOf(job.source) \subseteq Copy
      BY <2>1, RowsAre
    <3>2. surrendered \subseteq surrendered' /\ surrendered' \subseteq Copy
      BY <1>1, <2>4, <3>1 DEF Types
    <3>3. \A k \in RowsOf(job.source) : k \in surrendered' \/ k \in filled \intersect migrating
      BY <2>3, <2>4
    <3>4. UNCHANGED <<legacy, migrating, closed, filled>>
      BY <1>8 DEF UnlinkSource, manifest
    <3>5. Unlinks
      BY <2>1, <2>2, <2>4, <3>2, <3>3, <3>4 DEF Unlinks
    <3>6. QED
      BY <1>8, <3>5
  <2>5. CASE UNCHANGED <<legacyFile, surrendered>>
    BY <1>8, <2>5 DEF UnlinkSource, Calm, Quiet, manifest
  <2>6. QED
    BY <1>8, <2>4, <2>5 DEF UnlinkSource
<1>9. CASE CommitMigration
  <2>1. UNCHANGED manifest \/ Promote({job.source}, FALSE)
    BY <1>9, Zenon DEF CommitMigration
  <2>2. pc["job"] = "commit"
    BY <1>9 DEF CommitMigration
  <2>3. {job.source} \in SUBSET (Source \ legacyFile)
    BY <2>2 DEF Held, Flow, HasSource, Copying, Jobs
  <2>4. UNCHANGED <<legacyFile, filled, surrendered>>
    BY <1>9 DEF CommitMigration, files
  <2>5. CASE UNCHANGED manifest
    BY <2>4, <2>5 DEF Calm, Quiet, manifest
  <2>6. CASE Promote({job.source}, FALSE)
    BY <2>3, <2>4, <2>6 DEF Calm, Promotes
  <2>7. QED
    BY <2>1, <2>5, <2>6
<1>10. CASE TrimCopy("job")
  BY <1>10 DEF TrimCopy, Calm, Trims
<1>11. CASE Repairs("job")
  BY <1>1, <1>11, RepairsQuiet DEF Calm
<1>12. QED
  BY <1>2, <1>3, <1>4, <1>5, <1>6, <1>7, <1>8, <1>9, <1>10, <1>11, JobTrims DEF Job, Held

LEMMA ApiCalm ==
    ASSUME Held, Api
    PROVE  Calm
<1> USE DEF At, Goto, Spend, Do, SetLegacy
<1>1. Types /\ "api" \in Actor
  BY DEF Held, Flow, Actor
<1>2. CASE \/ EnterRequest \/ Poll \/ Decide \/ PersistDecision \/ SetProtection \/ LockDiscard \/ Discarded
           \/ StartMigration \/ PrepareMigration \/ EndRequest
  BY <1>2 DEF EnterRequest, Poll, Decide, PersistDecision, Persist, DecisionCommit, SetProtection, LockDiscard, Discarded,
     StartMigration, PrepareMigration, EndRequest, Calm, Quiet, manifest, files
<1>3. CASE Repairs("api") \/ Finalize("api")
  BY <1>1, <1>3, RepairsQuiet DEF Calm
<1>4. CASE DiscardLeftover \/ DiscardTarget
  BY <1>1, <1>4, FinishCalm DEF DiscardLeftover, DiscardTarget
<1>5. CASE DiscardTargetCopies
  <2>1. MissingGivenUp
    BY <1>5 DEF DiscardTargetCopies, DiscardCopies, Held, Protects, Deciding
  <2>2. CopiesOfTarget \subseteq Spare
    BY <2>1 DEF Spare, MissingGivenUp, CopiesOfTarget
  <2>3. QED
    BY <1>1, <1>5, <2>2, DropCalm DEF DiscardTargetCopies
<1>6. CASE MarkDiscarding
  <2>1. Attached # {} => Min(Attached) \in Attached
    BY SourceMin DEF Attached
  <2>2. QED
    BY <1>6, <2>1 DEF MarkDiscarding, Calm, Quiet, GivesUp, files
<1>7. QED
  BY <1>2, <1>3, <1>4, <1>5, <1>6 DEF Api

LEMMA OutsideCalm ==
    ASSUME BeginRetention \/ Crash \/ (\E kind \in Kind : Request(kind)) \/ (\E s \in Source : Quarantine(s))
           \/ UNCHANGED vars
    PROVE  Calm
<1>1. CASE BeginRetention \/ Crash \/ (\E kind \in Kind : Request(kind)) \/ UNCHANGED vars
  BY <1>1 DEF BeginRetention, Crash, Request, vars, Calm, Quiet, manifest, files
<1>2. CASE \E s \in Source : Quarantine(s)
  BY <1>2 DEF Quarantine, SetLegacy, Calm, GivesUp, Attached, files
<1>3. QED
  BY <1>1, <1>2

LEMMA KeepsKept ==
    ASSUME Held, [Next]_vars
    PROVE  Kept'
<1>1. Calm \/ Unlinks
  BY MainCalm, JobCalm, ApiCalm, OutsideCalm DEF Next
<1>2. QED
  BY <1>1, KeepsDiscards, KeepsCopies, KeepsHistory DEF Held, Flow, Kept

-----------------------------------------------------------------------------
(* The victim of main.                                                     *)

LEMMA CalmTakes ==
    ASSUME Types, Discards, Calm
    PROVE  /\ surrendered \subseteq surrendered' /\ legacyFile' \subseteq legacyFile
           /\ \A s \in legacyFile \ legacyFile' : RowsOf(s) \subseteq surrendered'
           /\ \A s \in Attached : s \in Attached' \/ RowsOf(s) \subseteq surrendered' \/ s \notin legacyFile
<1> USE DEF Types
<1>1. CASE Promotes
  <2>1. PICK S \in SUBSET (Source \ legacyFile) :
          /\ \A s \in Source : legacy'[s] = IF s \in S THEN "none" ELSE legacy[s]
          /\ UNCHANGED <<legacyFile, filled, surrendered>>
    BY <1>1, PromotesDoes
  <2>2. QED
    BY <2>1 DEF Attached
<1>2. CASE Quiet \/ Attaches \/ Finishes \/ Drops \/ Trims \/ Creates \/ Fills \/ GivesUp
  BY <1>2 DEF Quiet, Attaches, Finishes, Drops, Trims, Creates, Fills, GivesUp, Discards, GivenUp, Attached
<1>3. CASE Takes \/ Forgets
  BY <1>3 DEF Takes, Forgets, GivenUp, Attached
<1>4. QED
  BY <1>1, <1>2, <1>3 DEF Calm

LEMMA VictimAfter ==
    ASSUME Held, Calm, pc'["main"] = pc["main"], victim'["main"] = victim["main"]
    PROVE  Victim'
<1>1. Types /\ Discards /\ Victim
  BY DEF Held, Flow, Kept
<1>2. /\ surrendered \subseteq surrendered' /\ legacyFile' \subseteq legacyFile
      /\ \A s \in legacyFile \ legacyFile' : RowsOf(s) \subseteq surrendered'
  BY <1>1, CalmTakes
<1>3. QED
  BY <1>1, <1>2 DEF Victim, GivenUp

LEMMA MainVictim ==
    ASSUME Held, Main
    PROVE  Victim'
<1> USE DEF At, Goto, Spend, Do, SetLegacy
<1>1. /\ Types /\ pc \in [Actor -> Place] /\ Actor = {"main", "job", "api"} /\ victim \in [Actor -> Source \union {0}]
      /\ legacyFile \subseteq Source
  BY DEF Held, Flow, Types, Actor
<1>2. CASE ChooseSource("main")
  <2>1. pc["main"] = "retain" /\ Released # {} /\ victim' = [victim EXCEPT !["main"] = Min(Released)]
        /\ pc' = [pc EXCEPT !["main"] = "unlink"] /\ UNCHANGED <<legacyFile, surrendered, legacy>>
    BY <1>2 DEF ChooseSource, manifest, files
  <2>2. Min(Released) \in Released /\ Min(Released) \in Source /\ ~protected
    BY <2>1, SourceMin DEF Released
  <2>3. MissingGivenUp
    BY <2>1, <2>2 DEF Held, Protects, BootDone, MainPlace
  <2>4. legacy[Min(Released)] \in {"legacy", "quarantined", "discarding"}
    BY <1>1, <2>2 DEF Released, Types, Status
  <2>5. Min(Released) \notin legacyFile => GivenUp(Min(Released))
    BY <2>2, <2>3, <2>4 DEF Held, Kept, Discards, MissingGivenUp, Missing, Attached
  <2>6. victim'["main"] = Min(Released) /\ pc'["main"] = "unlink"
    BY <1>1, <2>1
  <2>7. QED
    BY <2>1, <2>2, <2>5, <2>6 DEF Victim, GivenUp
<1>3. CASE UnlinkVictim("main")
  <2>1. pc["main"] = "unlink" /\ pc'["main"] \in {"forget", "retain"} /\ victim' = victim
    BY <1>1, <1>3 DEF UnlinkVictim, rest
  <2>2. victim["main"] \in Source /\ (victim["main"] \notin legacyFile => GivenUp(victim["main"]))
    BY <2>1 DEF Held, Victim
  <2>3. pc'["main"] = "forget" => /\ legacyFile' = legacyFile \ {victim["main"]}
                                  /\ surrendered' = surrendered \union
                                        (IF victim["main"] \in legacyFile THEN RowsOf(victim["main"]) ELSE {})
    BY <1>1, <1>3 DEF UnlinkVictim
  <2>4. QED
    BY <2>1, <2>2, <2>3 DEF Victim, GivenUp
<1>4. CASE TrimCopy("main")
  BY <1>4, MainCalm, VictimAfter DEF TrimCopy, rest
<1>5. SUFFICES ASSUME ~ChooseSource("main"), ~UnlinkVictim("main"), ~TrimCopy("main")
               PROVE  pc'["main"] \notin {"unlink", "forget"}
  BY <1>2, <1>3, <1>4 DEF Victim
<1>6. CASE Start \/ Attach \/ ProtectForRepair \/ RetentionFails
  BY <1>1, <1>6 DEF Start, Attach, ProtectForRepair, RetentionFails
<1>7. CASE StartFails
  BY <1>1, <1>7 DEF StartFails, Forget
<1>8. CASE Booted \/ EndRetention("main") \/ ForgetVictim("main")
  BY <1>1, <1>8 DEF Booted, EndRetention, AfterRetention, ForgetVictim
<1>9. CASE Repairs("main") \/ Finalize("main")
  BY <1>1, <1>9 DEF Repairs, Repair, AfterRepair, Raised, PersistRepair, DecisionCommit, Acknowledge, Finalize
<1>10. CASE ReconcileDiscards("main")
  BY <1>1, <1>10, FinishDiscardDoes DEF ReconcileDiscards
<1>11. CASE CompleteCommit("main")
  BY <1>1, <1>11, CompleteCommitDoes DEF AfterCompletion
<1>12. CASE DiscardOrphans("main")
  BY <1>1, <1>12, DiscardCopiesDoes DEF DiscardOrphans, AfterReconcile
<1>13. QED
  BY <1>5, <1>6, <1>7, <1>8, <1>9, <1>10, <1>11, <1>12 DEF Main, Reconcile, Retention

LEMMA JobFrame ==
    ASSUME Flow, Job
    PROVE  UNCHANGED <<booted, victim>> /\ pc'["main"] = pc["main"] /\ pc'["api"] = pc["api"] /\ pc["job"] # "none"
<1> USE DEF At, Goto, Spend, Do
<1>1. Types /\ pc \in [Actor -> Place] /\ Actor = {"main", "job", "api"}
  BY DEF Flow, Types, Actor
<1>2. CASE Reconcile("job")
  BY <1>1, <1>2, ReconcileFrame
<1>3. CASE DiscardStale \/ DropSample
  BY <1>1, <1>3, DiscardCopiesDoes DEF DiscardStale, DropSample
<1>4. CASE \/ Plan \/ CreateSample \/ FillSample \/ Cutoff \/ SourceGone \/ CopyRows \/ LockForCommit \/ UnlinkSource
  BY <1>1, <1>4 DEF Plan, CreateSample, CreateCopy, FillSample, FillCopy, Cutoff, SourceGone, CopyRows, LockForCommit,
     UnlinkSource, rest
<1>5. CASE CommitMigration
  <2>1. pc' = [pc EXCEPT !["job"] = "retain"] \/ pc' = [pc EXCEPT !["job"] = "failed"]
    BY <1>5, Zenon DEF CommitMigration
  <2>2. QED
    BY <1>1, <1>5, <2>1 DEF CommitMigration, rest
<1>6. CASE Retention("job")
  BY <1>1, <1>6, JobTrims DEF EndRetention, TrimCopy, rest
<1>7. CASE Bookkeeping \/ LockDecision \/ PersistMigrated \/ JobFails \/ JobEnds \/ Repairs("job")
  BY <1>1, <1>7 DEF Bookkeeping, LockDecision, PersistMigrated, DecisionCommit, JobFails, JobEnds, Repairs, Repair,
     PersistRepair, Acknowledge, rest
<1>8. QED
  BY <1>2, <1>3, <1>4, <1>5, <1>6, <1>7 DEF Job

LEMMA ApiFrame ==
    ASSUME Flow, Api
    PROVE  UNCHANGED <<booted, victim>> /\ pc'["main"] = pc["main"] /\ pc["api"] # "none"
<1> USE DEF At, Goto, Spend, Do
<1>1. Types /\ pc \in [Actor -> Place] /\ Actor = {"main", "job", "api"}
  BY DEF Flow, Types, Actor
<1>2. CASE DiscardLeftover \/ DiscardTarget \/ DiscardTargetCopies
  BY <1>1, <1>2, FinishDiscardDoes, DiscardCopiesDoes DEF DiscardLeftover, DiscardTarget, DiscardTargetCopies
<1>3. CASE \/ EnterRequest \/ Poll \/ Decide \/ PersistDecision \/ SetProtection \/ LockDiscard \/ Discarded
           \/ StartMigration \/ PrepareMigration \/ EndRequest \/ MarkDiscarding
  BY <1>1, <1>3 DEF EnterRequest, Poll, Decide, PersistDecision, Persist, DecisionCommit, SetProtection, LockDiscard,
     Discarded, StartMigration, PrepareMigration, EndRequest, MarkDiscarding, rest
<1>4. CASE Repairs("api") \/ Finalize("api")
  BY <1>1, <1>4 DEF Repairs, Repair, PersistRepair, DecisionCommit, Acknowledge, Finalize, rest
<1>5. QED
  BY <1>2, <1>3, <1>4 DEF Api

LEMMA KeepsVictim ==
    ASSUME Held, [Next]_vars
    PROVE  Victim'
<1>1. CASE Main
  BY <1>1, MainVictim
<1>2. CASE Job
  <2>1. pc'["main"] = pc["main"] /\ victim'["main"] = victim["main"] /\ pc["job"] # "none"
    BY <1>2, JobFrame DEF Held
  <2>2. CASE Calm
    BY <2>1, <2>2, VictimAfter
  <2>3. CASE UnlinkSource
    <3>1. writeLock = "job" /\ booted
      BY <2>1, <2>3 DEF UnlinkSource, At, Held, Flow, Locked, Places
    <3>2. pc["main"] \notin {"unlink", "forget"}
      BY <3>1 DEF Held, Flow, Locked, Retaining
    <3>3. QED
      BY <2>1, <3>2 DEF Victim
  <2>4. QED
    BY <1>2, <2>2, <2>3, JobCalm
<1>3. CASE Api
  BY <1>3, ApiFrame, ApiCalm, VictimAfter DEF Held
<1>4. CASE BeginRetention \/ Crash
  <2>1. pc'["main"] \notin {"unlink", "forget"}
    BY <1>4 DEF BeginRetention, Crash, Forget, Goto, Held, Flow, Types, Actor
  <2>2. QED
    BY <2>1 DEF Victim
<1>5. CASE (\E kind \in Kind : Request(kind)) \/ (\E s \in Source : Quarantine(s)) \/ UNCHANGED vars
  <2>1. pc'["main"] = pc["main"] /\ victim'["main"] = victim["main"]
    BY <1>5 DEF Request, Quarantine, vars, Goto, rest, Held, Flow, Types, Actor
  <2>2. QED
    BY <1>5, <2>1, OutsideCalm, VictimAfter
<1>6. QED
  BY <1>1, <1>2, <1>3, <1>4, <1>5 DEF Next

-----------------------------------------------------------------------------
(* The protection.                                                         *)

LEMMA MissingMeans ==
    ASSUME Missing = {} \/ Attached = {}
    PROVE  MissingGivenUp
BY DEF MissingGivenUp, Missing

LEMMA MainProtects ==
    ASSUME Held, Main
    PROVE  Protects'
<1> USE DEF At, Goto, Spend, Do, SetLegacy
<1>1. /\ Types /\ pc \in [Actor -> Place] /\ Actor = {"main", "job", "api"} /\ pc["main"] \in MainPlace
      /\ booted \in BOOLEAN /\ protected \in BOOLEAN
  BY DEF Held, Flow, Types, Actor, Places
<1>2. MissingGivenUp => MissingGivenUp'
  BY <1>1, MainCalm, KeepsMissing
<1>3. CASE booted
  <2>1. UNCHANGED <<booted, protected, job>> /\ pc'["job"] = pc["job"] /\ pc'["api"] = pc["api"]
    <3>1. Retention("main") \/ RetentionFails
      BY <1>3 DEF Main, Start, Attach, Reconcile, ReconcileDiscards, FinishDiscard, CompleteCommit,
         DiscardOrphans, DiscardCopies, ProtectForRepair, StartFails, Repairs, Repair, PersistRepair, Acknowledge,
         Finalize, Booted, Held, Flow, Places, Serving, Retaining
    <3>2. QED
      BY <1>1, <3>1 DEF Retention, EndRetention, ChooseSource, UnlinkVictim, ForgetVictim, TrimCopy, RetentionFails, rest
  <2>2. QED
    BY <1>2, <1>3, <2>1 DEF Held, Protects
<1>4. CASE ~booted
  <2>1. pc["job"] = "none" /\ pc["api"] = "none" /\ (pc["main"] \in BootDone => MissingGivenUp')
    BY <1>2, <1>4 DEF Held, Flow, Places, Protects
  <2>2. SUFFICES /\ pc'["job"] = "none" /\ pc'["api"] = "none"
                 /\ booted' \/ pc'["main"] \in BootDone => MissingGivenUp'
    BY <1>4 DEF Protects, Working, Deciding, Unfinished
  <2>3. CASE Start \/ Attach
    BY <1>1, <1>4, <2>1, <2>3 DEF Start, Attach, rest, BootDone
  <2>4. CASE ReconcileDiscards("main")
    BY <1>1, <1>4, <2>1, <2>4, FinishDiscardDoes DEF ReconcileDiscards, BootDone
  <2>5. CASE CompleteCommit("main")
    <3>1. /\ pc["main"] = "complete"
          /\ \/ pc' = [pc EXCEPT !["main"] = "protect"] /\ Promote(Missing, TRUE)
             \/ pc' = [pc EXCEPT !["main"] = "failed"]
             \/ pc' = [pc EXCEPT !["main"] = "orphans"] /\ Missing = {}
          /\ UNCHANGED <<legacyFile, booted>>
      BY <1>1, <2>5, CompleteCommitDoes DEF AfterCompletion
    <3>2. Promote(Missing, TRUE) => MissingGivenUp'
      <4>1. SUFFICES ASSUME Promote(Missing, TRUE) PROVE MissingGivenUp'
        OBVIOUS
      <4>2. Missing \in SUBSET Source
        BY DEF Missing, Attached
      <4>3. \A s \in Source : legacy'[s] = IF s \in Missing THEN "none" ELSE legacy[s]
        BY <1>1, <4>1, <4>2, PromoteDoes
      <4>4. Missing' = {}
        BY <3>1, <4>3 DEF Missing, Attached
      <4>5. QED
        BY <4>4 DEF MissingGivenUp
    <3>3. Missing = {} => MissingGivenUp'
      BY <1>2, MissingMeans
    <3>4. QED
      BY <1>1, <1>4, <2>1, <3>1, <3>2, <3>3 DEF BootDone
  <2>6. CASE DiscardOrphans("main")
    <3>1. pc["main"] = "orphans" /\ pc'["job"] = pc["job"] /\ pc'["api"] = pc["api"] /\ UNCHANGED booted
      BY <1>1, <2>6, DiscardCopiesDoes DEF DiscardOrphans, AfterReconcile
    <3>2. QED
      BY <2>1, <3>1 DEF BootDone, MainPlace
  <2>7. CASE StartFails
    BY <1>1, <2>7 DEF StartFails, Forget, BootDone
  <2>8. CASE ProtectForRepair \/ Retention("main") \/ RetentionFails \/ Booted
    <3>1. pc["main"] \in {"protect", "retain", "unlink", "forget", "idle"}
      BY <1>4, <2>8 DEF ProtectForRepair, Retention, EndRetention, ChooseSource, UnlinkVictim, ForgetVictim, TrimCopy,
         RetentionFails, Booted
    <3>2. pc'["job"] = pc["job"] /\ pc'["api"] = pc["api"]
      BY <1>1, <2>8 DEF ProtectForRepair, Retention, EndRetention, ChooseSource, UnlinkVictim, ForgetVictim, TrimCopy,
         RetentionFails, Booted
    <3>3. QED
      BY <2>1, <3>1, <3>2 DEF BootDone, MainPlace
  <2>9. CASE Repairs("main") \/ Finalize("main")
    <3>1. pc["main"] \in {"repair", "persistRepair", "acknowledge", "finalize"}
      BY <2>9 DEF Repairs, Repair, PersistRepair, Acknowledge, Finalize
    <3>2. pc'["job"] = pc["job"] /\ pc'["api"] = pc["api"]
      BY <1>1, <2>9 DEF Repairs, Repair, PersistRepair, DecisionCommit, Acknowledge, Finalize
    <3>3. QED
      BY <2>1, <3>1, <3>2 DEF BootDone, MainPlace
  <2>10. QED
    BY <2>3, <2>4, <2>5, <2>6, <2>7, <2>8, <2>9 DEF Main, Reconcile
<1>5. QED
  BY <1>3, <1>4

(* The job of a running process.                                           *)
LEMMA JobProtectsAfter ==
    ASSUME Held, Job, Calm,
           ~protected' => (protected = FALSE \/ MissingGivenUp \/ MissingGivenUp'),
           pc'["job"] \in Working => pc["job"] \in Working \/ MissingGivenUp,
           pc'["job"] \in Unfinished => /\ pc["job"] \in Unfinished
                                        /\ job'.prev = job.prev /\ job'.unlinked = job.unlinked
    PROVE  Protects'
<1>1. UNCHANGED <<booted, victim>> /\ pc'["main"] = pc["main"] /\ pc'["api"] = pc["api"] /\ pc["job"] # "none"
  BY JobFrame DEF Held
<1>2. booted /\ pc["api"] \in BesideJob
  BY <1>1 DEF Held, Flow, Places
<1>3. MissingGivenUp => MissingGivenUp'
  BY KeepsMissing DEF Held, Flow
<1>4. QED
  BY <1>1, <1>2, <1>3 DEF Held, Protects, BesideJob, Deciding

LEMMA JobProtects ==
    ASSUME Held, Job
    PROVE  Protects'
<1> USE DEF At, Goto, Spend, Do
<1>1. /\ Types /\ pc \in [Actor -> Place] /\ Actor = {"main", "job", "api"} /\ protected \in BOOLEAN
      /\ job \in Job_
  BY DEF Held, Flow, Types, Actor
<1>2. CASE UnlinkSource
  <2>1. UNCHANGED booted /\ pc'["main"] = pc["main"] /\ pc'["api"] = pc["api"] /\ pc["job"] # "none"
    BY JobFrame DEF Held
  <2>2. protected /\ UNCHANGED protected /\ pc["job"] = "unlinkSource" /\ booted /\ pc["api"] \in BesideJob
    BY <1>2, <2>1 DEF UnlinkSource, Held, Flow, Places, Guarded, JobPlace, Booking
  <2>3. CASE pc'["job"] = "commit" /\ job'.unlinked = TRUE
    BY <2>1, <2>2, <2>3 DEF Protects, Working, Deciding, BesideJob
  <2>4. CASE pc'["job"] = "failed" /\ UNCHANGED <<job, legacyFile, surrendered, legacy>>
    <3>1. MissingGivenUp => MissingGivenUp'
      BY <2>4 DEF MissingGivenUp, GivenUp, Missing, Attached
    <3>2. QED
      BY <2>1, <2>2, <2>4, <3>1 DEF Held, Protects, Working, Unfinished, Deciding, BesideJob
  <2>5. QED
    BY <1>1, <1>2, <2>3, <2>4 DEF UnlinkSource, manifest, Job_
<1>3. SUFFICES ASSUME ~UnlinkSource
               PROVE  Protects'
  BY <1>2
<1>4. Calm
  BY <1>3, JobCalm
<1>5. CASE ReconcileDiscards("job")
  <2>1. pc["job"] = "discards" /\ pc'["job"] \in {"discards", "complete"} /\ UNCHANGED <<protected, job>>
    BY <1>1, <1>5, FinishDiscardDoes DEF ReconcileDiscards
  <2>2. QED
    BY <1>1, <1>4, <2>1, JobProtectsAfter DEF Working, Unfinished
<1>6. CASE CompleteCommit("job")
  <2>1. pc["job"] = "complete" /\ pc'["job"] \in {"book", "failed", "orphans"} /\ UNCHANGED <<protected, job>>
        /\ (pc'["job"] = "orphans" => Missing = {})
    BY <1>1, <1>6, CompleteCommitDoes DEF AfterCompletion
  <2>2. pc'["job"] = "orphans" => MissingGivenUp
    BY <2>1, MissingMeans
  <2>3. QED
    BY <1>1, <1>4, <2>1, <2>2, JobProtectsAfter DEF Working, Unfinished
<1>7. CASE DiscardOrphans("job") \/ DiscardStale \/ DropSample
  <2>1. pc["job"] \in Working /\ pc'["job"] \in Unfinished /\ UNCHANGED <<protected, job>>
    BY <1>1, <1>7, DiscardCopiesDoes DEF DiscardOrphans, AfterReconcile, DiscardStale, DropSample, Working, Unfinished
  <2>2. QED
    BY <1>1, <1>4, <2>1, JobProtectsAfter DEF Unfinished
<1>8. CASE Plan \/ CreateSample \/ FillSample \/ Cutoff \/ SourceGone \/ CopyRows \/ LockForCommit
  <2>1. /\ pc["job"] \in Working /\ UNCHANGED protected
        /\ job'.prev = job.prev /\ job'.unlinked = job.unlinked
    BY <1>1, <1>8 DEF Plan, CreateSample, CreateCopy, FillSample, FillCopy, Cutoff, SourceGone, CopyRows, LockForCommit,
       rest, Working, Job_
  <2>2. QED
    BY <1>1, <1>4, <2>1, JobProtectsAfter DEF Unfinished
<1>9. CASE CommitMigration
  <2>1. pc' = [pc EXCEPT !["job"] = "retain"] \/ pc' = [pc EXCEPT !["job"] = "failed"]
    BY <1>9, Zenon DEF CommitMigration
  <2>2. pc["job"] = "commit" /\ pc'["job"] \in {"retain", "failed"} /\ UNCHANGED <<protected, job>>
    BY <1>1, <1>9, <2>1 DEF CommitMigration, rest
  <2>3. QED
    BY <1>1, <1>4, <2>2, JobProtectsAfter DEF Working, Unfinished
<1>10. CASE Retention("job") \/ LockDecision \/ PersistMigrated \/ JobEnds \/ Repairs("job")
  <2>1. /\ protected' = protected \/ protected' = TRUE
        /\ pc'["job"] \notin Unfinished
    <3>1. CASE Retention("job")
      BY <1>1, <3>1, JobTrims DEF Held, EndRetention, AfterRetention, TrimCopy, Working, Unfinished
    <3>2. CASE LockDecision \/ PersistMigrated \/ JobEnds \/ Repairs("job")
      BY <1>1, <3>2 DEF LockDecision, PersistMigrated, DecisionCommit, JobEnds, Repairs, Repair, AfterRepair, Raised,
         PersistRepair, Acknowledge, Working, Unfinished
    <3>3. QED
      BY <1>10, <3>1, <3>2
  <2>2. ~protected' => protected = FALSE
    BY <1>1, <2>1
  <2>3. pc'["job"] \notin Working
    BY <2>1 DEF Unfinished
  <2>4. QED
    BY <1>4, <2>1, <2>2, <2>3, JobProtectsAfter
<1>11. CASE Bookkeeping
  <2>1. pc'["job"] = "lockDecision" /\ protected' = (protected /\ Attached # {})
    BY <1>1, <1>11 DEF Bookkeeping
  <2>2. Attached = {} => MissingGivenUp
    BY MissingMeans
  <2>3. QED
    BY <1>1, <1>4, <2>1, <2>2, JobProtectsAfter DEF Working, Unfinished
<1>12. CASE JobFails
  <2>1. pc["job"] = "failed" /\ pc'["job"] = "none" /\ protected' = IF job.unlinked THEN protected ELSE job.prev
    BY <1>1, <1>12 DEF JobFails
  <2>2. job.unlinked \in BOOLEAN /\ job.prev \in BOOLEAN
    BY <1>1 DEF Job_
  <2>3. job.prev = TRUE \/ job.unlinked = TRUE \/ MissingGivenUp
    BY <2>1 DEF Held, Protects, Unfinished
  <2>4. ~protected' => protected = FALSE \/ MissingGivenUp
    BY <1>1, <2>1, <2>2, <2>3
  <2>5. QED
    BY <1>4, <2>1, <2>4, JobProtectsAfter DEF Working, Unfinished
<1>13. QED
  BY <1>3, <1>5, <1>6, <1>7, <1>8, <1>9, <1>10, <1>11, <1>12 DEF Job, Reconcile

(* A request that touches no job and no protection, or raises it.          *)
LEMMA ApiProtectsAfter ==
    ASSUME Held, Api, pc'["job"] = pc["job"], UNCHANGED job,
           ~protected' => (protected = FALSE \/ MissingGivenUp \/ MissingGivenUp'),
           pc'["api"] \in Deciding => pc["api"] \in Deciding \/ MissingGivenUp,
           pc'["api"] # "prepare"
    PROVE  Protects'
<1>1. UNCHANGED <<booted, victim>> /\ pc'["main"] = pc["main"] /\ pc["api"] # "none"
  BY ApiFrame DEF Held
<1>2. booted
  BY <1>1 DEF Held, Flow, Places
<1>3. MissingGivenUp => MissingGivenUp'
  BY ApiCalm, KeepsMissing DEF Held, Flow
<1>4. QED
  BY <1>1, <1>2, <1>3 DEF Held, Protects

LEMMA ApiProtects ==
    ASSUME Held, Api
    PROVE  Protects'
<1> USE DEF At, Goto, Spend, Do, SetLegacy
<1>1. /\ Types /\ pc \in [Actor -> Place] /\ Actor = {"main", "job", "api"} /\ protected \in BOOLEAN
      /\ job \in Job_ /\ (pc["job"] # "none" => pc["api"] \in BesideJob)
  BY DEF Held, Flow, Types, Actor, Places
<1>2. /\ UNCHANGED <<booted, victim>> /\ pc'["main"] = pc["main"] /\ pc["api"] # "none" /\ booted
      /\ (MissingGivenUp => MissingGivenUp')
  <2>1. UNCHANGED <<booted, victim>> /\ pc'["main"] = pc["main"] /\ pc["api"] # "none"
    BY ApiFrame DEF Held
  <2>2. QED
    BY <2>1, ApiCalm, KeepsMissing DEF Held, Flow, Places
<1>3. CASE EnterRequest \/ Poll \/ Repairs("api") \/ Finalize("api") \/ PersistDecision \/ EndRequest
  <2>1. /\ pc'["job"] = pc["job"] /\ UNCHANGED job /\ (protected' = protected \/ protected' = TRUE)
        /\ pc'["api"] # "prepare"
        /\ pc'["api"] \in Deciding => pc["api"] \in Deciding
    BY <1>1, <1>3 DEF EnterRequest, Poll, Repairs, Repair, AfterRepair, Raised, PersistRepair, DecisionCommit,
       Acknowledge, Finalize, PersistDecision, Persist, EndRequest, rest, Deciding
  <2>2. ~protected' => protected = FALSE
    BY <1>1, <2>1
  <2>3. QED
    BY <2>1, <2>2, ApiProtectsAfter
<1>4. CASE Decide
  <2>1. Refused => pc'["api"] = "end"
    BY <1>1, <1>4 DEF Decide
  <2>2. ~Refused => MissingGivenUp
    BY MissingMeans DEF Refused
  <2>3. pc'["job"] = pc["job"] /\ UNCHANGED <<job, protected>> /\ pc'["api"] # "prepare"
    <3>1. request \in {"skip", "keep", "discard"}
      BY <1>4 DEF Decide, Held, Flow, Places
    <3>2. pc'["job"] = pc["job"] /\ UNCHANGED <<job, protected>>
      BY <1>1, <1>4 DEF Decide, rest
    <3>3. CASE ~Refused /\ request = "skip"
      BY <1>1, <1>4, <3>2, <3>3 DEF Decide
    <3>4. CASE ~Refused /\ request = "discard"
      BY <1>1, <1>4, <3>2, <3>4 DEF Decide
    <3>5. CASE ~Refused /\ request = "keep"
      BY <1>1, <1>4, <3>2, <3>5 DEF Decide
    <3>6. QED
      BY <2>1, <3>1, <3>2, <3>3, <3>4, <3>5
  <2>4. pc'["api"] \in Deciding => MissingGivenUp
    BY <2>1, <2>2 DEF Deciding
  <2>5. QED
    BY <1>1, <2>3, <2>4, ApiProtectsAfter
<1>5. CASE SetProtection
  <2>1. /\ pc["api"] \in {"protectOn", "protectOff"} /\ pc'["api"] = "end" /\ pc'["job"] = pc["job"] /\ UNCHANGED job
        /\ (pc["api"] = "protectOn" => protected')
    BY <1>1, <1>5 DEF SetProtection, rest
  <2>2. pc["api"] = "protectOff" => MissingGivenUp
    BY DEF Held, Protects, Deciding
  <2>3. QED
    BY <2>1, <2>2, ApiProtectsAfter DEF Deciding
<1>6. CASE DiscardLeftover \/ DiscardTarget \/ DiscardTargetCopies
  <2>1. /\ pc'["job"] = pc["job"] /\ UNCHANGED <<job, protected>> /\ pc'["api"] # "prepare"
        /\ pc'["api"] \in Deciding => pc["api"] \in Deciding
    BY <1>1, <1>6, FinishDiscardDoes, DiscardCopiesDoes DEF DiscardLeftover, DiscardTarget, DiscardTargetCopies, Deciding
  <2>2. QED
    BY <1>1, <2>1, ApiProtectsAfter
<1>7. CASE LockDiscard \/ MarkDiscarding
  <2>1. /\ pc'["job"] = pc["job"] /\ UNCHANGED <<job, protected>> /\ pc'["api"] # "prepare" /\ pc["api"] \in Deciding
    BY <1>1, <1>7 DEF LockDiscard, MarkDiscarding, rest, Deciding
  <2>2. QED
    BY <1>1, <2>1, ApiProtectsAfter
<1>8. CASE Discarded
  <2>1. /\ pc'["job"] = pc["job"] /\ UNCHANGED job /\ pc'["api"] \in {"persistDiscarded", "persistSkipped"}
        /\ protected' = (Attached # {})
    BY <1>1, <1>8 DEF Discarded, rest
  <2>2. Attached = {} => MissingGivenUp
    BY MissingMeans
  <2>3. QED
    BY <2>1, <2>2, ApiProtectsAfter DEF Deciding
<1>9. CASE StartMigration
  <2>1. CASE pc'["api"] = "end" /\ UNCHANGED <<job, protected>> /\ pc'["job"] = pc["job"]
    BY <1>1, <2>1, ApiProtectsAfter DEF Deciding
  <2>2. CASE /\ pc'["api"] = "prepare" /\ protected' = TRUE /\ pc["job"] = "none" /\ pc'["job"] = pc["job"]
             /\ job' = [NoJob EXCEPT !.source = Min(Attached), !.prev = protected]
    <3>1. job'.prev = protected /\ job'.unlinked = FALSE
      BY <2>2 DEF NoJob
    <3>2. job'.prev = TRUE \/ MissingGivenUp
      BY <1>1, <1>2, <3>1 DEF Held, Protects
    <3>3. QED
      BY <1>2, <2>2, <3>1, <3>2 DEF Protects, Working, Unfinished, Deciding
  <2>3. QED
    BY <1>1, <1>9, <2>1, <2>2 DEF StartMigration, StartRefused
<1>10. CASE PrepareMigration
  <2>1. pc["api"] = "prepare" /\ pc'["api"] = "end" /\ pc["job"] = "none"
    BY <1>1, <1>10 DEF PrepareMigration, BesideJob
  <2>2. (job.prev = TRUE \/ MissingGivenUp) /\ job.unlinked = FALSE /\ protected = TRUE
    BY <1>1, <2>1 DEF Held, Protects, Flow, Guarded
  <2>3. CASE pc'["job"] = "discards" /\ UNCHANGED <<protected, job>>
    BY <1>2, <2>1, <2>2, <2>3 DEF Protects, Working, Deciding
  <2>4. CASE pc'["job"] = "none" /\ protected' = job.prev
    <3>1. ~protected' => MissingGivenUp
      BY <2>2, <2>4
    <3>2. QED
      BY <1>2, <2>1, <2>4, <3>1 DEF Protects, Working, Deciding, Unfinished
  <2>5. QED
    BY <1>1, <1>10, <2>1, <2>3, <2>4 DEF PrepareMigration
<1>11. QED
  BY <1>3, <1>4, <1>5, <1>6, <1>7, <1>8, <1>9, <1>10 DEF Api

LEMMA KeepsProtects ==
    ASSUME Held, [Next]_vars
    PROVE  Protects'
<1> USE DEF At, Goto, Spend, SetLegacy
<1>1. CASE Main \/ Job \/ Api
  BY <1>1, MainProtects, JobProtects, ApiProtects
<1>2. CASE Crash
  <2>1. ~booted' /\ pc'["main"] = "down" /\ pc'["job"] = "none" /\ pc'["api"] = "none"
    BY <1>2 DEF Crash, Forget, Actor
  <2>2. QED
    BY <2>1 DEF Protects, BootDone, Working, Unfinished, Deciding
<1>3. CASE BeginRetention \/ (\E kind \in Kind : Request(kind)) \/ (\E s \in Source : Quarantine(s)) \/ UNCHANGED vars
  <2>1. MissingGivenUp => MissingGivenUp'
    BY <1>3, OutsideCalm, KeepsMissing DEF Held, Flow
  <2>2. /\ UNCHANGED <<booted, protected, job>> /\ pc'["job"] = pc["job"]
        /\ pc'["main"] = pc["main"] \/ booted
        /\ pc'["api"] = pc["api"] \/ pc'["api"] = "wait"
    BY <1>3 DEF BeginRetention, Request, Quarantine, vars, rest, Held, Flow, Types, Actor
  <2>3. QED
    BY <2>1, <2>2 DEF Held, Protects, Deciding
<1>4. QED
  BY <1>1, <1>2, <1>3 DEF Next

-----------------------------------------------------------------------------
(* The copying job.                                                        *)

(* Whoever is not the job leaves it its copies.                            *)
LEMMA JobsBeside ==
    ASSUME Held, Calm, pc'["job"] = pc["job"], UNCHANGED <<job, migrating>>,
           closed' \subseteq closed, filled' \subseteq filled, filled \ filled' \subseteq closed,
           \A s \in Attached : s \in Attached' \/ RowsOf(s) \subseteq surrendered'
    PROVE  Jobs'
<1>1. Types /\ Discards /\ Jobs /\ job \in Job_ /\ (pc["job"] \in Copying => job.source \in Source)
      /\ (pc["job"] = "fill" => Left # {})
  BY DEF Held, Flow, Kept, Types, HasSource
<1>2. surrendered \subseteq surrendered' /\ legacyFile' \subseteq legacyFile
  BY <1>1, CalmTakes
<1>3. pc["job"] \in Copying => {job.source} \X job.chunks \subseteq {job.source} \X Chunk
  BY <1>1 DEF Job_
<1>4. pc["job"] \in Copying => ({job.source} \X job.chunks) \intersect filled' = ({job.source} \X job.chunks) \intersect filled
  BY <1>1, <1>3 DEF Jobs
<1>5. pc["job"] = "fill" => NextCopy' = NextCopy
  <2>1. pc["job"] = "fill" => Left' = Left
    BY <1>4 DEF Left, Copying
  <2>2. QED
    BY <2>1 DEF NextCopy
<1>6. pc["job"] \in Copying => /\ \A c \in Chunk : <<job.source, c>> \notin closed'
                               /\ job.source \in Attached' \/ RowsOf(job.source) \subseteq surrendered'
  BY <1>1, <1>2 DEF Jobs, GivenUp
<1>7. pc["job"] \in {"unlinkSource", "commit"} => {job.source} \X job.chunks \subseteq filled'
  BY <1>1, <1>4 DEF Jobs, Copying
<1>8. Sample(job.source)' = Sample(job.source)
  BY DEF Sample
<1>9. QED
  BY <1>1, <1>2, <1>5, <1>6, <1>7, <1>8 DEF Jobs, GivenUp

LEMMA MainJobs ==
    ASSUME Held, Main
    PROVE  Jobs'
<1> USE DEF At, Goto, Spend, Do, SetLegacy
<1>1. /\ Types /\ pc \in [Actor -> Place] /\ Actor = {"main", "job", "api"} /\ legacy \in [Source -> Status]
  BY DEF Held, Flow, Types, Actor
<1>2. CASE pc'["job"] = "none"
  BY <1>2 DEF Jobs, Copying
<1>3. CASE pc'["job"] # "none"
  <2>1. booted
    <3>1. CASE StartFails
      BY <1>1, <1>3, <3>1 DEF StartFails, Forget
    <3>2. CASE ~StartFails
      <4>1. pc'["job"] = pc["job"]
        <5>1. CASE Reconcile("main")
          BY <1>1, <5>1, ReconcileFrame
        <5>2. CASE ~Reconcile("main")
          BY <1>1, <3>2, <5>2 DEF Main, Start, Attach, ProtectForRepair, Retention, EndRetention, ChooseSource, UnlinkVictim,
             ForgetVictim, TrimCopy, RetentionFails, Repairs, Repair, PersistRepair, DecisionCommit, Acknowledge,
             Finalize, Booted
        <5>3. QED
          BY <5>1, <5>2
      <4>2. QED
        BY <1>3, <4>1 DEF Held, Flow, Places
    <3>3. QED
      BY <3>1, <3>2
  <2>2. EndRetention("main") \/ ChooseSource("main") \/ UnlinkVictim("main") \/ ForgetVictim("main") \/ TrimCopy("main")
        \/ RetentionFails
    BY <2>1 DEF Main, Start, Attach, Reconcile, ReconcileDiscards, FinishDiscard, CompleteCommit,
       DiscardOrphans, DiscardCopies, ProtectForRepair, StartFails, Repairs, Repair, PersistRepair, Acknowledge,
       Finalize, Booted, Retention, Held, Flow, Places, Serving, Retaining
  <2>3. pc'["job"] = pc["job"] /\ UNCHANGED <<job, migrating>>
        /\ closed' \subseteq closed /\ filled' \subseteq filled /\ filled \ filled' \subseteq closed
    BY <1>1, <2>2 DEF EndRetention, ChooseSource, UnlinkVictim, ForgetVictim, TrimCopy, RetentionFails, manifest, files,
       rest
  <2>4. \A s \in Attached : s \in Attached' \/ RowsOf(s) \subseteq surrendered'
    <3>1. CASE ForgetVictim("main")
      <4>1. GivenUp(victim["main"]) /\ UNCHANGED surrendered
            /\ (legacy' = legacy \/ legacy' = [legacy EXCEPT ![victim["main"]] = "none"])
        BY <3>1 DEF ForgetVictim, Held, Victim
      <4>2. QED
        BY <1>1, <4>1 DEF Attached, GivenUp
    <3>2. CASE ~ForgetVictim("main")
      BY <2>2, <3>2 DEF EndRetention, ChooseSource, UnlinkVictim, TrimCopy, RetentionFails, manifest, Attached
    <3>3. QED
      BY <3>1, <3>2
  <2>5. QED
    BY <2>3, <2>4, MainCalm, JobsBeside
<1>4. QED
  BY <1>2, <1>3

LEMMA ApiJobs ==
    ASSUME Held, Api
    PROVE  Jobs'
<1> USE DEF At, Goto, Spend, Do, SetLegacy
<1>1. /\ Types /\ pc \in [Actor -> Place] /\ Actor = {"main", "job", "api"}
      /\ (pc["job"] # "none" => pc["api"] \in BesideJob)
  BY DEF Held, Flow, Types, Actor, Places
<1>2. CASE pc["job"] = "none"
  <2>1. pc'["job"] \in {"none", "discards"}
    <3>1. CASE DiscardLeftover \/ DiscardTarget \/ DiscardTargetCopies
      BY <1>1, <1>2, <3>1, FinishDiscardDoes, DiscardCopiesDoes DEF DiscardLeftover, DiscardTarget, DiscardTargetCopies
    <3>2. CASE ~(DiscardLeftover \/ DiscardTarget \/ DiscardTargetCopies)
      BY <1>1, <1>2, <3>2 DEF Api, EnterRequest, Poll, Repairs, Repair, PersistRepair, DecisionCommit,
         Acknowledge, Finalize, Decide, PersistDecision, Persist, SetProtection, LockDiscard, MarkDiscarding, Discarded,
         StartMigration, PrepareMigration, EndRequest
    <3>3. QED
      BY <3>1, <3>2
  <2>2. QED
    BY <2>1 DEF Jobs, Copying
<1>3. CASE pc["job"] # "none"
  <2>1. pc["api"] \in BesideJob
    BY <1>1, <1>3
  <2>2. /\ Quiet /\ UNCHANGED job /\ pc'["job"] = pc["job"]
    <3>1. CASE EnterRequest \/ Poll \/ Repairs("api") \/ Finalize("api") \/ Decide
      BY <1>1, <3>1 DEF EnterRequest, Poll, Repairs, Repair, PersistRepair, DecisionCommit, Acknowledge, Finalize, Decide,
         manifest, files, rest, Quiet
    <3>2. CASE PersistDecision \/ StartMigration \/ EndRequest
      BY <1>1, <1>3, <3>2 DEF PersistDecision, Persist, DecisionCommit, StartMigration, StartRefused, EndRequest, manifest,
         files, rest, Quiet
    <3>3. QED
      BY <2>1, <3>1, <3>2 DEF Api, SetProtection, LockDiscard, DiscardLeftover, DiscardTarget, DiscardTargetCopies,
         FinishDiscard, DiscardCopies, MarkDiscarding, Discarded, PrepareMigration, BesideJob
  <2>3. Attached' = Attached /\ Calm
    BY <2>2 DEF Quiet, Attached, Calm
  <2>4. QED
    BY <2>2, <2>3, JobsBeside DEF Quiet
<1>4. QED
  BY <1>2, <1>3

(* A step of the job that goes on with the same plan.                      *)
LEMMA JobsAfter ==
    ASSUME Held, Calm, pc["job"] \in Copying, job'.source = job.source, UNCHANGED legacy,
           closed' \subseteq closed,
           pc'["job"] = "fillSample" => Sample(job.source) \in migrating',
           pc'["job"] = "fill" => NextCopy' \in migrating',
           pc'["job"] \in {"unlinkSource", "commit"} => {job.source} \X job'.chunks \subseteq filled',
           pc'["job"] # "commit"
    PROVE  Jobs'
<1>1. Types /\ Discards /\ Jobs
  BY DEF Held, Flow, Kept
<1>2. surrendered \subseteq surrendered'
  BY <1>1, CalmTakes
<1>3. Attached' = Attached /\ Sample(job.source)' = Sample(job.source)
  BY DEF Attached, Sample
<1>4. QED
  BY <1>1, <1>2, <1>3 DEF Jobs, GivenUp

LEMMA JobJobs ==
    ASSUME Held, Job
    PROVE  Jobs'
<1> USE DEF At, Goto, Spend, Do
<1>1. /\ Types /\ pc \in [Actor -> Place] /\ Actor = {"main", "job", "api"} /\ job \in Job_ /\ legacyFile \subseteq Source
  BY DEF Held, Flow, Types, Actor
<1>2. CASE pc'["job"] \notin Copying
  BY <1>2 DEF Jobs, Copying
<1>3. CASE Plan /\ pc'["job"] \in Copying
  <2>1. PICK s \in Source : legacy[s] = "legacy" /\ s \in legacyFile /\ job' = [job EXCEPT !.source = s]
    <3>1. {s \in Source : legacy[s] = "legacy"} # {} =>
             Min({s \in Source : legacy[s] = "legacy"}) \in {s \in Source : legacy[s] = "legacy"}
      BY SourceMin
    <3>2. QED
      BY <1>1, <1>3, <3>1 DEF Plan, Copying
  <2>2. pc'["job"] \in {"sample", "cutoff"} /\ UNCHANGED <<closed, legacy>> /\ job'.source = s
    BY <1>1, <1>3, <2>1 DEF Plan, Copying, manifest, Job_
  <2>3. \A c \in Chunk : <<s, c>> \notin closed
    BY <2>1 DEF Held, Kept, Copies, Chunk
  <2>4. s \in Attached'
    BY <2>1, <2>2 DEF Attached
  <2>5. QED
    BY <2>2, <2>3, <2>4 DEF Jobs
<1>4. CASE CreateSample \/ FillSample \/ Cutoff
  <2>1. /\ pc["job"] \in Copying /\ job'.source = job.source /\ UNCHANGED <<legacy, closed>>
        /\ pc'["job"] \in {"fillSample", "dropSample", "copy", "failed"}
    BY <1>1, <1>4 DEF CreateSample, CreateCopy, FillSample, FillCopy, Cutoff, manifest, files, rest, Copying, Job_
  <2>2. pc'["job"] = "fillSample" => Sample(job.source) \in migrating'
    BY <1>1, <1>4 DEF CreateSample, CreateCopy, FillSample, FillCopy, Cutoff
  <2>3. Calm
    BY <2>1, <1>4, JobCalm DEF UnlinkSource, CreateSample, CreateCopy, FillSample, FillCopy, Cutoff
  <2>4. QED
    BY <2>1, <2>2, <2>3, JobsAfter
<1>5. CASE DropSample
  <2>1. /\ pc["job"] = "dropSample" /\ UNCHANGED <<job, legacy, closed>>
        /\ pc'["job"] \in {"dropSample", "cutoff", "failed"}
    BY <1>1, <1>5, DiscardCopiesDoes DEF DropSample
  <2>2. Calm
    BY <2>1, JobCalm DEF UnlinkSource
  <2>3. QED
    BY <2>1, <2>2, JobsAfter DEF Copying
<1>6. CASE CopyRows
  <2>1. /\ pc["job"] \in {"copy", "fill"} /\ UNCHANGED <<job, legacy, closed>>
        /\ pc'["job"] \in {"copy", "fill", "failed"}
    BY <1>1, <1>6 DEF CopyRows, CreateCopy, FillCopy, manifest, files, rest
  <2>2. pc'["job"] = "fill" => NextCopy' \in migrating'
    <3>1. pc'["job"] = "fill" => migrating' = migrating \union {NextCopy} /\ UNCHANGED <<filled, job>>
      BY <1>1, <1>6 DEF CopyRows, CreateCopy, FillCopy, files, rest
    <3>2. UNCHANGED <<filled, job>> => NextCopy' = NextCopy
      BY DEF NextCopy, Left
    <3>3. QED
      BY <3>1, <3>2
  <2>3. Calm
    BY <2>1, JobCalm DEF UnlinkSource
  <2>4. QED
    BY <2>1, <2>2, <2>3, JobsAfter DEF Copying
<1>7. CASE LockForCommit
  <2>1. /\ pc["job"] = "copy" /\ pc'["job"] = "unlinkSource" /\ UNCHANGED <<job, legacy, closed, filled>> /\ Left = {}
    BY <1>1, <1>7 DEF LockForCommit, manifest, files, rest
  <2>2. {job.source} \X job.chunks \subseteq filled
    BY <2>1 DEF Left
  <2>3. Calm
    BY <2>1, JobCalm DEF UnlinkSource
  <2>4. QED
    BY <2>1, <2>2, <2>3, JobsAfter DEF Copying
<1>8. CASE UnlinkSource
  <2>1. CASE pc'["job"] = "commit" /\ legacyFile' = legacyFile \ {job.source} /\ job' = [job EXCEPT !.unlinked = TRUE]
             /\ surrendered \subseteq surrendered'
    <3>1. pc["job"] = "unlinkSource" /\ UNCHANGED <<closed, filled, legacy>>
      BY <1>8 DEF UnlinkSource, manifest
    <3>2. job'.source = job.source /\ job'.chunks = job.chunks /\ job'.unlinked = TRUE
      BY <1>1, <2>1 DEF Job_
    <3>3. Attached' = Attached
      BY <3>1 DEF Attached
    <3>4. QED
      BY <2>1, <3>1, <3>2, <3>3 DEF Held, Jobs, Copying, GivenUp
  <2>2. CASE pc'["job"] = "failed"
    BY <1>2, <2>2 DEF Copying
  <2>3. QED
    BY <1>1, <1>8, <2>1, <2>2 DEF UnlinkSource
<1>9. SUFFICES ASSUME pc'["job"] \in Copying, ~Plan, ~CreateSample, ~FillSample, ~Cutoff, ~DropSample, ~CopyRows,
                      ~LockForCommit, ~UnlinkSource
               PROVE  FALSE
  BY <1>2, <1>3, <1>4, <1>5, <1>6, <1>7, <1>8
<1>10. CASE ReconcileDiscards("job")
  BY <1>1, <1>9, <1>10, FinishDiscardDoes DEF ReconcileDiscards, Copying
<1>11. CASE CompleteCommit("job")
  BY <1>1, <1>9, <1>11, CompleteCommitDoes DEF AfterCompletion, Copying
<1>12. CASE DiscardOrphans("job") \/ DiscardStale
  BY <1>1, <1>9, <1>12, DiscardCopiesDoes DEF DiscardOrphans, AfterReconcile, DiscardStale, Copying
<1>13. CASE CommitMigration
  <2>1. pc' = [pc EXCEPT !["job"] = "retain"] \/ pc' = [pc EXCEPT !["job"] = "failed"]
    BY <1>13, Zenon DEF CommitMigration
  <2>2. QED
    BY <1>1, <1>9, <2>1 DEF Copying
<1>14. CASE Retention("job")
  <2>1. pc["job"] = "retain" /\ pc'["job"] \in {"retain", "book"}
    BY <1>1, <1>14, JobTrims DEF Held, EndRetention, AfterRetention, TrimCopy
  <2>2. QED
    BY <1>9, <2>1 DEF Copying
<1>15. CASE SourceGone \/ Bookkeeping \/ LockDecision \/ PersistMigrated \/ JobFails \/ JobEnds \/ Repairs("job")
  BY <1>1, <1>9, <1>15 DEF SourceGone, Bookkeeping, LockDecision, PersistMigrated, DecisionCommit, JobFails, JobEnds,
     Repairs, Repair, AfterRepair, Raised, PersistRepair, Acknowledge, Copying
<1>16. QED
  BY <1>9, <1>10, <1>11, <1>12, <1>13, <1>14, <1>15 DEF Job, Reconcile

LEMMA KeepsJobs ==
    ASSUME Held, [Next]_vars
    PROVE  Jobs'
<1> USE DEF At, Goto, Spend, SetLegacy
<1>1. CASE Main \/ Job \/ Api
  BY <1>1, MainJobs, JobJobs, ApiJobs
<1>2. CASE Crash
  <2>1. pc'["job"] = "none"
    BY <1>2 DEF Crash, Forget, Actor
  <2>2. QED
    BY <2>1 DEF Jobs, Copying
<1>3. CASE BeginRetention \/ (\E kind \in Kind : Request(kind)) \/ (\E s \in Source : Quarantine(s)) \/ UNCHANGED vars
  <2>1. UNCHANGED <<job, migrating, closed, filled>> /\ pc'["job"] = pc["job"]
    BY <1>3 DEF BeginRetention, Request, Quarantine, vars, manifest, files, rest, Held, Flow, Types, Actor
  <2>2. \A s \in Attached : s \in Attached' \/ RowsOf(s) \subseteq surrendered'
    BY <1>3 DEF BeginRetention, Request, Quarantine, vars, manifest, Attached, Held, Flow, Types
  <2>3. QED
    BY <1>3, <2>1, <2>2, OutsideCalm, JobsBeside
<1>4. QED
  BY <1>1, <1>2, <1>3 DEF Next

LEMMA InitHeld ==
    ASSUME Init
    PROVE  Held
<1>1. Flow
  BY InitFlow
<1>2. /\ pc = [a \in Actor |-> IF a = "main" THEN "down" ELSE "none"] /\ Actor = {"main", "job", "api"}
      /\ booted = FALSE
  BY DEF Init, Actor
<1>3. Victim /\ Protects /\ Jobs
  BY <1>2 DEF Victim, Protects, Jobs, BootDone, Working, Unfinished, Deciding, Copying
<1>4. Discards /\ Copies
  BY DEF Init, Discards, Copies
<1>5. HistoryIsKept
  BY DEF Init, HistoryIsKept, Recoverable, Attached
<1>6. QED
  BY <1>1, <1>3, <1>4, <1>5 DEF Held, Kept

LEMMA NextHeld ==
    ASSUME Held, [Next]_vars
    PROVE  Held'
BY NextFlow, KeepsKept, KeepsVictim, KeepsProtects, KeepsJobs DEF Held

(* What the actors hold is an invariant of the migration.                  *)
THEOREM HeldInvariant == Spec => []Held
<1>1. Init => Held
  BY InitHeld
<1>2. Held /\ [Next]_vars => Held'
  BY NextHeld
<1>3. QED
  BY <1>1, <1>2, PTL DEF Spec

(* No row of the old history is lost that nobody discarded, cut off or     *)
(* released to retention: not by a crash between the unlink of the source  *)
(* and the commit of its copies, not by a refused write, not by a decision *)
(* or a retention pass beside the job (offline_migration.py).              *)
THEOREM HistoryKept == Spec => []HistoryIsKept
<1>1. Held => HistoryIsKept
  BY DEF Held, Kept
<1>2. QED
  BY <1>1, HeldInvariant, PTL

(* A row is never read both from its source and from a promoted copy.      *)
THEOREM RowsOnce == Spec => []NoRowTwice
<1>1. Held => NoRowTwice
  BY DEF Held, Kept, Copies, NoRowTwice, Readable
<1>2. QED
  BY <1>1, HeldInvariant, PTL

-----------------------------------------------------------------------------
(* The end of the assistant.                                               *)

(* Only the file at the configured path is ever found unattached, before   *)
(* the start attaches it, and then the start has reopened the assistant.   *)
Undecided ==
    \A s \in legacyFile : legacy[s] = "none" =>
        s = Primary /\ decision \notin Terminal /\ ~booted /\ pc["main"] \in {"down", "attach", "failed"}
Closing ==
    /\ Undecided /\ TerminalLeavesNoSource
    /\ pc["job"] = "persistMigrated" => Attached = {}
    /\ pc["api"] \in {"persistMigrated", "persistDiscarded"} => Attached = {}

LEMMA NextData ==
    ASSUME Held, [Next]_vars
    PROVE  Calm \/ Unlinks
BY MainCalm, JobCalm, ApiCalm, OutsideCalm DEF Next

LEMMA AttachedAfter ==
    ASSUME Types, Calm \/ Unlinks
    PROVE  /\ \/ Attached' \subseteq Attached
              \/ \E s \in legacyFile : legacy[s] = "none"
           /\ legacyFile' \subseteq legacyFile
           /\ \A s \in legacyFile' : legacy'[s] = "none" => legacy[s] = "none"
<1> USE DEF Types
<1>1. CASE Promotes
  <2>1. PICK S \in SUBSET (Source \ legacyFile) :
          /\ \A s \in Source : legacy'[s] = IF s \in S THEN "none" ELSE legacy[s]
          /\ UNCHANGED <<legacyFile, filled, surrendered>>
    BY <1>1, PromotesDoes
  <2>2. QED
    BY <2>1 DEF Attached
<1>2. CASE Quiet \/ Drops \/ Trims \/ Creates \/ Fills \/ Takes \/ Unlinks
  BY <1>2 DEF Quiet, Drops, Trims, Creates, Fills, Takes, Unlinks, Attached
<1>3. CASE Attaches
  BY <1>3 DEF Attaches
<1>4. CASE Finishes \/ Forgets \/ GivesUp
  BY <1>4 DEF Finishes, Forgets, GivesUp, Attached
<1>5. QED
  BY <1>1, <1>2, <1>3, <1>4 DEF Calm

(* The decision becomes terminal only with nothing attached.               *)
LEMMA DecisionAfter ==
    ASSUME Held, Closing, [Next]_vars
    PROVE  \/ decision' \notin Terminal \/ decision' = decision
           \/ Attached = {} /\ UNCHANGED legacy
<1> USE DEF At, Goto, Spend, Do
<1>1. Types /\ Actor = {"main", "job", "api"}
  BY DEF Held, Flow, Actor
<1>2. CASE Start
  BY <1>2 DEF Start, Ensured, Terminal
<1>3. CASE \E a \in Actor : Repairs(a)
  BY <1>3 DEF Repairs, Repair, PersistRepair, DecisionCommit, Acknowledge, Terminal
<1>4. CASE \E a \in Actor : Finalize(a)
  BY <1>4 DEF Finalize, DecisionCommit, manifest
<1>5. CASE \E a \in Actor : Reconcile(a)
  BY <1>1, <1>5, ReconcileFrame
<1>6. CASE \E a \in Actor : Retention(a)
  BY <1>6 DEF Retention, EndRetention, ChooseSource, UnlinkVictim, ForgetVictim, TrimCopy
<1>7. CASE Attach \/ ProtectForRepair \/ StartFails \/ RetentionFails \/ Booted
  BY <1>7 DEF Attach, ProtectForRepair, StartFails, RetentionFails, Booted
<1>8. CASE DiscardStale \/ DropSample \/ DiscardLeftover \/ DiscardTarget \/ DiscardTargetCopies
  BY <1>8 DEF DiscardStale, DropSample, DiscardLeftover, DiscardTarget, DiscardTargetCopies, DiscardCopies, FinishDiscard
<1>9. CASE \/ Plan \/ CreateSample \/ FillSample \/ Cutoff \/ SourceGone \/ CopyRows \/ LockForCommit \/ UnlinkSource
           \/ CommitMigration \/ Bookkeeping \/ LockDecision \/ JobFails \/ JobEnds
  BY <1>9 DEF Plan, CreateSample, CreateCopy, FillSample, FillCopy, Cutoff, SourceGone, CopyRows, LockForCommit,
     UnlinkSource, CommitMigration, Bookkeeping, LockDecision, JobFails, JobEnds
<1>10. CASE PersistMigrated
  BY <1>10 DEF PersistMigrated, DecisionCommit, manifest, Closing
<1>11. CASE PersistDecision
  BY <1>11 DEF PersistDecision, Persist, DecisionCommit, manifest, Closing, Terminal
<1>12. CASE \/ EnterRequest \/ Poll \/ Decide \/ SetProtection \/ LockDiscard \/ MarkDiscarding \/ Discarded
            \/ StartMigration \/ PrepareMigration \/ EndRequest
  BY <1>12 DEF EnterRequest, Poll, Decide, SetProtection, LockDiscard, MarkDiscarding, Discarded, StartMigration,
     PrepareMigration, EndRequest
<1>13. CASE BeginRetention \/ Crash \/ (\E kind \in Kind : Request(kind)) \/ (\E s \in Source : Quarantine(s))
            \/ UNCHANGED vars
  BY <1>13 DEF BeginRetention, Crash, Request, Quarantine, vars
<1>14. CASE Main
  BY <1>1, <1>2, <1>3, <1>4, <1>5, <1>6, <1>7, <1>14 DEF Main
<1>15. CASE Job
  BY <1>1, <1>3, <1>5, <1>6, <1>8, <1>9, <1>10, <1>15 DEF Job
<1>16. CASE Api
  BY <1>1, <1>3, <1>4, <1>8, <1>11, <1>12, <1>16 DEF Api
<1>17. QED
  BY <1>13, <1>14, <1>15, <1>16 DEF Next

LEMMA KeepsTerminal ==
    ASSUME Held, Closing, [Next]_vars
    PROVE  TerminalLeavesNoSource'
<1>1. CASE decision' = decision
  <2>1. SUFFICES ASSUME decision \in Terminal PROVE Attached' = {}
    BY <1>1 DEF TerminalLeavesNoSource
  <2>2. Attached = {} /\ ~\E s \in legacyFile : legacy[s] = "none"
    BY <2>1 DEF Closing, Undecided, TerminalLeavesNoSource
  <2>3. QED
    BY <2>2, NextData, AttachedAfter DEF Held, Flow
<1>2. CASE decision' \notin Terminal
  BY <1>2 DEF TerminalLeavesNoSource
<1>3. CASE Attached = {} /\ UNCHANGED legacy
  BY <1>3 DEF TerminalLeavesNoSource, Attached
<1>4. QED
  BY <1>1, <1>2, <1>3, DecisionAfter

LEMMA KeepsUndecided ==
    ASSUME Held, Closing, [Next]_vars
    PROVE  Undecided'
<1> USE DEF At, Goto, Spend, Do, SetLegacy
<1>1. /\ Types /\ pc \in [Actor -> Place] /\ Actor = {"main", "job", "api"} /\ legacyFile \subseteq Source
      /\ legacy \in [Source -> Status] /\ booted \in BOOLEAN
  BY DEF Held, Flow, Types, Actor
<1>2. /\ legacyFile' \subseteq legacyFile
      /\ \A s \in legacyFile' : legacy'[s] = "none" => legacy[s] = "none"
  BY <1>1, NextData, AttachedAfter
<1>3. SUFFICES ASSUME NEW s \in legacyFile, legacy[s] = "none", s \in legacyFile', legacy'[s] = "none"
               PROVE  s = Primary /\ decision' \notin Terminal /\ ~booted' /\ pc'["main"] \in {"down", "attach", "failed"}
  BY <1>2 DEF Undecided
<1>4. s = Primary /\ decision \notin Terminal /\ ~booted /\ pc["main"] \in {"down", "attach", "failed"}
      /\ pc["job"] = "none" /\ pc["api"] = "none"
  BY <1>3 DEF Closing, Undecided, Held, Flow, Places
<1>5. CASE Start
  BY <1>1, <1>3, <1>4, <1>5 DEF Start, Ensured, Terminal, rest
<1>6. CASE Attach
  BY <1>1, <1>3, <1>4, <1>6 DEF Attach, rest
<1>7. CASE StartFails \/ Crash
  BY <1>1, <1>3, <1>4, <1>7 DEF StartFails, Crash, Forget
<1>8. CASE (\E q \in Source : Quarantine(q)) \/ UNCHANGED vars
  BY <1>3, <1>4, <1>8 DEF Quarantine, vars, rest
<1>9. ~Job /\ ~Api
  BY <1>4, JobFrame, ApiFrame DEF Held
<1>10. ~BeginRetention /\ ~\E kind \in Kind : Request(kind)
  BY <1>4 DEF BeginRetention, Request
<1>11. Main => Start \/ Attach \/ StartFails
  BY <1>4 DEF Main, Reconcile, ReconcileDiscards, FinishDiscard, CompleteCommit, DiscardOrphans, DiscardCopies,
     ProtectForRepair, Retention, EndRetention, ChooseSource, UnlinkVictim, ForgetVictim, TrimCopy, RetentionFails,
     Repairs, Repair, PersistRepair, Acknowledge, Finalize, Booted
<1>12. QED
  BY <1>5, <1>6, <1>7, <1>8, <1>9, <1>10, <1>11 DEF Next

(* Who is about to write a terminal decision has seen the last source go.  *)
LEMMA KeepsPersist ==
    ASSUME Held, Closing, [Next]_vars
    PROVE  /\ pc'["job"] = "persistMigrated" => Attached' = {}
           /\ pc'["api"] \in {"persistMigrated", "persistDiscarded"} => Attached' = {}
<1> USE DEF At, Goto, Spend, Do, SetLegacy
<1>1. /\ Types /\ pc \in [Actor -> Place] /\ Actor = {"main", "job", "api"} /\ booted \in BOOLEAN
      /\ (~booted => pc["job"] = "none" /\ pc["api"] = "none")
  BY DEF Held, Flow, Types, Actor, Places
<1>2. booted => Attached' \subseteq Attached
  BY <1>1, NextData, AttachedAfter DEF Closing, Undecided
<1>3. pc["job"] = "persistMigrated" => Attached = {}
  BY DEF Closing
<1>4. pc["api"] \in {"persistMigrated", "persistDiscarded"} => Attached = {}
  BY DEF Closing
<1>5. CASE Main
  <2>1. CASE StartFails
    BY <1>1, <2>1 DEF StartFails, Forget
  <2>2. CASE Reconcile("main")
    BY <1>1, <1>2, <1>3, <1>4, <2>2, ReconcileFrame
  <2>3. CASE ~Reconcile("main") /\ ~StartFails
    <3>1. pc'["job"] = pc["job"] /\ pc'["api"] = pc["api"]
      BY <1>1, <1>5, <2>3 DEF Main, Start, Attach, ProtectForRepair, Retention, EndRetention, ChooseSource, UnlinkVictim,
         ForgetVictim, TrimCopy, RetentionFails, Repairs, Repair, PersistRepair, DecisionCommit, Acknowledge,
         Finalize, Booted
    <3>2. QED
      BY <1>1, <1>2, <1>3, <1>4, <3>1
  <2>4. QED
    BY <2>1, <2>2, <2>3
<1>6. CASE Job
  <2>1. pc'["api"] = pc["api"] /\ booted
    BY <1>1, <1>6, JobFrame DEF Held
  <2>2. SUFFICES ASSUME pc'["job"] = "persistMigrated" PROVE Attached = {}
    BY <1>2, <1>4, <2>1
  <2>3. CASE LockDecision
    BY <1>1, <2>2, <2>3 DEF LockDecision
  <2>4. CASE ReconcileDiscards("job")
    BY <1>1, <2>2, <2>4, FinishDiscardDoes DEF ReconcileDiscards
  <2>5. CASE CompleteCommit("job")
    BY <1>1, <2>2, <2>5, CompleteCommitDoes DEF AfterCompletion
  <2>6. CASE DiscardOrphans("job") \/ DiscardStale \/ DropSample
    BY <1>1, <2>2, <2>6, DiscardCopiesDoes DEF DiscardOrphans, AfterReconcile, DiscardStale, DropSample
  <2>7. CASE CommitMigration
    <3>1. pc' = [pc EXCEPT !["job"] = "retain"] \/ pc' = [pc EXCEPT !["job"] = "failed"]
      BY <2>7, Zenon DEF CommitMigration
    <3>2. QED
      BY <1>1, <2>2, <3>1
  <2>8. CASE Retention("job")
    BY <1>1, <2>2, <2>8, JobTrims DEF Held, EndRetention, AfterRetention, TrimCopy
  <2>9. CASE \/ Plan \/ CreateSample \/ FillSample \/ Cutoff \/ SourceGone \/ CopyRows \/ LockForCommit \/ UnlinkSource
    BY <1>1, <2>2, <2>9 DEF Plan, CreateSample, CreateCopy, FillSample, FillCopy, Cutoff, SourceGone, CopyRows,
       LockForCommit, UnlinkSource
  <2>10. CASE Bookkeeping \/ PersistMigrated \/ JobFails \/ JobEnds \/ Repairs("job")
    BY <1>1, <2>2, <2>10 DEF Bookkeeping, PersistMigrated, DecisionCommit, JobFails, JobEnds, Repairs, Repair, AfterRepair,
       Raised, PersistRepair, Acknowledge
  <2>11. QED
    BY <1>6, <2>3, <2>4, <2>5, <2>6, <2>7, <2>8, <2>9, <2>10 DEF Job, Reconcile
<1>7. CASE Api
  <2>1. booted
    BY <1>1, <1>7, ApiFrame DEF Held
  <2>2. pc'["job"] = pc["job"] \/ pc'["job"] = "discards"
    <3>1. CASE DiscardLeftover \/ DiscardTarget \/ DiscardTargetCopies
      BY <1>1, <3>1, FinishDiscardDoes, DiscardCopiesDoes DEF DiscardLeftover, DiscardTarget, DiscardTargetCopies
    <3>2. CASE ~(DiscardLeftover \/ DiscardTarget \/ DiscardTargetCopies)
      BY <1>1, <1>7, <3>2 DEF Api, EnterRequest, Poll, Repairs, Repair, PersistRepair, DecisionCommit,
         Acknowledge, Finalize, Decide, PersistDecision, Persist, SetProtection, LockDiscard, MarkDiscarding, Discarded,
         StartMigration, PrepareMigration, EndRequest
    <3>3. QED
      BY <3>1, <3>2
  <2>3. SUFFICES ASSUME pc'["api"] \in {"persistMigrated", "persistDiscarded"} PROVE Attached = {}
    BY <1>2, <1>3, <2>1, <2>2
  <2>4. CASE Decide
    <3>1. request \in {"skip", "keep", "discard"}
      BY <2>4 DEF Decide, Held, Flow, Places
    <3>2. CASE Refused
      BY <1>1, <2>3, <2>4, <3>2 DEF Decide
    <3>3. CASE ~Refused /\ request = "skip"
      BY <1>1, <2>3, <2>4, <3>3 DEF Decide
    <3>4. CASE ~Refused /\ request = "discard"
      BY <1>1, <2>3, <2>4, <3>4 DEF Decide
    <3>5. CASE ~Refused /\ request = "keep"
      BY <1>1, <2>3, <2>4, <3>5 DEF Decide
    <3>6. QED
      BY <3>1, <3>2, <3>3, <3>4, <3>5
  <2>5. CASE DiscardLeftover \/ DiscardTarget \/ DiscardTargetCopies
    BY <1>1, <2>3, <2>5, FinishDiscardDoes, DiscardCopiesDoes DEF DiscardLeftover, DiscardTarget, DiscardTargetCopies
  <2>6. CASE Discarded
    BY <1>1, <2>3, <2>6 DEF Discarded
  <2>7. CASE EnterRequest \/ Poll \/ Repairs("api") \/ Finalize("api") \/ PersistDecision
    BY <1>1, <2>3, <2>7 DEF EnterRequest, Poll, Repairs, Repair, AfterRepair, Raised, PersistRepair, DecisionCommit,
       Acknowledge, Finalize, PersistDecision, Persist
  <2>8. CASE SetProtection \/ LockDiscard \/ MarkDiscarding \/ StartMigration \/ PrepareMigration \/ EndRequest
    BY <1>1, <2>3, <2>8 DEF SetProtection, LockDiscard, MarkDiscarding, StartMigration, PrepareMigration, EndRequest
  <2>9. QED
    BY <1>7, <2>4, <2>5, <2>6, <2>7, <2>8 DEF Api
<1>8. CASE Crash
  BY <1>1, <1>8 DEF Crash, Forget
<1>9. CASE BeginRetention \/ (\E kind \in Kind : Request(kind)) \/ (\E s \in Source : Quarantine(s)) \/ UNCHANGED vars
  <2>1. pc'["job"] = pc["job"] /\ pc'["api"] \in {pc["api"], "wait"}
    BY <1>1, <1>9 DEF BeginRetention, Request, Quarantine, vars, rest
  <2>2. QED
    BY <1>1, <1>2, <1>3, <1>4, <2>1
<1>10. QED
  BY <1>5, <1>6, <1>7, <1>8, <1>9 DEF Next

(* The assistant is closed, as migrated or discarded, only when no source  *)
(* is left to decide about, also across restarts that find the old file at *)
(* its path again (persisted_config.py, api/v1/ringbuffer.py).             *)
THEOREM ClosedMeansDone == Spec => []TerminalLeavesNoSource
<1>1. Init => Held /\ Closing
  <2> SUFFICES ASSUME Init PROVE Closing
    BY InitHeld
  <2>2. pc["job"] = "none" /\ pc["api"] = "none" /\ pc["main"] = "down"
    BY DEF Init, Actor
  <2>3. QED
    BY <2>2 DEF Init, Closing, Undecided, TerminalLeavesNoSource, Terminal
<1>2. (Held /\ Closing) /\ [Next]_vars => (Held /\ Closing)'
  <2> SUFFICES ASSUME Held, Closing, [Next]_vars PROVE Held' /\ Closing'
    OBVIOUS
  <2> QED
    BY NextHeld, KeepsTerminal, KeepsUndecided, KeepsPersist DEF Closing
<1>3. Held /\ Closing => TerminalLeavesNoSource
  BY DEF Closing
<1>4. QED
  BY <1>1, <1>2, <1>3, PTL DEF Spec

-----------------------------------------------------------------------------
(* What retention takes.                                                   *)

LEMMA MinIsLeast ==
    ASSUME NEW S \in SUBSET Source, NEW s \in S
    PROVE  Min(S) =< s
<1>1. S \subseteq Nat /\ S # {}
  BY SourceAssumption
<1>2. PICK x \in S : \A y \in S : <<y, x>> \notin OpToRel(<, Nat)
  BY <1>1, WFMin, NatLessThanWellFounded, Zenon
<1>3. \A y \in S : y \in Nat /\ x \in Nat
  BY <1>1
<1>4. \A y \in S : ~(y < x)
  BY <1>2, <1>3, Zenon DEF OpToRel
<1>5. \A y \in S : x =< y
  BY <1>3, <1>4, SMT
<1>6. QED
  BY <1>5, Zenon DEF Min

LEMMA PrimaryIsLast == Primary \in Source /\ \A s \in Source : s =< Primary
<1>1. \E last \in Source : \A s \in Source : last >= s
  BY LastSourceAssumption, SourceAssumption
<1>2. Primary \in Source /\ \A s \in Source : Primary >= s
  BY <1>1, Zenon DEF Primary, Max
<1>3. QED
  BY <1>2, SourceAssumption

(* The least of the sources is the last one only if there is no other.     *)
LEMMA OnlyPrimary ==
    ASSUME NEW S \in SUBSET Source, S = {} \/ Min(S) = Primary
    PROVE  S \subseteq {Primary}
<1>1. SUFFICES ASSUME NEW s \in S PROVE s = Primary
  OBVIOUS
<1>2. Min(S) = Primary /\ Min(S) =< s /\ s =< Primary /\ s \in Nat /\ Primary \in Nat
  BY <1>1, MinIsLeast, PrimaryIsLast, SourceAssumption
<1>3. QED
  BY <1>2

(* What permits retention to take an attached source: a decision that      *)
(* releases it, and no half-done migration from "keep".                    *)
Sure == decision \in {"keep", "skipped"} /\ ~repair
Open == Attached = {} \/ Sure
NoneLeft == Primary \notin legacyFile /\ Attached \intersect legacyFile = {}
AfterProtect == BootDone \ {"orphans", "protect"}

(* The sources are unprotected only then, and so they were when a job that *)
(* has not touched its source yet found them; a request that turns the     *)
(* protection off has repaired what a half-done migration left.            *)
Releases ==
    /\ booted \/ pc["main"] \in AfterProtect => protected \/ Open
    /\ pc["job"] \in Unfinished \/ pc["api"] = "prepare" => job.prev = TRUE \/ job.unlinked = TRUE \/ Open
    /\ pc["api"] = "decide" => ~repair \/ pc["job"] \in {"retain", "book", "lockDecision"}
    /\ pc["api"] \in {"persistKeep", "protectOff"} => ~repair
    /\ pc["api"] = "protectOff" => decision = "keep"
    /\ pc["api"] # "persistPending"

(* The decision lock is with the request, or the job, that is past it.     *)
Deciders ==
    /\ pc["api"] \notin {"none", "wait"} => decisionLock = "api"
    /\ pc["job"] \in Booking \ {"lockDecision"} => decisionLock = "job"

(* A start that finds no decision to protect the sources finds no source,  *)
(* since the file at the configured path is the last to go.                *)
LastToGo ==
    /\ ~booted /\ pc["main"] \in {"attach", "discards", "complete", "orphans", "protect"} =>
          protected \/ decision = "keep" \/ NoneLeft
    /\ ~booted /\ pc["main"] \in {"orphans", "protect"} => Missing = {}
    /\ decision = "none" => Primary \in legacyFile \/ NoneLeft
    /\ pc["job"] \in Copying /\ job.source = Primary /\ decision = "none" => Attached \subseteq {Primary}
    /\ pc["main"] = "unlink" /\ victim["main"] = Primary => Attached \subseteq {Primary}
    /\ legacy[Primary] = "discarding" => Attached = {}

(* Before the first decision is recorded, no source becomes unreadable.    *)
ReadableUntilDecided == decision = "none" => \A s \in Source : legacy[s] # "quarantined"

Guards == Held /\ Closing /\ Releases /\ Deciders /\ LastToGo

(* Who records which decision, and where a "keep" is noted as half done.   *)
LEMMA DecisionWays ==
    ASSUME Guards, [Next]_vars
    PROVE  /\ decision' = decision \/ decision' \in {"keep", "skipped"} \/ Attached = {} \/ pc["main"] = "down"
           /\ decision' = "none" => decision = "none"
<1> USE DEF At, Goto, Spend, Do
<1>1. Types /\ Actor = {"main", "job", "api"}
  BY DEF Guards, Held, Flow, Actor
<1>2. CASE Start
  BY <1>2 DEF Start, Ensured
<1>3. CASE \E a \in Actor : Repairs(a)
  BY <1>3 DEF Repairs, Repair, PersistRepair, DecisionCommit, Acknowledge
<1>4. CASE \E a \in Actor : Finalize(a)
  BY <1>4 DEF Finalize, DecisionCommit
<1>5. CASE \E a \in Actor : Reconcile(a)
  BY <1>1, <1>5, ReconcileFrame
<1>6. CASE \E a \in Actor : Retention(a)
  BY <1>6 DEF Retention, EndRetention, ChooseSource, UnlinkVictim, ForgetVictim, TrimCopy
<1>7. CASE Attach \/ ProtectForRepair \/ StartFails \/ RetentionFails \/ Booted
  BY <1>7 DEF Attach, ProtectForRepair, StartFails, RetentionFails, Booted
<1>8. CASE DiscardStale \/ DropSample \/ DiscardLeftover \/ DiscardTarget \/ DiscardTargetCopies
  BY <1>8 DEF DiscardStale, DropSample, DiscardLeftover, DiscardTarget, DiscardTargetCopies, DiscardCopies, FinishDiscard
<1>9. CASE \/ Plan \/ CreateSample \/ FillSample \/ Cutoff \/ SourceGone \/ CopyRows \/ LockForCommit \/ UnlinkSource
           \/ CommitMigration \/ Bookkeeping \/ LockDecision \/ JobFails \/ JobEnds
  BY <1>9 DEF Plan, CreateSample, CreateCopy, FillSample, FillCopy, Cutoff, SourceGone, CopyRows, LockForCommit,
     UnlinkSource, CommitMigration, Bookkeeping, LockDecision, JobFails, JobEnds
<1>10. CASE PersistMigrated
  BY <1>10 DEF PersistMigrated, DecisionCommit, Guards, Closing
<1>11. CASE PersistDecision
  BY <1>11 DEF PersistDecision, Persist, DecisionCommit, Guards, Closing, Releases
<1>12. CASE \/ EnterRequest \/ Poll \/ Decide \/ SetProtection \/ LockDiscard \/ MarkDiscarding \/ Discarded
            \/ StartMigration \/ PrepareMigration \/ EndRequest
  BY <1>12 DEF EnterRequest, Poll, Decide, SetProtection, LockDiscard, MarkDiscarding, Discarded, StartMigration,
     PrepareMigration, EndRequest
<1>13. CASE BeginRetention \/ Crash \/ (\E kind \in Kind : Request(kind)) \/ (\E s \in Source : Quarantine(s))
            \/ UNCHANGED vars
  BY <1>13 DEF BeginRetention, Crash, Request, Quarantine, vars
<1>14. CASE Main
  BY <1>1, <1>2, <1>3, <1>4, <1>5, <1>6, <1>7, <1>14 DEF Main
<1>15. CASE Job
  BY <1>1, <1>3, <1>5, <1>6, <1>8, <1>9, <1>10, <1>15 DEF Job
<1>16. CASE Api
  BY <1>1, <1>3, <1>4, <1>8, <1>11, <1>12, <1>16 DEF Api
<1>17. QED
  BY <1>13, <1>14, <1>15, <1>16 DEF Next

LEMMA RepairWays ==
    ASSUME Flow, [Next]_vars, repair', ~repair
    PROVE  \/ pc["main"] = "complete" /\ pc'["main"] = "protect" /\ pc'["job"] = pc["job"] /\ pc'["api"] = pc["api"]
           \/ /\ pc["job"] \in {"complete", "commit"} /\ pc'["job"] \in {"book", "retain"}
              /\ pc'["main"] = pc["main"] /\ pc'["api"] = pc["api"] /\ UNCHANGED <<booted, protected, job, decision>>
<1> USE DEF At, Goto, Spend, Do
<1>1. Types /\ Actor = {"main", "job", "api"} /\ pc \in [Actor -> Place]
  BY DEF Flow, Types, Actor
<1>2. CASE \E a \in {"main", "job"} : CompleteCommit(a)
  <2>1. PICK a \in {"main", "job"} : CompleteCommit(a)
    BY <1>2
  <2>2. pc[a] = "complete" /\ pc' = [pc EXCEPT ![a] = AfterCompletion(a)]
        /\ UNCHANGED <<booted, protected, job, decision>>
    BY <1>1, <2>1, CompleteCommitDoes DEF manifest
  <2>3. QED
    BY <1>1, <2>2 DEF AfterCompletion
<1>3. CASE CommitMigration
  <2>1. pc' = [pc EXCEPT !["job"] = "retain"] \/ (pc' = [pc EXCEPT !["job"] = "failed"] /\ UNCHANGED manifest)
    BY <1>3, Zenon DEF CommitMigration
  <2>2. pc["job"] = "commit" /\ UNCHANGED <<booted, protected, job, decision>>
    BY <1>3 DEF CommitMigration, rest
  <2>3. QED
    BY <1>1, <2>1, <2>2 DEF manifest
<1>4. CASE \E a \in Actor : Repairs(a) \/ Finalize(a)
  BY <1>4 DEF Repairs, Repair, PersistRepair, DecisionCommit, Acknowledge, Finalize, manifest
<1>5. CASE \E a \in Actor : ReconcileDiscards(a) \/ DiscardOrphans(a) \/ Retention(a)
  BY <1>5 DEF ReconcileDiscards, FinishDiscard, DiscardOrphans, DiscardCopies, Retention, EndRetention, ChooseSource,
     UnlinkVictim, ForgetVictim, TrimCopy, manifest
<1>6. CASE Start \/ Attach \/ ProtectForRepair \/ StartFails \/ RetentionFails \/ Booted
  BY <1>6 DEF Start, Attach, ProtectForRepair, StartFails, RetentionFails, Booted, manifest
<1>7. CASE DiscardStale \/ DropSample \/ DiscardLeftover \/ DiscardTarget \/ DiscardTargetCopies
  BY <1>7 DEF DiscardStale, DropSample, DiscardLeftover, DiscardTarget, DiscardTargetCopies, DiscardCopies, FinishDiscard
<1>8. CASE \/ Plan \/ CreateSample \/ FillSample \/ Cutoff \/ SourceGone \/ CopyRows \/ LockForCommit \/ UnlinkSource
           \/ Bookkeeping \/ LockDecision \/ JobFails \/ JobEnds \/ PersistMigrated
  BY <1>8 DEF Plan, CreateSample, CreateCopy, FillSample, FillCopy, Cutoff, SourceGone, CopyRows, LockForCommit,
     UnlinkSource, Bookkeeping, LockDecision, JobFails, JobEnds, PersistMigrated, DecisionCommit, manifest
<1>9. CASE \/ EnterRequest \/ Poll \/ Decide \/ SetProtection \/ LockDiscard \/ MarkDiscarding \/ Discarded
           \/ StartMigration \/ PrepareMigration \/ EndRequest \/ PersistDecision
  BY <1>9 DEF EnterRequest, Poll, Decide, SetProtection, LockDiscard, MarkDiscarding, Discarded, StartMigration,
     PrepareMigration, EndRequest, PersistDecision, Persist, DecisionCommit, manifest
<1>10. CASE BeginRetention \/ Crash \/ (\E kind \in Kind : Request(kind)) \/ (\E s \in Source : Quarantine(s))
            \/ UNCHANGED vars
  BY <1>10 DEF BeginRetention, Crash, Request, Quarantine, vars, manifest
<1>11. CASE Main
  BY <1>1, <1>2, <1>4, <1>5, <1>6, <1>11 DEF Main, Reconcile
<1>12. CASE Job
  BY <1>1, <1>2, <1>3, <1>4, <1>5, <1>7, <1>8, <1>12 DEF Job, Reconcile
<1>13. CASE Api
  BY <1>1, <1>4, <1>7, <1>9, <1>13 DEF Api
<1>14. QED
  BY <1>10, <1>11, <1>12, <1>13 DEF Next

LEMMA AttachedStays ==
    ASSUME Guards, [Next]_vars
    PROVE  \/ Attached' \subseteq Attached
           \/ /\ Primary \in legacyFile /\ legacy[Primary] = "none"
              /\ ~booted /\ pc["main"] \in {"down", "attach", "failed"}
<1>1. Types
  BY DEF Guards, Held, Flow
<1>2. Attached' \subseteq Attached \/ \E s \in legacyFile : legacy[s] = "none"
  BY <1>1, NextData, AttachedAfter DEF Guards
<1>3. QED
  BY <1>2 DEF Guards, Closing, Undecided

(* After the start, what permits retention stays, unless a migration from  *)
(* "keep" is noted as half done.                                           *)
LEMMA OpenStays ==
    ASSUME Guards, [Next]_vars, booted \/ pc["main"] \in AfterProtect, Open, repair' => repair
    PROVE  Open' /\ Attached' \subseteq Attached
<1>1. pc["main"] # "down" /\ (booted \/ pc["main"] \notin {"down", "attach", "failed"})
  BY DEF Guards, Held, Flow, Places, Serving, Retaining, AfterProtect, BootDone
<1>2. Attached' \subseteq Attached
  BY <1>1, AttachedStays
<1>3. decision' = decision \/ decision' \in {"keep", "skipped"} \/ Attached = {}
  BY <1>1, DecisionWays
<1>4. QED
  BY <1>2, <1>3 DEF Open, Sure

(* What the steps of main leave alone.                                     *)
LEMMA MainFrame ==
    ASSUME Flow, Main, ~StartFails
    PROVE  /\ pc'["job"] = pc["job"] /\ pc'["api"] = pc["api"]
           /\ UNCHANGED <<job, request, decisionLock, keepSource>> \/ pc["main"] = "complete"
           /\ UNCHANGED <<job, request, decisionLock>>
<1> USE DEF At, Goto, Spend, Do
<1>1. Types /\ pc \in [Actor -> Place] /\ Actor = {"main", "job", "api"}
  BY DEF Flow, Types, Actor
<1>2. CASE ReconcileDiscards("main")
  BY <1>1, <1>2, FinishDiscardDoes DEF ReconcileDiscards
<1>3. CASE CompleteCommit("main")
  BY <1>1, <1>3, CompleteCommitDoes
<1>4. CASE DiscardOrphans("main")
  BY <1>1, <1>4, DiscardCopiesDoes DEF DiscardOrphans
<1>5. CASE Start \/ Attach \/ ProtectForRepair \/ RetentionFails \/ Booted
  BY <1>1, <1>5 DEF Start, Attach, ProtectForRepair, RetentionFails, Booted, rest, locks, manifest
<1>6. CASE Retention("main")
  BY <1>1, <1>6 DEF Retention, EndRetention, ChooseSource, UnlinkVictim, ForgetVictim, TrimCopy, rest, locks, manifest
<1>7. CASE Repairs("main") \/ Finalize("main")
  BY <1>1, <1>7 DEF Repairs, Repair, PersistRepair, DecisionCommit, Acknowledge, Finalize, rest, locks, manifest
<1>8. QED
  BY <1>2, <1>3, <1>4, <1>5, <1>6, <1>7 DEF Main, Reconcile

LEMMA KeepsDeciders ==
    ASSUME Guards, [Next]_vars
    PROVE  Deciders'
<1> USE DEF At, Goto, Spend, Do
<1>1. /\ Types /\ pc \in [Actor -> Place] /\ Actor = {"main", "job", "api"} /\ Flow /\ Deciders
      /\ decisionLock \in {"main", "job", "api", "free"}
  BY DEF Guards, Held, Flow, Types, Actor
<1>2. CASE Main
  <2>1. CASE StartFails
    BY <1>1, <2>1 DEF StartFails, Forget, Deciders, Booking
  <2>2. CASE ~StartFails
    BY <1>1, <1>2, <2>2, MainFrame DEF Deciders
  <2>3. QED
    BY <2>1, <2>2
<1>3. CASE Job
  <2>1. pc'["api"] = pc["api"]
    BY <1>1, <1>3, JobFrame
  <2>2. CASE JobFails \/ JobEnds
    BY <1>1, <2>1, <2>2 DEF JobFails, JobEnds, Release, Deciders, Booking
  <2>3. CASE LockDecision
    BY <1>1, <2>1, <2>3 DEF LockDecision, Deciders
  <2>4. CASE Repairs("job") \/ PersistMigrated
    BY <1>1, <2>1, <2>4 DEF Repairs, Repair, AfterRepair, Raised, PersistRepair, DecisionCommit, Acknowledge,
       PersistMigrated, locks, Deciders, Booking
  <2>5. CASE Retention("job")
    BY <1>1, <2>1, <2>5, JobTrims DEF EndRetention, AfterRetention, TrimCopy, locks, Deciders, Booking
  <2>6. CASE CommitMigration
    <3>1. pc' = [pc EXCEPT !["job"] = "retain"] \/ pc' = [pc EXCEPT !["job"] = "failed"]
      BY <2>6, Zenon DEF CommitMigration
    <3>2. UNCHANGED decisionLock
      BY <2>6 DEF CommitMigration
    <3>3. QED
      BY <1>1, <2>1, <3>1, <3>2 DEF Deciders, Booking
  <2>7. CASE \/ Plan \/ CreateSample \/ FillSample \/ Cutoff \/ SourceGone \/ CopyRows \/ LockForCommit \/ UnlinkSource
             \/ Bookkeeping
    <3>1. UNCHANGED decisionLock
      BY <2>7 DEF Plan, CreateSample, CreateCopy, FillSample, FillCopy, Cutoff, SourceGone, CopyRows, LockForCommit,
         UnlinkSource, Bookkeeping, locks
    <3>2. pc'["job"] \notin Booking \ {"lockDecision"}
      BY <1>1, <2>7 DEF Plan, CreateSample, CreateCopy, FillSample, FillCopy, Cutoff, SourceGone, CopyRows,
         LockForCommit, UnlinkSource, Bookkeeping, Booking
    <3>3. QED
      BY <1>1, <2>1, <3>1, <3>2 DEF Deciders
  <2>8. CASE Reconcile("job")
    <3>1. UNCHANGED decisionLock /\ pc'["job"] \in {"discards", "complete", "book", "failed", "orphans", "stale"}
      <4>1. CASE ReconcileDiscards("job")
        BY <1>1, <4>1, FinishDiscardDoes DEF ReconcileDiscards
      <4>2. CASE CompleteCommit("job")
        BY <1>1, <4>2, CompleteCommitDoes DEF AfterCompletion
      <4>3. CASE DiscardOrphans("job")
        BY <1>1, <4>3, DiscardCopiesDoes DEF DiscardOrphans, AfterReconcile
      <4>4. QED
        BY <2>8, <4>1, <4>2, <4>3 DEF Reconcile
    <3>2. QED
      BY <1>1, <2>1, <3>1 DEF Deciders, Booking
  <2>9. CASE DiscardStale \/ DropSample
    <3>1. UNCHANGED decisionLock /\ pc'["job"] \in {"stale", "plan", "failed", "dropSample", "cutoff"}
      BY <1>1, <2>9, DiscardCopiesDoes DEF DiscardStale, DropSample
    <3>2. QED
      BY <1>1, <2>1, <3>1 DEF Deciders, Booking
  <2>10. QED
    BY <1>3, <2>2, <2>3, <2>4, <2>5, <2>6, <2>7, <2>8, <2>9 DEF Job
<1>4. CASE Api
  <2>1. CASE EndRequest
    BY <1>1, <2>1 DEF EndRequest, Release, Deciders
  <2>2. CASE EnterRequest
    BY <1>1, <2>2 DEF EnterRequest, Deciders
  <2>3. CASE ~EndRequest /\ ~EnterRequest
    <3>1. pc["api"] \notin {"none", "wait"}
      BY <1>4, <2>3 DEF Api, Poll, Repairs, Repair, PersistRepair, Acknowledge, Finalize, Decide, PersistDecision,
         Persist, SetProtection, LockDiscard, DiscardLeftover, DiscardTargetCopies, MarkDiscarding, DiscardTarget,
         Discarded, StartMigration, PrepareMigration, DiscardCopies, FinishDiscard
    <3>2. decisionLock = "api" /\ pc["job"] \notin Booking \ {"lockDecision"}
      BY <1>1, <3>1 DEF Deciders
    <3>3. UNCHANGED decisionLock
      BY <1>4, <2>3 DEF Api, Poll, Repairs, Repair, PersistRepair, Acknowledge, Finalize, Decide, PersistDecision,
         Persist, DecisionCommit, SetProtection, LockDiscard, DiscardLeftover, DiscardTargetCopies, MarkDiscarding,
         DiscardTarget, Discarded, StartMigration, PrepareMigration, DiscardCopies, FinishDiscard, locks
    <3>4. pc'["job"] = pc["job"] \/ pc'["job"] = "discards"
      <4>1. CASE DiscardLeftover \/ DiscardTarget \/ DiscardTargetCopies
        BY <1>1, <4>1, FinishDiscardDoes, DiscardCopiesDoes DEF DiscardLeftover, DiscardTarget, DiscardTargetCopies
      <4>2. CASE ~(DiscardLeftover \/ DiscardTarget \/ DiscardTargetCopies)
        BY <1>1, <1>4, <2>3, <4>2 DEF Api, Poll, Repairs, Repair, PersistRepair, DecisionCommit,
           Acknowledge, Finalize, Decide, PersistDecision, Persist, SetProtection, LockDiscard, MarkDiscarding, Discarded,
           StartMigration, PrepareMigration
      <4>3. QED
        BY <4>1, <4>2
    <3>5. QED
      BY <3>2, <3>3, <3>4 DEF Deciders, Booking
  <2>4. QED
    BY <2>1, <2>2, <2>3
<1>5. CASE Crash
  BY <1>1, <1>5 DEF Crash, Forget, Deciders, Booking
<1>6. CASE BeginRetention \/ (\E kind \in Kind : Request(kind)) \/ (\E s \in Source : Quarantine(s)) \/ UNCHANGED vars
  <2>1. /\ pc'["job"] = pc["job"] /\ pc'["api"] \in {pc["api"], "wait"} /\ UNCHANGED decisionLock
    BY <1>1, <1>6 DEF BeginRetention, Request, Quarantine, vars, locks
  <2>2. QED
    BY <1>1, <2>1 DEF Deciders
<1>7. QED
  BY <1>2, <1>3, <1>4, <1>5, <1>6 DEF Next

-----------------------------------------------------------------------------
(* The releases.                                                           *)

LEMMA MainReleases ==
    ASSUME Guards, Main
    PROVE  Releases'
<1> USE DEF At, Goto, Spend, Do
<1>1. /\ Types /\ pc \in [Actor -> Place] /\ Actor = {"main", "job", "api"} /\ Flow /\ Releases /\ Next
      /\ booted \in BOOLEAN /\ protected \in BOOLEAN /\ repair \in BOOLEAN /\ pc["main"] \in MainPlace
  BY DEF Guards, Held, Flow, Types, Actor, Next, Places
<1>2. CASE booted
  <2>1. UNCHANGED <<booted, protected, job, repair, decision>> /\ pc'["job"] = pc["job"] /\ pc'["api"] = pc["api"]
    <3>1. Retention("main") \/ RetentionFails
      BY <1>1, <1>2 DEF Main, Start, Attach, Reconcile, ReconcileDiscards, FinishDiscard, CompleteCommit,
         DiscardOrphans, DiscardCopies, ProtectForRepair, StartFails, Repairs, Repair, PersistRepair, Acknowledge,
         Finalize, Booted, Flow, Places, Serving, Retaining
    <3>2. QED
      BY <1>1, <3>1 DEF Retention, EndRetention, ChooseSource, UnlinkVictim, ForgetVictim, TrimCopy, RetentionFails,
         rest, manifest
  <2>2. Open => Open'
    BY <1>1, <1>2, <2>1, OpenStays
  <2>3. QED
    BY <1>1, <1>2, <2>1, <2>2 DEF Releases
<1>3. CASE ~booted
  <2>1. pc["job"] = "none" /\ pc["api"] = "none"
    BY <1>1, <1>3 DEF Flow, Places
  <2>2. pc'["job"] = "none" /\ pc'["api"] = "none"
    <3>1. CASE StartFails
      BY <1>1, <3>1 DEF StartFails, Forget
    <3>2. CASE ~StartFails
      BY <1>1, <2>1, <3>2, MainFrame
    <3>3. QED
      BY <3>1, <3>2
  <2>3. SUFFICES ASSUME booted' \/ pc'["main"] \in AfterProtect
                 PROVE  protected' \/ Open'
    BY <2>2 DEF Releases, Unfinished, Working
  <2>4. CASE Start \/ Attach \/ StartFails
    BY <1>1, <1>3, <2>3, <2>4 DEF Start, Attach, StartFails, Forget, rest, AfterProtect, BootDone
  <2>5. CASE Reconcile("main")
    <3>1. CASE ReconcileDiscards("main")
      BY <1>1, <1>3, <2>3, <3>1, FinishDiscardDoes DEF ReconcileDiscards, AfterProtect, BootDone
    <3>2. CASE CompleteCommit("main")
      BY <1>1, <1>3, <2>3, <3>2, CompleteCommitDoes DEF AfterCompletion, AfterProtect, BootDone
    <3>3. CASE DiscardOrphans("main")
      BY <1>1, <1>3, <2>3, <3>3, DiscardCopiesDoes DEF DiscardOrphans, AfterReconcile, AfterProtect, BootDone
    <3>4. QED
      BY <2>5, <3>1, <3>2, <3>3 DEF Reconcile
  <2>6. CASE ProtectForRepair
    <3>1. pc["main"] = "protect" /\ protected' = (protected \/ repair) /\ UNCHANGED <<manifest, decision, legacyFile>>
      BY <2>6 DEF ProtectForRepair, files
    <3>2. protected \/ decision = "keep" \/ NoneLeft
      BY <1>3, <3>1 DEF Guards, LastToGo
    <3>3. NoneLeft => Attached = {}
      BY <1>3, <3>1 DEF Guards, LastToGo, NoneLeft, Missing
    <3>4. QED
      BY <1>1, <3>1, <3>2, <3>3 DEF Open, Sure, Attached, manifest
  <2>7. CASE Retention("main") \/ Repairs("main") \/ Finalize("main") \/ Booted
    <3>1. pc["main"] \in AfterProtect
      BY <2>7 DEF Retention, EndRetention, ChooseSource, UnlinkVictim, ForgetVictim, TrimCopy, Repairs, Repair,
         PersistRepair, Acknowledge, Finalize, Booted, AfterProtect, BootDone, MainPlace
    <3>2. protected \/ Open
      BY <1>1, <3>1 DEF Releases
    <3>3. repair' => repair
      BY <1>1, <3>1, RepairWays, <2>1 DEF AfterProtect, BootDone
    <3>4. Open => Open'
      BY <1>1, <3>1, <3>3, OpenStays
    <3>5. protected' = protected \/ protected' = TRUE
      BY <2>7 DEF Retention, EndRetention, ChooseSource, UnlinkVictim, ForgetVictim, TrimCopy, Repairs, Repair,
         PersistRepair, Acknowledge, Finalize, Booted
    <3>6. QED
      BY <1>1, <3>2, <3>4, <3>5
  <2>8. CASE RetentionFails
    BY <1>3, <2>8 DEF RetentionFails
  <2>9. QED
    BY <2>4, <2>5, <2>6, <2>7, <2>8 DEF Main
<1>4. QED
  BY <1>1, <1>2, <1>3

(* The job of a running process.                                           *)
LEMMA JobReleasesAfter ==
    ASSUME Guards, Job, repair' => repair,
           ~protected' => (protected = FALSE \/ Open),
           pc'["job"] \in Unfinished => /\ pc["job"] \in Unfinished /\ job'.prev = job.prev
                                        /\ job'.unlinked = job.unlinked \/ job'.unlinked = TRUE,
           pc["job"] \in {"retain", "book"} => pc'["job"] \in {"retain", "book", "lockDecision"},
           pc["job"] = "lockDecision" => decisionLock = "free"
    PROVE  Releases'
<1>1. UNCHANGED booted /\ pc'["main"] = pc["main"] /\ pc'["api"] = pc["api"] /\ pc["job"] # "none"
  BY JobFrame DEF Guards, Held
<1>2. booted /\ pc["api"] \in BesideJob /\ Releases /\ protected \in BOOLEAN /\ Next
  BY <1>1 DEF Guards, Held, Flow, Places, Types, Next
<1>3. Open => Open'
  BY <1>2, OpenStays
<1>4. pc["api"] = "decide" => ~repair \/ pc["job"] \in {"retain", "book"}
  BY <1>2 DEF Releases, Guards, Deciders
<1>5. protected' \/ Open'
  BY <1>2, <1>3 DEF Releases
<1>6. pc'["job"] \in Unfinished => job'.prev = TRUE \/ job'.unlinked = TRUE \/ Open'
  BY <1>2, <1>3 DEF Releases
<1>7. QED
  BY <1>1, <1>2, <1>4, <1>5, <1>6 DEF Releases, BesideJob

LEMMA JobReleases ==
    ASSUME Guards, Job
    PROVE  Releases'
<1> USE DEF At, Goto, Spend, Do
<1>1. /\ Types /\ pc \in [Actor -> Place] /\ Actor = {"main", "job", "api"} /\ Flow /\ Next /\ Releases
      /\ job \in Job_ /\ protected \in BOOLEAN /\ repair \in BOOLEAN
  BY DEF Guards, Held, Flow, Types, Actor, Next
<1>2. CASE repair' /\ ~repair
  <2>1. /\ pc["job"] \in {"complete", "commit"} /\ pc'["job"] \in {"book", "retain"}
        /\ pc'["main"] = pc["main"] /\ pc'["api"] = pc["api"] /\ UNCHANGED <<booted, protected, job, decision>>
    <3>1. pc'["main"] = pc["main"]
      BY <1>1, JobFrame
    <3>2. QED
      BY <1>1, <1>2, <3>1, RepairWays
  <2>2. protected /\ pc["api"] \in BesideJob
    BY <1>1, <2>1 DEF Flow, Guarded, Places, JobPlace, Booking
  <2>3. QED
    BY <1>1, <2>1, <2>2 DEF Releases, BesideJob, Unfinished, Working
<1>3. SUFFICES ASSUME repair' => repair
               PROVE  Releases'
  BY <1>2
<1>4. CASE ReconcileDiscards("job")
  <2>1. pc["job"] = "discards" /\ pc'["job"] \in {"discards", "complete"} /\ UNCHANGED <<protected, job>>
    BY <1>1, <1>4, FinishDiscardDoes DEF ReconcileDiscards
  <2>2. QED
    BY <1>1, <1>3, <2>1, JobReleasesAfter DEF Unfinished
<1>5. CASE CompleteCommit("job")
  <2>1. pc["job"] = "complete" /\ pc'["job"] \in {"book", "failed", "orphans"} /\ UNCHANGED <<protected, job>>
    BY <1>1, <1>5, CompleteCommitDoes DEF AfterCompletion
  <2>2. QED
    BY <1>1, <1>3, <2>1, JobReleasesAfter DEF Unfinished
<1>6. CASE DiscardOrphans("job") \/ DiscardStale \/ DropSample
  <2>1. pc["job"] \in Working /\ UNCHANGED <<protected, job>>
    BY <1>1, <1>6, DiscardCopiesDoes DEF DiscardOrphans, AfterReconcile, DiscardStale, DropSample, Working
  <2>2. QED
    BY <1>1, <1>3, <2>1, JobReleasesAfter DEF Unfinished, Working
<1>7. CASE \/ Plan \/ CreateSample \/ FillSample \/ Cutoff \/ SourceGone \/ CopyRows \/ LockForCommit \/ UnlinkSource
  <2>1. pc["job"] \in Working /\ UNCHANGED protected
    BY <1>7 DEF Plan, CreateSample, CreateCopy, FillSample, FillCopy, Cutoff, SourceGone, CopyRows, LockForCommit,
       UnlinkSource, rest, Working
  <2>2. job'.prev = job.prev /\ (job'.unlinked = job.unlinked \/ job'.unlinked = TRUE)
    BY <1>1, <1>7 DEF Plan, CreateSample, CreateCopy, FillSample, FillCopy, Cutoff, SourceGone, CopyRows, LockForCommit,
       UnlinkSource, rest, Job_
  <2>3. QED
    BY <1>1, <1>3, <2>1, <2>2, JobReleasesAfter DEF Unfinished, Working
<1>8. CASE CommitMigration
  <2>1. pc["job"] = "commit" /\ UNCHANGED <<protected, job>>
    BY <1>8 DEF CommitMigration, rest
  <2>2. QED
    BY <1>1, <1>3, <2>1, JobReleasesAfter DEF Unfinished
<1>9. CASE Retention("job") \/ Bookkeeping
  <2>1. /\ pc["job"] \in {"retain", "book"} /\ pc'["job"] \in {"retain", "book", "lockDecision"}
        /\ UNCHANGED protected \/ Attached = {}
    <3>1. CASE Retention("job")
      BY <1>1, <3>1, JobTrims DEF EndRetention, AfterRetention, TrimCopy
    <3>2. CASE Bookkeeping
      BY <1>1, <3>2 DEF Bookkeeping
    <3>3. QED
      BY <1>9, <3>1, <3>2
  <2>2. ~protected' => protected = FALSE \/ Open
    BY <1>1, <2>1 DEF Open
  <2>3. QED
    BY <1>1, <1>3, <2>1, <2>2, JobReleasesAfter DEF Unfinished, Working
<1>10. CASE LockDecision
  <2>1. /\ pc["job"] = "lockDecision" /\ pc'["job"] \in {"repair", "persistMigrated"} /\ UNCHANGED protected
        /\ decisionLock = "free"
    BY <1>1, <1>10 DEF LockDecision
  <2>2. QED
    BY <1>1, <1>3, <2>1, JobReleasesAfter DEF Unfinished, Working
<1>11. CASE PersistMigrated \/ JobEnds \/ Repairs("job")
  <2>1. /\ protected' = protected \/ protected' = TRUE
        /\ pc["job"] \in Booking \ {"lockDecision"} /\ pc'["job"] \notin Unfinished
    BY <1>1, <1>11 DEF PersistMigrated, DecisionCommit, JobEnds, Repairs, Repair, AfterRepair, Raised,
       PersistRepair, Acknowledge, Booking, Working, Unfinished
  <2>2. ~protected' => protected = FALSE
    BY <1>1, <2>1
  <2>3. QED
    BY <1>1, <1>3, <2>1, <2>2, JobReleasesAfter DEF Booking
<1>12. CASE JobFails
  <2>1. pc["job"] = "failed" /\ pc'["job"] = "none" /\ protected' = IF job.unlinked THEN protected ELSE job.prev
    BY <1>1, <1>12 DEF JobFails
  <2>2. job.unlinked \in BOOLEAN /\ job.prev \in BOOLEAN
    BY <1>1 DEF Job_
  <2>3. job.prev = TRUE \/ job.unlinked = TRUE \/ Open
    BY <1>1, <2>1 DEF Releases, Unfinished
  <2>4. ~protected' => protected = FALSE \/ Open
    BY <1>1, <2>1, <2>2, <2>3
  <2>5. QED
    BY <1>1, <1>3, <2>1, <2>4, JobReleasesAfter DEF Unfinished, Working
<1>13. QED
  BY <1>4, <1>5, <1>6, <1>7, <1>8, <1>9, <1>10, <1>11, <1>12 DEF Job, Reconcile

(* A request that touches no job.                                          *)
LEMMA ApiReleasesAfter ==
    ASSUME Guards, Api, pc'["job"] = pc["job"], UNCHANGED job,
           ~protected' => (protected = FALSE \/ Open),
           pc'["api"] \notin {"prepare", "persistPending"},
           pc'["api"] = "decide" => ~repair',
           pc'["api"] \in {"persistKeep", "protectOff"} => ~repair',
           pc'["api"] = "protectOff" => decision' = "keep"
    PROVE  Releases'
<1>1. UNCHANGED booted /\ pc'["main"] = pc["main"] /\ pc["api"] # "none"
  BY ApiFrame DEF Guards, Held
<1>2. booted /\ Flow /\ Releases /\ protected \in BOOLEAN /\ Next
  BY <1>1 DEF Guards, Held, Flow, Places, Types, Next
<1>3. repair' => repair
  BY <1>1, <1>2, RepairWays
<1>4. Open => Open'
  BY <1>2, <1>3, OpenStays
<1>5. QED
  BY <1>1, <1>2, <1>4 DEF Releases

LEMMA ApiReleases ==
    ASSUME Guards, Api
    PROVE  Releases'
<1> USE DEF At, Goto, Spend, Do, SetLegacy
<1>1. /\ Types /\ pc \in [Actor -> Place] /\ Actor = {"main", "job", "api"} /\ Flow /\ Next /\ Releases
      /\ job \in Job_ /\ protected \in BOOLEAN /\ repair \in BOOLEAN
      /\ (pc["job"] # "none" => pc["api"] \in BesideJob)
  BY DEF Guards, Held, Flow, Types, Actor, Next, Places
<1>2. /\ UNCHANGED booted /\ pc'["main"] = pc["main"] /\ booted
  <2>1. UNCHANGED booted /\ pc'["main"] = pc["main"] /\ pc["api"] # "none"
    BY <1>1, ApiFrame
  <2>2. QED
    BY <1>1, <2>1 DEF Flow, Places
<1>3. CASE EnterRequest \/ EndRequest \/ LockDiscard \/ MarkDiscarding
  <2>1. /\ pc'["job"] = pc["job"] /\ UNCHANGED <<job, protected>>
        /\ pc'["api"] \in {"none", "poll", "repair", "leftover", "discarded", "finishDiscard", "end"}
    BY <1>1, <1>3 DEF EnterRequest, EndRequest, LockDiscard, MarkDiscarding, rest
  <2>2. QED
    BY <1>1, <2>1, ApiReleasesAfter
<1>4. CASE Poll
  <2>1. ~(decision \in Terminal /\ Attached # {})
    BY DEF Guards, Closing, TerminalLeavesNoSource
  <2>2. /\ pc'["job"] = pc["job"] /\ UNCHANGED <<job, protected>> /\ pc'["api"] = "repair"
    BY <1>1, <1>4, <2>1 DEF Poll, rest
  <2>3. QED
    BY <1>1, <2>2, ApiReleasesAfter
<1>5. CASE Repairs("api") \/ Finalize("api")
  <2>1. /\ pc'["job"] = pc["job"] /\ UNCHANGED job /\ (protected' = protected \/ protected' = TRUE)
        /\ pc'["api"] \in {"acknowledge", "persistRepair", "finalize", "start", "decide", "end"}
        /\ pc'["api"] = "decide" => ~repair'
    BY <1>1, <1>5 DEF Repairs, Repair, AfterRepair, Raised, PersistRepair, DecisionCommit, Acknowledge, Finalize, rest,
       manifest
  <2>2. ~protected' => protected = FALSE
    BY <1>1, <2>1
  <2>3. QED
    BY <1>1, <2>1, <2>2, ApiReleasesAfter
<1>6. CASE Decide
  <2>1. request \in {"skip", "keep", "discard"}
    BY <1>1, <1>6 DEF Decide, Flow, Places
  <2>2. pc["api"] = "decide" /\ pc'["job"] = pc["job"] /\ UNCHANGED <<job, protected, repair>>
    BY <1>1, <1>6 DEF Decide, rest, manifest
  <2>3. CASE Refused
    <3>1. pc'["api"] = "end"
      BY <1>1, <1>6, <2>3 DEF Decide
    <3>2. QED
      BY <1>1, <2>2, <3>1, ApiReleasesAfter
  <2>4. CASE ~Refused
    <3>1. ~repair
      BY <1>1, <2>2, <2>4 DEF Refused, Releases
    <3>2. pc'["api"] \in {"persistSkipped", "lockDiscard", "persistMigrated", "persistKeep"}
      <4>1. CASE request = "skip"
        BY <1>1, <1>6, <2>4, <4>1 DEF Decide
      <4>2. CASE request = "discard"
        BY <1>1, <1>6, <2>4, <4>2 DEF Decide
      <4>3. CASE request = "keep"
        BY <1>1, <1>6, <2>4, <4>3 DEF Decide
      <4>4. QED
        BY <2>1, <4>1, <4>2, <4>3
    <3>3. QED
      BY <1>1, <2>2, <3>1, <3>2, ApiReleasesAfter
  <2>5. QED
    BY <2>3, <2>4
<1>7. CASE PersistDecision
  <2>1. pc'["job"] = pc["job"] /\ UNCHANGED <<job, protected, repair>> /\ pc'["api"] \in {"end", "protectOn", "protectOff"}
    BY <1>1, <1>7 DEF PersistDecision, Persist, DecisionCommit, rest, manifest
  <2>2. pc'["api"] = "protectOff" => pc["api"] = "persistKeep" /\ decision' = "keep"
    BY <1>1, <1>7 DEF PersistDecision, Persist, DecisionCommit
  <2>3. QED
    BY <1>1, <2>1, <2>2, ApiReleasesAfter DEF Releases
<1>8. CASE SetProtection
  <2>1. /\ pc["api"] \in {"protectOn", "protectOff"} /\ pc'["api"] = "end" /\ pc'["job"] = pc["job"] /\ UNCHANGED job
        /\ (pc["api"] = "protectOn" => protected')
    BY <1>1, <1>8 DEF SetProtection, rest
  <2>2. pc["api"] = "protectOff" => Open
    BY <1>1 DEF Releases, Open, Sure
  <2>3. QED
    BY <1>1, <2>1, <2>2, ApiReleasesAfter
<1>9. CASE DiscardLeftover \/ DiscardTarget \/ DiscardTargetCopies
  <2>1. /\ pc'["job"] = pc["job"] /\ UNCHANGED <<job, protected>>
        /\ pc'["api"] \in {"leftover", "copies", "finishDiscard", "mark", "discarded", "end"}
    BY <1>1, <1>9, FinishDiscardDoes, DiscardCopiesDoes DEF DiscardLeftover, DiscardTarget, DiscardTargetCopies
  <2>2. QED
    BY <1>1, <2>1, ApiReleasesAfter
<1>10. CASE Discarded
  <2>1. /\ pc'["job"] = pc["job"] /\ UNCHANGED job /\ pc'["api"] \in {"persistDiscarded", "persistSkipped"}
        /\ protected' = (Attached # {})
    BY <1>1, <1>10 DEF Discarded, rest
  <2>2. QED
    BY <1>1, <2>1, ApiReleasesAfter DEF Open
<1>11. CASE StartMigration
  <2>1. CASE pc'["api"] = "end" /\ UNCHANGED <<job, protected>> /\ pc'["job"] = pc["job"]
    BY <1>1, <2>1, ApiReleasesAfter
  <2>2. CASE /\ pc'["api"] = "prepare" /\ protected' = TRUE /\ pc["job"] = "none" /\ pc'["job"] = pc["job"]
             /\ job' = [NoJob EXCEPT !.source = Min(Attached), !.prev = protected]
    <3>1. job'.prev = protected
      BY <2>2 DEF NoJob
    <3>2. UNCHANGED <<decision, legacy, repair>>
      BY <1>11 DEF StartMigration, manifest
    <3>3. protected \/ Open'
      BY <1>1, <1>2, <3>2 DEF Releases, Open, Sure, Attached
    <3>4. job'.prev = TRUE \/ Open'
      BY <1>1, <3>1, <3>3
    <3>5. QED
      BY <1>2, <2>2, <3>4 DEF Releases, Working, Unfinished
  <2>3. QED
    BY <1>1, <1>11, <2>1, <2>2 DEF StartMigration, StartRefused
<1>12. CASE PrepareMigration
  <2>1. pc["api"] = "prepare" /\ pc'["api"] = "end" /\ pc["job"] = "none" /\ UNCHANGED <<decision, legacy, repair>>
    BY <1>1, <1>12 DEF PrepareMigration, BesideJob
  <2>2. job.unlinked = FALSE /\ protected = TRUE
    BY <1>1, <2>1 DEF Guards, Held, Protects, Flow, Guarded
  <2>3. job.prev = TRUE \/ Open'
    BY <1>1, <2>1, <2>2 DEF Releases, Open, Sure, Attached
  <2>4. CASE pc'["job"] = "discards" /\ UNCHANGED <<protected, job>>
    BY <1>2, <2>1, <2>2, <2>3, <2>4 DEF Releases
  <2>5. CASE pc'["job"] = "none" /\ protected' = job.prev
    <3>1. ~protected' => Open'
      BY <2>3, <2>5
    <3>2. QED
      BY <1>2, <2>1, <2>5, <3>1 DEF Releases, Working, Unfinished
  <2>6. QED
    BY <1>1, <1>12, <2>1, <2>4, <2>5 DEF PrepareMigration
<1>13. QED
  BY <1>3, <1>4, <1>5, <1>6, <1>7, <1>8, <1>9, <1>10, <1>11, <1>12 DEF Api

LEMMA KeepsReleases ==
    ASSUME Guards, [Next]_vars
    PROVE  Releases'
<1> USE DEF At, Goto, Spend, SetLegacy
<1>1. CASE Main \/ Job \/ Api
  BY <1>1, MainReleases, JobReleases, ApiReleases
<1>2. CASE Crash
  <2>1. ~booted' /\ pc'["main"] = "down" /\ pc'["job"] = "none" /\ pc'["api"] = "none"
    BY <1>2 DEF Crash, Forget, Actor
  <2>2. QED
    BY <2>1 DEF Releases, AfterProtect, BootDone, Working, Unfinished
<1>3. CASE BeginRetention \/ (\E kind \in Kind : Request(kind)) \/ (\E s \in Source : Quarantine(s)) \/ UNCHANGED vars
  <2>1. /\ UNCHANGED <<booted, protected, job, decision, repair>> /\ pc'["job"] = pc["job"]
        /\ pc'["main"] = pc["main"] \/ booted
        /\ pc'["api"] = pc["api"] \/ pc'["api"] = "wait"
    BY <1>3 DEF BeginRetention, Request, Quarantine, vars, rest, manifest, Guards, Held, Flow, Types, Actor
  <2>2. Attached' = Attached
    <3>1. CASE \E s \in Source : Quarantine(s)
      BY <3>1 DEF Quarantine, Attached, Guards, Held, Flow, Types
    <3>2. CASE BeginRetention \/ (\E kind \in Kind : Request(kind)) \/ UNCHANGED vars
      BY <3>2 DEF BeginRetention, Request, vars, manifest, Attached
    <3>3. QED
      BY <1>3, <3>1, <3>2
  <2>3. Open' = Open
    BY <2>1, <2>2 DEF Open, Sure
  <2>4. QED
    BY <2>1, <2>3 DEF Guards, Releases
<1>4. QED
  BY <1>1, <1>2, <1>3 DEF Next

-----------------------------------------------------------------------------
(* The last source to go.                                                  *)

(* A source changes to a status other than "none" and "legacy" only when   *)
(* it is discarded or found unreadable, and loses its file only to a       *)
(* discard, to retention or to the job.                                    *)
LEMMA StatusWays ==
    ASSUME Guards, [Next]_vars, ~MarkDiscarding, ~\E s \in Source : Quarantine(s), NEW s \in Source
    PROVE  legacy'[s] \in {legacy[s], "none", "legacy"}
<1> USE DEF At, Goto, Spend, Do, SetLegacy
<1>1. Types /\ Actor = {"main", "job", "api"} /\ legacy \in [Source -> Status] /\ Flow
  BY DEF Guards, Held, Flow, Types, Actor
<1>2. CASE \E a \in Actor : CompleteCommit(a)
  <2>1. PICK a \in Actor : CompleteCommit(a)
    BY <1>2
  <2>2. Promote(Missing, TRUE) \/ UNCHANGED manifest
    BY <1>1, <2>1, CompleteCommitDoes
  <2>3. QED
    BY <1>1, <2>2 DEF Promote, manifest
<1>3. CASE CommitMigration
  <2>1. Promote({job.source}, FALSE) \/ UNCHANGED manifest
    BY <1>3, Zenon DEF CommitMigration
  <2>2. QED
    BY <1>1, <2>1 DEF Promote, manifest
<1>4. CASE \E a \in Actor : Repairs(a) \/ Finalize(a)
  BY <1>4 DEF Repairs, Repair, PersistRepair, DecisionCommit, Acknowledge, Finalize, manifest
<1>5. CASE ReconcileDiscards("main") \/ ReconcileDiscards("job") \/ DiscardLeftover \/ DiscardTarget
  BY <1>1, <1>5, FinishDiscardDoes DEF ReconcileDiscards, DiscardLeftover, DiscardTarget
<1>6. CASE \/ \E a \in Actor : DiscardOrphans(a)
           \/ DiscardStale \/ DropSample \/ DiscardTargetCopies
  BY <1>6 DEF DiscardOrphans, DiscardStale, DropSample, DiscardTargetCopies, DiscardCopies
<1>7. CASE \E a \in Actor : Retention(a)
  BY <1>1, <1>7 DEF Retention, EndRetention, ChooseSource, UnlinkVictim, ForgetVictim, TrimCopy, manifest
<1>8. CASE Start \/ Attach \/ ProtectForRepair \/ StartFails \/ RetentionFails \/ Booted
  BY <1>1, <1>8 DEF Start, Attach, ProtectForRepair, StartFails, RetentionFails, Booted, manifest
<1>9. CASE \/ Plan \/ CreateSample \/ FillSample \/ Cutoff \/ SourceGone \/ CopyRows \/ LockForCommit \/ UnlinkSource
           \/ Bookkeeping \/ LockDecision \/ JobFails \/ JobEnds \/ PersistMigrated
  BY <1>9 DEF Plan, CreateSample, CreateCopy, FillSample, FillCopy, Cutoff, SourceGone, CopyRows, LockForCommit,
     UnlinkSource, Bookkeeping, LockDecision, JobFails, JobEnds, PersistMigrated, DecisionCommit, manifest
<1>10. CASE \/ EnterRequest \/ Poll \/ Decide \/ SetProtection \/ LockDiscard \/ Discarded
            \/ StartMigration \/ PrepareMigration \/ EndRequest \/ PersistDecision
  BY <1>10 DEF EnterRequest, Poll, Decide, SetProtection, LockDiscard, Discarded, StartMigration,
     PrepareMigration, EndRequest, PersistDecision, Persist, DecisionCommit, manifest
<1>11. CASE BeginRetention \/ Crash \/ (\E kind \in Kind : Request(kind)) \/ UNCHANGED vars
  BY <1>11 DEF BeginRetention, Crash, Request, vars, manifest
<1>12. CASE Main
  BY <1>1, <1>2, <1>4, <1>5, <1>6, <1>7, <1>8, <1>12 DEF Main, Reconcile
<1>13. CASE Job
  BY <1>1, <1>2, <1>3, <1>4, <1>5, <1>6, <1>7, <1>9, <1>13 DEF Job, Reconcile
<1>14. CASE Api
  BY <1>1, <1>4, <1>5, <1>6, <1>10, <1>14 DEF Api
<1>15. QED
  BY <1>11, <1>12, <1>13, <1>14 DEF Next

LEMMA FileWays ==
    ASSUME Guards, [Next]_vars, NEW s \in legacyFile, s \notin legacyFile'
    PROVE  \/ legacy[s] = "discarding"
           \/ pc["main"] = "unlink" /\ victim["main"] = s /\ UNCHANGED legacy
           \/ pc["job"] = "unlinkSource" /\ job.source = s /\ UNCHANGED legacy
<1> USE DEF At, Goto, Spend, Do, SetLegacy
<1>1. Types /\ Actor = {"main", "job", "api"} /\ Flow
  BY DEF Guards, Held, Flow, Actor
<1>2. CASE \E a \in Actor : CompleteCommit(a) \/ Repairs(a) \/ Finalize(a) \/ DiscardOrphans(a)
  BY <1>2 DEF CompleteCommit, Repairs, Repair, PersistRepair, DecisionCommit, Acknowledge, Finalize, DiscardOrphans,
     DiscardCopies, files
<1>3. CASE ReconcileDiscards("main") \/ ReconcileDiscards("job") \/ DiscardLeftover \/ DiscardTarget
  BY <1>1, <1>3, FinishDiscardDoes DEF ReconcileDiscards, DiscardLeftover, DiscardTarget
<1>4. CASE Retention("main")
  BY <1>4 DEF Retention, EndRetention, ChooseSource, UnlinkVictim, ForgetVictim, TrimCopy, files, manifest
<1>5. CASE Retention("job")
  BY <1>1, <1>5, JobTrims DEF EndRetention, TrimCopy, files
<1>6. CASE Start \/ Attach \/ ProtectForRepair \/ StartFails \/ RetentionFails \/ Booted
  BY <1>6 DEF Start, Attach, ProtectForRepair, StartFails, RetentionFails, Booted, files
<1>7. CASE UnlinkSource
  BY <1>7 DEF UnlinkSource, manifest
<1>8. CASE \/ Plan \/ CreateSample \/ FillSample \/ Cutoff \/ SourceGone \/ CopyRows \/ LockForCommit \/ CommitMigration
           \/ Bookkeeping \/ LockDecision \/ JobFails \/ JobEnds \/ PersistMigrated \/ DiscardStale \/ DropSample
  BY <1>8 DEF Plan, CreateSample, CreateCopy, FillSample, FillCopy, Cutoff, SourceGone, CopyRows, LockForCommit,
     CommitMigration, Bookkeeping, LockDecision, JobFails, JobEnds, PersistMigrated, DecisionCommit, DiscardStale,
     DropSample, DiscardCopies, files
<1>9. CASE \/ EnterRequest \/ Poll \/ Decide \/ SetProtection \/ LockDiscard \/ Discarded \/ MarkDiscarding
           \/ StartMigration \/ PrepareMigration \/ EndRequest \/ PersistDecision \/ DiscardTargetCopies
  BY <1>9 DEF EnterRequest, Poll, Decide, SetProtection, LockDiscard, Discarded, MarkDiscarding, StartMigration,
     PrepareMigration, EndRequest, PersistDecision, Persist, DecisionCommit, DiscardTargetCopies, DiscardCopies, files
<1>10. CASE \/ BeginRetention \/ Crash \/ (\E kind \in Kind : Request(kind)) \/ (\E q \in Source : Quarantine(q))
            \/ UNCHANGED vars
  BY <1>10 DEF BeginRetention, Crash, Request, Quarantine, vars, files
<1>11. CASE Main
  BY <1>1, <1>2, <1>3, <1>4, <1>6, <1>11 DEF Main, Reconcile
<1>12. CASE Job
  BY <1>1, <1>2, <1>3, <1>5, <1>7, <1>8, <1>12 DEF Job, Reconcile
<1>13. CASE Api
  BY <1>1, <1>2, <1>3, <1>9, <1>13 DEF Api
<1>14. QED
  BY <1>10, <1>11, <1>12, <1>13 DEF Next

(* A job that copies has planned its source, and main has chosen a victim. *)
LEMMA CopyingWays ==
    ASSUME Guards, [Next]_vars, ~Plan, pc'["job"] \in Copying
    PROVE  pc["job"] \in Copying /\ job'.source = job.source /\ booted
<1> USE DEF At, Goto, Spend, Do
<1>1. /\ Types /\ pc \in [Actor -> Place] /\ Actor = {"main", "job", "api"} /\ Flow /\ job \in Job_
      /\ (~booted => pc["job"] = "none") /\ booted \in BOOLEAN
  BY DEF Guards, Held, Flow, Types, Actor, Places
<1>2. SUFFICES pc["job"] \in Copying /\ job'.source = job.source
  BY <1>1 DEF Copying
<1>3. CASE Main
  <2>1. ~StartFails
    BY <1>1, <1>2 DEF StartFails, Forget, Copying
  <2>2. QED
    BY <1>1, <1>2, <1>3, <2>1, MainFrame
<1>4. CASE Api
  <2>1. CASE DiscardLeftover \/ DiscardTarget \/ DiscardTargetCopies
    BY <1>1, <1>2, <2>1, FinishDiscardDoes, DiscardCopiesDoes DEF DiscardLeftover, DiscardTarget, DiscardTargetCopies
  <2>2. CASE PrepareMigration
    <3>1. pc["api"] = "prepare" /\ pc["job"] = "none"
      BY <1>1, <2>2 DEF PrepareMigration, Flow, Places, BesideJob
    <3>2. pc'["job"] \in {"none", "discards"}
      BY <1>1, <2>2, <3>1 DEF PrepareMigration
    <3>3. QED
      BY <1>2, <3>2 DEF Copying
  <2>3. CASE StartMigration
    <3>1. pc'["job"] = pc["job"] /\ (UNCHANGED job \/ pc["job"] = "none")
      BY <1>1, <2>3 DEF StartMigration, StartRefused
    <3>2. QED
      BY <1>2, <3>1 DEF Copying
  <2>4. CASE ~(DiscardLeftover \/ DiscardTarget \/ DiscardTargetCopies \/ PrepareMigration \/ StartMigration)
    BY <1>1, <1>2, <1>4, <2>4 DEF Api, EnterRequest, Poll, Repairs, Repair, PersistRepair, DecisionCommit,
       Acknowledge, Finalize, Decide, PersistDecision, Persist, SetProtection, LockDiscard, MarkDiscarding, Discarded,
       EndRequest, rest
  <2>5. QED
    BY <2>1, <2>2, <2>3, <2>4
<1>5. CASE Job
  <2>1. CASE Reconcile("job")
    <3>1. pc'["job"] \in {"discards", "complete", "book", "failed", "orphans", "stale"}
      <4>1. CASE ReconcileDiscards("job")
        BY <1>1, <4>1, FinishDiscardDoes DEF ReconcileDiscards
      <4>2. CASE CompleteCommit("job")
        BY <1>1, <4>2, CompleteCommitDoes DEF AfterCompletion
      <4>3. CASE DiscardOrphans("job")
        BY <1>1, <4>3, DiscardCopiesDoes DEF DiscardOrphans, AfterReconcile
      <4>4. QED
        BY <2>1, <4>1, <4>2, <4>3 DEF Reconcile
    <3>2. QED
      BY <1>2, <3>1 DEF Copying
  <2>2. CASE DiscardStale
    BY <1>1, <1>2, <2>2, DiscardCopiesDoes DEF DiscardStale, Copying
  <2>3. CASE DropSample
    BY <1>1, <1>2, <2>3, DiscardCopiesDoes DEF DropSample, Copying
  <2>4. CASE CreateSample \/ FillSample \/ Cutoff \/ SourceGone \/ CopyRows \/ LockForCommit \/ UnlinkSource
    <3>1. pc["job"] \in Copying
      BY <2>4 DEF CreateSample, CreateCopy, FillSample, FillCopy, Cutoff, SourceGone, CopyRows, LockForCommit,
         UnlinkSource, Copying
    <3>2. job'.source = job.source
      BY <1>1, <2>4 DEF CreateSample, CreateCopy, FillSample, FillCopy, Cutoff, SourceGone, CopyRows, LockForCommit,
         UnlinkSource, rest, Job_
    <3>3. QED
      BY <3>1, <3>2
  <2>5. CASE CommitMigration
    <3>1. pc' = [pc EXCEPT !["job"] = "retain"] \/ pc' = [pc EXCEPT !["job"] = "failed"]
      BY <2>5, Zenon DEF CommitMigration
    <3>2. QED
      BY <1>1, <1>2, <3>1 DEF Copying
  <2>6. CASE Retention("job") \/ Bookkeeping \/ LockDecision \/ PersistMigrated \/ JobFails \/ JobEnds
    <3>1. CASE Retention("job")
      BY <1>1, <1>2, <3>1, JobTrims DEF EndRetention, AfterRetention, TrimCopy, Copying
    <3>2. CASE Bookkeeping \/ LockDecision \/ PersistMigrated \/ JobFails \/ JobEnds
      BY <1>1, <1>2, <3>2 DEF Bookkeeping, LockDecision, PersistMigrated, DecisionCommit, JobFails, JobEnds, Copying
    <3>3. QED
      BY <2>6, <3>1, <3>2
  <2>7. CASE Repairs("job")
    BY <1>1, <1>2, <2>7 DEF Repairs, Repair, AfterRepair, Raised, PersistRepair, DecisionCommit, Acknowledge, Copying
  <2>8. QED
    BY <1>5, <2>1, <2>2, <2>3, <2>4, <2>5, <2>6, <2>7 DEF Job
<1>6. CASE Crash
  BY <1>1, <1>2, <1>6 DEF Crash, Forget, Copying
<1>7. CASE BeginRetention \/ (\E kind \in Kind : Request(kind)) \/ (\E s \in Source : Quarantine(s)) \/ UNCHANGED vars
  BY <1>1, <1>2, <1>7 DEF BeginRetention, Request, Quarantine, vars, rest
<1>8. QED
  BY <1>3, <1>4, <1>5, <1>6, <1>7 DEF Next

LEMMA UnlinkingWays ==
    ASSUME Guards, [Next]_vars, ~ChooseSource("main"), pc'["main"] = "unlink"
    PROVE  pc["main"] = "unlink" /\ victim'["main"] = victim["main"]
<1> USE DEF At, Goto, Spend, Do
<1>1. /\ Types /\ pc \in [Actor -> Place] /\ Actor = {"main", "job", "api"} /\ Flow
      /\ victim \in [Actor -> Source \union {0}]
  BY DEF Guards, Held, Flow, Types, Actor
<1>2. CASE Main
  <2>1. CASE Reconcile("main")
    <3>1. CASE ReconcileDiscards("main")
      BY <1>1, <3>1, FinishDiscardDoes DEF ReconcileDiscards
    <3>2. CASE CompleteCommit("main")
      BY <1>1, <3>2, CompleteCommitDoes DEF AfterCompletion
    <3>3. CASE DiscardOrphans("main")
      BY <1>1, <3>3, DiscardCopiesDoes DEF DiscardOrphans, AfterReconcile
    <3>4. QED
      BY <2>1, <3>1, <3>2, <3>3 DEF Reconcile
  <2>2. CASE Retention("main")
    BY <1>1, <2>2 DEF Retention, EndRetention, AfterRetention, UnlinkVictim, ForgetVictim, TrimCopy, rest
  <2>3. CASE Start \/ Attach \/ ProtectForRepair \/ StartFails \/ RetentionFails \/ Booted
    BY <1>1, <2>3 DEF Start, Attach, ProtectForRepair, StartFails, Forget, RetentionFails, Booted
  <2>4. CASE Repairs("main") \/ Finalize("main")
    BY <1>1, <2>4 DEF Repairs, Repair, AfterRepair, Raised, PersistRepair, DecisionCommit, Acknowledge, Finalize
  <2>5. QED
    BY <1>2, <2>1, <2>2, <2>3, <2>4 DEF Main
<1>3. CASE Job \/ Api
  BY <1>1, <1>3, JobFrame, ApiFrame
<1>4. CASE BeginRetention \/ Crash
  BY <1>1, <1>4 DEF BeginRetention, Crash, Forget
<1>5. CASE (\E kind \in Kind : Request(kind)) \/ (\E s \in Source : Quarantine(s)) \/ UNCHANGED vars
  BY <1>1, <1>5 DEF Request, Quarantine, vars, rest
<1>6. QED
  BY <1>2, <1>3, <1>4, <1>5 DEF Next

LEMMA NoneLeftStays ==
    ASSUME Guards, [Next]_vars, NoneLeft
    PROVE  NoneLeft'
<1>1. Attached' \subseteq Attached
  BY AttachedStays DEF NoneLeft
<1>2. legacyFile' \subseteq legacyFile
  BY NextData, AttachedAfter DEF Guards, Held, Flow
<1>3. QED
  BY <1>1, <1>2 DEF NoneLeft

(* What a start finds.                                                     *)
LEMMA KeepsStart ==
    ASSUME Guards, [Next]_vars, ~booted'
    PROVE  /\ pc'["main"] \in {"attach", "discards", "complete", "orphans", "protect"} =>
                 protected' \/ decision' = "keep" \/ NoneLeft'
           /\ pc'["main"] \in {"orphans", "protect"} => Missing' = {}
<1> USE DEF At, Goto, Spend, Do, SetLegacy
<1>1. /\ Types /\ pc \in [Actor -> Place] /\ Actor = {"main", "job", "api"} /\ Flow /\ LastToGo
      /\ protected \in BOOLEAN /\ booted \in BOOLEAN
  BY DEF Guards, Held, Flow, Types, Actor
<1>2. NoneLeft => NoneLeft'
  BY NoneLeftStays
<1> DEFINE Starting == {"attach", "discards", "complete", "orphans", "protect"}
           Bare == protected \/ decision = "keep" \/ NoneLeft
<1>3. ~booted /\ pc["main"] \in Starting => Bare
  BY <1>1 DEF LastToGo
<1>4. CASE Start
  <2>1. pc'["main"] = "attach" /\ UNCHANGED <<legacyFile, legacy>>
    BY <1>1, <1>4 DEF Start, manifest, files
  <2>2. CASE protected' = TRUE
    BY <2>1, <2>2
  <2>3. CASE decision' = Ensured /\ protected' = (Ensured \in Protected)
    <3>1. SUFFICES ASSUME Ensured \notin Protected, Ensured # "keep" PROVE NoneLeft
      BY <1>2, <2>1, <2>3
    <3>2. Primary \notin legacyFile /\ decision \in Terminal \union {"none"}
      <4>1. decision \in Decision
        BY <1>1 DEF Types
      <4>2. QED
        BY <3>1, <4>1 DEF Ensured, Decision, Protected
    <3>3. CASE decision = "none"
      BY <1>1, <3>2, <3>3 DEF LastToGo
    <3>4. CASE decision \in Terminal
      BY <3>2, <3>4 DEF Guards, Closing, TerminalLeavesNoSource, NoneLeft
    <3>5. QED
      BY <3>2, <3>3, <3>4
  <2>4. QED
    BY <1>4, <2>2, <2>3 DEF Start
<1>5. CASE Attach
  <2>1. pc["main"] = "attach" /\ pc'["main"] \in {"discards", "failed"} /\ UNCHANGED <<protected, decision, booted>>
    BY <1>1, <1>5 DEF Attach, rest
  <2>2. ~booted
    BY <1>1, <2>1
  <2>3. QED
    BY <1>2, <1>3, <2>1, <2>2
<1>6. CASE ReconcileDiscards("main")
  <2>1. /\ pc["main"] = "discards" /\ pc'["main"] \in {"discards", "complete"}
        /\ UNCHANGED <<protected, decision, booted>>
    BY <1>1, <1>6, FinishDiscardDoes DEF ReconcileDiscards
  <2>2. QED
    BY <1>1, <1>2, <1>3, <2>1
<1>7. CASE CompleteCommit("main")
  <2>1. /\ pc["main"] = "complete"
        /\ \/ pc' = [pc EXCEPT !["main"] = "protect"] /\ Promote(Missing, TRUE)
           \/ pc' = [pc EXCEPT !["main"] = "failed"]
           \/ pc' = [pc EXCEPT !["main"] = "orphans"] /\ Missing = {} /\ UNCHANGED manifest
        /\ UNCHANGED <<protected, decision, booted, legacyFile>>
    BY <1>1, <1>7, CompleteCommitDoes DEF AfterCompletion
  <2>2. Promote(Missing, TRUE) => Missing' = {}
    <3>1. SUFFICES ASSUME Promote(Missing, TRUE) PROVE Missing' = {}
      OBVIOUS
    <3>2. Missing \in SUBSET Source
      BY DEF Missing, Attached
    <3>3. \A s \in Source : legacy'[s] = IF s \in Missing THEN "none" ELSE legacy[s]
      BY <1>1, <3>1, <3>2, PromoteDoes
    <3>4. QED
      BY <2>1, <3>3 DEF Missing, Attached
  <2>3. pc'["main"] \in {"orphans", "protect"} => Missing' = {}
    BY <1>1, <2>1, <2>2 DEF manifest, Missing, Attached
  <2>4. QED
    BY <1>1, <1>2, <1>3, <2>1, <2>3
<1>8. CASE DiscardOrphans("main")
  <2>1. /\ pc["main"] = "orphans" /\ pc'["main"] \in {"orphans", "protect", "failed"}
        /\ UNCHANGED <<protected, decision, booted, legacyFile, legacy>>
    BY <1>1, <1>8, DiscardCopiesDoes DEF DiscardOrphans, AfterReconcile
  <2>2. QED
    BY <1>1, <1>2, <1>3, <2>1 DEF LastToGo, Missing, Attached
<1>9. CASE Main
  <2>1. CASE ProtectForRepair \/ StartFails \/ RetentionFails \/ Booted
    BY <1>1, <2>1 DEF ProtectForRepair, StartFails, Forget, RetentionFails, Booted
  <2>2. CASE Retention("main")
    BY <1>1, <2>2 DEF Retention, EndRetention, AfterRetention, ChooseSource, UnlinkVictim, ForgetVictim, TrimCopy
  <2>3. CASE Repairs("main") \/ Finalize("main")
    BY <1>1, <2>3 DEF Repairs, Repair, AfterRepair, Raised, PersistRepair, DecisionCommit, Acknowledge, Finalize
  <2>4. QED
    BY <1>4, <1>5, <1>6, <1>7, <1>8, <1>9, <2>1, <2>2, <2>3 DEF Main, Reconcile
<1>10. CASE Crash
  BY <1>1, <1>10 DEF Crash, Forget
<1>11. CASE UNCHANGED vars
  <2>1. UNCHANGED <<booted, pc, protected, decision, legacy, legacyFile>>
    BY <1>11 DEF vars, manifest, files
  <2>2. QED
    BY <1>1, <2>1 DEF LastToGo, NoneLeft, Missing, Attached
<1>12. CASE Job \/ Api \/ BeginRetention \/ (\E kind \in Kind : Request(kind)) \/ (\E s \in Source : Quarantine(s))
  <2>1. UNCHANGED booted
    BY <1>1, <1>12, JobFrame, ApiFrame DEF BeginRetention, Request, Quarantine, rest
  <2>2. ~booted
    BY <1>1, <2>1
  <2>3. pc["job"] = "none" /\ pc["api"] = "none"
    BY <1>1, <2>2 DEF Flow, Places
  <2>4. QED
    BY <1>1, <1>12, <2>2, <2>3, JobFrame, ApiFrame DEF BeginRetention, Request, Quarantine
<1>13. QED
  BY <1>9, <1>10, <1>11, <1>12 DEF Next

LEMMA KeepsLastToGo ==
    ASSUME Guards, [Next]_vars, ReadableUntilDecided
    PROVE  LastToGo'
<1>1. /\ Types /\ Flow /\ LastToGo /\ legacy \in [Source -> Status] /\ legacyFile \subseteq Source
  BY DEF Guards, Held, Flow, Types
<1>2. Primary \in Source /\ Attached \subseteq Source
  BY PrimaryIsLast DEF Attached
<1>3. legacyFile' \subseteq legacyFile
  BY <1>1, NextData, AttachedAfter DEF Guards
<1>4. decision' = "none" => Primary \in legacyFile' \/ NoneLeft'
  <2>1. SUFFICES ASSUME decision = "none", Primary \notin legacyFile' PROVE NoneLeft'
    BY DecisionWays
  <2>2. CASE NoneLeft
    BY <2>2, NoneLeftStays
  <2>3. CASE Primary \in legacyFile
    <3>1. CASE legacy[Primary] = "discarding"
      <4>1. Attached = {}
        BY <1>1, <3>1 DEF LastToGo
      <4>2. Attached' \subseteq Attached
        BY <3>1, AttachedStays
      <4>3. QED
        BY <2>1, <4>1, <4>2 DEF NoneLeft
    <3>2. CASE pc["main"] = "unlink" /\ victim["main"] = Primary /\ UNCHANGED legacy
      BY <1>1, <2>1, <3>2 DEF LastToGo, NoneLeft, Attached
    <3>3. CASE pc["job"] = "unlinkSource" /\ job.source = Primary /\ UNCHANGED legacy
      BY <1>1, <2>1, <3>3 DEF LastToGo, NoneLeft, Attached, Copying
    <3>4. QED
      BY <2>1, <2>3, <3>1, <3>2, <3>3, FileWays
  <2>4. QED
    BY <1>1, <2>1, <2>2, <2>3 DEF LastToGo
<1>5. pc'["job"] \in Copying /\ job'.source = Primary /\ decision' = "none" => Attached' \subseteq {Primary}
  <2>1. SUFFICES ASSUME pc'["job"] \in Copying, job'.source = Primary, decision = "none" PROVE Attached' \subseteq {Primary}
    BY DecisionWays
  <2>2. CASE Plan
    <3>1. DEFINE healthy == {s \in Source : legacy[s] = "legacy"}
    <3>2. Attached \subseteq healthy
      BY <2>1 DEF Attached, ReadableUntilDecided
    <3>3. UNCHANGED legacy
      BY <2>2 DEF Plan, manifest
    <3>4. healthy = {} \/ Min(healthy) = Primary
      <4>1. job \in Job_ /\ pc \in [Actor -> Place] /\ "job" \in Actor
        BY <1>1 DEF Types, Actor
      <4>2. pc'["job"] = "failed" \/ job' = [job EXCEPT !.source = Min(healthy)]
        BY <2>2, <4>1 DEF Plan, Goto
      <4>3. QED
        BY <2>1, <4>1, <4>2 DEF Job_, Copying
    <3>5. healthy \subseteq {Primary}
      BY <3>4, OnlyPrimary
    <3>6. QED
      BY <3>2, <3>3, <3>5 DEF Attached
  <2>3. CASE ~Plan
    <3>1. pc["job"] \in Copying /\ job.source = Primary /\ booted
      BY <2>1, <2>3, CopyingWays
    <3>2. QED
      BY <1>1, <2>1, <3>1, AttachedStays DEF LastToGo
  <2>4. QED
    BY <2>2, <2>3
<1>6. pc'["main"] = "unlink" /\ victim'["main"] = Primary => Attached' \subseteq {Primary}
  <2>1. SUFFICES ASSUME pc'["main"] = "unlink", victim'["main"] = Primary PROVE Attached' \subseteq {Primary}
    OBVIOUS
  <2>2. CASE ChooseSource("main")
    <3>1. Released # {} /\ victim' = [victim EXCEPT !["main"] = Min(Released)] /\ UNCHANGED legacy
      BY <2>2 DEF ChooseSource, manifest
    <3>2. victim \in [Actor -> Source \union {0}] /\ "main" \in Actor
      BY <1>1 DEF Types, Actor
    <3>3. Min(Released) = Primary /\ Released \subseteq Source /\ Attached \subseteq Released
      BY <2>1, <3>1, <3>2 DEF Released, Attached
    <3>4. Released \subseteq {Primary}
      BY <3>3, OnlyPrimary
    <3>5. QED
      BY <3>1, <3>3, <3>4 DEF Attached
  <2>3. CASE ~ChooseSource("main")
    <3>1. pc["main"] = "unlink" /\ victim["main"] = Primary
      BY <2>1, <2>3, UnlinkingWays
    <3>2. QED
      BY <1>1, <3>1, AttachedStays DEF LastToGo
  <2>4. QED
    BY <2>2, <2>3
<1>7. legacy'[Primary] = "discarding" => Attached' = {}
  <2>1. SUFFICES ASSUME legacy'[Primary] = "discarding" PROVE Attached' = {}
    OBVIOUS
  <2>2. CASE legacy[Primary] = "discarding"
    <3>1. Attached = {} /\ Attached' \subseteq Attached
      BY <1>1, <2>2, AttachedStays DEF LastToGo
    <3>2. QED
      BY <3>1
  <2>3. CASE legacy[Primary] # "discarding" /\ MarkDiscarding
    <3>1. Attached # {} /\ legacy' = [legacy EXCEPT ![Min(Attached)] = "discarding"]
      BY <2>1, <2>3 DEF MarkDiscarding, Do, SetLegacy
    <3>2. Min(Attached) = Primary
      BY <1>1, <1>2, <2>1, <2>3, <3>1
    <3>3. Attached \subseteq {Primary}
      BY <1>2, <3>2, OnlyPrimary
    <3>4. QED
      BY <1>1, <3>1, <3>2, <3>3 DEF Attached
  <2>4. CASE legacy[Primary] # "discarding" /\ \E s \in Source : Quarantine(s)
    BY <1>1, <1>2, <2>1, <2>4 DEF Quarantine, SetLegacy
  <2>5. QED
    BY <1>2, <2>1, <2>2, <2>3, <2>4, StatusWays
<1>8. QED
  BY <1>4, <1>5, <1>6, <1>7, KeepsStart DEF LastToGo

LEMMA NextGuards ==
    ASSUME Guards, [Next]_vars, ReadableUntilDecided
    PROVE  Guards'
BY NextHeld, KeepsTerminal, KeepsUndecided, KeepsPersist, KeepsReleases, KeepsDeciders, KeepsLastToGo
   DEF Guards, Closing

LEMMA InitGuards == Init => Guards
<1> SUFFICES ASSUME Init PROVE Guards
  OBVIOUS
<1>1. pc["job"] = "none" /\ pc["api"] = "none" /\ pc["main"] = "down" /\ ~booted
  BY DEF Init, Actor
<1>2. Closing
  BY <1>1 DEF Init, Closing, Undecided, TerminalLeavesNoSource, Terminal
<1>3. Releases
  BY <1>1 DEF Releases, AfterProtect, BootDone, Working, Unfinished
<1>4. Deciders
  BY <1>1 DEF Deciders, Booking
<1>5. LastToGo
  BY <1>1, PrimaryIsLast DEF Init, LastToGo, Copying
<1>6. QED
  BY <1>2, <1>3, <1>4, <1>5, InitHeld DEF Guards

(* Only main chooses a source, in a pass that finds them unprotected.      *)
LEMMA TakesReleased ==
    ASSUME Guards, [Next]_vars, NEW a \in Actor, victim'[a] \in Attached, victim'[a] # victim[a]
    PROVE  Sure
<1>1. /\ Types /\ Flow /\ Releases /\ victim \in [Actor -> Source \union {0}] /\ pc["main"] \in MainPlace
      /\ a \in {"main", "job", "api"} /\ booted \in BOOLEAN
  BY DEF Guards, Held, Flow, Types, Places, Actor
<1>2. victim'[a] # 0 /\ Attached # {}
  BY SourceAssumption DEF Attached
<1>3. ~Job /\ ~Api
  BY <1>1, JobFrame, ApiFrame
<1>4. ~Crash /\ ~StartFails
  BY <1>2 DEF Crash, StartFails, Forget
<1>5. ~BeginRetention /\ (~\E kind \in Kind : Request(kind)) /\ (~\E s \in Source : Quarantine(s)) /\ ~UNCHANGED vars
  BY <1>1 DEF BeginRetention, Request, Quarantine, vars, rest
<1>6. ~Reconcile("main")
  BY <1>1, ReconcileFrame DEF Actor
<1>7. ChooseSource("main") \/ ForgetVictim("main")
  BY <1>3, <1>4, <1>5, <1>6 DEF Next, Main, Start, Attach, ProtectForRepair, Retention, EndRetention, UnlinkVictim,
     TrimCopy, RetentionFails, Repairs, Repair, PersistRepair, DecisionCommit, Acknowledge, Finalize, Booted, rest
<1>8. ~ForgetVictim("main")
  BY <1>1, <1>2 DEF ForgetVictim
<1>9. pc["main"] = "retain" /\ ~protected
  BY <1>7, <1>8 DEF ChooseSource, At, Released
<1>10. Open
  BY <1>1, <1>9 DEF Releases, AfterProtect, BootDone, MainPlace
<1>11. QED
  BY <1>2, <1>10 DEF Open

(* Retention never takes a source that waits for its first decision, nor   *)
(* the one that a half-done migration from "keep" left behind, whatever    *)
(* writes are refused, if no source becomes unreadable before the first    *)
(* decision is recorded (ringbuffer.py, persisted_config.py).              *)
THEOREM TakesReleasedIfReadable == Spec /\ []ReadableUntilDecided => TakesOnlyReleased
<1>1. Init => Guards
  BY InitGuards
<1>2. Guards /\ ReadableUntilDecided /\ [Next]_vars => Guards'
  BY NextGuards
<1>3. Guards /\ [Next]_vars =>
        [\A a \in Actor : victim'[a] \in Attached /\ victim'[a] # victim[a] =>
            decision \in {"keep", "skipped"} /\ ~repair]_vars
  BY TakesReleased DEF Sure
<1>4. QED
  BY <1>1, <1>2, <1>3, PTL DEF Spec, TakesOnlyReleased

-----------------------------------------------------------------------------
(* One refused write.                                                      *)

(* The first start records a decision, unless that write is refused.       *)
FirstFault == decision = "none" /\ used["faults"] = 0 => pc["main"] = "down" /\ ~booted /\ Primary \in legacyFile

LEMMA FaultsAfter ==
    ASSUME Guards, [Next]_vars
    PROVE  used'["faults"] = used["faults"] \/ used'["faults"] = used["faults"] + 1
<1> USE DEF Spend, Do
<1>1. used \in [{"requests", "crashes", "faults"} -> Nat] /\ Types
  BY DEF Guards, Held, Flow, Types
<1>2. SUFFICES \E what \in {"requests", "crashes", "faults"} :
                  used' = used \/ used' = [used EXCEPT ![what] = used[what] + 1]
  BY <1>1
<1>3. CASE \E a \in Actor : Reconcile(a) \/ Repairs(a) \/ Finalize(a)
  BY <1>3 DEF Reconcile, ReconcileDiscards, FinishDiscard, CompleteCommit, DiscardOrphans, DiscardCopies, Repairs,
     Repair, PersistRepair, DecisionCommit, Acknowledge, Finalize
<1>4. CASE \E a \in Actor : Retention(a)
  BY <1>4 DEF Retention, EndRetention, ChooseSource, UnlinkVictim, ForgetVictim, TrimCopy
<1>5. CASE Start \/ Attach \/ ProtectForRepair \/ StartFails \/ RetentionFails \/ Booted
  BY <1>5 DEF Start, Attach, ProtectForRepair, StartFails, RetentionFails, Booted
<1>6. CASE \/ Plan \/ CreateSample \/ FillSample \/ Cutoff \/ SourceGone \/ CopyRows \/ LockForCommit \/ UnlinkSource
           \/ CommitMigration \/ DiscardStale \/ DropSample
  BY <1>6 DEF Plan, CreateSample, CreateCopy, FillSample, FillCopy, Cutoff, SourceGone, CopyRows, LockForCommit,
     UnlinkSource, CommitMigration, DiscardStale, DropSample, DiscardCopies
<1>7. CASE Bookkeeping \/ LockDecision \/ JobFails \/ JobEnds \/ PersistMigrated
  BY <1>7 DEF Bookkeeping, LockDecision, JobFails, JobEnds, PersistMigrated, DecisionCommit
<1>8. CASE \/ EnterRequest \/ Poll \/ Decide \/ SetProtection \/ LockDiscard \/ Discarded \/ MarkDiscarding
           \/ StartMigration \/ PrepareMigration \/ EndRequest
  BY <1>8 DEF EnterRequest, Poll, Decide, SetProtection, LockDiscard, Discarded, MarkDiscarding, StartMigration,
     PrepareMigration, EndRequest
<1>9. CASE PersistDecision \/ DiscardTargetCopies \/ DiscardLeftover \/ DiscardTarget
  BY <1>9 DEF PersistDecision, Persist, DecisionCommit, DiscardTargetCopies, DiscardCopies, DiscardLeftover,
     DiscardTarget, FinishDiscard
<1>10. CASE \/ BeginRetention \/ Crash \/ (\E kind \in Kind : Request(kind)) \/ (\E s \in Source : Quarantine(s))
            \/ UNCHANGED vars
  BY <1>10 DEF BeginRetention, Crash, Request, Quarantine, vars
<1>11. "main" \in Actor /\ "job" \in Actor /\ "api" \in Actor
  BY DEF Actor
<1>12. CASE Main
  BY <1>3, <1>4, <1>5, <1>11, <1>12 DEF Main
<1>13. CASE Job
  BY <1>3, <1>4, <1>6, <1>7, <1>11, <1>13 DEF Job
<1>14. CASE Api
  BY <1>3, <1>8, <1>9, <1>11, <1>14 DEF Api
<1>15. QED
  BY <1>10, <1>12, <1>13, <1>14 DEF Next

LEMMA KeepsFirstFault ==
    ASSUME Guards, FirstFault, [Next]_vars
    PROVE  FirstFault'
<1>1. /\ Types /\ Flow /\ pc \in [Actor -> Place] /\ Actor = {"main", "job", "api"}
      /\ used \in [{"requests", "crashes", "faults"} -> Nat] /\ booted \in BOOLEAN
  BY DEF Guards, Held, Flow, Types, Actor
<1>2. SUFFICES ASSUME decision' = "none", used'["faults"] = 0
               PROVE  pc'["main"] = "down" /\ ~booted' /\ Primary \in legacyFile'
  BY DEF FirstFault
<1>3. used["faults"] = 0 /\ decision = "none"
  BY <1>1, <1>2, FaultsAfter, DecisionWays
<1>4. pc["main"] = "down" /\ ~booted /\ Primary \in legacyFile /\ pc["job"] = "none" /\ pc["api"] = "none"
  BY <1>1, <1>3 DEF FirstFault, Flow, Places
<1>5. ~Job /\ ~Api
  BY <1>1, <1>4, JobFrame, ApiFrame
<1>6. ~Start
  <2>1. SUFFICES ASSUME Start PROVE FALSE
    OBVIOUS
  <2>2. CASE decision' = Ensured
    BY <1>2, <1>3, <1>4, <2>2 DEF Ensured
  <2>3. CASE used' = [used EXCEPT !["faults"] = used["faults"] + 1]
    BY <1>1, <1>2, <1>3, <2>3
  <2>4. QED
    BY <2>1, <2>2, <2>3 DEF Start, Spend
<1>7. ~Main
  BY <1>4, <1>6 DEF Main, Attach, Reconcile, ReconcileDiscards, FinishDiscard, CompleteCommit, DiscardOrphans,
     DiscardCopies, ProtectForRepair, StartFails, Retention, EndRetention, ChooseSource, UnlinkVictim, ForgetVictim,
     TrimCopy, RetentionFails, Repairs, Repair, PersistRepair, Acknowledge, Finalize, Booted, At
<1>8. ~Crash /\ ~BeginRetention /\ (~\E kind \in Kind : Request(kind)) /\ (~\E s \in Source : Quarantine(s))
  BY <1>4 DEF Crash, BeginRetention, Request, Quarantine, At
<1>9. UNCHANGED vars
  BY <1>5, <1>7, <1>8 DEF Next
<1>10. QED
  BY <1>4, <1>9 DEF vars, files

(* With one fault, a source unreadable before the first decision is the    *)
(* second one.                                                             *)
LEMMA KeepsReadable ==
    ASSUME Guards, FirstFault, ReadableUntilDecided, MaxFaults =< 1, [Next]_vars
    PROVE  ReadableUntilDecided'
<1>1. used \in [{"requests", "crashes", "faults"} -> Nat] /\ legacy \in [Source -> Status] /\ MaxFaults \in Nat
  BY SourceAssumption DEF Guards, Held, Flow, Types
<1>2. SUFFICES ASSUME decision = "none", NEW s \in Source, legacy'[s] = "quarantined" PROVE FALSE
  BY DecisionWays DEF ReadableUntilDecided
<1>3. legacy[s] # "quarantined"
  BY <1>2 DEF ReadableUntilDecided
<1>4. CASE MarkDiscarding
  BY <1>1, <1>2, <1>3, <1>4 DEF MarkDiscarding, Do, SetLegacy
<1>5. CASE \E q \in Source : Quarantine(q)
  <2>1. booted /\ used["faults"] < MaxFaults
    BY <1>5 DEF Quarantine, Spend
  <2>2. used["faults"] = 0
    BY <1>1, <2>1
  <2>3. QED
    BY <1>2, <2>1, <2>2 DEF FirstFault
<1>6. QED
  BY <1>2, <1>3, <1>4, <1>5, StatusWays

(* Retention takes only what a decision has released, if at most one write *)
(* is refused or one source becomes unreadable, whatever crashes.          *)
THEOREM TakesReleasedOneFault ==
    ASSUME MaxFaults =< 1
    PROVE  Spec => TakesOnlyReleased
<1>1. Init => Guards /\ FirstFault /\ ReadableUntilDecided
  <2>1. Init => FirstFault /\ ReadableUntilDecided
    BY PrimaryIsLast DEF Init, FirstFault, ReadableUntilDecided, Actor
  <2>2. QED
    BY <2>1, InitGuards
<1>2. (Guards /\ FirstFault /\ ReadableUntilDecided) /\ [Next]_vars => (Guards /\ FirstFault /\ ReadableUntilDecided)'
  BY NextGuards, KeepsFirstFault, KeepsReadable
<1>3. Spec => []ReadableUntilDecided
  BY <1>1, <1>2, PTL DEF Spec
<1>4. QED
  BY <1>3, TakesReleasedIfReadable, PTL

====
