-------------------------- MODULE OfflineMigration --------------------------
(***************************************************************************)
(* The ring buffer's old single database and its offline migration into    *)
(* segments (src/obs/ringbuffer/store/offline_migration.py, the legacy     *)
(* part of ringbuffer.py, persisted_config.py and api/v1/ringbuffer.py).   *)
(*                                                                         *)
(* Four stores take part, none of which commits together with another: the *)
(* legacy files, the copies, the manifest and the application database     *)
(* with the administrator's decision.  Three actors change them: main (the *)
(* start of the process, then the retention that recording triggers), the  *)
(* migration job, and the API, one request at a time.  A step is what lies *)
(* between two commits; the process may crash between any two of them.     *)
(*                                                                         *)
(* The rows of a source are cut into the chunks the job copies; chunk 0 is *)
(* the calibration sample.  Whether a budget is exceeded, whether live     *)
(* rows exist, and where the cutoff lies is left open (any answer).        *)
(***************************************************************************)
EXTENDS Naturals, FiniteSetsExt

CONSTANTS
    Source,                     \* segment ids of the legacy rows, in order
    LastChunk,                  \* chunks of a source, oldest first
    MaxRequests, MaxCrashes, MaxFaults      \* bounds of the run

ASSUME SourceAssumption ==
    /\ Source \subseteq Nat \ {0} /\ Source # {}
    /\ LastChunk \in Nat \ {0}
    /\ {MaxRequests, MaxCrashes, MaxFaults} \subseteq Nat

\* A manifest has finitely many rows, so one source is the last.
ASSUME LastSourceAssumption == \E last \in Source : \A s \in Source : s =< last

Primary == Max(Source)          \* the file at the configured path
Chunk == 1..LastChunk
Copy == Source \X (0..LastChunk)
Sample(s) == <<s, 0>>
RowsOf(s) == {s} \X Chunk

Actor == {"main", "job", "api"}
Kind == {"skip", "keep", "discard", "start", "poll"}
Terminal == {"migrated", "discarded"}
Protected == {"pending", "skipped"}
Decision == Terminal \union Protected \union {"none", "keep"}

VARIABLES
    \* manifest
    legacy,                     \* status of the row of each source
    migrating, closed,          \* copies, before and after the commit
    committed,                  \* migration_state.committed_migrations > 0
    keepSource, repair,         \* keep_migration_source_id, pending_keep_..._repair
    \* files
    legacyFile,                 \* sources whose database file exists
    filled,                     \* copies whose rows are committed in a file
    \* application database
    decision,
    \* process
    pc,                         \* place of each actor
    booted,                     \* _init_persisted_ringbuffer is done
    protected,                  \* _legacy_retention_protected
    job,                        \* source, chunks to copy, prev_protected, legacy_unlinked
    request,                    \* the request under way
    decisionLock, writeLock,    \* _LEGACY_DECISION_LOCK, RingBuffer._lock
    victim,                     \* legacy source a retention pass has chosen
    \* history and budgets
    surrendered,                \* rows somebody entitled to it gave up
    used

manifest == <<legacy, migrating, closed, committed, keepSource, repair>>
files == <<legacyFile, filled>>
locks == <<decisionLock, writeLock>>
rest == <<booted, job, request, victim>>
vars == <<manifest, files, decision, pc, booted, protected, job, request,
          decisionLock, writeLock, victim, surrendered, used>>

NoJob == [source |-> 0, chunks |-> {}, prev |-> FALSE, unlinked |-> FALSE]

Init ==
    /\ legacy = [s \in Source |-> IF s = Primary THEN "none" ELSE "legacy"]
    /\ migrating = {} /\ closed = {} /\ committed = FALSE
    /\ keepSource = 0 /\ repair = FALSE
    /\ legacyFile = Source /\ filled = {}
    /\ decision = "none"
    /\ pc = [a \in Actor |-> IF a = "main" THEN "down" ELSE "none"]
    /\ booted = FALSE /\ protected = FALSE
    /\ job = NoJob /\ request = "poll"
    /\ decisionLock = "free" /\ writeLock = "free"
    /\ victim = [a \in Actor |-> 0]
    /\ surrendered = {}
    /\ used = [requests |-> 0, crashes |-> 0, faults |-> 0]

-----------------------------------------------------------------------------
(* Helpers *)

Attached == {s \in Source : legacy[s] \in {"legacy", "quarantined"}}
Missing == Attached \ legacyFile
Discarding == {s \in Source : legacy[s] = "discarding"}
Readable == {s \in legacyFile : legacy[s] = "legacy"}

At(a, place) == pc[a] = place
Goto(a, place) == pc' = [pc EXCEPT ![a] = place]
Spend(what, limit) == used[what] < limit /\ used' = [used EXCEPT ![what] = @ + 1]

\* A write: it is done, or SQLite or the file system refuses it.  Cancellation
\* comes with the end of the process and is a crash at some later point.
Do(a, write, undone, next, raised) ==
    \/ write /\ Goto(a, next) /\ UNCHANGED used
    \/ Spend("faults", MaxFaults) /\ undone /\ Goto(a, raised)

SetLegacy(s, status) == legacy' = [legacy EXCEPT ![s] = status]

\* commit_offline_migration, one transaction.
Promoted(S, unscoped) ==
    {k \in migrating : IF k[2] = 0 THEN unscoped ELSE k[1] \in S}

Promote(S, unscoped) ==
    /\ closed' = closed \union Promoted(S, unscoped)
    /\ migrating' = migrating \ Promoted(S, unscoped)
    /\ legacy' = [s \in Source |-> IF s \in S THEN "none" ELSE legacy[s]]
    /\ committed' = TRUE
    /\ repair' = (repair \/ (keepSource \in S /\ Attached \ S # {}))
    /\ keepSource' = 0

DecisionCommit(a, value, next, raised) ==
    /\ Do(a, decision' = value, UNCHANGED decision, next, raised)
    /\ UNCHANGED <<manifest, files, rest, locks, surrendered>>

\* Unlink and forget copies, file by file; a file that stays keeps its row.
DiscardCopies(a, S, place, next, kept, raised) ==
    /\ At(a, place)
    /\ \/ /\ S = {} /\ Goto(a, next)
          /\ UNCHANGED <<migrating, filled, used>>
       \/ \E k \in S \intersect filled :
             /\ Do(a, filled' = filled \ {k}, UNCHANGED filled, place, kept)
             /\ UNCHANGED migrating
       \/ \E k \in S \ filled :
             /\ Do(a, migrating' = migrating \ {k}, UNCHANGED migrating, place, raised)
             /\ UNCHANGED filled
    /\ UNCHANGED <<legacy, closed, committed, keepSource, repair, legacyFile, decision,
                   protected, rest, locks, surrendered>>

\* Unlink and forget a source marked discarding.
FinishDiscard(a, place, next, raised) ==
    /\ At(a, place)
    /\ \/ /\ Discarding = {} /\ Goto(a, next)
          /\ UNCHANGED <<legacy, legacyFile, used>>
       \/ \E s \in Discarding \intersect legacyFile :
             /\ Do(a, legacyFile' = legacyFile \ {s}, UNCHANGED legacyFile, place, raised)
             /\ UNCHANGED legacy
       \/ \E s \in Discarding \ legacyFile :
             /\ Do(a, SetLegacy(s, "none"), UNCHANGED legacy, place, raised)
             /\ UNCHANGED legacyFile
    /\ UNCHANGED <<migrating, closed, committed, keepSource, repair, filled, decision,
                   protected, rest, locks, surrendered>>

-----------------------------------------------------------------------------
(* Start: _init_persisted_ringbuffer and _open_segment_store_locked *)

\* ensure_legacy_migration_decision; if it fails, pending in memory only.
Ensured == IF decision \in Terminal \union {"none"} /\ Primary \in legacyFile
           THEN "pending" ELSE decision

Start ==
    /\ At("main", "down")
    /\ \/ /\ decision' = Ensured /\ protected' = (Ensured \in Protected)
          /\ UNCHANGED used
       \/ /\ Spend("faults", MaxFaults) /\ UNCHANGED decision
          /\ protected' = TRUE
    /\ Goto("main", "attach")
    /\ UNCHANGED <<manifest, files, rest, locks, surrendered>>

Attach ==
    /\ At("main", "attach")
    /\ IF Primary \in legacyFile /\ legacy[Primary] = "none"
       THEN Do("main", SetLegacy(Primary, "legacy"), UNCHANGED legacy, "discards", "failed")
       ELSE Goto("main", "discards") /\ UNCHANGED <<legacy, used>>
    /\ UNCHANGED <<migrating, closed, committed, keepSource, repair, files, decision,
                   protected, rest, locks, surrendered>>

\* reconcile_offline_migration, at the start and at the start of a job.
ReconcileDiscards(a) == FinishDiscard(a, "discards", "complete", "complete")

AfterReconcile(a) == IF a = "main" THEN "protect" ELSE "stale"
AfterCompletion(a) == IF a = "main" THEN "protect" ELSE "book"

CompleteCommit(a) ==
    /\ At(a, "complete")
    /\ IF Missing # {}
       THEN Do(a, Promote(Missing, TRUE), UNCHANGED manifest, AfterCompletion(a), "failed")
       ELSE Goto(a, "orphans") /\ UNCHANGED <<manifest, used>>
    /\ UNCHANGED <<files, decision, protected, rest, locks, surrendered>>

DiscardOrphans(a) ==
    DiscardCopies(a, IF Attached = {} THEN migrating ELSE {}, "orphans",
                  AfterReconcile(a), AfterReconcile(a), "failed")

\* Variant: the note of a half-done "keep" is left to the repair afterwards.
ProtectLater ==
    /\ At("main", "protect") /\ Goto("main", "retain")
    /\ UNCHANGED <<manifest, files, decision, protected, rest, locks, surrendered, used>>

ProtectForRepair ==
    /\ At("main", "protect") /\ Goto("main", "retain")
    /\ protected' = (protected \/ repair)
    /\ UNCHANGED <<manifest, files, decision, rest, locks, surrendered, used>>

Forget ==
    /\ pc' = [a \in Actor |-> IF a = "main" THEN "down" ELSE "none"]
    /\ booted' = FALSE /\ protected' = FALSE /\ job' = NoJob /\ request' = "poll"
    /\ decisionLock' = "free" /\ writeLock' = "free"
    /\ victim' = [a \in Actor |-> 0]

Crash ==
    /\ ~At("main", "down") /\ Spend("crashes", MaxCrashes)
    /\ Forget
    /\ UNCHANGED <<manifest, files, decision, surrendered>>

\* An exception ends a start, a retention pass, a job or a request.
StartFails ==
    /\ At("main", "failed") /\ ~booted
    /\ Forget
    /\ UNCHANGED <<manifest, files, decision, surrendered, used>>

-----------------------------------------------------------------------------
(* enforce_retention: at the start, after an event, at the end of a job *)

\* _retention_victims_in_order; the guard is read when the pass chooses.
Released == IF protected THEN {} ELSE {s \in Source : legacy[s] # "none"}

BeginRetention ==
    /\ At("main", "idle") /\ booted /\ writeLock = "free"
    /\ writeLock' = "main" /\ Goto("main", "retain")
    /\ UNCHANGED <<manifest, files, decision, protected, rest, decisionLock, surrendered, used>>

AfterRetention(a) == IF a = "job" THEN "book" ELSE IF booted THEN "idle" ELSE "repair"

EndRetention(a) ==
    /\ At(a, "retain") /\ Goto(a, AfterRetention(a))
    /\ writeLock' = IF writeLock = a THEN "free" ELSE writeLock
    /\ UNCHANGED <<manifest, files, decision, protected, rest, decisionLock, surrendered, used>>

ChooseSource(a) ==
    /\ At(a, "retain") /\ Released # {}
    /\ victim' = [victim EXCEPT ![a] = Min(Released)]
    /\ Goto(a, "unlink")
    /\ UNCHANGED <<manifest, files, decision, protected, booted, job, request, locks,
                   surrendered, used>>

\* _delete_segment of a legacy source: the file, then the row.
UnlinkVictim(a) ==
    /\ At(a, "unlink")
    /\ \/ /\ legacyFile' = legacyFile \ {victim[a]} /\ Goto(a, "forget")
          /\ surrendered' = surrendered \union
                (IF victim[a] \in legacyFile THEN RowsOf(victim[a]) ELSE {})
          /\ UNCHANGED used
       \/ /\ Spend("faults", MaxFaults) /\ Goto(a, "retain")
          /\ UNCHANGED <<legacyFile, surrendered>>
    /\ UNCHANGED <<manifest, filled, decision, protected, rest, locks>>

ForgetVictim(a) ==
    /\ At(a, "forget")
    /\ Do(a, SetLegacy(victim[a], "none"), UNCHANGED legacy, "retain",
          IF a = "job" THEN "book" ELSE "failed")
    /\ victim' = [victim EXCEPT ![a] = 0]
    /\ UNCHANGED <<migrating, closed, committed, keepSource, repair, files, decision,
                   protected, booted, job, request, locks, surrendered>>

\* Of a promoted copy; its two commits are the subject of SegmentStore.
TrimCopy(a) ==
    /\ At(a, "retain")
    /\ \E k \in closed : /\ closed' = closed \ {k} /\ filled' = filled \ {k}
                         /\ surrendered' = surrendered \union {k}
    /\ UNCHANGED <<legacy, migrating, committed, keepSource, repair, legacyFile, decision,
                   pc, protected, rest, locks, used>>

RetentionFails ==
    /\ At("main", "failed") /\ booted /\ Goto("main", "idle")
    /\ writeLock' = "free"
    /\ UNCHANGED <<manifest, files, decision, protected, rest, decisionLock, surrendered, used>>

-----------------------------------------------------------------------------
(* persisted_config: repair_pending_keep_migration_decision and             *)
(* finalize_committed_migration_decision, for start, job and requests       *)

AfterRepair(a) == IF a = "job" THEN "end"
                  ELSE IF a = "main" \/ request = "poll" THEN "finalize"
                  ELSE IF request = "start" THEN "start" ELSE "decide"

Repair(a) ==
    /\ At(a, "repair")
    /\ IF ~repair THEN Goto(a, AfterRepair(a)) /\ UNCHANGED protected
       ELSE IF Attached = {} THEN Goto(a, "acknowledge") /\ UNCHANGED protected
       ELSE /\ Goto(a, IF decision \in Protected THEN "acknowledge" ELSE "persistRepair")
            /\ protected' = TRUE
    /\ UNCHANGED <<manifest, files, decision, rest, locks, surrendered, used>>

Raised(a) == IF a = "main" THEN "idle" ELSE "end"

PersistRepair(a) ==
    /\ At(a, "persistRepair") /\ UNCHANGED protected
    /\ DecisionCommit(a, "skipped", "acknowledge", Raised(a))

Acknowledge(a) ==
    /\ At(a, "acknowledge")
    /\ Do(a, repair' = FALSE, UNCHANGED repair, AfterRepair(a), Raised(a))
    /\ UNCHANGED <<legacy, migrating, closed, committed, keepSource, files, decision,
                   protected, rest, locks, surrendered>>

Finalize(a) ==
    /\ At(a, "finalize") /\ UNCHANGED protected
    /\ IF decision \notin Terminal \union {"keep"} /\ Attached = {} /\ committed
       THEN DecisionCommit(a, "migrated", Raised(a), Raised(a))
       ELSE /\ Goto(a, Raised(a))
            /\ UNCHANGED <<manifest, files, decision, rest, locks, surrendered, used>>

\* bus.subscribe, and the server accepts requests.
Booted ==
    /\ At("main", "idle") /\ ~booted
    /\ booted' = TRUE
    /\ UNCHANGED <<manifest, files, decision, pc, protected, job, request, victim, locks,
                   surrendered, used>>

-----------------------------------------------------------------------------
(* OfflineLegacyMigrator.run and the _run around it *)

\* run() begins with the reconciliation, then throws away stale copies.
DiscardStale == DiscardCopies("job", migrating, "stale", "plan", "failed", "failed")

Plan ==
    LET healthy == {s \in Source : legacy[s] = "legacy"}
    IN  /\ At("job", "plan")
        /\ IF healthy = {} \/ Min(healthy) \notin legacyFile
           THEN Goto("job", "failed") /\ UNCHANGED job
           ELSE /\ job' = [job EXCEPT !.source = Min(healthy)]
                /\ \E next \in {"sample", "cutoff"} : Goto("job", next)
        /\ UNCHANGED <<manifest, files, decision, protected, booted, request, victim, locks,
                       surrendered, used>>

\* _calibrate_cutoff: the sample belongs to no source (legacy_source_id NULL).
CreateCopy(k, place, next) ==
    /\ At("job", place)
    /\ Do("job", migrating' = migrating \union {k}, UNCHANGED migrating, next, "failed")
    /\ UNCHANGED <<legacy, closed, committed, keepSource, repair, files, decision,
                   protected, rest, locks, surrendered>>

FillCopy(k, place, next) ==
    /\ At("job", place)
    /\ Do("job", filled' = filled \union {k}, UNCHANGED filled, next, "failed")
    /\ UNCHANGED <<manifest, legacyFile, decision, protected, rest, locks, surrendered>>

CreateSample == job.source \in legacyFile /\ CreateCopy(Sample(job.source), "sample", "fillSample")
FillSample == FillCopy(Sample(job.source), "fillSample", "dropSample")
DropSample == DiscardCopies("job", migrating \intersect {Sample(job.source)}, "dropSample",
                            "cutoff", "failed", "failed")

\* Variant: the cutoff counts the sample among the chunks.
CutoffWithSample ==
    /\ At("job", "cutoff")
    /\ \E first \in 0..LastChunk : job' = [job EXCEPT !.chunks = first..LastChunk]
    /\ Goto("job", "copy")
    /\ UNCHANGED <<manifest, files, decision, protected, booted, request, victim, locks,
                   surrendered, used>>

\* The newest rows that fit; the copy needs a readable source to begin.
Cutoff ==
    /\ At("job", "cutoff")
    /\ \E first \in 1..(LastChunk + 1) : job' = [job EXCEPT !.chunks = first..LastChunk]
    /\ Goto("job", "copy")
    /\ UNCHANGED <<manifest, files, decision, protected, booted, request, victim, locks,
                   surrendered, used>>

SourceGone ==
    /\ \E place \in {"sample", "cutoff"} : At("job", place) /\ job.source \notin legacyFile
    /\ Goto("job", "failed")
    /\ UNCHANGED <<manifest, files, decision, protected, rest, locks, surrendered, used>>

Left == ({job.source} \X job.chunks) \ filled
NextCopy == <<job.source, Min({k[2] : k \in Left})>>

CopyRows == \/ Left # {} /\ CreateCopy(NextCopy, "copy", "fill")
            \/ FillCopy(NextCopy, "fill", "copy")

LockForCommit ==
    /\ At("job", "copy") /\ Left = {} /\ writeLock = "free"
    /\ writeLock' = "job" /\ Goto("job", "unlinkSource")
    /\ UNCHANGED <<manifest, files, decision, protected, rest, decisionLock, surrendered, used>>

\* Variant: an error of the unlink is suppressed.
UnlinkSuppressed ==
    /\ At("job", "unlinkSource") /\ Goto("job", "commit")
    /\ job' = [job EXCEPT !.unlinked = TRUE]
    /\ \/ legacyFile' = legacyFile \ {job.source} /\ UNCHANGED used
       \/ Spend("faults", MaxFaults) /\ UNCHANGED legacyFile
    /\ surrendered' = surrendered \union (RowsOf(job.source) \ ({job.source} \X job.chunks))
    /\ UNCHANGED <<manifest, filled, decision, protected, booted, request, victim, locks>>

\* _unlink_legacy_files; what lies before the cutoff is given up here.
UnlinkSource ==
    /\ At("job", "unlinkSource")
    /\ \/ /\ legacyFile' = legacyFile \ {job.source}
          /\ job' = [job EXCEPT !.unlinked = TRUE]
          /\ surrendered' = surrendered \union (RowsOf(job.source) \ ({job.source} \X job.chunks))
          /\ Goto("job", "commit") /\ UNCHANGED used
       \/ /\ Spend("faults", MaxFaults) /\ Goto("job", "failed")
          /\ UNCHANGED <<legacyFile, job, surrendered>>
    /\ UNCHANGED <<manifest, filled, decision, protected, booted, request, victim, locks>>

CommitMigration ==
    /\ At("job", "commit")
    /\ Do("job", Promote({job.source}, FALSE), UNCHANGED manifest, "retain", "failed")
    /\ writeLock' = "free"
    /\ UNCHANGED <<files, decision, protected, rest, decisionLock, surrendered>>

\* _post_commit_bookkeeping, then on_success under the decision lock.
Bookkeeping ==
    /\ At("job", "book") /\ Goto("job", "lockDecision")
    /\ protected' = (protected /\ Attached # {})
    /\ UNCHANGED <<manifest, files, decision, rest, locks, surrendered, used>>

\* Variant: one migration is taken for the end of all of them.
LockAndFinish ==
    /\ At("job", "lockDecision") /\ decisionLock = "free"
    /\ decisionLock' = "job" /\ Goto("job", "persistMigrated")
    /\ UNCHANGED <<manifest, files, decision, protected, rest, writeLock, surrendered, used>>

LockDecision ==
    /\ At("job", "lockDecision") /\ decisionLock = "free"
    /\ decisionLock' = "job"
    /\ Goto("job", IF Attached # {} THEN "repair" ELSE "persistMigrated")
    /\ UNCHANGED <<manifest, files, decision, protected, rest, writeLock, surrendered, used>>

PersistMigrated ==
    /\ At("job", "persistMigrated") /\ UNCHANGED protected
    /\ DecisionCommit("job", "migrated", "end", "end")

Release(a) == /\ decisionLock' = IF decisionLock = a THEN "free" ELSE decisionLock
              /\ writeLock' = IF writeLock = a THEN "free" ELSE writeLock

\* Variants: the protection goes back in any case; the lock is kept.
JobRollsBack ==
    /\ At("job", "failed") /\ Goto("job", "none")
    /\ protected' = job.prev
    /\ job' = NoJob /\ Release("job")
    /\ UNCHANGED <<manifest, files, decision, booted, request, victim, surrendered, used>>

JobEndsLocked ==
    /\ At("job", "end") /\ Goto("job", "none") /\ job' = NoJob
    /\ UNCHANGED <<manifest, files, decision, protected, booted, request, victim, locks,
                   surrendered, used>>

\* The protection goes back to what it was only while the source is whole.
JobFails ==
    /\ At("job", "failed") /\ Goto("job", "none")
    /\ protected' = IF job.unlinked THEN protected ELSE job.prev
    /\ job' = NoJob /\ Release("job")
    /\ UNCHANGED <<manifest, files, decision, booted, request, victim, surrendered, used>>

JobEnds ==
    /\ At("job", "end") /\ Goto("job", "none")
    /\ job' = NoJob /\ Release("job")
    /\ UNCHANGED <<manifest, files, decision, protected, booted, request, victim, surrendered,
                   used>>

-----------------------------------------------------------------------------
(* api/v1/ringbuffer.py *)

Request(kind) ==
    /\ booted /\ At("api", "none") /\ Spend("requests", MaxRequests)
    /\ request' = kind /\ Goto("api", "wait")
    /\ UNCHANGED <<manifest, files, decision, booted, protected, job, victim, locks, surrendered>>

EnterRequest ==
    /\ At("api", "wait") /\ decisionLock = "free"
    /\ decisionLock' = "api"
    /\ Goto("api", IF request = "poll" THEN "poll" ELSE "repair")
    /\ UNCHANGED <<manifest, files, decision, protected, rest, writeLock, surrendered, used>>

\* _finalize_decision_under_lock: a terminal decision with a source at hand.
Poll ==
    /\ At("api", "poll")
    /\ IF decision \in Terminal /\ Attached # {}
       THEN protected' = TRUE /\ Goto("api", "persistPending")
       ELSE Goto("api", "repair") /\ UNCHANGED protected
    /\ UNCHANGED <<manifest, files, decision, rest, locks, surrendered, used>>

\* _legacy_migration_decision_locked, after the repair.
Refused == decision \in Terminal \/ pc["job"] # "none" \/ Missing # {}

Decide ==
    /\ At("api", "decide")
    /\ Goto("api", CASE Refused -> "end"
                     [] ~Refused /\ request = "skip" -> "persistSkipped"
                     [] ~Refused /\ request = "discard" -> "lockDiscard"
                     [] ~Refused /\ request = "keep" ->
                          IF decision # "keep" /\ committed /\ Attached = {}
                          THEN "persistMigrated" ELSE "persistKeep")
    /\ UNCHANGED <<manifest, files, decision, protected, rest, locks, surrendered, used>>

\* Persistence first, the live guard after it, except for what discard leaves.
Persist(place, value, next) ==
    /\ At("api", place) /\ UNCHANGED protected
    /\ DecisionCommit("api", value, next, "end")

PersistDecision ==
    \/ Persist("persistPending", "pending", "end")
    \/ Persist("persistSkipped", "skipped", IF request = "skip" THEN "protectOn" ELSE "end")
    \/ Persist("persistKeep", "keep", "protectOff")
    \/ Persist("persistMigrated", "migrated", "end")
    \/ Persist("persistDiscarded", "discarded", "end")

SetProtection ==
    /\ At("api", "protectOn") \/ At("api", "protectOff")
    /\ protected' = At("api", "protectOn") /\ Goto("api", "end")
    /\ UNCHANGED <<manifest, files, decision, rest, locks, surrendered, used>>

\* discard_legacy: what an earlier one left, stale copies, marker, file, row.
LockDiscard ==
    /\ At("api", "lockDiscard") /\ writeLock = "free"
    /\ writeLock' = "api" /\ Goto("api", "leftover")
    /\ UNCHANGED <<manifest, files, decision, protected, rest, decisionLock, surrendered, used>>

DiscardLeftover == FinishDiscard("api", "leftover", "copies", "end")

CopiesOfTarget ==
    IF Attached = {} THEN {}
    ELSE {k \in migrating : IF k[2] = 0 THEN Cardinality(Attached) = 1
                                        ELSE k[1] = Min(Attached)}

DiscardTargetCopies == DiscardCopies("api", CopiesOfTarget, "copies", "mark", "end", "end")

MarkDiscarding ==
    /\ At("api", "mark")
    /\ IF Attached = {}
       THEN Goto("api", "discarded") /\ UNCHANGED <<legacy, surrendered, used>>
       ELSE /\ Do("api", SetLegacy(Min(Attached), "discarding"), UNCHANGED legacy,
                  "finishDiscard", "end")
            /\ surrendered' = surrendered \union RowsOf(Min(Attached))
    /\ UNCHANGED <<migrating, closed, committed, keepSource, repair, files, decision,
                   protected, rest, locks>>

DiscardTarget == FinishDiscard("api", "finishDiscard", "discarded", "end")

Discarded ==
    /\ At("api", "discarded")
    /\ writeLock' = "free"
    /\ protected' = (Attached # {})
    /\ Goto("api", IF Attached = {} THEN "persistDiscarded" ELSE "persistSkipped")
    /\ UNCHANGED <<manifest, files, decision, rest, decisionLock, surrendered, used>>

\* start_legacy_migration; the reservation is the decision lock's holder.
StartRefused ==
    \/ decision \in Terminal \/ pc["job"] # "none" \/ Attached = {}
    \/ legacy[Min(Attached)] # "legacy" /\ Min(Attached) \in legacyFile

StartMigration ==
    /\ At("api", "start")
    /\ IF StartRefused
       THEN Goto("api", "end") /\ UNCHANGED <<protected, job>>
       ELSE /\ Goto("api", "prepare") /\ protected' = TRUE
            /\ job' = [NoJob EXCEPT !.source = Min(Attached), !.prev = protected]
    /\ UNCHANGED <<manifest, files, decision, booted, request, victim, locks, surrendered, used>>

\* prepare_offline_migration, and the task.
PrepareMigration ==
    LET source == IF decision = "keep" THEN job.source ELSE 0
    IN  /\ At("api", "prepare")
        /\ \/ /\ keepSource' = source /\ UNCHANGED <<protected, job, used>>
              /\ pc' = [pc EXCEPT !["api"] = "end", !["job"] = "discards"]
           \/ /\ Spend("faults", MaxFaults) /\ UNCHANGED keepSource
              /\ protected' = job.prev /\ job' = NoJob
              /\ Goto("api", "end")
        /\ UNCHANGED <<legacy, migrating, closed, committed, repair, files, decision, booted,
                       request, victim, locks, surrendered>>

EndRequest ==
    /\ At("api", "end") /\ Goto("api", "none")
    /\ Release("api")
    /\ UNCHANGED <<manifest, files, decision, protected, rest, surrendered, used>>

-----------------------------------------------------------------------------
\* A query finds a source unreadable and quarantines it.
Quarantine(s) ==
    /\ booted /\ legacy[s] = "legacy" /\ s \in legacyFile
    /\ Spend("faults", MaxFaults)
    /\ SetLegacy(s, "quarantined")
    /\ surrendered' = surrendered \union RowsOf(s)
    /\ UNCHANGED <<migrating, closed, committed, keepSource, repair, files, decision, pc,
                   protected, rest, locks>>

Reconcile(a) == ReconcileDiscards(a) \/ CompleteCommit(a) \/ DiscardOrphans(a)
Retention(a) == \/ EndRetention(a) \/ ChooseSource(a) \/ UnlinkVictim(a) \/ ForgetVictim(a)
                \/ TrimCopy(a)
Repairs(a) == Repair(a) \/ PersistRepair(a) \/ Acknowledge(a)

Main == \/ Start \/ Attach \/ Reconcile("main") \/ ProtectForRepair \/ StartFails
        \/ Retention("main") \/ RetentionFails
        \/ Repairs("main") \/ Finalize("main") \/ Booted
Job == \/ Reconcile("job") \/ DiscardStale \/ Plan \/ CreateSample \/ FillSample \/ DropSample
       \/ Cutoff \/ SourceGone \/ CopyRows \/ LockForCommit \/ UnlinkSource \/ CommitMigration
       \/ Retention("job") \/ Bookkeeping \/ LockDecision \/ Repairs("job")
       \/ PersistMigrated \/ JobFails \/ JobEnds
Api == \/ EnterRequest \/ Poll \/ Repairs("api") \/ Finalize("api") \/ Decide
       \/ PersistDecision \/ SetProtection \/ LockDiscard \/ DiscardLeftover
       \/ DiscardTargetCopies \/ MarkDiscarding \/ DiscardTarget \/ Discarded
       \/ StartMigration \/ PrepareMigration \/ EndRequest

Next == \/ Main \/ BeginRetention \/ Job \/ Api \/ Crash
        \/ \E kind \in Kind : Request(kind)
        \/ \E s \in Source : Quarantine(s)

\* The event loop goes on with what has begun, and an asyncio lock that is
\* released again and again goes to its waiters in turn.
Spec == /\ Init /\ [][Next]_vars
        /\ WF_vars(Main) /\ WF_vars(Job) /\ WF_vars(Api)
        /\ SF_vars(LockForCommit) /\ SF_vars(LockDecision)
        /\ SF_vars(EnterRequest) /\ SF_vars(LockDiscard)

-----------------------------------------------------------------------------
(* Properties *)

TypeOK ==
    /\ legacy \in [Source -> {"none", "legacy", "quarantined", "discarding"}]
    /\ {migrating, closed, filled, surrendered} \subseteq SUBSET Copy
    /\ {committed, repair, booted, protected} \subseteq BOOLEAN
    /\ keepSource \in Source \union {0} /\ legacyFile \subseteq Source
    /\ decision \in Decision /\ request \in Kind
    /\ job.source \in Source \union {0} /\ job.chunks \subseteq Chunk
    /\ {decisionLock, writeLock} \subseteq Actor \union {"free"}
    /\ victim \in [Actor -> Source \union {0}]

\* A row can be had again from the source, from a promoted copy, or from an
\* invisible copy that the next reconciliation will promote.
Recoverable(k) ==
    \/ k[1] \in legacyFile /\ (k[1] \in Attached \/ (legacy[k[1]] = "none" /\ k[1] = Primary))
    \/ k \in filled \intersect closed
    \/ k \in filled \intersect migrating /\ k[1] \in Missing

\* No crash, failed step or decision at an unlucky moment loses a row of the
\* old history that nobody discarded, cut off or released to retention.
HistoryIsKept == \A k \in (Source \X Chunk) \ surrendered : Recoverable(k)

\* A query never delivers a row twice, from its source and from a copy.  The
\* sample is left out: see the README.
NoRowTwice == \A k \in filled \intersect closed : k[2] # 0 => k[1] \notin Readable

\* The assistant is not closed while a source is left to decide about.
TerminalLeavesNoSource == decision \in Terminal => Attached = {}

\* Retention never takes a source that waits for its first decision, nor the
\* one that a half-done migration from "keep" left behind.
TakesOnlyReleased ==
    [][\A a \in Actor : victim'[a] \in Attached /\ victim'[a] # victim[a] =>
            decision \in {"keep", "skipped"} /\ ~repair]_vars

\* No request is left waiting for a lock the job or another request holds.
RequestsEnd == At("api", "wait") ~> At("api", "none")
=============================================================================
