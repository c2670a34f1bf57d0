---------------------------- MODULE SegmentStore ----------------------------
(***************************************************************************)
(* The segmented ring buffer (src/obs/ringbuffer/store/sqlite_backend.py,  *)
(* manifest.py, and the write path of ringbuffer.py).                      *)
(*                                                                         *)
(* Events go to one SQLite file, the active segment; a manifest database   *)
(* beside the files holds one row per segment.  File and manifest are      *)
(* separate databases, so every operation below is a chain of commits, and *)
(* the process may crash, or a step may raise, between any two of them.    *)
(* The facade's lock lets one mutating operation run at a time (pc is its  *)
(* place); readers take no lock at all.                                    *)
(*                                                                         *)
(* An event is its global id.  Time stamps grow with the ids, so a row's   *)
(* row_count, from_ts and to_ts are the set "counted" of the events they   *)
(* were computed from.  Whether a byte or age limit is exceeded is left    *)
(* open (any answer), the row limits are exact.  The attached legacy       *)
(* database is the subject of OfflineMigration.                            *)
(***************************************************************************)
EXTENDS Naturals, FiniteSetsExt

CONSTANTS
    SegmentMaxRows,             \* segment_max_rows
    MaxEntries,                 \* max_entries, the row budget
    PageSize,                   \* offset + limit of a query
    MaxEvents,                  \* bound: events recorded
    MaxSegments,                \* bound: segments made by rotation
    MaxReads, MaxCrashes, MaxFaults, MaxDamages     \* bounds of the run

\* store/config.py refuses a row budget under three segments.
ASSUME RatioAssumption ==
    /\ {SegmentMaxRows, PageSize} \subseteq Nat \ {0}
    /\ MaxEntries \in Nat /\ MaxEntries >= 3 * SegmentMaxRows
    /\ MaxSegments \in Nat \ {0}
    /\ {MaxEvents, MaxReads, MaxCrashes, MaxFaults, MaxDamages} \subseteq Nat

Event == 1..MaxEvents

\* An open that fails or follows a crash may add one segment of its own.
SegmentId == 1..(MaxSegments + MaxCrashes + MaxFaults)

Status == {"none", "active", "closed", "checkpoint_pending", "quarantined"}
Row == [status : Status, counted : SUBSET Event]

\* "bare": the file exists and has no ringbuffer table, as after the first
\* pragma of a new connection or after a truncation to nothing.
File == [state : {"absent", "bare", "ok", "corrupt"}, rows : SUBSET Event]

VARIABLES
    \* on disk
    segments,                   \* manifest: table segments
    lastSegment,                \* manifest: the AUTOINCREMENT counter
    lastId,                     \* manifest: event_id_counter
    file,                       \* segments/<filename> and its WAL
    \* in the process
    pc,                         \* place of the operation that holds the lock
    goal,                       \* why it runs: start, append (first rotate), idle
    pass,                       \* the part of enforce_retention under way
    active,                     \* _active_segment, 0 for None
    memory,                     \* the statistics kept in _active_segment
    old,                        \* old_segment of rotate
    pending,                    \* segments run_pending_checkpoints has left
    victim,                     \* the segment _delete_segment works on
    reader,                     \* a query under way
    \* history and budgets of the run
    written,                    \* events whose segment commit happened
    gone,                       \* events retention or the disk took
    used                        \* crashes, faults, damages and reads so far

disk == <<segments, lastSegment, lastId, file>>
local == <<goal, pass, active, memory, old, pending, victim>>
history == <<written, gone>>
vars == <<disk, pc, local, reader, history, used>>

NoReader == [on |-> FALSE, left |-> {}, found |-> {}, before |-> {}]

Init ==
    /\ segments = [s \in SegmentId |-> [status |-> "none", counted |-> {}]]
    /\ file = [s \in SegmentId |-> [state |-> "absent", rows |-> {}]]
    /\ lastSegment = 0 /\ lastId = 0
    /\ pc = "down" /\ goal = "idle" /\ pass = "size"
    /\ active = 0 /\ memory = {} /\ old = 0 /\ pending = {} /\ victim = 0
    /\ reader = NoReader
    /\ written = {} /\ gone = {}
    /\ used = [crashes |-> 0, faults |-> 0, damages |-> 0, reads |-> 0]

-----------------------------------------------------------------------------
(* Helpers *)

With(status) == {s \in SegmentId : segments[s].status = status}
Known == {s \in SegmentId : segments[s].status # "none"}
Listed == With("active") \union With("closed") \union With("checkpoint_pending")
GetActive == IF With("active") = {} THEN 0 ELSE Max(With("active"))

\* Variant: retention does not look at the status.
EligibleOfAll == Known

\* list_retention_eligible_segments: by from_ts, segments without one last.
Eligible == With("closed") \union With("quarantined")
Oldest(S) == LET dated == {s \in S : segments[s].counted # {}}
             IN  Min(IF dated # {} THEN dated ELSE S)
TotalRows == Cardinality(UNION {segments[s].counted : s \in Known})

\* The events of a segment that a query can reach.
Readable(s) == IF s \in Listed /\ file[s].state = "ok" THEN file[s].rows ELSE {}
Visible == UNION {Readable(s) : s \in SegmentId}

\* UPDATE and DELETE statements: a row that is gone matches nothing.
SetStatus(s, status) ==
    segments' = [t \in SegmentId |-> IF t = s /\ s \in Known
                     THEN [segments[t] EXCEPT !.status = status] ELSE segments[t]]
Recount(s, events) ==
    segments' = [t \in SegmentId |-> IF t = s /\ s \in Known
                     THEN [segments[t] EXCEPT !.counted = events] ELSE segments[t]]
DeleteRow(s) == segments' = [segments EXCEPT ![s] = [status |-> "none", counted |-> {}]]

\* create_segment; the id is never used again, even when the row goes.
CreateRow == /\ lastSegment' = lastSegment + 1
             /\ segments' = [segments EXCEPT ![lastSegment + 1] =
                                [status |-> "active", counted |-> {}]]

Spend(what, limit) == /\ used[what] < limit
                      /\ used' = [used EXCEPT ![what] = @ + 1]

\* A commit: it is done and the operation goes on, or an exception (or a
\* cancellation) reaches the operation, and the write is then done or not.
Commit(write, undone, next, raised) ==
    \/ write /\ pc' = next /\ UNCHANGED used
    \/ Spend("faults", MaxFaults) /\ (write \/ undone) /\ pc' = raised

ManifestCommit(write, next, raised) ==
    /\ Commit(write, UNCHANGED segments, next, raised)
    /\ UNCHANGED <<lastSegment, lastId, file>>

CreateCommit(next, raised) ==
    /\ Commit(CreateRow, UNCHANGED <<segments, lastSegment>>, next, raised)
    /\ UNCHANGED <<lastId, file>>

At(place) == pc = place
Goto(next) == pc' = next
FileIs(s, state, rows) == file' = [file EXCEPT ![s] = [state |-> state, rows |-> rows]]
Raised == IF goal = "start" THEN "failed" ELSE "idle"

-----------------------------------------------------------------------------
(* SqliteSegmentStore.open, and its place in _open_segment_store_locked *)

OpenStore ==
    /\ At("down") /\ Goto("reconcile")
    /\ goal' = "start"
    /\ UNCHANGED <<disk, pass, active, memory, old, pending, victim, reader, history, used>>

\* All but the newest active row are closed, one commit each.
ReconcileActive ==
    LET stale == With("active") \ {GetActive}
    IN  /\ At("reconcile")
        /\ IF stale # {}
           THEN ManifestCommit(SetStatus(Min(stale), "closed"), "reconcile", "failed")
           ELSE Goto("pick") /\ UNCHANGED <<disk, used>>
        /\ UNCHANGED <<local, reader, history>>

Quarantine(s) == ManifestCommit(SetStatus(s, "quarantined"), "create", "failed")

PickActive ==
    /\ At("pick")
    /\ IF GetActive = 0 THEN Goto("create") /\ UNCHANGED <<disk, used>>
       ELSE IF file[GetActive].state = "absent" THEN Quarantine(GetActive)
       ELSE Goto("probe") /\ UNCHANGED <<disk, used>>
    /\ UNCHANGED <<local, reader, history>>

\* Variant: an unreadable tail fails the whole start.
ProbeOrFail ==
    /\ At("probe")
    /\ Goto(IF file[GetActive].state = "corrupt" THEN "failed" ELSE "connect")
    /\ UNCHANGED <<disk, local, reader, history, used>>

\* _recover_corrupt_active_segment: an unreadable file, or an empty one that
\* should hold rows, is isolated; the probe gives a bare file its tables.
ProbeActive ==
    LET s == GetActive
    IN  /\ At("probe")
        /\ IF file[s].state = "corrupt" \/ (segments[s].counted # {} /\ file[s].rows = {})
           THEN Quarantine(s)
           ELSE Goto("connect") /\ UNCHANGED <<disk, used>>
        /\ UNCHANGED <<local, reader, history>>

CreateActive ==
    /\ At("create")
    /\ CreateCommit("connect", "failed")
    /\ UNCHANGED <<local, reader, history>>

ConnectActive ==
    LET s == GetActive
    IN  /\ At("connect")
        /\ \/ /\ FileIs(s, "ok", file[s].rows) /\ Goto("refresh")
              /\ active' = s /\ memory' = segments[s].counted
              /\ UNCHANGED used
           \/ /\ Spend("faults", MaxFaults) /\ Goto("failed")
              /\ UNCHANGED <<file, active, memory>>
        /\ UNCHANGED <<segments, lastSegment, lastId, goal, pass, old, pending, victim,
                       reader, history>>

\* Variant: the statistics are trusted, not computed from the file.
RefreshFromMemory(place, next, raised) ==
    /\ At(place)
    /\ ManifestCommit(Recount(active, memory), next, raised)
    /\ UNCHANGED <<local, reader, history>>

\* _refresh_active_segment_stats, in open and at the start of rotate.
Refresh(place, next, raised) ==
    /\ At(place)
    /\ memory' = file[active].rows
    /\ ManifestCommit(Recount(active, memory'), next, raised)
    /\ UNCHANGED <<goal, pass, active, old, pending, victim, reader, history>>

RefreshOnOpen == Refresh("refresh", "retain", "failed")

ForgetProcess ==
    /\ Goto("down")
    /\ goal' = "idle" /\ pass' = "size"
    /\ active' = 0 /\ memory' = {} /\ old' = 0 /\ pending' = {} /\ victim' = 0
    /\ reader' = NoReader

\* open() and _open_segment_store_locked close everything they had opened.
CloseAfterError == At("failed") /\ ForgetProcess /\ UNCHANGED <<disk, history, used>>

-----------------------------------------------------------------------------
(* record, _apply_segment_config_locked and SqliteSegmentStore.append *)

MayRotate == GetActive # 0 /\ lastSegment < MaxSegments
RowsDue == GetActive # 0 /\ Cardinality(segments[GetActive].counted) >= SegmentMaxRows

Record ==
    /\ At("idle") /\ lastId < MaxEvents
    /\ \/ Goto("reserve") /\ goal' = "idle"
       \/ /\ MayRotate /\ segments[GetActive].counted # {}      \* age due
          /\ Goto("rotate") /\ goal' = "append"
    /\ UNCHANGED <<disk, pass, active, memory, old, pending, victim, reader, history, used>>

\* Rotation for rows is certain when due, for bytes or age it may be due.
RotateOr(other) == \/ MayRotate /\ Goto("rotate")
                   \/ (RowsDue => lastSegment >= MaxSegments) /\ Goto(other)

Reconfigure ==
    /\ At("idle")
    /\ RotateOr("retain")
    /\ goal' = "idle"
    /\ UNCHANGED <<disk, pass, active, memory, old, pending, victim, reader, history, used>>

Reserve ==
    /\ At("reserve")
    /\ Commit(lastId' = lastId + 1, UNCHANGED lastId, "insert", "idle")
    /\ UNCHANGED <<segments, lastSegment, file, local, reader, history>>

\* Variant: the end of the reserved block is taken for its start.
InsertNextId ==
    LET rows == file[active].rows \union {lastId + 1}
    IN  /\ At("insert")
        /\ Commit(FileIs(active, "ok", rows) /\ written' = written \union {lastId + 1},
                  UNCHANGED <<file, written>>, "advance", "idle")
        /\ UNCHANGED <<segments, lastSegment, lastId, local, reader, gone>>

\* The inserts and their commit in the segment; a connection to a file that
\* was unlinked goes on writing where nobody reads.
Insert ==
    LET s == active
        rows == IF file[s].state = "ok" THEN file[s].rows \union {lastId} ELSE {}
    IN  /\ At("insert")
        /\ Commit(FileIs(s, file[s].state, rows) /\ written' = written \union {lastId},
                  UNCHANGED <<file, written>>, "advance", "idle")
        /\ UNCHANGED <<segments, lastSegment, lastId, local, reader, gone>>

\* _advance_active_segment_stats: first in memory, then in the manifest.
Advance ==
    /\ At("advance")
    /\ memory' = memory \union {lastId}
    /\ ManifestCommit(Recount(active, memory'), "due", "idle")
    /\ UNCHANGED <<goal, pass, active, old, pending, victim, reader, history>>

Due ==
    /\ At("due")
    /\ RotateOr("idle")
    /\ goal' = "idle"
    /\ UNCHANGED <<disk, pass, active, memory, old, pending, victim, reader, history, used>>

-----------------------------------------------------------------------------
(* SqliteSegmentStore.rotate *)

RefreshOnRotate == Refresh("rotate", "replace", "idle")

CreateReplacement ==
    /\ At("replace")
    /\ CreateCommit("prepare", "idle")
    /\ UNCHANGED <<local, reader, history>>

\* _open_segment_conn, up to the pragma that creates the file ...
PrepareReplacement ==
    /\ At("prepare")
    /\ Commit(FileIs(lastSegment, "bare", {}), UNCHANGED file, "switch", "undo")
    /\ UNCHANGED <<segments, lastSegment, lastId, local, reader, history>>

\* ... and from the schema to the switch of the writer.
SwitchWriter ==
    /\ At("switch")
    /\ \/ /\ FileIs(lastSegment, "ok", {}) /\ Goto("checkpoint")
          /\ active' = lastSegment /\ memory' = {} /\ old' = active
          /\ UNCHANGED used
       \/ /\ Spend("faults", MaxFaults) /\ Goto("undo")
          /\ UNCHANGED <<file, active, memory, old>>
    /\ UNCHANGED <<segments, lastSegment, lastId, goal, pass, pending, victim, reader, history>>

\* Best effort: an error of the clean-up is suppressed.
UndoReplacement ==
    /\ At("undo")
    /\ ManifestCommit(DeleteRow(lastSegment), "idle", "idle")
    /\ UNCHANGED <<local, reader, history>>

CheckpointOld ==
    /\ At("checkpoint")
    /\ \/ \E next \in {"closeOld", "closePending"} : Goto(next) /\ UNCHANGED used
       \/ Spend("faults", MaxFaults) /\ Goto("demote")
    /\ UNCHANGED <<disk, local, reader, history>>

CloseOld ==
    /\ \/ /\ At("closeOld")
          /\ ManifestCommit(SetStatus(old, "closed"), "retain", "demote")
       \/ /\ At("closePending")
          /\ ManifestCommit(SetStatus(old, "checkpoint_pending"), "retain", "demote")
       \/ /\ At("demote")
          /\ ManifestCommit(SetStatus(old, "closed"), "idle", "idle")
    /\ UNCHANGED <<local, reader, history>>

-----------------------------------------------------------------------------
(* enforce_retention *)

BeginRetention ==
    /\ At("retain") /\ Goto("pending")
    /\ pending' = With("checkpoint_pending")
    /\ UNCHANGED <<disk, goal, pass, active, memory, old, victim, reader, history, used>>

\* Variant: a busy database counts as a spoiled one.
LostOrBusy(s) == file[s].state # "absent"

\* run_pending_checkpoints, one segment.
Lost(s) == \/ file[s].state = "corrupt"
           \/ segments[s].counted # {} /\ file[s].rows = {}

RetryCheckpoint ==
    LET s == Min(pending)
    IN  /\ At("pending") /\ pending # {}
        /\ pending' = pending \ {s}
        /\ \/ /\ Lost(s)
              /\ ManifestCommit(SetStatus(s, "quarantined"), "pending", Raised)
           \/ /\ ~Lost(s) /\ file[s].state # "absent"
              /\ ManifestCommit(IF segments[s].status = "checkpoint_pending"
                                  THEN SetStatus(s, "closed") ELSE UNCHANGED segments,
                                "pending", Raised)
           \/ ~Lost(s) /\ UNCHANGED <<disk, pc, used>>           \* busy, or no file
        /\ UNCHANGED <<goal, pass, active, memory, old, victim, reader, history>>

\* The age pass skips segments without rows.
Victims == IF pass = "age" THEN {s \in Eligible : segments[s].counted # {}} ELSE Eligible
OverRows == pass = "rows" /\ TotalRows > MaxEntries

ChooseVictim ==
    /\ At("pass") /\ Victims # {} /\ (pass = "rows" => OverRows)
    /\ victim' = Oldest(Victims)
    /\ Goto("unlink")
    /\ UNCHANGED <<disk, goal, pass, active, memory, old, pending, reader, history, used>>

EndPass ==
    /\ IF pass = "rows" THEN Goto(IF goal = "append" THEN "reserve" ELSE "idle")
                        ELSE Goto("pass")
    /\ pass' = CASE pass = "size" -> "age" [] pass = "age" -> "rows" [] OTHER -> "size"

FinishPass ==
    /\ \/ At("pending") /\ pending = {} /\ Goto("pass") /\ pass' = "size"
       \/ At("pass") /\ (OverRows => Victims = {}) /\ EndPass
    /\ UNCHANGED <<disk, goal, active, memory, old, pending, victim, reader, history, used>>

\* _delete_segment: the file, and only when that worked the row.
Unlink ==
    /\ At("unlink")
    /\ \/ /\ FileIs(victim, "absent", {})
          /\ gone' = gone \union file[victim].rows
          /\ Goto("forget") /\ UNCHANGED <<pass, used>>
       \/ /\ Spend("faults", MaxFaults) /\ EndPass
          /\ UNCHANGED <<file, gone>>
    /\ UNCHANGED <<segments, lastSegment, lastId, goal, active, memory, old, pending, victim,
                   reader, written>>

ForgetSegment ==
    /\ At("forget")
    /\ ManifestCommit(DeleteRow(victim), "pass", Raised)
    /\ UNCHANGED <<local, reader, history>>

-----------------------------------------------------------------------------
(* query: the list of segments is read once, then each file, newest first *)

Newest(n, S) == {e \in S : Cardinality({f \in S : f > e}) < n}
\* Variant: the offset is forgotten in the number of rows needed.
FullOneEarly == Cardinality(reader.found) >= PageSize - 1
Full == Cardinality(reader.found) >= PageSize
QueryEnded == reader.left = {} \/ Full

BeginQuery ==
    /\ ~reader.on /\ active # 0 /\ pc \notin {"refresh", "failed"}
    /\ Spend("reads", MaxReads)
    /\ reader' = [on |-> TRUE, left |-> Listed, found |-> {}, before |-> Visible]
    /\ UNCHANGED <<disk, pc, local, history>>

\* A missing file is skipped; a file without tables or an unreadable one is
\* quarantined, unless it is the writer's: then the query fails.
ReadSegment ==
    LET s == Max(reader.left)
        Took(found) == reader' = [reader EXCEPT !.left = @ \ {s}, !.found = found]
    IN  /\ reader.on /\ reader.left # {} /\ ~Full
        /\ CASE file[s].state = "ok" ->
                  /\ Took(reader.found \union Newest(PageSize, file[s].rows))
                  /\ UNCHANGED segments
             [] file[s].state # "ok" /\ s = active ->
                  reader' = NoReader /\ UNCHANGED segments
             [] file[s].state = "absent" /\ s # active ->
                  Took(reader.found) /\ UNCHANGED segments
             [] OTHER -> Took(reader.found) /\ SetStatus(s, "quarantined")
        /\ UNCHANGED <<lastSegment, lastId, file, pc, local, history, used>>

EndQuery ==
    /\ reader.on /\ QueryEnded
    /\ reader' = NoReader
    /\ UNCHANGED <<disk, pc, local, history, used>>

-----------------------------------------------------------------------------
(* Faults from outside *)

\* The process dies, or is stopped; SQLite keeps what was committed.
Crash ==
    /\ pc # "down" /\ Spend("crashes", MaxCrashes)
    /\ ForgetProcess
    /\ UNCHANGED <<disk, history>>

\* A file the writer does not hold open is removed, truncated or spoiled.
Damage(s, state) ==
    /\ pc \in {"down", "idle"} /\ s # active /\ file[s].rows # {}
    /\ Spend("damages", MaxDamages)
    /\ FileIs(s, state, {})
    /\ gone' = gone \union file[s].rows
    /\ UNCHANGED <<segments, lastSegment, lastId, pc, local, reader, written>>

-----------------------------------------------------------------------------
Open == \/ OpenStore \/ ReconcileActive \/ PickActive \/ ProbeActive \/ CreateActive
        \/ ConnectActive \/ RefreshOnOpen \/ CloseAfterError
Append == Reserve \/ Insert \/ Advance \/ Due
Rotate == \/ RefreshOnRotate \/ CreateReplacement \/ PrepareReplacement \/ SwitchWriter
          \/ UndoReplacement \/ CheckpointOld \/ CloseOld
Retention == \/ BeginRetention \/ RetryCheckpoint \/ ChooseVictim \/ FinishPass
             \/ Unlink \/ ForgetSegment
Query == BeginQuery \/ ReadSegment \/ EndQuery
Environment == Crash \/ \E s \in SegmentId, state \in {"absent", "bare", "corrupt"} : Damage(s, state)

Next == \/ Open \/ Append \/ Rotate \/ Retention
        \/ Record \/ Reconfigure \/ Query \/ Environment

\* An operation that has begun is carried on by the event loop, and a store
\* that is down is opened again.
Spec == Init /\ [][Next]_vars /\ WF_vars(Open \/ Append \/ Rotate \/ Retention)

-----------------------------------------------------------------------------
(* Properties *)

TypeOK ==
    /\ segments \in [SegmentId -> Row] /\ file \in [SegmentId -> File]
    /\ lastSegment \in SegmentId \union {0} /\ lastId \in Event \union {0}
    /\ goal \in {"start", "append", "idle"} /\ pass \in {"size", "age", "rows"}
    /\ {active, old, victim} \subseteq SegmentId \union {0}
    /\ memory \subseteq Event /\ pending \subseteq SegmentId
    /\ reader \in [on : BOOLEAN, left : SUBSET SegmentId, found : SUBSET Event,
                   before : SUBSET Event]
    /\ written \subseteq Event /\ gone \subseteq Event

\* The segment that is written to, or will be when the store opens again.
OpenSegment == IF active # 0 THEN active ELSE GetActive

\* An event whose segment commit happened stays readable across crashes and
\* failed steps until retention unlinks its segment or the disk loses it.
CommittedStayReadable == written \ gone \subseteq Visible

\* The manifest never hides an event of a sealed segment from a query for a
\* time window: from_ts and to_ts span what the file holds, or are unknown.
WindowsCoverRows ==
    \A s \in Listed \ {OpenSegment} : \A e \in file[s].rows :
        segments[s].counted = {} \/ e \in Min(segments[s].counted)..Max(segments[s].counted)

\* A latest page that ran beside rotation and retention has no gap: an event
\* readable from its first to its last step is shown, or older than a full page.
PageHasNoGap ==
    reader.on /\ QueryEnded =>
        LET shown == Newest(PageSize, reader.found)
        IN  \A e \in (reader.before \intersect Visible) \ shown :
                Cardinality(shown) = PageSize /\ e < Min(shown)

\* No crash, failed step or damaged file keeps the store from opening for good.
ReopensAlways == []<>(pc = "idle")

\* What a reader sees of the files, as the blocks of a log.
OpenBlock == IF OpenSegment = 0 THEN {} ELSE Readable(OpenSegment)
SealedBlocks == {Readable(s) : s \in SegmentId \ {OpenSegment}} \ {{}}
LastWritten == IF written = {} THEN 0 ELSE Max(written)

Log == INSTANCE RetainedLog WITH
    sealed <- SealedBlocks, open <- OpenBlock, last <- LastWritten, damages <- used.damages

\* The store is a log that loses nothing but whole sealed blocks.
ImplementsRetainedLog == Log!Spec
=============================================================================
