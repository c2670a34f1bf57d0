----------------------------- MODULE UpdateCheck -----------------------------
(***************************************************************************)
(* The update check of obs/update/service.py: a periodic task and the API  *)
(* ask GitHub for the releases, switch the channel, or bring the status    *)
(* back after a database restore.  _lock guards the state and is never     *)
(* held across a request; _check_lock serialises the check attempts.  The  *)
(* settings survive a crash, everything else starts anew.                  *)
(***************************************************************************)
EXTENDS Naturals, Sequences

CONSTANTS
    Client, Timer,      \* API requests, and the task of _run()
    NoTask,             \* nobody holds a lock
    Channel, Version,   \* update channels; versions this installation may run
    List,               \* release lists GitHub may answer with
    None,               \* Python's None
    Derived,            \* channel_for_version: [Version -> Channel]
    MaxCalls,           \* bound: [Client \cup {Timer} -> calls]
    MaxEvents           \* bound: restarts, backups and changes of GitHub's list, together

Task == Client \cup {Timer}

ASSUME NoneAssumption ==
    /\ None \notin Channel \cup Version \cup List
    /\ NoTask \notin Task /\ Timer \notin Client
ASSUME DerivedAssumption == Derived \in [Version -> Channel]
ASSUME BoundAssumption ==
    MaxCalls \in [Task -> Nat] /\ MaxEvents \in Nat

VARIABLES
    settings,   \* app_settings: update.channel, update.channel_derived_from, update.check_state
    backup,     \* the settings as of the last backup
    installed,  \* _installed_version
    enabled,    \* the service has a release source
    boot,       \* progress of load(): "channel", "marker", "state", then "up"
    state,      \* _state
    derived,    \* _channel_derived
    releases,   \* _releases
    fetchedAt,  \* _releases_fetched_at, 0 for None
    etag,       \* _etag, known by the list it belongs to
    attempt,    \* _last_attempt_at: "never", "recent" (within the cool-down) or "old"
    lock,       \* holder of _lock
    checkLock,  \* holder of _check_lock
    pc,         \* [Task -> Place]
    op,         \* [Task -> call the task is in, or was in last]
    wanted,     \* [Task -> argument of set_channel]
    changed,    \* [Task -> local variable of set_channel]
    now,        \* [Task -> number of the task's attempt]
    result,     \* [Task -> what the request returned: a list, or None if it failed]
    sent,       \* _published
    shown,      \* external: the system data points in the registry
    github,     \* external: the release list on GitHub
    calls,      \* calls so far
    events,     \* restarts, backups and changes of the list so far
    got,        \* history: the list GitHub had when an attempt asked
    outcome,    \* history: how this process's last attempt ended
    chosen,     \* history: the channel an administrator chose last
    unkept      \* history: tasks whose restore keep_after_restore has not made up for

disk == <<settings, backup>>
host == <<installed, enabled>>
cache == <<releases, fetchedAt, etag>>
locks == <<lock, checkLock>>
locals == <<wanted, changed, now, result>>
points == <<sent, shown>>
history == <<got, outcome, chosen, unkept>>
vars == <<disk, host, boot, state, derived, cache, attempt, locks, pc, op, locals, points,
          github, calls, events, history>>

(* An evaluation is known by the question it answers: evaluate_channel is  *)
(* a function of the channel, the installed version and the list.          *)
Answer == [channel : Channel, version : Version, list : List]

State == [channel : Channel, version : Version, answer : Answer \cup {None},
          successAt : Nat, checkAt : Nat, failed : BOOLEAN]

Fresh(c, v) == [channel |-> c, version |-> v, answer |-> None, successAt |-> 0,
                checkAt |-> 0, failed |-> FALSE]

Points == [channel : Channel \cup {None}, answer : Answer \cup {None}, checkAt : Nat]
Nothing == [channel |-> None, answer |-> None, checkAt |-> 0]

(* What publish_datapoints says of a state.                                *)
View(s) == [channel |-> s.channel, answer |-> IF s.successAt = 0 THEN None ELSE s.answer,
            checkAt |-> s.checkAt]

Settings == [channel : Channel \cup {None}, marker : Version \cup {None}, state : State \cup {None}]
NoSettings == [channel |-> None, marker |-> None, state |-> None]

Place == {"idle", "check_lock", "fetching", "take_lock", "taken", "switch_lock", "switch_marker",
          "switched", "restored", "keep_marker", "keep_state"}

TypeOK ==
    /\ settings \in Settings /\ backup \in Settings
    /\ installed \in Version /\ enabled \in BOOLEAN
    /\ boot \in {"channel", "marker", "state", "up"}
    /\ state \in State /\ derived \in BOOLEAN
    /\ releases \in List \cup {None} /\ fetchedAt \in Nat /\ etag \in List \cup {None}
    /\ attempt \in {"never", "recent", "old"}
    /\ lock \in Task \cup {NoTask} /\ checkLock \in Task \cup {NoTask}
    /\ pc \in [Task -> Place]
    /\ op \in [Task -> {"check", "check_now", "set_channel", "restore", "raised"}]
    /\ wanted \in [Task -> Channel \cup {None}]
    /\ changed \in [Task -> BOOLEAN]
    /\ now \in [Task -> Nat]
    /\ result \in [Task -> List \cup {None}]
    /\ sent \in Points /\ shown \in Points
    /\ github \in List
    /\ calls \in [Task -> Nat]
    /\ events \in Nat
    /\ got \in Seq(List \cup {None})
    /\ outcome \in {"none", "ok", "failed"}
    /\ chosen \in Channel \cup {None}
    /\ unkept \subseteq Task

-----------------------------------------------------------------------------
Init ==
    /\ settings = NoSettings /\ backup = NoSettings
    /\ installed \in Version /\ enabled \in BOOLEAN
    /\ boot = "channel"
    /\ state = Fresh(Derived[installed], installed) /\ derived = FALSE
    /\ releases = None /\ fetchedAt = 0 /\ etag = None
    /\ attempt = "never"
    /\ lock = NoTask /\ checkLock = NoTask
    /\ pc = [t \in Task |-> "idle"]
    /\ op = [t \in Task |-> "check"]
    /\ wanted = [t \in Task |-> None]
    /\ changed = [t \in Task |-> FALSE]
    /\ now = [t \in Task |-> 0]
    /\ result = [t \in Task |-> None]
    /\ sent = Nothing /\ shown = Nothing
    /\ outcome = "none" /\ unkept = {}
    /\ github \in List
    /\ calls = [t \in Task |-> 0]
    /\ events = 0
    /\ got = <<>> /\ chosen = None

(* The process dies, or is stopped, at any point; another version may be   *)
(* installed before it starts again.  A restore that never got to          *)
(* keep_after_restore leaves the channel of the backup.                    *)
Restart(v) ==
    /\ events < MaxEvents
    /\ installed' = v
    /\ boot' = "channel"
    /\ state' = Fresh(Derived[v], v) /\ derived' = FALSE
    /\ releases' = None /\ fetchedAt' = 0 /\ etag' = None
    /\ attempt' = "never"
    /\ lock' = NoTask /\ checkLock' = NoTask
    /\ pc' = [t \in Task |-> "idle"]
    /\ op' = [t \in Task |-> "check"]
    /\ wanted' = [t \in Task |-> None]
    /\ changed' = [t \in Task |-> FALSE]
    /\ now' = [t \in Task |-> 0]
    /\ result' = [t \in Task |-> None]
    /\ sent' = Nothing /\ shown' = Nothing
    /\ outcome' = "none" /\ unkept' = {}
    /\ chosen' = IF unkept # {} \/ (\E t \in Task : op[t] = "set_channel" /\ pc[t] = "switch_marker")
                 THEN None ELSE chosen
    /\ events' = events + 1
    /\ UNCHANGED <<disk, enabled, github, calls, got>>

-----------------------------------------------------------------------------
(* load(): every step may be the last one, a failed write stops the start. *)

BootUnchanged == UNCHANGED <<backup, host, cache, attempt, locks, pc, op, locals, github, calls, events, history>>

(* A derived channel follows the installed version.                        *)
Rederives ==
    \/ settings.channel = None
    \/ settings.marker # None /\ settings.channel # Derived[installed]

LoadChannel ==
    /\ boot = "channel"
    /\ IF Rederives
       THEN /\ settings' = [settings EXCEPT !.channel = Derived[installed]]
            /\ derived' = TRUE
            /\ boot' = "marker"
       ELSE /\ derived' = (settings.marker # None)
            /\ boot' = "state"
            /\ UNCHANGED settings
    /\ UNCHANGED <<state, points>> /\ BootUnchanged

LoadMarker ==
    /\ boot = "marker"
    /\ settings' = [settings EXCEPT !.marker = installed]
    /\ boot' = "state"
    /\ UNCHANGED <<state, derived, points>> /\ BootUnchanged

(* _restore_state: what was computed for another channel or version is     *)
(* discarded.                                                              *)
RestoredOfChannel(saved, c) == IF saved = None \/ saved.channel # c THEN None ELSE [saved EXCEPT !.version = installed]
Restored(saved, c) ==
    IF saved = None \/ saved.channel # c \/ saved.version # installed THEN None ELSE saved

LoadState ==
    /\ boot = "state"
    /\ LET saved == IF enabled THEN Restored(settings.state, settings.channel) ELSE None
           s == IF saved = None THEN Fresh(settings.channel, installed) ELSE saved
       IN state' = s /\ shown' = View(s) /\ sent' = View(s)
    /\ boot' = "up"
    /\ UNCHANGED <<settings, derived>> /\ BootUnchanged

-----------------------------------------------------------------------------
(* Calls.                                                                  *)

GoesTo(t, place) == pc' = [pc EXCEPT ![t] = place]

Returns(t) ==
    /\ GoesTo(t, "idle")
    /\ wanted' = [wanted EXCEPT ![t] = None]
    /\ changed' = [changed EXCEPT ![t] = FALSE]
    /\ now' = [now EXCEPT ![t] = 0]
    /\ result' = [result EXCEPT ![t] = None]

Raises(t) ==
    /\ Returns(t)
    /\ op' = [op EXCEPT ![t] = "raised"]
    /\ lock' = NoTask

Starts(t, call, place) ==
    /\ boot = "up" /\ pc[t] = "idle" /\ calls[t] < MaxCalls[t]
    /\ calls' = [calls EXCEPT ![t] = @ + 1]
    /\ op' = [op EXCEPT ![t] = call]
    /\ GoesTo(t, place)
    /\ UNCHANGED <<disk, host, boot, state, derived, cache, attempt, locks, changed, now, result,
                   points, github, events, history>>

Check(t) == t = Timer /\ enabled /\ Starts(t, "check", "check_lock") /\ UNCHANGED wanted

CheckNow(t) == t \in Client /\ enabled /\ Starts(t, "check_now", "check_lock") /\ UNCHANGED wanted

SetChannel(t, c) ==
    /\ t \in Client
    /\ Starts(t, "set_channel", "switch_lock")
    /\ wanted' = [wanted EXCEPT ![t] = c]

-----------------------------------------------------------------------------
(* A check attempt.                                                        *)

(* The cool-down counts from this process's own last attempt, and is       *)
(* looked at under the check lock.  A clock set back ends it.              *)
CoolingDownByStatus(t) == op[t] # "check" /\ attempt # "old" /\ state.checkAt # 0
CoolingDown(t) == op[t] # "check" /\ attempt = "recent"

Ask(t) ==
    /\ pc[t] = "check_lock" /\ checkLock = NoTask
    /\ IF CoolingDown(t)
       THEN /\ Returns(t)
            /\ UNCHANGED <<checkLock, attempt, got>>
       ELSE /\ GoesTo(t, "fetching")
            /\ checkLock' = t
            /\ attempt' = "recent"
            /\ got' = Append(got, None)
            /\ now' = [now EXCEPT ![t] = Len(got) + 1]
            /\ UNCHANGED <<wanted, changed, result>>
    /\ UNCHANGED <<disk, host, boot, state, derived, cache, lock, op, points, github,
                    calls, events, outcome, chosen, unkept>>

CoolDownEnds ==
    /\ attempt = "recent"
    /\ attempt' = "old"
    /\ UNCHANGED <<disk, host, boot, state, derived, cache, locks, pc, op, locals, points, github,
                   calls, events, history>>

(* The request fails, or brings the list; 304 stands for the cached one.   *)
FetchEnds(t, ok) ==
    /\ pc[t] = "fetching"
    /\ result' = [result EXCEPT ![t] = IF ~ok THEN None
                                       ELSE IF releases # None /\ etag = github THEN releases
                                       ELSE github]
    /\ got' = IF ok THEN [got EXCEPT ![now[t]] = github] ELSE got
    /\ GoesTo(t, "take_lock")
    /\ UNCHANGED <<disk, host, boot, state, derived, cache, attempt, locks, op, wanted, changed, now,
                   points, github, calls, events, outcome, chosen, unkept>>

(* _apply_evaluation, for the channel current now.                         *)
Evaluated(s, list, at) ==
    [s EXCEPT !.answer = [channel |-> s.channel, version |-> installed, list |-> list],
              !.successAt = at, !.failed = FALSE]

TakeOver(t) ==
    LET checked == [state EXCEPT !.checkAt = now[t]]
    IN /\ pc[t] = "take_lock" /\ lock = NoTask
       /\ lock' = t
       /\ IF result[t] = None
          THEN /\ state' = [checked EXCEPT !.failed = TRUE]
               /\ outcome' = "failed"
               /\ UNCHANGED cache
          ELSE /\ state' = Evaluated(checked, result[t], now[t])
               /\ releases' = result[t] /\ fetchedAt' = now[t] /\ etag' = result[t]
               /\ outcome' = "ok"
       /\ GoesTo(t, "taken")
       /\ UNCHANGED <<disk, host, boot, derived, attempt, checkLock, op, locals, points, github,
                      calls, events, got, chosen, unkept>>

(* _persist_and_publish: a failed write is only logged; what the data      *)
(* points were sent before is not sent again.                              *)
PersistAndPublish ==
    /\ settings' \in {settings, [settings EXCEPT !.state = state]}
    /\ sent' = View(state)
    /\ shown' = [p \in DOMAIN shown |-> IF sent[p] = View(state)[p] THEN shown[p] ELSE View(state)[p]]

EndCheck(t) ==
    /\ pc[t] = "taken"
    /\ PersistAndPublish
    /\ lock' = NoTask /\ checkLock' = NoTask
    /\ Returns(t)
    /\ UNCHANGED <<backup, host, boot, state, derived, cache, attempt, op, github, calls, events, history>>

-----------------------------------------------------------------------------
(* set_channel.                                                            *)

WriteChannel(t, ok) ==
    /\ pc[t] = "switch_lock" /\ lock = NoTask
    /\ IF ok
       THEN /\ lock' = t
            /\ settings' = [settings EXCEPT !.channel = wanted[t]]
            /\ derived' = FALSE
            /\ GoesTo(t, "switch_marker")
            /\ UNCHANGED <<op, locals>>
       ELSE /\ Raises(t)
            /\ UNCHANGED <<settings, derived>>
    /\ UNCHANGED <<backup, host, boot, state, cache, attempt, checkLock, points, github, calls, events,
                   history>>

(* The new channel is answered from the cached list; the outcome of the    *)
(* last attempt stays visible.                                             *)
SwitchedWithoutList(s, c) ==
    [Evaluated([Fresh(c, installed) EXCEPT !.checkAt = s.checkAt], releases, fetchedAt) EXCEPT !.failed = s.failed]
SwitchedForgettingError(s, c) ==
    LET new == [Fresh(c, installed) EXCEPT !.checkAt = s.checkAt]
    IN IF fetchedAt = 0 THEN new ELSE Evaluated(new, releases, fetchedAt)
Switched(s, c) ==
    LET new == [Fresh(c, installed) EXCEPT !.checkAt = s.checkAt]
        told == IF fetchedAt = 0 THEN new ELSE Evaluated(new, releases, fetchedAt)
    IN [told EXCEPT !.failed = s.failed]

ClearMarkerNever == settings' = settings
ClearMarker == settings' = [settings EXCEPT !.marker = None]

SwitchState(t, ok) ==
    /\ pc[t] = "switch_marker"
    /\ IF ok
       THEN /\ ClearMarker
            /\ changed' = [changed EXCEPT ![t] = wanted[t] # state.channel]
            /\ state' = IF wanted[t] = state.channel THEN state ELSE Switched(state, wanted[t])
            /\ chosen' = wanted[t]
            /\ GoesTo(t, "switched")
            /\ UNCHANGED <<lock, op, wanted, now, result>>
       ELSE /\ Raises(t)
            /\ chosen' = None
            /\ UNCHANGED <<settings, state>>
    /\ UNCHANGED <<backup, host, boot, derived, cache, attempt, checkLock, points, github,
                    calls, events, got, outcome, unkept>>

(* With nothing that answers the new channel yet, GitHub is asked.         *)
ReleasesLockAfterCheck(t) == lock' = IF pc'[t] = "idle" THEN NoTask ELSE lock
ReleasesLock(t) == lock' = NoTask

EndSwitch(t) ==
    /\ pc[t] = "switched"
    /\ PersistAndPublish
    /\ IF changed[t] /\ state.successAt = 0 /\ enabled
       THEN GoesTo(t, "check_lock") /\ UNCHANGED locals
       ELSE Returns(t)
    /\ ReleasesLock(t)
    /\ UNCHANGED <<backup, host, boot, state, derived, cache, attempt, checkLock, op, github, calls,
                    events, history>>

-----------------------------------------------------------------------------
(* A database restore, and keep_after_restore.                             *)

Backup ==
    /\ boot = "up" /\ events < MaxEvents
    /\ backup' = settings
    /\ events' = events + 1
    /\ UNCHANGED <<settings, host, boot, state, derived, cache, attempt, locks, pc, op, locals,
                   points, github, calls, history>>

(* The file is replaced and the registry loaded anew: no value is known.   *)
RestoreDatabase(t) ==
    /\ t \in Client /\ boot = "up" /\ pc[t] = "idle" /\ calls[t] < MaxCalls[t]
    /\ calls' = [calls EXCEPT ![t] = @ + 1]
    /\ settings' = backup
    /\ shown' = Nothing
    /\ unkept' = unkept \cup {t}
    /\ op' = [op EXCEPT ![t] = "restore"]
    /\ GoesTo(t, "restored")
    /\ UNCHANGED <<backup, host, boot, state, derived, cache, attempt, locks, locals, sent, github, events,
                   got, outcome, chosen>>

KeepUnchanged == UNCHANGED <<backup, host, boot, state, derived, cache, attempt, checkLock, github,
                             calls, events, got, outcome, chosen>>

KeepChannel(t) ==
    /\ pc[t] = "restored" /\ lock = NoTask
    /\ lock' = t
    /\ settings' = [settings EXCEPT !.channel = state.channel]
    /\ GoesTo(t, "keep_marker")
    /\ UNCHANGED <<op, locals, points, unkept>> /\ KeepUnchanged

KeepMarker(t) ==
    /\ pc[t] = "keep_marker"
    /\ settings' = [settings EXCEPT !.marker = IF derived THEN installed ELSE None]
    /\ GoesTo(t, "keep_state")
    /\ UNCHANGED <<lock, op, locals, points, unkept>> /\ KeepUnchanged

(* Every value is published again, changed or not.                         *)
PublishedIfChanged ==
    /\ sent' = View(state)
    /\ shown' = [p \in DOMAIN shown |-> IF sent[p] = View(state)[p] THEN shown[p] ELSE View(state)[p]]
PublishedAgain == sent' = View(state) /\ shown' = View(state)

KeepState(t) ==
    /\ pc[t] = "keep_state"
    /\ settings' = [settings EXCEPT !.state = state]
    /\ PublishedAgain
    /\ unkept' = unkept \ {t}
    /\ lock' = NoTask
    /\ Returns(t)
    /\ UNCHANGED op /\ KeepUnchanged

(* A write fails: the restore goes on without it.                          *)
KeepFails(t) ==
    /\ \/ pc[t] = "restored" /\ lock = NoTask
       \/ pc[t] \in {"keep_marker", "keep_state"}
    /\ Raises(t)
    /\ UNCHANGED <<settings, points, unkept>> /\ KeepUnchanged

-----------------------------------------------------------------------------
News(list) ==
    /\ events < MaxEvents /\ list # github
    /\ events' = events + 1
    /\ github' = list
    /\ UNCHANGED <<disk, host, boot, state, derived, cache, attempt, locks, pc, op, locals, points,
                   calls, history>>

Load == LoadChannel \/ LoadMarker \/ LoadState

Progress(t) ==
    \/ Ask(t)
    \/ \E ok \in BOOLEAN : FetchEnds(t, ok)
    \/ TakeOver(t)
    \/ EndCheck(t)
    \/ \E ok \in BOOLEAN : WriteChannel(t, ok)
    \/ \E ok \in BOOLEAN : SwitchState(t, ok)
    \/ EndSwitch(t)
    \/ KeepChannel(t)
    \/ KeepMarker(t)
    \/ KeepState(t)
    \/ KeepFails(t)

Next ==
    \/ Load
    \/ \E t \in Task :
          \/ Check(t)
          \/ CheckNow(t)
          \/ \E c \in Channel : SetChannel(t, c)
          \/ RestoreDatabase(t)
          \/ Progress(t)
    \/ Backup
    \/ CoolDownEnds
    \/ \E list \in List : News(list)
    \/ \E v \in Version : Restart(v)

Spec == Init /\ [][Next]_vars

-----------------------------------------------------------------------------
(* Properties.                                                             *)

(* The system data points show the state whenever nobody is changing it:   *)
(* what _published says was sent is what the registry has, across checks,  *)
(* channel switches, restarts and restores.                                *)
ShownMatchesState ==
    boot = "up" /\ lock = NoTask /\ unkept = {} => shown = View(state)

(* The status answers the question it is shown for: the channel in force   *)
(* and the version that runs, from the list GitHub had at the time shown,  *)
(* whatever was switched, restarted or restored meanwhile.                 *)
StatusAnswersQuestion ==
    boot = "up" /\ state.successAt # 0 =>
        state.answer = [channel |-> state.channel, version |-> installed, list |-> got[state.successAt]]

(* The error shown is that of the last attempt of this process, and stays  *)
(* so when the channel is switched.                                        *)
ErrorIsOfLastAttempt ==
    /\ outcome = "ok" => ~state.failed
    /\ outcome = "failed" => state.failed

(* "An admin's choice (no marker) stays": whatever crashes and updates     *)
(* happen later, the channel is the one chosen last.                       *)
ChoiceStays == boot = "up" /\ chosen # None /\ lock = NoTask => state.channel = chosen

(* A switch returns with an answer for the new channel, or with the error  *)
(* that stands in its way, although the cool-down may keep it from asking. *)
SwitchReturns(t) ==
    /\ pc[t] # "idle" /\ pc'[t] = "idle" /\ op'[t] = "set_channel"
    /\ changed[t] /\ enabled
SwitchIsAnswered ==
    [][\A t \in Client : boot' = "up" /\ SwitchReturns(t) => state'.successAt # 0 \/ state'.failed]_vars

(* "never held across a GitHub request" (obs/update/service.py:297): nobody *)
(* holds the state lock who waits for the check lock or for GitHub, so no  *)
(* switch or restore waits for a slow request and no two callers wait for  *)
(* each other.                                                             *)
LockNotHeldAcrossRequest == \A t \in Task : pc[t] \in {"check_lock", "fetching"} => lock # t
=============================================================================
