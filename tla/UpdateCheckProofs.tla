-------------------------- MODULE UpdateCheckProofs --------------------------
(* The types of UpdateCheck, that the state lock is never held across a    *)
(* request, that the status always answers the question it is shown for,   *)
(* and that what is shown, the error and the channel chosen stay true to   *)
(* it, for any number of clients, channels, versions and lists.            *)
EXTENDS UpdateCheck, SequenceTheorems, TLAPS

-----------------------------------------------------------------------------
(* The inductive invariant.                                                *)

(* The cached list is there as soon as its time is.                        *)
CacheFilled == fetchedAt # 0 => releases \in List

(* A switch knows its channel.                                             *)
Switching == {"switch_lock", "switch_marker"}
SwitchKnowsChannel(t) == pc[t] \in Switching => wanted[t] \in Channel

(* _lock is held only between taking it and the end of the section.        *)
Locking == {"taken", "switch_marker", "switched", "keep_marker", "keep_state"}
HolderIsInSection(t) == lock = t => pc[t] \in Locking

TaskInv(t) == SwitchKnowsChannel(t) /\ HolderIsInSection(t)

(* Nobody calls the service before load() is done, which restores the      *)
(* state of a channel that is stored by then.                              *)
LoadingIsAlone ==
    /\ boot # "up" => \A t \in Task : pc[t] = "idle"
    /\ boot \in {"marker", "state"} => settings.channel \in Channel

CheckInv == TypeOK /\ CacheFilled /\ LoadingIsAlone /\ \A t \in Task : TaskInv(t)

-----------------------------------------------------------------------------
(* Records.                                                                *)

LEMMA FreshType ==
    ASSUME NEW c \in Channel, NEW v \in Version
    PROVE  Fresh(c, v) \in State
BY DEF Fresh, State

LEMMA EvaluatedType ==
    ASSUME NEW s \in State, NEW list \in List, NEW at \in Nat, installed \in Version
    PROVE  Evaluated(s, list, at) \in State
BY DEF Evaluated, State, Answer

LEMMA ViewType ==
    ASSUME NEW s \in State
    PROVE  View(s) \in Points
BY DEF View, State, Points

LEMMA SwitchedType ==
    ASSUME NEW s \in State, NEW c \in Channel, installed \in Version, CacheFilled, fetchedAt \in Nat
    PROVE  Switched(s, c) \in State
<1> DEFINE fresh == [Fresh(c, installed) EXCEPT !.checkAt = s.checkAt]
<1>1. fresh \in State
  BY FreshType DEF State
<1> DEFINE told == IF fetchedAt = 0 THEN fresh ELSE Evaluated(fresh, releases, fetchedAt)
<1>2. told \in State
  BY <1>1, EvaluatedType DEF CacheFilled
<1>3. [told EXCEPT !.failed = s.failed] \in State
  <2>1. s.failed \in BOOLEAN
    BY DEF State
  <2> HIDE DEF told
  <2>2. QED
    BY <1>2, <2>1 DEF State
<1>4. QED
  BY <1>3 DEF Switched

LEMMA RestoredType ==
    ASSUME NEW saved \in State \cup {None}, NEW c
    PROVE  Restored(saved, c) \in State \cup {None}
BY DEF Restored

(* What is published anew, value by value.                                 *)
LEMMA ShownType ==
    ASSUME NEW s \in State, shown \in Points, sent \in Points
    PROVE  [p \in DOMAIN shown |-> IF sent[p] = View(s)[p] THEN shown[p] ELSE View(s)[p]] \in Points
<1>1. View(s) \in Points
  BY ViewType
<1> DEFINE pub == [p \in DOMAIN shown |-> IF sent[p] = View(s)[p] THEN shown[p] ELSE View(s)[p]]
<1>2. DOMAIN shown = {"channel", "answer", "checkAt"}
  BY DEF Points
<1>3. pub = [channel |-> pub.channel, answer |-> pub.answer, checkAt |-> pub.checkAt]
  BY <1>2
<1>4. pub.channel \in Channel \cup {None} /\ pub.answer \in Answer \cup {None} /\ pub.checkAt \in Nat
  BY <1>1, <1>2 DEF Points
<1>5. QED
  BY <1>3, <1>4 DEF Points

-----------------------------------------------------------------------------
(* Initially, and steps of the host.                                       *)

LEMMA DerivedType == ASSUME NEW v \in Version PROVE Derived[v] \in Channel
BY DerivedAssumption

LEMMA InitCheckInv == Init => CheckInv
<1> SUFFICES ASSUME Init PROVE CheckInv
  OBVIOUS
<1>1. state \in State
  BY FreshType, DerivedType DEF Init
<1>2. settings \in Settings /\ backup \in Settings
  BY DEF Init, NoSettings, Settings
<1>3. sent \in Points /\ shown \in Points
  BY DEF Init, Nothing, Points
<1>4. TypeOK
  <2>1. /\ pc \in [Task -> Place]
        /\ op \in [Task -> {"check", "check_now", "set_channel", "restore", "raised"}]
        /\ wanted \in [Task -> Channel \cup {None}] /\ changed \in [Task -> BOOLEAN]
        /\ now \in [Task -> Nat] /\ result \in [Task -> List \cup {None}]
        /\ calls \in [Task -> Nat]
    BY DEF Init, Place
  <2>2. got \in Seq(List \cup {None})
    BY DEF Init
  <2>3. QED
    BY <1>1, <1>2, <1>3, <2>1, <2>2 DEF Init, TypeOK
<1>5. CacheFilled /\ LoadingIsAlone /\ \A t \in Task : TaskInv(t)
  BY NoneAssumption
     DEF Init, CacheFilled, LoadingIsAlone, TaskInv, SwitchKnowsChannel, Switching, HolderIsInSection
<1>6. QED
  BY <1>4, <1>5 DEF CheckInv

LEMMA RestartCheckInv ==
    ASSUME CheckInv, NEW v \in Version, Restart(v)
    PROVE  CheckInv'
<1>1. state' \in State
  BY FreshType, DerivedType DEF Restart
<1>2. sent' \in Points /\ shown' \in Points
  BY DEF Restart, Nothing, Points
<1>3. chosen' \in Channel \cup {None}
  BY DEF Restart, CheckInv, TypeOK
<1>4. TypeOK'
  <2>1. /\ pc' \in [Task -> Place]
        /\ op' \in [Task -> {"check", "check_now", "set_channel", "restore", "raised"}]
        /\ wanted' \in [Task -> Channel \cup {None}] /\ changed' \in [Task -> BOOLEAN]
        /\ now' \in [Task -> Nat] /\ result' \in [Task -> List \cup {None}]
    BY DEF Restart, Place
  <2>2. events' \in Nat
    BY DEF Restart, CheckInv, TypeOK
  <2>3. QED
    BY <1>1, <1>2, <1>3, <2>1, <2>2 DEF Restart, CheckInv, TypeOK, disk
<1>5. CacheFilled' /\ LoadingIsAlone' /\ \A t \in Task : TaskInv(t)'
  BY NoneAssumption
     DEF Restart, CacheFilled, LoadingIsAlone, TaskInv, SwitchKnowsChannel, Switching, HolderIsInSection
<1>6. QED
  BY <1>4, <1>5 DEF CheckInv

(* Steps that leave locks, program counters and the cache alone.           *)
LEMMA RestUnchanged ==
    ASSUME CheckInv, UNCHANGED <<fetchedAt, releases, pc, wanted, lock>>
    PROVE  CacheFilled' /\ \A t \in Task : TaskInv(t)'
BY DEF CheckInv, CacheFilled, TaskInv, SwitchKnowsChannel, HolderIsInSection

LEMMA LoadCheckInv ==
    ASSUME CheckInv, Load
    PROVE  CheckInv'
<1>1. UNCHANGED <<fetchedAt, releases, pc, wanted, lock>>
  BY DEF Load, LoadChannel, LoadMarker, LoadState, BootUnchanged, cache, locals, locks
<1>2. Derived[installed] \in Channel
  BY DerivedType DEF CheckInv, TypeOK
<1>3. CASE LoadChannel
  <2>1. settings' \in Settings
    BY <1>2, <1>3 DEF LoadChannel, CheckInv, TypeOK, Settings
  <2>2. boot' \in {"marker", "state"} /\ settings'.channel \in Channel
    BY <1>2, <1>3 DEF LoadChannel, Rederives, CheckInv, TypeOK, Settings
  <2>3. LoadingIsAlone'
    BY <1>1, <1>3, <2>2 DEF LoadChannel, CheckInv, LoadingIsAlone
  <2>4. TypeOK'
    <3>1. derived' \in BOOLEAN
      BY <1>3 DEF LoadChannel
    <3>2. /\ UNCHANGED <<backup, installed, enabled, state, releases, fetchedAt, etag, attempt, lock, checkLock>>
          /\ UNCHANGED <<pc, op, wanted, changed, now, result, sent, shown, github, calls, events>>
          /\ UNCHANGED <<got, outcome, chosen, unkept>>
      BY <1>3 DEF LoadChannel, BootUnchanged, host, cache, locks, locals, points, history
    <3>3. TypeOK /\ boot' \in {"channel", "marker", "state", "up"}
      BY <2>2 DEF CheckInv
    <3>4. QED
      BY ONLY <2>1, <3>1, <3>2, <3>3 DEF TypeOK
  <2>5. QED
    BY <1>1, <2>3, <2>4, RestUnchanged DEF CheckInv
<1>4. CASE LoadMarker
  <2>1. settings' \in Settings /\ settings'.channel = settings.channel
    BY <1>4 DEF LoadMarker, CheckInv, TypeOK, Settings
  <2>2. LoadingIsAlone'
    BY <1>1, <1>4, <2>1 DEF LoadMarker, CheckInv, LoadingIsAlone
  <2>3. TypeOK'
    BY <1>4, <2>1 DEF LoadMarker, CheckInv, TypeOK, BootUnchanged, host, cache, locks, locals, points, history
  <2>4. QED
    BY <1>1, <2>2, <2>3, RestUnchanged DEF CheckInv
<1>5. CASE LoadState
  <2> DEFINE saved == IF enabled THEN Restored(settings.state, settings.channel) ELSE None
             s == IF saved = None THEN Fresh(settings.channel, installed) ELSE saved
  <2>1. saved \in State \cup {None}
    BY RestoredType DEF CheckInv, TypeOK, Settings
  <2>2. settings.channel \in Channel
    BY <1>5 DEF LoadState, CheckInv, LoadingIsAlone
  <2>3. s \in State
    BY <2>1, <2>2, FreshType DEF CheckInv, TypeOK
  <2>4. state' = s /\ shown' = View(s) /\ sent' = View(s) /\ boot' = "up" /\ UNCHANGED <<settings, derived>>
    BY <1>5 DEF LoadState
  <2> HIDE DEF s
  <2>5. state' \in State /\ shown' \in Points /\ sent' \in Points
    BY <2>3, <2>4, ViewType
  <2>6. TypeOK' /\ LoadingIsAlone'
    BY <1>5, <2>4, <2>5
       DEF LoadState, CheckInv, TypeOK, LoadingIsAlone, BootUnchanged, host, cache, locks, locals, history
  <2>7. QED
    BY <1>1, <2>6, RestUnchanged DEF CheckInv
<1>6. QED
  BY <1>3, <1>4, <1>5 DEF Load

-----------------------------------------------------------------------------
(* Calls, and what happens outside.                                        *)

LEMMA CallCheckInv ==
    ASSUME CheckInv, NEW t \in Task,
           Check(t) \/ CheckNow(t) \/ \E c \in Channel : SetChannel(t, c)
    PROVE  CheckInv'
<1>1. PICK call \in {"check", "check_now", "set_channel"}, place \in {"check_lock", "switch_lock"} :
         /\ Starts(t, call, place)
         /\ \/ place = "check_lock" /\ UNCHANGED wanted
            \/ \E c \in Channel : wanted' = [wanted EXCEPT ![t] = c]
  BY DEF Check, CheckNow, SetChannel
<1>2. pc' \in [Task -> Place] /\ op' \in [Task -> {"check", "check_now", "set_channel", "restore", "raised"}]
  BY <1>1 DEF Starts, GoesTo, CheckInv, TypeOK, Place
<1>3. TypeOK'
  <2>1. wanted' \in [Task -> Channel \cup {None}]
    BY <1>1 DEF CheckInv, TypeOK
  <2>2. calls' \in [Task -> Nat]
    BY <1>1 DEF Starts, CheckInv, TypeOK
  <2>3. QED
    BY <1>1, <1>2, <2>1, <2>2 DEF Starts, CheckInv, TypeOK, disk, host, cache, locks, points, history
<1>4. CacheFilled' /\ LoadingIsAlone'
  BY <1>1 DEF Starts, CheckInv, CacheFilled, LoadingIsAlone, disk, host, cache, locks, locals, points, history
<1>5. ASSUME NEW u \in Task PROVE TaskInv(u)'
  BY <1>1 DEF Starts, GoesTo, CheckInv, TypeOK, TaskInv, SwitchKnowsChannel, Switching, HolderIsInSection, Locking, disk, host, cache, locks, locals, points, history
<1>6. QED
  BY <1>3, <1>4, <1>5 DEF CheckInv

LEMMA OutsideCheckInv ==
    ASSUME CheckInv, CoolDownEnds \/ Backup \/ \E list \in List : News(list)
    PROVE  CheckInv'
<1>1. UNCHANGED <<fetchedAt, releases, pc, wanted, lock, boot, settings>>
  BY DEF CoolDownEnds, Backup, News, disk, host, cache, locks, locals, points, history
<1>2. TypeOK'
  BY DEF CoolDownEnds, Backup, News, CheckInv, TypeOK, disk, host, cache, locks, locals, points, history
<1>3. LoadingIsAlone'
  BY <1>1 DEF CheckInv, LoadingIsAlone
<1>4. QED
  BY <1>1, <1>2, <1>3, RestUnchanged DEF CheckInv

-----------------------------------------------------------------------------
(* A check attempt.                                                        *)

(* A task that returns forgets its locals and leaves the others alone.     *)
LEMMA ReturnsType ==
    ASSUME CheckInv, NEW t \in Task, Returns(t)
    PROVE  /\ pc' \in [Task -> Place] /\ wanted' \in [Task -> Channel \cup {None}]
           /\ changed' \in [Task -> BOOLEAN] /\ now' \in [Task -> Nat]
           /\ result' \in [Task -> List \cup {None}]
           /\ pc'[t] = "idle"
           /\ \A u \in Task : u # t => pc'[u] = pc[u] /\ wanted'[u] = wanted[u]
BY DEF Returns, GoesTo, CheckInv, TypeOK, Place

(* What holds of the tasks after a step of t to a place, or of its return, *)
(* that frees the lock or leaves it alone.                                 *)
LEMMA TasksAfter ==
    ASSUME CheckInv, NEW t \in Task, boot = "up", boot' = "up",
           pc' \in [Task -> Place],
           \A u \in Task : u # t => pc'[u] = pc[u] /\ wanted'[u] = wanted[u],
           pc'[t] \in Switching => wanted'[t] \in Channel,
           lock' \in {NoTask, lock, t},
           lock' = t => pc'[t] \in Locking
    PROVE  LoadingIsAlone' /\ \A u \in Task : TaskInv(u)'
BY NoneAssumption
   DEF CheckInv, LoadingIsAlone, TaskInv, SwitchKnowsChannel, HolderIsInSection

(* Whoever is in a call knows that load() is done.                         *)
LEMMA InCallIsUp ==
    ASSUME CheckInv, NEW t \in Task, pc[t] # "idle"
    PROVE  boot = "up"
BY DEF CheckInv, LoadingIsAlone

LEMMA AskCheckInv ==
    ASSUME CheckInv, NEW t \in Task, Ask(t)
    PROVE  CheckInv'
<1>1. boot = "up" /\ UNCHANGED <<boot, lock, fetchedAt, releases>> /\ lock # t
  BY InCallIsUp DEF Ask, CheckInv, TaskInv, HolderIsInSection, Locking, disk, host, cache, locks, locals, points, history
<1>2. CASE CoolingDown(t)
  <2>1. Returns(t) /\ UNCHANGED <<checkLock, attempt, got>>
    BY <1>2 DEF Ask
  <2>2. TypeOK'
    <3>1. /\ UNCHANGED <<settings, backup, installed, enabled, boot, state, derived, releases, fetchedAt, etag>>
          /\ UNCHANGED <<attempt, lock, checkLock, op, sent, shown, github, calls, events>>
          /\ UNCHANGED <<got, outcome, chosen, unkept>>
      BY <2>1 DEF Ask, disk, host, cache, points
    <3>2. TypeOK /\ Returns(t)
      BY <2>1 DEF CheckInv
    <3>3. /\ pc' \in [Task -> Place] /\ wanted' \in [Task -> Channel \cup {None}]
          /\ changed' \in [Task -> BOOLEAN] /\ now' \in [Task -> Nat] /\ result' \in [Task -> List \cup {None}]
      BY <3>2, ReturnsType
    <3>4. QED
      BY ONLY <3>1, <3>2, <3>3 DEF TypeOK
  <2>3. LoadingIsAlone' /\ \A u \in Task : TaskInv(u)'
    BY <1>1, <2>1, ReturnsType, TasksAfter DEF Switching
  <2>4. QED
    BY <1>1, <2>2, <2>3 DEF CheckInv, CacheFilled
<1>3. CASE ~CoolingDown(t)
  <2>1. /\ pc' = [pc EXCEPT ![t] = "fetching"] /\ checkLock' = t /\ attempt' = "recent"
        /\ got' = Append(got, None) /\ now' = [now EXCEPT ![t] = Len(got) + 1]
        /\ UNCHANGED <<wanted, changed, result>>
    BY <1>3 DEF Ask, GoesTo
  <2>2. got' \in Seq(List \cup {None}) /\ Len(got) + 1 \in Nat
    BY <2>1 DEF CheckInv, TypeOK
  <2>3. pc' \in [Task -> Place] /\ pc'[t] = "fetching"
    BY <2>1 DEF CheckInv, TypeOK, Place
  <2>4. TypeOK'
    BY <2>1, <2>2, <2>3 DEF Ask, CheckInv, TypeOK, disk, host, cache, locks, locals, points, history
  <2>5. LoadingIsAlone' /\ \A u \in Task : TaskInv(u)'
    BY <1>1, <2>1, <2>3, TasksAfter DEF Switching, CheckInv, TypeOK
  <2>6. QED
    BY <1>1, <2>4, <2>5 DEF CheckInv, CacheFilled
<1>4. QED
  BY <1>2, <1>3

LEMMA FetchEndsCheckInv ==
    ASSUME CheckInv, NEW t \in Task, NEW ok \in BOOLEAN, FetchEnds(t, ok)
    PROVE  CheckInv'
<1>1. boot = "up" /\ UNCHANGED <<boot, lock, fetchedAt, releases, wanted>> /\ lock # t
  BY InCallIsUp DEF FetchEnds, CheckInv, TaskInv, HolderIsInSection, Locking, disk, host, cache, locks, locals, points, history
<1>2. pc' \in [Task -> Place] /\ pc' = [pc EXCEPT ![t] = "take_lock"]
  BY DEF FetchEnds, GoesTo, CheckInv, TypeOK, Place
<1>3. result' \in [Task -> List \cup {None}]
  BY DEF FetchEnds, CheckInv, TypeOK
<1>4. got' \in Seq(List \cup {None})
  <2>1. got \in Seq(List \cup {None}) /\ github \in List
    BY DEF CheckInv, TypeOK
  <2>2. [got EXCEPT ![now[t]] = github] \in Seq(List \cup {None})
    <3>1. CASE now[t] \in 1..Len(got)
      BY <2>1, <3>1, ExceptSeq
    <3>2. CASE now[t] \notin 1..Len(got)
      <4>1. [got EXCEPT ![now[t]] = github] = got
        BY <2>1, <3>2
      <4>2. QED
        BY <2>1, <4>1
    <3>3. QED
      BY <3>1, <3>2
  <2>3. QED
    BY <2>1, <2>2 DEF FetchEnds
<1>5. TypeOK'
  BY <1>2, <1>3, <1>4 DEF FetchEnds, CheckInv, TypeOK, disk, host, cache, locks, locals, points, history
<1>6. LoadingIsAlone' /\ \A u \in Task : TaskInv(u)'
  BY <1>1, <1>2, TasksAfter DEF Switching, CheckInv, TypeOK
<1>7. QED
  BY <1>1, <1>5, <1>6 DEF CheckInv, CacheFilled

LEMMA TakeOverCheckInv ==
    ASSUME CheckInv, NEW t \in Task, TakeOver(t)
    PROVE  CheckInv'
<1> DEFINE checked == [state EXCEPT !.checkAt = now[t]]
<1>1. checked \in State /\ installed \in Version /\ now[t] \in Nat /\ result[t] \in List \cup {None}
  BY DEF CheckInv, TypeOK, State
<1>2. boot = "up" /\ lock' = t /\ UNCHANGED <<boot, wanted>>
  BY InCallIsUp DEF TakeOver, disk, host, cache, locks, locals, points, history
<1>3. pc' \in [Task -> Place] /\ pc' = [pc EXCEPT ![t] = "taken"]
  BY DEF TakeOver, GoesTo, CheckInv, TypeOK, Place
<1>4. /\ state' \in State /\ outcome' \in {"none", "ok", "failed"}
      /\ releases' \in List \cup {None} /\ fetchedAt' \in Nat /\ etag' \in List \cup {None}
      /\ CacheFilled'
  <2>1. CASE result[t] = None
    <3>1. [checked EXCEPT !.failed = TRUE] \in State
      BY <1>1 DEF State
    <3>2. QED
      BY <2>1, <3>1 DEF TakeOver, CheckInv, TypeOK, CacheFilled, cache
  <2>2. CASE result[t] # None
    <3>1. Evaluated(checked, result[t], now[t]) \in State
      BY <1>1, <2>2, EvaluatedType
    <3>2. QED
      BY <1>1, <2>2, <3>1 DEF TakeOver, CheckInv, TypeOK, CacheFilled
  <2>3. QED
    BY <2>1, <2>2
<1>5. TypeOK'
  BY <1>2, <1>3, <1>4 DEF TakeOver, CheckInv, TypeOK, disk, host, locals, points, history
<1>6. LoadingIsAlone' /\ \A u \in Task : TaskInv(u)'
  BY <1>2, <1>3, TasksAfter DEF Switching, Locking, CheckInv, TypeOK
<1>7. QED
  BY <1>4, <1>5, <1>6 DEF CheckInv

(* Writing the state and publishing it.                                    *)
LEMMA PersistType ==
    ASSUME CheckInv, PersistAndPublish
    PROVE  settings' \in Settings /\ sent' \in Points /\ shown' \in Points
<1>1. settings \in Settings /\ state \in State /\ sent \in Points /\ shown \in Points
  BY DEF CheckInv, TypeOK
<1>2. [settings EXCEPT !.state = state] \in Settings
  BY <1>1 DEF Settings
<1>3. QED
  BY <1>1, <1>2, ViewType, ShownType DEF PersistAndPublish

LEMMA EndCheckCheckInv ==
    ASSUME CheckInv, NEW t \in Task, EndCheck(t)
    PROVE  CheckInv'
<1>1. boot = "up" /\ lock' = NoTask /\ UNCHANGED <<boot, fetchedAt, releases>> /\ Returns(t)
  BY InCallIsUp DEF EndCheck, disk, host, cache, locks, locals, points, history
<1>2. PersistAndPublish
  BY DEF EndCheck
<1>3. TypeOK'
  BY <1>1, <1>2, PersistType, ReturnsType DEF EndCheck, CheckInv, TypeOK, host, cache, history
<1>4. LoadingIsAlone' /\ \A u \in Task : TaskInv(u)'
  BY <1>1, ReturnsType, TasksAfter, NoneAssumption DEF Switching
<1>5. QED
  BY <1>1, <1>3, <1>4 DEF CheckInv, CacheFilled

-----------------------------------------------------------------------------
(* set_channel.                                                            *)

LEMMA WriteChannelCheckInv ==
    ASSUME CheckInv, NEW t \in Task, NEW ok \in BOOLEAN, WriteChannel(t, ok)
    PROVE  CheckInv'
<1>1. boot = "up" /\ UNCHANGED <<boot, fetchedAt, releases>> /\ wanted[t] \in Channel
  BY InCallIsUp DEF WriteChannel, CheckInv, TaskInv, SwitchKnowsChannel, Switching, cache
<1>2. CASE ok
  <2>1. pc' \in [Task -> Place] /\ pc' = [pc EXCEPT ![t] = "switch_marker"] /\ lock' = t /\ UNCHANGED <<op, locals>>
    BY <1>2 DEF WriteChannel, GoesTo, CheckInv, TypeOK, Place
  <2>2. settings' \in Settings /\ derived' = FALSE
    BY <1>1, <1>2 DEF WriteChannel, CheckInv, TypeOK, Settings
  <2>3. TypeOK'
    <3>1. /\ UNCHANGED <<backup, installed, enabled, boot, state, releases, fetchedAt, etag, attempt, checkLock>>
          /\ UNCHANGED <<op, wanted, changed, now, result, sent, shown, github, calls, events>>
          /\ UNCHANGED <<got, outcome, chosen, unkept>>
      BY <2>1 DEF WriteChannel, host, cache, locals, points, history
    <3>2. TypeOK /\ settings' \in Settings /\ derived' \in BOOLEAN
      BY <2>2 DEF CheckInv
    <3>3. lock' \in Task \cup {NoTask} /\ pc' \in [Task -> Place]
      BY <2>1
    <3>4. QED
      BY ONLY <3>1, <3>2, <3>3 DEF TypeOK
  <2>4. LoadingIsAlone' /\ \A u \in Task : TaskInv(u)'
    BY <1>1, <2>1, TasksAfter DEF Switching, Locking, locals, CheckInv, TypeOK
  <2>5. QED
    BY <1>1, <2>3, <2>4 DEF CheckInv, CacheFilled
<1>3. CASE ~ok
  <2>1. Returns(t) /\ lock' = NoTask /\ op' = [op EXCEPT ![t] = "raised"] /\ UNCHANGED <<settings, derived>>
    BY <1>3 DEF WriteChannel, Raises
  <2>2. TypeOK'
    BY <2>1, ReturnsType DEF WriteChannel, CheckInv, TypeOK, host, cache, points, history
  <2>3. LoadingIsAlone' /\ \A u \in Task : TaskInv(u)'
    BY <1>1, <2>1, ReturnsType, TasksAfter, NoneAssumption DEF Switching
  <2>4. QED
    BY <1>1, <2>2, <2>3 DEF CheckInv, CacheFilled
<1>4. QED
  BY <1>2, <1>3

LEMMA SwitchStateCheckInv ==
    ASSUME CheckInv, NEW t \in Task, NEW ok \in BOOLEAN, SwitchState(t, ok)
    PROVE  CheckInv'
<1>1. boot = "up" /\ UNCHANGED <<boot, fetchedAt, releases>> /\ wanted[t] \in Channel
  BY InCallIsUp DEF SwitchState, CheckInv, TaskInv, SwitchKnowsChannel, Switching, cache
<1>2. CASE ok
  <2>1. /\ pc' \in [Task -> Place] /\ pc' = [pc EXCEPT ![t] = "switched"]
        /\ chosen' = wanted[t] /\ UNCHANGED <<lock, op, wanted, now, result>>
    BY <1>2 DEF SwitchState, GoesTo, CheckInv, TypeOK, Place
  <2>2. settings' \in Settings
    BY <1>2 DEF SwitchState, ClearMarker, CheckInv, TypeOK, Settings
  <2>3. changed' \in [Task -> BOOLEAN]
    BY <1>2 DEF SwitchState, CheckInv, TypeOK
  <2>4. state' \in State
    BY <1>1, <1>2, SwitchedType DEF SwitchState, CheckInv, TypeOK
  <2>5. TypeOK'
    BY <1>1, <2>1, <2>2, <2>3, <2>4 DEF SwitchState, CheckInv, TypeOK, host, cache, points
  <2>6. LoadingIsAlone' /\ \A u \in Task : TaskInv(u)'
    BY <1>1, <2>1, TasksAfter DEF Switching, Locking, CheckInv, TypeOK
  <2>7. QED
    BY <1>1, <2>5, <2>6 DEF CheckInv, CacheFilled
<1>3. CASE ~ok
  <2>1. /\ Returns(t) /\ lock' = NoTask /\ op' = [op EXCEPT ![t] = "raised"]
        /\ chosen' = None /\ UNCHANGED <<settings, state>>
    BY <1>3 DEF SwitchState, Raises
  <2>2. TypeOK'
    BY <2>1, ReturnsType DEF SwitchState, CheckInv, TypeOK, host, cache, points
  <2>3. LoadingIsAlone' /\ \A u \in Task : TaskInv(u)'
    BY <1>1, <2>1, ReturnsType, TasksAfter, NoneAssumption DEF Switching
  <2>4. QED
    BY <1>1, <2>2, <2>3 DEF CheckInv, CacheFilled
<1>4. QED
  BY <1>2, <1>3

(* set_channel leaves the lock before it asks GitHub.                      *)
LEMMA EndSwitchCheckInv ==
    ASSUME CheckInv, NEW t \in Task, EndSwitch(t)
    PROVE  CheckInv'
<1>1. boot = "up" /\ lock' = NoTask /\ UNCHANGED <<boot, fetchedAt, releases>> /\ PersistAndPublish
  BY InCallIsUp DEF EndSwitch, ReleasesLock, cache
<1>2. CASE Returns(t)
  <2>1. TypeOK'
    BY <1>1, <1>2, PersistType, ReturnsType DEF EndSwitch, CheckInv, TypeOK, host, cache, history
  <2>2. LoadingIsAlone' /\ \A u \in Task : TaskInv(u)'
    BY <1>1, <1>2, ReturnsType, TasksAfter, NoneAssumption DEF Switching
  <2>3. QED
    BY <1>1, <2>1, <2>2 DEF CheckInv, CacheFilled
<1>3. CASE GoesTo(t, "check_lock") /\ UNCHANGED locals
  <2>1. pc' \in [Task -> Place] /\ pc' = [pc EXCEPT ![t] = "check_lock"]
    BY <1>3 DEF GoesTo, CheckInv, TypeOK, Place
  <2>2. TypeOK'
    BY <1>1, <1>3, <2>1, PersistType DEF EndSwitch, CheckInv, TypeOK, host, cache, locals, history
  <2>3. LoadingIsAlone' /\ \A u \in Task : TaskInv(u)'
    BY <1>1, <1>3, <2>1, TasksAfter, NoneAssumption DEF Switching, locals, CheckInv, TypeOK
  <2>4. QED
    BY <1>1, <2>2, <2>3 DEF CheckInv, CacheFilled
<1>4. QED
  BY <1>2, <1>3 DEF EndSwitch

-----------------------------------------------------------------------------
(* A restore.                                                              *)

LEMMA RestoreDatabaseCheckInv ==
    ASSUME CheckInv, NEW t \in Task, RestoreDatabase(t)
    PROVE  CheckInv'
<1>1. boot = "up" /\ UNCHANGED <<boot, lock, wanted, fetchedAt, releases>> /\ lock # t
  BY DEF RestoreDatabase, CheckInv, TaskInv, HolderIsInSection, Locking, disk, host, cache, locks, locals, points, history
<1>2. pc' \in [Task -> Place] /\ pc' = [pc EXCEPT ![t] = "restored"]
  BY DEF RestoreDatabase, GoesTo, CheckInv, TypeOK, Place
<1>3. shown' \in Points
  BY DEF RestoreDatabase, Nothing, Points
<1>4. calls' \in [Task -> Nat] /\ op' \in [Task -> {"check", "check_now", "set_channel", "restore", "raised"}]
  BY DEF RestoreDatabase, CheckInv, TypeOK
<1>5. TypeOK'
  BY <1>2, <1>3, <1>4 DEF RestoreDatabase, CheckInv, TypeOK, host, cache, locks, locals
<1>6. LoadingIsAlone' /\ \A u \in Task : TaskInv(u)'
  BY <1>1, <1>2, TasksAfter DEF Switching, CheckInv, TypeOK
<1>7. QED
  BY <1>1, <1>5, <1>6 DEF CheckInv, CacheFilled

LEMMA KeepCheckInv ==
    ASSUME CheckInv, NEW t \in Task, KeepChannel(t) \/ KeepMarker(t)
    PROVE  CheckInv'
<1>1. boot = "up" /\ UNCHANGED <<boot, fetchedAt, releases, wanted>>
  BY InCallIsUp DEF KeepChannel, KeepMarker, KeepUnchanged, locals, cache
<1>2. PICK place \in {"keep_marker", "keep_state"} : pc' = [pc EXCEPT ![t] = place]
  BY DEF KeepChannel, KeepMarker, GoesTo
<1>3. pc' \in [Task -> Place] /\ pc'[t] = place /\ lock' \in {lock, t}
  BY <1>2 DEF KeepChannel, KeepMarker, CheckInv, TypeOK, Place
<1>4. settings' \in Settings
  BY DEF KeepChannel, KeepMarker, CheckInv, TypeOK, Settings, State
<1>5. TypeOK'
  BY <1>3, <1>4 DEF KeepChannel, KeepMarker, KeepUnchanged, CheckInv, TypeOK, host, cache, locals, points
<1>6. LoadingIsAlone' /\ \A u \in Task : TaskInv(u)'
  BY <1>1, <1>2, <1>3, TasksAfter DEF Switching, Locking, CheckInv, TypeOK
<1>7. QED
  BY <1>1, <1>5, <1>6 DEF CheckInv, CacheFilled

LEMMA KeepEndsCheckInv ==
    ASSUME CheckInv, NEW t \in Task, KeepState(t) \/ KeepFails(t)
    PROVE  CheckInv'
<1>1. /\ boot = "up" /\ lock' = NoTask /\ Returns(t)
      /\ UNCHANGED <<boot, fetchedAt, releases>>
  BY InCallIsUp DEF KeepState, KeepFails, Raises, KeepUnchanged, cache
<1>2. /\ settings' \in Settings /\ sent' \in Points /\ shown' \in Points /\ unkept' \subseteq Task
      /\ op' \in [Task -> {"check", "check_now", "set_channel", "restore", "raised"}]
  <2>1. CASE KeepState(t)
    <3>1. [settings EXCEPT !.state = state] \in Settings
      BY DEF CheckInv, TypeOK, Settings
    <3>2. QED
      BY <2>1, <3>1, ViewType DEF KeepState, PublishedAgain, CheckInv, TypeOK
  <2>2. CASE KeepFails(t)
    BY <2>2 DEF KeepFails, Raises, points, CheckInv, TypeOK
  <2>3. QED
    BY <2>1, <2>2
<1>3. TypeOK'
  BY <1>1, <1>2, ReturnsType DEF KeepState, KeepFails, KeepUnchanged, CheckInv, TypeOK, host, cache
<1>4. LoadingIsAlone' /\ \A u \in Task : TaskInv(u)'
  BY <1>1, ReturnsType, TasksAfter, NoneAssumption DEF Switching
<1>5. QED
  BY <1>1, <1>3, <1>4 DEF CheckInv, CacheFilled

-----------------------------------------------------------------------------
LEMMA NextCheckInv == CheckInv /\ [Next]_vars => CheckInv'
<1> SUFFICES ASSUME CheckInv, [Next]_vars PROVE CheckInv'
  OBVIOUS
<1>1. CASE Load
  BY <1>1, LoadCheckInv
<1>2. ASSUME NEW t \in Task, Check(t) \/ CheckNow(t) \/ \E c \in Channel : SetChannel(t, c) PROVE CheckInv'
  BY <1>2, CallCheckInv
<1>3. ASSUME NEW t \in Task, RestoreDatabase(t) PROVE CheckInv'
  BY <1>3, RestoreDatabaseCheckInv
<1>4. ASSUME NEW t \in Task, Progress(t) PROVE CheckInv'
  BY <1>4, AskCheckInv, FetchEndsCheckInv, TakeOverCheckInv, EndCheckCheckInv, WriteChannelCheckInv,
     SwitchStateCheckInv, EndSwitchCheckInv, KeepCheckInv, KeepEndsCheckInv DEF Progress
<1>5. CASE CoolDownEnds \/ Backup \/ \E list \in List : News(list)
  BY <1>5, OutsideCheckInv
<1>6. ASSUME NEW v \in Version, Restart(v) PROVE CheckInv'
  BY <1>6, RestartCheckInv
<1>7. CASE UNCHANGED vars
  BY <1>7 DEF vars, CheckInv, TypeOK, CacheFilled, LoadingIsAlone, TaskInv, SwitchKnowsChannel,
              HolderIsInSection, disk, host, cache, locks, locals, points, history
<1>8. QED
  BY <1>1, <1>2, <1>3, <1>4, <1>5, <1>6, <1>7 DEF Next

(* The inductive invariant holds in every reachable state.                 *)
THEOREM CheckInvariant == Spec => []CheckInv
<1>1. QED
  BY InitCheckInv, NextCheckInv, PTL DEF Spec

(* Every variable of the update check stays within its type: in particular *)
(* a switch and a check that race never evaluate a list nobody fetched.    *)
THEOREM TypeCorrect == Spec => []TypeOK
<1>1. CheckInv => TypeOK
  BY DEF CheckInv
<1>2. QED
  BY <1>1, CheckInvariant, PTL

(* _lock is never held across a GitHub request (obs/update/service.py:297),*)
(* however many clients switch, check and restore.                         *)
THEOREM LockIsFree == Spec => []LockNotHeldAcrossRequest
<1>1. CheckInv => LockNotHeldAcrossRequest
  BY DEF CheckInv, TaskInv, HolderIsInSection, Locking, LockNotHeldAcrossRequest
<1>2. QED
  BY <1>1, CheckInvariant, PTL

-----------------------------------------------------------------------------
(* The status answers the question.                                        *)

(* An evaluation is of the channel and version of its state, and of the    *)
(* list GitHub had when the attempt of that number was answered.           *)
Answered(s, lists) ==
    s.successAt # 0 =>
        /\ s.successAt \in 1..Len(lists) /\ lists[s.successAt] \in List
        /\ s.answer = [channel |-> s.channel, version |-> s.version, list |-> lists[s.successAt]]

(* So are the states that were saved, for whatever is installed then.      *)
SavedAnswered ==
    /\ settings.state # None => Answered(settings.state, got)
    /\ backup.state # None => Answered(backup.state, got)

CacheOfAttempt ==
    /\ etag = releases
    /\ fetchedAt # 0 => fetchedAt \in 1..Len(got) /\ got[fetchedAt] = releases

(* One attempt at a time, whose number stands for nothing else yet.        *)
Attempting == {"fetching", "take_lock", "taken"}
AttemptIsAlone(t) ==
    /\ pc[t] \in Attempting => checkLock = t
    /\ pc[t] = "fetching" => now[t] \in 1..Len(got) /\ got[now[t]] = None
    /\ pc[t] = "take_lock" /\ result[t] # None => now[t] \in 1..Len(got) /\ got[now[t]] = result[t]

StateAnswered == state.version = installed /\ Answered(state, got)

Attributed ==
    StateAnswered /\ SavedAnswered /\ CacheOfAttempt /\ \A t \in Task : AttemptIsAlone(t)

AnswerInv == CheckInv /\ Attributed

(* Attempts that begin or end later leave an answer alone.                 *)
Extends(lists, more) ==
    \A i \in 1..Len(lists) : lists[i] \in List => i \in 1..Len(more) /\ more[i] = lists[i]

LEMMA AnsweredStays ==
    ASSUME NEW s, NEW lists, NEW more, Answered(s, lists), Extends(lists, more)
    PROVE  Answered(s, more)
BY DEF Answered, Extends

LEMMA EvaluatedAnswered ==
    ASSUME NEW s \in State, NEW lists, NEW at \in 1..Len(lists), lists[at] \in List, s.version = installed
    PROVE  Answered(Evaluated(s, lists[at], at), lists) /\ Evaluated(s, lists[at], at).version = installed
BY DEF Answered, Evaluated, State

LEMMA FreshAnswered ==
    ASSUME NEW c, NEW v, NEW lists
    PROVE  Answered(Fresh(c, v), lists) /\ Fresh(c, v).version = v
BY DEF Answered, Fresh

(* The time of the last attempt and its error say nothing of an answer.    *)
LEMMA AnsweredOfRest ==
    ASSUME NEW s \in State, NEW at, NEW f, NEW lists
    PROVE  /\ Answered([s EXCEPT !.checkAt = at], lists) <=> Answered(s, lists)
           /\ Answered([s EXCEPT !.failed = f], lists) <=> Answered(s, lists)
           /\ [s EXCEPT !.checkAt = at].version = s.version
           /\ [s EXCEPT !.failed = f].version = s.version
BY DEF Answered, State

(* Steps that are part of no attempt.                                      *)
LEMMA AttemptsKept ==
    ASSUME AnswerInv, NEW t \in Task, UNCHANGED <<got, checkLock>>,
           pc'[t] \notin Attempting,
           \A u \in Task : u # t => pc'[u] = pc[u] /\ now'[u] = now[u] /\ result'[u] = result[u]
    PROVE  \A u \in Task : AttemptIsAlone(u)'
BY DEF AnswerInv, Attributed, AttemptIsAlone, Attempting

LEMMA InitAttributed == Init => Attributed
<1> SUFFICES ASSUME Init PROVE Attributed
  OBVIOUS
<1>1. StateAnswered
  BY FreshAnswered DEF Init, StateAnswered
<1>2. SavedAnswered /\ CacheOfAttempt /\ \A t \in Task : AttemptIsAlone(t)
  BY DEF Init, NoSettings, SavedAnswered, CacheOfAttempt, AttemptIsAlone, Attempting
<1>3. QED
  BY <1>1, <1>2 DEF Attributed

LEMMA RestartAttributed ==
    ASSUME AnswerInv, NEW v \in Version, Restart(v)
    PROVE  Attributed'
<1>1. StateAnswered'
  BY FreshAnswered DEF Restart, StateAnswered
<1>2. SavedAnswered'
  BY DEF Restart, disk, AnswerInv, Attributed, SavedAnswered
<1>3. CacheOfAttempt' /\ \A t \in Task : AttemptIsAlone(t)'
  BY DEF Restart, CacheOfAttempt, AttemptIsAlone, Attempting
<1>4. QED
  BY <1>1, <1>2, <1>3 DEF Attributed

LEMMA LoadAttributed ==
    ASSUME AnswerInv, Load
    PROVE  Attributed'
<1>1. UNCHANGED <<got, installed, enabled, backup, releases, fetchedAt, etag, pc, now, result, checkLock>>
  BY DEF Load, LoadChannel, LoadMarker, LoadState, BootUnchanged, disk, host, cache, locks, locals, points, history
<1>2. CacheOfAttempt' /\ \A t \in Task : AttemptIsAlone(t)'
  BY <1>1 DEF AnswerInv, Attributed, CacheOfAttempt, AttemptIsAlone
<1>3. CASE LoadChannel \/ LoadMarker
  <2>1. settings'.state = settings.state /\ UNCHANGED state
    BY <1>3 DEF LoadChannel, LoadMarker, AnswerInv, CheckInv, TypeOK, Settings
  <2>2. StateAnswered' /\ SavedAnswered'
    BY <1>1, <2>1 DEF AnswerInv, Attributed, StateAnswered, SavedAnswered
  <2>3. QED
    BY <1>2, <2>2 DEF Attributed
<1>4. CASE LoadState
  <2> DEFINE saved == IF enabled THEN Restored(settings.state, settings.channel) ELSE None
  <2>1. state' = IF saved = None THEN Fresh(settings.channel, installed) ELSE saved
    BY <1>4 DEF LoadState
  <2>2. saved # None => saved = settings.state /\ saved.version = installed
    BY DEF Restored
  <2>3. StateAnswered'
    BY <1>1, <2>1, <2>2, FreshAnswered DEF AnswerInv, Attributed, SavedAnswered, StateAnswered
  <2>4. SavedAnswered'
    BY <1>1, <1>4 DEF LoadState, AnswerInv, Attributed, SavedAnswered
  <2>5. QED
    BY <1>2, <2>3, <2>4 DEF Attributed
<1>5. QED
  BY <1>3, <1>4 DEF Load

LEMMA CallAttributed ==
    ASSUME AnswerInv, NEW t \in Task,
           \/ Check(t) \/ CheckNow(t) \/ \E c \in Channel : SetChannel(t, c)
           \/ RestoreDatabase(t)
    PROVE  Attributed'
<1>1. PICK place \in {"check_lock", "switch_lock", "restored"} : pc' = [pc EXCEPT ![t] = place]
  BY DEF Check, CheckNow, SetChannel, Starts, RestoreDatabase, GoesTo
<1>2. UNCHANGED <<got, installed, state, backup, releases, fetchedAt, etag, now, result, checkLock>>
  BY DEF Check, CheckNow, SetChannel, Starts, RestoreDatabase, disk, host, cache, locks, locals, points, history
<1>3. settings' \in {settings, backup}
  BY DEF Check, CheckNow, SetChannel, Starts, RestoreDatabase, disk, host, cache, locks, locals, points, history
<1>4. \A u \in Task : AttemptIsAlone(u)'
  BY <1>1, <1>2, AttemptsKept DEF Attempting, AnswerInv, CheckInv, TypeOK
<1>5. StateAnswered' /\ SavedAnswered' /\ CacheOfAttempt'
  BY <1>2, <1>3 DEF AnswerInv, Attributed, StateAnswered, SavedAnswered, CacheOfAttempt
<1>6. QED
  BY <1>4, <1>5 DEF Attributed

LEMMA OutsideAttributed ==
    ASSUME AnswerInv, CoolDownEnds \/ Backup \/ \E list \in List : News(list)
    PROVE  Attributed'
<1>1. UNCHANGED <<got, installed, state, settings, releases, fetchedAt, etag, pc, now, result, checkLock>>
  BY DEF CoolDownEnds, Backup, News, disk, host, cache, locks, locals, points, history
<1>2. backup' \in {backup, settings}
  BY DEF CoolDownEnds, Backup, News, disk, host, cache, locks, locals, points, history
<1>3. QED
  BY <1>1, <1>2 DEF AnswerInv, Attributed, StateAnswered, SavedAnswered, CacheOfAttempt, AttemptIsAlone

LEMMA AskAttributed ==
    ASSUME AnswerInv, NEW t \in Task, Ask(t)
    PROVE  Attributed'
<1>1. UNCHANGED <<installed, state, settings, backup, releases, fetchedAt, etag>>
  BY DEF Ask, disk, host, cache, locks, locals, points, history
<1>2. CASE CoolingDown(t)
  <2>1. Returns(t) /\ UNCHANGED <<got, checkLock>>
    BY <1>2 DEF Ask
  <2>2. \A u \in Task : AttemptIsAlone(u)'
    BY <2>1, AttemptsKept DEF Returns, GoesTo, Attempting, AnswerInv, CheckInv, TypeOK
  <2>3. QED
    BY <1>1, <2>1, <2>2 DEF AnswerInv, Attributed, StateAnswered, SavedAnswered, CacheOfAttempt
<1>3. CASE ~CoolingDown(t)
  <2>1. /\ pc' = [pc EXCEPT ![t] = "fetching"] /\ checkLock = NoTask /\ checkLock' = t
        /\ got' = Append(got, None) /\ now' = [now EXCEPT ![t] = Len(got) + 1]
        /\ UNCHANGED result
    BY <1>3 DEF Ask, GoesTo
  <2>2. got \in Seq(List \cup {None}) /\ pc \in [Task -> Place] /\ now \in [Task -> Nat]
    BY DEF AnswerInv, CheckInv, TypeOK
  <2>3. /\ Len(got') = Len(got) + 1 /\ got'[Len(got) + 1] = None
        /\ \A i \in 1..Len(got) : i \in 1..Len(got') /\ got'[i] = got[i]
    BY <2>1, <2>2
  <2>4. StateAnswered' /\ SavedAnswered'
    BY <1>1, <2>3, AnsweredStays DEF AnswerInv, Attributed, StateAnswered, SavedAnswered, Extends
  <2>5. CacheOfAttempt'
    BY <1>1, <2>3 DEF AnswerInv, Attributed, CacheOfAttempt
  <2>6. ASSUME NEW u \in Task PROVE AttemptIsAlone(u)'
    <3>1. CASE u = t
      BY <2>1, <2>2, <2>3, <3>1 DEF AttemptIsAlone, Attempting
    <3>2. CASE u # t
      BY <2>1, <2>2, <3>2, NoneAssumption DEF AnswerInv, Attributed, AttemptIsAlone, Attempting
    <3>3. QED
      BY <3>1, <3>2
  <2>7. QED
    BY <2>4, <2>5, <2>6 DEF Attributed
<1>4. QED
  BY <1>2, <1>3

(* The answer to an attempt is entered under its number, once.             *)
LEMMA FetchEndsAttributed ==
    ASSUME AnswerInv, NEW t \in Task, NEW ok \in BOOLEAN, FetchEnds(t, ok)
    PROVE  Attributed'
<1>1. UNCHANGED <<installed, state, settings, backup, releases, fetchedAt, etag, checkLock, now>>
  BY DEF FetchEnds, disk, host, cache, locks, locals, points, history
<1>2. /\ got \in Seq(List \cup {None}) /\ pc \in [Task -> Place] /\ result \in [Task -> List \cup {None}]
      /\ github \in List /\ releases \in List \cup {None} /\ etag = releases
  BY DEF AnswerInv, CheckInv, TypeOK, Attributed, CacheOfAttempt
<1>3. pc[t] = "fetching" /\ pc' = [pc EXCEPT ![t] = "take_lock"] /\ checkLock = t
  BY DEF FetchEnds, GoesTo, AnswerInv, Attributed, AttemptIsAlone, Attempting
<1>4. now[t] \in 1..Len(got) /\ got[now[t]] = None
  BY <1>3 DEF AnswerInv, Attributed, AttemptIsAlone
<1>5. CASE ok
  <2>1. result' = [result EXCEPT ![t] = github] /\ got' = [got EXCEPT ![now[t]] = github]
    BY <1>2, <1>5 DEF FetchEnds
  <2>2. /\ Len(got') = Len(got) /\ got'[now[t]] = github
        /\ \A i \in 1..Len(got) : i # now[t] => got'[i] = got[i]
    BY <1>2, <1>4, <2>1
  <2>3. StateAnswered' /\ SavedAnswered'
    <3>1. Extends(got, got')
      BY <1>2, <1>4, <2>2, NoneAssumption DEF Extends
    <3>2. QED
      BY <1>1, <3>1, AnsweredStays DEF AnswerInv, Attributed, StateAnswered, SavedAnswered
  <2>4. CacheOfAttempt'
    <3>1. fetchedAt # 0 => releases \in List
      BY DEF AnswerInv, CheckInv, CacheFilled
    <3>2. QED
      BY <1>1, <1>4, <2>2, <3>1, NoneAssumption DEF AnswerInv, Attributed, CacheOfAttempt
  <2>5. ASSUME NEW u \in Task PROVE AttemptIsAlone(u)'
    <3>1. CASE u = t
      BY <1>1, <1>2, <1>3, <1>4, <2>1, <2>2, <3>1 DEF AttemptIsAlone, Attempting
    <3>2. CASE u # t
      BY <1>1, <1>2, <1>3, <2>1, <3>2 DEF AnswerInv, Attributed, AttemptIsAlone, Attempting
    <3>3. QED
      BY <3>1, <3>2
  <2>6. QED
    BY <2>3, <2>4, <2>5 DEF Attributed
<1>6. CASE ~ok
  <2>1. result' = [result EXCEPT ![t] = None] /\ UNCHANGED got
    BY <1>6 DEF FetchEnds
  <2>2. StateAnswered' /\ SavedAnswered' /\ CacheOfAttempt'
    BY <1>1, <2>1 DEF AnswerInv, Attributed, StateAnswered, SavedAnswered, CacheOfAttempt
  <2>3. \A u \in Task : AttemptIsAlone(u)'
    BY <1>1, <1>2, <1>3, <2>1 DEF AnswerInv, Attributed, AttemptIsAlone, Attempting
  <2>4. QED
    BY <2>2, <2>3 DEF Attributed
<1>7. QED
  BY <1>5, <1>6

LEMMA TakeOverAttributed ==
    ASSUME AnswerInv, NEW t \in Task, TakeOver(t)
    PROVE  Attributed'
<1> DEFINE checked == [state EXCEPT !.checkAt = now[t]]
<1>1. UNCHANGED <<got, installed, settings, backup, checkLock, now, result>>
  BY DEF TakeOver, disk, host, cache, locks, locals, points, history
<1>2. /\ pc[t] = "take_lock" /\ pc' = [pc EXCEPT ![t] = "taken"]
      /\ pc \in [Task -> Place] /\ state \in State /\ now[t] \in Nat /\ result[t] \in List \cup {None}
  BY DEF TakeOver, GoesTo, AnswerInv, CheckInv, TypeOK
<1>3. checked \in State /\ checked.version = installed /\ Answered(checked, got)
  <2>1. checked \in State
    BY <1>2 DEF State
  <2>2. QED
    BY <1>2, <2>1, AnsweredOfRest DEF AnswerInv, Attributed, StateAnswered
<1>4. StateAnswered' /\ CacheOfAttempt'
  <2>1. CASE result[t] = None
    <3>1. state' = [checked EXCEPT !.failed = TRUE] /\ UNCHANGED cache
      BY <2>1 DEF TakeOver
    <3> HIDE DEF checked
    <3>2. StateAnswered'
      BY <1>1, <1>3, <3>1, AnsweredOfRest DEF StateAnswered
    <3>3. QED
      BY <1>1, <3>1, <3>2 DEF AnswerInv, Attributed, CacheOfAttempt, cache
  <2>2. CASE result[t] # None
    <3>1. /\ state' = Evaluated(checked, result[t], now[t])
          /\ releases' = result[t] /\ fetchedAt' = now[t] /\ etag' = result[t]
      BY <2>2 DEF TakeOver
    <3>2. now[t] \in 1..Len(got) /\ got[now[t]] = result[t]
      BY <1>2, <2>2 DEF AnswerInv, Attributed, AttemptIsAlone
    <3> HIDE DEF checked
    <3>3. StateAnswered'
      BY <1>1, <1>2, <1>3, <2>2, <3>1, <3>2, EvaluatedAnswered DEF StateAnswered
    <3>4. QED
      BY <1>1, <3>1, <3>2, <3>3 DEF CacheOfAttempt
  <2>3. QED
    BY <2>1, <2>2
<1>5. SavedAnswered'
  BY <1>1 DEF AnswerInv, Attributed, SavedAnswered
<1>6. \A u \in Task : AttemptIsAlone(u)'
  BY <1>1, <1>2 DEF AnswerInv, Attributed, AttemptIsAlone, Attempting
<1>7. QED
  BY <1>4, <1>5, <1>6 DEF Attributed

(* Saving the state saves its answer.                                      *)
LEMMA SavingAttributed ==
    ASSUME AnswerInv, UNCHANGED <<got, backup>>,
           settings'.state \in {settings.state, state}
    PROVE  SavedAnswered'
BY DEF AnswerInv, Attributed, StateAnswered, SavedAnswered

LEMMA EndCheckAttributed ==
    ASSUME AnswerInv, NEW t \in Task, EndCheck(t)
    PROVE  Attributed'
<1>1. UNCHANGED <<got, installed, state, backup, releases, fetchedAt, etag>> /\ checkLock' = NoTask /\ Returns(t)
  BY DEF EndCheck, disk, host, cache, locks, locals, points, history
<1>2. pc[t] = "taken" /\ pc \in [Task -> Place] /\ settings \in Settings
  BY DEF EndCheck, AnswerInv, CheckInv, TypeOK
<1>3. settings'.state \in {settings.state, state}
  BY <1>2 DEF EndCheck, PersistAndPublish, Settings
<1>4. ASSUME NEW u \in Task PROVE AttemptIsAlone(u)'
  <2>1. u # t => pc[u] \notin Attempting
    BY <1>2 DEF AnswerInv, Attributed, AttemptIsAlone, Attempting
  <2>2. pc'[u] \notin Attempting
    BY <1>1, <1>2, <2>1 DEF Returns, GoesTo, Attempting
  <2>3. QED
    BY <2>2 DEF AttemptIsAlone, Attempting
<1>5. StateAnswered' /\ CacheOfAttempt'
  BY <1>1 DEF AnswerInv, Attributed, StateAnswered, CacheOfAttempt
<1>6. QED
  BY <1>1, <1>3, <1>4, <1>5, SavingAttributed DEF Attributed

(* The steps of set_channel and keep_after_restore are part of no attempt. *)
LEMMA SectionAttributed ==
    ASSUME AnswerInv, NEW t \in Task,
           \/ \E ok \in BOOLEAN : WriteChannel(t, ok) \/ SwitchState(t, ok)
           \/ EndSwitch(t) \/ KeepChannel(t) \/ KeepMarker(t) \/ KeepState(t) \/ KeepFails(t)
    PROVE  Attributed'
<1>1. UNCHANGED <<got, installed, backup, releases, fetchedAt, etag, checkLock>>
  BY DEF WriteChannel, SwitchState, EndSwitch, KeepChannel, KeepMarker, KeepState, KeepFails, KeepUnchanged, disk, host, cache, locks, locals, points, history
<1>2. settings'.state \in {settings.state, state}
  <2>1. settings \in Settings
    BY DEF AnswerInv, CheckInv, TypeOK
  <2>2. QED
    BY <2>1 DEF WriteChannel, SwitchState, ClearMarker, EndSwitch, PersistAndPublish, KeepChannel, KeepMarker,
                KeepState, KeepFails, Settings
<1>3. \A u \in Task : AttemptIsAlone(u)'
  <2>1. /\ pc'[t] \notin Attempting
        /\ \A u \in Task : u # t => pc'[u] = pc[u] /\ now'[u] = now[u] /\ result'[u] = result[u]
    BY DEF WriteChannel, SwitchState, EndSwitch, KeepChannel, KeepMarker, KeepState, KeepFails, Raises, Returns,
           GoesTo, locals, Attempting, AnswerInv, CheckInv, TypeOK
  <2>2. QED
    BY <1>1, <2>1, AttemptsKept
<1>4. StateAnswered'
  <2>1. CASE UNCHANGED state
    BY <1>1, <2>1 DEF AnswerInv, Attributed, StateAnswered
  <2>2. CASE state' = Switched(state, wanted[t])
    <3> DEFINE fresh == [Fresh(wanted[t], installed) EXCEPT !.checkAt = state.checkAt]
               told == IF fetchedAt = 0 THEN fresh ELSE Evaluated(fresh, releases, fetchedAt)
    <3>1. CASE wanted[t] \in Channel
      <4>1. installed \in Version /\ state \in State /\ CacheFilled /\ CacheOfAttempt
        BY DEF AnswerInv, CheckInv, TypeOK, Attributed
      <4>2. fresh \in State /\ fresh.version = installed /\ Answered(fresh, got)
        <5>1. Fresh(wanted[t], installed) \in State
          BY <3>1, <4>1, FreshType
        <5>2. fresh \in State
          BY <4>1, <5>1 DEF State
        <5> DEFINE base == Fresh(wanted[t], installed)
        <5>3. Answered(base, got) /\ base.version = installed
          BY FreshAnswered
        <5>4. fresh = [base EXCEPT !.checkAt = state.checkAt] /\ base \in State
          BY <5>1
        <5> HIDE DEF base, fresh
        <5>5. QED
          BY ONLY <5>2, <5>3, <5>4, AnsweredOfRest
      <4> HIDE DEF fresh
      <4>3. fetchedAt # 0 => Evaluated(fresh, releases, fetchedAt) \in State
        BY <4>1, <4>2, EvaluatedType DEF CacheFilled, CacheOfAttempt
      <4>4. fetchedAt # 0 => /\ Answered(Evaluated(fresh, releases, fetchedAt), got)
                            /\ Evaluated(fresh, releases, fetchedAt).version = installed
        BY <4>1, <4>2, EvaluatedAnswered DEF CacheFilled, CacheOfAttempt
      <4>5. told \in State /\ told.version = installed /\ Answered(told, got)
        BY <4>2, <4>3, <4>4
      <4>6. state' = [told EXCEPT !.failed = state.failed]
        BY <2>2 DEF Switched, fresh
      <4> HIDE DEF told
      <4>7. QED
        BY <1>1, <4>5, <4>6, AnsweredOfRest DEF StateAnswered
    <3>2. CASE wanted[t] \notin Channel
      <4>1. pc[t] \notin Switching
        BY <3>2 DEF AnswerInv, CheckInv, TaskInv, SwitchKnowsChannel
      <4>2. UNCHANGED state
        BY <4>1 DEF WriteChannel, SwitchState, EndSwitch, KeepChannel, KeepMarker, KeepState, KeepFails,
                    KeepUnchanged, Switching
      <4>3. QED
        BY <2>1, <4>2
    <3>3. QED
      BY <3>1, <3>2
  <2>3. QED
    BY <2>1, <2>2 DEF WriteChannel, SwitchState, EndSwitch, KeepChannel, KeepMarker, KeepState, KeepFails, KeepUnchanged
<1>5. SavedAnswered' /\ CacheOfAttempt'
  BY <1>1, <1>2, SavingAttributed DEF AnswerInv, Attributed, CacheOfAttempt
<1>6. QED
  BY <1>3, <1>4, <1>5 DEF Attributed

LEMMA NextAnswerInv == AnswerInv /\ [Next]_vars => AnswerInv'
<1> SUFFICES ASSUME AnswerInv, [Next]_vars PROVE AnswerInv'
  OBVIOUS
<1>1. CheckInv'
  BY NextCheckInv DEF AnswerInv
<1>2. ASSUME Load PROVE Attributed'
  BY <1>2, LoadAttributed
<1>3. ASSUME NEW t \in Task,
             \/ Check(t) \/ CheckNow(t) \/ \E c \in Channel : SetChannel(t, c)
             \/ RestoreDatabase(t)
      PROVE  Attributed'
  BY <1>3, CallAttributed
<1>4. ASSUME NEW t \in Task, Progress(t) PROVE Attributed'
  BY <1>4, AskAttributed, FetchEndsAttributed, TakeOverAttributed, EndCheckAttributed, SectionAttributed DEF Progress
<1>5. ASSUME CoolDownEnds \/ Backup \/ \E list \in List : News(list)
      PROVE  Attributed'
  BY <1>5, OutsideAttributed
<1>6. ASSUME NEW v \in Version, Restart(v) PROVE Attributed'
  BY <1>6, RestartAttributed
<1>7. ASSUME UNCHANGED vars PROVE Attributed'
  BY <1>7 DEF vars, AnswerInv, Attributed, StateAnswered, SavedAnswered, CacheOfAttempt, AttemptIsAlone, disk, host, cache, locks, locals, points, history
<1>8. Attributed'
  BY <1>2, <1>3, <1>4, <1>5, <1>6, <1>7 DEF Next
<1>9. QED
  BY <1>1, <1>8 DEF AnswerInv

(* The status always answers the question it is shown for, whatever is     *)
(* switched, restarted, updated or restored while a request is under way.  *)
THEOREM StatusIsCurrent == Spec => []StatusAnswersQuestion
<1>1. Init => AnswerInv
  BY InitCheckInv, InitAttributed DEF AnswerInv
<1>2. AnswerInv => StatusAnswersQuestion
  BY DEF AnswerInv, Attributed, StateAnswered, Answered, StatusAnswersQuestion
<1>3. QED
  BY <1>1, <1>2, NextAnswerInv, PTL DEF Spec

-----------------------------------------------------------------------------
(* What the administrator is told: the data points, the error, the channel *)
(* chosen, and an answer to every switch.                                  *)

(* Whoever is inside a section holds the lock, and is in the call the      *)
(* section belongs to.                                                     *)
Keeping == {"restored", "keep_marker", "keep_state"}
Section(t) ==
    /\ pc[t] \in Locking => lock = t
    /\ pc[t] \in Switching => op[t] = "set_channel"
    /\ pc[t] \in Keeping => op[t] = "restore"

(* Nobody has asked, or restored, before load() is done; whoever has asked *)
(* since has left an answer from the cache, or an error.                   *)
Untried == boot # "up" => attempt = "never" /\ outcome = "none" /\ unkept = {}
Tried == state.failed \/ (fetchedAt # 0 /\ state.successAt # 0)
AttemptTold == attempt # "never" /\ checkLock = NoTask => Tried
TakenTold(t) == pc[t] = "taken" => Tried

(* What was sent is what is shown, and differs from the state only inside  *)
(* a section that is going to publish it.                                  *)
ShownIsSent == boot = "up" /\ unkept = {} => shown = sent
SentIsState == boot = "up" /\ (\A t \in Task : pc[t] \notin {"taken", "switched"}) => sent = View(state)

(* The channel chosen last is in force, and is on disk without a marker    *)
(* unless a restore or a switch is under way.                              *)
ChosenInForce ==
    chosen # None =>
        /\ boot # "marker"
        /\ boot = "state" => ~derived
        /\ boot = "up" => state.channel = chosen /\ ~derived
ChosenOnDisk ==
    chosen # None /\ unkept = {} /\ (\A t \in Task : pc[t] # "switch_marker") =>
        settings.channel = chosen /\ settings.marker = None

(* What the sections have written so far, unless another restore has       *)
(* brought the backup back.                                                *)
SwitchWritten(t) == pc[t] = "switch_marker" => ~derived /\ (unkept = {} => settings.channel = wanted[t])
KeptChannel(t) ==
    unkept \subseteq {t} /\ pc[t] \in {"keep_marker", "keep_state"} => settings.channel = state.channel
KeptMarker(t) ==
    unkept \subseteq {t} /\ pc[t] = "keep_state" => settings.marker = IF derived THEN installed ELSE None

TaskTold(t) == Section(t) /\ TakenTold(t) /\ SwitchWritten(t) /\ KeptChannel(t) /\ KeptMarker(t)

Told ==
    /\ Untried /\ ErrorIsOfLastAttempt /\ AttemptTold
    /\ ShownIsSent /\ SentIsState
    /\ ChosenInForce /\ ChosenOnDisk
    /\ \A t \in Task : TaskTold(t)

ToldInv == AnswerInv /\ Told

-----------------------------------------------------------------------------
(* Sections.                                                               *)

LEMMA SectionsAfter ==
    ASSUME ToldInv, NEW t \in Task,
           \A u \in Task : u # t => pc'[u] = pc[u] /\ op'[u] = op[u],
           lock' = lock \/ lock \in {NoTask, t},
           pc'[t] \in Locking => lock' = t,
           pc'[t] \in Switching => op'[t] = "set_channel",
           pc'[t] \in Keeping => op'[t] = "restore"
    PROVE  \A u \in Task : Section(u)'
BY NoneAssumption DEF ToldInv, Told, TaskTold, Section

LEMMA ProgressSections ==
    ASSUME ToldInv, NEW t \in Task, Progress(t)
    PROVE  \A u \in Task : Section(u)'
<1> USE DEF GoesTo, Returns, Raises, Locking, Switching, Keeping, locks, locals
<1>1. /\ pc \in [Task -> Place] /\ op \in [Task -> {"check", "check_now", "set_channel", "restore", "raised"}]
      /\ lock \in Task \cup {NoTask} /\ NoTask \notin Task
  BY NoneAssumption DEF ToldInv, AnswerInv, CheckInv, TypeOK
<1>2. Section(t)
  BY DEF ToldInv, Told, TaskTold
<1>3. \A u \in Task : u # t => pc'[u] = pc[u] /\ op'[u] = op[u]
  BY <1>1 DEF Progress, Ask, FetchEnds, TakeOver, EndCheck, WriteChannel, SwitchState, EndSwitch,
              KeepChannel, KeepMarker, KeepState, KeepFails
<1>4. lock' = lock \/ lock \in {NoTask, t}
  BY <1>2 DEF Section, Progress, Ask, FetchEnds, TakeOver, EndCheck, WriteChannel, SwitchState, EndSwitch,
                   ReleasesLock, KeepChannel, KeepMarker, KeepState, KeepFails
<1>5. /\ pc'[t] \in Locking => lock' = t
      /\ pc'[t] \in Switching => op'[t] = "set_channel"
      /\ pc'[t] \in Keeping => op'[t] = "restore"
  BY <1>1, <1>2 DEF Section, Progress, Ask, FetchEnds, TakeOver, EndCheck, WriteChannel, SwitchState, EndSwitch,
                   ReleasesLock, KeepChannel, KeepMarker, KeepState, KeepFails
<1>6. QED
  BY <1>3, <1>4, <1>5, SectionsAfter

(* Whoever enters a section is alone in it, and nobody's steps disturb     *)
(* one that another task is in.                                            *)
LEMMA AloneInSection ==
    ASSUME ToldInv, NEW t \in Task, NEW u \in Task, u # t,
           lock = NoTask \/ pc[t] \in Locking
    PROVE  pc[u] \notin Locking
BY NoneAssumption DEF ToldInv, Told, TaskTold, Section

-----------------------------------------------------------------------------
(* Errors and answers.                                                     *)

(* A switch keeps the error and answers from the cache, if there is one.   *)
LEMMA SwitchedSays ==
    ASSUME NEW s \in State, NEW c \in Channel, installed \in Version, CacheFilled, fetchedAt \in Nat
    PROVE  /\ Switched(s, c).failed = s.failed /\ Switched(s, c).channel = c
           /\ fetchedAt # 0 => Switched(s, c).successAt = fetchedAt
<1> DEFINE fresh == [Fresh(c, installed) EXCEPT !.checkAt = s.checkAt]
           told == IF fetchedAt = 0 THEN fresh ELSE Evaluated(fresh, releases, fetchedAt)
<1>1. fresh \in State /\ fresh.channel = c
  <2>1. Fresh(c, installed) \in State /\ Fresh(c, installed).channel = c
    BY FreshType DEF Fresh
  <2>2. QED
    BY <2>1 DEF State
<1>2. fetchedAt # 0 =>
        /\ Evaluated(fresh, releases, fetchedAt) \in State
        /\ Evaluated(fresh, releases, fetchedAt).channel = c
        /\ Evaluated(fresh, releases, fetchedAt).successAt = fetchedAt
  <2> HIDE DEF fresh
  <2>1. fetchedAt # 0 => Evaluated(fresh, releases, fetchedAt) \in State
    BY <1>1, EvaluatedType DEF CacheFilled
  <2>2. QED
    BY <1>1, <2>1 DEF Evaluated, State
<1>3. told \in State /\ told.channel = c /\ (fetchedAt # 0 => told.successAt = fetchedAt)
  <2> HIDE DEF fresh
  <2>1. QED
    BY <1>1, <1>2
<1>4. Switched(s, c) = [told EXCEPT !.failed = s.failed]
  BY DEF Switched
<1> HIDE DEF told
<1>5. s.failed \in BOOLEAN
  BY DEF State
<1>6. QED
  BY <1>3, <1>4, <1>5 DEF State

(* What a step that is no check does to the error and the answer.          *)
LEMMA AttemptsAfter ==
    ASSUME ToldInv, NEW t \in Task,
           boot' = "up", outcome' = outcome, state'.failed = state.failed,
           Tried => Tried',
           attempt' = attempt \/ checkLock' # NoTask,
           checkLock' = checkLock \/ checkLock' # NoTask,
           \A u \in Task : u # t => pc'[u] = pc[u],
           pc'[t] # "taken"
    PROVE  /\ Untried' /\ ErrorIsOfLastAttempt' /\ AttemptTold' /\ \A u \in Task : TakenTold(u)'
BY DEF ToldInv, Told, TaskTold, Untried, ErrorIsOfLastAttempt, AttemptTold, TakenTold

AttemptsTold == Untried /\ ErrorIsOfLastAttempt /\ AttemptTold /\ \A t \in Task : TakenTold(t)

LEMMA ProgressAttempts ==
    ASSUME ToldInv, NEW t \in Task, Progress(t)
    PROVE  AttemptsTold'
<1> USE DEF GoesTo, Returns, Raises, locks, locals, cache, history
<1>1. /\ pc \in [Task -> Place] /\ state \in State /\ now \in [Task -> Nat] /\ now[t] \in Nat
      /\ installed \in Version /\ fetchedAt \in Nat /\ result[t] \in List \cup {None}
      /\ NoTask \notin Task /\ CacheFilled
  BY NoneAssumption DEF ToldInv, AnswerInv, CheckInv, TypeOK
<1>2. boot = "up" /\ boot' = "up"
  <2>1. pc[t] # "idle"
    BY DEF Progress, Ask, FetchEnds, TakeOver, EndCheck, WriteChannel, SwitchState, EndSwitch,
           KeepChannel, KeepMarker, KeepState, KeepFails
  <2>2. boot = "up"
    BY <2>1, InCallIsUp DEF ToldInv, AnswerInv
  <2>3. QED
    BY <2>2 DEF Progress, Ask, FetchEnds, TakeOver, EndCheck, WriteChannel, SwitchState, EndSwitch,
           KeepChannel, KeepMarker, KeepState, KeepFails, KeepUnchanged
<1>3. \A u \in Task : u # t => pc'[u] = pc[u]
  BY <1>1 DEF Progress, Ask, FetchEnds, TakeOver, EndCheck, WriteChannel, SwitchState, EndSwitch,
              KeepChannel, KeepMarker, KeepState, KeepFails
<1>4. CASE TakeOver(t)
  <2> DEFINE checked == [state EXCEPT !.checkAt = now[t]]
  <2>1. checked \in State
    BY <1>1 DEF State
  <2>2. /\ outcome' = IF result[t] = None THEN "failed" ELSE "ok"
        /\ state'.failed <=> result[t] = None
        /\ Tried'
    <3>1. CASE result[t] = None
      <4>1. state' = [checked EXCEPT !.failed = TRUE] /\ outcome' = "failed"
        BY <1>4, <3>1 DEF TakeOver
      <4> HIDE DEF checked
      <4>2. QED
        BY <2>1, <3>1, <4>1 DEF State, Tried
    <3>2. CASE result[t] # None
      <4>1. state' = Evaluated(checked, result[t], now[t]) /\ fetchedAt' = now[t] /\ outcome' = "ok"
        BY <1>4, <3>2 DEF TakeOver
      <4>2. now[t] # 0
        BY <1>4, <3>2 DEF TakeOver, ToldInv, AnswerInv, Attributed, AttemptIsAlone
      <4> HIDE DEF checked
      <4>3. QED
        BY <1>1, <2>1, <3>2, <4>1, <4>2 DEF State, Tried, Evaluated
    <3>3. QED
      BY <3>1, <3>2
  <2>3. QED
    BY <1>2, <2>2 DEF AttemptsTold, Untried, ErrorIsOfLastAttempt, AttemptTold, TakenTold
<1>5. CASE EndCheck(t)
  <2>1. Tried
    BY <1>5 DEF EndCheck, ToldInv, Told, TaskTold, TakenTold
  <2>2. Tried' /\ outcome' = outcome /\ state' = state
    BY <1>5, <2>1 DEF EndCheck, Tried
  <2>3. QED
    BY <1>2, <2>2 DEF AttemptsTold, Untried, ErrorIsOfLastAttempt, AttemptTold, TakenTold, ToldInv, Told
<1>6. CASE \E ok \in BOOLEAN : SwitchState(t, ok)
  <2>1. wanted[t] \in Channel
    BY <1>6 DEF SwitchState, ToldInv, AnswerInv, CheckInv, TaskInv, SwitchKnowsChannel, Switching
  <2>2. state' = state \/ state' = Switched(state, wanted[t])
    BY <1>6 DEF SwitchState
  <2>3. state'.failed = state.failed /\ (Tried => Tried')
    BY <1>1, <1>6, <2>1, <2>2, SwitchedSays DEF SwitchState, Tried
  <2>4. outcome' = outcome /\ attempt' = attempt /\ checkLock' = checkLock /\ pc'[t] # "taken"
    BY <1>1, <1>6 DEF SwitchState
  <2>5. QED
    BY <1>2, <1>3, <2>3, <2>4, AttemptsAfter DEF AttemptsTold
<1>7. ASSUME \/ Ask(t)
             \/ \E ok \in BOOLEAN : FetchEnds(t, ok) \/ WriteChannel(t, ok)
             \/ EndSwitch(t) \/ KeepChannel(t) \/ KeepMarker(t) \/ KeepState(t) \/ KeepFails(t)
      PROVE  AttemptsTold'
  <2>1. state' = state /\ fetchedAt' = fetchedAt /\ outcome' = outcome
    BY <1>7 DEF Ask, FetchEnds, WriteChannel, EndSwitch, KeepChannel, KeepMarker, KeepState, KeepFails, KeepUnchanged
  <2>2. (attempt' = attempt /\ checkLock' = checkLock) \/ checkLock' # NoTask
    BY <1>1, <1>7 DEF Ask, FetchEnds, WriteChannel, EndSwitch, KeepChannel, KeepMarker, KeepState, KeepFails, KeepUnchanged
  <2>3. pc'[t] # "taken"
    BY <1>1, <1>7 DEF Ask, FetchEnds, WriteChannel, EndSwitch, KeepChannel, KeepMarker, KeepState, KeepFails
  <2>4. QED
    BY <1>2, <1>3, <2>1, <2>2, <2>3, AttemptsAfter DEF AttemptsTold, Tried
<1>8. QED
  BY <1>4, <1>5, <1>6, <1>7 DEF Progress

-----------------------------------------------------------------------------
(* The data points.                                                        *)

PointsTold == ShownIsSent /\ SentIsState

(* Sending what differs from what was sent shows all of it, if what was    *)
(* sent was shown.                                                         *)
LEMMA PublishingShows ==
    ASSUME ToldInv, PersistAndPublish, shown = sent
    PROVE  shown' = sent'
<1>1. shown \in Points /\ sent \in Points /\ View(state) \in Points
  BY ViewType DEF ToldInv, AnswerInv, CheckInv, TypeOK
<1>2. \A p \in DOMAIN shown : shown'[p] = View(state)[p]
  BY DEF PersistAndPublish
<1>3. shown' \in Points
  BY PersistType DEF ToldInv, AnswerInv
<1>4. shown'.channel = View(state).channel /\ shown'.answer = View(state).answer
      /\ shown'.checkAt = View(state).checkAt
  BY <1>1, <1>2 DEF Points
<1>5. shown' = View(state)
  BY <1>1, <1>3, <1>4 DEF Points
<1>6. QED
  BY <1>5 DEF PersistAndPublish

LEMMA ProgressPoints ==
    ASSUME ToldInv, NEW t \in Task, Progress(t)
    PROVE  PointsTold'
<1> USE DEF GoesTo, Returns, Raises, locals, points, history
<1>1. pc \in [Task -> Place] /\ boot = "up"
  <2>1. pc[t] # "idle"
    BY DEF Progress, Ask, FetchEnds, TakeOver, EndCheck, WriteChannel, SwitchState, EndSwitch,
           KeepChannel, KeepMarker, KeepState, KeepFails
  <2>2. QED
    BY <2>1, InCallIsUp DEF ToldInv, AnswerInv, CheckInv, TypeOK
<1>2. CASE EndCheck(t) \/ EndSwitch(t)
  <2>1. PersistAndPublish /\ state' = state /\ unkept' = unkept
    BY <1>2 DEF EndCheck, EndSwitch
  <2>2. unkept = {} => shown' = sent'
    BY <1>1, <2>1, PublishingShows DEF ToldInv, Told, ShownIsSent
  <2>3. sent' = View(state')
    BY <2>1 DEF PersistAndPublish
  <2>4. QED
    BY <2>1, <2>2, <2>3 DEF PointsTold, ShownIsSent, SentIsState
<1>3. CASE KeepState(t)
  BY <1>3 DEF KeepState, PublishedAgain, KeepUnchanged, PointsTold, ShownIsSent, SentIsState
<1>4. CASE TakeOver(t) \/ \E ok \in BOOLEAN : SwitchState(t, ok)
  <2>1. UNCHANGED <<sent, shown, unkept, boot>>
    BY <1>4 DEF TakeOver, SwitchState
  <2>2. pc'[t] \in {"taken", "switched"} \/ (state' = state /\ pc[t] \notin {"taken", "switched"})
    BY <1>1, <1>4 DEF TakeOver, SwitchState
  <2>3. \A u \in Task : u # t => pc'[u] = pc[u]
    BY <1>1, <1>4 DEF TakeOver, SwitchState
  <2>4. ShownIsSent'
    BY <2>1 DEF ToldInv, Told, ShownIsSent
  <2>5. SentIsState'
    BY <2>1, <2>2, <2>3 DEF ToldInv, Told, SentIsState
  <2>6. QED
    BY <2>4, <2>5 DEF PointsTold
<1>5. ASSUME \/ Ask(t)
             \/ \E ok \in BOOLEAN : FetchEnds(t, ok) \/ WriteChannel(t, ok)
             \/ KeepChannel(t) \/ KeepMarker(t) \/ KeepFails(t)
      PROVE  PointsTold'
  <2>1. UNCHANGED <<sent, shown, unkept, boot, state>>
    BY <1>5 DEF Ask, FetchEnds, WriteChannel, KeepChannel, KeepMarker, KeepFails, KeepUnchanged
  <2>2. pc[t] \notin {"taken", "switched"} /\ \A u \in Task : u # t => pc'[u] = pc[u]
    BY <1>1, <1>5 DEF Ask, FetchEnds, WriteChannel, KeepChannel, KeepMarker, KeepFails
  <2>3. QED
    BY <2>1, <2>2 DEF ToldInv, Told, PointsTold, ShownIsSent, SentIsState
<1>6. QED
  BY <1>2, <1>3, <1>4, <1>5 DEF Progress

-----------------------------------------------------------------------------
(* The choice.                                                             *)

ChoiceTold ==
    /\ ChosenInForce /\ ChosenOnDisk
    /\ \A t \in Task : SwitchWritten(t) /\ KeptChannel(t) /\ KeptMarker(t)

(* Steps outside the sections that leave disk and state alone.             *)
LEMMA ChoiceAfter ==
    ASSUME ToldInv, NEW t \in Task,
           UNCHANGED <<boot, chosen, derived, settings, unkept, installed>>,
           state'.channel = state.channel,
           pc[t] # "switch_marker", pc'[t] \notin {"switch_marker", "keep_marker", "keep_state"},
           \A u \in Task : u # t => pc'[u] = pc[u] /\ wanted'[u] = wanted[u]
    PROVE  ChoiceTold'
<1>1. ChosenInForce'
  BY DEF ToldInv, Told, ChosenInForce
<1>2. ChosenOnDisk'
  BY DEF ToldInv, Told, ChosenOnDisk
<1>3. \A u \in Task : SwitchWritten(u)' /\ KeptChannel(u)' /\ KeptMarker(u)'
  BY DEF ToldInv, Told, TaskTold, SwitchWritten, KeptChannel, KeptMarker
<1>4. QED
  BY <1>1, <1>2, <1>3 DEF ChoiceTold

LEMMA ProgressChoice ==
    ASSUME ToldInv, NEW t \in Task, Progress(t)
    PROVE  ChoiceTold'
<1> USE DEF GoesTo, Returns, Raises, locals, history
<1>1. /\ pc \in [Task -> Place] /\ wanted \in [Task -> Channel \cup {None}] /\ boot = "up"
      /\ settings \in Settings /\ state \in State /\ now[t] \in Nat
  <2>1. pc[t] # "idle"
    BY DEF Progress, Ask, FetchEnds, TakeOver, EndCheck, WriteChannel, SwitchState, EndSwitch,
           KeepChannel, KeepMarker, KeepState, KeepFails
  <2>2. QED
    BY <2>1, InCallIsUp DEF ToldInv, AnswerInv, CheckInv, TypeOK
<1>2. \A u \in Task : u # t => pc'[u] = pc[u] /\ wanted'[u] = wanted[u]
  BY <1>1 DEF Progress, Ask, FetchEnds, TakeOver, EndCheck, WriteChannel, SwitchState, EndSwitch,
              KeepChannel, KeepMarker, KeepState, KeepFails
<1>3. CASE TakeOver(t)
  <2> DEFINE checked == [state EXCEPT !.checkAt = now[t]]
  <2>1. UNCHANGED <<boot, chosen, derived, settings, unkept, installed>>
    BY <1>3 DEF TakeOver, disk, host
  <2>2. state'.channel = state.channel
    <3>1. checked \in State /\ checked.channel = state.channel
      BY <1>1 DEF State
    <3>2. state' = [checked EXCEPT !.failed = TRUE] \/ state' = Evaluated(checked, result[t], now[t])
      BY <1>3 DEF TakeOver
    <3> HIDE DEF checked
    <3>3. QED
      BY <3>1, <3>2 DEF State, Evaluated
  <2>3. pc[t] = "take_lock" /\ pc'[t] = "taken"
    BY <1>1, <1>3 DEF TakeOver
  <2>4. QED
    BY <1>2, <2>1, <2>2, <2>3, ChoiceAfter
<1>4. ASSUME Ask(t) \/ \E ok \in BOOLEAN : FetchEnds(t, ok)
      PROVE  ChoiceTold'
  <2>1. UNCHANGED <<boot, chosen, derived, settings, unkept, installed, state>>
    BY <1>4 DEF Ask, FetchEnds, disk, host
  <2>2. pc[t] # "switch_marker" /\ pc'[t] \notin {"switch_marker", "keep_marker", "keep_state"}
    BY <1>1, <1>4 DEF Ask, FetchEnds
  <2>3. QED
    BY <1>2, <2>1, <2>2, ChoiceAfter
<1>5. ASSUME EndCheck(t) \/ EndSwitch(t) \/ KeepFails(t)
      PROVE  ChoiceTold'
  <2>1. UNCHANGED <<boot, chosen, derived, unkept, installed, state>>
    BY <1>5 DEF EndCheck, EndSwitch, KeepFails, KeepUnchanged, host
  <2>2. settings'.channel = settings.channel /\ settings'.marker = settings.marker
    BY <1>1, <1>5 DEF EndCheck, EndSwitch, KeepFails, PersistAndPublish, Settings
  <2>3. pc[t] # "switch_marker" /\ pc'[t] \notin {"switch_marker", "keep_marker", "keep_state"}
    BY <1>1, <1>5 DEF EndCheck, EndSwitch, KeepFails
  <2>4. ChosenInForce' /\ ChosenOnDisk'
    BY <1>2, <2>1, <2>2, <2>3 DEF ToldInv, Told, ChosenInForce, ChosenOnDisk
  <2>5. \A u \in Task : SwitchWritten(u)' /\ KeptChannel(u)' /\ KeptMarker(u)'
    BY <1>2, <2>1, <2>2, <2>3 DEF ToldInv, Told, TaskTold, SwitchWritten, KeptChannel, KeptMarker
  <2>6. QED
    BY <2>4, <2>5 DEF ChoiceTold
<1>6. ASSUME NEW ok \in BOOLEAN, WriteChannel(t, ok)
      PROVE  ChoiceTold'
  <2>1. UNCHANGED <<boot, chosen, unkept, installed, state>> /\ lock = NoTask /\ pc[t] = "switch_lock"
    BY <1>6 DEF WriteChannel, host
  <2>2. CASE ok
    <3>1. /\ settings' = [settings EXCEPT !.channel = wanted[t]] /\ ~derived' /\ wanted' = wanted
          /\ pc'[t] = "switch_marker"
      BY <1>1, <1>6, <2>2 DEF WriteChannel
    <3>2. settings'.channel = wanted'[t]
      BY <1>1, <3>1 DEF Settings
    <3>3. ChosenInForce' /\ ChosenOnDisk'
      BY <1>1, <2>1, <3>1 DEF ToldInv, Told, ChosenInForce, ChosenOnDisk
    <3>4. \A u \in Task : u # t => pc'[u] \notin {"switch_marker", "keep_marker", "keep_state"}
      BY <1>2, <2>1, AloneInSection DEF Locking
    <3>5. \A u \in Task : SwitchWritten(u)' /\ KeptChannel(u)' /\ KeptMarker(u)'
      BY <3>1, <3>2, <3>4 DEF SwitchWritten, KeptChannel, KeptMarker
    <3>6. QED
      BY <3>3, <3>5 DEF ChoiceTold
  <2>3. CASE ~ok
    <3>1. UNCHANGED <<settings, derived>> /\ pc'[t] = "idle"
      BY <1>1, <1>6, <2>3 DEF WriteChannel
    <3>2. QED
      BY <1>2, <2>1, <3>1, ChoiceAfter
  <2>4. QED
    BY <2>2, <2>3
<1>7. ASSUME NEW ok \in BOOLEAN, SwitchState(t, ok)
      PROVE  ChoiceTold'
  <2>1. UNCHANGED <<boot, derived, unkept, installed>> /\ pc[t] = "switch_marker" /\ wanted[t] \in Channel
    BY <1>7 DEF SwitchState, host, ToldInv, AnswerInv, CheckInv, TaskInv, SwitchKnowsChannel, Switching
  <2>2. \A u \in Task : u # t => pc'[u] \notin {"switch_marker", "keep_marker", "keep_state"}
    BY <1>2, <2>1, AloneInSection DEF Locking
  <2>3. pc'[t] \in {"switched", "idle"}
    BY <1>1, <1>7 DEF SwitchState
  <2>4. \A u \in Task : SwitchWritten(u)' /\ KeptChannel(u)' /\ KeptMarker(u)'
    BY <2>2, <2>3 DEF SwitchWritten, KeptChannel, KeptMarker
  <2>5. CASE ok
    <3>1. /\ settings' = [settings EXCEPT !.marker = None] /\ chosen' = wanted[t]
          /\ (state' = state /\ wanted[t] = state.channel) \/ state' = Switched(state, wanted[t])
      BY <1>7, <2>5 DEF SwitchState, ClearMarker
    <3>2. state'.channel = wanted[t]
      BY <1>1, <2>1, <3>1, SwitchedSays DEF ToldInv, AnswerInv, CheckInv, TypeOK
    <3>3. settings'.marker = None /\ settings'.channel = settings.channel
      BY <1>1, <3>1 DEF Settings
    <3>4. SwitchWritten(t)
      BY DEF ToldInv, Told, TaskTold
    <3>5. ChosenInForce' /\ ChosenOnDisk'
      BY <1>1, <2>1, <3>1, <3>2, <3>3, <3>4 DEF ChosenInForce, ChosenOnDisk, SwitchWritten
    <3>6. QED
      BY <2>4, <3>5 DEF ChoiceTold
  <2>6. CASE ~ok
    <3>1. chosen' = None
      BY <1>7, <2>6 DEF SwitchState
    <3>2. QED
      BY <2>4, <3>1 DEF ChoiceTold, ChosenInForce, ChosenOnDisk
  <2>7. QED
    BY <2>5, <2>6
<1>8. CASE KeepChannel(t)
  <2>1. /\ UNCHANGED <<boot, chosen, derived, unkept, installed, state>> /\ lock = NoTask
        /\ pc[t] = "restored" /\ pc'[t] = "keep_marker"
        /\ settings' = [settings EXCEPT !.channel = state.channel]
    BY <1>1, <1>8 DEF KeepChannel, KeepUnchanged, host
  <2>2. settings'.channel = state'.channel /\ settings'.marker = settings.marker
    BY <1>1, <2>1 DEF Settings
  <2>3. ChosenInForce'
    BY <2>1 DEF ToldInv, Told, ChosenInForce
  <2>4. ChosenOnDisk'
    BY <1>1, <1>2, <2>1, <2>2 DEF ToldInv, Told, ChosenInForce, ChosenOnDisk
  <2>5. \A u \in Task : u # t => pc'[u] \notin {"switch_marker", "keep_marker", "keep_state"}
    BY <1>2, <2>1, AloneInSection DEF Locking
  <2>6. \A u \in Task : SwitchWritten(u)' /\ KeptChannel(u)' /\ KeptMarker(u)'
    BY <2>1, <2>2, <2>5 DEF SwitchWritten, KeptChannel, KeptMarker
  <2>7. QED
    BY <2>3, <2>4, <2>6 DEF ChoiceTold
<1>9. CASE KeepMarker(t)
  <2>1. /\ UNCHANGED <<boot, chosen, derived, unkept, installed, state>>
        /\ pc[t] = "keep_marker" /\ pc'[t] = "keep_state"
        /\ settings' = [settings EXCEPT !.marker = IF derived THEN installed ELSE None]
    BY <1>1, <1>9 DEF KeepMarker, KeepUnchanged, host
  <2>2. settings'.channel = settings.channel /\ settings'.marker = IF derived THEN installed ELSE None
    BY <1>1, <2>1 DEF Settings
  <2>3. ChosenInForce'
    BY <2>1 DEF ToldInv, Told, ChosenInForce
  <2>4. ChosenOnDisk'
    BY <1>1, <1>2, <2>1, <2>2 DEF ToldInv, Told, ChosenInForce, ChosenOnDisk
  <2>5. \A u \in Task : u # t => pc'[u] \notin {"switch_marker", "keep_marker", "keep_state"}
    BY <1>2, <2>1, AloneInSection DEF Locking
  <2>6. KeptChannel(t)
    BY DEF ToldInv, Told, TaskTold
  <2>7. \A u \in Task : SwitchWritten(u)' /\ KeptChannel(u)' /\ KeptMarker(u)'
    BY <2>1, <2>2, <2>5, <2>6 DEF SwitchWritten, KeptChannel, KeptMarker
  <2>8. QED
    BY <2>3, <2>4, <2>7 DEF ChoiceTold
<1>10. CASE KeepState(t)
  <2>1. /\ UNCHANGED <<boot, chosen, derived, installed, state>>
        /\ pc[t] = "keep_state" /\ pc'[t] = "idle" /\ unkept' = unkept \ {t}
        /\ settings' = [settings EXCEPT !.state = state]
    BY <1>1, <1>10 DEF KeepState, KeepUnchanged, host
  <2>2. settings'.channel = settings.channel /\ settings'.marker = settings.marker
    BY <1>1, <2>1 DEF Settings
  <2>3. ChosenInForce'
    BY <2>1 DEF ToldInv, Told, ChosenInForce
  <2>4. KeptChannel(t) /\ KeptMarker(t)
    BY DEF ToldInv, Told, TaskTold
  <2>5. ChosenOnDisk'
    <3>1. ASSUME chosen' # None, unkept' = {}
          PROVE  settings'.channel = chosen' /\ settings'.marker = None
      <4>1. unkept \subseteq {t}
        BY <2>1, <3>1
      <4>2. state.channel = chosen /\ ~derived
        BY <1>1, <2>1, <3>1 DEF ToldInv, Told, ChosenInForce
      <4>3. QED
        BY <2>1, <2>2, <2>4, <4>1, <4>2 DEF KeptChannel, KeptMarker
    <3>2. QED
      BY <3>1 DEF ChosenOnDisk
  <2>6. \A u \in Task : u # t => pc'[u] \notin {"switch_marker", "keep_marker", "keep_state"}
    BY <1>2, <2>1, AloneInSection DEF Locking
  <2>7. \A u \in Task : SwitchWritten(u)' /\ KeptChannel(u)' /\ KeptMarker(u)'
    BY <2>1, <2>6 DEF SwitchWritten, KeptChannel, KeptMarker
  <2>8. QED
    BY <2>3, <2>5, <2>7 DEF ChoiceTold
<1>11. QED
  BY <1>3, <1>4, <1>5, <1>6, <1>7, <1>8, <1>9, <1>10 DEF Progress

-----------------------------------------------------------------------------
(* All steps.                                                              *)

LEMMA ToldOfGroups ==
    /\ Told <=> AttemptsTold /\ PointsTold /\ ChoiceTold /\ \A t \in Task : Section(t)
    /\ Told' <=> AttemptsTold' /\ PointsTold' /\ ChoiceTold' /\ \A t \in Task : Section(t)'
BY DEF Told, TaskTold, AttemptsTold, PointsTold, ChoiceTold

LEMMA InitTold == Init => Told
BY NoneAssumption
   DEF Init, NoSettings, Told, TaskTold, Section, Untried, ErrorIsOfLastAttempt, AttemptTold, TakenTold, ShownIsSent,
       SentIsState, ChosenInForce, ChosenOnDisk, SwitchWritten, KeptChannel, KeptMarker, Locking, Switching, Keeping

(* After a crash only what is on disk counts.                              *)
LEMMA RestartTold ==
    ASSUME ToldInv, NEW v \in Version, Restart(v)
    PROVE  Told'
<1>1. \A t \in Task : pc'[t] = "idle"
  BY DEF Restart
<1>2. \A t \in Task : TaskTold(t)'
  BY <1>1 DEF TaskTold, Section, TakenTold, SwitchWritten, KeptChannel, KeptMarker, Locking, Switching, Keeping
<1>3. Untried' /\ ErrorIsOfLastAttempt' /\ AttemptTold' /\ ShownIsSent' /\ SentIsState' /\ ChosenInForce'
  BY DEF Restart, Untried, ErrorIsOfLastAttempt, AttemptTold, ShownIsSent, SentIsState, ChosenInForce
<1>4. ChosenOnDisk'
  <2>1. ASSUME chosen' # None PROVE settings'.channel = chosen' /\ settings'.marker = None
    <3>1. chosen' = chosen /\ unkept = {} /\ ~ \E t \in Task : op[t] = "set_channel" /\ pc[t] = "switch_marker"
      BY <2>1 DEF Restart
    <3>2. \A t \in Task : pc[t] # "switch_marker"
      BY <3>1 DEF ToldInv, Told, TaskTold, Section, Switching
    <3>3. QED
      BY <2>1, <3>1, <3>2 DEF Restart, disk, ToldInv, Told, ChosenOnDisk
  <2>2. QED
    BY <2>1 DEF ChosenOnDisk
<1>5. QED
  BY <1>2, <1>3, <1>4 DEF Told

(* A channel that was chosen has no marker, so it is not derived again.    *)
LEMMA LoadTold ==
    ASSUME ToldInv, Load
    PROVE  Told'
<1>1. /\ boot # "up" /\ UNCHANGED <<backup, installed, attempt, lock, checkLock, pc, op, wanted, outcome, chosen, unkept>>
      /\ attempt = "never" /\ outcome = "none" /\ unkept = {} /\ settings \in Settings /\ None \notin Channel
      /\ chosen \in Channel \cup {None}
  BY NoneAssumption DEF Load, LoadChannel, LoadMarker, LoadState, BootUnchanged, host, locks, locals, history,
         ToldInv, Told, Untried, AnswerInv, CheckInv, TypeOK
<1>2. \A t \in Task : pc[t] = "idle"
  BY <1>1 DEF ToldInv, AnswerInv, CheckInv, LoadingIsAlone
<1>3. \A t \in Task : TaskTold(t)'
  BY <1>1, <1>2 DEF TaskTold, Section, TakenTold, SwitchWritten, KeptChannel, KeptMarker, Locking, Switching, Keeping
<1>4. Untried' /\ ErrorIsOfLastAttempt' /\ AttemptTold'
  BY <1>1 DEF Untried, ErrorIsOfLastAttempt, AttemptTold
<1>5. chosen # None /\ unkept = {} => settings.channel = chosen /\ settings.marker = None
  BY <1>2 DEF ToldInv, Told, ChosenOnDisk
<1>6. unkept = {} => ChosenInForce' /\ ChosenOnDisk'
  <2>1. SUFFICES ASSUME unkept = {}, chosen # None
                 PROVE  ChosenInForce' /\ settings'.channel = chosen /\ settings'.marker = None
    BY <1>1 DEF ChosenInForce, ChosenOnDisk
  <2>2. settings.channel = chosen /\ settings.marker = None
    BY <1>5, <2>1
  <2>3. CASE LoadChannel
    BY <1>1, <2>1, <2>2, <2>3 DEF LoadChannel, Rederives, ChosenInForce
  <2>4. CASE LoadMarker
    BY <2>1, <2>4 DEF LoadMarker, ToldInv, Told, ChosenInForce
  <2>5. CASE LoadState
    <3> DEFINE saved == IF enabled THEN Restored(settings.state, settings.channel) ELSE None
    <3>1. state' = IF saved = None THEN Fresh(settings.channel, installed) ELSE saved
      BY <2>5 DEF LoadState
    <3>2. saved # None => saved.channel = settings.channel
      BY DEF Restored
    <3>3. state'.channel = settings.channel
      BY <3>1, <3>2 DEF Fresh
    <3>4. QED
      BY <1>1, <2>1, <2>2, <2>5, <3>3 DEF LoadState, ToldInv, Told, ChosenInForce
  <2>6. QED
    BY <2>3, <2>4, <2>5 DEF Load
<1>7. ShownIsSent' /\ SentIsState'
  BY <1>1 DEF Load, LoadChannel, LoadMarker, LoadState, ShownIsSent, SentIsState
<1>8. QED
  BY <1>1, <1>3, <1>4, <1>6, <1>7 DEF Told

LEMMA CallTold ==
    ASSUME ToldInv, NEW t \in Task,
           \/ Check(t) \/ CheckNow(t) \/ \E c \in Channel : SetChannel(t, c)
           \/ RestoreDatabase(t)
    PROVE  Told'
<1>1. PICK place \in {"check_lock", "switch_lock", "restored"} :
         /\ pc' = [pc EXCEPT ![t] = place]
         /\ place = "switch_lock" => op' = [op EXCEPT ![t] = "set_channel"]
         /\ place = "restored" => op' = [op EXCEPT ![t] = "restore"] /\ unkept' = unkept \cup {t}
         /\ place # "restored" => UNCHANGED <<settings, unkept, shown>>
  BY DEF Check, CheckNow, SetChannel, Starts, RestoreDatabase, GoesTo, disk, points, history
<1>2. /\ boot = "up" /\ pc[t] = "idle"
      /\ UNCHANGED <<boot, state, derived, installed, fetchedAt, attempt, lock, checkLock, outcome, chosen, sent>>
  BY DEF Check, CheckNow, SetChannel, Starts, RestoreDatabase, disk, host, cache, locks, points, history
<1>3. /\ pc \in [Task -> Place] /\ op \in [Task -> {"check", "check_now", "set_channel", "restore", "raised"}]
      /\ wanted \in [Task -> Channel \cup {None}]
  BY DEF ToldInv, AnswerInv, CheckInv, TypeOK
<1>4. \A u \in Task : u # t => pc'[u] = pc[u] /\ op'[u] = op[u] /\ wanted'[u] = wanted[u]
  BY <1>1, <1>3 DEF Check, CheckNow, SetChannel, Starts, RestoreDatabase, locals
<1>5. \A u \in Task : Section(u)'
  <2>1. /\ pc'[t] \notin Locking /\ (pc'[t] \in Switching => op'[t] = "set_channel")
        /\ (pc'[t] \in Keeping => op'[t] = "restore")
    BY <1>1, <1>3 DEF Locking, Switching, Keeping
  <2>2. QED
    BY <1>2, <1>4, <2>1, SectionsAfter
<1>6. AttemptsTold'
  BY <1>1, <1>2, <1>3, <1>4, AttemptsAfter DEF AttemptsTold, Tried
<1>7. PointsTold'
  <2>1. ShownIsSent'
    BY <1>1, <1>2 DEF ToldInv, Told, ShownIsSent
  <2>2. SentIsState'
    BY <1>1, <1>2, <1>3, <1>4 DEF ToldInv, Told, SentIsState
  <2>3. QED
    BY <2>1, <2>2 DEF PointsTold
<1>8. ChoiceTold'
  <2>1. CASE place # "restored"
    BY <1>1, <1>2, <1>3, <1>4, <2>1, ChoiceAfter
  <2>2. CASE place = "restored"
    <3>1. ChosenInForce' /\ ChosenOnDisk'
      BY <1>1, <1>2, <2>2 DEF ToldInv, Told, ChosenInForce, ChosenOnDisk
    <3>2. \A u \in Task : SwitchWritten(u)' /\ KeptChannel(u)' /\ KeptMarker(u)'
      BY <1>1, <1>2, <1>3, <1>4, <2>2 DEF ToldInv, Told, TaskTold, SwitchWritten, KeptChannel, KeptMarker
    <3>3. QED
      BY <3>1, <3>2 DEF ChoiceTold
  <2>3. QED
    BY <2>1, <2>2
<1>9. QED
  BY <1>5, <1>6, <1>7, <1>8, ToldOfGroups

LEMMA OutsideTold ==
    ASSUME ToldInv, CoolDownEnds \/ Backup \/ (\E list \in List : News(list)) \/ UNCHANGED vars
    PROVE  Told'
<1>1. /\ UNCHANGED <<settings, installed, boot, state, derived, fetchedAt, lock, checkLock, pc, op, wanted,
                     sent, shown, outcome, chosen, unkept>>
      /\ attempt' = attempt \/ attempt = "recent"
      /\ attempt' # attempt => attempt # "never"
  BY DEF CoolDownEnds, Backup, News, vars, disk, host, cache, locks, locals, points, history
<1>2. Untried' /\ ErrorIsOfLastAttempt' /\ AttemptTold' /\ ShownIsSent' /\ SentIsState'
  BY <1>1 DEF ToldInv, Told, Untried, ErrorIsOfLastAttempt, AttemptTold, Tried, ShownIsSent, SentIsState
<1>3. ChosenInForce' /\ ChosenOnDisk'
  BY <1>1 DEF ToldInv, Told, ChosenInForce, ChosenOnDisk
<1>4. \A t \in Task : TaskTold(t)'
  BY <1>1 DEF ToldInv, Told, TaskTold, Section, TakenTold, Tried, SwitchWritten, KeptChannel, KeptMarker
<1>5. QED
  BY <1>2, <1>3, <1>4 DEF Told

LEMMA NextToldInv == ToldInv /\ [Next]_vars => ToldInv'
<1> SUFFICES ASSUME ToldInv, [Next]_vars PROVE ToldInv'
  OBVIOUS
<1>1. AnswerInv'
  BY NextAnswerInv DEF ToldInv
<1>2. ASSUME Load PROVE Told'
  BY <1>2, LoadTold
<1>3. ASSUME NEW t \in Task,
             \/ Check(t) \/ CheckNow(t) \/ \E c \in Channel : SetChannel(t, c)
             \/ RestoreDatabase(t)
      PROVE  Told'
  BY <1>3, CallTold
<1>4. ASSUME NEW t \in Task, Progress(t) PROVE Told'
  BY <1>4, ProgressSections, ProgressAttempts, ProgressPoints, ProgressChoice, ToldOfGroups
<1>5. ASSUME CoolDownEnds \/ Backup \/ (\E list \in List : News(list)) \/ UNCHANGED vars
      PROVE  Told'
  BY <1>5, OutsideTold
<1>6. ASSUME NEW v \in Version, Restart(v) PROVE Told'
  BY <1>6, RestartTold
<1>7. Told'
  BY <1>2, <1>3, <1>4, <1>5, <1>6 DEF Next
<1>8. QED
  BY <1>1, <1>7 DEF ToldInv

(* What users are told is an invariant of the update check, with the tasks *)
(* that still have to tell it (obs/update/service.py).                     *)
THEOREM ToldInvariant == Spec => []ToldInv
<1>1. Init => ToldInv
  BY InitCheckInv, InitAttributed, InitTold DEF AnswerInv, ToldInv
<1>2. QED
  BY <1>1, NextToldInv, PTL DEF Spec

(* The data points show the state whenever nobody is changing it, however  *)
(* many checks, switches, failed writes and restores came before.          *)
THEOREM PointsAreCurrent == Spec => []ShownMatchesState
<1>1. ToldInv => ShownMatchesState
  <2> SUFFICES ASSUME ToldInv, boot = "up", lock = NoTask, unkept = {} PROVE shown = View(state)
    BY DEF ShownMatchesState
  <2>1. \A t \in Task : pc[t] \notin {"taken", "switched"}
    BY NoneAssumption DEF ToldInv, Told, TaskTold, Section, Locking
  <2>2. QED
    BY <2>1 DEF ToldInv, Told, ShownIsSent, SentIsState
<1>2. QED
  BY <1>1, ToldInvariant, PTL

(* The error shown is that of the last attempt, across channel switches.   *)
THEOREM ErrorIsCurrent == Spec => []ErrorIsOfLastAttempt
<1>1. ToldInv => ErrorIsOfLastAttempt
  BY DEF ToldInv, Told
<1>2. QED
  BY <1>1, ToldInvariant, PTL

(* An admin's choice stays, across crashes, updates and restores that were *)
(* made up for.                                                            *)
THEOREM ChoiceIsKept == Spec => []ChoiceStays
<1>1. ToldInv => ChoiceStays
  BY DEF ToldInv, Told, ChosenInForce, ChoiceStays
<1>2. QED
  BY <1>1, ToldInvariant, PTL

-----------------------------------------------------------------------------
(* A switch returns with an answer or an error: from its own section, from *)
(* its check, or from the cool-down, which only an attempt starts.         *)
LEMMA SwitchReturnsTold ==
    ASSUME ToldInv, [Next]_vars, NEW t \in Client, boot' = "up", SwitchReturns(t)
    PROVE  state'.successAt # 0 \/ state'.failed
<1> USE DEF GoesTo
<1>1. /\ t \in Task /\ pc[t] # "idle" /\ pc'[t] = "idle" /\ op'[t] = "set_channel" /\ changed[t] /\ enabled
      /\ pc \in [Task -> Place] /\ op \in [Task -> {"check", "check_now", "set_channel", "restore", "raised"}]
  BY DEF SwitchReturns, Task, ToldInv, AnswerInv, CheckInv, TypeOK
<1>2. Progress(t)
  <2>1. pc'[t] # pc[t]
    BY <1>1
  <2>2. ASSUME NEW u \in Task, u # t,
               \/ Check(u) \/ CheckNow(u) \/ (\E c \in Channel : SetChannel(u, c)) \/ RestoreDatabase(u)
               \/ Progress(u)
        PROVE  FALSE
    BY <1>1, <2>1, <2>2
       DEF Check, CheckNow, SetChannel, Starts, RestoreDatabase, Progress, Ask, FetchEnds, TakeOver, EndCheck,
           WriteChannel, SwitchState, EndSwitch, KeepChannel, KeepMarker, KeepState, KeepFails, Raises, Returns
  <2>3. ~(Check(t) \/ CheckNow(t) \/ (\E c \in Channel : SetChannel(t, c)) \/ RestoreDatabase(t))
    BY <1>1 DEF Check, CheckNow, SetChannel, Starts, RestoreDatabase
  <2>4. ~(Load \/ Backup \/ CoolDownEnds \/ (\E list \in List : News(list)) \/ UNCHANGED vars)
    BY <2>1 DEF Load, LoadChannel, LoadMarker, LoadState, BootUnchanged, Backup, CoolDownEnds, News, vars
  <2>5. ~ \E v \in Version : Restart(v)
    BY DEF Restart
  <2>6. QED
    BY <2>2, <2>3, <2>4, <2>5 DEF Next
<1>3. CASE Ask(t)
  <2>1. CoolingDown(t) /\ checkLock = NoTask
    BY <1>1, <1>3 DEF Ask
  <2>2. Tried
    BY <2>1 DEF CoolingDown, ToldInv, Told, AttemptTold
  <2>3. QED
    BY <1>3, <2>2 DEF Ask, Tried
<1>4. CASE EndCheck(t)
  BY <1>1, <1>4 DEF EndCheck, ToldInv, Told, TaskTold, TakenTold, Tried
<1>5. CASE EndSwitch(t)
  BY <1>1, <1>5 DEF EndSwitch
<1>6. ASSUME \/ \E ok \in BOOLEAN : FetchEnds(t, ok) \/ WriteChannel(t, ok) \/ SwitchState(t, ok)
             \/ TakeOver(t) \/ KeepChannel(t) \/ KeepMarker(t) \/ KeepFails(t)
      PROVE  FALSE
  BY <1>1, <1>6 DEF FetchEnds, WriteChannel, SwitchState, TakeOver, KeepChannel, KeepMarker, KeepFails, Raises, Returns
<1>7. CASE KeepState(t)
  <2>1. op[t] = "restore"
    BY <1>1, <1>7 DEF KeepState, ToldInv, Told, TaskTold, Section, Keeping
  <2>2. QED
    BY <1>1, <1>7, <2>1 DEF KeepState
<1>8. QED
  BY <1>2, <1>3, <1>4, <1>5, <1>6, <1>7 DEF Progress

(* A switch never returns with nothing to say although GitHub can be asked *)
(* for the new channel: it answers, or the error in its way is shown.      *)
THEOREM SwitchAnswers == Spec => SwitchIsAnswered
<1>1. ToldInv /\ [Next]_vars => [\A t \in Client : boot' = "up" /\ SwitchReturns(t) => state'.successAt # 0 \/ state'.failed]_vars
  BY SwitchReturnsTold
<1>2. QED
  BY <1>1, ToldInvariant, PTL DEF Spec, SwitchIsAnswered

=============================================================================
