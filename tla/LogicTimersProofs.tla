------------------------- MODULE LogicTimersProofs -------------------------
(***************************************************************************)
(* Proofs about LogicTimers, for any number of event runs and any bounds:  *)
(* the timer of a deleted sheet stays gone until a run of it begins, a     *)
(* pulse that has ended leaves nothing on, and no trigger of a delay is    *)
(* answered twice.                                                         *)
(*                                                                         *)
(* The inductive invariant says who answers for the timer at each moment:  *)
(* the deadline, the task (Owns), or a run of the block that has not acted *)
(* yet (PulseEnds, DelayFires).  The effect lemmas say what each action    *)
(* does to those.                                                          *)
(***************************************************************************)
EXTENDS LogicTimers, TLAPS

TimerOf == [prev : BOOLEAN, deadline : {"none", "later", "now"}, needOn : BOOLEAN]
RunOf == [stage : {"none", "new", "pass", "written"},
          what : {"event", "start", "end", "fire"},
          active : BOOLEAN, level : BOOLEAN, fresh : BOOLEAN, obsolete : BOOLEAN,
          older : SUBSET Slot, old : BOOLEAN, dead : BOOLEAN, moved : BOOLEAN,
          recorded : BOOLEAN, pending : BOOLEAN, mine : BOOLEAN, abandoned : BOOLEAN,
          asks : Nat]
Waits == {"waitStart", "waitEnd", "waitFire"}
Results == {"none", "ran", "failed"}

Types ==
    /\ kind \in {"timer_delay", "timer_pulse"}
    /\ timer \in TimerOf /\ saved \in TimerOf
    /\ dirty \in BOOLEAN /\ task \in Place /\ result \in Results
    /\ run \in [Slot -> RunOf]
    /\ sheet \in [loaded : BOOLEAN, enabled : BOOLEAN, removed : BOOLEAN, late : BOOLEAN]
    /\ mode \in {"up", "stopping", "stopped", "down"}
    /\ input \in BOOLEAN /\ output \in BOOLEAN /\ lost \in BOOLEAN
    /\ asked \in Nat /\ answered \in Nat

Mine == run["timer"].mine = TRUE
OwnedRun == InFlight("timer") /\ Mine /\ run["timer"].abandoned = FALSE
Due(what) == Mine /\ run["timer"].what = what /\ run["timer"].stage \in {"new", "pass"}

\* The task waits exactly for the run it started, or has its result before it;
\* a run for an event has no task.
Owns ==
    /\ \A r \in EventRun : run[r].what = "event" /\ run[r].mine = FALSE
    /\ Mine => InFlight("timer")
    /\ task \in Waits <=> result # "none" \/ OwnedRun
    /\ result # "none" => ~InFlight("timer")
    /\ OwnedRun => /\ run["timer"].what = "start" => task = "waitStart"
                   /\ run["timer"].what = "end" => task = "waitEnd"
                   /\ run["timer"].what = "fire" => task = "waitFire"
    /\ Mine => run["timer"].what \in (IF Pulse THEN {"start", "end"} ELSE {"fire"})
    /\ task \in {"waitStart", "pauseStart", "waitEnd", "pauseEnd"} => Pulse
    /\ task = "waitFire" => ~Pulse
    /\ task \in {"waitStart", "pauseStart"} \/ (Mine /\ run["timer"].what = "start") =>
            timer.deadline # "none"
    /\ mode # "up" => task = "none"
    /\ run["timer"].abandoned = TRUE => mode = "stopping" /\ InFlight("timer")
    /\ mode = "stopped" => ~InFlight("timer")
    /\ mode = "down" => \A r \in Slot : run[r].stage = "none"
    /\ mode = "down" => dirty = FALSE

\* Only a pulse that has not run out has a switch-on due.
Needs ==
    /\ timer.needOn = TRUE => Pulse /\ timer.deadline # "none"
    /\ saved.needOn = TRUE => Pulse /\ saved.deadline # "none"

\* What a deletion leaves of the timer: nothing, and no run that could bring it
\* back, until one of its own that had not begun does begin.
Gone ==
    sheet.removed = TRUE =>
        /\ sheet.loaded = FALSE /\ saved = Idle /\ run["timer"].mine = FALSE
        /\ sheet.late = FALSE =>
              /\ timer = Idle /\ task = "none"
              /\ \A r \in Begun : run[r].dead = TRUE

\* The end of a pulse is still to be published, by a run or by the task.
OffDue ==
    \/ Due("end")
    \/ task = "waitEnd" /\ result = "failed"
    \/ task = "pauseEnd"

Excused == lost = TRUE \/ sheet.removed = TRUE

\* While the Write Object is on, the deadline lies ahead or the end is due.
PulseEnds ==
    /\ ~Pulse => output = FALSE
    /\ Pulse /\ InFlight("timer") => Mine \/ sheet.removed = TRUE
    /\ Pulse /\ Mine /\ run["timer"].stage = "pass" /\ run["timer"].active = TRUE =>
            timer.deadline # "none"
    /\ mode # "down" /\ output = TRUE /\ timer.deadline = "none" => Excused \/ OffDue
    /\ mode = "down" /\ output = TRUE => saved.deadline # "none" \/ Excused

\* A firing that has not acted answers a trigger nobody has answered, and a
\* deadline beside it, in memory or in the database, stands for a later one.
DelayFires ==
    /\ answered <= asked /\ run["timer"].asks <= asked
    /\ ~Pulse /\ timer.deadline # "none" => asked > answered
    /\ Due("fire") =>
          /\ run["timer"].asks > answered
          /\ timer.deadline # "none" => asked > run["timer"].asks
          /\ saved.deadline # "none" => dirty = TRUE \/ asked > run["timer"].asks
    /\ task = "waitFire" /\ result = "failed" => asked > answered
    /\ ~Pulse /\ saved.deadline # "none" => asked > answered \/ dirty = TRUE

Inv == Types /\ Owns /\ Needs /\ Gone /\ PulseEnds /\ DelayFires

-----------------------------------------------------------------------------
(* Effects *)

\* What the invariant reads of the block's own run.
TimerRun(stage, what, active, mine, abandoned, asks) ==
    /\ run'["timer"].stage = stage /\ run'["timer"].what = what
    /\ run'["timer"].active = active /\ run'["timer"].mine = mine
    /\ run'["timer"].abandoned = abandoned /\ run'["timer"].asks = asks

TimerRunKept ==
    TimerRun(run["timer"].stage, run["timer"].what, run["timer"].active,
             run["timer"].mine, run["timer"].abandoned, run["timer"].asks)

EventRunsStay ==
    \A q \in EventRun : run[q].what = "event" /\ run[q].mine = FALSE
                            => run'[q].what = "event" /\ run'[q].mine = FALSE
                               /\ (run[q].stage = "none" => run'[q].stage = "none")

\* No run begins, and none comes back to life.
NoneBegins ==
    \A q \in Begun' : q \in Begun /\ (run[q].dead = TRUE => run'[q].dead = TRUE)

RunsKept == EventRunsStay /\ NoneBegins

LEMMA TimerIsASlot == "timer" \in Slot /\ "timer" \notin EventRun /\ EventRun \subseteq Slot
BY BoundsAssumption DEF Slot

LEMMA IdleTimer ==
    ASSUME NEW t \in TimerOf, t.prev = FALSE, t.deadline = "none", t.needOn = FALSE
    PROVE  t = Idle
BY DEF Idle, TimerOf

LEMMA NoRunTyped == NoRun \in RunOf
BY DEF NoRun, RunOf

LEMMA IdleTyped == Idle \in TimerOf
BY DEF Idle, TimerOf

\* The newest run is an older one to nobody: nothing else of the runs changes.
SameBut(old, new) ==
    /\ new.stage = old.stage /\ new.what = old.what /\ new.active = old.active
    /\ new.mine = old.mine /\ new.abandoned = old.abandoned /\ new.asks = old.asks

LEMMA SucceededDoes ==
    ASSUME Types, NEW r \in Slot
    PROVE  Succeeded(r) \in [Slot -> RunOf] /\ \A q \in Slot : SameBut(run[q], Succeeded(r)[q])
<1>1. ASSUME NEW q \in Slot
      PROVE  Succeeded(r)[q] \in RunOf /\ SameBut(run[q], Succeeded(r)[q])
  <2>1. run[q] \in RunOf
    BY DEF Types
  <2> DEFINE rest == run[q].older \ {r}
  <2>2. rest \in SUBSET Slot
    BY <2>1 DEF RunOf
  <2>3. Succeeded(r)[q] = [run[q] EXCEPT !.older = rest]
    BY DEF Succeeded
  <2> HIDE DEF rest
  <2> QED
    BY ONLY <2>1, <2>2, <2>3 DEF RunOf, SameBut
<1>2. Succeeded(r) = [q \in Slot |-> Succeeded(r)[q]]
  BY DEF Succeeded
<1>3. Succeeded(r) \in [Slot -> RunOf]
  <2>1. \A q \in Slot : Succeeded(r)[q] \in RunOf
    BY <1>1
  <2> QED
    BY ONLY <1>2, <2>1, Zenon
<1> QED
  BY <1>1, <1>3

\* A run for an event begins; the block's own run does not see it.
LEMMA EventDoes ==
    ASSUME Types, NEW r \in EventRun, NEW level \in BOOLEAN, NEW fresh \in BOOLEAN,
           Event(r, level, fresh), \A q \in EventRun : run[q].what = "event" /\ run[q].mine = FALSE
    PROVE  /\ run' \in [Slot -> RunOf] /\ TimerRunKept
           /\ \A q \in EventRun : run'[q].what = "event" /\ run'[q].mine = FALSE
<1> DEFINE new == [NoRun EXCEPT !.stage = "pass", !.active = Active(timer), !.level = level,
                                !.fresh = fresh /\ level, !.older = Begun]
<1>1. run' = [Succeeded(r) EXCEPT ![r] = new]
  BY DEF Event
<1>2. Active(timer) \in BOOLEAN
  BY Zenon DEF Active
<1>3. (fresh /\ level) \in BOOLEAN
  BY Zenon
<1>4. Begun \in SUBSET Slot
  BY DEF Begun
<1> DEFINE active == Active(timer)
           seen == fresh /\ level
<1>5. new \in RunOf /\ new.what = "event" /\ new.mine = FALSE
  <2>1. active \in BOOLEAN /\ seen \in BOOLEAN
    BY ONLY <1>2, <1>3
  <2> DEFINE moved == [NoRun EXCEPT !.stage = "pass", !.active = active, !.level = level]
  <2>2. NoRun \in RunOf /\ NoRun.what = "event" /\ NoRun.mine = FALSE
    BY NoRunTyped DEF NoRun
  <2>3. new = [moved EXCEPT !.fresh = seen, !.older = Begun]
    OBVIOUS
  <2> HIDE DEF active, seen, new
  <2>4. moved \in RunOf /\ moved.what = "event" /\ moved.mine = FALSE
    BY <2>1, <2>2 DEF RunOf
  <2> HIDE DEF moved
  <2>5. QED
    BY ONLY <2>1, <2>3, <2>4, <1>4 DEF RunOf
<1> HIDE DEF new
<1> DEFINE others == Succeeded(r)
<1>6. r \in Slot /\ r # "timer"
  BY TimerIsASlot
<1>7. others \in [Slot -> RunOf] /\ \A q \in Slot : SameBut(run[q], others[q])
  BY <1>6, SucceededDoes
<1> HIDE DEF others
<1>8. run' = [others EXCEPT ![r] = new]
  BY <1>1 DEF others
<1> QED
  BY <1>5, <1>6, <1>7, <1>8, TimerIsASlot DEF TimerRunKept, TimerRun, SameBut

Passing(old, active, level, older) ==
    [old EXCEPT !.stage = "pass", !.active = active, !.level = level, !.older = older]

LEMMA MovedOn ==
    ASSUME NEW old \in RunOf, NEW active \in BOOLEAN, NEW level \in BOOLEAN, NEW older \in SUBSET Slot
    PROVE  LET new == Passing(old, active, level, older)
           IN  /\ new \in RunOf /\ new.stage = "pass" /\ new.what = old.what
               /\ new.active = active /\ new.mine = old.mine
               /\ new.abandoned = old.abandoned /\ new.asks = old.asks
BY DEF RunOf, Passing

LEMMA BeginTimerRunDoes ==
    ASSUME Types, BeginTimerRun
    PROVE  /\ run' \in [Slot -> RunOf] /\ EventRunsStay
           /\ TimerRun("pass", run["timer"].what, Active(timer),
                       run["timer"].mine, run["timer"].abandoned, run["timer"].asks)
<1>1. Active(timer) \in BOOLEAN
  BY Zenon DEF Active
<1>2. Begun \in SUBSET Slot
  BY DEF Begun
<1>3. input \in BOOLEAN /\ run \in [Slot -> RunOf]
  BY DEF Types
<1> DEFINE new == Passing(Succeeded("timer")["timer"], Active(timer), input, Begun)
<1>4. run["timer"] \in RunOf
  BY <1>3, TimerIsASlot
<1> DEFINE others == Succeeded("timer")
<1>7. others \in [Slot -> RunOf] /\ \A q \in Slot : SameBut(run[q], others[q])
  BY SucceededDoes, TimerIsASlot
<1>5. /\ new \in RunOf /\ new.stage = "pass" /\ new.what = run["timer"].what
      /\ new.active = Active(timer) /\ new.mine = run["timer"].mine
      /\ new.abandoned = run["timer"].abandoned /\ new.asks = run["timer"].asks
  BY <1>1, <1>2, <1>3, <1>7, MovedOn, TimerIsASlot DEF SameBut
<1> HIDE DEF new
<1>6. run' = [others EXCEPT !["timer"] = new]
  BY <1>7, TimerIsASlot DEF BeginTimerRun, new, Passing
<1> HIDE DEF others
<1> QED
  BY <1>5, <1>6, <1>7, TimerIsASlot DEF TimerRun, EventRunsStay, SameBut

\* A run ends, by failing or by concluding.
LEMMA RunEnds ==
    ASSUME Types, NEW r \in Slot, run' = [run EXCEPT ![r] = NoRun]
    PROVE  /\ run' \in [Slot -> RunOf] /\ RunsKept
           /\ IF r = "timer" THEN TimerRun("none", "event", FALSE, FALSE, FALSE, 0) ELSE TimerRunKept
BY NoRunTyped, TimerIsASlot DEF Types, TimerRun, TimerRunKept, RunsKept, EventRunsStay, NoneBegins, Begun, NoRun

\* RunGraph begins a run of the block's own.
LEMMA RunBegins ==
    ASSUME Types, NEW what \in {"start", "end", "fire"},
           run' = [run EXCEPT !["timer"] = [NoRun EXCEPT !.stage = "new", !.what = what,
                                                  !.mine = TRUE, !.asks = asked]]
    PROVE  /\ run' \in [Slot -> RunOf] /\ RunsKept
           /\ TimerRun("new", what, FALSE, TRUE, FALSE, asked)
<1> DEFINE new == [NoRun EXCEPT !.stage = "new", !.what = what, !.mine = TRUE, !.asks = asked]
<1>1. /\ new \in RunOf /\ new.stage = "new" /\ new.what = what /\ new.active = FALSE
      /\ new.mine = TRUE /\ new.abandoned = FALSE /\ new.asks = asked
  BY DEF NoRun, RunOf, Types
<1> HIDE DEF new
<1>2. run' = [run EXCEPT !["timer"] = new]
  BY DEF new
<1>3. run \in [Slot -> RunOf]
  BY DEF Types
<1>4. run'["timer"] = new /\ (\A q \in EventRun : run'[q] = run[q]) /\ run' \in [Slot -> RunOf]
  BY ONLY <1>1, <1>2, <1>3, TimerIsASlot
<1> QED
  BY <1>1, <1>4 DEF TimerRun, RunsKept, EventRunsStay, NoneBegins, Begun

\* The fields of a run that a recorded level changes.
MarkedOwn(old, mark, pend) ==
    [old EXCEPT !.stage = "written", !.recorded = mark, !.moved = FALSE, !.pending = pend]
MarkedOther(before, old, moved) ==
    [before EXCEPT !.recorded = FALSE, !.old = old, !.moved = moved]

LEMMA MarkedOwnTyped ==
    ASSUME NEW old \in RunOf, NEW mark \in BOOLEAN, NEW pend \in BOOLEAN
    PROVE  LET own == MarkedOwn(old, mark, pend)
           IN  /\ own \in RunOf /\ own.stage = "written" /\ own.what = old.what
               /\ own.active = old.active /\ own.mine = old.mine
               /\ own.abandoned = old.abandoned /\ own.asks = old.asks /\ own.dead = old.dead
BY DEF RunOf, MarkedOwn

LEMMA MarkedOtherTyped ==
    ASSUME NEW before \in RunOf, NEW old \in BOOLEAN, NEW moved \in BOOLEAN
    PROVE  LET other == MarkedOther(before, old, moved)
           IN  /\ other \in RunOf /\ other.stage = before.stage /\ other.what = before.what
               /\ other.active = before.active /\ other.mine = before.mine
               /\ other.abandoned = before.abandoned /\ other.asks = before.asks
               /\ other.dead = before.dead
BY DEF RunOf, MarkedOther

LEMMA RecordsTyped ==
    ASSUME NEW r, Types PROVE Records(r) \in BOOLEAN /\ Triggers(r) \in BOOLEAN
BY Zenon DEF Records, Triggers

\* Recording a level moves the run on, and leaves the others their place.
LEMMA RecordedDoes ==
    ASSUME Types, NEW r \in Slot, run' = Recorded(r)
    PROVE  /\ run' \in [Slot -> RunOf] /\ (run[r].stage = "pass" => RunsKept)
           /\ IF r = "timer"
              THEN TimerRun("written", run["timer"].what, run["timer"].active,
                            run["timer"].mine, run["timer"].abandoned, run["timer"].asks)
              ELSE TimerRunKept
<1> DEFINE mark == Records(r)
           pend == ~Pulse /\ Triggers(r)
           own == MarkedOwn(run[r], mark, pend)
           older(q) == run[q].old \/ q \in run[r].older
           other(q) == MarkedOther(run[q], older(q), run[q].moved \/ timer.prev # run[r].level)
<1>1. mark \in BOOLEAN /\ pend \in BOOLEAN
  BY RecordsTyped, Zenon
<1> HIDE DEF mark, pend
<1>2. run \in [Slot -> RunOf]
  BY DEF Types
<1>3. /\ own \in RunOf /\ own.stage = "written" /\ own.what = run[r].what /\ own.active = run[r].active
      /\ own.mine = run[r].mine /\ own.abandoned = run[r].abandoned /\ own.asks = run[r].asks
      /\ own.dead = run[r].dead
  <2>1. run[r] \in RunOf
    BY <1>2
  <2> QED
    BY <1>1, <2>1, MarkedOwnTyped
<1>4. ASSUME NEW q \in Slot
      PROVE  /\ other(q) \in RunOf /\ other(q).stage = run[q].stage /\ other(q).what = run[q].what
             /\ other(q).active = run[q].active /\ other(q).mine = run[q].mine
             /\ other(q).abandoned = run[q].abandoned /\ other(q).asks = run[q].asks
             /\ other(q).dead = run[q].dead
  <2>1. older(q) \in BOOLEAN /\ (run[q].moved \/ timer.prev # run[r].level) \in BOOLEAN
    BY Zenon
  <2>2. run[q] \in RunOf
    BY <1>2, <1>4
  <2> QED
    BY <2>1, <2>2, MarkedOtherTyped
<1>5. ASSUME NEW q \in Slot
      PROVE  run'[q] = IF q = r THEN own ELSE IF ~mark \/ ~InFlight(q) THEN run[q] ELSE other(q)
  BY <1>5, Zenon DEF Recorded, mark, pend, MarkedOwn, MarkedOther
<1>5a. run' = [q \in Slot |-> run'[q]]
  BY Zenon DEF Recorded
<1> HIDE DEF own, other
<1>6. run' \in [Slot -> RunOf]
  <2>1. \A q \in Slot : run'[q] \in RunOf
    BY <1>2, <1>3, <1>4, <1>5
  <2> QED
    BY <1>5a, <2>1, Zenon
<1>7. run[r].stage = "pass" => RunsKept
  BY <1>3, <1>4, <1>5, TimerIsASlot DEF RunsKept, EventRunsStay, NoneBegins, Begun
<1> QED
  BY <1>3, <1>4, <1>5, <1>6, <1>7, TimerIsASlot DEF TimerRun, TimerRunKept

LEMMA RunUnchanged ==
    ASSUME Types, UNCHANGED run
    PROVE  run' \in [Slot -> RunOf] /\ TimerRunKept /\ RunsKept
BY DEF Types, TimerRunKept, TimerRun, RunsKept, EventRunsStay, NoneBegins, Begun

\* A new generation marks the runs that began under the old one.
LEMMA ObsoleteDoes ==
    ASSUME Types, run' = [r \in Slot |-> [run[r] EXCEPT !.obsolete = (r \in Begun)]]
    PROVE  run' \in [Slot -> RunOf] /\ TimerRunKept /\ RunsKept
<1> DEFINE obsolete(r) == r \in Begun
<1>1. ASSUME NEW r \in Slot PROVE obsolete(r) \in BOOLEAN
  OBVIOUS
<1>2. ASSUME NEW r \in Slot PROVE run'[r] = [run[r] EXCEPT !.obsolete = obsolete(r)]
  BY <1>2
<1> HIDE DEF obsolete
<1>3. ASSUME NEW r \in Slot
      PROVE  /\ run'[r] \in RunOf /\ run'[r].stage = run[r].stage /\ run'[r].what = run[r].what
             /\ run'[r].active = run[r].active /\ run'[r].mine = run[r].mine
             /\ run'[r].abandoned = run[r].abandoned /\ run'[r].asks = run[r].asks
             /\ run'[r].dead = run[r].dead
  <2>1. run[r] \in RunOf
    BY <1>3 DEF Types
  <2> QED
    <3>1. obsolete(r) \in BOOLEAN /\ run'[r] = [run[r] EXCEPT !.obsolete = obsolete(r)]
      BY ONLY <1>1, <1>2, <1>3
    <3>2. QED
      BY ONLY <2>1, <3>1 DEF RunOf
<1>4. run' = [r \in Slot |-> run'[r]]
  OBVIOUS
<1>5. run' \in [Slot -> RunOf]
  <2>1. \A r \in Slot : run'[r] \in RunOf
    BY <1>3
  <2> QED
    BY ONLY <1>4, <2>1, Zenon
<1> QED
  BY <1>3, <1>5, TimerIsASlot DEF TimerRun, TimerRunKept, RunsKept, EventRunsStay, NoneBegins, Begun

\* Nobody waits for the block's run any more; where it is stays.
TimerRunDisowned ==
    /\ run'["timer"].stage = run["timer"].stage /\ run'["timer"].mine = FALSE
    /\ run'["timer"].asks \in {run["timer"].asks, 0}
    /\ run'["timer"].abandoned = TRUE => run["timer"].abandoned = TRUE

LEMMA DisownedDoes ==
    ASSUME Types, NEW r \in Slot
    PROVE  LET new == Disowned[r]
           IN  /\ new \in RunOf /\ new.stage = run[r].stage /\ new.mine = FALSE
               /\ new.what \in {run[r].what, "event"}
               /\ new.asks \in {run[r].asks, 0} /\ new.abandoned \in {run[r].abandoned, FALSE}
               /\ InFlight(r) => new.dead = run[r].dead
<1>1. run[r] \in RunOf
  BY DEF Types
<1>2. Disowned[r] = IF InFlight(r) THEN [run[r] EXCEPT !.mine = FALSE, !.moved = TRUE] ELSE NoRun
  BY DEF Disowned
<1>3. CASE InFlight(r)
  <2>1. Disowned[r] = [run[r] EXCEPT !.mine = FALSE, !.moved = TRUE]
    BY ONLY <1>2, <1>3
  <2>2. QED
    BY ONLY <1>1, <2>1 DEF RunOf
<1>4. CASE ~InFlight(r)
  <2>1. Disowned[r] = NoRun /\ run[r].stage = "none"
    BY ONLY <1>2, <1>4 DEF InFlight
  <2>2. NoRun.stage = "none" /\ NoRun.mine = FALSE /\ NoRun.what = "event" /\ NoRun.asks = 0
        /\ NoRun.abandoned = FALSE
    BY DEF NoRun
  <2> QED
    BY ONLY <1>4, <2>1, <2>2, NoRunTyped
<1> QED
  BY <1>3, <1>4

LEMMA DisownedKeeps ==
    ASSUME Types, run' = Disowned
    PROVE  run' \in [Slot -> RunOf] /\ TimerRunDisowned /\ RunsKept
<1>1. Disowned = [r \in Slot |-> Disowned[r]]
  BY DEF Disowned
<1>2. \A r \in Slot : Disowned[r] \in RunOf
  BY DisownedDoes
<1>3. run' \in [Slot -> RunOf]
  BY ONLY <1>1, <1>2, run' = Disowned, Zenon
<1> QED
  BY <1>3, DisownedDoes, TimerIsASlot DEF TimerRunDisowned, RunsKept, EventRunsStay, NoneBegins, Begun, InFlight

\* A save keeps what it is given, or the mark stays.
LEMMA PersistDoes ==
    ASSUME Types, NEW t \in TimerOf, NEW marked \in BOOLEAN, Persist(t, marked)
    PROVE  /\ saved' \in TimerOf /\ dirty' \in BOOLEAN
           /\ saved' = t \/ (saved' = saved /\ (sheet.removed = TRUE \/ marked = FALSE \/ dirty' = TRUE))
           /\ marked = FALSE \/ sheet.removed = TRUE => saved' = saved
           /\ mode \notin {"up"} => dirty' = FALSE
BY DEF Persist, Types, TimerOf

\* Loading the sheet drops a disabled delay; else the deadline stays, and a
\* task looks after it while the process is up.
LEMMA ResumeDoes ==
    ASSUME Types, NEW t \in TimerOf, NEW marked \in BOOLEAN, Resume(t, marked)
    PROVE  /\ timer' \in TimerOf /\ saved' \in TimerOf /\ dirty' \in BOOLEAN
           /\ run' \in [Slot -> RunOf] /\ RunsKept
           /\ mode \notin {"up"} => dirty' = FALSE
           /\ \/ /\ ~Pulse /\ timer' = Idle /\ task' = "none" /\ result' = "none"
                 /\ answered' = asked /\ TimerRunDisowned
                 /\ saved' = Idle \/ (saved' = saved /\ (sheet.removed = TRUE \/ dirty' = TRUE))
              \/ /\ timer'.deadline = t.deadline /\ (timer'.needOn = TRUE => t.needOn = TRUE)
                 /\ timer' = t \/ t.deadline # "none"
                 /\ task' = task \/ (task = "none" /\ task' = "top" /\ mode \in {"up", "down"})
                 /\ task' = task \/ t.deadline # "none"
                 /\ UNCHANGED <<result, answered>> /\ TimerRunKept
                 /\ \/ saved' = timer'
                    \/ saved' = saved /\ (sheet.removed = TRUE \/ marked = FALSE \/ dirty' = TRUE)
<1>1. CASE ~sheet.enabled /\ ~Pulse
  <2>1. /\ timer' = Idle /\ task' = "none" /\ result' = "none" /\ run' = Disowned
        /\ answered' = asked /\ Persist(Idle, TRUE)
    BY <1>1 DEF Resume
  <2> QED
    BY <1>1, <2>1, PersistDoes, DisownedKeeps, IdleTyped
<1>2. CASE ~(~sheet.enabled /\ ~Pulse)
  <2> DEFINE unattended == sheet.enabled /\ t.deadline # "none" /\ task = "none"
             late == unattended /\ t.deadline = "now"
             resumed == IF late THEN [t EXCEPT !.needOn = FALSE] ELSE t
  <2>1. /\ timer' = resumed
        /\ task' = IF unattended /\ mode \in {"up", "down"} THEN "top" ELSE task
        /\ Persist(timer', marked \/ late) /\ UNCHANGED <<run, result, answered>>
    BY <1>2 DEF Resume
  <2>2. resumed \in TimerOf /\ resumed.deadline = t.deadline /\ (resumed.needOn = TRUE => t.needOn = TRUE)
    BY DEF TimerOf
  <2>3. (marked \/ late) \in BOOLEAN
    BY Zenon
  <2>4. (marked \/ late) = FALSE => marked = FALSE
    BY Zenon
  <2>5. resumed = t \/ t.deadline # "none"
    OBVIOUS
  <2>6. /\ task' = task \/ (task = "none" /\ task' = "top" /\ mode \in {"up", "down"})
        /\ task' = task \/ t.deadline # "none"
    BY <2>1
  <2> HIDE DEF late, resumed, unattended
  <2>7. /\ saved' \in TimerOf /\ dirty' \in BOOLEAN
        /\ \/ saved' = timer'
           \/ saved' = saved /\ (sheet.removed = TRUE \/ (marked \/ late) = FALSE \/ dirty' = TRUE)
        /\ mode \notin {"up"} => dirty' = FALSE
    BY <2>1, <2>2, <2>3, PersistDoes
  <2> QED
    BY <2>1, <2>2, <2>4, <2>5, <2>6, <2>7, RunUnchanged
<1> QED
  BY <1>1, <1>2

-----------------------------------------------------------------------------
(* What the actions keep.  The effect of each comes first.                 *)

\* All of the state that neither the runs nor the timer are.
Still == UNCHANGED <<kind, result, sheet, mode, saved, lost>>

\* A run for an event changes nothing the invariant reads.
LEMMA EventKeeps ==
    ASSUME Types, Owns, Needs, Gone, PulseEnds, DelayFires,
           NEW r \in EventRun, NEW level \in BOOLEAN, NEW fresh \in BOOLEAN, Event(r, level, fresh)
    PROVE  Inv'
<1>1. /\ Types /\ mode = "up" /\ run' \in [Slot -> RunOf] /\ TimerRunKept
      /\ \A q \in EventRun : run'[q].what = "event" /\ run'[q].mine = FALSE
      /\ input' \in BOOLEAN /\ Still /\ sheet.loaded # FALSE
      /\ UNCHANGED <<timer, dirty, task, output, asked, answered>>
  <2>1. sheet.loaded # FALSE
    BY DEF Event, Runs, Types
  <2> QED
    BY <2>1, EventDoes DEF Event, Still, count, Owns
<1>2. Types'
  BY <1>1 DEF Types, Still, Place, Results
<1>3. Owns'
  BY <1>1 DEF Types, Still, Owns, Slot, TimerRunDisowned, Waits, OwnedRun, Mine, InFlight,
     RunsKept, EventRunsStay, TimerRun, TimerRunKept, Pulse
<1>4. Needs'
  BY <1>1 DEF Types, Still, Needs, Pulse, Idle, Owns, Waits, OwnedRun, Gone, InFlight, Mine
<1>5. Gone'
  BY <1>1 DEF Types, Still, Gone, Begun, RunsKept, NoneBegins, TimerRunDisowned, TimerRun,
     TimerRunKept, Idle, Owns, Mine, InFlight
<1>6. PulseEnds'
  BY <1>1 DEF Types, Still, PulseEnds, TimerRunDisowned, OffDue, Due, Excused, Mine, InFlight,
     TimerRun, TimerRunKept, Pulse, Owns, Waits, OwnedRun, Gone, Needs, Idle
<1>7. DelayFires'
  BY <1>1 DEF Types, Still, DelayFires, TimerRunDisowned, Due, Mine, TimerRun, TimerRunKept, Idle,
     Pulse, Owns, Waits, OwnedRun, Gone, InFlight
<1> QED
  BY <1>2, <1>3, <1>4, <1>5, <1>6, <1>7 DEF Inv

\* The pass of the block's run begins.
LEMMA BeginTimerRunKeeps ==
    ASSUME Types, Owns, Needs, Gone, PulseEnds, DelayFires,
           BeginTimerRun
    PROVE  Inv'
<1>1. /\ Types /\ run' \in [Slot -> RunOf] /\ EventRunsStay
      /\ TimerRun("pass", run["timer"].what, Active(timer),
                  run["timer"].mine, run["timer"].abandoned, run["timer"].asks)
      /\ Active(timer) = TRUE => timer.deadline # "none"
      /\ run["timer"].stage = "new" /\ mode # "down"
      /\ sheet' \in [loaded : BOOLEAN, enabled : BOOLEAN, removed : BOOLEAN, late : BOOLEAN]
      /\ sheet'.removed = sheet.removed /\ sheet'.loaded = sheet.loaded
      /\ sheet.removed = TRUE => sheet'.late = TRUE
      /\ UNCHANGED <<kind, result, mode, saved, lost>>
      /\ UNCHANGED <<timer, dirty, task, input, output, asked, answered>>
  <2>1. Active(timer) = TRUE => timer.deadline # "none"
    BY Zenon DEF Active
  <2>2. mode # "down"
    BY TimerIsASlot DEF BeginTimerRun, Owns
  <2>3. /\ sheet' \in [loaded : BOOLEAN, enabled : BOOLEAN, removed : BOOLEAN, late : BOOLEAN]
        /\ sheet'.removed = sheet.removed /\ sheet'.loaded = sheet.loaded
        /\ sheet.removed = TRUE => sheet'.late = TRUE
    <3> DEFINE late == sheet.late \/ sheet.removed
    <3>1. sheet' = [sheet EXCEPT !.late = late]
      BY DEF BeginTimerRun
    <3>2. late \in BOOLEAN /\ (sheet.removed = TRUE => late = TRUE)
      BY Zenon
    <3> HIDE DEF late
    <3> QED
      BY <3>1, <3>2 DEF Types
  <2> QED
    BY <2>1, <2>2, <2>3, BeginTimerRunDoes DEF BeginTimerRun, outside, count
<1>2. Types'
  BY <1>1 DEF Types, Still, Place, Results
<1>3. Owns'
  BY <1>1 DEF Types, Still, Owns, Slot, TimerRunDisowned, Waits, OwnedRun, Mine, InFlight,
     RunsKept, EventRunsStay, TimerRun, TimerRunKept, Pulse
<1>4. Needs'
  BY <1>1 DEF Types, Still, Needs, Pulse, Idle, Owns, Waits, OwnedRun, Gone, InFlight, Mine
<1>5. Gone'
  BY <1>1 DEF Types, Still, Gone, Begun, RunsKept, NoneBegins, TimerRunDisowned, TimerRun,
     TimerRunKept, Idle, Owns, Mine, InFlight
<1>6. PulseEnds'
  BY <1>1 DEF Types, Still, PulseEnds, TimerRunDisowned, OffDue, Due, Excused, Mine, InFlight,
     TimerRun, TimerRunKept, Pulse, Owns, Waits, OwnedRun, Gone, Needs, Idle
<1>7. DelayFires'
  BY <1>1 DEF Types, Still, DelayFires, TimerRunDisowned, Due, Mine, TimerRun, TimerRunKept, Idle,
     Pulse, Owns, Waits, OwnedRun, Gone, InFlight
<1> QED
  BY <1>2, <1>3, <1>4, <1>5, <1>6, <1>7 DEF Inv

\* A failed run for an event leaves nothing behind.
LEMMA FailEventKeeps ==
    ASSUME Types, Owns, Needs, Gone, PulseEnds, DelayFires,
           NEW r \in EventRun, Fail(r)
    PROVE  Inv'
<1>1. /\ Types /\ run["timer"].asks \in Nat /\ mode # "down"
      /\ run' \in [Slot -> RunOf] /\ RunsKept
      /\ TimerRunKept /\ Still
      /\ UNCHANGED <<timer, dirty, task, input, output, asked, answered>>
  <2>1. r \in Slot /\ r # "timer" /\ run[r].mine = FALSE
    BY TimerIsASlot DEF Owns
  <2>2. /\ run' = [run EXCEPT ![r] = NoRun] /\ Still
        /\ UNCHANGED <<timer, dirty, task, input, output, asked, answered>>
    BY <2>1 DEF Fail, Still, outside, count
  <2>3. run["timer"].asks \in Nat /\ mode # "down"
    BY <2>1, TimerIsASlot DEF Fail, Types, RunOf, Owns
  <2> QED
    BY <2>1, <2>2, <2>3, RunEnds
<1>2. Types'
  BY <1>1 DEF Types, Still, Place, Results
<1>3. Owns'
  BY <1>1 DEF Types, Still, Owns, Slot, TimerRunDisowned, Waits, OwnedRun, Mine, InFlight,
     RunsKept, EventRunsStay, TimerRun, TimerRunKept, Pulse
<1>4. Needs'
  BY <1>1 DEF Types, Still, Needs, Pulse, Idle, Owns, Waits, OwnedRun, Gone, InFlight, Mine
<1>5. Gone'
  BY <1>1 DEF Types, Still, Gone, Begun, RunsKept, NoneBegins, TimerRunDisowned, TimerRun,
     TimerRunKept, Idle, Owns, Mine, InFlight
<1>6. PulseEnds'
  BY <1>1 DEF Types, Still, PulseEnds, TimerRunDisowned, OffDue, Due, Excused, Mine, InFlight,
     TimerRun, TimerRunKept, Pulse, Owns, Waits, OwnedRun, Gone, Needs, Idle
<1>7. DelayFires'
  BY <1>1 DEF Types, Still, DelayFires, TimerRunDisowned, Due, Mine, TimerRun, TimerRunKept, Idle,
     Pulse, Owns, Waits, OwnedRun, Gone, InFlight
<1> QED
  BY <1>2, <1>3, <1>4, <1>5, <1>6, <1>7 DEF Inv

\* What did not happen stays due.
LEMMA CutDoes ==
    ASSUME NEW t \in TimerOf, NEW what
    PROVE  /\ CutOf(t, what) \in TimerOf
           /\ CutOf(t, what).prev = t.prev
           /\ what = "start" => CutOf(t, what).deadline = t.deadline /\ CutOf(t, what).needOn = TRUE
           /\ what # "start" => /\ CutOf(t, what).deadline = IF t.deadline = "none" THEN "now" ELSE t.deadline
                               /\ CutOf(t, what).needOn = t.needOn
BY DEF CutOf, TimerOf

\* The block's run fails: its task learns it, or the timer is due again.
LEMMA FailTimerKeeps ==
    ASSUME Types, Owns, Needs, Gone, PulseEnds, DelayFires,
           Fail("timer")
    PROVE  Inv'
<1>1. /\ Types /\ run["timer"].asks \in Nat /\ mode # "down"
      /\ run' \in [Slot -> RunOf] /\ RunsKept
      /\ run["timer"].stage = "pass"
      /\ TimerRun("none", "event", FALSE, FALSE, FALSE, 0)
      /\ timer' \in TimerOf /\ dirty' \in BOOLEAN
      /\ IF Mine /\ run["timer"].abandoned = TRUE
         THEN /\ dirty' = TRUE
              /\ run["timer"].what = "start" => timer'.deadline = timer.deadline /\ timer'.needOn = TRUE
              /\ run["timer"].what # "start" =>
                    /\ timer'.deadline = IF timer.deadline = "none" THEN "now" ELSE timer.deadline
                    /\ timer'.needOn = timer.needOn
         ELSE UNCHANGED <<timer, dirty>>
      /\ result' = IF Mine /\ run["timer"].abandoned = FALSE THEN "failed" ELSE result
      /\ UNCHANGED <<kind, task, sheet, mode, saved, input, output, asked, answered, lost>>
  <2>1. run["timer"].mine \in BOOLEAN /\ run["timer"].abandoned \in BOOLEAN /\ timer \in TimerOf /\ dirty \in BOOLEAN
    BY TimerIsASlot DEF Types, RunOf
  <2>2. run' = [run EXCEPT !["timer"] = NoRun] /\ run["timer"].stage = "pass"
    BY DEF Fail
  <2>3. IF Mine /\ run["timer"].abandoned = TRUE
        THEN timer' = CutOf(timer, run["timer"].what) /\ dirty' = TRUE
        ELSE UNCHANGED <<timer, dirty>>
    BY <2>1 DEF Fail, Mine
  <2>4. /\ result' = IF Mine /\ run["timer"].abandoned = FALSE THEN "failed" ELSE result
        /\ UNCHANGED <<kind, task, sheet, mode, saved, input, output, asked, answered, lost>>
    BY <2>1 DEF Fail, Mine, outside, count
  <2>5. run["timer"].asks \in Nat /\ mode # "down"
    BY <2>2, TimerIsASlot DEF Types, RunOf, Owns
  <2>6. run' \in [Slot -> RunOf] /\ RunsKept /\ TimerRun("none", "event", FALSE, FALSE, FALSE, 0)
    BY <2>2, RunEnds, TimerIsASlot
  <2>7. CASE Mine /\ run["timer"].abandoned = TRUE
    <3> DEFINE what == run["timer"].what
    <3>1. timer' = CutOf(timer, what) /\ dirty' = TRUE
      BY <2>3, <2>7
    <3> HIDE DEF what
    <3>2. /\ timer' \in TimerOf
          /\ what = "start" => timer'.deadline = timer.deadline /\ timer'.needOn = TRUE
          /\ what # "start" =>
                /\ timer'.deadline = IF timer.deadline = "none" THEN "now" ELSE timer.deadline
                /\ timer'.needOn = timer.needOn
      BY <2>1, <3>1, CutDoes
    <3> QED
      BY <2>2, <2>4, <2>5, <2>6, <2>7, <3>1, <3>2 DEF what
  <2>8. CASE ~(Mine /\ run["timer"].abandoned = TRUE)
    BY <2>1, <2>2, <2>3, <2>4, <2>5, <2>6, <2>8
  <2> QED
    BY <2>7, <2>8
<1>2. Types'
  BY <1>1 DEF Types, Still, Place, Results
<1>3. Owns'
  BY <1>1 DEF Types, Still, Owns, Slot, TimerRunDisowned, Waits, OwnedRun, Mine, InFlight,
     RunsKept, EventRunsStay, TimerRun, TimerRunKept, Pulse
<1>4. Needs'
  BY <1>1 DEF Types, Still, Needs, Pulse, Idle, Owns, Waits, OwnedRun, Gone, InFlight, Mine
<1>5. Gone'
  BY <1>1 DEF Types, Still, Gone, Begun, RunsKept, NoneBegins, TimerRunDisowned, TimerRun,
     TimerRunKept, Idle, Owns, Mine, InFlight
<1>6. PulseEnds'
  BY <1>1 DEF Types, Still, PulseEnds, TimerRunDisowned, OffDue, Due, Excused, Mine, InFlight,
     TimerRun, TimerRunKept, Pulse, Owns, Waits, OwnedRun, Gone, Needs, Idle
<1>7. DelayFires'
  BY <1>1 DEF Types, Still, DelayFires, TimerRunDisowned, Due, Mine, TimerRun, TimerRunKept, Idle,
     Pulse, Owns, Waits, OwnedRun, Gone, InFlight
<1> QED
  BY <1>2, <1>3, <1>4, <1>5, <1>6, <1>7 DEF Inv

\* A start makes the deadline lie ahead.
LEMMA StartedDoes ==
    ASSUME NEW t \in TimerOf
    PROVE  /\ Started(t) \in TimerOf /\ Started(t).deadline = "later"
           /\ Started(t).needOn = TRUE => Pulse \/ t.needOn = TRUE
<1>1. t.needOn \in BOOLEAN
  BY DEF TimerOf
<1> DEFINE on == t.needOn \/ (Pulse /\ t.deadline = "none")
<1>2. on \in BOOLEAN
  OBVIOUS
<1>3. Started(t) = [t EXCEPT !.needOn = on, !.deadline = "later"]
  BY DEF Started
<1>4. on = TRUE => Pulse \/ t.needOn = TRUE
  BY <1>1
<1> HIDE DEF on
<1> QED
  BY <1>2, <1>3, <1>4 DEF TimerOf

\* Deleted, and nothing of it has begun since.
Deleted == sheet.removed = TRUE /\ sheet.late = FALSE

LEMMA DeletedIsDead ==
    ASSUME Types, Gone, Deleted, NEW r \in Slot, run[r].stage \in {"pass", "written"}
    PROVE  run[r].dead = TRUE
BY DEF Gone, Deleted, Begun

\* A pass that acts may start a pulse of a sheet that is there.
LEMMA ActTimer ==
    ASSUME Types, Gone, NEW r \in Slot, Act(r)
    PROVE  /\ timer' \in TimerOf /\ dirty' \in BOOLEAN /\ (dirty = TRUE => dirty' = TRUE)
           /\ task' = task \/ (task = "none" /\ task' = "top" /\ mode = "up" /\ ~Deleted)
           /\ \/ timer'.deadline = timer.deadline /\ timer'.needOn = timer.needOn
              \/ Pulse /\ timer'.deadline = "later"
           /\ timer' = timer \/ ~Deleted
<1> DEFINE level == IF Records(r) THEN [timer EXCEPT !.prev = run[r].level] ELSE timer
           start == Pulse /\ Triggers(r)
<1>1. run[r].level \in BOOLEAN /\ timer \in TimerOf /\ sheet.removed \in BOOLEAN /\ dirty \in BOOLEAN
  BY DEF Types, RunOf
<1>2. /\ timer' = (IF start THEN Started(level) ELSE level)
      /\ dirty' = (dirty \/ start \/ (timer.prev /\ ~level.prev)) /\ Spawn(start)
  BY DEF Act
<1>3. Records(r) => ~Deleted
  BY <1>1, DeletedIsDead DEF Act, Records, Live
<1>4. start => Pulse /\ Records(r)
  BY DEF Triggers
<1>5. /\ level \in TimerOf /\ level.deadline = timer.deadline /\ level.needOn = timer.needOn
      /\ level = timer \/ ~Deleted
  BY <1>1, <1>3 DEF TimerOf
<1>6. dirty' \in BOOLEAN /\ (dirty = TRUE => dirty' = TRUE)
  BY <1>2, Zenon
<1>7. task' = task \/ (task = "none" /\ task' = "top" /\ mode = "up" /\ start)
  BY <1>2 DEF Spawn
<1> HIDE DEF level, start
<1> QED
  BY <1>2, <1>3, <1>4, <1>5, <1>6, <1>7, StartedDoes

\* An event run acts: a pulse may start, and "on" is published only while one is on.
LEMMA ActEventKeeps ==
    ASSUME Types, Owns, Needs, Gone, PulseEnds, DelayFires,
           NEW r \in EventRun, Act(r)
    PROVE  Inv'
<1>1. /\ Types /\ run["timer"].asks \in Nat /\ mode # "down"
      /\ run' \in [Slot -> RunOf] /\ RunsKept /\ TimerRunKept
      /\ timer' \in TimerOf /\ dirty' \in BOOLEAN /\ (dirty = TRUE => dirty' = TRUE)
      /\ task' = task \/ (task = "none" /\ task' = "top" /\ mode = "up" /\ ~Deleted)
      /\ \/ timer'.deadline = timer.deadline /\ timer'.needOn = timer.needOn
         \/ Pulse /\ timer'.deadline = "later"
      /\ timer' = timer \/ ~Deleted
      /\ output' \in BOOLEAN
      /\ Still /\ UNCHANGED <<input, asked>>
      /\ output' = TRUE => (output = TRUE \/ (Pulse /\ timer'.deadline # "none"))
      /\ answered' = answered
  <2>1. Active(timer') = TRUE => timer'.deadline # "none"
    BY Zenon DEF Active
  <2>2. r \in Slot /\ r # "timer" /\ run[r].what = "event" /\ run[r] \in RunOf /\ run[r].active \in BOOLEAN
    BY TimerIsASlot DEF Owns, Types, RunOf
  <2>3. run' = Recorded(r) /\ output' = Published(r, timer') /\ UNCHANGED <<kind, result, sheet, mode, saved, input, asked, lost>>
    BY DEF Act
  <2>4. answered' = answered
    BY <2>2 DEF Act
  <2>5. output' \in BOOLEAN /\ (output' = TRUE => output = TRUE \/ (Pulse /\ timer'.deadline # "none"))
    BY <2>1, <2>2, <2>3 DEF Published, Types
  <2>9. run["timer"].asks \in Nat /\ mode # "down" /\ run[r].stage = "pass"
    BY TimerIsASlot DEF Act, Types, RunOf, Owns
  <2> QED
    BY <2>9, <2>2, <2>3, <2>4, <2>5, RecordedDoes, ActTimer DEF Still
<1>2. Types'
  BY <1>1 DEF Types, Still, Place, Results
<1>3. Owns'
  BY <1>1 DEF Types, Still, Deleted, Owns, Slot, TimerRunDisowned, Waits, OwnedRun, Mine, InFlight,
     RunsKept, EventRunsStay, TimerRun, TimerRunKept, Pulse
<1>4. Needs'
  BY <1>1 DEF Types, Still, Deleted, Needs, Pulse, Idle, Owns, Waits, OwnedRun, Gone, InFlight, Mine
<1>5. Gone'
  BY <1>1 DEF Types, Still, Gone, Deleted, Begun, RunsKept, NoneBegins, TimerRunDisowned, TimerRun,
     TimerRunKept, Idle, Owns, Mine, InFlight
<1>6. PulseEnds'
  BY <1>1 DEF Types, Still, Deleted, PulseEnds, TimerRunDisowned, OffDue, Due, Excused, Mine, InFlight,
     TimerRun, TimerRunKept, Pulse, Owns, Waits, OwnedRun, Gone, Needs, Idle
<1>7. DelayFires'
  BY <1>1 DEF Types, Still, Deleted, DelayFires, TimerRunDisowned, Due, Mine, TimerRun, TimerRunKept, Idle,
     Pulse, Owns, Waits, OwnedRun, Gone, InFlight
<1> QED
  BY <1>2, <1>3, <1>4, <1>5, <1>6, <1>7 DEF Inv

\* The block's run acts: it publishes the level it began with.
LEMMA ActTimerRunKeeps ==
    ASSUME Types, Owns, Needs, Gone, PulseEnds, DelayFires,
           Act("timer")
    PROVE  Inv'
<1>1. /\ Types /\ run["timer"].asks \in Nat /\ mode # "down"
      /\ run' \in [Slot -> RunOf] /\ RunsKept
      /\ run["timer"].stage = "pass"
      /\ TimerRun("written", run["timer"].what, run["timer"].active,
                  run["timer"].mine, run["timer"].abandoned, run["timer"].asks)
      /\ timer' \in TimerOf /\ dirty' \in BOOLEAN /\ (dirty = TRUE => dirty' = TRUE)
      /\ task' = task \/ (task = "none" /\ task' = "top" /\ mode = "up" /\ ~Deleted)
      /\ \/ timer'.deadline = timer.deadline /\ timer'.needOn = timer.needOn
         \/ Pulse /\ timer'.deadline = "later"
      /\ timer' = timer \/ ~Deleted
      /\ output' \in BOOLEAN
      /\ Still /\ UNCHANGED <<input, asked>>
      /\ output' = IF Pulse THEN run["timer"].active ELSE output
      /\ answered' = IF run["timer"].what = "fire" /\ Mine THEN run["timer"].asks ELSE answered
  <2>1. "timer" \in Slot /\ run["timer"] \in RunOf /\ run["timer"].active \in BOOLEAN /\ run["timer"].mine \in BOOLEAN
    BY TimerIsASlot DEF Owns, Types, RunOf
  <2>2. /\ run' = Recorded("timer") /\ output' = Published("timer", timer')
        /\ UNCHANGED <<kind, result, sheet, mode, saved, input, asked, lost>>
        /\ run["timer"].stage = "pass"
    BY DEF Act
  <2>3. answered' = IF run["timer"].what = "fire" /\ Mine THEN run["timer"].asks ELSE answered
    BY <2>1 DEF Act, Mine
  <2>4. output' \in BOOLEAN /\ output' = IF Pulse THEN run["timer"].active ELSE output
    BY <2>1, <2>2 DEF Published, Types
  <2>9. run["timer"].asks \in Nat /\ mode # "down" /\ run["timer"].stage = "pass"
    BY TimerIsASlot DEF Act, Types, RunOf, Owns
  <2> QED
    BY <2>9, <2>1, <2>2, <2>3, <2>4, RecordedDoes, ActTimer DEF Still
<1>2. Types'
  BY <1>1 DEF Types, Still, Place, Results
<1>3. Owns'
  BY <1>1 DEF Types, Still, Deleted, Owns, Slot, TimerRunDisowned, Waits, OwnedRun, Mine, InFlight,
     RunsKept, EventRunsStay, TimerRun, TimerRunKept, Pulse
<1>4. Needs'
  BY <1>1 DEF Types, Still, Deleted, Needs, Pulse, Idle, Owns, Waits, OwnedRun, Gone, InFlight, Mine
<1>5. Gone'
  BY <1>1 DEF Types, Still, Gone, Deleted, Begun, RunsKept, NoneBegins, TimerRunDisowned, TimerRun,
     TimerRunKept, Idle, Owns, Mine, InFlight
<1>6. PulseEnds'
  BY <1>1 DEF Types, Still, Deleted, PulseEnds, TimerRunDisowned, OffDue, Due, Excused, Mine, InFlight,
     TimerRun, TimerRunKept, Pulse, Owns, Waits, OwnedRun, Gone, Needs, Idle
<1>7. DelayFires'
  BY <1>1 DEF Types, Still, Deleted, DelayFires, TimerRunDisowned, Due, Mine, TimerRun, TimerRunKept, Idle,
     Pulse, Owns, Waits, OwnedRun, Gone, InFlight
<1> QED
  BY <1>2, <1>3, <1>4, <1>5, <1>6, <1>7 DEF Inv

\* A run that concludes may start the delay, and saves.
LEMMA ConcludeTimer ==
    ASSUME Types, Gone, NEW r \in Slot, Conclude(r)
    PROVE  /\ timer' \in TimerOf /\ saved' \in TimerOf /\ dirty' \in BOOLEAN
           /\ task' = task \/ (task = "none" /\ task' = "top" /\ mode = "up" /\ ~Deleted)
           /\ \/ timer' = timer /\ asked' = asked /\ (dirty = FALSE => saved' = saved)
              \/ /\ ~Deleted /\ asked' = asked + 1
                 /\ timer'.deadline = "later" /\ (timer'.needOn = TRUE => Pulse \/ timer.needOn = TRUE)
           /\ \/ saved' = timer'
              \/ /\ saved' = saved
                 /\ sheet.removed = TRUE \/ (dirty = FALSE /\ asked' = asked) \/ dirty' = TRUE
           /\ sheet.removed = TRUE => saved' = saved
           /\ mode \notin {"up"} => dirty' = FALSE
<1> DEFINE start == run[r].pending /\ ~run[r].moved /\ Live(r)
<1>1. /\ timer' = (IF start THEN Started(timer) ELSE timer) /\ asked' = (IF start THEN asked + 1 ELSE asked)
      /\ Spawn(start) /\ Persist(timer', dirty \/ start)
  BY DEF Conclude
<1>2. timer \in TimerOf /\ sheet.removed \in BOOLEAN /\ dirty \in BOOLEAN /\ asked \in Nat
  BY DEF Types
<1>3. start => ~Deleted
  BY <1>2, DeletedIsDead DEF Conclude, Live
<1>4. (dirty \/ start) \in BOOLEAN /\ ((dirty \/ start) = FALSE => dirty = FALSE /\ ~start)
      /\ (dirty = FALSE /\ ~start => (dirty \/ start) = FALSE)
  BY <1>2, Zenon
<1> HIDE DEF start
<1>5. timer' \in TimerOf
  BY <1>1, <1>2, StartedDoes
<1>6. task' = task \/ (task = "none" /\ task' = "top" /\ mode = "up" /\ ~Deleted)
  BY <1>1, <1>3 DEF Spawn
<1>7. /\ saved' \in TimerOf /\ dirty' \in BOOLEAN
      /\ saved' = timer' \/ (saved' = saved /\ (sheet.removed = TRUE \/ (dirty \/ start) = FALSE \/ dirty' = TRUE))
      /\ (dirty \/ start) = FALSE \/ sheet.removed = TRUE => saved' = saved
      /\ mode \notin {"up"} => dirty' = FALSE
  BY <1>1, <1>4, <1>5, PersistDoes
<1> QED
  BY <1>1, <1>2, <1>3, <1>4, <1>5, <1>6, <1>7, StartedDoes

\* An event run ends: the delay may start.
LEMMA ConcludeEventKeeps ==
    ASSUME Types, Owns, Needs, Gone, PulseEnds, DelayFires,
           NEW r \in EventRun, Conclude(r)
    PROVE  Inv'
<1>1. /\ Types /\ run["timer"].asks \in Nat /\ mode # "down"
      /\ run' \in [Slot -> RunOf] /\ RunsKept /\ TimerRunKept
      /\ timer' \in TimerOf /\ saved' \in TimerOf /\ dirty' \in BOOLEAN
      /\ task' = task \/ (task = "none" /\ task' = "top" /\ mode = "up" /\ ~Deleted)
      /\ \/ timer' = timer /\ asked' = asked /\ (dirty = FALSE => saved' = saved)
         \/ /\ ~Deleted /\ asked' = asked + 1
            /\ timer'.deadline = "later" /\ (timer'.needOn = TRUE => Pulse \/ timer.needOn = TRUE)
      /\ \/ saved' = timer'
         \/ /\ saved' = saved
            /\ sheet.removed = TRUE \/ (dirty = FALSE /\ asked' = asked) \/ dirty' = TRUE
      /\ sheet.removed = TRUE => saved' = saved
      /\ mode \notin {"up"} => dirty' = FALSE
      /\ UNCHANGED <<kind, sheet, mode, input, output, answered, lost>>
      /\ result' = result
  <2>1. r \in Slot /\ r # "timer" /\ run[r].mine = FALSE
    BY TimerIsASlot DEF Owns
  <2>2. /\ run' = [run EXCEPT ![r] = NoRun] /\ result' = result
        /\ UNCHANGED <<kind, sheet, mode, input, output, answered, lost>>
    BY <2>1 DEF Conclude, outside
  <2>9. run["timer"].asks \in Nat /\ mode # "down"
    BY TimerIsASlot DEF Conclude, Types, RunOf, Owns
  <2> QED
    BY <2>9, <2>1, <2>2, RunEnds, ConcludeTimer
<1>2. Types'
  BY <1>1 DEF Types, Still, Place, Results
<1>3. Owns'
  BY <1>1 DEF Types, Still, Deleted, Owns, Slot, TimerRunDisowned, Waits, OwnedRun, Mine, InFlight,
     RunsKept, EventRunsStay, TimerRun, TimerRunKept, Pulse
<1>4. Needs'
  BY <1>1 DEF Types, Still, Deleted, Needs, Pulse, Idle, Owns, Waits, OwnedRun, Gone, InFlight, Mine
<1>5. Gone'
  BY <1>1 DEF Types, Still, Gone, Deleted, Begun, RunsKept, NoneBegins, TimerRunDisowned, TimerRun,
     TimerRunKept, Idle, Owns, Mine, InFlight
<1>6. PulseEnds'
  BY <1>1 DEF Types, Still, Deleted, PulseEnds, TimerRunDisowned, OffDue, Due, Excused, Mine, InFlight,
     TimerRun, TimerRunKept, Pulse, Owns, Waits, OwnedRun, Gone, Needs, Idle
<1>7. DelayFires'
  BY <1>1 DEF Types, Still, Deleted, DelayFires, TimerRunDisowned, Due, Mine, TimerRun, TimerRunKept, Idle,
     Pulse, Owns, Waits, OwnedRun, Gone, InFlight
<1> QED
  BY <1>2, <1>3, <1>4, <1>5, <1>6, <1>7 DEF Inv

\* The block's run ends, and its task learns it.
LEMMA ConcludeTimerRunKeeps ==
    ASSUME Types, Owns, Needs, Gone, PulseEnds, DelayFires,
           Conclude("timer")
    PROVE  Inv'
<1>1. /\ Types /\ run["timer"].asks \in Nat /\ mode # "down"
      /\ run' \in [Slot -> RunOf] /\ RunsKept
      /\ run["timer"].stage = "written"
      /\ TimerRun("none", "event", FALSE, FALSE, FALSE, 0)
      /\ timer' \in TimerOf /\ saved' \in TimerOf /\ dirty' \in BOOLEAN
      /\ task' = task \/ (task = "none" /\ task' = "top" /\ mode = "up" /\ ~Deleted)
      /\ \/ timer' = timer /\ asked' = asked /\ (dirty = FALSE => saved' = saved)
         \/ /\ ~Deleted /\ asked' = asked + 1
            /\ timer'.deadline = "later" /\ (timer'.needOn = TRUE => Pulse \/ timer.needOn = TRUE)
      /\ \/ saved' = timer'
         \/ /\ saved' = saved
            /\ sheet.removed = TRUE \/ (dirty = FALSE /\ asked' = asked) \/ dirty' = TRUE
      /\ sheet.removed = TRUE => saved' = saved
      /\ mode \notin {"up"} => dirty' = FALSE
      /\ UNCHANGED <<kind, sheet, mode, input, output, answered, lost>>
      /\ result' = IF Mine /\ run["timer"].abandoned = FALSE THEN "ran" ELSE result
  <2>1. "timer" \in Slot /\ run["timer"].mine \in BOOLEAN /\ run["timer"].abandoned \in BOOLEAN
    BY TimerIsASlot DEF Types, RunOf
  <2>2. /\ run' = [run EXCEPT !["timer"] = NoRun]
        /\ UNCHANGED <<kind, sheet, mode, input, output, answered, lost>>
        /\ run["timer"].stage = "written"
        /\ result' = IF Mine /\ run["timer"].abandoned = FALSE THEN "ran" ELSE result
    BY <2>1 DEF Conclude, outside, Mine
  <2>9. run["timer"].asks \in Nat /\ mode # "down"
    BY TimerIsASlot DEF Conclude, Types, RunOf, Owns
  <2> QED
    BY <2>9, <2>1, <2>2, RunEnds, ConcludeTimer
<1>2. Types'
  BY <1>1 DEF Types, Still, Place, Results
<1>3. Owns'
  BY <1>1 DEF Types, Still, Deleted, Owns, Slot, TimerRunDisowned, Waits, OwnedRun, Mine, InFlight,
     RunsKept, EventRunsStay, TimerRun, TimerRunKept, Pulse
<1>4. Needs'
  BY <1>1 DEF Types, Still, Deleted, Needs, Pulse, Idle, Owns, Waits, OwnedRun, Gone, InFlight, Mine
<1>5. Gone'
  BY <1>1 DEF Types, Still, Gone, Deleted, Begun, RunsKept, NoneBegins, TimerRunDisowned, TimerRun,
     TimerRunKept, Idle, Owns, Mine, InFlight
<1>6. PulseEnds'
  BY <1>1 DEF Types, Still, Deleted, PulseEnds, TimerRunDisowned, OffDue, Due, Excused, Mine, InFlight,
     TimerRun, TimerRunKept, Pulse, Owns, Waits, OwnedRun, Gone, Needs, Idle
<1>7. DelayFires'
  BY <1>1 DEF Types, Still, Deleted, DelayFires, TimerRunDisowned, Due, Mine, TimerRun, TimerRunKept, Idle,
     Pulse, Owns, Waits, OwnedRun, Gone, InFlight
<1> QED
  BY <1>2, <1>3, <1>4, <1>5, <1>6, <1>7 DEF Inv

-----------------------------------------------------------------------------
(* The task. *)

LEMMA RunGraphDoes ==
    ASSUME Types, NEW what \in {"start", "end", "fire"}, NEW place, NEW changed, NEW takenBack,
           RunGraph(what, place, changed, takenBack)
    PROVE  /\ run' \in [Slot -> RunOf] /\ RunsKept
           /\ ~InFlight("timer")
           /\ \/ /\ timer' = changed /\ dirty' = TRUE /\ task' = place /\ sheet.loaded # FALSE
                 /\ TimerRun("new", what, FALSE, TRUE, FALSE, asked)
              \/ timer' = takenBack /\ task' = "none" /\ UNCHANGED dirty /\ TimerRunKept
           /\ UNCHANGED <<kind, result, sheet, mode, saved, input, output, asked, answered, lost>>
<1>1. CASE Runs
  BY <1>1, RunBegins DEF RunGraph, Runs, NoTimerRun, outside, count
<1>2. CASE ~Runs
  BY <1>2, RunUnchanged DEF RunGraph, NoTimerRun, outside, count
<1> QED
  BY <1>1, <1>2

\* A due delay starts its run; in a sheet that is not running it stays due.
LEMMA FireDelayKeeps ==
    ASSUME Types, Owns, Needs, Gone, PulseEnds, DelayFires,
           FireDelay
    PROVE  Inv'
<1>1. /\ Types /\ run' \in [Slot -> RunOf] /\ RunsKept /\ run["timer"].asks \in Nat
      /\ ~InFlight("timer") /\ task = "top" /\ ~Pulse /\ timer.deadline = "now"
      /\ timer' \in TimerOf /\ dirty' \in BOOLEAN
      /\ \/ /\ timer'.deadline = "none" /\ timer'.needOn = timer.needOn
            /\ dirty' = TRUE /\ task' = "waitFire" /\ TimerRun("new", "fire", FALSE, TRUE, FALSE, asked)
            /\ sheet.loaded # FALSE
         \/ /\ timer'.deadline = timer.deadline /\ timer'.needOn = timer.needOn
            /\ task' = "none" /\ UNCHANGED dirty /\ TimerRunKept
      /\ UNCHANGED <<kind, result, sheet, mode, saved, input, output, asked, answered, lost>>
  <2>1. Types /\ run["timer"].asks \in Nat /\ timer \in TimerOf /\ dirty \in BOOLEAN
    BY TimerIsASlot DEF Types, RunOf
  <2> DEFINE changed == [timer EXCEPT !.deadline = "none"]
             takenBack == timer
  <2>2. /\ changed \in TimerOf /\ changed.deadline = "none" /\ changed.needOn = timer.needOn
        /\ takenBack \in TimerOf /\ takenBack.deadline = timer.deadline /\ takenBack.needOn = timer.needOn
    BY <2>1 DEF TimerOf
  <2>3. RunGraph("fire", "waitFire", changed, takenBack) /\ task = "top" /\ ~Pulse /\ timer.deadline = "now"
    BY DEF FireDelay
  <2> HIDE DEF changed, takenBack
  <2>4. /\ run' \in [Slot -> RunOf] /\ RunsKept /\ ~InFlight("timer")
        /\ \/ /\ timer' = changed /\ dirty' = TRUE /\ task' = "waitFire"
              /\ TimerRun("new", "fire", FALSE, TRUE, FALSE, asked)
              /\ sheet.loaded # FALSE
           \/ timer' = takenBack /\ task' = "none" /\ UNCHANGED dirty /\ TimerRunKept
        /\ UNCHANGED <<kind, result, sheet, mode, saved, input, output, asked, answered, lost>>
    BY <2>3, RunGraphDoes
  <2> QED
    BY ONLY <2>1, <2>2, <2>3, <2>4
<1>2. Types'
  <2>1. /\ Types /\ run' \in [Slot -> RunOf] /\ timer' \in TimerOf /\ dirty' \in BOOLEAN
        /\ task' \in Place
    BY <1>1 DEF Place
  <2>2. UNCHANGED <<kind, result, sheet, mode, saved, input, output, asked, answered, lost>>
    BY <1>1
  <2>3. QED
    BY ONLY <2>1, <2>2 DEF Types
<1>3. Owns'
  BY <1>1 DEF Types, Still, Owns, Slot, TimerRunDisowned, Waits, OwnedRun, Mine, InFlight,
     RunsKept, EventRunsStay, TimerRun, TimerRunKept, Pulse
<1>4. Needs'
  BY <1>1 DEF Types, Still, Needs, Pulse, Idle, Owns, Waits, OwnedRun, Gone, InFlight, Mine
<1>5. Gone'
  BY <1>1 DEF Types, Still, Gone, Begun, RunsKept, NoneBegins, TimerRunDisowned, TimerRun,
     TimerRunKept, Idle, Owns, Mine, InFlight
<1>6. PulseEnds'
  BY <1>1 DEF Types, Still, PulseEnds, TimerRunDisowned, OffDue, Due, Excused, Mine, InFlight,
     TimerRun, TimerRunKept, Pulse, Owns, Waits, OwnedRun, Gone, Needs, Idle
<1>7. DelayFires'
  <2>1. /\ ~Pulse /\ answered' = answered /\ asked' = asked /\ asked \in Nat /\ answered <= asked
        /\ asked > answered /\ saved' = saved /\ run["timer"].asks <= asked
    BY <1>1 DEF Pulse, Types, DelayFires
  <2>2. CASE timer'.deadline = timer.deadline
    <3>1. (TimerRunKept /\ task' = "none") \/ timer'.deadline = "none"
      BY <1>1
    <3>2. task' = "none" /\ run'["timer"].asks = run["timer"].asks /\ dirty' = dirty
      BY <1>1, <2>2 DEF TimerRunKept, TimerRun
    <3>3. ~Due("fire")'
      BY <1>1, <2>2 DEF TimerRun, TimerRunKept, Due, Mine, Owns, InFlight
    <3> QED
      BY <2>1, <3>2, <3>3 DEF DelayFires, Pulse
  <2>3. CASE timer'.deadline = "none"
    <3>1. dirty' = TRUE /\ task' = "waitFire" /\ result' = result /\ run'["timer"].asks = asked
      BY <1>1, <2>3 DEF TimerRun
    <3> QED
      BY <2>1, <2>3, <3>1 DEF DelayFires, Pulse
  <2> QED
    BY <1>1, <2>2, <2>3
<1> QED
  BY <1>2, <1>3, <1>4, <1>5, <1>6, <1>7 DEF Inv

\* A pulse starts the run that switches it on.
LEMMA StartPulseKeeps ==
    ASSUME Types, Owns, Needs, Gone, PulseEnds, DelayFires,
           StartPulse
    PROVE  Inv'
<1>1. /\ Types /\ run' \in [Slot -> RunOf] /\ RunsKept /\ run["timer"].asks \in Nat
      /\ ~InFlight("timer") /\ task = "top" /\ Pulse /\ timer.deadline # "none" /\ timer.needOn
      /\ timer' \in TimerOf /\ dirty' \in BOOLEAN
      /\ \/ /\ timer'.deadline = timer.deadline /\ timer'.needOn = FALSE
            /\ dirty' = TRUE /\ task' = "waitStart" /\ TimerRun("new", "start", FALSE, TRUE, FALSE, asked)
            /\ sheet.loaded # FALSE
         \/ /\ timer'.deadline = timer.deadline /\ timer'.needOn = timer.needOn
            /\ task' = "none" /\ UNCHANGED dirty /\ TimerRunKept
      /\ UNCHANGED <<kind, result, sheet, mode, saved, input, output, asked, answered, lost>>
  <2>1. Types /\ run["timer"].asks \in Nat /\ timer \in TimerOf /\ dirty \in BOOLEAN
    BY TimerIsASlot DEF Types, RunOf
  <2> DEFINE changed == [timer EXCEPT !.needOn = FALSE]
             takenBack == timer
  <2>2. /\ changed \in TimerOf /\ changed.deadline = timer.deadline /\ changed.needOn = FALSE
        /\ takenBack \in TimerOf /\ takenBack.deadline = timer.deadline /\ takenBack.needOn = timer.needOn
    BY <2>1 DEF TimerOf
  <2>3. RunGraph("start", "waitStart", changed, takenBack) /\ task = "top" /\ Pulse /\ timer.deadline # "none" /\ timer.needOn
    BY DEF StartPulse
  <2> HIDE DEF changed, takenBack
  <2>4. /\ run' \in [Slot -> RunOf] /\ RunsKept /\ ~InFlight("timer")
        /\ \/ /\ timer' = changed /\ dirty' = TRUE /\ task' = "waitStart"
              /\ TimerRun("new", "start", FALSE, TRUE, FALSE, asked)
              /\ sheet.loaded # FALSE
           \/ timer' = takenBack /\ task' = "none" /\ UNCHANGED dirty /\ TimerRunKept
        /\ UNCHANGED <<kind, result, sheet, mode, saved, input, output, asked, answered, lost>>
    BY <2>3, RunGraphDoes
  <2> QED
    BY ONLY <2>1, <2>2, <2>3, <2>4
<1>2. Types'
  <2>1. /\ Types /\ run' \in [Slot -> RunOf] /\ timer' \in TimerOf /\ dirty' \in BOOLEAN
        /\ task' \in Place
    BY <1>1 DEF Place
  <2>2. UNCHANGED <<kind, result, sheet, mode, saved, input, output, asked, answered, lost>>
    BY <1>1
  <2>3. QED
    BY ONLY <2>1, <2>2 DEF Types
<1>3. Owns'
  BY <1>1 DEF Types, Still, Owns, Slot, TimerRunDisowned, Waits, OwnedRun, Mine, InFlight,
     RunsKept, EventRunsStay, TimerRun, TimerRunKept, Pulse
<1>4. Needs'
  BY <1>1 DEF Types, Still, Needs, Pulse, Idle, Owns, Waits, OwnedRun, Gone, InFlight, Mine
<1>5. Gone'
  BY <1>1 DEF Types, Still, Gone, Begun, RunsKept, NoneBegins, TimerRunDisowned, TimerRun,
     TimerRunKept, Idle, Owns, Mine, InFlight
<1>6. PulseEnds'
  BY <1>1 DEF Types, Still, PulseEnds, TimerRunDisowned, OffDue, Due, Excused, Mine, InFlight,
     TimerRun, TimerRunKept, Pulse, Owns, Waits, OwnedRun, Gone, Needs, Idle
<1>7. DelayFires'
  <2>1. Pulse' /\ answered' = answered /\ asked' = asked /\ asked \in Nat /\ answered <= asked
    BY <1>1 DEF Pulse, Types, DelayFires
  <2>2. task' \in {"waitStart", "none"}
    BY <1>1
  <2>3. run'["timer"].asks <= asked
    <3>1. run'["timer"].asks = asked \/ run'["timer"].asks = run["timer"].asks
      BY <1>1, Zenon DEF TimerRun, TimerRunKept
    <3>2. run["timer"].asks <= asked /\ asked <= asked
      BY <2>1 DEF DelayFires
    <3> QED
      BY ONLY <3>1, <3>2
  <2>4. ~Due("fire")'
    BY <1>1 DEF TimerRun, TimerRunKept, Due, Mine, Owns, InFlight
  <2> QED
    BY <2>1, <2>2, <2>3, <2>4 DEF DelayFires
<1> QED
  BY <1>2, <1>3, <1>4, <1>5, <1>6, <1>7 DEF Inv

\* A pulse that has run out starts the run that switches it off.
LEMMA EndPulseKeeps ==
    ASSUME Types, Owns, Needs, Gone, PulseEnds, DelayFires,
           EndPulse
    PROVE  Inv'
<1>1. /\ Types /\ run' \in [Slot -> RunOf] /\ RunsKept /\ run["timer"].asks \in Nat
      /\ ~InFlight("timer") /\ task = "top" /\ Pulse /\ timer.deadline = "now" /\ ~timer.needOn
      /\ timer' \in TimerOf /\ dirty' \in BOOLEAN
      /\ \/ /\ timer'.deadline = "none" /\ timer'.needOn = timer.needOn
            /\ dirty' = TRUE /\ task' = "waitEnd" /\ TimerRun("new", "end", FALSE, TRUE, FALSE, asked)
            /\ sheet.loaded # FALSE
         \/ /\ timer'.deadline = timer.deadline /\ timer'.needOn = timer.needOn
            /\ task' = "none" /\ UNCHANGED dirty /\ TimerRunKept
      /\ UNCHANGED <<kind, result, sheet, mode, saved, input, output, asked, answered, lost>>
  <2>1. Types /\ run["timer"].asks \in Nat /\ timer \in TimerOf /\ dirty \in BOOLEAN
    BY TimerIsASlot DEF Types, RunOf
  <2> DEFINE changed == [timer EXCEPT !.deadline = "none"]
             takenBack == timer
  <2>2. /\ changed \in TimerOf /\ changed.deadline = "none" /\ changed.needOn = timer.needOn
        /\ takenBack \in TimerOf /\ takenBack.deadline = timer.deadline /\ takenBack.needOn = timer.needOn
    BY <2>1 DEF TimerOf
  <2>3. RunGraph("end", "waitEnd", changed, takenBack) /\ task = "top" /\ Pulse /\ timer.deadline = "now" /\ ~timer.needOn
    BY DEF EndPulse
  <2> HIDE DEF changed, takenBack
  <2>4. /\ run' \in [Slot -> RunOf] /\ RunsKept /\ ~InFlight("timer")
        /\ \/ /\ timer' = changed /\ dirty' = TRUE /\ task' = "waitEnd"
              /\ TimerRun("new", "end", FALSE, TRUE, FALSE, asked)
              /\ sheet.loaded # FALSE
           \/ timer' = takenBack /\ task' = "none" /\ UNCHANGED dirty /\ TimerRunKept
        /\ UNCHANGED <<kind, result, sheet, mode, saved, input, output, asked, answered, lost>>
    BY <2>3, RunGraphDoes
  <2> QED
    BY ONLY <2>1, <2>2, <2>3, <2>4
<1>2. Types'
  <2>1. /\ Types /\ run' \in [Slot -> RunOf] /\ timer' \in TimerOf /\ dirty' \in BOOLEAN
        /\ task' \in Place
    BY <1>1 DEF Place
  <2>2. UNCHANGED <<kind, result, sheet, mode, saved, input, output, asked, answered, lost>>
    BY <1>1
  <2>3. QED
    BY ONLY <2>1, <2>2 DEF Types
<1>3. Owns'
  BY <1>1 DEF Types, Still, Owns, Slot, TimerRunDisowned, Waits, OwnedRun, Mine, InFlight,
     RunsKept, EventRunsStay, TimerRun, TimerRunKept, Pulse
<1>4. Needs'
  BY <1>1 DEF Types, Still, Needs, Pulse, Idle, Owns, Waits, OwnedRun, Gone, InFlight, Mine
<1>5. Gone'
  BY <1>1 DEF Types, Still, Gone, Begun, RunsKept, NoneBegins, TimerRunDisowned, TimerRun,
     TimerRunKept, Idle, Owns, Mine, InFlight
<1>6. PulseEnds'
  BY <1>1 DEF Types, Still, PulseEnds, TimerRunDisowned, OffDue, Due, Excused, Mine, InFlight,
     TimerRun, TimerRunKept, Pulse, Owns, Waits, OwnedRun, Gone, Needs, Idle
<1>7. DelayFires'
  <2>1. Pulse /\ Pulse' /\ answered' = answered /\ asked' = asked /\ asked \in Nat /\ answered <= asked
    BY <1>1 DEF Pulse, Types, DelayFires, Owns
  <2>2. task' \in {"waitEnd", "none"}
    BY <1>1
  <2>3. run'["timer"].asks <= asked
    <3>1. run'["timer"].asks = asked \/ run'["timer"].asks = run["timer"].asks
      BY <1>1, Zenon DEF TimerRun, TimerRunKept
    <3>2. run["timer"].asks <= asked /\ asked <= asked
      BY <2>1 DEF DelayFires
    <3> QED
      BY ONLY <3>1, <3>2
  <2>4. ~Due("fire")'
    BY <1>1 DEF TimerRun, TimerRunKept, Due, Mine, Owns, InFlight
  <2> QED
    BY <2>1, <2>2, <2>3, <2>4 DEF DelayFires
<1> QED
  BY <1>2, <1>3, <1>4, <1>5, <1>6, <1>7 DEF Inv

\* The end of a pulse is tried again; in a sheet that is not running it becomes due.
LEMMA RetryEndAgainKeeps ==
    ASSUME Types, Owns, Needs, Gone, PulseEnds, DelayFires,
           RetryEnd, timer.deadline = "none"
    PROVE  Inv'
<1>1. /\ Types /\ run' \in [Slot -> RunOf] /\ RunsKept /\ run["timer"].asks \in Nat
      /\ ~InFlight("timer") /\ task = "pauseEnd"
      /\ timer' \in TimerOf /\ dirty' \in BOOLEAN
      /\ \/ /\ timer'.deadline = timer.deadline /\ timer'.needOn = timer.needOn
            /\ dirty' = TRUE /\ task' = "waitEnd" /\ TimerRun("new", "end", FALSE, TRUE, FALSE, asked)
            /\ sheet.loaded # FALSE
         \/ /\ timer'.deadline = "now" /\ timer'.needOn = timer.needOn
            /\ task' = "none" /\ UNCHANGED dirty /\ TimerRunKept
      /\ UNCHANGED <<kind, result, sheet, mode, saved, input, output, asked, answered, lost>>
  <2>1. Types /\ run["timer"].asks \in Nat /\ timer \in TimerOf /\ dirty \in BOOLEAN
    BY TimerIsASlot DEF Types, RunOf
  <2> DEFINE changed == timer
             takenBack == [timer EXCEPT !.deadline = "now"]
  <2>2. /\ changed \in TimerOf /\ changed.deadline = timer.deadline /\ changed.needOn = timer.needOn
        /\ takenBack \in TimerOf /\ takenBack.deadline = "now" /\ takenBack.needOn = timer.needOn
    BY <2>1 DEF TimerOf
  <2>3. RunGraph("end", "waitEnd", changed, takenBack) /\ task = "pauseEnd"
    BY DEF RetryEnd
  <2> HIDE DEF changed, takenBack
  <2>4. /\ run' \in [Slot -> RunOf] /\ RunsKept /\ ~InFlight("timer")
        /\ \/ /\ timer' = changed /\ dirty' = TRUE /\ task' = "waitEnd"
              /\ TimerRun("new", "end", FALSE, TRUE, FALSE, asked)
              /\ sheet.loaded # FALSE
           \/ timer' = takenBack /\ task' = "none" /\ UNCHANGED dirty /\ TimerRunKept
        /\ UNCHANGED <<kind, result, sheet, mode, saved, input, output, asked, answered, lost>>
    BY <2>3, RunGraphDoes
  <2> QED
    BY ONLY <2>1, <2>2, <2>3, <2>4
<1>2. Types'
  <2>1. /\ Types /\ run' \in [Slot -> RunOf] /\ timer' \in TimerOf /\ dirty' \in BOOLEAN
        /\ task' \in Place
    BY <1>1 DEF Place
  <2>2. UNCHANGED <<kind, result, sheet, mode, saved, input, output, asked, answered, lost>>
    BY <1>1
  <2>3. QED
    BY ONLY <2>1, <2>2 DEF Types
<1>3. Owns'
  BY <1>1 DEF Types, Still, Owns, Slot, TimerRunDisowned, Waits, OwnedRun, Mine, InFlight,
     RunsKept, EventRunsStay, TimerRun, TimerRunKept, Pulse
<1>4. Needs'
  BY <1>1 DEF Types, Still, Needs, Pulse, Idle, Owns, Waits, OwnedRun, Gone, InFlight, Mine
<1>5. Gone'
  BY <1>1 DEF Types, Still, Gone, Begun, RunsKept, NoneBegins, TimerRunDisowned, TimerRun,
     TimerRunKept, Idle, Owns, Mine, InFlight
<1>6. PulseEnds'
  BY <1>1 DEF Types, Still, PulseEnds, TimerRunDisowned, OffDue, Due, Excused, Mine, InFlight,
     TimerRun, TimerRunKept, Pulse, Owns, Waits, OwnedRun, Gone, Needs, Idle
<1>7. DelayFires'
  <2>1. Pulse /\ Pulse' /\ answered' = answered /\ asked' = asked /\ asked \in Nat /\ answered <= asked
    BY <1>1 DEF Pulse, Types, DelayFires, Owns
  <2>2. task' \in {"waitEnd", "none"}
    BY <1>1
  <2>3. run'["timer"].asks <= asked
    <3>1. run'["timer"].asks = asked \/ run'["timer"].asks = run["timer"].asks
      BY <1>1, Zenon DEF TimerRun, TimerRunKept
    <3>2. run["timer"].asks <= asked /\ asked <= asked
      BY <2>1 DEF DelayFires
    <3> QED
      BY ONLY <3>1, <3>2
  <2>4. ~Due("fire")'
    BY <1>1 DEF TimerRun, TimerRunKept, Due, Mine, Owns, InFlight
  <2> QED
    BY <2>1, <2>2, <2>3, <2>4 DEF DelayFires
<1> QED
  BY <1>2, <1>3, <1>4, <1>5, <1>6, <1>7 DEF Inv

\* The task ends when nothing is due.
LEMMA TaskEndsKeeps ==
    ASSUME Types, Owns, Needs, Gone, PulseEnds, DelayFires,
           TaskEnds
    PROVE  Inv'
<1>1. /\ Types /\ run' \in [Slot -> RunOf] /\ RunsKept /\ TimerRunKept /\ run["timer"].asks \in Nat
      /\ timer' \in TimerOf /\ dirty' \in BOOLEAN
      /\ UNCHANGED <<kind, sheet, mode, saved, input, output, asked, answered, lost>>
      /\ task = "top" /\ timer.deadline = "none" /\ task' = "none" /\ result' = "none"
      /\ UNCHANGED <<timer, dirty>>
  <2>1. /\ run["timer"].asks \in Nat /\ timer \in TimerOf /\ dirty \in BOOLEAN
        /\ timer.deadline \in {"none", "later", "now"} /\ timer.needOn \in BOOLEAN
    BY TimerIsASlot DEF Types, RunOf, TimerOf
  <2>2. UNCHANGED run
    BY DEF TaskEnds, TaskStep
  <2> QED
    BY <2>1, <2>2, RunUnchanged DEF TaskEnds, TaskStep, outside, count, TimerOf
<1>2. Types'
  BY <1>1 DEF Types, Still, Place, Results
<1>3. Owns'
  BY <1>1 DEF Types, Still, Owns, Slot, TimerRunDisowned, Waits, OwnedRun, Mine, InFlight,
     RunsKept, EventRunsStay, TimerRun, TimerRunKept, Pulse
<1>4. Needs'
  BY <1>1 DEF Types, Still, Needs, Pulse, Idle, Owns, Waits, OwnedRun, Gone, InFlight, Mine
<1>5. Gone'
  BY <1>1 DEF Types, Still, Gone, Begun, RunsKept, NoneBegins, TimerRunDisowned, TimerRun,
     TimerRunKept, Idle, Owns, Mine, InFlight
<1>6. PulseEnds'
  BY <1>1 DEF Types, Still, PulseEnds, TimerRunDisowned, OffDue, Due, Excused, Mine, InFlight,
     TimerRun, TimerRunKept, Pulse, Owns, Waits, OwnedRun, Gone, Needs, Idle
<1>7. DelayFires'
  BY <1>1 DEF Types, Still, DelayFires, TimerRunDisowned, Due, Mine, TimerRun, TimerRunKept, Idle,
     Pulse, Owns, Waits, OwnedRun, Gone, InFlight
<1> QED
  BY <1>2, <1>3, <1>4, <1>5, <1>6, <1>7 DEF Inv

\* After the run of a delay: what failed is pending again.
LEMMA AfterFireKeeps ==
    ASSUME Types, Owns, Needs, Gone, PulseEnds, DelayFires,
           AfterFire
    PROVE  Inv'
<1>1. /\ Types /\ run' \in [Slot -> RunOf] /\ RunsKept /\ TimerRunKept /\ run["timer"].asks \in Nat
      /\ timer' \in TimerOf /\ dirty' \in BOOLEAN
      /\ UNCHANGED <<kind, sheet, mode, saved, input, output, asked, answered, lost>>
      /\ task = "waitFire" /\ result # "none" /\ task' = "top" /\ result' = "none"
      /\ dirty' = dirty /\ timer'.needOn = timer.needOn
      /\ timer'.deadline = IF result = "failed" /\ timer.deadline = "none" THEN "later" ELSE timer.deadline
  <2>1. /\ run["timer"].asks \in Nat /\ timer \in TimerOf /\ dirty \in BOOLEAN
        /\ timer.deadline \in {"none", "later", "now"} /\ timer.needOn \in BOOLEAN
    BY TimerIsASlot DEF Types, RunOf, TimerOf
  <2>2. UNCHANGED run
    BY DEF AfterFire, TaskStep
  <2> QED
    BY <2>1, <2>2, RunUnchanged DEF AfterFire, TaskStep, outside, count, TimerOf
<1>2. Types'
  BY <1>1 DEF Types, Still, Place, Results
<1>3. Owns'
  BY <1>1 DEF Types, Still, Owns, Slot, TimerRunDisowned, Waits, OwnedRun, Mine, InFlight,
     RunsKept, EventRunsStay, TimerRun, TimerRunKept, Pulse
<1>4. Needs'
  BY <1>1 DEF Types, Still, Needs, Pulse, Idle, Owns, Waits, OwnedRun, Gone, InFlight, Mine
<1>5. Gone'
  BY <1>1 DEF Types, Still, Gone, Begun, RunsKept, NoneBegins, TimerRunDisowned, TimerRun,
     TimerRunKept, Idle, Owns, Mine, InFlight
<1>6. PulseEnds'
  BY <1>1 DEF Types, Still, PulseEnds, TimerRunDisowned, OffDue, Due, Excused, Mine, InFlight,
     TimerRun, TimerRunKept, Pulse, Owns, Waits, OwnedRun, Gone, Needs, Idle
<1>7. DelayFires'
  BY <1>1 DEF Types, Still, DelayFires, TimerRunDisowned, Due, Mine, TimerRun, TimerRunKept, Idle,
     Pulse, Owns, Waits, OwnedRun, Gone, InFlight
<1> QED
  BY <1>2, <1>3, <1>4, <1>5, <1>6, <1>7 DEF Inv

\* After the run that switches a pulse on.
LEMMA AfterStartKeeps ==
    ASSUME Types, Owns, Needs, Gone, PulseEnds, DelayFires,
           AfterStart
    PROVE  Inv'
<1>1. /\ Types /\ run' \in [Slot -> RunOf] /\ RunsKept /\ TimerRunKept /\ run["timer"].asks \in Nat
      /\ timer' \in TimerOf /\ dirty' \in BOOLEAN
      /\ UNCHANGED <<kind, sheet, mode, saved, input, output, asked, answered, lost>>
      /\ task = "waitStart" /\ result # "none" /\ result' = "none"
      /\ (dirty = TRUE => dirty' = TRUE) /\ timer'.needOn = timer.needOn
      /\ timer.deadline = "none" <=> timer'.deadline = "none"
      /\ task' \in {"top", "pauseStart"}
  <2>1. /\ run["timer"].asks \in Nat /\ timer \in TimerOf /\ dirty \in BOOLEAN
        /\ timer.deadline \in {"none", "later", "now"} /\ timer.needOn \in BOOLEAN
    BY TimerIsASlot DEF Types, RunOf, TimerOf
  <2>2. UNCHANGED run
    BY DEF AfterStart, TaskStep
  <2> QED
    BY <2>1, <2>2, RunUnchanged DEF AfterStart, TaskStep, outside, count, TimerOf
<1>2. Types'
  BY <1>1 DEF Types, Still, Place, Results
<1>3. Owns'
  BY <1>1 DEF Types, Still, Owns, Slot, TimerRunDisowned, Waits, OwnedRun, Mine, InFlight,
     RunsKept, EventRunsStay, TimerRun, TimerRunKept, Pulse
<1>4. Needs'
  BY <1>1 DEF Types, Still, Needs, Pulse, Idle, Owns, Waits, OwnedRun, Gone, InFlight, Mine
<1>5. Gone'
  BY <1>1 DEF Types, Still, Gone, Begun, RunsKept, NoneBegins, TimerRunDisowned, TimerRun,
     TimerRunKept, Idle, Owns, Mine, InFlight
<1>6. PulseEnds'
  BY <1>1 DEF Types, Still, PulseEnds, TimerRunDisowned, OffDue, Due, Excused, Mine, InFlight,
     TimerRun, TimerRunKept, Pulse, Owns, Waits, OwnedRun, Gone, Needs, Idle
<1>7. DelayFires'
  BY <1>1 DEF Types, Still, DelayFires, TimerRunDisowned, Due, Mine, TimerRun, TimerRunKept, Idle,
     Pulse, Owns, Waits, OwnedRun, Gone, InFlight
<1> QED
  BY <1>2, <1>3, <1>4, <1>5, <1>6, <1>7 DEF Inv

\* After the run that switches a pulse off.
LEMMA AfterEndKeeps ==
    ASSUME Types, Owns, Needs, Gone, PulseEnds, DelayFires,
           AfterEnd
    PROVE  Inv'
<1>1. /\ Types /\ run' \in [Slot -> RunOf] /\ RunsKept /\ TimerRunKept /\ run["timer"].asks \in Nat
      /\ timer' \in TimerOf /\ dirty' \in BOOLEAN
      /\ UNCHANGED <<kind, sheet, mode, saved, input, output, asked, answered, lost>>
      /\ task = "waitEnd" /\ result # "none" /\ result' = "none"
      /\ task' = IF result = "failed" /\ timer.deadline = "none" THEN "pauseEnd" ELSE "top"
      /\ UNCHANGED <<timer, dirty>>
  <2>1. /\ run["timer"].asks \in Nat /\ timer \in TimerOf /\ dirty \in BOOLEAN
        /\ timer.deadline \in {"none", "later", "now"} /\ timer.needOn \in BOOLEAN
    BY TimerIsASlot DEF Types, RunOf, TimerOf
  <2>2. UNCHANGED run
    BY DEF AfterEnd, TaskStep
  <2> QED
    BY <2>1, <2>2, RunUnchanged DEF AfterEnd, TaskStep, outside, count, TimerOf
<1>2. Types'
  BY <1>1 DEF Types, Still, Place, Results
<1>3. Owns'
  BY <1>1 DEF Types, Still, Owns, Slot, TimerRunDisowned, Waits, OwnedRun, Mine, InFlight,
     RunsKept, EventRunsStay, TimerRun, TimerRunKept, Pulse
<1>4. Needs'
  BY <1>1 DEF Types, Still, Needs, Pulse, Idle, Owns, Waits, OwnedRun, Gone, InFlight, Mine
<1>5. Gone'
  BY <1>1 DEF Types, Still, Gone, Begun, RunsKept, NoneBegins, TimerRunDisowned, TimerRun,
     TimerRunKept, Idle, Owns, Mine, InFlight
<1>6. PulseEnds'
  BY <1>1 DEF Types, Still, PulseEnds, TimerRunDisowned, OffDue, Due, Excused, Mine, InFlight,
     TimerRun, TimerRunKept, Pulse, Owns, Waits, OwnedRun, Gone, Needs, Idle
<1>7. DelayFires'
  BY <1>1 DEF Types, Still, DelayFires, TimerRunDisowned, Due, Mine, TimerRun, TimerRunKept, Idle,
     Pulse, Owns, Waits, OwnedRun, Gone, InFlight
<1> QED
  BY <1>2, <1>3, <1>4, <1>5, <1>6, <1>7 DEF Inv

\* A pulse that was started anew is not ended.
LEMMA RetryEndElseKeeps ==
    ASSUME Types, Owns, Needs, Gone, PulseEnds, DelayFires,
           RetryEnd, timer.deadline # "none"
    PROVE  Inv'
<1>1. /\ Types /\ run' \in [Slot -> RunOf] /\ RunsKept /\ TimerRunKept /\ run["timer"].asks \in Nat
      /\ timer' \in TimerOf /\ dirty' \in BOOLEAN
      /\ UNCHANGED <<kind, sheet, mode, saved, input, output, asked, answered, lost>>
      /\ ~InFlight("timer") /\ task = "pauseEnd" /\ timer.deadline # "none"
      /\ task' = "top" /\ result' = "none" /\ UNCHANGED <<timer, dirty>>
  <2>1. /\ run["timer"].asks \in Nat /\ timer \in TimerOf /\ dirty \in BOOLEAN
        /\ timer.deadline \in {"none", "later", "now"} /\ timer.needOn \in BOOLEAN
    BY TimerIsASlot DEF Types, RunOf, TimerOf
  <2>2. UNCHANGED run
    BY DEF RetryEnd, TaskStep
  <2> QED
    BY <2>1, <2>2, RunUnchanged DEF RetryEnd, TaskStep, outside, count, NoTimerRun
<1>2. Types'
  BY <1>1 DEF Types, Still, Place, Results
<1>3. Owns'
  BY <1>1 DEF Types, Still, Owns, Slot, TimerRunDisowned, Waits, OwnedRun, Mine, InFlight,
     RunsKept, EventRunsStay, TimerRun, TimerRunKept, Pulse
<1>4. Needs'
  BY <1>1 DEF Types, Still, Needs, Pulse, Idle, Owns, Waits, OwnedRun, Gone, InFlight, Mine
<1>5. Gone'
  BY <1>1 DEF Types, Still, Gone, Begun, RunsKept, NoneBegins, TimerRunDisowned, TimerRun,
     TimerRunKept, Idle, Owns, Mine, InFlight
<1>6. PulseEnds'
  BY <1>1 DEF Types, Still, PulseEnds, TimerRunDisowned, OffDue, Due, Excused, Mine, InFlight,
     TimerRun, TimerRunKept, Pulse, Owns, Waits, OwnedRun, Gone, Needs, Idle
<1>7. DelayFires'
  BY <1>1 DEF Types, Still, DelayFires, TimerRunDisowned, Due, Mine, TimerRun, TimerRunKept, Idle,
     Pulse, Owns, Waits, OwnedRun, Gone, InFlight
<1> QED
  BY <1>2, <1>3, <1>4, <1>5, <1>6, <1>7 DEF Inv

\* After the pause, a pulse that has not run out is switched on.
LEMMA RetryStartKeeps ==
    ASSUME Types, Owns, Needs, Gone, PulseEnds, DelayFires,
           RetryStart
    PROVE  Inv'
<1>1. /\ Types /\ run' \in [Slot -> RunOf] /\ RunsKept /\ TimerRunKept /\ run["timer"].asks \in Nat
      /\ timer' \in TimerOf /\ dirty' \in BOOLEAN
      /\ UNCHANGED <<kind, sheet, mode, saved, input, output, asked, answered, lost>>
      /\ task = "pauseStart" /\ task' = "top" /\ result' = "none" /\ UNCHANGED dirty
      /\ timer'.deadline = timer.deadline
  <2>1. /\ run["timer"].asks \in Nat /\ timer \in TimerOf /\ dirty \in BOOLEAN
        /\ timer.deadline \in {"none", "later", "now"} /\ timer.needOn \in BOOLEAN
    BY TimerIsASlot DEF Types, RunOf, TimerOf
  <2>2. UNCHANGED run
    BY DEF RetryStart, TaskStep
  <2> DEFINE again == timer.deadline = "later"
  <2>3. again \in BOOLEAN
    OBVIOUS
  <2>4. timer' = [timer EXCEPT !.needOn = again]
    BY DEF RetryStart
  <2> HIDE DEF again
  <2>5. timer' \in TimerOf /\ timer'.deadline = timer.deadline
    BY <2>1, <2>3, <2>4 DEF TimerOf
  <2> QED
    BY <2>1, <2>2, <2>5, RunUnchanged DEF RetryStart, TaskStep, outside, count
<1>2. Types'
  BY <1>1 DEF Types, Still, Place, Results
<1>3. Owns'
  BY <1>1 DEF Types, Still, Owns, Slot, TimerRunDisowned, Waits, OwnedRun, Mine, InFlight,
     RunsKept, EventRunsStay, TimerRun, TimerRunKept, Pulse
<1>4. Needs'
  BY <1>1 DEF Types, Still, Needs, Pulse, Idle, Owns, Waits, OwnedRun, Gone, InFlight, Mine
<1>5. Gone'
  BY <1>1 DEF Types, Still, Gone, Begun, RunsKept, NoneBegins, TimerRunDisowned, TimerRun,
     TimerRunKept, Idle, Owns, Mine, InFlight
<1>6. PulseEnds'
  BY <1>1 DEF Types, Still, PulseEnds, TimerRunDisowned, OffDue, Due, Excused, Mine, InFlight,
     TimerRun, TimerRunKept, Pulse, Owns, Waits, OwnedRun, Gone, Needs, Idle
<1>7. DelayFires'
  BY <1>1 DEF Types, Still, DelayFires, TimerRunDisowned, Due, Mine, TimerRun, TimerRunKept, Idle,
     Pulse, Owns, Waits, OwnedRun, Gone, InFlight
<1> QED
  BY <1>2, <1>3, <1>4, <1>5, <1>6, <1>7 DEF Inv

\* A deadline comes.
LEMMA TickKeeps ==
    ASSUME Types, Owns, Needs, Gone, PulseEnds, DelayFires,
           Tick
    PROVE  Inv'
<1>1. /\ Types /\ run' \in [Slot -> RunOf] /\ RunsKept /\ TimerRunKept /\ run["timer"].asks \in Nat
      /\ timer' \in TimerOf /\ dirty' \in BOOLEAN
      /\ UNCHANGED <<kind, sheet, mode, saved, input, output, asked, answered, lost>>
      /\ timer.deadline = "later" /\ timer'.deadline = "now" /\ timer'.needOn = timer.needOn
      /\ UNCHANGED <<task, result, dirty>>
  <2>1. /\ run["timer"].asks \in Nat /\ timer \in TimerOf /\ dirty \in BOOLEAN
        /\ timer.deadline \in {"none", "later", "now"} /\ timer.needOn \in BOOLEAN
    BY TimerIsASlot DEF Types, RunOf, TimerOf
  <2>2. UNCHANGED run
    BY DEF Tick, graph
  <2> QED
    BY <2>1, <2>2, RunUnchanged DEF Tick, graph, outside, count, TimerOf
<1>2. Types'
  BY <1>1 DEF Types, Still, Place, Results
<1>3. Owns'
  BY <1>1 DEF Types, Still, Owns, Slot, TimerRunDisowned, Waits, OwnedRun, Mine, InFlight,
     RunsKept, EventRunsStay, TimerRun, TimerRunKept, Pulse
<1>4. Needs'
  BY <1>1 DEF Types, Still, Needs, Pulse, Idle, Owns, Waits, OwnedRun, Gone, InFlight, Mine
<1>5. Gone'
  BY <1>1 DEF Types, Still, Gone, Begun, RunsKept, NoneBegins, TimerRunDisowned, TimerRun,
     TimerRunKept, Idle, Owns, Mine, InFlight
<1>6. PulseEnds'
  BY <1>1 DEF Types, Still, PulseEnds, TimerRunDisowned, OffDue, Due, Excused, Mine, InFlight,
     TimerRun, TimerRunKept, Pulse, Owns, Waits, OwnedRun, Gone, Needs, Idle
<1>7. DelayFires'
  BY <1>1 DEF Types, Still, DelayFires, TimerRunDisowned, Due, Mine, TimerRun, TimerRunKept, Idle,
     Pulse, Owns, Waits, OwnedRun, Gone, InFlight
<1> QED
  BY <1>2, <1>3, <1>4, <1>5, <1>6, <1>7 DEF Inv

-----------------------------------------------------------------------------
(* Saving, deleting, stopping and starting. *)

\* A save unloads the sheet; the timer and its runs go on.
LEMMA BeginSaveKeeps ==
    ASSUME Types, Owns, Needs, Gone, PulseEnds, DelayFires,
           NEW enabled \in BOOLEAN, BeginSave(enabled)
    PROVE  Inv'
<1>1. /\ Types /\ run' \in [Slot -> RunOf] /\ RunsKept /\ run["timer"].asks \in Nat
      /\ sheet' \in [loaded : BOOLEAN, enabled : BOOLEAN, removed : BOOLEAN, late : BOOLEAN]
      /\ timer' \in TimerOf /\ saved' \in TimerOf /\ dirty' \in BOOLEAN
      /\ TimerRunKept /\ sheet'.removed = sheet.removed /\ sheet.removed = FALSE
      /\ UNCHANGED <<kind, timer, dirty, task, result, mode, saved, input, output, asked, answered, lost>>
  <2>1. /\ run["timer"].asks \in Nat /\ timer \in TimerOf /\ saved \in TimerOf /\ dirty \in BOOLEAN
        /\ timer.deadline \in {"none", "later", "now"} /\ timer.needOn \in BOOLEAN /\ timer.prev \in BOOLEAN
        /\ sheet \in [loaded : BOOLEAN, enabled : BOOLEAN, removed : BOOLEAN, late : BOOLEAN]
        /\ asked \in Nat /\ run["timer"].mine \in BOOLEAN
        /\ run["timer"].stage \in {"none", "new", "pass", "written"}
    BY TimerIsASlot DEF Types, RunOf, TimerOf
  <2>2. run' = [r \in Slot |-> [run[r] EXCEPT !.obsolete = (r \in Begun)]]
    BY DEF BeginSave
  <2>3. run' \in [Slot -> RunOf] /\ TimerRunKept /\ RunsKept
    BY <2>2, ObsoleteDoes
  <2>4. /\ sheet' = [sheet EXCEPT !.loaded = FALSE, !.enabled = enabled] /\ sheet.removed = FALSE
        /\ UNCHANGED <<kind, timer, dirty, task, result, mode, saved, input, output, asked, answered, lost>>
    BY <2>1 DEF BeginSave, outside, count
  <2> QED
    BY <2>1, <2>3, <2>4
<1>2. Types'
  BY <1>1 DEF Types, Still, Place, Results
<1>3. Owns'
  BY <1>1 DEF Types, Still, Owns, Slot, TimerRunDisowned, Waits, OwnedRun, Mine, InFlight,
     RunsKept, EventRunsStay, TimerRun, TimerRunKept, Pulse
<1>4. Needs'
  BY <1>1 DEF Types, Still, Needs, Pulse, Idle, Owns, Waits, OwnedRun, Gone, InFlight, Mine
<1>5. Gone'
  BY <1>1 DEF Types, Still, Gone, Begun, RunsKept, NoneBegins, TimerRunDisowned, TimerRun,
     TimerRunKept, Idle, Owns, Mine, InFlight
<1>6. PulseEnds'
  BY <1>1 DEF Types, Still, PulseEnds, TimerRunDisowned, OffDue, Due, Excused, Mine, InFlight,
     TimerRun, TimerRunKept, Pulse, Owns, Waits, OwnedRun, Gone, Needs, Idle
<1>7. DelayFires'
  BY <1>1 DEF Types, Still, DelayFires, TimerRunDisowned, Due, Mine, TimerRun, TimerRunKept, Idle,
     Pulse, Owns, Waits, OwnedRun, Gone, InFlight
<1> QED
  BY <1>2, <1>3, <1>4, <1>5, <1>6, <1>7 DEF Inv

\* The sheet is loaded again: a disabled delay is dropped, else the deadline stays.
LEMMA EndSaveKeeps ==
    ASSUME Types, Owns, Needs, Gone, PulseEnds, DelayFires,
           EndSave
    PROVE  Inv'
<1>1. /\ Types /\ run' \in [Slot -> RunOf] /\ RunsKept /\ run["timer"].asks \in Nat
      /\ sheet' \in [loaded : BOOLEAN, enabled : BOOLEAN, removed : BOOLEAN, late : BOOLEAN]
      /\ timer' \in TimerOf /\ saved' \in TimerOf /\ dirty' \in BOOLEAN
      /\ sheet'.removed = FALSE /\ sheet.removed = FALSE /\ mode # "down"
      /\ \/ /\ ~Pulse /\ timer' = Idle /\ task' = "none" /\ result' = "none"
            /\ answered' = asked /\ TimerRunDisowned
            /\ saved' = Idle \/ (saved' = saved /\ (sheet.removed = TRUE \/ dirty' = TRUE))
         \/ /\ timer'.deadline = timer.deadline /\ (timer'.needOn = TRUE => timer.needOn = TRUE)
            /\ timer' = timer \/ timer.deadline # "none"
            /\ task' = task \/ (task = "none" /\ task' = "top" /\ mode \in {"up", "down"})
            /\ UNCHANGED <<result, answered>> /\ TimerRunKept
            /\ \/ saved' = timer'
               \/ saved' = saved /\ (sheet.removed = TRUE \/ dirty = FALSE \/ dirty' = TRUE)
      /\ UNCHANGED <<kind, mode, input, output, asked, lost>>
  <2>1. /\ run["timer"].asks \in Nat /\ timer \in TimerOf /\ saved \in TimerOf /\ dirty \in BOOLEAN
        /\ timer.deadline \in {"none", "later", "now"} /\ timer.needOn \in BOOLEAN /\ timer.prev \in BOOLEAN
        /\ sheet \in [loaded : BOOLEAN, enabled : BOOLEAN, removed : BOOLEAN, late : BOOLEAN]
        /\ asked \in Nat /\ run["timer"].mine \in BOOLEAN
        /\ run["timer"].stage \in {"none", "new", "pass", "written"}
    BY TimerIsASlot DEF Types, RunOf, TimerOf
  <2>2. Resume(timer, dirty)
    BY DEF EndSave
  <2>3. /\ sheet' = [sheet EXCEPT !.loaded = TRUE] /\ sheet.removed = FALSE /\ mode # "down"
        /\ UNCHANGED <<kind, mode, input, output, asked, lost>>
    BY <2>1 DEF EndSave, outside
  <2>4. sheet'.removed = FALSE /\ sheet' \in [loaded : BOOLEAN, enabled : BOOLEAN, removed : BOOLEAN, late : BOOLEAN]
    BY <2>1, <2>3
  <2> QED
    BY <2>1, <2>2, <2>3, <2>4, ResumeDoes
<1>2. Types'
  BY <1>1 DEF Types, Still, Place, Results
<1>3. Owns'
  BY <1>1 DEF Types, Still, Owns, Slot, TimerRunDisowned, Waits, OwnedRun, Mine, InFlight,
     RunsKept, EventRunsStay, TimerRun, TimerRunKept, Pulse
<1>4. Needs'
  BY <1>1 DEF Types, Still, Needs, Pulse, Idle, Owns, Waits, OwnedRun, Gone, InFlight, Mine
<1>5. Gone'
  BY <1>1 DEF Types, Still, Gone, Begun, RunsKept, NoneBegins, TimerRunDisowned, TimerRun,
     TimerRunKept, Idle, Owns, Mine, InFlight
<1>6. PulseEnds'
  BY <1>1 DEF Types, Still, PulseEnds, TimerRunDisowned, OffDue, Due, Excused, Mine, InFlight,
     TimerRun, TimerRunKept, Pulse, Owns, Waits, OwnedRun, Gone, Needs, Idle
<1>7. DelayFires'
  BY <1>1 DEF Types, Still, DelayFires, TimerRunDisowned, Due, Mine, TimerRun, TimerRunKept, Idle,
     Pulse, Owns, Waits, OwnedRun, Gone, InFlight
<1> QED
  BY <1>2, <1>3, <1>4, <1>5, <1>6, <1>7 DEF Inv

\* What is forgotten: the runs that have begun are dead, and nobody waits for
\* a run.
LEMMA ForgetDoes ==
    ASSUME Types, Forget
    PROVE  /\ run' \in [Slot -> RunOf] /\ TimerRunDisowned /\ RunsKept
           /\ \A r \in Begun' : run'[r].dead = TRUE
           /\ timer' = Idle /\ dirty' = FALSE /\ task' = "none" /\ result' = "none"
           /\ answered' = asked
<1> DEFINE begun(r) == r \in Begun
<1>1. ASSUME NEW r \in Slot PROVE begun(r) \in BOOLEAN
  OBVIOUS
<1>2. ASSUME NEW r \in Slot
      PROVE  run'[r] = [Disowned[r] EXCEPT !.obsolete = begun(r), !.dead = begun(r)]
  BY <1>2 DEF Forget
<1>3. ASSUME NEW r \in Slot PROVE (begun(r) <=> run[r].stage \in {"pass", "written"})
  BY <1>3 DEF Begun
<1> HIDE DEF begun
<1>4. ASSUME NEW r \in Slot
      PROVE  /\ run'[r] \in RunOf /\ run'[r].stage = run[r].stage /\ run'[r].mine = FALSE
             /\ run'[r].what \in {run[r].what, "event"}
             /\ run'[r].asks \in {run[r].asks, 0} /\ run'[r].abandoned \in {run[r].abandoned, FALSE}
             /\ run'[r].dead = begun(r)
  <2> DEFINE old == Disowned[r]
  <2>1. /\ old \in RunOf /\ old.stage = run[r].stage /\ old.mine = FALSE
        /\ old.what \in {run[r].what, "event"}
        /\ old.asks \in {run[r].asks, 0} /\ old.abandoned \in {run[r].abandoned, FALSE}
    BY <1>4, DisownedDoes
  <2>2. run'[r] = [old EXCEPT !.obsolete = begun(r), !.dead = begun(r)]
    BY <1>2, <1>4
  <2> HIDE DEF old
  <2> QED
    BY ONLY <1>1, <1>4, <2>1, <2>2 DEF RunOf
<1>5. run' = [r \in Slot |-> run'[r]]
  BY DEF Forget
<1>6. run' \in [Slot -> RunOf]
  <2>1. \A r \in Slot : run'[r] \in RunOf
    BY <1>4
  <2> QED
    BY ONLY <1>5, <2>1, Zenon
<1>7. ASSUME NEW r \in Begun' PROVE r \in Begun /\ run'[r].dead = TRUE
  <2>1. r \in Slot /\ run[r].stage \in {"pass", "written"} /\ r \in Begun
    BY <1>4, <1>7 DEF Begun
  <2>2. run'[r].dead = begun(r) /\ begun(r) \in BOOLEAN /\ begun(r)
    BY <1>1, <1>3, <1>4, <2>1
  <2> QED
    BY <2>1, <2>2
<1> QED
  BY <1>4, <1>6, <1>7, TimerIsASlot
     DEF TimerRunDisowned, RunsKept, EventRunsStay, NoneBegins, Forget

\* A deletion leaves no timer, no task and no saved state.
LEMMA RemoveKeeps ==
    ASSUME Types, Owns, Needs, Gone, PulseEnds, DelayFires,
           Remove
    PROVE  Inv'
<1>1. /\ Types /\ run' \in [Slot -> RunOf] /\ RunsKept /\ run["timer"].asks \in Nat
      /\ sheet' \in [loaded : BOOLEAN, enabled : BOOLEAN, removed : BOOLEAN, late : BOOLEAN]
      /\ timer' \in TimerOf /\ saved' \in TimerOf /\ dirty' \in BOOLEAN
      /\ TimerRunDisowned /\ mode = "up" /\ mode' = mode
      /\ \A r \in Begun' : run'[r].dead = TRUE
      /\ sheet'.removed = TRUE /\ sheet'.loaded = FALSE
      /\ timer' = Idle /\ saved' = Idle /\ task' = "none" /\ result' = "none" /\ answered' = asked
      /\ UNCHANGED <<kind, input, output, asked, lost>>
  <2>1. /\ run["timer"].asks \in Nat /\ timer \in TimerOf /\ saved \in TimerOf /\ dirty \in BOOLEAN
        /\ timer.deadline \in {"none", "later", "now"} /\ timer.needOn \in BOOLEAN /\ timer.prev \in BOOLEAN
        /\ sheet \in [loaded : BOOLEAN, enabled : BOOLEAN, removed : BOOLEAN, late : BOOLEAN]
        /\ asked \in Nat /\ run["timer"].mine \in BOOLEAN
        /\ run["timer"].stage \in {"none", "new", "pass", "written"}
    BY TimerIsASlot DEF Types, RunOf, TimerOf
  <2>2. Forget
    BY DEF Remove
  <2>3. /\ run' \in [Slot -> RunOf] /\ TimerRunDisowned /\ RunsKept
        /\ \A r \in Begun' : run'[r].dead = TRUE
        /\ timer' = Idle /\ dirty' = FALSE /\ task' = "none" /\ result' = "none"
        /\ answered' = asked
    BY <2>2, ForgetDoes
  <2>4. /\ sheet' = [sheet EXCEPT !.loaded = FALSE, !.removed = TRUE] /\ mode = "up" /\ mode' = mode
        /\ saved' = Idle /\ UNCHANGED <<kind, input, output, asked, lost>>
    BY <2>1 DEF Remove, outside
  <2> QED
    BY <2>1, <2>3, <2>4, IdleTyped
<1>2. Types'
  BY <1>1 DEF Types, Still, Place, Results
<1>3. Owns'
  BY <1>1 DEF Types, Still, Owns, Slot, TimerRunDisowned, Waits, OwnedRun, Mine, InFlight,
     RunsKept, EventRunsStay, TimerRun, TimerRunKept, Pulse
<1>4. Needs'
  BY <1>1 DEF Types, Still, Needs, Pulse, Idle, Owns, Waits, OwnedRun, Gone, InFlight, Mine
<1>5. Gone'
  BY <1>1 DEF Types, Still, Gone, Begun, RunsKept, NoneBegins, TimerRunDisowned, TimerRun,
     TimerRunKept, Idle, Owns, Mine, InFlight
<1>6. PulseEnds'
  BY <1>1 DEF Types, Still, PulseEnds, TimerRunDisowned, OffDue, Due, Excused, Mine, InFlight,
     TimerRun, TimerRunKept, Pulse, Owns, Waits, OwnedRun, Gone, Needs, Idle
<1>7. DelayFires'
  BY <1>1 DEF Types, Still, DelayFires, TimerRunDisowned, Due, Mine, TimerRun, TimerRunKept, Idle,
     Pulse, Owns, Waits, OwnedRun, Gone, InFlight
<1> QED
  BY <1>2, <1>3, <1>4, <1>5, <1>6, <1>7 DEF Inv

\* What a run brought back of a deleted sheet's timer is forgotten again.
LEMMA ForgetRemovedKeeps ==
    ASSUME Types, Owns, Needs, Gone, PulseEnds, DelayFires,
           ForgetRemoved
    PROVE  Inv'
<1>1. /\ Types /\ run' \in [Slot -> RunOf] /\ RunsKept /\ run["timer"].asks \in Nat
      /\ sheet' \in [loaded : BOOLEAN, enabled : BOOLEAN, removed : BOOLEAN, late : BOOLEAN]
      /\ timer' \in TimerOf /\ saved' \in TimerOf /\ dirty' \in BOOLEAN
      /\ TimerRunDisowned /\ mode # "down" /\ mode' = mode
      /\ sheet.removed = TRUE /\ sheet.loaded = sheet'.loaded
      /\ \A r \in Begun' : run'[r].dead = TRUE
      /\ sheet'.removed = TRUE /\ sheet'.late = FALSE
      /\ timer' = Idle /\ saved' = saved /\ task' = "none" /\ result' = "none" /\ answered' = asked
      /\ UNCHANGED <<kind, input, output, asked, lost>>
  <2>1. /\ run["timer"].asks \in Nat /\ timer \in TimerOf /\ saved \in TimerOf /\ dirty \in BOOLEAN
        /\ timer.deadline \in {"none", "later", "now"} /\ timer.needOn \in BOOLEAN /\ timer.prev \in BOOLEAN
        /\ sheet \in [loaded : BOOLEAN, enabled : BOOLEAN, removed : BOOLEAN, late : BOOLEAN]
        /\ asked \in Nat /\ run["timer"].mine \in BOOLEAN
        /\ run["timer"].stage \in {"none", "new", "pass", "written"}
    BY TimerIsASlot DEF Types, RunOf, TimerOf
  <2>2. Forget
    BY DEF ForgetRemoved
  <2>3. /\ run' \in [Slot -> RunOf] /\ TimerRunDisowned /\ RunsKept
        /\ \A r \in Begun' : run'[r].dead = TRUE
        /\ timer' = Idle /\ dirty' = FALSE /\ task' = "none" /\ result' = "none"
        /\ answered' = asked
    BY <2>2, ForgetDoes
  <2>4. /\ sheet' = [sheet EXCEPT !.late = FALSE] /\ sheet.removed = TRUE /\ mode # "down" /\ mode' = mode
        /\ saved' = saved /\ UNCHANGED <<kind, input, output, asked, lost>>
    BY <2>1 DEF ForgetRemoved, outside
  <2> QED
    BY <2>1, <2>3, <2>4, IdleTyped
<1>2. Types'
  BY <1>1 DEF Types, Still, Place, Results
<1>3. Owns'
  BY <1>1 DEF Types, Still, Owns, Slot, TimerRunDisowned, Waits, OwnedRun, Mine, InFlight,
     RunsKept, EventRunsStay, TimerRun, TimerRunKept, Pulse
<1>4. Needs'
  BY <1>1 DEF Types, Still, Needs, Pulse, Idle, Owns, Waits, OwnedRun, Gone, InFlight, Mine
<1>5. Gone'
  BY <1>1 DEF Types, Still, Gone, Begun, RunsKept, NoneBegins, TimerRunDisowned, TimerRun,
     TimerRunKept, Idle, Owns, Mine, InFlight
<1>6. PulseEnds'
  BY <1>1 DEF Types, Still, PulseEnds, TimerRunDisowned, OffDue, Due, Excused, Mine, InFlight,
     TimerRun, TimerRunKept, Pulse, Owns, Waits, OwnedRun, Gone, Needs, Idle
<1>7. DelayFires'
  BY <1>1 DEF Types, Still, DelayFires, TimerRunDisowned, Due, Mine, TimerRun, TimerRunKept, Idle,
     Pulse, Owns, Waits, OwnedRun, Gone, InFlight
<1> QED
  BY <1>2, <1>3, <1>4, <1>5, <1>6, <1>7 DEF Inv

\* stop() ends the task; what it had still to repeat becomes due.
LEMMA StopKeeps ==
    ASSUME Types, Owns, Needs, Gone, PulseEnds, DelayFires,
           Stop
    PROVE  Inv'
<1>1. /\ Types /\ run' \in [Slot -> RunOf] /\ RunsKept /\ run["timer"].asks \in Nat
      /\ sheet' \in [loaded : BOOLEAN, enabled : BOOLEAN, removed : BOOLEAN, late : BOOLEAN]
      /\ timer' \in TimerOf /\ saved' \in TimerOf /\ dirty' \in BOOLEAN
      /\ TimerRun(run["timer"].stage, run["timer"].what, run["timer"].active,
                  run["timer"].mine, InFlight("timer"), run["timer"].asks)
      /\ InFlight("timer") \in BOOLEAN
      /\ mode = "up" /\ mode' = "stopping" /\ task' = "none" /\ result' = "none"
      /\ (dirty = TRUE => dirty' = TRUE)
      /\ \/ task \in {"pauseStart", "waitStart"} /\ timer'.deadline = timer.deadline /\ timer'.needOn = TRUE
         \/ /\ task = "pauseEnd" \/ (task \in {"waitEnd", "waitFire"} /\ result = "failed")
            /\ timer'.deadline = (IF timer.deadline = "none" THEN "now" ELSE timer.deadline)
            /\ timer'.needOn = timer.needOn
         \/ /\ ~(task = "pauseEnd" \/ (task \in {"waitEnd", "waitFire"} /\ result = "failed"))
            /\ timer' = timer
      /\ UNCHANGED <<kind, sheet, saved, input, output, asked, answered, lost>>
  <2>1. /\ run["timer"].asks \in Nat /\ timer \in TimerOf /\ saved \in TimerOf /\ dirty \in BOOLEAN
        /\ timer.deadline \in {"none", "later", "now"} /\ timer.needOn \in BOOLEAN /\ timer.prev \in BOOLEAN
        /\ sheet \in [loaded : BOOLEAN, enabled : BOOLEAN, removed : BOOLEAN, late : BOOLEAN]
        /\ asked \in Nat /\ run["timer"].mine \in BOOLEAN
        /\ run["timer"].stage \in {"none", "new", "pass", "written"}
    BY TimerIsASlot DEF Types, RunOf, TimerOf
  <2>2. run["timer"] \in RunOf /\ run \in [Slot -> RunOf] /\ "timer" \in Slot
    BY TimerIsASlot DEF Types
  <2>3. InFlight("timer") \in BOOLEAN
    BY DEF InFlight
  <2>4. run' = [run EXCEPT !["timer"] = [run["timer"] EXCEPT !.abandoned = InFlight("timer")]]
    BY <2>2 DEF Stop
  <2>5. /\ run' \in [Slot -> RunOf] /\ RunsKept
        /\ TimerRun(run["timer"].stage, run["timer"].what, run["timer"].active,
                    run["timer"].mine, InFlight("timer"), run["timer"].asks)
    <3> DEFINE flag == InFlight("timer")
               new == [run["timer"] EXCEPT !.abandoned = flag]
    <3> HIDE DEF flag
    <3>1. flag \in BOOLEAN
      BY <2>3 DEF flag
    <3>2. /\ new \in RunOf /\ new.stage = run["timer"].stage /\ new.what = run["timer"].what
          /\ new.active = run["timer"].active /\ new.mine = run["timer"].mine
          /\ new.abandoned = flag /\ new.asks = run["timer"].asks /\ new.dead = run["timer"].dead
      BY <2>2, <3>1 DEF RunOf
    <3>3. run' = [run EXCEPT !["timer"] = new]
      BY <2>4 DEF flag
    <3> HIDE DEF new
    <3> QED
      BY <2>2, <3>2, <3>3, TimerIsASlot DEF flag, TimerRun, RunsKept, EventRunsStay, NoneBegins, Begun
  <2>6. /\ timer' = CASE task = "pauseStart" \/ (task = "waitStart" /\ result = "failed") ->
                        CutOf(timer, "start")
                  [] task = "pauseEnd" \/ (task \in {"waitEnd", "waitFire"} /\ result = "failed") ->
                        CutOf(timer, "end")
                  [] OTHER -> timer
        /\ mode = "up" /\ mode' = "stopping" /\ task' = "none" /\ result' = "none"
        /\ UNCHANGED <<kind, sheet, saved, input, output, asked, answered, lost>>
    BY DEF Stop, outside, count
  <2>7. dirty' \in BOOLEAN /\ (dirty = TRUE => dirty' = TRUE)
    <3>1. dirty' = (dirty \/ timer' # timer)
      BY DEF Stop
    <3> QED
      BY <3>1, Zenon
  <2>8. /\ timer' \in TimerOf
        /\ \/ task \in {"pauseStart", "waitStart"} /\ timer'.deadline = timer.deadline /\ timer'.needOn = TRUE
           \/ /\ task = "pauseEnd" \/ (task \in {"waitEnd", "waitFire"} /\ result = "failed")
              /\ timer'.deadline = (IF timer.deadline = "none" THEN "now" ELSE timer.deadline)
              /\ timer'.needOn = timer.needOn
           \/ /\ ~(task = "pauseEnd" \/ (task \in {"waitEnd", "waitFire"} /\ result = "failed"))
              /\ timer' = timer
    <3>1. CASE task = "pauseStart" \/ (task = "waitStart" /\ result = "failed")
      <4>1. timer' = CutOf(timer, "start")
        BY <2>6, <3>1
      <4> QED
        BY <2>1, <3>1, <4>1, CutDoes
    <3>2. CASE task = "pauseEnd" \/ (task \in {"waitEnd", "waitFire"} /\ result = "failed")
      <4>1. timer' = CutOf(timer, "end")
        BY <2>6, <3>2
      <4>2. /\ timer' \in TimerOf /\ timer'.needOn = timer.needOn
            /\ timer'.deadline = (IF timer.deadline = "none" THEN "now" ELSE timer.deadline)
        BY <2>1, <4>1 DEF CutOf, TimerOf
      <4> QED
        BY <3>2, <4>2
    <3>3. CASE /\ ~(task = "pauseStart" \/ (task = "waitStart" /\ result = "failed"))
               /\ ~(task = "pauseEnd" \/ (task \in {"waitEnd", "waitFire"} /\ result = "failed"))
      BY <2>1, <2>6, <3>3
    <3> QED
      BY <3>1, <3>2, <3>3
  <2> QED
    BY <2>1, <2>3, <2>5, <2>6, <2>7, <2>8
<1>2. Types'
  BY <1>1 DEF Types, Still, Place, Results
<1>3. Owns'
  BY <1>1 DEF Types, Still, Owns, Slot, TimerRunDisowned, Waits, OwnedRun, Mine, InFlight,
     RunsKept, EventRunsStay, TimerRun, TimerRunKept, Pulse
<1>4. Needs'
  BY <1>1 DEF Types, Still, Needs, Pulse, Idle, Owns, Waits, OwnedRun, Gone, InFlight, Mine
<1>5. Gone'
  BY <1>1 DEF Types, Still, Gone, Begun, RunsKept, NoneBegins, TimerRunDisowned, TimerRun,
     TimerRunKept, Idle, Owns, Mine, InFlight
<1>6. PulseEnds'
  BY <1>1 DEF Types, Still, PulseEnds, TimerRunDisowned, OffDue, Due, Excused, Mine, InFlight,
     TimerRun, TimerRunKept, Pulse, Owns, Waits, OwnedRun, Gone, Needs, Idle
<1>7. DelayFires'
  BY <1>1 DEF Types, Still, DelayFires, TimerRunDisowned, Due, Mine, TimerRun, TimerRunKept, Idle,
     Pulse, Owns, Waits, OwnedRun, Gone, InFlight
<1> QED
  BY <1>2, <1>3, <1>4, <1>5, <1>6, <1>7 DEF Inv

\* A run cut short by the end of stop(): what has not acted stays due.
LEMMA CutRunKeeps ==
    ASSUME Types, Owns, Needs, Gone, PulseEnds, DelayFires,
           CutRun
    PROVE  Inv'
<1>1. /\ Types /\ run' \in [Slot -> RunOf] /\ RunsKept /\ run["timer"].asks \in Nat
      /\ sheet' \in [loaded : BOOLEAN, enabled : BOOLEAN, removed : BOOLEAN, late : BOOLEAN]
      /\ timer' \in TimerOf /\ saved' \in TimerOf /\ dirty' \in BOOLEAN
      /\ TimerRun("none", "event", FALSE, FALSE, FALSE, 0)
      /\ run["timer"].stage \in {"none", "new", "pass", "written"}
      /\ InFlight("timer") /\ mode = "stopping" /\ dirty' = TRUE
      /\ \/ /\ run["timer"].stage # "written" /\ Mine
            /\ run["timer"].what = "start" => timer'.deadline = timer.deadline /\ timer'.needOn = TRUE
            /\ run["timer"].what # "start" =>
                  /\ timer'.deadline = IF timer.deadline = "none" THEN "now" ELSE timer.deadline
                  /\ timer'.needOn = timer.needOn
         \/ /\ run["timer"].stage = "written" \/ ~Mine
            /\ timer'.deadline = timer.deadline /\ timer'.needOn = timer.needOn
            /\ timer = Idle => timer' = Idle
      /\ UNCHANGED <<kind, task, result, sheet, mode, saved, input, output, asked, answered, lost>>
  <2>1. /\ run["timer"].asks \in Nat /\ timer \in TimerOf /\ saved \in TimerOf /\ dirty \in BOOLEAN
        /\ timer.deadline \in {"none", "later", "now"} /\ timer.needOn \in BOOLEAN /\ timer.prev \in BOOLEAN
        /\ sheet \in [loaded : BOOLEAN, enabled : BOOLEAN, removed : BOOLEAN, late : BOOLEAN]
        /\ asked \in Nat /\ run["timer"].mine \in BOOLEAN
        /\ run["timer"].stage \in {"none", "new", "pass", "written"}
    BY TimerIsASlot DEF Types, RunOf, TimerOf
  <2>2. /\ run' = [run EXCEPT !["timer"] = NoRun] /\ dirty' = TRUE /\ mode = "stopping" /\ InFlight("timer")
        /\ UNCHANGED <<kind, task, result, sheet, mode, saved, input, output, asked, answered, lost>>
    BY DEF CutRun, outside, count
  <2>3. run' \in [Slot -> RunOf] /\ RunsKept /\ TimerRun("none", "event", FALSE, FALSE, FALSE, 0)
    BY <2>2, RunEnds, TimerIsASlot
  <2> DEFINE what == run["timer"].what
             prev == timer.prev /\ ~(run["timer"].pending /\ run["timer"].recorded)
  <2>4. timer' = IF run["timer"].stage # "written" THEN (IF Mine THEN CutOf(timer, what) ELSE timer)
                 ELSE [timer EXCEPT !.prev = prev]
    BY <2>1 DEF CutRun, Mine
  <2>5. prev \in BOOLEAN /\ (timer.prev = FALSE => prev = FALSE)
    BY <2>1, Zenon
  <2> HIDE DEF what, prev
  <2>6. /\ timer' \in TimerOf
        /\ \/ /\ run["timer"].stage # "written" /\ Mine
              /\ what = "start" => timer'.deadline = timer.deadline /\ timer'.needOn = TRUE
              /\ what # "start" =>
                    /\ timer'.deadline = IF timer.deadline = "none" THEN "now" ELSE timer.deadline
                    /\ timer'.needOn = timer.needOn
           \/ /\ run["timer"].stage = "written" \/ ~Mine
              /\ timer'.deadline = timer.deadline /\ timer'.needOn = timer.needOn
              /\ timer = Idle => timer' = Idle
    <3>1. CASE run["timer"].stage # "written" /\ Mine
      BY <2>1, <2>4, <3>1, CutDoes
    <3>2. CASE run["timer"].stage # "written" /\ ~Mine
      BY <2>1, <2>4, <3>2
    <3>3. CASE run["timer"].stage = "written"
      <4>1. timer' = [timer EXCEPT !.prev = prev]
        BY <2>4, <3>3
      <4>2. timer' \in TimerOf /\ timer'.deadline = timer.deadline /\ timer'.needOn = timer.needOn
        BY <2>1, <2>5, <4>1 DEF TimerOf
      <4>3. timer = Idle => timer' = Idle
        <5>1. timer'.prev = prev
          BY <2>1, <4>1 DEF TimerOf
        <5>2. ASSUME timer = Idle PROVE timer' = Idle
          <6>1. timer'.prev = FALSE /\ timer'.deadline = "none" /\ timer'.needOn = FALSE
            BY <2>5, <4>2, <5>1, <5>2 DEF Idle
          <6> QED
            BY <4>2, <6>1, IdleTimer
        <5> QED
          BY <5>2
      <4> QED
        BY <3>3, <4>2, <4>3
    <3> QED
      BY <3>1, <3>2, <3>3
  <2> QED
    BY <2>1, <2>2, <2>3, <2>6 DEF what
<1>2. Types'
  BY <1>1 DEF Types, Still, Place, Results
<1>3. Owns'
  BY <1>1 DEF Types, Still, Owns, Slot, TimerRunDisowned, Waits, OwnedRun, Mine, InFlight,
     RunsKept, EventRunsStay, TimerRun, TimerRunKept, Pulse
<1>4. Needs'
  BY <1>1 DEF Types, Still, Needs, Pulse, Idle, Owns, Waits, OwnedRun, Gone, InFlight, Mine
<1>5. Gone'
  BY <1>1 DEF Types, Still, Gone, Begun, RunsKept, NoneBegins, TimerRunDisowned, TimerRun,
     TimerRunKept, Idle, Owns, Mine, InFlight
<1>6. PulseEnds'
  BY <1>1 DEF Types, Still, PulseEnds, TimerRunDisowned, OffDue, Due, Excused, Mine, InFlight,
     TimerRun, TimerRunKept, Pulse, Owns, Waits, OwnedRun, Gone, Needs, Idle
<1>7. DelayFires'
  BY <1>1 DEF Types, Still, DelayFires, TimerRunDisowned, Due, Mine, TimerRun, TimerRunKept, Idle,
     Pulse, Owns, Waits, OwnedRun, Gone, InFlight
<1> QED
  BY <1>2, <1>3, <1>4, <1>5, <1>6, <1>7 DEF Inv

\* stop() saves what it leaves.
LEMMA EndStopKeeps ==
    ASSUME Types, Owns, Needs, Gone, PulseEnds, DelayFires,
           EndStop
    PROVE  Inv'
<1>1. /\ Types /\ run' \in [Slot -> RunOf] /\ RunsKept /\ run["timer"].asks \in Nat
      /\ sheet' \in [loaded : BOOLEAN, enabled : BOOLEAN, removed : BOOLEAN, late : BOOLEAN]
      /\ timer' \in TimerOf /\ saved' \in TimerOf /\ dirty' \in BOOLEAN
      /\ ~InFlight("timer") /\ mode = "stopping" /\ mode' = "stopped" /\ dirty' = FALSE
      /\ TimerRunKept
      /\ saved' = timer \/ (saved' = saved /\ (sheet.removed = TRUE \/ dirty = FALSE))
      /\ sheet.removed = TRUE => saved' = saved
      /\ UNCHANGED <<kind, timer, task, result, sheet, input, output, asked, answered, lost>>
  <2>1. /\ run["timer"].asks \in Nat /\ timer \in TimerOf /\ saved \in TimerOf /\ dirty \in BOOLEAN
        /\ timer.deadline \in {"none", "later", "now"} /\ timer.needOn \in BOOLEAN /\ timer.prev \in BOOLEAN
        /\ sheet \in [loaded : BOOLEAN, enabled : BOOLEAN, removed : BOOLEAN, late : BOOLEAN]
        /\ asked \in Nat /\ run["timer"].mine \in BOOLEAN
        /\ run["timer"].stage \in {"none", "new", "pass", "written"}
    BY TimerIsASlot DEF Types, RunOf, TimerOf
  <2>2. /\ Persist(timer, dirty) /\ ~InFlight("timer") /\ mode = "stopping" /\ mode' = "stopped" /\ UNCHANGED run
        /\ UNCHANGED <<kind, timer, task, result, sheet, input, output, asked, answered, lost>>
    BY DEF EndStop, NoTimerRun, graph, outside, count
  <2>3. /\ saved' \in TimerOf /\ dirty' = FALSE
        /\ saved' = timer \/ (saved' = saved /\ (sheet.removed = TRUE \/ dirty = FALSE))
        /\ sheet.removed = TRUE => saved' = saved
    BY <2>1, <2>2, PersistDoes
  <2>4. run' \in [Slot -> RunOf] /\ RunsKept /\ TimerRunKept
    BY <2>2, RunUnchanged
  <2> QED
    BY ONLY Types, <2>1, <2>2, <2>3, <2>4
<1>2. Types'
  BY <1>1 DEF Types, Still, Place, Results
<1>3. Owns'
  BY <1>1 DEF Types, Still, Owns, Slot, TimerRunDisowned, Waits, OwnedRun, Mine, InFlight,
     RunsKept, EventRunsStay, TimerRun, TimerRunKept, Pulse
<1>4. Needs'
  BY <1>1 DEF Types, Still, Needs, Pulse, Idle, Owns, Waits, OwnedRun, Gone, InFlight, Mine
<1>5. Gone'
  BY <1>1 DEF Types, Still, Gone, Begun, RunsKept, NoneBegins, TimerRunDisowned, TimerRun,
     TimerRunKept, Idle, Owns, Mine, InFlight
<1>6. PulseEnds'
  BY <1>1 DEF Types, Still, PulseEnds, TimerRunDisowned, OffDue, Due, Excused, Mine, InFlight,
     TimerRun, TimerRunKept, Pulse, Owns, Waits, OwnedRun, Gone, Needs, Idle
<1>7. DelayFires'
  BY <1>1 DEF Types, Still, DelayFires, TimerRunDisowned, Due, Mine, TimerRun, TimerRunKept, Idle,
     Pulse, Owns, Waits, OwnedRun, Gone, InFlight
<1> QED
  BY <1>2, <1>3, <1>4, <1>5, <1>6, <1>7 DEF Inv

\* The process ends: the deadline that counts is the saved one.
LEMMA ExitKeeps ==
    ASSUME Types, Owns, Needs, Gone, PulseEnds, DelayFires,
           Exit
    PROVE  Inv'
<1>1. /\ Types /\ run' \in [Slot -> RunOf] /\ RunsKept /\ run["timer"].asks \in Nat
      /\ sheet' \in [loaded : BOOLEAN, enabled : BOOLEAN, removed : BOOLEAN, late : BOOLEAN]
      /\ timer' \in TimerOf /\ saved' \in TimerOf /\ dirty' \in BOOLEAN
      /\ \A r \in Slot : run'[r].stage = "none"
      /\ TimerRun("none", "event", FALSE, FALSE, FALSE, 0)
      /\ ~InFlight("timer") /\ dirty = FALSE /\ dirty' = FALSE /\ task \in {"none", "top"} /\ mode # "down"
      /\ mode' = "down" /\ timer' = Idle /\ task' = "none" /\ result' = "none"
      /\ lost' \in BOOLEAN /\ (lost = TRUE => lost' = TRUE)
      /\ lost' = TRUE \/ sheet.removed = TRUE \/ (saved.deadline = "none" <=> timer.deadline = "none")
      /\ UNCHANGED <<kind, sheet, saved, input, output, asked, answered>>
  <2>1. /\ run["timer"].asks \in Nat /\ timer \in TimerOf /\ saved \in TimerOf /\ dirty \in BOOLEAN
        /\ timer.deadline \in {"none", "later", "now"} /\ timer.needOn \in BOOLEAN /\ timer.prev \in BOOLEAN
        /\ sheet \in [loaded : BOOLEAN, enabled : BOOLEAN, removed : BOOLEAN, late : BOOLEAN]
        /\ asked \in Nat /\ run["timer"].mine \in BOOLEAN
        /\ run["timer"].stage \in {"none", "new", "pass", "written"}
    BY TimerIsASlot DEF Types, RunOf, TimerOf
  <2>2. /\ run' = [r \in Slot |-> NoRun] /\ dirty' = FALSE
        /\ mode' = "down" /\ timer' = Idle /\ task' = "none" /\ result' = "none"
        /\ UNCHANGED <<kind, sheet, saved, input, output, asked, answered>>
    BY DEF Exit, ForgetProcess, outside
  <2>3. dirty = FALSE /\ mode # "down" /\ ~InFlight("timer") /\ task \in {"none", "top"}
    BY <2>1 DEF Exit, Settled, NoTimerRun, Owns
  <2>4. /\ run' \in [Slot -> RunOf] /\ RunsKept /\ TimerRun("none", "event", FALSE, FALSE, FALSE, 0)
        /\ \A r \in Slot : run'[r].stage = "none"
    BY <2>2, NoRunTyped, TimerIsASlot DEF NoRun, RunsKept, EventRunsStay, NoneBegins, Begun, TimerRun
  <2>5. lost' = (lost \/ ~Saved)
    BY DEF Exit, ForgetProcess
  <2>6. lost' \in BOOLEAN /\ (lost = TRUE => lost' = TRUE) /\ (lost' = TRUE \/ Saved)
    BY <2>5, Zenon
  <2> QED
    BY <2>1, <2>2, <2>3, <2>4, <2>6, IdleTyped DEF Saved
<1>2. Types'
  BY <1>1 DEF Types, Still, Place, Results
<1>3. Owns'
  BY <1>1 DEF Types, Still, Owns, Slot, TimerRunDisowned, Waits, OwnedRun, Mine, InFlight,
     RunsKept, EventRunsStay, TimerRun, TimerRunKept, Pulse
<1>4. Needs'
  BY <1>1 DEF Types, Still, Needs, Pulse, Idle, Owns, Waits, OwnedRun, Gone, InFlight, Mine
<1>5. Gone'
  BY <1>1 DEF Types, Still, Gone, Begun, RunsKept, NoneBegins, TimerRunDisowned, TimerRun,
     TimerRunKept, Idle, Owns, Mine, InFlight
<1>6. PulseEnds'
  BY <1>1 DEF Types, Still, PulseEnds, TimerRunDisowned, OffDue, Due, Excused, Mine, InFlight,
     TimerRun, TimerRunKept, Pulse, Owns, Waits, OwnedRun, Gone, Needs, Idle
<1>7. DelayFires'
  BY <1>1 DEF Types, Still, DelayFires, TimerRunDisowned, Due, Mine, TimerRun, TimerRunKept, Idle,
     Pulse, Owns, Waits, OwnedRun, Gone, InFlight
<1> QED
  BY <1>2, <1>3, <1>4, <1>5, <1>6, <1>7 DEF Inv

\* start() takes up the saved timer.
LEMMA StartUpKeeps ==
    ASSUME Types, Owns, Needs, Gone, PulseEnds, DelayFires,
           StartUp
    PROVE  Inv'
<1>1. /\ Types /\ run' \in [Slot -> RunOf] /\ RunsKept /\ run["timer"].asks \in Nat
      /\ sheet' \in [loaded : BOOLEAN, enabled : BOOLEAN, removed : BOOLEAN, late : BOOLEAN]
      /\ timer' \in TimerOf /\ saved' \in TimerOf /\ dirty' \in BOOLEAN
      /\ sheet'.removed = sheet.removed /\ (sheet.removed = TRUE => sheet'.loaded = FALSE)
      /\ sheet'.late = FALSE
      /\ mode = "down" /\ mode' = "up" /\ input' \in BOOLEAN
      /\ \/ /\ ~Pulse /\ timer' = Idle /\ task' = "none" /\ result' = "none"
            /\ answered' = asked /\ TimerRunDisowned
            /\ saved' = Idle \/ (saved' = saved /\ (sheet.removed = TRUE \/ dirty' = TRUE))
         \/ /\ timer'.deadline = "none" <=> saved.deadline = "none"
            /\ timer'.needOn = TRUE => saved.needOn = TRUE
            /\ saved = Idle => timer' = Idle
            /\ task' = task \/ (task = "none" /\ task' = "top" /\ saved.deadline # "none")
            /\ UNCHANGED <<result, answered>> /\ TimerRunKept
            /\ saved' = timer' \/ saved' = saved
      /\ UNCHANGED <<kind, output, asked, lost>>
  <2>1. /\ run["timer"].asks \in Nat /\ timer \in TimerOf /\ saved \in TimerOf /\ dirty \in BOOLEAN
        /\ timer.deadline \in {"none", "later", "now"} /\ timer.needOn \in BOOLEAN /\ timer.prev \in BOOLEAN
        /\ sheet \in [loaded : BOOLEAN, enabled : BOOLEAN, removed : BOOLEAN, late : BOOLEAN]
        /\ asked \in Nat /\ run["timer"].mine \in BOOLEAN
        /\ run["timer"].stage \in {"none", "new", "pass", "written"}
    BY TimerIsASlot DEF Types, RunOf, TimerOf
  <2>2. PICK deadline \in (IF saved.deadline = "later" THEN {"later", "now"} ELSE {saved.deadline}) :
          Resume([saved EXCEPT !.deadline = deadline, !.prev = @ /\ input'], saved.prev /\ ~input')
    BY DEF StartUp
  <2>3. /\ mode = "down" /\ mode' = "up" /\ input' \in BOOLEAN
        /\ sheet' = [sheet EXCEPT !.loaded = ~sheet.removed, !.late = FALSE]
        /\ UNCHANGED <<kind, output, asked, lost>>
    BY DEF StartUp
  <2>4. /\ sheet' \in [loaded : BOOLEAN, enabled : BOOLEAN, removed : BOOLEAN, late : BOOLEAN]
        /\ sheet'.removed = sheet.removed /\ (sheet.removed = TRUE => sheet'.loaded = FALSE)
        /\ sheet'.late = FALSE
    BY <2>1, <2>3
  <2> DEFINE marked == saved.prev /\ ~input'
  <2>5. PICK level \in BOOLEAN : level = (saved.prev /\ input')
    OBVIOUS
  <2> DEFINE t == [saved EXCEPT !.deadline = deadline, !.prev = level]
  <2>6. Resume(t, TRUE) \/ Resume(t, FALSE)
    <3>1. [saved EXCEPT !.deadline = deadline, !.prev = @ /\ input'] = t
      BY <2>1, <2>5 DEF TimerOf
    <3>2. Resume(t, marked)
      BY <2>2, <3>1 DEF Resume, Persist, Spend
    <3> HIDE DEF t
    <3>3. CASE marked
      BY <3>2, <3>3 DEF Resume, Persist, Spend
    <3>4. CASE ~marked
      BY <3>2, <3>4 DEF Resume, Persist, Spend
    <3> QED
      BY <3>3, <3>4
  <2>7. /\ t \in TimerOf /\ (t.deadline = "none" <=> saved.deadline = "none")
        /\ t.needOn = saved.needOn /\ (saved = Idle => t = Idle)
    <3>1. deadline \in {"none", "later", "now"} /\ (deadline = "none" <=> saved.deadline = "none")
      BY <2>1 DEF TimerOf
    <3>2. t \in TimerOf /\ t.deadline = deadline /\ t.needOn = saved.needOn /\ t.prev = level
      BY <2>1, <2>5, <3>1 DEF TimerOf
    <3>3. ASSUME saved = Idle PROVE t = Idle
      <4>1. t.prev = FALSE /\ t.deadline = "none" /\ t.needOn = FALSE
        BY <2>5, <3>1, <3>2, <3>3 DEF Idle
      <4> QED
        BY <3>2, <4>1, IdleTimer
    <3> QED
      BY <3>1, <3>2, <3>3
  <2> HIDE DEF t
  <2>8. /\ timer' \in TimerOf /\ saved' \in TimerOf /\ dirty' \in BOOLEAN
        /\ run' \in [Slot -> RunOf] /\ RunsKept
        /\ \/ /\ ~Pulse /\ timer' = Idle /\ task' = "none" /\ result' = "none"
              /\ answered' = asked /\ TimerRunDisowned
              /\ saved' = Idle \/ (saved' = saved /\ (sheet.removed = TRUE \/ dirty' = TRUE))
           \/ /\ timer'.deadline = t.deadline /\ (timer'.needOn = TRUE => t.needOn = TRUE)
              /\ timer' = t \/ t.deadline # "none"
              /\ task' = task \/ (task = "none" /\ task' = "top")
              /\ task' = task \/ t.deadline # "none"
              /\ UNCHANGED <<result, answered>> /\ TimerRunKept
              /\ saved' = timer' \/ saved' = saved
    <3>1. CASE Resume(t, TRUE)
      BY <2>7, <3>1, ResumeDoes
    <3>2. CASE Resume(t, FALSE)
      BY <2>7, <3>2, ResumeDoes
    <3> QED
      BY <2>6, <3>1, <3>2
  <2> QED
    BY <2>1, <2>3, <2>4, <2>7, <2>8 DEF Idle
<1>2. Types'
  BY <1>1 DEF Types, Still, Place, Results
<1>3. Owns'
  BY <1>1 DEF Types, Still, Owns, Slot, TimerRunDisowned, Waits, OwnedRun, Mine, InFlight,
     RunsKept, EventRunsStay, TimerRun, TimerRunKept, Pulse
<1>4. Needs'
  BY <1>1 DEF Types, Still, Needs, Pulse, Idle, Owns, Waits, OwnedRun, Gone, InFlight, Mine
<1>5. Gone'
  BY <1>1 DEF Types, Still, Gone, Begun, RunsKept, NoneBegins, TimerRunDisowned, TimerRun,
     TimerRunKept, Idle, Owns, Mine, InFlight
<1>6. PulseEnds'
  BY <1>1 DEF Types, Still, PulseEnds, TimerRunDisowned, OffDue, Due, Excused, Mine, InFlight,
     TimerRun, TimerRunKept, Pulse, Owns, Waits, OwnedRun, Gone, Needs, Idle
<1>7. DelayFires'
  BY <1>1 DEF Types, Still, DelayFires, TimerRunDisowned, Due, Mine, TimerRun, TimerRunKept, Idle,
     Pulse, Owns, Waits, OwnedRun, Gone, InFlight
<1> QED
  BY <1>2, <1>3, <1>4, <1>5, <1>6, <1>7 DEF Inv

-----------------------------------------------------------------------------
(* The theorems. *)

LEMMA InitKeeps == Init => Inv
<1> SUFFICES ASSUME Init PROVE Inv
  OBVIOUS
<1>1. /\ run \in [Slot -> RunOf] /\ run["timer"].stage = "none" /\ run["timer"].mine = FALSE
      /\ run["timer"].abandoned = FALSE /\ run["timer"].asks = 0
      /\ \A r \in EventRun : run[r].what = "event" /\ run[r].mine = FALSE
  BY NoRunTyped, TimerIsASlot DEF Init, NoRun
<1>2. timer \in TimerOf /\ timer.deadline = "none" /\ timer.needOn = FALSE
  BY DEF Init, Idle, TimerOf
<1>3. Types
  BY <1>1, <1>2 DEF Init, Types, Place, Results
<1>4. Owns
  BY <1>1, <1>2 DEF Init, Owns, Waits, OwnedRun, Mine, InFlight
<1>5. Needs /\ Gone
  BY <1>1, <1>2 DEF Init, Needs, Gone, Idle
<1>6. PulseEnds
  BY <1>1, <1>2 DEF Init, PulseEnds, InFlight, Mine
<1>7. DelayFires
  BY <1>1, <1>2 DEF Init, DelayFires, Due, Mine, Idle
<1> QED
  BY <1>3, <1>4, <1>5, <1>6, <1>7 DEF Inv

LEMMA NextKeeps == Inv /\ [Next]_vars => Inv'
<1> SUFFICES ASSUME Inv, [Next]_vars PROVE Inv'
  OBVIOUS
<1>1. Types /\ Owns /\ Needs /\ Gone /\ PulseEnds /\ DelayFires
  BY DEF Inv
<1>2. ASSUME NEW r \in EventRun, NEW level \in BOOLEAN, NEW fresh \in BOOLEAN, Event(r, level, fresh)
      PROVE  Inv'
  BY <1>1, <1>2, EventKeeps
<1>3. CASE BeginTimerRun
  BY <1>1, <1>3, BeginTimerRunKeeps
<1>4. ASSUME NEW r \in Slot, Run(r)
      PROVE  Inv'
  <2>1. CASE r = "timer"
    <3>1. CASE Fail("timer")
      BY <1>1, <3>1, FailTimerKeeps
    <3>2. CASE Act("timer")
      BY <1>1, <3>2, ActTimerRunKeeps
    <3>3. CASE Conclude("timer")
      BY <1>1, <3>3, ConcludeTimerRunKeeps
    <3> QED
      BY <1>4, <2>1, <3>1, <3>2, <3>3 DEF Run
  <2>2. CASE r \in EventRun
    <3>1. CASE Fail(r)
      BY <1>1, <2>2, <3>1, FailEventKeeps
    <3>2. CASE Act(r)
      BY <1>1, <2>2, <3>2, ActEventKeeps
    <3>3. CASE Conclude(r)
      BY <1>1, <2>2, <3>3, ConcludeEventKeeps
    <3> QED
      BY <1>4, <3>1, <3>2, <3>3 DEF Run
  <2> QED
    BY <1>4, <2>1, <2>2 DEF Slot
<1>5. CASE Task
  <2>1. CASE FireDelay
    BY <1>1, <2>1, FireDelayKeeps
  <2>2. CASE StartPulse
    BY <1>1, <2>2, StartPulseKeeps
  <2>3. CASE EndPulse
    BY <1>1, <2>3, EndPulseKeeps
  <2>4. CASE TaskEnds
    BY <1>1, <2>4, TaskEndsKeeps
  <2>5. CASE AfterFire
    BY <1>1, <2>5, AfterFireKeeps
  <2>6. CASE AfterStart
    BY <1>1, <2>6, AfterStartKeeps
  <2>7. CASE AfterEnd
    BY <1>1, <2>7, AfterEndKeeps
  <2>8. CASE RetryStart
    BY <1>1, <2>8, RetryStartKeeps
  <2>9. CASE RetryEnd
    BY <1>1, <2>9, RetryEndAgainKeeps, RetryEndElseKeeps
  <2> QED
    BY <1>5, <2>1, <2>2, <2>3, <2>4, <2>5, <2>6, <2>7, <2>8, <2>9 DEF Task
<1>6. CASE Tick
  BY <1>1, <1>6, TickKeeps
<1>7. ASSUME NEW enabled \in BOOLEAN, BeginSave(enabled)
      PROVE  Inv'
  BY <1>1, <1>7, BeginSaveKeeps
<1>8. CASE EndSave
  BY <1>1, <1>8, EndSaveKeeps
<1>9. CASE Remove
  BY <1>1, <1>9, RemoveKeeps
<1>13. CASE ForgetRemoved
  BY <1>1, <1>13, ForgetRemovedKeeps
<1>10. CASE Stop
  BY <1>1, <1>10, StopKeeps
<1>11. CASE Shutdown
  BY <1>1, <1>11, CutRunKeeps, EndStopKeeps, ExitKeeps, StartUpKeeps DEF Shutdown
<1>12. CASE UNCHANGED vars
  BY <1>1, <1>12
     DEF Inv, vars, graph, outside, count, Types, Owns, Needs, Gone, PulseEnds, DelayFires,
         Waits, OwnedRun, Mine, InFlight, OffDue, Due, Excused, Pulse, Begun
<1> QED
  BY <1>2, <1>3, <1>4, <1>5, <1>6, <1>7, <1>8, <1>9, <1>10, <1>11, <1>12, <1>13 DEF Next

\* The inductive invariant: at every moment the deadline, the task or a run
\* that has not acted answers for what the timer owes.
THEOREM TimersHold == Spec => []Inv
<1> QED
  BY InitKeeps, NextKeeps, PTL DEF Spec

\* The timer, the task and the run that the task waits for fit each other.
THEOREM TypeCorrect == Spec => []TypeOK
<1>1. Inv => TypeOK
  <2> SUFFICES ASSUME Inv PROVE TypeOK
    OBVIOUS
  <2>1. /\ Types /\ Owns /\ Needs /\ timer \in TimerOf /\ saved \in TimerOf
        /\ timer.needOn \in BOOLEAN /\ saved.needOn \in BOOLEAN
        /\ run["timer"].mine \in BOOLEAN /\ run["timer"].abandoned \in BOOLEAN
    BY TimerIsASlot DEF Inv, Types, TimerOf, RunOf
  <2>2. timer \in [prev : BOOLEAN, deadline : {"none", "later", "now"}, needOn : BOOLEAN]
    BY <2>1 DEF TimerOf
  <2>3. (timer.needOn => Pulse /\ timer.deadline # "none") /\ (saved.needOn => saved.deadline # "none")
    BY <2>1 DEF Needs
  <2>4. /\ task \in Place /\ result \in {"none", "ran", "failed"}
        /\ result # "none" => task \in {"waitStart", "waitEnd", "waitFire"}
    BY <2>1 DEF Types, Results, Owns, Waits
  <2>5. task \in {"waitStart", "waitEnd", "waitFire"} <=>
            result # "none" \/ (InFlight("timer") /\ run["timer"].mine /\ ~run["timer"].abandoned)
    BY <2>1 DEF Owns, Waits, OwnedRun, Mine
  <2> QED
    BY <2>2, <2>3, <2>4, <2>5 DEF TypeOK
<1> QED
  BY <1>1, TimersHold, PTL

\* Once a sheet is deleted, no run, task or save brings its timer back, unless
\* a run of its own, asked for before and not begun, begins after that.
THEOREM DeletedStaysGone == Spec => []RemovedStaysGone
<1>1. Inv => RemovedStaysGone
  BY DEF Inv, Gone, RemovedStaysGone, Types
<1> QED
  BY <1>1, TimersHold, PTL

\* With nothing under way, the Write Object is on only while its pulse is: a
\* run, a save, a failure or a restart in between does not leave it on.
THEOREM PulseLeavesNothingOn == Spec => []NothingLeftOn
<1>1. Inv => NothingLeftOn
  <2> SUFFICES ASSUME Inv, Quiet, output, timer.deadline = "none", ~lost PROVE FALSE
    BY DEF NothingLeftOn
  <2>1. output = TRUE /\ lost = FALSE /\ mode = "up" /\ sheet.removed # TRUE
    BY DEF Inv, Types, Quiet, Runs, Gone
  <2>2. ~OffDue
    BY TimerIsASlot DEF Inv, Quiet, InFlight, OffDue, Due
  <2> QED
    BY <2>1, <2>2 DEF Inv, PulseEnds, Excused
<1> QED
  BY <1>1, TimersHold, PTL

\* A firing that acts answers a trigger that no firing answered before: the
\* ways in which a run can be cut short repeat none that has acted.
THEOREM FiresOnce == Spec => FiresOncePerTrigger
<1> DEFINE Answers ==
        LET r == run["timer"] IN
        r.what = "fire" /\ r.mine /\ r.stage = "pass" /\ run'["timer"].stage = "written" =>
            r.asks > answered
<1>1. Inv => [Answers]_vars
  <2> SUFFICES ASSUME Inv, run["timer"].what = "fire", run["timer"].mine, run["timer"].stage = "pass"
               PROVE  run["timer"].asks > answered
    OBVIOUS
  <2>1. run["timer"].mine = TRUE
    BY TimerIsASlot DEF Inv, Types, RunOf
  <2> QED
    BY <2>1 DEF Inv, DelayFires, Due, Mine
<1> QED
  BY <1>1, TimersHold, PTL DEF FiresOncePerTrigger
=============================================================================
