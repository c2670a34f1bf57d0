---------------------------- MODULE LogicTimers ----------------------------
(***************************************************************************)
(* The delay and pulse blocks of the logic engine (the timer section of    *)
(* src/obs/logic/manager.py), for one block of one sheet, a pulse or a     *)
(* delay.                                                                  *)
(*                                                                         *)
(* A trigger sets a deadline; the task of the block waits for it and then  *)
(* runs the whole sheet: a delay fires in that run, a pulse is switched on *)
(* in one run and off in another.  Meanwhile data point events run the     *)
(* same sheet, a save replaces it and makes what runs obsolete, stop() and *)
(* a restart intervene, and every run awaits between its pass and its end. *)
(* A step is what lies between two awaits that matter.                     *)
(*                                                                         *)
(* A deadline lies ahead ("later") or has come ("now").  The sheet has one *)
(* Write Object, behind the block; its value is "output".  Cascades stay   *)
(* below their limit.                                                      *)
(***************************************************************************)
EXTENDS Naturals

CONSTANTS
    EventRun,                   \* runs of the sheet for events, at most at once
    MaxEvents, MaxSaves, MaxErrors, MaxRestarts     \* bounds of the run

\* Fewer errors than _TIMER_MAX_ERROR_ATTEMPTS: no run is given up.
ASSUME BoundsAssumption ==
    /\ {MaxEvents, MaxSaves, MaxRestarts} \subseteq Nat
    /\ MaxErrors \in 0..2
    /\ "timer" \notin EventRun

Slot == {"timer"} \union EventRun
Place == {"none", "top", "waitStart", "waitEnd", "waitFire", "pauseStart", "pauseEnd"}

VARIABLES
    kind,                       \* of the block; never changes
    timer,                      \* its _TimerState
    dirty,                      \* _timer_dirty
    task,                       \* place of its task in _timer_tasks
    run,                        \* runs of the sheet; "timer" is in _timer_runs
    result,                     \* of a finished timer run, not yet seen by the task
    sheet,                      \* the entry of _graphs, the row's enabled, deleted, and:
                                \* has a run of the deleted sheet begun since?
    mode,                       \* up, stopping and stopped by stop(), down
    saved,                      \* node_state of the row in the database
    input,                      \* value of the Read Object wired to the trigger
    output,                     \* what the Write Object published last
    asked, answered,            \* triggers of the delay; those a firing covered
    lost,                       \* has a restart found less than the process knew?
    used                        \* events, saves, errors and restarts so far

graph == <<run, result>>
outside == <<input, output>>
count == <<asked, answered, lost>>
vars == <<kind, timer, dirty, task, graph, sheet, mode, saved, outside, count, used>>

Idle == [prev |-> FALSE, deadline |-> "none", needOn |-> FALSE]
NoRun == [stage |-> "none", what |-> "event", active |-> FALSE, level |-> FALSE,
          fresh |-> FALSE, obsolete |-> FALSE, older |-> {}, old |-> FALSE, dead |-> FALSE,
          moved |-> FALSE, recorded |-> FALSE, pending |-> FALSE, mine |-> FALSE,
          abandoned |-> FALSE, asks |-> 0]

Init ==
    /\ kind \in {"timer_delay", "timer_pulse"}
    /\ timer = Idle /\ dirty = FALSE /\ task = "none"
    /\ run = [r \in Slot |-> NoRun] /\ result = "none"
    /\ sheet = [loaded |-> TRUE, enabled |-> TRUE, removed |-> FALSE, late |-> FALSE]
    /\ mode = "up"
    /\ saved = Idle
    /\ input = FALSE /\ output = FALSE
    /\ asked = 0 /\ answered = 0 /\ lost = FALSE
    /\ used = [events |-> 0, saves |-> 0, errors |-> 0, restarts |-> 0]

-----------------------------------------------------------------------------
(* Helpers *)

Pulse == kind = "timer_pulse"
Spend(what, limit) == used[what] < limit /\ used' = [used EXCEPT ![what] = @ + 1]
InFlight(r) == run[r].stage # "none"
Begun == {r \in Slot : run[r].stage \in {"pass", "written"}}
NoTimerRun == ~InFlight("timer")
Runs == sheet.loaded /\ sheet.enabled

\* _active_pulses
Active(t) == Pulse /\ t.deadline # "none"

\* Variant: a run does not notice that its sheet was deleted.
LiveUntilLoaded(r) == sheet.loaded => sheet.enabled

\* May r still touch the timer?  Not when the timers were forgotten after r
\* had begun: the epoch it took then is no longer the sheet's.
Live(r) == ~run[r].dead /\ (sheet.loaded => sheet.enabled)

\* _start_timer
Started(t) == [t EXCEPT !.needOn = @ \/ (Pulse /\ t.deadline = "none"),
                        !.deadline = "later"]
Spawn(when) == task' = IF when /\ task = "none" /\ mode = "up" THEN "top" ELSE task

\* _timer_cut: what did not happen stays due.
CutOf(t, what) == IF what = "start" THEN [t EXCEPT !.needOn = TRUE]
                  ELSE [t EXCEPT !.deadline = IF @ = "none" THEN "now" ELSE @]

\* _persist_node_state at the end of a run or a save; an error leaves the mark.
Persist(t, marked) ==
    \/ /\ saved' = IF marked /\ ~sheet.removed THEN t ELSE saved
       /\ dirty' = FALSE /\ UNCHANGED used
    \/ /\ mode = "up" /\ marked /\ Spend("errors", MaxErrors)
       /\ UNCHANGED saved /\ dirty' = TRUE

\* Variant: the runs go on as if somebody waited for them.
RunsGoOn == run

\* The task is gone, and what it started belongs to nobody.
Disowned == [r \in Slot |-> IF InFlight(r) THEN [run[r] EXCEPT !.mine = FALSE, !.moved = TRUE]
                                           ELSE NoRun]

\* _forget_timers, and the sheet's epoch and generation: runs that have begun
\* hold the old ones, and one that has not will take new ones.
Forget ==
    /\ timer' = Idle /\ dirty' = FALSE /\ task' = "none"
    /\ run' = [r \in Slot |-> [Disowned[r] EXCEPT !.obsolete = (r \in Begun), !.dead = (r \in Begun)]]
    /\ result' = "none" /\ answered' = asked

-----------------------------------------------------------------------------
(* A run of the sheet: _execute_graph *)

\* r is the newest run now: to no other run is it an older one.
Succeeded(r) == [q \in Slot |-> [run[q] EXCEPT !.older = @ \ {r}]]

\* _on_value_event: a telegram for the trigger, or for another data point.
Event(r, level, fresh) ==
    /\ mode = "up" /\ Runs /\ ~InFlight(r) /\ r = CHOOSE q \in EventRun : ~InFlight(q)
    /\ Spend("events", MaxEvents)
    /\ ~fresh => level = input
    /\ input' = level
    /\ run' = [Succeeded(r) EXCEPT ![r] = [NoRun EXCEPT
                  !.stage = "pass", !.active = Active(timer), !.level = level,
                  !.fresh = fresh /\ level, !.older = Begun]]
    /\ UNCHANGED <<kind, timer, dirty, task, result, sheet, mode, saved, output, count>>

BeginTimerRun ==
    /\ run["timer"].stage = "new"
    /\ run' = [Succeeded("timer") EXCEPT
                  !["timer"].stage = "pass", !["timer"].active = Active(timer),
                  !["timer"].level = input, !["timer"].older = Begun]
    /\ sheet' = [sheet EXCEPT !.late = @ \/ sheet.removed]
    /\ UNCHANGED <<kind, timer, dirty, task, result, mode, saved, outside, count, used>>

\* A pass finds its generation replaced, or raises: nothing is published.
Fail(r) ==
    /\ run[r].stage = "pass"
    /\ \/ run[r].obsolete /\ UNCHANGED used
       \/ Spend("errors", MaxErrors)
    /\ run' = [run EXCEPT ![r] = NoRun]
    /\ IF run[r].mine /\ run[r].abandoned
       THEN timer' = CutOf(timer, run[r].what) /\ dirty' = TRUE
       ELSE UNCHANGED <<timer, dirty>>
    /\ result' = IF run[r].mine /\ ~run[r].abandoned THEN "failed" ELSE result
    /\ UNCHANGED <<kind, task, sheet, mode, saved, outside, count>>

Records(r) == Live(r) /\ ~run[r].old
Triggers(r) == Records(r) /\ run[r].level /\ (~timer.prev \/ run[r].fresh)

\* What the other runs learn when r records the trigger level.
Recorded(r) ==
    [q \in Slot |->
        IF q = r THEN [run[r] EXCEPT !.stage = "written", !.recorded = Records(r),
                                     !.moved = FALSE, !.pending = ~Pulse /\ Triggers(r)]
        ELSE IF ~Records(r) \/ ~InFlight(q) THEN run[q]
        ELSE [run[q] EXCEPT !.recorded = FALSE, !.old = @ \/ q \in run[r].older,
                            !.moved = @ \/ timer.prev # run[r].level]]

\* Variant: the write always follows the level of the run's beginning.
PublishedStale(r, t) == IF Pulse THEN run[r].active ELSE output

\* The write follows the level of the run's beginning, unless it has changed
\* and this is not the block's own run.
Published(r, t) ==
    IF Pulse /\ (r = "timer" \/ run[r].active = Active(t)) THEN run[r].active ELSE output

\* The trigger level is recorded, a pulse starts, and the writes begin.
Act(r) ==
    LET level == IF Records(r) THEN [timer EXCEPT !.prev = run[r].level] ELSE timer
        start == Pulse /\ Triggers(r)
    IN  /\ run[r].stage = "pass"
        /\ timer' = IF start THEN Started(level) ELSE level
        /\ dirty' = (dirty \/ start \/ (timer.prev /\ ~level.prev))
        /\ Spawn(start)
        /\ output' = Published(r, timer')
        /\ run' = Recorded(r)
        /\ answered' = IF run[r].what = "fire" /\ run[r].mine THEN run[r].asks ELSE answered
        /\ UNCHANGED <<kind, result, sheet, mode, saved, input, asked, lost, used>>

\* After the writes: a delay starts, and the state is saved.
Conclude(r) ==
    LET start == run[r].pending /\ ~run[r].moved /\ Live(r)
    IN  /\ run[r].stage = "written"
        /\ timer' = IF start THEN Started(timer) ELSE timer
        /\ asked' = IF start THEN asked + 1 ELSE asked
        /\ Spawn(start)
        /\ Persist(timer', dirty \/ start)
        /\ run' = [run EXCEPT ![r] = NoRun]
        /\ result' = IF run[r].mine /\ ~run[r].abandoned THEN "ran" ELSE result
        /\ UNCHANGED <<kind, sheet, mode, outside, answered, lost>>

-----------------------------------------------------------------------------
(* The task of the block: _run_timer_delay and _run_timer_pulse *)

\* _run_timer_graph, with the timer as the caller has changed it; in a sheet
\* that is not running the caller takes that back and ends.
RunGraph(what, place, changed, takenBack) ==
    /\ NoTimerRun
    /\ IF Runs
       THEN /\ timer' = changed /\ dirty' = TRUE /\ task' = place
            /\ run' = [run EXCEPT !["timer"] = [NoRun EXCEPT !.stage = "new", !.what = what,
                                                  !.mine = TRUE, !.asks = asked]]
       ELSE timer' = takenBack /\ task' = "none" /\ UNCHANGED <<dirty, run>>
    /\ UNCHANGED <<kind, result, sheet, mode, saved, outside, count, used>>

FireDelay ==
    /\ task = "top" /\ ~Pulse /\ timer.deadline = "now"
    /\ RunGraph("fire", "waitFire", [timer EXCEPT !.deadline = "none"], timer)

StartPulse ==
    /\ task = "top" /\ Pulse /\ timer.deadline # "none" /\ timer.needOn
    /\ RunGraph("start", "waitStart", [timer EXCEPT !.needOn = FALSE], timer)

EndPulse ==
    /\ task = "top" /\ Pulse /\ timer.deadline = "now" /\ ~timer.needOn
    /\ RunGraph("end", "waitEnd", [timer EXCEPT !.deadline = "none"], timer)

TaskStep(next) ==
    /\ task' = next /\ result' = "none"
    /\ UNCHANGED <<kind, run, sheet, mode, saved, outside, count, used>>

TaskEnds ==
    /\ task = "top" /\ timer.deadline = "none"
    /\ TaskStep("none") /\ UNCHANGED <<timer, dirty>>

\* Variant: a delay whose run failed is not pending again.
AfterFireOnce ==
    /\ task = "waitFire" /\ result # "none"
    /\ TaskStep("top") /\ UNCHANGED <<timer, dirty>>

\* A delay that failed is pending again, unless it was started anew.
AfterFire ==
    /\ task = "waitFire" /\ result # "none"
    /\ timer' = IF result = "failed" /\ timer.deadline = "none"
                THEN [timer EXCEPT !.deadline = "later"] ELSE timer
    /\ TaskStep("top") /\ UNCHANGED dirty

\* A pulse lasts its duration from the run that switched it on.
AfterStart ==
    /\ task = "waitStart" /\ result # "none"
    /\ IF result = "failed" THEN TaskStep("pauseStart") /\ UNCHANGED <<timer, dirty>>
       ELSE /\ timer' = [timer EXCEPT !.deadline = IF @ = "none" THEN @ ELSE "later"]
            /\ dirty' = TRUE /\ TaskStep("top")

AfterEnd ==
    /\ task = "waitEnd" /\ result # "none"
    /\ TaskStep(IF result = "failed" /\ timer.deadline = "none" THEN "pauseEnd" ELSE "top")
    /\ UNCHANGED <<timer, dirty>>

\* After the pause; a pulse that ran out meanwhile is not started any more.
RetryStart ==
    /\ task = "pauseStart"
    /\ timer' = [timer EXCEPT !.needOn = (timer.deadline = "later")]
    /\ TaskStep("top") /\ UNCHANGED dirty

\* Variant: an end that meets an unloaded sheet is given up.
RetryEndOnce ==
    /\ task = "pauseEnd"
    /\ IF timer.deadline = "none" THEN RunGraph("end", "waitEnd", timer, timer)
       ELSE NoTimerRun /\ TaskStep("top") /\ UNCHANGED <<timer, dirty>>

RetryEnd ==
    /\ task = "pauseEnd"
    /\ IF timer.deadline = "none"
       THEN RunGraph("end", "waitEnd", timer, [timer EXCEPT !.deadline = "now"])
       ELSE NoTimerRun /\ TaskStep("top") /\ UNCHANGED <<timer, dirty>>

Tick ==
    /\ timer.deadline = "later" /\ mode \in {"up", "stopping"}
    /\ timer' = [timer EXCEPT !.deadline = "now"]
    /\ UNCHANGED <<kind, dirty, task, graph, sheet, mode, saved, outside, count, used>>

-----------------------------------------------------------------------------
(* Saving, disabling and deleting the sheet *)

\* _resume_timers, for the timer t as it is when the sheet has been loaded.
Resume(t, marked) ==
    IF ~sheet.enabled /\ ~Pulse
    THEN /\ timer' = Idle /\ task' = "none"
         /\ run' = Disowned /\ result' = "none"
         /\ answered' = asked
         /\ Persist(Idle, TRUE)
    ELSE LET unattended == sheet.enabled /\ t.deadline # "none" /\ task = "none"
             late == unattended /\ t.deadline = "now"
         IN  /\ timer' = IF late THEN [t EXCEPT !.needOn = FALSE] ELSE t
             /\ task' = IF unattended /\ mode \in {"up", "down"} THEN "top" ELSE task
             /\ Persist(timer', marked \/ late)
             /\ UNCHANGED <<run, result, answered>>

\* reinitialize_graph: the sheet is unloaded and a new generation begins ...
BeginSave(enabled) ==
    /\ mode = "up" /\ sheet.loaded /\ ~sheet.removed /\ Spend("saves", MaxSaves)
    /\ sheet' = [sheet EXCEPT !.loaded = FALSE, !.enabled = enabled]
    /\ run' = [r \in Slot |-> [run[r] EXCEPT !.obsolete = (r \in Begun)]]
    /\ UNCHANGED <<kind, timer, dirty, task, result, mode, saved, outside, count>>

\* ... and reload() has read the row.
EndSave ==
    /\ mode \in {"up", "stopping", "stopped"} /\ ~sheet.loaded /\ ~sheet.removed
    /\ sheet' = [sheet EXCEPT !.loaded = TRUE]
    /\ Resume(timer, dirty)
    /\ UNCHANGED <<kind, mode, outside, asked, lost>>

\* remove_graph
Remove ==
    /\ mode = "up" /\ sheet.loaded /\ ~sheet.removed /\ Spend("saves", MaxSaves)
    /\ sheet' = [sheet EXCEPT !.loaded = FALSE, !.removed = TRUE]
    /\ saved' = Idle
    /\ Forget
    /\ UNCHANGED <<kind, mode, outside, asked, lost>>

\* reload, for another sheet, forgets what a run of a deleted one brought back
ForgetRemoved ==
    /\ mode \in {"up", "stopping", "stopped"} /\ sheet.removed
    /\ sheet' = [sheet EXCEPT !.late = FALSE]
    /\ Forget
    /\ UNCHANGED <<kind, mode, saved, outside, asked, lost, used>>

-----------------------------------------------------------------------------
(* stop() and start() *)

\* The task handles its cancellation; a run under way is left to finish.
Stop ==
    /\ mode = "up" /\ Spend("restarts", MaxRestarts)
    /\ mode' = "stopping" /\ task' = "none" /\ result' = "none"
    /\ timer' = CASE task = "pauseStart" \/ (task = "waitStart" /\ result = "failed") ->
                        CutOf(timer, "start")
                  [] task = "pauseEnd" \/ (task \in {"waitEnd", "waitFire"} /\ result = "failed") ->
                        CutOf(timer, "end")
                  [] OTHER -> timer
    /\ dirty' = (dirty \/ timer' # timer)
    /\ run' = [run EXCEPT !["timer"].abandoned = InFlight("timer")]
    /\ UNCHANGED <<kind, sheet, saved, outside, count>>

\* Variant: a run that is cut short stays due although it has acted.
CutRunAlways ==
    LET r == run["timer"]
    IN  /\ mode = "stopping" /\ InFlight("timer")
        /\ timer' = IF r.mine THEN CutOf(timer, r.what) ELSE timer
        /\ dirty' = TRUE
        /\ run' = [run EXCEPT !["timer"] = NoRun]
        /\ UNCHANGED <<kind, task, result, sheet, mode, saved, outside, count, used>>

\* Past the bound: what has not acted stays due, and a delay whose writes
\* were cut short gives its level back.
CutRun ==
    LET r == run["timer"]
    IN  /\ mode = "stopping" /\ InFlight("timer")
        /\ timer' = IF r.stage # "written" THEN (IF r.mine THEN CutOf(timer, r.what) ELSE timer)
                    ELSE [timer EXCEPT !.prev = @ /\ ~(r.pending /\ r.recorded)]
        /\ dirty' = TRUE
        /\ run' = [run EXCEPT !["timer"] = NoRun]
        /\ UNCHANGED <<kind, task, result, sheet, mode, saved, outside, count, used>>

EndStop ==
    /\ mode = "stopping" /\ NoTimerRun
    /\ mode' = "stopped"
    /\ Persist(timer, dirty)
    /\ UNCHANGED <<kind, timer, task, graph, sheet, outside, count>>

\* The row of a deleted sheet is gone.
Saved == sheet.removed \/ (saved.deadline = "none" <=> timer.deadline = "none")

ForgetProcess ==
    /\ mode' = "down" /\ timer' = Idle /\ dirty' = FALSE /\ task' = "none"
    /\ run' = [r \in Slot |-> NoRun] /\ result' = "none"
    /\ lost' = (lost \/ ~Saved)
    /\ UNCHANGED <<kind, sheet, saved, outside, asked, answered>>

\* The process ends after stop(), or is killed while nothing is unsaved.
Settled == ~dirty /\ \A r \in Slot : run[r].stage # "written"

Exit ==
    \/ mode = "stopped" /\ Settled /\ ForgetProcess /\ UNCHANGED used
    \/ /\ mode = "up" /\ Settled /\ NoTimerRun /\ task \in {"none", "top"}
       /\ Spend("restarts", MaxRestarts) /\ ForgetProcess

\* _load_graphs, _adopt_persisted_timer_state, _resume_timers; time has passed
\* and the input may have changed.  A level taken for high may have fallen.
StartUp ==
    /\ mode = "down" /\ mode' = "up"
    /\ input' \in BOOLEAN
    /\ sheet' = [sheet EXCEPT !.loaded = ~sheet.removed, !.late = FALSE]
    /\ \E deadline \in (IF saved.deadline = "later" THEN {"later", "now"} ELSE {saved.deadline}) :
          Resume([saved EXCEPT !.deadline = deadline, !.prev = @ /\ input'],
                 saved.prev /\ ~input')
    /\ UNCHANGED <<kind, output, asked, lost>>

-----------------------------------------------------------------------------
Run(r) == Fail(r) \/ Act(r) \/ Conclude(r)
Task == \/ FireDelay \/ StartPulse \/ EndPulse \/ TaskEnds
        \/ AfterFire \/ AfterStart \/ AfterEnd \/ RetryStart \/ RetryEnd
Shutdown == CutRun \/ EndStop \/ Exit \/ StartUp

Next == \/ \E r \in EventRun, level, fresh \in BOOLEAN : Event(r, level, fresh)
        \/ BeginTimerRun \/ \E r \in Slot : Run(r)
        \/ Task \/ Tick
        \/ \E enabled \in BOOLEAN : BeginSave(enabled)
        \/ EndSave \/ Remove \/ ForgetRemoved
        \/ Stop \/ Shutdown

\* The event loop goes on with what has begun, time passes, and a process
\* that has been stopped is started again.
Spec == /\ Init /\ [][Next]_vars
        /\ WF_vars(BeginTimerRun) /\ \A r \in Slot : WF_vars(Run(r))
        /\ WF_vars(Task) /\ WF_vars(Tick) /\ WF_vars(EndSave)
        /\ WF_vars(mode # "up" /\ Shutdown)

-----------------------------------------------------------------------------
(* Properties *)

TypeOK ==
    /\ timer \in [prev : BOOLEAN, deadline : {"none", "later", "now"}, needOn : BOOLEAN]
    /\ timer.needOn => Pulse /\ timer.deadline # "none"
    /\ saved.needOn => saved.deadline # "none"
    /\ task \in Place /\ result \in {"none", "ran", "failed"}
    /\ result # "none" => task \in {"waitStart", "waitEnd", "waitFire"}
    /\ task \in {"waitStart", "waitEnd", "waitFire"} <=>
            result # "none" \/ (InFlight("timer") /\ run["timer"].mine /\ ~run["timer"].abandoned)

Quiet == /\ mode = "up" /\ Runs /\ task \in {"none", "top"}
         /\ \A r \in Slot : ~InFlight(r)

\* Whenever nothing is under way, the Write Object is on only while the pulse
\* is: no slower run has published "on" again after the end of the pulse, and
\* no stop, save or failed run has left it on.
NothingLeftOn == Quiet /\ output => timer.deadline # "none" \/ lost

\* A sheet that was deleted gets no timer back from a run, a task or a save
\* under way then, unless its timer's run had been asked for and not begun:
\* that one takes the sheet for a new one.
RemovedStaysGone == sheet.removed /\ ~sheet.late => timer = Idle /\ task = "none"

\* Each firing of a delay answers a trigger no earlier firing answered: a run
\* that was cut short, made obsolete or left by its task is not repeated once
\* it has acted.
FiresOncePerTrigger ==
    [][LET r == run["timer"] IN
       r.what = "fire" /\ r.mine /\ r.stage = "pass" /\ run'["timer"].stage = "written" =>
            r.asks > answered]_vars

\* Every trigger of a delay is answered by a firing, or dropped with its sheet,
\* across saves, failed runs and restarts.
EveryDelayFires == asked > answered ~> asked = answered \/ lost \/ sheet.removed

\* A pulse that is on goes off, unless its sheet is disabled or deleted.
EveryPulseEnds == output ~> ~output \/ ~sheet.enabled \/ sheet.removed \/ lost

\* What stop() leaves is in the database: no marked change is unsaved then, and
\* no other change may be.
StoppedIsSaved == mode = "stopped" /\ Settled => Saved
=============================================================================
