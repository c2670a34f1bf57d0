---------------------------- MODULE SystemValues ----------------------------
(***************************************************************************)
(* How the value of a system data point reaches the adapters (#1370).      *)
(* The update service publishes it when it changes; the write router       *)
(* (core/write_router.py) writes it to the bindings, and offers it again   *)
(* to an instance that connects and to a binding that is attached.  The    *)
(* adapter registry (adapters/registry.py) starts, restarts and stops the  *)
(* instances meanwhile.                                                    *)
(*                                                                         *)
(* One data point, one adapter type.  A coroutine is a record of what it   *)
(* still has to do: it waits in "queue" for the rows it reads (the         *)
(* database answers in order), in "writing" for a slow adapter, or it is   *)
(* "work", the one that runs; whatever is not an await is one step.        *)
(***************************************************************************)
EXTENDS Naturals, FiniteSetsExt, SequencesExt

CONSTANTS
  Instance,       \* rows of adapter_instances
  Binding,        \* rows of adapter_bindings on the data point, DEST or BOTH
  Slow,           \* instances whose write suspends (Modbus, Home Assistant)
  Disabled,       \* instances that may be disabled at the start
  Filter,         \* the filters bindings may have
  None,
  MaxValue,       \* values are 1..MaxValue, 0 stands for "no good value"
  MaxOf,          \* bounds on what comes from outside, by kind: "publish", "link",
                  \* "lifecycle" (starting, stopping), "binding" (changes of bindings)
  MaxInputs       \* bound on all of it together

ASSUME FiniteAssumption == IsFiniteSet(Instance) /\ IsFiniteSet(Binding)
ASSUME ValueAssumption == MaxValue \in Nat
ASSUME NoneAssumption == None \notin Instance \cup Binding
ASSUME SlowAssumption == Slow \subseteq Instance /\ Disabled \subseteq Instance
ASSUME FilterAssumption == Filter \subseteq {"none", "change", "throttle"}

VARIABLES
  value,     \* the registry's value of the data point
  row,       \* adapter_bindings: mode, instance, filter
  config,    \* adapter_instances: "on", "off", or "gone"
  order,     \* _instances, in the order of the dictionary
  conn,      \* _connected of the instance's present object
  life,      \* where the request that starts or stops an instance has come to
  sweep,     \* a start or restart of all instances: <<>> or <<its progress>>
  seen,      \* _connected_instances
  last,      \* _last_value, 0 where there is none
  sent,      \* whether _last_sent has an entry
  queue,     \* coroutines that wait for the database
  work,      \* the coroutine that runs: <<>> or <<it>>
  writing,   \* coroutines that wait for an adapter
  got,       \* what each line was offered last for a binding since it came up
  held,      \* history: bindings whose latest write a filter held back, see Offered
  spent      \* how much has come from outside, by kind

vars == <<value, row, config, order, conn, life, sweep, seen, last, sent, queue, work, writing, got, held, spent>>
lines == <<got, held>>
router == <<seen, last, sent, queue, work, writing>>
tables == <<row, config>>

Kinds == {"publish", "link", "lifecycle", "binding"}
Spend(kind) ==
  /\ spent[kind] < MaxOf[kind]
  /\ MapThenSumSet(LAMBDA k : spent[k], Kinds) < MaxInputs
  /\ spent' = [spent EXCEPT ![kind] = @ + 1]

Values == 0 .. MaxValue
Enabled == {i \in Instance : config[i] = "on"}
Running == ToSet(order)
FirstOfType == IF order = <<>> THEN None ELSE Head(order)

(***************************************************************************)
(* Coroutines.                                                             *)
(***************************************************************************)
\* Rows to write v to, and the bindings to offer the current value after that.
Task(todo, v, only, rest) == [todo |-> todo, v |-> v, only |-> only, rest |-> rest]
Resend(rest) == Task(<<>>, 0, TRUE, rest)

GoesOn(t) == work' = IF t.todo = <<>> /\ t.rest = <<>> THEN <<>> ELSE <<t>>

RowOf(b) == [b |-> b, inst |-> row[b].inst, filter |-> row[b].filter]
RowsOf(B) == LET s == SetToSeq({b \in B : row[b].mode = "on"}) IN [n \in DOMAIN s |-> RowOf(s[n])]

\* resend_system_bindings up to its query
Listing(i, instances) == [op |-> "list", inst |-> i, first |-> instances # <<>> /\ Head(instances) = i]

\* reload_instance_bindings of each instance that runs, then the resends
ReloadThen(instances, rest, q) ==
  LET k == SelectInSeq(instances, LAMBDA i : i \in Running)
  IN  IF k = 0
      THEN queue' = q /\ GoesOn(Resend(rest))
      ELSE /\ queue' = Append(q, [op |-> "reload", left |-> SubSeq(instances, k + 1, Len(instances)), rest |-> rest])
           /\ work' = <<>>

EventRuns ==
  \/ \E n \in DOMAIN queue : queue[n].op = "all"
  \/ \E n \in DOMAIN work : ~work[n].only
  \/ \E n \in DOMAIN writing : ~writing[n].task.only

(***************************************************************************)
(* Initial state: start_all has ended, the enabled instances are connected,*)
(* nothing is published yet.                                               *)
(***************************************************************************)
NewRow == [mode |-> "new", inst |-> None, filter |-> "none"]

Init ==
  /\ value = 0
  /\ row \in [Binding -> {NewRow} \cup [mode : {"on"}, inst : Instance \cup {None}, filter : Filter]]
  /\ config \in [Instance -> {"on", "off"}]
  /\ Instance \ Enabled \subseteq Disabled
  /\ order = SetToSeq(Enabled)
  /\ conn = [i \in Instance |-> i \in Enabled]
  /\ life = [i \in Instance |-> "idle"]
  /\ sweep = <<>>
  /\ seen = Enabled
  /\ last = [b \in Binding |-> 0]
  /\ sent = [b \in Binding |-> FALSE]
  /\ queue = <<>>
  /\ work = <<>>
  /\ writing = <<>>
  /\ got = [b \in Binding |-> [i \in Instance |-> 0]]
  /\ held = {}
  /\ spent = [kind \in Kinds |-> 0]

(***************************************************************************)
(* The write router.                                                       *)
(***************************************************************************)
\* _write_to_dest_bindings: the instance by ID, or the first of its type; a
\* targeted write goes to the binding's own instance or nowhere.
Target(r, only) ==
  IF r.inst \in Running THEN r.inst
  ELSE IF only /\ r.inst # None THEN None
  ELSE FirstOfType

Unchanged(r, v) == r.filter = "change" /\ last[r.b] # 0 /\ last[r.b] = v
Throttles(r) == r.filter = "throttle" /\ sent[r.b]

Offer(b, i, v) == got' = IF conn[i] THEN [got EXCEPT ![b][i] = v] ELSE got

\* History: an offer on the binding's own line makes good what a filter held
\* back; a write that is recorded while write_binding waits for the row fills
\* the caches that it has just emptied, though the line misses the value.
MadeGood(b, i) == IF row[b].inst = i THEN held \ {b} ELSE held
Refilled(b) ==
  {c \in {b} : /\ row[c].inst # None /\ got'[c][row[c].inst] # value
               /\ \E n \in DOMAIN queue : queue[n].op = "one" /\ queue[n].b = c}

Record(r, v) ==
  /\ sent' = [sent EXCEPT ![r.b] = TRUE]
  /\ last' = [last EXCEPT ![r.b] = IF r.filter = "change" THEN v ELSE 0]

\* No instance, or a filter drops the write; the throttle only within its time.
SkipRow ==
  /\ work # <<>>
  /\ LET t == work[1]
     IN  /\ t.todo # <<>>
         /\ \/ Target(Head(t.todo), t.only) = None
            \/ Throttles(Head(t.todo))
            \/ Unchanged(Head(t.todo), t.v)
         /\ held' = IF ~t.only /\ Target(Head(t.todo), FALSE) # None THEN held \cup {Head(t.todo).b} ELSE held
         /\ GoesOn([t EXCEPT !.todo = Tail(@)])
  /\ UNCHANGED <<value, tables, order, conn, life, sweep, seen, last, sent, queue, writing, got, spent>>

\* An instance without a connection drops the write in silence or raises.
WriteRow ==
  /\ work # <<>>
  /\ LET t == work[1]
         i == Target(Head(t.todo), t.only)
     IN  /\ t.todo # <<>>
         /\ i # None
         /\ ~Unchanged(Head(t.todo), t.v)
         /\ Offer(Head(t.todo).b, i, t.v)
         /\ IF i \in Slow
            THEN /\ writing' = Append(writing, [row |-> Head(t.todo), task |-> [t EXCEPT !.todo = Tail(@)]])
                 /\ work' = <<>>
                 /\ held' = MadeGood(Head(t.todo).b, i)
                 /\ UNCHANGED <<last, sent>>
            ELSE /\ \/ /\ Record(Head(t.todo), t.v)
                       /\ held' = MadeGood(Head(t.todo).b, i) \cup Refilled(Head(t.todo).b)
                    \/ /\ ~conn[i]
                       /\ held' = MadeGood(Head(t.todo).b, i)
                       /\ UNCHANGED <<last, sent>>
                 /\ GoesOn([t EXCEPT !.todo = Tail(@)])
                 /\ UNCHANGED writing
  /\ UNCHANGED <<value, tables, order, conn, life, sweep, seen, queue, spent>>

\* A slow adapter returns or raises; the coroutine goes on with its next row.
EndWrite ==
  /\ work = <<>>
  /\ UNCHANGED <<value, tables, order, conn, life, sweep, seen, queue, got, spent>>
  /\ \E n \in DOMAIN writing :
       /\ \/ /\ Record(writing[n].row, writing[n].task.v)
             /\ held' = held \cup Refilled(writing[n].row.b)
          \/ UNCHANGED <<last, sent, held>>
       /\ writing' = RemoveAt(writing, n)
       /\ GoesOn(writing[n].task)

\* Variant: write_binding leaves the caches alone.
ResendNextCached ==
  /\ work # <<>>
  /\ work[1].todo = <<>>
  /\ IF value = 0
     THEN UNCHANGED <<queue, held>>
     ELSE LET b == Head(work[1].rest)
          IN  /\ queue' = Append(queue, [op |-> "one", b |-> b, v |-> value, rest |-> Tail(work[1].rest)])
              /\ held' = held \ {b}
  /\ work' = <<>>
  /\ UNCHANGED <<value, tables, order, conn, life, sweep, seen, last, sent, writing, got, spent>>

\* resend_system_value and write_binding up to the query for the row: the
\* caches of the binding are emptied before it is awaited.
ResendNext ==
  /\ work # <<>>
  /\ work[1].todo = <<>>
  /\ IF value = 0
     THEN UNCHANGED <<last, sent, queue, held>>
     ELSE LET b == Head(work[1].rest)
          IN  /\ last' = [last EXCEPT ![b] = 0]
              /\ sent' = [sent EXCEPT ![b] = FALSE]
              /\ held' = held \ {b}
              /\ queue' = Append(queue, [op |-> "one", b |-> b, v |-> value, rest |-> Tail(work[1].rest)])
  /\ work' = <<>>
  /\ UNCHANGED <<value, tables, order, conn, life, sweep, seen, writing, got, spent>>

\* Variant: the router is not subscribed to value events.
PublishToRegistry(v) ==
  /\ work = <<>>
  /\ ~EventRuns
  /\ Spend("publish")
  /\ value' = v
  /\ UNCHANGED <<tables, order, conn, life, sweep, router, lines>>

\* The update service publishes, one event at a time under its lock: the
\* registry takes the value, then handle_value_event queries the rows.
Publish(v) ==
  /\ work = <<>>
  /\ ~EventRuns
  /\ Spend("publish")
  /\ value' = v
  /\ queue' = IF v = 0 THEN queue ELSE Append(queue, [op |-> "all", v |-> v])
  /\ UNCHANGED <<tables, order, conn, life, sweep, seen, last, sent, work, writing, lines>>

(***************************************************************************)
(* Links.  An object has one while it is registered or being connected.    *)
(***************************************************************************)
Lives(i) == life[i] = "connecting" \/ (i \in Running /\ life[i] \in {"idle", "starting"})
Forgotten(i) == [b \in Binding |-> [got[b] EXCEPT ![i] = 0]]

\* _publish_status(True): handle_adapter_status resends to a registered
\* instance it has not seen connected.  Also an announcement without a change.
LinkUp(i) ==
  /\ work = <<>>
  /\ Lives(i)
  /\ IF conn[i]
     THEN i \in Running \ seen /\ UNCHANGED spent
     ELSE Spend("link")
  /\ conn' = [conn EXCEPT ![i] = TRUE]
  /\ IF i \in Running \ seen
     THEN /\ seen' = seen \cup {i}
          /\ queue' = Append(queue, Listing(i, order))
     ELSE UNCHANGED <<seen, queue>>
  /\ UNCHANGED <<value, tables, order, life, sweep, last, sent, work, writing, lines>>

\* Variant: a lost link is not taken out of _connected_instances.
LinkDownKept(i) ==
  /\ work = <<>>
  /\ Lives(i) /\ conn[i]
  /\ Spend("link")
  /\ conn' = [conn EXCEPT ![i] = FALSE]
  /\ got' = Forgotten(i)
  /\ UNCHANGED <<value, tables, order, life, sweep, router, held>>

LinkDown(i) ==
  /\ work = <<>>
  /\ Lives(i) /\ conn[i]
  /\ Spend("link")
  /\ conn' = [conn EXCEPT ![i] = FALSE]
  /\ seen' = seen \ {i}
  /\ got' = Forgotten(i)
  /\ UNCHANGED held
  /\ UNCHANGED <<value, tables, order, life, sweep, last, sent, queue, work, writing>>

(***************************************************************************)
(* Starting and stopping one instance.                                     *)
(***************************************************************************)
\* Variant: the stopped instance stays in the table.
RequestKeepingEntry(i) ==
  /\ work = <<>> /\ sweep = <<>>
  /\ life[i] = "idle" /\ config[i] # "gone"
  /\ Spend("lifecycle")
  /\ order' = order

Request(i) ==
  /\ work = <<>> /\ sweep = <<>>
  /\ life[i] = "idle" /\ config[i] # "gone"
  /\ Spend("lifecycle")
  /\ order' = RemoveFirst(order, i)

\* restart_instance and start_instance: out of the table, then disconnect();
\* the API enables an instance first.
Restart(i, enabled) ==
  /\ Request(i)
  /\ config' = [config EXCEPT ![i] = enabled]
  /\ IF i \in Running
     THEN life' = [life EXCEPT ![i] = "stopping"] /\ UNCHANGED queue
     ELSE /\ life' = [life EXCEPT ![i] = "fetching"]
          /\ queue' = Append(queue, [op |-> "row", inst |-> i])
  /\ UNCHANGED <<value, row, conn, sweep, seen, last, sent, work, writing, lines>>

\* update_instance that disables, and delete_instance: stop_instance
Stop(i, delete) ==
  /\ Request(i)
  /\ config' = IF delete THEN config ELSE [config EXCEPT ![i] = "off"]
  /\ life' = [life EXCEPT ![i] = IF delete THEN "deleting" ELSE "leaving"]
  /\ UNCHANGED <<value, row, conn, sweep, router, lines>>

\* disconnect() publishes that the connection is gone; one that raises does
\* not, and the caller goes on.
Severed(i, told) ==
  /\ conn' = [conn EXCEPT ![i] = FALSE]
  /\ got' = Forgotten(i)
  /\ UNCHANGED held
  /\ seen' = IF told THEN seen \ {i} ELSE seen

Disconnected(i, told) ==
  /\ work = <<>>
  /\ life[i] \in {"stopping", "leaving", "deleting"}
  /\ Severed(i, told)
  /\ IF life[i] = "stopping"
     THEN /\ life' = [life EXCEPT ![i] = "fetching"]
          /\ queue' = Append(queue, [op |-> "row", inst |-> i])
          /\ UNCHANGED tables
     ELSE /\ life' = [life EXCEPT ![i] = "idle"]
          /\ IF life[i] = "deleting"
             THEN /\ row' = [b \in Binding |-> IF row[b].inst = i THEN [row[b] EXCEPT !.mode = "gone"] ELSE row[b]]
                  /\ config' = [config EXCEPT ![i] = "gone"]
             ELSE UNCHANGED tables
          /\ UNCHANGED queue
  /\ UNCHANGED <<value, order, sweep, last, sent, work, writing, spent>>

\* connect() has returned, the instance is put into the table and its bindings
\* are read.
Register(i) ==
  /\ work = <<>>
  /\ life[i] = "connecting"
  /\ order' = Append(order, i)
  /\ life' = [life EXCEPT ![i] = "starting"]
  /\ queue' = Append(queue, [op |-> "start", inst |-> i])
  /\ UNCHANGED <<value, tables, conn, sweep, seen, last, sent, work, writing, lines, spent>>

StartFails(i) ==
  /\ work = <<>>
  /\ life[i] = "connecting" /\ ~conn[i]
  /\ life' = [life EXCEPT ![i] = "idle"]
  /\ UNCHANGED <<value, tables, order, conn, sweep, router, lines, spent>>

(***************************************************************************)
(* Restarting all of them: a configuration import, or the restore of a     *)
(* database, which also empties the registry; and the start of the process.*)
(***************************************************************************)
BeginSweep(restore) ==
  /\ work = <<>> /\ sweep = <<>>
  /\ \A i \in Instance : life[i] = "idle"
  /\ Spend("lifecycle")
  /\ sweep' = <<[stage |-> "stop", restore |-> restore, todo |-> Running]>>
  /\ UNCHANGED <<value, tables, order, conn, life, router, lines>>

\* One after the other, in an order that does not matter here.
Foremost(S) == CHOOSE i \in S : TRUE

\* stop_all: they stay in the table until the last one is disconnected
SweepStops(i, told) ==
  /\ work = <<>> /\ sweep # <<>>
  /\ sweep[1].stage = "stop" /\ sweep[1].todo # {} /\ i = Foremost(sweep[1].todo)
  /\ Severed(i, told)
  /\ life' = [life EXCEPT ![i] = "stopped"]
  /\ sweep' = [sweep EXCEPT ![1].todo = @ \ {i}]
  /\ UNCHANGED <<value, tables, order, last, sent, queue, work, writing, spent>>

SweepLoads ==
  /\ work = <<>> /\ sweep # <<>>
  /\ sweep[1].stage = "stop" /\ sweep[1].todo = {}
  /\ order' = <<>>
  /\ life' = [i \in Instance |-> "idle"]
  /\ value' = IF sweep[1].restore THEN 0 ELSE value
  /\ queue' = Append(queue, [op |-> "instances"])
  /\ sweep' = [sweep EXCEPT ![1].stage = "load"]
  /\ UNCHANGED <<tables, conn, seen, last, sent, work, writing, lines, spent>>

\* start_all
SweepStarts(i) ==
  /\ work = <<>> /\ sweep # <<>>
  /\ sweep[1].stage = "start" /\ sweep[1].todo # {} /\ i = Foremost(sweep[1].todo)
  /\ \A j \in Instance : life[j] = "idle"
  /\ life' = [life EXCEPT ![i] = "connecting"]
  /\ sweep' = [sweep EXCEPT ![1].todo = @ \ {i}]
  /\ UNCHANGED <<value, tables, order, conn, router, lines, spent>>

SweepEnds ==
  /\ work = <<>> /\ sweep # <<>>
  /\ sweep[1].stage = "start" /\ sweep[1].todo = {}
  /\ \A j \in Instance : life[j] = "idle"
  /\ sweep' = <<>>
  /\ UNCHANGED <<value, tables, order, conn, life, router, lines, spent>>

(***************************************************************************)
(* Requests that change bindings; each commits, reloads the instance and   *)
(* offers the value to the binding.                                        *)
(***************************************************************************)
BindingRequest ==
  /\ work = <<>>
  /\ Spend("binding")
  /\ UNCHANGED <<value, config, order, conn, life, sweep, seen, last, sent, writing, held>>

Anew(B) == [b \in Binding |-> IF b \in B THEN [i \in Instance |-> 0] ELSE got[b]]

CreateBinding(b, i, f) ==
  /\ BindingRequest
  /\ row[b].mode = "new" /\ config[i] # "gone"
  /\ row' = [row EXCEPT ![b] = [mode |-> "on", inst |-> i, filter |-> f]]
  /\ got' = Anew({b})
  /\ ReloadThen(<<i>>, <<b>>, queue)

UpdateBinding(b, mode, f) ==
  /\ BindingRequest
  /\ row[b].mode \in {"on", "off"}
  /\ row' = [row EXCEPT ![b].mode = mode, ![b].filter = f]
  /\ row' # row
  /\ got' = Anew({b})
  /\ ReloadThen(IF row[b].inst = None THEN <<>> ELSE <<row[b].inst>>, <<b>>, queue)

\* migrate_instance_bindings skips a data point the target is bound to already
MigrateBindings(i, j) ==
  LET moved == {b \in Binding : row[b].inst = i /\ row[b].mode \in {"on", "off"}}
  IN  /\ BindingRequest
      /\ i # j /\ config[j] # "gone" /\ moved # {}
      /\ \A b \in Binding : row[b].inst = j => row[b].mode = "gone"
      /\ row' = [b \in Binding |-> IF b \in moved THEN [row[b] EXCEPT !.inst = j] ELSE row[b]]
      /\ got' = Anew(moved)
      /\ ReloadThen(<<i, j>>, SetToSeq(moved), queue)

DeleteBinding(b) ==
  /\ BindingRequest
  /\ row[b].mode \in {"on", "off"}
  /\ row' = [row EXCEPT ![b].mode = "gone"]
  /\ UNCHANGED got
  /\ ReloadThen(IF row[b].inst = None THEN <<>> ELSE <<row[b].inst>>, <<>>, queue)

(***************************************************************************)
(* The database answers the first query.                                   *)
(***************************************************************************)
Answer(op) == work = <<>> /\ queue # <<>> /\ Head(queue).op = op

ReadRows ==
  /\ \/ /\ Answer("list")
        /\ LET mine == {b \in Binding : /\ row[b].mode = "on"
                                        /\ \/ row[b].inst = Head(queue).inst
                                           \/ row[b].inst = None /\ Head(queue).first}
           IN  GoesOn(Resend(SetToSeq(mine)))
     \/ /\ Answer("one")
        /\ GoesOn(Task(RowsOf({Head(queue).b}), Head(queue).v, TRUE, Head(queue).rest))
     \/ /\ Answer("all")
        /\ GoesOn(Task(RowsOf(Binding), Head(queue).v, FALSE, <<>>))
  /\ queue' = Tail(queue)
  /\ UNCHANGED <<value, tables, order, conn, life, sweep, seen, last, sent, writing, lines, spent>>

ReadReload ==
  /\ Answer("reload")
  /\ ReloadThen(Head(queue).left, Head(queue).rest, Tail(queue))
  /\ UNCHANGED <<value, tables, order, conn, life, sweep, seen, last, sent, writing, lines, spent>>

\* restart_instance goes on only with an instance that is enabled.
ReadInstance ==
  /\ \/ /\ Answer("row")
        /\ LET i == Head(queue).inst
           IN  life' = [life EXCEPT ![i] = IF config[i] = "on" THEN "connecting" ELSE "idle"]
        /\ UNCHANGED sweep
     \/ /\ Answer("instances")
        /\ sweep' = [sweep EXCEPT ![1].stage = "start", ![1].todo = Enabled]
        /\ UNCHANGED life
  /\ queue' = Tail(queue)
  /\ UNCHANGED <<value, tables, order, conn, seen, last, sent, work, writing, lines, spent>>

\* The bindings are loaded; _announce_started and handle_instance_started.
AnnounceStarted ==
  /\ Answer("start")
  /\ LET i == Head(queue).inst
         others == (seen \cap Running) \ {i}
     IN  /\ life' = [life EXCEPT ![i] = "idle"]
         /\ IF conn[i]
            THEN /\ seen' = others \cup {i}
                 /\ queue' = Append(Tail(queue), Listing(i, order))
            ELSE seen' = others /\ queue' = Tail(queue)
  /\ UNCHANGED <<value, tables, order, conn, sweep, last, sent, work, writing, lines, spent>>

(***************************************************************************)
(* The specification.                                                      *)
(***************************************************************************)
Router == SkipRow \/ WriteRow \/ EndWrite \/ ResendNext
Database == ReadRows \/ ReadReload \/ ReadInstance \/ AnnounceStarted
Registry ==
  \/ \E i \in Instance : Register(i) \/ StartFails(i) \/ \E told \in BOOLEAN : Disconnected(i, told)
  \/ \E i \in Instance : SweepStarts(i) \/ \E told \in BOOLEAN : SweepStops(i, told)
  \/ SweepLoads \/ SweepEnds

Outside ==
  \/ \E v \in Values : Publish(v)
  \/ \E i \in Instance : LinkUp(i) \/ LinkDown(i)
  \/ \E i \in Instance, enabled \in {"on", "off"} : (enabled = "off" => config[i] = "off") /\ Restart(i, enabled)
  \/ \E i \in Instance, delete \in BOOLEAN : Stop(i, delete)
  \/ \E restore \in BOOLEAN : BeginSweep(restore)
  \/ \E b \in Binding, i \in Instance, f \in Filter : CreateBinding(b, i, f)
  \/ \E b \in Binding, mode \in {"on", "off"}, f \in Filter : UpdateBinding(b, mode, f)
  \/ \E i, j \in Instance : MigrateBindings(i, j)
  \/ \E b \in Binding : DeleteBinding(b)

Next == Router \/ Database \/ Registry \/ Outside

Spec == Init /\ [][Next]_vars

\* Coroutines run, the database answers, and adapters return from write(),
\* connect() and disconnect(); nothing outside ever has to happen.
Fairness == WF_vars(Router) /\ WF_vars(Database) /\ WF_vars(Registry)
FairSpec == Spec /\ Fairness

(***************************************************************************)
(* Properties.                                                             *)
(***************************************************************************)
\* Types of all variables.
TypeOK ==
  /\ value \in Values
  /\ row \in [Binding -> [mode : {"new", "on", "off", "gone"}, inst : Instance \cup {None}, filter : Filter \cup {"none"}]]
  /\ config \in [Instance -> {"on", "off", "gone"}]
  /\ Running \subseteq Instance /\ IsInjective(order)
  /\ conn \in [Instance -> BOOLEAN]
  /\ life \in [Instance -> {"idle", "stopping", "leaving", "deleting", "fetching", "connecting", "starting", "stopped"}]
  /\ Len(sweep) <= 1 /\ \A n \in DOMAIN sweep : sweep[n].stage \in {"stop", "load", "start"}
  /\ seen \subseteq Instance
  /\ last \in [Binding -> Values] /\ sent \in [Binding -> BOOLEAN]
  /\ \A n \in DOMAIN queue : queue[n].op \in {"list", "one", "all", "reload", "row", "instances", "start"}
  /\ Len(work) <= 1
  /\ \A n \in DOMAIN writing : writing[n].row.b \in Binding
  /\ got \in [Binding -> [Instance -> Values]]
  /\ held \subseteq Binding

\* A binding that is enabled, its own instance registered and connected, while
\* the data point has a good value, is owed that value.
Owed(b) ==
  /\ value # 0
  /\ row[b].mode = "on"
  /\ row[b].inst \in Running /\ conn[row[b].inst]

\* It was offered on the line since the line came up and the binding was
\* attached, or a filter of the binding held it back: send-on-change or the
\* throttle dropped the latest value event, which a resend has not made good;
\* or a write ended and filled the caches between write_binding's emptying
\* them and the answer to its query.
Offered(b) == got[b][row[b].inst] = value \/ b \in held

Settled ==
  /\ queue = <<>> /\ work = <<>> /\ writing = <<>> /\ sweep = <<>>
  /\ \A i \in Instance : life[i] = "idle"

\* When nothing is under way, every binding that is owed the value has it:
\* the docstrings of handle_adapter_status and _resend_system_value promise
\* that a connection, a start or an attachment is not missed, in whatever
\* order it meets a publication, a restart or a change of the binding.
OfferedWhenSettled == Settled => \A b \in Binding : Owed(b) => Offered(b)

\* _connected_instances says what is true of the registered instances: one
\* that is kept in it while its link is down would get nothing when the link
\* comes back, one that misses in it would be offered twice.
SeenIsConnected ==
  \A i \in Instance : i \in Running /\ life[i] = "idle" => (i \in seen <=> conn[i])

\* Once owed, the value is offered or no longer owed.
EventuallyOffered == \A b \in Binding : Owed(b) ~> (~Owed(b) \/ Offered(b))
=============================================================================
