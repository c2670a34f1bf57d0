-------------------------- MODULE KnxConfirmations --------------------------
(***************************************************************************)
(* Writing to the KNX bus and recognising one's own telegrams when they    *)
(* come back: obs/core/write_router.py issues ordered commands, the KNX    *)
(* adapter (obs/adapters/knx/adapter.py) queues one telegram per binding,  *)
(* and both the echo of a transmitted telegram and the feedback a device   *)
(* sends on a state address must become a state-only confirmation, never   *)
(* a new value that is propagated again.                                   *)
(***************************************************************************)
EXTENDS Naturals, Sequences, FiniteSets, SequencesExt, FiniteSetsExt

CONSTANTS
    Binding,        \* binding numbers, in the order of the adapter's list
    Dp,             \* data points
    Ga, NoGa,       \* group addresses, and "no state address"
    Value, Raw,     \* logical values and encoded payloads
    Encode, Decode, \* [Value -> Raw] and [Raw -> Value]
    Options,        \* [Binding -> set of configurations it may be given]
    InitConfig,     \* [Binding -> its first configuration]
    NoConfig,       \* the binding does not exist or is disabled
    NoWrite,        \* origin of a telegram that is not ours
    MaxOrders,      \* bound: commands the router may issue
    MaxInputs,      \* bound: direct commands (MQTT set, API) and telegrams of other devices
    MaxRebinds      \* bound: changes of a binding

ASSUME BindingAssumption == Binding \subseteq Nat /\ IsFiniteSet(Binding)
ASSUME CodecAssumption == Encode \in [Value -> Raw] /\ Decode \in [Raw -> Value]
Configs == UNION {Options[b] : b \in Binding}

ASSUME ConfigAssumption ==
    /\ Configs \subseteq [dp : Dp, dir : {"SOURCE", "DEST", "BOTH"}, cmd : Ga, state : Ga \cup {NoGa}]
    /\ NoGa \notin Ga /\ NoConfig \notin Configs
    /\ \A c \in Configs : c.state # c.cmd
    /\ InitConfig \in [Binding -> Configs \cup {NoConfig}]
ASSUME BoundAssumption == {MaxOrders, MaxInputs, MaxRebinds} \subseteq Nat

VARIABLES
    stored,     \* [Binding -> config]: the adapter_bindings table
    loaded,     \* [Binding -> config]: the adapter's _bindings and _ga_source_map
    routing,    \* Seq: values whose rows _write_to_dest_bindings is fetching
    writing,    \* Seq of Seq: the rows it has fetched and still has to write
    seq,        \* ConfirmationOrderTracker._next_sequence
    latest,     \* [Dp -> Nat]: ConfirmationOrderTracker._latest_activated
    claimed,    \* numbers of the commands whose ConfirmationActionToken is claimed
    outbox,     \* Seq: telegrams in xknx's outgoing queue
    pending,    \* _pending_transmissions
    invalid,    \* _invalidated_transmissions
    owners,     \* _outgoing_confirmation_owners
    recent,     \* _recent_writes
    tombs,      \* _invalidated_state_confirmations, in the order of their deques
    inbox,      \* Seq: scheduled _on_telegram tasks
    later,      \* Seq of Seq: events a handler still has to publish
    shown,      \* [Dp -> event]: the event behind the registry's current value
    clock,      \* transmissions so far: the time stamps of the adapter
    owed,       \* external: transmitted writes a device has not answered yet
    counts,     \* used-up bounds
    strayed,    \* history: addresses and payloads of the answers to stray writes
    confirmed,  \* history [Dp -> Nat]: command of the last published confirmation
    acted       \* history [1..MaxOrders -> Nat]: actionable confirmations of a command

adapterVars == <<pending, invalid, owners, recent, tombs>>
orderVars == <<seq, latest, claimed>>
publishedVars == <<shown, confirmed, acted>>
sentVars == <<clock, strayed, owed>>
vars == <<stored, loaded, routing, writing, orderVars, outbox, adapterVars, inbox, later,
          publishedVars, sentVars, counts>>

(* One telegram per command n and binding b; c is the signature of the     *)
(* binding the command was written for.                                    *)
Write == [n : 1..MaxOrders, b : Binding, c : Configs, val : Value, direct : BOOLEAN]

(* The mark of a telegram that is not ours is not a write.                    *)
ASSUME OriginAssumption == NoWrite \notin Write

Telegram == [out : BOOLEAN, ga : Ga, raw : Raw, origin : Write \cup {NoWrite}]

(* n = 0: not a confirmation.  origin and echo are for the properties: the *)
(* write behind the telegram, and whether OBS sent it itself.              *)
Event == [dp : Dp, b : Binding, val : Value, n : 0..MaxOrders, actions : BOOLEAN,
          origin : Write \cup {NoWrite}, echo : BOOLEAN]

NothingShown == [n |-> 0, echo |-> FALSE, origin |-> NoWrite]

TypeOK ==
    /\ stored \in [Binding -> Configs \cup {NoConfig}]
    /\ loaded \in [Binding -> Configs \cup {NoConfig}]
    /\ routing \in Seq([dp : Dp, val : Value, direct : BOOLEAN, skip : Binding \cup {0}])
    /\ writing \in Seq(Seq(Write))
    /\ seq \in 0..MaxOrders
    /\ latest \in [Dp -> 0..MaxOrders]
    /\ claimed \subseteq 1..MaxOrders
    /\ outbox \in Seq(Write)
    /\ pending \subseteq Write
    /\ invalid \subseteq [w : Write, dp : Dp]
    /\ owners \subseteq [w : Write, at : Nat]
    /\ recent \subseteq [w : Write, ga : Ga, at : Nat]
    /\ tombs \in Seq([at : Nat, b : Binding, dp : Dp, ga : Ga, raw : Raw])
    /\ inbox \in Seq(Telegram)
    /\ later \in Seq(Seq(Event))
    /\ shown \in [Dp -> Event \cup {NothingShown}]
    /\ clock \in Nat
    /\ owed \subseteq [w : Write, at : Nat]
    /\ strayed \subseteq (Ga \cup {NoGa}) \X Raw
    /\ counts \in [inputs : 0..MaxInputs, rebinds : 0..MaxRebinds]
    /\ confirmed \in [Dp -> 0..MaxOrders]
    /\ acted \in [1..MaxOrders -> Nat]

Init ==
    /\ stored = InitConfig /\ loaded = InitConfig
    /\ routing = <<>> /\ writing = <<>> /\ outbox = <<>> /\ inbox = <<>> /\ later = <<>> /\ tombs = <<>>
    /\ strayed = {} /\ seq = 0 /\ claimed = {} /\ clock = 0
    /\ latest = [d \in Dp |-> 0]
    /\ pending = {} /\ invalid = {} /\ owners = {} /\ recent = {} /\ owed = {}
    /\ shown = [d \in Dp |-> NothingShown]
    /\ counts = [inputs |-> 0, rebinds |-> 0]
    /\ confirmed = [d \in Dp |-> 0]
    /\ acted = [n \in 1..MaxOrders |-> 0]

-----------------------------------------------------------------------------
(* Bindings.                                                               *)

(* In the order of the table and of the adapter's list; or of time.        *)
Ordered(numbers) ==
    CHOOSE s \in [1..Cardinality(numbers) -> numbers] : \A i, j \in DOMAIN s : i < j => s[i] < s[j]

(* The elements of s that are in kept, in their order.                     *)
Filtered(s, kept) ==
    LET at == Ordered({i \in DOMAIN s : s[i] \in kept}) IN [i \in DOMAIN at |-> s[at[i]]]

(* _ga_source_map: who listens on an address.                              *)
Listeners(ga) ==
    {b \in Binding : /\ loaded[b] # NoConfig
                     /\ loaded[b].dir \in {"SOURCE", "BOTH"}
                     /\ ga \in {loaded[b].cmd, loaded[b].state}}

(* The rows a value of dp is written to.                                   *)
Destinations(dp) ==
    {b \in Binding : /\ stored[b] # NoConfig
                     /\ stored[b].dp = dp /\ stored[b].dir \in {"DEST", "BOTH"}}

-----------------------------------------------------------------------------
(* The router.                                                             *)

(* dp/{uuid}/set or the value API: a command no event announced.           *)
DirectWrite(dp, val) ==
    /\ counts.inputs < MaxInputs
    /\ counts' = [counts EXCEPT !.inputs = @ + 1]
    /\ routing' = Append(routing, [dp |-> dp, val |-> val, direct |-> TRUE, skip |-> 0])
    /\ UNCHANGED <<stored, loaded, writing, orderVars, outbox, adapterVars, inbox, later,
                   publishedVars, sentVars>>

Command(cmd, n, b) == [n |-> n, b |-> b, c |-> stored[b], val |-> cmd.val, direct |-> cmd.direct]

(* The rows are there: one order for all of them, activated at once for a  *)
(* propagated event, and none for the binding the event came from.         *)
RouteWrite ==
    /\ routing # <<>>
    /\ LET cmd == Head(routing)
           rows == Ordered(Destinations(cmd.dp) \ {cmd.skip})
           n == seq + 1
       IN IF Destinations(cmd.dp) = {}
          THEN UNCHANGED <<seq, latest, writing>>
          ELSE /\ n <= MaxOrders
               /\ seq' = n
               /\ latest' = IF cmd.direct THEN latest ELSE [latest EXCEPT ![cmd.dp] = n]
               /\ writing' = IF rows = <<>> THEN writing
                             ELSE Append(writing, [i \in DOMAIN rows |-> Command(cmd, n, rows[i])])
    /\ routing' = Tail(routing)
    /\ UNCHANGED <<stored, loaded, claimed, outbox, adapterVars, inbox, later, publishedVars,
                   sentVars, counts>>

(* write_with_context: the telegram of a BOTH binding expects to be        *)
(* confirmed.  Between two rows the router awaits whatever the write of    *)
(* another adapter takes.                                                  *)
WriteRow(i) ==
    /\ i \in DOMAIN writing
    /\ LET w == Head(writing[i])
       IN /\ outbox' = Append(outbox, w)
          /\ pending' = IF w.c.dir = "BOTH" THEN pending \cup {w} ELSE pending
    /\ writing' = IF Len(writing[i]) = 1 THEN RemoveAt(writing, i) ELSE [writing EXCEPT ![i] = Tail(@)]
    /\ UNCHANGED <<stored, loaded, routing, orderVars, invalid, owners, recent, tombs, inbox, later,
                   publishedVars, sentVars, counts>>

-----------------------------------------------------------------------------
(* xknx: the outgoing queue and the bus.                                   *)

Scheduled(tel) == IF Listeners(tel.ga) = {} THEN inbox ELSE Append(inbox, tel)

(* The bus is slow: a telegram received earlier that reads like the        *)
(* feedback of w is handled before w is sent, its task is one turn of the  *)
(* event loop.                                                             *)
BusSettled(w) ==
    ~ \E i \in DOMAIN inbox :
        ~inbox[i].out /\ inbox[i].ga = w.c.state /\ inbox[i].raw = Encode[w.val]

(* The adapter cannot place the answer to w: its binding is not set up the *)
(* way w was written for, so nothing is expected and no tombstone is left; *)
(* or a tombstone still waits for the same telegram, and gives way.        *)
Astray(w) ==
    \/ loaded[w.b] # w.c
    \/ \E t \in Range(tombs) : t.ga = w.c.state /\ t.raw = Encode[w.val]

(* _on_telegram_transmitted, then sniffer.process: a pending write starts  *)
(* to expect its echo, and its feedback if the binding has a state address.*)
(* The device answers on that address whatever the adapter expects.        *)
Transmit ==
    /\ outbox # <<>>
    /\ BusSettled(Head(outbox))
    /\ LET w == Head(outbox)
           valid == w \in pending /\ ~ \E i \in invalid : i.w = w
           at == clock + 1
       IN /\ recent' = recent \cup {[w |-> w, ga |-> ga, at |-> at] :
                                    ga \in IF valid THEN {w.c.cmd, w.c.state} \ {NoGa} ELSE {}}
          /\ owners' = owners \cup (IF valid THEN {[w |-> w, at |-> at]} ELSE {})
          /\ pending' = IF valid THEN pending \ {w} ELSE pending
          /\ owed' = IF w.c.state = NoGa THEN owed ELSE owed \cup {[w |-> w, at |-> at]}
          /\ strayed' = IF Astray(w) THEN strayed \cup {<<w.c.state, Encode[w.val]>>} ELSE strayed
          /\ inbox' = Scheduled([out |-> TRUE, ga |-> w.c.cmd, raw |-> Encode[w.val], origin |-> w])
          /\ clock' = at
    /\ outbox' = Tail(outbox)
    /\ UNCHANGED <<stored, loaded, routing, writing, orderVars, invalid, tombs, later, publishedVars, counts>>

(* The interface cannot send the telegram: xknx drops it and calls nobody. *)
SendFails ==
    /\ outbox # <<>>
    /\ outbox' = Tail(outbox)
    /\ UNCHANGED <<stored, loaded, routing, writing, orderVars, adapterVars, inbox, later, publishedVars,
                   sentVars, counts>>

(* A device answers a transmitted write on its state address.              *)
Feedback(o) ==
    /\ o \in owed
    /\ owed' = owed \ {o}
    /\ inbox' = Scheduled([out |-> FALSE, ga |-> o.w.c.state, raw |-> Encode[o.w.val], origin |-> o.w])
    /\ UNCHANGED <<stored, loaded, routing, writing, orderVars, outbox, adapterVars, later, publishedVars,
                   clock, strayed, counts>>

(* Any other telegram of another device.  One that says what an expected   *)
(* answer would say is that answer: nothing on the bus tells them apart.   *)
Foreign(ga, raw) ==
    /\ counts.inputs < MaxInputs
    /\ Listeners(ga) # {}
    /\ \A e \in recent \cup owed : ~(e.w.c.state = ga /\ Encode[e.w.val] = raw)
    /\ counts' = [counts EXCEPT !.inputs = @ + 1]
    /\ inbox' = Append(inbox, [out |-> FALSE, ga |-> ga, raw |-> raw, origin |-> NoWrite])
    /\ UNCHANGED <<stored, loaded, routing, writing, orderVars, outbox, adapterVars, later, publishedVars,
                   sentVars>>

-----------------------------------------------------------------------------
(* _on_telegram.                                                           *)

Matching(entries, tel) == {e \in entries : e.ga = tel.ga /\ Encode[e.w.val] = tel.raw}

(* The newest of a set of expectations, as a set.                          *)
Newest(entries) == {e \in entries : \A f \in entries : f.w.n <= e.w.n}

(* Tombstones for a telegram, up to the first that nothing newer overrides.*)
TombsFor(tel) == Filtered(tombs, {t \in Range(tombs) : t.ga = tel.ga /\ t.raw = tel.raw})
Overridden(t, tel) ==
    \E e \in Matching(recent, tel) : (e.w.b = t.b \/ e.w.c.dp = t.dp) /\ e.at > t.at
Standing(tel) == {i \in DOMAIN TombsFor(tel) : ~Overridden(TombsFor(tel)[i], tel)}

(* Who must not see the telegram, because a reload invalidated its write.  *)
SuppressedEchoes(tel) ==
    IF tel.out THEN {[b |-> i.w.b, dp |-> i.dp] : i \in {j \in invalid : j.w = tel.origin}} ELSE {}
Suppressed(tel) ==
    IF tel.out THEN {[b |-> i.w.b, dp |-> i.dp] : i \in {j \in invalid : j.w = tel.origin}}
    ELSE {[b |-> TombsFor(tel)[i].b, dp |-> TombsFor(tel)[i].dp] :
             i \in {j \in Standing(tel) : \A k \in Standing(tel) : j <= k}}

UsedTombs(tel) ==
    IF tel.out THEN {}
    ELSE {TombsFor(tel)[i] : i \in {j \in DOMAIN TombsFor(tel) : \A k \in Standing(tel) : j <= k}}

Owned(tel) == tel.out /\ \E o \in owners : o.w = tel.origin

(* _local_confirmation_datapoint_ids                                       *)
LocalDps(tel) ==
    {e.w.c.dp : e \in {f \in Matching(recent, tel) :
        IF tel.out THEN Owned(tel) /\ tel.ga = f.w.c.cmd ELSE tel.ga = f.w.c.state}}

(* What binding b may consume: the owner its own echo, anybody the newest  *)
(* feedback expected on its state address.                                 *)
Consumable(tel, b, st) ==
    LET mine == {e \in Matching(st.recent, tel) : e.w.b = b}
    IN IF tel.out
       THEN {e \in mine : Owned(tel) /\ e.w = tel.origin /\ loaded[b].state # tel.ga}
       ELSE IF loaded[b].dp \in st.done \/ loaded[b].state # tel.ga THEN {} ELSE Newest(mine)

(* _has_newer_matching_confirmation                                        *)
Superseded(tel, b, w, entries) ==
    \E e \in Matching(entries, tel) :
        e.w.c.dp = loaded[b].dp /\ e.w.c.state = tel.ga /\ e.w.n > w.n

Confirmation(tel, b, w, actions) ==
    [dp |-> loaded[b].dp, b |-> b, val |-> w.val, n |-> w.n, actions |-> actions,
     origin |-> tel.origin, echo |-> tel.out]

NewRawValue(tel, b) ==
    [dp |-> loaded[b].dp, b |-> b, val |-> tel.raw, n |-> 0, actions |-> TRUE,
     origin |-> tel.origin, echo |-> tel.out]
NewValue(tel, b) ==
    [dp |-> loaded[b].dp, b |-> b, val |-> Decode[tel.raw], n |-> 0, actions |-> TRUE,
     origin |-> tel.origin, echo |-> tel.out]

(* accept_confirmation: a newer command of the data point is active.       *)
StaleNever(w, activated) == FALSE
Stale(w, activated) == w.n < activated[w.c.dp]

(* suppress_actions_at_confirmation: the first confirmation of a direct    *)
(* command claims the token.                                               *)
ActsAlways(w, taken) == w.direct
Acts(w, taken) == w.direct /\ w.n \notin taken

(* A consumed confirmation is activated, published if it is not stale, and *)
(* triggers actions if it is the first one of a direct command.            *)
Confirm(tel, b, e, st) ==
    LET w == e.w
        rest == st.recent \ {e}
        now == [st.latest EXCEPT ![w.c.dp] = Max({@, w.n})]
    IN IF Superseded(tel, b, w, rest) THEN [st EXCEPT !.recent = rest]
       ELSE IF Stale(w, now) THEN [st EXCEPT !.recent = rest, !.latest = now]
       ELSE [recent |-> rest, latest |-> now,
             claimed |-> IF w.direct THEN st.claimed \cup {w.n} ELSE st.claimed,
             done |-> st.done \cup {loaded[b].dp},
             events |-> Append(st.events, Confirmation(tel, b, w, Acts(w, st.claimed)))]

HandleEntry(tel, b, st) ==
    LET mine == Consumable(tel, b, st)
    IN IF \E s \in Suppressed(tel) : s.b = b \/ s.dp = loaded[b].dp THEN st
       ELSE IF mine # {} THEN Confirm(tel, b, CHOOSE e \in mine : TRUE, st)
       ELSE IF loaded[b].dp \in LocalDps(tel) THEN st
       ELSE [st EXCEPT !.events = Append(@, NewValue(tel, b))]

Untouched == [recent |-> recent, latest |-> latest, claimed |-> claimed, done |-> {}, events |-> <<>>]
Handled(tel) ==
    LET entries == Ordered(Listeners(tel.ga))
        after[i \in 0..Len(entries)] ==
            IF i = 0 THEN Untouched ELSE HandleEntry(tel, entries[i], after[i - 1])
    IN after[Len(entries)]

(* bus.publish: the registry takes the value, the router propagates what   *)
(* is not a confirmation.                                                  *)
Publish(e) ==
    /\ shown' = [shown EXCEPT ![e.dp] = e]
    /\ confirmed' = IF e.n = 0 THEN confirmed ELSE [confirmed EXCEPT ![e.dp] = e.n]
    /\ acted' = IF e.n = 0 \/ ~e.actions THEN acted ELSE [acted EXCEPT ![e.n] = @ + 1]
    /\ routing' = IF e.n # 0 THEN routing
                  ELSE Append(routing, [dp |-> e.dp, val |-> e.val, direct |-> FALSE, skip |-> e.b])

OnTelegram ==
    /\ inbox # <<>>
    /\ LET tel == Head(inbox)
           st == Handled(tel)
       IN /\ recent' = st.recent
          /\ latest' = st.latest
          /\ claimed' = st.claimed
          /\ owners' = {o \in owners : ~(tel.out /\ Listeners(tel.ga) # {} /\ o.w = tel.origin)}
          /\ invalid' = {i \in invalid : ~(tel.out /\ i.w = tel.origin)}
          /\ tombs' = Filtered(tombs, Range(tombs) \ UsedTombs(tel))
          /\ IF st.events = <<>>
             THEN UNCHANGED <<publishedVars, routing, later>>
             ELSE /\ Publish(Head(st.events))
                  /\ later' = IF Len(st.events) = 1 THEN later ELSE Append(later, Tail(st.events))
    /\ inbox' = Tail(inbox)
    /\ UNCHANGED <<stored, loaded, writing, seq, outbox, pending, sentVars, counts>>

(* The handler goes on when publish() has returned.                        *)
PublishNext(i) ==
    /\ i \in DOMAIN later
    /\ Publish(Head(later[i]))
    /\ later' = IF Len(later[i]) = 1 THEN RemoveAt(later, i) ELSE [later EXCEPT ![i] = Tail(@)]
    /\ UNCHANGED <<stored, loaded, writing, orderVars, outbox, adapterVars, inbox, sentVars, counts>>

-----------------------------------------------------------------------------
(* Configuration changes and time.                                         *)

(* The API commits a changed, removed or disabled binding ...              *)
Rebind(b, c) ==
    /\ counts.rebinds < MaxRebinds
    /\ stored = loaded /\ c # stored[b]
    /\ counts' = [counts EXCEPT !.rebinds = @ + 1]
    /\ stored' = [stored EXCEPT ![b] = c]
    /\ UNCHANGED <<loaded, routing, writing, orderVars, outbox, adapterVars, inbox, later, publishedVars, sentVars>>

(* The signature of the binding is not that of the write any more.         *)
Outdated(w) == stored[w.b] # w.c

(* ... and then _on_bindings_reloaded drops what was expected for the old  *)
(* one, leaving tombstones for its feedback.                               *)
Reload ==
    LET lost == {e \in recent : Outdated(e.w)}
        feedback == {e \in lost : e.ga = e.w.c.state}
        disowned == {o \in owners : \E e \in lost : e.w.b = o.w.b}
        dropped == {w \in pending : Outdated(w)}
        times == Ordered({e.at : e \in feedback})
        tomb(e) == [at |-> e.at, b |-> e.w.b, dp |-> e.w.c.dp, ga |-> e.ga, raw |-> Encode[e.w.val]]
    IN  /\ stored # loaded
        /\ loaded' = stored
        /\ recent' = recent \ lost
        /\ tombs' = tombs \o [i \in DOMAIN times |-> tomb(CHOOSE e \in feedback : e.at = times[i])]
        /\ owners' = owners \ disowned
        /\ pending' = pending \ dropped
        /\ invalid' = invalid \cup {[w |-> w, dp |-> w.c.dp] : w \in dropped}
                      \cup {[w |-> o.w, dp |-> (CHOOSE e \in lost : e.w.b = o.w.b).w.c.dp] : o \in disowned}
        /\ UNCHANGED <<stored, routing, writing, orderVars, outbox, inbox, later, publishedVars, sentVars, counts>>

(* ECHO_SUPPRESSION_WINDOW_S has passed since transmission k.  The event   *)
(* loop runs the handler of an echo within this time.                      *)
ExpireEchoes(k) ==
    /\ \A i \in DOMAIN inbox : ~inbox[i].out
    /\ \E o \in owners \cup recent : o.at = k
    /\ recent' = {e \in recent : e.ga = e.w.c.state \/ e.at > k}
    /\ owners' = {o \in owners : o.at > k}
    /\ <<recent, owners>>' # <<recent, owners>>
    /\ UNCHANGED <<stored, loaded, routing, writing, orderVars, outbox, pending, invalid, tombs, inbox, later,
                   publishedVars, sentVars, counts>>

(* STATE_CONFIRMATION_WINDOW_S has passed: a device that answers at all    *)
(* has answered, and so have those whose answer would read the same (the   *)
(* first of two equal answers uses up the newer expectation).              *)
ExpireStates(k) ==
    LET expired == {e \in recent : e.at <= k}
        spent == {<<e.ga, Encode[e.w.val]>> : e \in expired}
                 \cup {<<t.ga, t.raw>> : t \in {u \in Range(tombs) : u.at <= k}}
        answered(o) == o.at <= k \/ <<o.w.c.state, Encode[o.w.val]>> \in spent
    IN  /\ inbox = <<>>
        /\ recent' = recent \ expired
        /\ owners' = {o \in owners : o.at > k}
        /\ tombs' = Filtered(tombs, {t \in Range(tombs) : t.at > k})
        /\ owed' = {o \in owed : ~answered(o)}
        /\ <<recent, tombs, owed>>' # <<recent, tombs, owed>>
        /\ UNCHANGED <<stored, loaded, routing, writing, orderVars, outbox, pending, invalid, inbox, later,
                       publishedVars, clock, strayed, counts>>

-----------------------------------------------------------------------------
Next ==
    \/ \E dp \in Dp, val \in Value : DirectWrite(dp, val)
    \/ RouteWrite
    \/ \E i \in DOMAIN writing : WriteRow(i)
    \/ Transmit
    \/ SendFails
    \/ \E o \in owed : Feedback(o)
    \/ \E ga \in Ga, raw \in Raw : Foreign(ga, raw)
    \/ OnTelegram
    \/ \E i \in DOMAIN later : PublishNext(i)
    \/ \E b \in Binding : \E c \in Options[b] \cup {NoConfig} : Rebind(b, c)
    \/ Reload
    \/ \E k \in 1..clock : ExpireEchoes(k)
    \/ \E k \in 1..clock : ExpireStates(k)

Spec == Init /\ [][Next]_vars

-----------------------------------------------------------------------------
(* Properties.                                                             *)

(* At most one confirmation of a command triggers actions, however many    *)
(* bindings and addresses confirm it, in whatever order (ActionToken.claim *)
(* and suppress_actions_at_confirmation in obs/adapters/base.py).          *)
ActionsAtMostOnce == \A n \in 1..MaxOrders : acted[n] <= 1

(* The confirmations of a data point are published in the order of its     *)
(* commands, whatever the bus, the queue and the reload do in between.     *)
ConfirmationsInOrder == [][\A d \in Dp : confirmed'[d] >= confirmed[d]]_confirmed

(* A telegram OBS wrote for a data point never comes back as a new value   *)
(* of that data point: never its own echo, whatever is rebound while it is *)
(* queued or on its way, and the answer it asked for only if it reads like *)
(* one to a stray write (_on_telegram_transmitted, _on_telegram).          *)
NoFeedbackLoop ==
    \A d \in Dp :
        LET w == shown[d].origin
        IN shown[d].n = 0 /\ w # NoWrite /\ w.c.dp = d
           => ~shown[d].echo /\ <<w.c.state, Encode[w.val]>> \in strayed
=============================================================================
