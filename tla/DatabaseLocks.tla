--------------------------- MODULE DatabaseLocks ---------------------------
(***************************************************************************)
(* The locking protocol of obs/db/database.py: four asyncio locks, one     *)
(* shared SQLite connection on which "legacy" callers write without an     *)
(* explicit transaction, and private connections for explicit              *)
(* transactions.  One coroutine call is one operation of a task; between   *)
(* two steps of this module the event loop may run any other task.         *)
(* asyncio.Lock is FIFO: a free lock goes to the waiter that came first.   *)
(***************************************************************************)
EXTENDS Naturals, Sequences, FiniteSets

CONSTANTS
    Task,               \* asyncio tasks that use the Database
    NoTask,             \* None: nobody holds a lock or owns the shared transaction
    MaxCalls,           \* bound: [Task -> operations it may start on its own]
    HelperReads,        \* TRUE: a legacy writer may fetch between execute() and commit()
    StatementsMayFail   \* TRUE: a statement may raise, having inserted a part of its rows

ASSUME NoTaskAssumption == NoTask \notin Task
ASSUME MaxCallsAssumption == MaxCalls \in [Task -> Nat]
ASSUME SwitchAssumption == HelperReads \in BOOLEAN /\ StatementsMayFail \in BOOLEAN

Lock == {"lifecycle", "checkpoint", "operation", "write"}

Operation == {"fetch", "execute", "commit", "rollback", "execute_and_commit",
              "transaction", "isolated_transaction", "checkpoint", "disconnect",
              "connect", "exclusive_lifecycle"}

(* What a task is doing inside its current call.                           *)
Phase == {"idle",       \* between two calls
          "raised",     \* in the except branch of a caller of execute()
          "waiting",    \* at lock.acquire() of NextLock
          "spinning",   \* in the in_transaction loop of _isolated_operation
          "running",    \* holds every lock of the operation
          "body"}       \* in the block of the context manager

VARIABLES
    holder,     \* [Lock -> Task or NoTask]: the four _LoopReusableLock attributes
    waiters,    \* [Lock -> Seq(Task)]: tasks suspended in acquire(), in order
    phase,      \* [Task -> Phase]
    op,         \* [Task -> Operation]: the call a task is in, or was in last
    calls,      \* [Task -> Nat]: calls started so far (bounded by MaxCalls)
    connected,  \* self._conn is not None
    owner,      \* self._legacy_write_owner
    inTx,       \* in_transaction of the shared connection
    rows,       \* rows written on the shared connection and not yet committed
    privateRows,\* [Task -> rows of its private connection]
    durable     \* history: every row that a commit made durable

vars == <<holder, waiters, phase, op, calls, connected, owner, inTx, rows, privateRows, durable>>

(* A row is known by the task that wrote it and by whether the statement   *)
(* that wrote it succeeded.                                                *)
Row == [by : Task, whole : BOOLEAN]
WholeOfOwner(t) == [by |-> owner, whole |-> TRUE]
Whole(t) == [by |-> t, whole |-> TRUE]
Partial(t) == [by |-> t, whole |-> FALSE]

TypeOK ==
    /\ holder \in [Lock -> Task \cup {NoTask}]
    /\ waiters \in [Lock -> Seq(Task)]
    /\ phase \in [Task -> Phase]
    /\ op \in [Task -> Operation]
    /\ calls \in [Task -> Nat]
    /\ connected \in BOOLEAN
    /\ owner \in Task \cup {NoTask}
    /\ inTx \in BOOLEAN
    /\ rows \subseteq Row
    /\ privateRows \in [Task -> SUBSET Row]
    /\ durable \subseteq Row

Init ==
    /\ holder = [l \in Lock |-> NoTask]
    /\ waiters = [l \in Lock |-> <<>>]
    /\ phase = [t \in Task |-> "idle"]
    /\ op = [t \in Task |-> "fetch"]
    /\ calls = [t \in Task |-> 0]
    /\ connected = TRUE
    /\ owner = NoTask
    /\ inTx = FALSE
    /\ rows = {}
    /\ privateRows = [t \in Task |-> {}]
    /\ durable = {}

-----------------------------------------------------------------------------
(* Locks.                                                                  *)

Private == {"transaction", "isolated_transaction"}

(* What a private transaction keeps everybody from, and what closing the   *)
(* connection does.                                                        *)
PrivateLocksButWrite == Lock \ {"write"}
PrivateLocks == Lock
ClosingLocksButLifecycle == {"checkpoint"}
ClosingLocks == {"lifecycle", "checkpoint"}

(* The locks of an operation, in the order of its "async with".            *)
LocksOf(o) ==
    CASE o = "fetch"                              -> {"operation"}
      [] o \in {"execute", "execute_and_commit"}  -> {"operation", "write"}
      [] o \in {"commit", "rollback"}             -> {"write"}
      [] o \in Private                            -> PrivateLocks
      [] o = "checkpoint"                         -> {"checkpoint"}
      [] o = "connect"                            -> {"lifecycle"}
      [] o \in {"disconnect", "exclusive_lifecycle"} -> ClosingLocks

Rank(l) == CASE l = "lifecycle" -> 1 [] l = "checkpoint" -> 2
             [] l = "operation" -> 3 [] l = "write" -> 4

First(locks) == CHOOSE l \in locks : \A m \in locks : Rank(l) <= Rank(m)

Missing(t) == {l \in LocksOf(op[t]) : holder[l] # t}

Enqueued(t, l) == [waiters EXCEPT ![l] = Append(@, t)]

Freed(t, locks) == [l \in Lock |-> IF l \in locks /\ holder[l] = t THEN NoTask ELSE holder[l]]

(* The owner of the shared transaction runs its statements without locks.  *)
TakesNoLockOfAnother(t, o) ==
    owner # NoTask /\ o \in {"execute", "commit", "rollback", "execute_and_commit"}
TakesNoLock(t, o) ==
    owner = t /\ o \in {"execute", "commit", "rollback", "execute_and_commit"}

-----------------------------------------------------------------------------
(* Calls.                                                                  *)

(* A legacy writer ends its transaction before it starts anything else; it *)
(* may look something up first if HelperReads.  A caller of execute() that *)
(* catches an exception rolls back.                                        *)
OwnerCalls == {"execute", "commit", "rollback", "execute_and_commit"}
              \cup (IF HelperReads THEN {"fetch"} ELSE {})

Ending(t, o) ==
    \/ phase[t] = "raised" /\ o = "rollback"
    \/ phase[t] = "idle" /\ owner = t /\ o \in {"commit", "rollback"}

Starting(t, o) ==
    /\ phase[t] = "idle" /\ calls[t] < MaxCalls[t]
    /\ owner = t => o \in OwnerCalls

Call(t, o) ==
    /\ Ending(t, o) \/ Starting(t, o)
    /\ calls' = IF Ending(t, o) THEN calls ELSE [calls EXCEPT ![t] = @ + 1]
    /\ op' = [op EXCEPT ![t] = o]
    /\ IF TakesNoLock(t, o)
       THEN /\ phase' = [phase EXCEPT ![t] = "running"]
            /\ UNCHANGED waiters
       ELSE /\ phase' = [phase EXCEPT ![t] = "waiting"]
            /\ waiters' = Enqueued(t, First(LocksOf(o)))
    /\ UNCHANGED <<holder, connected, owner, inTx, rows, privateRows, durable>>

(* lock.acquire() returns, and the task asks for its next lock.            *)
(* _isolated_operation inspects the shared connection before it asks for   *)
(* the operation lock, and gives the lock back if it must inspect again.   *)
Acquire(t, l) ==
    LET left == Missing(t) \ {l}
        again == op[t] \in Private /\ l = "operation" /\ inTx
        spins == again \/ (op[t] \in Private /\ l = "checkpoint")
        popped == [waiters EXCEPT ![l] = Tail(@)]
    IN  /\ phase[t] = "waiting"
        /\ l \in Missing(t) /\ holder[l] = NoTask
        /\ waiters[l] # <<>> /\ Head(waiters[l]) = t
        /\ holder' = IF again THEN holder ELSE [holder EXCEPT ![l] = t]
        /\ phase' = [phase EXCEPT ![t] = IF spins THEN "spinning"
                                        ELSE IF left = {} THEN "running" ELSE "waiting"]
        /\ waiters' = IF spins \/ left = {} THEN popped
                      ELSE [popped EXCEPT ![First(left)] = Append(@, t)]
        /\ UNCHANGED <<op, calls, connected, owner, inTx, rows, privateRows, durable>>

(* The loop over in_transaction ends, or finds the connection closed.      *)
SpinEnds(t) ==
    /\ phase[t] = "spinning"
    /\ connected => ~inTx
    /\ IF connected
       THEN /\ phase' = [phase EXCEPT ![t] = "waiting"]
            /\ waiters' = Enqueued(t, "operation")
            /\ UNCHANGED holder
       ELSE /\ phase' = [phase EXCEPT ![t] = "idle"]
            /\ holder' = Freed(t, Lock)
            /\ UNCHANGED waiters
    /\ UNCHANGED <<op, calls, connected, owner, inTx, rows, privateRows, durable>>

-----------------------------------------------------------------------------
(* Statements on the shared connection.                                    *)

Running(t, o) == phase[t] = "running" /\ op[t] = o

Leaves(t, to, locks) ==
    /\ phase' = [phase EXCEPT ![t] = to]
    /\ holder' = Freed(t, locks)
    /\ UNCHANGED <<op, calls, waiters>>

Returns(t, locks) == Leaves(t, "idle", locks)

(* What a statement that succeeds leaves behind: a query nothing, SAVEPOINT *)
(* an open transaction, an INSERT also its rows.                            *)
Succeeded(t) == {<<inTx, rows>>, <<TRUE, rows>>, <<TRUE, rows \cup {Whole(t)}>>}

(* What one that raises leaves behind.  sqlite3 has begun the implicit     *)
(* transaction before the INSERT fails, and executemany may have inserted  *)
(* some of its rows by then.                                               *)
Raised(t) ==
    IF connected /\ StatementsMayFail
    THEN {<<inTx, rows>>, <<TRUE, rows>>, <<TRUE, rows \cup {Partial(t)}>>}
    ELSE IF connected THEN {} ELSE {<<inTx, rows>>}

Fetch(t) ==
    /\ Running(t, "fetch")
    /\ Returns(t, {"operation"})
    /\ UNCHANGED <<connected, owner, inTx, rows, privateRows, durable>>

(* execute/executemany: the write lock stays with the task for as long as  *)
(* its statement has left the shared connection in a transaction.          *)
Execute(t) ==
    /\ Running(t, "execute")
    /\ connected
    /\ \E e \in Succeeded(t) :
          /\ inTx' = e[1]
          /\ rows' = e[2]
          /\ IF owner = t
             THEN Returns(t, {}) /\ UNCHANGED owner
             ELSE IF e[1]
             THEN Returns(t, {"operation"}) /\ owner' = t
             ELSE Returns(t, {"operation", "write"}) /\ UNCHANGED owner
    /\ UNCHANGED <<connected, privateRows, durable>>

ExecuteRaisesKeepingWrite(t) ==
    /\ Running(t, "execute")
    /\ \E e \in Raised(t) : inTx' = e[1] /\ rows' = e[2]
    /\ Leaves(t, "raised", IF owner = t THEN {} ELSE {"operation"})
    /\ UNCHANGED <<connected, owner, privateRows, durable>>
ExecuteRaises(t) ==
    /\ Running(t, "execute")
    /\ \E e \in Raised(t) : inTx' = e[1] /\ rows' = e[2]
    /\ Leaves(t, "raised", IF owner = t THEN {} ELSE {"operation", "write"})
    /\ UNCHANGED <<connected, owner, privateRows, durable>>

(* RELEASE of the outermost savepoint commits, and the owner stays owner.  *)
ReleaseSavepoint(t) ==
    /\ Running(t, "execute")
    /\ connected /\ owner = t /\ inTx
    /\ durable' = durable \cup rows
    /\ inTx' = FALSE
    /\ rows' = {}
    /\ Returns(t, {})
    /\ UNCHANGED <<connected, owner, privateRows>>

(* The owner gives up the shared transaction and the write lock, whether   *)
(* the connection still exists or not; anyone else held the lock only for  *)
(* the call.                                                               *)
EndShared(t, made) ==
    /\ durable' = durable \cup made
    /\ inTx' = FALSE
    /\ rows' = {}
    /\ owner' = IF owner = t THEN NoTask ELSE owner
    /\ Returns(t, {"operation", "write"})
    /\ UNCHANGED <<connected, privateRows>>

CommitOfPlainCaller(t) == Running(t, "commit") /\ owner # t /\ EndShared(t, rows)
Commit(t) == Running(t, "commit") /\ EndShared(t, rows)

Rollback(t) == Running(t, "rollback") /\ EndShared(t, {})

ExecuteAndCommit(t) ==
    /\ Running(t, "execute_and_commit")
    /\ connected
    /\ EndShared(t, rows \cup {Whole(t)})

(* The finally clause frees the lock of an owner; nothing rolls back.      *)
ExecuteAndCommitRaises(t) ==
    /\ Running(t, "execute_and_commit")
    /\ \E e \in Raised(t) : inTx' = e[1] /\ rows' = e[2]
    /\ owner' = IF owner = t THEN NoTask ELSE owner
    /\ Returns(t, {"operation", "write"})
    /\ UNCHANGED <<connected, privateRows, durable>>

-----------------------------------------------------------------------------
(* transaction() and isolated_transaction(): a private connection.         *)

EnterPrivate(t) ==
    /\ phase[t] = "running"
    /\ op[t] \in Private
    /\ IF connected
       THEN Leaves(t, "body", {})
       ELSE Returns(t, Lock)
    /\ UNCHANGED <<connected, owner, inTx, rows, privateRows, durable>>

InBody(t, ops) == phase[t] = "body" /\ op[t] \in ops

BodyWrite(t) ==
    /\ InBody(t, Private)
    /\ privateRows' = [privateRows EXCEPT ![t] = @ \cup {Whole(t)}]
    /\ UNCHANGED <<holder, waiters, phase, op, calls, connected, owner, inTx, rows, durable>>

(* Leaving the block of transaction() commits.                             *)
BodyCommit(t) ==
    /\ InBody(t, {"transaction"})
    /\ durable' = durable \cup privateRows[t]
    /\ privateRows' = [privateRows EXCEPT ![t] = {}]
    /\ Returns(t, Lock)
    /\ UNCHANGED <<connected, owner, inTx, rows>>

(* The block of isolated_transaction() commits by itself, and goes on.     *)
IsolatedCommit(t) ==
    /\ InBody(t, {"isolated_transaction"})
    /\ privateRows[t] # {}
    /\ durable' = durable \cup privateRows[t]
    /\ privateRows' = [privateRows EXCEPT ![t] = {}]
    /\ UNCHANGED <<holder, waiters, phase, op, calls, connected, owner, inTx, rows>>

(* The block raises, or isolated_transaction() cleans up.                  *)
BodyRollback(t) ==
    /\ InBody(t, Private)
    /\ privateRows' = [privateRows EXCEPT ![t] = {}]
    /\ Returns(t, Lock)
    /\ UNCHANGED <<connected, owner, inTx, rows, durable>>

-----------------------------------------------------------------------------
(* Checkpoints and the life of the connection.                             *)

Checkpoint(t) ==
    /\ Running(t, "checkpoint")
    /\ Returns(t, {"checkpoint"})
    /\ UNCHANGED <<connected, owner, inTx, rows, privateRows, durable>>

(* Closing the connection drops what was not committed on it.              *)
Close ==
    /\ connected' = FALSE
    /\ inTx' = FALSE
    /\ rows' = {}

Disconnect(t) ==
    /\ Running(t, "disconnect")
    /\ Close
    /\ Returns(t, {"lifecycle", "checkpoint"})
    /\ UNCHANGED <<owner, privateRows, durable>>

(* A new connection: one that is still open is abandoned.                  *)
Connect(t) ==
    /\ Running(t, "connect")
    /\ connected' = TRUE
    /\ inTx' = FALSE
    /\ rows' = {}
    /\ Returns(t, {"lifecycle"})
    /\ UNCHANGED <<owner, privateRows, durable>>

(* A restore: lifecycle.disconnect() frees the checkpoint lock and keeps   *)
(* the lifecycle lock while the file is replaced.                          *)
BeginRestore(t) ==
    /\ Running(t, "exclusive_lifecycle")
    /\ Close
    /\ Leaves(t, "body", {"checkpoint"})
    /\ UNCHANGED <<owner, privateRows, durable>>

(* lifecycle.connect() ends it, unless the replacement failed.             *)
EndRestore(t) ==
    /\ InBody(t, {"exclusive_lifecycle"})
    /\ connected' \in BOOLEAN
    /\ Returns(t, {"lifecycle"})
    /\ UNCHANGED <<owner, inTx, rows, privateRows, durable>>

-----------------------------------------------------------------------------
(* Steps a started call takes until it returns.                            *)
Progress(t) ==
    \/ \E l \in Lock : Acquire(t, l)
    \/ SpinEnds(t)
    \/ Fetch(t)
    \/ Execute(t)
    \/ ExecuteRaises(t)
    \/ ReleaseSavepoint(t)
    \/ Commit(t)
    \/ Rollback(t)
    \/ ExecuteAndCommit(t)
    \/ ExecuteAndCommitRaises(t)
    \/ EnterPrivate(t)
    \/ BodyCommit(t)
    \/ BodyRollback(t)
    \/ Checkpoint(t)
    \/ Disconnect(t)
    \/ Connect(t)
    \/ BeginRestore(t)
    \/ EndRestore(t)

Next ==
    \E t \in Task :
        \/ \E o \in Operation : Call(t, o)
        \/ Progress(t)
        \/ BodyWrite(t)
        \/ IsolatedCommit(t)

Spec == Init /\ [][Next]_vars

(* The event loop runs every task that can go on, and whoever owns the     *)
(* shared transaction commits it or rolls it back.                         *)
Fairness ==
    /\ \A t \in Task : WF_vars(Progress(t))
    /\ \A t \in Task : WF_vars(\E o \in Operation : Ending(t, o) /\ Call(t, o))

FairSpec == Spec /\ Fairness

-----------------------------------------------------------------------------
(* Properties.                                                             *)

(* No lock outlives the call that took it, except the write lock of the    *)
(* task that owns the shared transaction: every return, raise and early    *)
(* exit of database.py frees exactly what it took.                         *)
NoLockLeaked ==
    \A l \in Lock, t \in Task :
        holder[l] = t /\ phase[t] \in {"idle", "raised"} => l = "write" /\ owner = t

OnSharedConnection == {"fetch", "execute", "commit", "rollback", "execute_and_commit"}

(* While a private transaction is open nothing else happens in the         *)
(* database: no other private transaction, no statement on the shared      *)
(* connection, no owner of a shared transaction, no checkpoint or restore. *)
PrivateTransactionAlone ==
    \A t \in Task : InBody(t, Private) =>
        /\ owner = NoTask /\ connected
        /\ \A u \in Task \ {t} :
              /\ phase[u] # "body"
              /\ phase[u] = "running" => op[u] \notin OnSharedConnection \cup {"checkpoint"}

(* The shared connection is in a transaction only on behalf of the task    *)
(* that holds the write lock for it, and nobody else's rows are in it, so  *)
(* a commit never publishes the writes of another coroutine.               *)
PendingRowsAreOwned ==
    /\ owner # NoTask => holder["write"] = owner
    /\ inTx => owner # NoTask
    /\ \A r \in rows : r.by = owner

(* "a shared execute-and-commit cannot collide with BEGIN IMMEDIATE": the  *)
(* shared connection holds no SQLite write lock when a private transaction *)
(* begins or writes, as long as no statement on it raised.                 *)
NoCollision == \A t \in Task : InBody(t, Private) => ~inTx

(* The connection is replaced by a call that holds the lifecycle lock, and *)
(* never under a private transaction or a checkpoint.                      *)
ReplacingStep ==
    connected' # connected =>
        /\ holder["lifecycle"] # NoTask
        /\ \A t \in Task : /\ ~InBody(t, Private)
                           /\ connected => ~Running(t, "checkpoint")
ReplacedUnderLock == [][ReplacingStep]_vars

(* Every call that was started returns.                                    *)
EveryCallReturns == \A t \in Task : []<>(phase[t] \in {"idle", "raised"})

(* "Do not retain the lock while waiting: the existing ordinary            *)
(* transaction may need another helper call before it can commit"          *)
(* (obs/db/database.py:1844).                                              *)
LockNotRetainedWhileWaiting ==
    ~ \E t, u \in Task :
        /\ t # u /\ owner = u
        /\ phase[t] = "waiting" /\ holder["operation"] = t
        /\ \E i \in 1..Len(waiters["operation"]) : waiters["operation"][i] = u
=============================================================================
