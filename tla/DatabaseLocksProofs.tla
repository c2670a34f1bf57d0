------------------------ MODULE DatabaseLocksProofs ------------------------
(***************************************************************************)
(* Proofs about DatabaseLocks, for every number of tasks and of calls.     *)
(* The argument: a task holds a lock only for the call it is in, or the    *)
(* write lock as owner of the shared transaction, and a call that runs     *)
(* holds every lock it names.  Mutual exclusion then follows from a lock   *)
(* having one holder.                                                      *)
(***************************************************************************)
EXTENDS DatabaseLocks, TLAPS

OwnerRuns == {"execute", "commit", "rollback", "execute_and_commit"}

(* A lock is held for the call its holder is in, or by the owner.          *)
HeldForCall(t) ==
    \A l \in Lock : holder[l] = t =>
        \/ l = "write" /\ owner = t
        \/ phase[t] \notin {"idle", "raised"} /\ l \in LocksOf(op[t])

OwnerHoldsWrite(t) == owner = t => holder["write"] = t

RunningHoldsAll(t) ==
    phase[t] = "running" => TakesNoLock(t, op[t]) \/ \A l \in LocksOf(op[t]) : holder[l] = t

(* The owner is in no call, in a lookup, or in a call that took no lock.   *)
OwnerInCall(t) ==
    owner = t /\ phase[t] \notin {"idle", "raised"} =>
        \/ op[t] = "fetch"
        \/ /\ phase[t] = "running" /\ op[t] \in OwnerRuns
           /\ \A l \in Lock : holder[l] = t => l = "write"

BodyHolds(t) ==
    phase[t] = "body" =>
        \/ op[t] \in Private /\ connected /\ \A l \in Lock : holder[l] = t
        \/ /\ op[t] = "exclusive_lifecycle" /\ ~connected
           /\ holder["lifecycle"] = t /\ holder["checkpoint"] # t

SpinningIsPrivate(t) == phase[t] = "spinning" => op[t] \in Private

TaskInv(t) ==
    /\ HeldForCall(t) /\ OwnerHoldsWrite(t) /\ RunningHoldsAll(t)
    /\ OwnerInCall(t) /\ BodyHolds(t) /\ SpinningIsPrivate(t)

LocksInv == TypeOK /\ \A t \in Task : TaskInv(t)

-----------------------------------------------------------------------------
(* The order of the locks.                                                 *)

LEMMA LocksOfValues ==
    /\ LocksOf("fetch") = {"operation"}
    /\ LocksOf("execute") = {"operation", "write"}
    /\ LocksOf("execute_and_commit") = {"operation", "write"}
    /\ LocksOf("commit") = {"write"} /\ LocksOf("rollback") = {"write"}
    /\ LocksOf("transaction") = Lock /\ LocksOf("isolated_transaction") = Lock
    /\ LocksOf("checkpoint") = {"checkpoint"}
    /\ LocksOf("connect") = {"lifecycle"}
    /\ LocksOf("disconnect") = {"lifecycle", "checkpoint"}
    /\ LocksOf("exclusive_lifecycle") = {"lifecycle", "checkpoint"}
BY DEF LocksOf, Private, PrivateLocks, ClosingLocks

(* Every call names at least one lock, and only locks that exist.          *)
LEMMA LocksOfType ==
    ASSUME NEW o \in Operation
    PROVE  LocksOf(o) # {} /\ LocksOf(o) \subseteq Lock
BY LocksOfValues DEF Operation, Lock

(* The lock asked for next is one of those still missing.                  *)
LEMMA FirstIsMember ==
    ASSUME NEW locks \in SUBSET Lock, locks # {}
    PROVE  First(locks) \in locks
<1>1. \A l \in Lock : Rank(l) \in 1..4
  BY DEF Rank, Lock
<1>2. \A l, m \in Lock : Rank(l) <= Rank(m) \/ Rank(m) <= Rank(l)
  BY <1>1
<1>3. Rank("lifecycle") = 1 /\ Rank("checkpoint") = 2 /\ Rank("operation") = 3 /\ Rank("write") = 4
  BY DEF Rank
<1>4. \E l \in locks : \A m \in locks : Rank(l) <= Rank(m)
  <2>1. CASE "lifecycle" \in locks
    BY <2>1, <1>3 DEF Lock
  <2>2. CASE "lifecycle" \notin locks /\ "checkpoint" \in locks
    BY <2>2, <1>3 DEF Lock
  <2>3. CASE "lifecycle" \notin locks /\ "checkpoint" \notin locks /\ "operation" \in locks
    BY <2>3, <1>3 DEF Lock
  <2>4. CASE "lifecycle" \notin locks /\ "checkpoint" \notin locks /\ "operation" \notin locks
    <3>1. locks = {"write"}
      BY <2>4 DEF Lock
    <3>2. QED
      BY <3>1, <1>3
  <2>5. QED
    BY <2>1, <2>2, <2>3, <2>4
<1>5. QED
  BY <1>4 DEF First

-----------------------------------------------------------------------------
LEMMA InitLocksInv == Init => LocksInv
<1>1. Init => TypeOK
  <2>1. ASSUME Init PROVE waiters \in [Lock -> Seq(Task)]
    BY <2>1 DEF Init
  <2>2. ASSUME Init PROVE calls \in [Task -> Nat]
    BY <2>2, MaxCallsAssumption DEF Init
  <2>3. ASSUME Init PROVE holder \in [Lock -> Task \cup {NoTask}] /\ owner \in Task \cup {NoTask}
    BY <2>3 DEF Init
  <2>4. ASSUME Init PROVE phase \in [Task -> Phase] /\ op \in [Task -> Operation]
    BY <2>4 DEF Init, Phase, Operation
  <2>5. ASSUME Init PROVE privateRows \in [Task -> SUBSET Row] /\ rows \subseteq Row /\ durable \subseteq Row
    BY <2>5 DEF Init
  <2>6. ASSUME Init PROVE connected \in BOOLEAN /\ inTx \in BOOLEAN
    BY <2>6 DEF Init
  <2>7. QED
    BY <2>1, <2>2, <2>3, <2>4, <2>5, <2>6 DEF TypeOK
<1>2. ASSUME Init, NEW t \in Task PROVE TaskInv(t)
  BY <1>2, NoTaskAssumption
     DEF Init, TaskInv, HeldForCall, OwnerHoldsWrite, RunningHoldsAll, OwnerInCall, BodyHolds, SpinningIsPrivate
<1>3. QED
  BY <1>1, <1>2 DEF LocksInv

(* A call that ends, or gives some of its locks back, and changes neither  *)
(* who owns the shared transaction nor the connection.                     *)
LEMMA LeavesType ==
    ASSUME TypeOK, NEW t \in Task, NEW to \in Phase, NEW locks, Leaves(t, to, locks)
    PROVE  /\ holder' \in [Lock -> Task \cup {NoTask}]
           /\ waiters' \in [Lock -> Seq(Task)]
           /\ phase' \in [Task -> Phase]
           /\ op' \in [Task -> Operation]
           /\ calls' \in [Task -> Nat]
BY DEF TypeOK, Leaves, Freed

LEMMA RowType == \A t \in Task : Whole(t) \in Row /\ Partial(t) \in Row
BY DEF Whole, Partial, Row

LEMMA WaitersType ==
    ASSUME NEW w \in [Lock -> Seq(Task)], NEW l \in Lock, NEW t \in Task
    PROVE  /\ [w EXCEPT ![l] = Append(@, t)] \in [Lock -> Seq(Task)]
           /\ w[l] # <<>> => [w EXCEPT ![l] = Tail(@)] \in [Lock -> Seq(Task)]
<1>1. w[l] \in Seq(Task)
  OBVIOUS
<1>2. Append(w[l], t) \in Seq(Task) /\ (w[l] # <<>> => Tail(w[l]) \in Seq(Task))
  BY <1>1
<1>3. QED
  BY <1>2

LEMMA StatementType ==
    ASSUME TypeOK, NEW t \in Task, NEW e \in Succeeded(t) \cup Raised(t)
    PROVE  e[1] \in BOOLEAN /\ e[2] \subseteq Row
<1>1. \/ e = <<inTx, rows>> \/ e = <<TRUE, rows>>
      \/ e = <<TRUE, rows \cup {Whole(t)}>> \/ e = <<TRUE, rows \cup {Partial(t)}>>
  BY Zenon DEF Succeeded, Raised
<1>2. CASE e = <<inTx, rows>>
  BY <1>2 DEF TypeOK
<1>3. CASE e = <<TRUE, rows>>
  BY <1>3 DEF TypeOK
<1>4. CASE e = <<TRUE, rows \cup {Whole(t)}>>
  BY <1>4, RowType DEF TypeOK
<1>5. CASE e = <<TRUE, rows \cup {Partial(t)}>>
  BY <1>5, RowType DEF TypeOK
<1>6. QED
  BY <1>1, <1>2, <1>3, <1>4, <1>5

LEMMA LocksInvType == LocksInv /\ [Next]_vars => TypeOK'
<1> SUFFICES ASSUME LocksInv, Next PROVE TypeOK'
  BY DEF vars, TypeOK, LocksInv
<1> USE DEF LocksInv
<1>0. PICK t \in Task : \/ \E o \in Operation : Call(t, o)
                        \/ Progress(t) \/ BodyWrite(t) \/ IsolatedCommit(t)
  BY DEF Next
<1>1. ASSUME NEW o \in Operation, Call(t, o) PROVE TypeOK'
  <2>1. First(LocksOf(o)) \in Lock
    BY LocksOfType, FirstIsMember
  <2>2. waiters' \in [Lock -> Seq(Task)]
    <3>1. Enqueued(t, First(LocksOf(o))) \in [Lock -> Seq(Task)]
      BY <2>1, WaitersType, Zenon DEF Enqueued, TypeOK
    <3>2. QED
      BY <1>1, <3>1 DEF Call, TypeOK
  <2>3. calls' \in [Task -> Nat]
    BY <1>1, MaxCallsAssumption DEF Call, TypeOK, Ending, Starting
  <2>4. phase' \in [Task -> Phase] /\ op' \in [Task -> Operation]
    BY <1>1 DEF Call, TypeOK, Phase
  <2>5. QED
    BY <1>1, <2>2, <2>3, <2>4 DEF Call, TypeOK
<1>2. ASSUME NEW l \in Lock, Acquire(t, l) PROVE TypeOK'
  <2> DEFINE left == Missing(t) \ {l}
             popped == [waiters EXCEPT ![l] = Tail(@)]
  <2>1. popped \in [Lock -> Seq(Task)]
    BY <1>2, WaitersType DEF Acquire, TypeOK
  <2>2. left # {} => First(left) \in Lock
    <3>1. left \in SUBSET Lock
      BY LocksOfType DEF Missing, TypeOK
    <3>2. QED
      BY <3>1, FirstIsMember
  <2>3. waiters' = popped \/ (left # {} /\ waiters' = [popped EXCEPT ![First(left)] = Append(@, t)])
    BY <1>2 DEF Acquire
  <2>4. waiters' \in [Lock -> Seq(Task)]
    <3> HIDE DEF popped, left
    <3>1. ASSUME left # {}
          PROVE  [popped EXCEPT ![First(left)] = Append(@, t)] \in [Lock -> Seq(Task)]
      <4>1. First(left) \in Lock
        BY <3>1, <2>2
      <4>2. QED
        BY <2>1, <4>1, WaitersType, Zenon
    <3>2. QED
      BY <2>1, <2>3, <3>1
  <2>5. holder' \in [Lock -> Task \cup {NoTask}] /\ phase' \in [Task -> Phase]
    <3>1. holder' = holder \/ holder' = [holder EXCEPT ![l] = t]
      BY <1>2 DEF Acquire
    <3>2. \E p \in Phase : phase' = [phase EXCEPT ![t] = p]
      BY <1>2 DEF Acquire, Phase
    <3>3. QED
      BY <3>1, <3>2 DEF TypeOK
  <2>6. QED
    BY <1>2, <2>4, <2>5 DEF Acquire, TypeOK
<1>3. CASE SpinEnds(t)
  <2>1. waiters' \in [Lock -> Seq(Task)]
    <3>1. waiters \in [Lock -> Seq(Task)] /\ "operation" \in Lock
      BY DEF TypeOK, Lock
    <3>2. Enqueued(t, "operation") \in [Lock -> Seq(Task)]
      BY <3>1, WaitersType, Zenon DEF Enqueued
    <3>3. QED
      BY <1>3, <3>1, <3>2 DEF SpinEnds
  <2>2. holder' \in [Lock -> Task \cup {NoTask}] /\ phase' \in [Task -> Phase]
    BY <1>3 DEF SpinEnds, TypeOK, Freed, Phase
  <2>3. QED
    BY <1>3, <2>1, <2>2 DEF SpinEnds, TypeOK
<1> DEFINE CallTyped == /\ holder' \in [Lock -> Task \cup {NoTask}]
                        /\ waiters' \in [Lock -> Seq(Task)]
                        /\ phase' \in [Task -> Phase]
                        /\ op' \in [Task -> Operation]
                        /\ calls' \in [Task -> Nat]
<1> USE DEF Phase, Lock
<1>4. CASE Fetch(t)
  BY <1>4, LeavesType DEF Fetch, Returns, TypeOK
<1>5. CASE Execute(t)
  <2>1. CallTyped /\ owner' \in Task \cup {NoTask}
    BY <1>5, LeavesType DEF Execute, Returns, TypeOK
  <2>2. inTx' \in BOOLEAN /\ rows' \subseteq Row
    <3>1. PICK e \in Succeeded(t) : inTx' = e[1] /\ rows' = e[2]
      BY <1>5 DEF Execute
    <3>2. QED
      BY <3>1, StatementType
  <2>3. QED
    BY <1>5, <2>1, <2>2 DEF Execute, TypeOK
<1>6. CASE ExecuteRaises(t)
  <2>1. inTx' \in BOOLEAN /\ rows' \subseteq Row
    <3>1. PICK e \in Raised(t) : inTx' = e[1] /\ rows' = e[2]
      BY <1>6 DEF ExecuteRaises
    <3>2. QED
      BY <3>1, StatementType
  <2>2. QED
    BY <1>6, <2>1, LeavesType DEF ExecuteRaises, TypeOK
<1>7. CASE ReleaseSavepoint(t)
  BY <1>7, LeavesType DEF ReleaseSavepoint, Returns, TypeOK
<1>8. CASE Commit(t)
  BY <1>8, LeavesType DEF Commit, EndShared, Returns, TypeOK
<1>9. CASE Rollback(t)
  BY <1>9, LeavesType DEF Rollback, EndShared, Returns, TypeOK
<1>10. CASE ExecuteAndCommit(t)
  <2>1. EndShared(t, rows \cup {Whole(t)})
    BY <1>10 DEF ExecuteAndCommit
  <2>2. durable' \subseteq Row
    BY <2>1, RowType DEF EndShared, LocksInv, TypeOK
  <2>3. QED
    BY <2>1, <2>2, LeavesType DEF EndShared, Returns, TypeOK
<1>11. CASE ExecuteAndCommitRaises(t)
  <2>1. inTx' \in BOOLEAN /\ rows' \subseteq Row
    <3>1. PICK e \in Raised(t) : inTx' = e[1] /\ rows' = e[2]
      BY <1>11 DEF ExecuteAndCommitRaises
    <3>2. QED
      BY <3>1, StatementType
  <2>2. QED
    BY <1>11, <2>1, LeavesType DEF ExecuteAndCommitRaises, Returns, TypeOK
<1>12. CASE EnterPrivate(t)
  BY <1>12, LeavesType DEF EnterPrivate, Returns, TypeOK
<1>13. CASE BodyWrite(t)
  BY <1>13, RowType DEF BodyWrite, TypeOK
<1>14. CASE BodyCommit(t)
  BY <1>14, LeavesType DEF BodyCommit, Returns, TypeOK
<1>15. CASE IsolatedCommit(t)
  BY <1>15 DEF IsolatedCommit, TypeOK
<1>16. CASE BodyRollback(t)
  BY <1>16, LeavesType DEF BodyRollback, Returns, TypeOK
<1>17. CASE Checkpoint(t)
  BY <1>17, LeavesType DEF Checkpoint, Returns, TypeOK
<1>18. CASE Disconnect(t)
  BY <1>18, LeavesType DEF Disconnect, Close, Returns, TypeOK
<1>19. CASE Connect(t)
  BY <1>19, LeavesType DEF Connect, Returns, TypeOK
<1>20. CASE BeginRestore(t)
  BY <1>20, LeavesType DEF BeginRestore, Close, TypeOK
<1>21. CASE EndRestore(t)
  BY <1>21, LeavesType DEF EndRestore, Returns, TypeOK
<1>22. QED
  BY <1>0, <1>1, <1>2, <1>3, <1>4, <1>5, <1>6, <1>7, <1>8, <1>9, <1>10, <1>11, <1>12, <1>13,
     <1>14, <1>15, <1>16, <1>17, <1>18, <1>19, <1>20, <1>21 DEF Progress

-----------------------------------------------------------------------------
(* What a call holds when it runs: every lock it names, unless it is the   *)
(* owner's.                                                                *)
LEMMA RunningExclusive ==
    ASSUME LocksInv, NEW t \in Task, phase[t] = "running", op[t] \notin OwnerRuns,
           NEW l \in LocksOf(op[t])
    PROVE  holder[l] = t
BY DEF LocksInv, TaskInv, RunningHoldsAll, TakesNoLock, OwnerRuns

(* A step in which t gives up its call: the other tasks' locks stay.       *)
LEMMA LeavesOthers ==
    ASSUME LocksInv, NEW t \in Task, NEW to \in Phase, NEW locks, Leaves(t, to, locks),
           NEW u \in Task
    PROVE  /\ u # t => \A l \in Lock : (holder'[l] = u <=> holder[l] = u)
           /\ \A l \in Lock : holder'[l] = t <=> (holder[l] = t /\ l \notin locks)
           /\ u # t => phase'[u] = phase[u]
           /\ phase'[t] = to
           /\ op' = op
BY NoTaskAssumption DEF LocksInv, TypeOK, Leaves, Freed

(* What a step of another task leaves to u.                                *)
LEMMA OthersKeep ==
    ASSUME NEW u \in Task, TaskInv(u), op[u] \in Operation,
           \A l \in Lock : holder'[l] = u <=> holder[l] = u,
           phase'[u] = phase[u], op'[u] = op[u],
           owner' = u <=> owner = u,
           phase[u] = "body" => connected' = connected
    PROVE  TaskInv(u)'
<1>1. HeldForCall(u)' /\ OwnerHoldsWrite(u)'
  BY DEF TaskInv, HeldForCall, OwnerHoldsWrite, Lock
<1>2. RunningHoldsAll(u)'
  BY LocksOfType DEF TaskInv, RunningHoldsAll, TakesNoLock
<1>3. OwnerInCall(u)' /\ BodyHolds(u)' /\ SpinningIsPrivate(u)'
  BY DEF TaskInv, OwnerInCall, BodyHolds, SpinningIsPrivate, Lock
<1>4. QED
  BY <1>1, <1>2, <1>3 DEF TaskInv

(* A call that ends without touching who owns the shared transaction: the  *)
(* locks it frees are all it holds, unless its caller owns the transaction.*)
LEMMA ReturnKeeps ==
    ASSUME LocksInv, NEW t \in Task, NEW to \in {"idle", "raised"}, NEW locks,
           Leaves(t, to, locks), owner' = owner,
           \A u \in Task \ {t} : phase[u] = "body" => connected' = connected,
           \A l \in Lock : holder[l] = t => l \in locks \/ (l = "write" /\ owner = t),
           owner = t => "write" \notin locks
    PROVE  \A u \in Task : TaskInv(u)'
<1>1. ASSUME NEW u \in Task, u # t PROVE TaskInv(u)'
  <2>1. /\ \A l \in Lock : holder'[l] = u <=> holder[l] = u
        /\ phase'[u] = phase[u] /\ op'[u] = op[u]
    BY <1>1, LeavesOthers DEF Phase
  <2>2. TaskInv(u) /\ op[u] \in Operation
    BY DEF LocksInv, TypeOK
  <2>3. QED
    BY <1>1, <2>1, <2>2, OthersKeep
<1>2. TaskInv(t)'
  <2>1. /\ \A l \in Lock : holder'[l] = t <=> (holder[l] = t /\ l \notin locks)
        /\ phase'[t] = to
    BY LeavesOthers DEF Phase
  <2>2. HeldForCall(t)'
    BY <2>1 DEF HeldForCall
  <2>3. OwnerHoldsWrite(t)'
    BY <2>1 DEF LocksInv, TaskInv, OwnerHoldsWrite, Lock
  <2>4. QED
    BY <2>1, <2>2, <2>3 DEF TaskInv, RunningHoldsAll, OwnerInCall, BodyHolds, SpinningIsPrivate
<1>3. QED
  BY <1>1, <1>2

(* The owner gives the shared transaction up, and the write lock with it.  *)
LEMMA GiveUpKeeps ==
    ASSUME LocksInv, NEW t \in Task, phase[t] = "running", op[t] \in OwnerRuns,
           Returns(t, {"operation", "write"}),
           owner' = IF owner = t THEN NoTask ELSE owner, connected' = connected
    PROVE  \A u \in Task : TaskInv(u)'
<1>1. ASSUME NEW u \in Task, u # t PROVE TaskInv(u)'
  <2>1. /\ \A l \in Lock : holder'[l] = u <=> holder[l] = u
        /\ phase'[u] = phase[u] /\ op'[u] = op[u]
    BY <1>1, LeavesOthers DEF Phase, Returns
  <2>2. TaskInv(u) /\ op[u] \in Operation
    BY DEF LocksInv, TypeOK
  <2>3. owner' = u <=> owner = u
    BY <1>1, NoTaskAssumption
  <2>4. QED
    BY <1>1, <2>1, <2>2, <2>3, OthersKeep
<1>2. TaskInv(t)'
  <2>1. /\ \A l \in Lock : holder'[l] = t <=> (holder[l] = t /\ l \notin {"operation", "write"})
        /\ phase'[t] = "idle"
    BY LeavesOthers DEF Phase, Returns
  <2>2. \A l \in Lock : holder[l] = t => l \in {"operation", "write"}
    BY LocksOfValues DEF LocksInv, TaskInv, HeldForCall, OwnerRuns
  <2>3. owner' # t
    BY NoTaskAssumption
  <2>4. QED
    BY <2>1, <2>2, <2>3
       DEF TaskInv, HeldForCall, OwnerHoldsWrite, RunningHoldsAll, OwnerInCall, BodyHolds, SpinningIsPrivate
<1>3. QED
  BY <1>1, <1>2

(* A call other than the owner's: its caller owns nothing, and everything  *)
(* it holds is a lock of the call.                                         *)
LEMMA PlainCall ==
    ASSUME LocksInv, NEW t \in Task, phase[t] \in {"spinning", "running", "body"},
           op[t] \notin OwnerRuns \cup {"fetch"}
    PROVE  owner # t /\ \A l \in Lock : holder[l] = t => l \in LocksOf(op[t])
BY DEF LocksInv, TaskInv, OwnerInCall, HeldForCall

(* Whoever is in the block of a context manager holds the lifecycle lock.  *)
LEMMA BodyHoldsLifecycle ==
    ASSUME LocksInv, NEW u \in Task, phase[u] = "body"
    PROVE  holder["lifecycle"] = u
BY DEF LocksInv, TaskInv, BodyHolds, Lock

LEMMA LocksInvStep == LocksInv /\ [Next]_vars => \A u \in Task : TaskInv(u)'
<1> SUFFICES ASSUME LocksInv, [Next]_vars PROVE \A u \in Task : TaskInv(u)'
  OBVIOUS
<1> DEFINE Kept == \A u \in Task : TaskInv(u)'
<1>typ. /\ \A u \in Task : TaskInv(u) /\ op[u] \in Operation /\ phase[u] \in Phase
        /\ holder \in [Lock -> Task \cup {NoTask}]
        /\ phase \in [Task -> Phase] /\ op \in [Task -> Operation]
  BY DEF LocksInv, TypeOK
<1>0. CASE UNCHANGED vars
  BY <1>0, <1>typ, OthersKeep DEF vars
<1>00. ASSUME NEW t \in Task, \/ \E o \in Operation : Call(t, o)
                             \/ Progress(t) \/ BodyWrite(t) \/ IsolatedCommit(t)
       PROVE  Kept
  <2>1. ASSUME NEW o \in Operation, Call(t, o) PROVE Kept
    <3>1. ASSUME NEW u \in Task, u # t PROVE TaskInv(u)'
      BY <1>typ, <2>1, <3>1, OthersKeep DEF Call
    <3>2. TaskInv(t)'
      <4>1. /\ holder' = holder /\ owner' = owner /\ connected' = connected
            /\ op'[t] = o /\ phase[t] \in {"idle", "raised"}
            /\ phase'[t] = IF TakesNoLock(t, o) THEN "running" ELSE "waiting"
            /\ owner = t => o \in OwnerRuns \cup {"fetch"}
            /\ \A l \in Lock : holder[l] = t => l = "write" /\ owner = t
        <5>1. owner = t => o \in OwnerRuns \cup {"fetch"}
          BY <2>1 DEF Call, Ending, Starting, OwnerCalls, OwnerRuns
        <5>2. \A l \in Lock : holder[l] = t => l = "write" /\ owner = t
          BY <1>typ, <2>1 DEF Call, Ending, Starting, TaskInv, HeldForCall
        <5>3. QED
          BY <1>typ, <2>1, <5>1, <5>2 DEF Call, Ending, Starting
      <4>2. TakesNoLock(t, o)' <=> TakesNoLock(t, o)
        BY <4>1 DEF TakesNoLock
      <4>3. TakesNoLock(t, o) <=> owner = t /\ o \in OwnerRuns
        BY DEF TakesNoLock, OwnerRuns
      <4>4. HeldForCall(t)' /\ OwnerHoldsWrite(t)'
        BY <1>typ, <4>1 DEF TaskInv, HeldForCall, OwnerHoldsWrite
      <4>5. RunningHoldsAll(t)' /\ OwnerInCall(t)'
        BY <4>1, <4>2, <4>3 DEF RunningHoldsAll, OwnerInCall
      <4>6. BodyHolds(t)' /\ SpinningIsPrivate(t)'
        BY <4>1 DEF BodyHolds, SpinningIsPrivate
      <4>7. QED
        BY <4>4, <4>5, <4>6 DEF TaskInv
    <3>3. QED
      BY <3>1, <3>2
  <2>2. ASSUME NEW l \in Lock, Acquire(t, l) PROVE Kept
    <3>1. /\ phase[t] = "waiting" /\ holder[l] = NoTask /\ l \in LocksOf(op[t])
          /\ holder' = holder \/ holder' = [holder EXCEPT ![l] = t]
          /\ op' = op /\ owner' = owner /\ connected' = connected
          /\ \E p \in Phase : phase' = [phase EXCEPT ![t] = p]
      BY <2>2 DEF Acquire, Phase, Missing
    <3>2. ASSUME NEW u \in Task, u # t PROVE TaskInv(u)'
      <4>1. \A m \in Lock : holder'[m] = u <=> holder[m] = u
        BY <1>typ, <3>1, <3>2, NoTaskAssumption
      <4>2. QED
        BY <1>typ, <3>1, <3>2, <4>1, OthersKeep
    <3>3. TaskInv(t)'
      <4>1. phase'[t] \in {"waiting", "spinning", "running"}
        BY <1>typ, <2>2 DEF Acquire
      <4>2. \A m \in Lock : /\ m # l => holder'[m] = holder[m]
                            /\ holder'[l] = t \/ holder'[l] = NoTask
        BY <1>typ, <3>1
      <4>3. phase'[t] = "spinning" => op[t] \in Private
        BY <1>typ, <2>2 DEF Acquire
      <4>4. phase'[t] = "running" => holder'[l] = t /\ \A m \in LocksOf(op[t]) : m # l => holder[m] = t
        BY <1>typ, <2>2 DEF Acquire, Missing
      <4>5. owner = t => op[t] = "fetch" /\ holder["write"] = t
        BY <1>typ, <3>1 DEF TaskInv, OwnerInCall, OwnerHoldsWrite
      <4>6. HeldForCall(t)'
        BY <1>typ, <3>1, <4>1, <4>2 DEF TaskInv, HeldForCall
      <4>7. OwnerHoldsWrite(t)'
        BY <3>1, <4>2, <4>5, NoTaskAssumption DEF OwnerHoldsWrite, Lock
      <4>8. RunningHoldsAll(t)'
        <5>1. LocksOf(op[t]) \subseteq Lock
          BY <1>typ, LocksOfType
        <5>2. QED
          BY <3>1, <4>2, <4>4, <5>1 DEF RunningHoldsAll
      <4>9. OwnerInCall(t)' /\ BodyHolds(t)' /\ SpinningIsPrivate(t)'
        BY <3>1, <4>1, <4>3, <4>5 DEF OwnerInCall, BodyHolds, SpinningIsPrivate
      <4>10. QED
        BY <4>6, <4>7, <4>8, <4>9 DEF TaskInv
    <3>4. QED
      BY <3>2, <3>3
  <2>3. CASE SpinEnds(t)
    <3>1. op[t] \in Private /\ owner # t
      BY <1>typ, <2>3 DEF SpinEnds, TaskInv, SpinningIsPrivate, OwnerInCall, Private, OwnerRuns
    <3>2. CASE connected
      <4>1. /\ holder' = holder /\ owner' = owner /\ op' = op /\ connected' = connected
            /\ phase' = [phase EXCEPT ![t] = "waiting"] /\ phase[t] = "spinning"
        BY <2>3, <3>2 DEF SpinEnds
      <4>2. ASSUME NEW u \in Task, u # t PROVE TaskInv(u)'
        BY <1>typ, <4>1, <4>2, OthersKeep
      <4>3. TaskInv(t)'
        BY <1>typ, <3>1, <4>1 DEF TaskInv, HeldForCall, OwnerHoldsWrite, RunningHoldsAll, OwnerInCall,
                                 BodyHolds, SpinningIsPrivate
      <4>4. QED
        BY <4>2, <4>3
    <3>3. CASE ~connected
      <4>1. Leaves(t, "idle", Lock) /\ owner' = owner /\ connected' = connected
        BY <2>3, <3>3 DEF SpinEnds, Leaves
      <4>2. QED
        BY <3>1, <4>1, ReturnKeeps
    <3>4. QED
      BY <3>2, <3>3
  <2>4. CASE Fetch(t)
    <3>1. /\ Leaves(t, "idle", {"operation"}) /\ owner' = owner /\ connected' = connected
          /\ op[t] = "fetch"
      BY <2>4 DEF Fetch, Returns, Running
    <3>2. \A l \in Lock : holder[l] = t => l \in {"operation"} \/ (l = "write" /\ owner = t)
      BY <1>typ, <3>1, LocksOfValues DEF TaskInv, HeldForCall
    <3>3. QED
      BY <3>1, <3>2, ReturnKeeps
  <2>5. CASE Execute(t)
    <3>1. /\ phase[t] = "running" /\ op[t] = "execute" /\ connected' = connected
      BY <2>5 DEF Execute, Running
    <3>2. CASE owner = t
      <4>1. Leaves(t, "idle", {}) /\ owner' = owner
        BY <2>5, <3>2 DEF Execute, Returns
      <4>2. \A l \in Lock : holder[l] = t => l = "write"
        BY <1>typ, <3>1, <3>2 DEF TaskInv, OwnerInCall
      <4>3. QED
        BY <3>1, <3>2, <4>1, <4>2, ReturnKeeps
    <3>3. CASE owner # t /\ Returns(t, {"operation"}) /\ owner' = t
      <4>1. holder["write"] = t
        BY <1>typ, <3>1, <3>3, LocksOfValues DEF TaskInv, RunningHoldsAll, TakesNoLock
      <4>2. /\ \A l \in Lock : holder'[l] = t <=> (holder[l] = t /\ l \notin {"operation"})
            /\ phase'[t] = "idle"
        BY <3>3, LeavesOthers DEF Returns, Phase
      <4>3. ASSUME NEW u \in Task, u # t PROVE TaskInv(u)'
        <5>1. /\ \A l \in Lock : holder'[l] = u <=> holder[l] = u
              /\ phase'[u] = phase[u] /\ op'[u] = op[u]
          BY <3>3, <4>3, LeavesOthers DEF Returns, Phase
        <5>2. owner # u
          BY <1>typ, <4>1, <4>3 DEF TaskInv, OwnerHoldsWrite
        <5>3. QED
          BY <1>typ, <3>1, <3>3, <4>3, <5>1, <5>2, OthersKeep
      <4>4. TaskInv(t)'
        <5>1. \A l \in Lock : holder[l] = t => l \in {"operation", "write"}
          BY <1>typ, <3>1, <3>3, LocksOfValues DEF TaskInv, HeldForCall
        <5>2. HeldForCall(t)' /\ OwnerHoldsWrite(t)'
          BY <3>3, <4>1, <4>2, <5>1 DEF HeldForCall, OwnerHoldsWrite, Lock
        <5>3. QED
          BY <4>2, <5>2 DEF TaskInv, RunningHoldsAll, OwnerInCall, BodyHolds, SpinningIsPrivate
      <4>5. QED
        BY <4>3, <4>4
    <3>4. CASE owner # t /\ Returns(t, {"operation", "write"}) /\ owner' = owner
      <4>1. \A l \in Lock : holder[l] = t => l \in {"operation", "write"}
        BY <1>typ, <3>1, <3>4, LocksOfValues DEF TaskInv, HeldForCall
      <4>2. QED
        BY <3>1, <3>4, <4>1, ReturnKeeps DEF Returns
    <3>5. QED
      BY <2>5, <3>2, <3>3, <3>4 DEF Execute
  <2>6. CASE ExecuteRaises(t)
    <3>1. /\ phase[t] = "running" /\ op[t] = "execute" /\ connected' = connected /\ owner' = owner
          /\ Leaves(t, "raised", IF owner = t THEN {} ELSE {"operation", "write"})
      BY <2>6 DEF ExecuteRaises, Running
    <3>2. owner = t => \A l \in Lock : holder[l] = t => l = "write"
      BY <1>typ, <3>1 DEF TaskInv, OwnerInCall
    <3>3. \A l \in Lock : holder[l] = t => l \in {"operation", "write"}
      BY <1>typ, <3>1, LocksOfValues DEF TaskInv, HeldForCall
    <3>4. QED
      BY <3>1, <3>2, <3>3, ReturnKeeps
  <2>7. CASE ReleaseSavepoint(t)
    <3>1. /\ phase[t] = "running" /\ op[t] = "execute" /\ connected' = connected
          /\ owner = t /\ owner' = owner /\ Leaves(t, "idle", {})
      BY <2>7 DEF ReleaseSavepoint, Running, Returns
    <3>2. \A l \in Lock : holder[l] = t => l = "write"
      BY <1>typ, <3>1 DEF TaskInv, OwnerInCall
    <3>3. QED
      BY <3>1, <3>2, ReturnKeeps
  <2>8. CASE Commit(t)
    BY <2>8, GiveUpKeeps DEF Commit, EndShared, Running, OwnerRuns
  <2>9. CASE Rollback(t)
    BY <2>9, GiveUpKeeps DEF Rollback, EndShared, Running, OwnerRuns
  <2>10. CASE ExecuteAndCommit(t)
    BY <2>10, GiveUpKeeps DEF ExecuteAndCommit, EndShared, Running, OwnerRuns
  <2>11. CASE ExecuteAndCommitRaises(t)
    BY <2>11, GiveUpKeeps DEF ExecuteAndCommitRaises, Running, OwnerRuns
  <2>12. CASE EnterPrivate(t)
    <3>1. /\ phase[t] = "running" /\ op[t] \in Private
          /\ owner' = owner /\ connected' = connected /\ owner # t
      BY <2>12, PlainCall DEF EnterPrivate, Private, OwnerRuns
    <3>2. CASE Leaves(t, "idle", Lock)
      BY <3>1, <3>2, ReturnKeeps
    <3>3. CASE connected /\ Leaves(t, "body", {})
      <4>1. ASSUME NEW u \in Task, u # t PROVE TaskInv(u)'
        BY <1>typ, <3>1, <3>3, <4>1, LeavesOthers, OthersKeep DEF Phase
      <4>2. TaskInv(t)'
        <5>1. \A l \in Lock : holder[l] = t
          BY <1>typ, <3>1, LocksOfValues DEF TaskInv, RunningHoldsAll, TakesNoLock, Private
        <5>2. phase'[t] = "body" /\ op'[t] = op[t] /\ \A l \in Lock : holder'[l] = t
          BY <3>3, <5>1, LeavesOthers DEF Phase
        <5>3. HeldForCall(t)'
          BY <3>1, <5>2, LocksOfValues DEF HeldForCall, Private
        <5>4. QED
          BY <3>1, <3>3, <5>2, <5>3 DEF TaskInv, OwnerHoldsWrite, RunningHoldsAll, OwnerInCall,
                                        BodyHolds, SpinningIsPrivate
      <4>3. QED
        BY <4>1, <4>2
    <3>4. QED
      BY <2>12, <3>2, <3>3 DEF EnterPrivate, Returns
  <2>13. CASE BodyWrite(t)
    BY <1>typ, <2>13, OthersKeep DEF BodyWrite
  <2>14. CASE BodyCommit(t)
    <3>1. /\ Leaves(t, "idle", Lock) /\ owner' = owner /\ connected' = connected
          /\ phase[t] = "body" /\ op[t] = "transaction"
      BY <2>14 DEF BodyCommit, Returns, InBody
    <3>2. QED
      BY <3>1, PlainCall, ReturnKeeps DEF OwnerRuns
  <2>15. CASE IsolatedCommit(t)
    BY <1>typ, <2>15, OthersKeep DEF IsolatedCommit
  <2>16. CASE BodyRollback(t)
    <3>1. /\ Leaves(t, "idle", Lock) /\ owner' = owner /\ connected' = connected
          /\ phase[t] = "body" /\ op[t] \in Private
      BY <2>16 DEF BodyRollback, Returns, InBody
    <3>2. QED
      BY <3>1, PlainCall, ReturnKeeps DEF OwnerRuns, Private
  <2>17. CASE Checkpoint(t)
    <3>1. /\ Leaves(t, "idle", {"checkpoint"}) /\ owner' = owner /\ connected' = connected
          /\ phase[t] = "running" /\ op[t] = "checkpoint"
      BY <2>17 DEF Checkpoint, Returns, Running
    <3>2. QED
      BY <3>1, PlainCall, LocksOfValues, ReturnKeeps DEF OwnerRuns
  <2>18. CASE Disconnect(t)
    <3>1. /\ Leaves(t, "idle", {"lifecycle", "checkpoint"}) /\ owner' = owner
          /\ phase[t] = "running" /\ op[t] = "disconnect"
      BY <2>18 DEF Disconnect, Returns, Running
    <3>2. holder["lifecycle"] = t
      BY <3>1, RunningExclusive, LocksOfValues DEF OwnerRuns
    <3>3. \A u \in Task \ {t} : phase[u] # "body"
      BY <3>2, BodyHoldsLifecycle
    <3>4. QED
      BY <3>1, <3>3, PlainCall, LocksOfValues, ReturnKeeps DEF OwnerRuns
  <2>19. CASE Connect(t)
    <3>1. /\ Leaves(t, "idle", {"lifecycle"}) /\ owner' = owner
          /\ phase[t] = "running" /\ op[t] = "connect"
      BY <2>19 DEF Connect, Returns, Running
    <3>2. holder["lifecycle"] = t
      BY <3>1, RunningExclusive, LocksOfValues DEF OwnerRuns
    <3>3. \A u \in Task \ {t} : phase[u] # "body"
      BY <3>2, BodyHoldsLifecycle
    <3>4. QED
      BY <3>1, <3>3, PlainCall, LocksOfValues, ReturnKeeps DEF OwnerRuns
  <2>20. CASE BeginRestore(t)
    <3>1. /\ Leaves(t, "body", {"checkpoint"}) /\ owner' = owner /\ connected' = FALSE
          /\ phase[t] = "running" /\ op[t] = "exclusive_lifecycle"
      BY <2>20 DEF BeginRestore, Running, Close
    <3>2. holder["lifecycle"] = t
      BY <3>1, RunningExclusive, LocksOfValues DEF OwnerRuns
    <3>3. ASSUME NEW u \in Task, u # t PROVE TaskInv(u)'
      <4>1. phase[u] # "body"
        BY <3>2, <3>3, BodyHoldsLifecycle
      <4>2. QED
        BY <1>typ, <3>1, <3>3, <4>1, LeavesOthers, OthersKeep DEF Phase
    <3>4. TaskInv(t)'
      <4>1. /\ \A l \in Lock : holder'[l] = t <=> (holder[l] = t /\ l \notin {"checkpoint"})
            /\ phase'[t] = "body" /\ op'[t] = op[t]
        BY <3>1, LeavesOthers DEF Phase
      <4>2. owner # t /\ \A l \in Lock : holder[l] = t => l \in LocksOf(op[t])
        BY <3>1, PlainCall DEF OwnerRuns
      <4>3. HeldForCall(t)' /\ BodyHolds(t)'
        BY <3>1, <3>2, <4>1, <4>2 DEF HeldForCall, BodyHolds, Lock
      <4>4. QED
        BY <3>1, <4>1, <4>2, <4>3 DEF TaskInv, OwnerHoldsWrite, RunningHoldsAll, OwnerInCall,
           SpinningIsPrivate
    <3>5. QED
      BY <3>3, <3>4
  <2>21. CASE EndRestore(t)
    <3>1. /\ Leaves(t, "idle", {"lifecycle"}) /\ owner' = owner
          /\ phase[t] = "body" /\ op[t] = "exclusive_lifecycle"
      BY <2>21 DEF EndRestore, Returns, InBody
    <3>2. holder["lifecycle"] = t
      BY <3>1, BodyHoldsLifecycle
    <3>3. \A u \in Task \ {t} : phase[u] # "body"
      BY <3>2, BodyHoldsLifecycle
    <3>4. holder["checkpoint"] # t
      BY <1>typ, <3>1 DEF TaskInv, BodyHolds, Private
    <3>5. QED
      BY <3>1, <3>3, <3>4, PlainCall, LocksOfValues, ReturnKeeps DEF OwnerRuns
  <2>22. QED
    BY <1>00, <2>1, <2>2, <2>3, <2>4, <2>5, <2>6, <2>7, <2>8, <2>9, <2>10, <2>11, <2>12, <2>13,
       <2>14, <2>15, <2>16, <2>17, <2>18, <2>19, <2>20, <2>21 DEF Progress
<1>99. QED
  BY <1>0, <1>00 DEF Next

THEOREM LocksInvariant == Spec => []LocksInv
<1>1. LocksInv /\ [Next]_vars => LocksInv'
  BY LocksInvType, LocksInvStep DEF LocksInv
<1>2. QED
  BY InitLocksInv, <1>1, PTL DEF Spec

-----------------------------------------------------------------------------
(* The variables of the model of obs/db/database.py keep their types.      *)
THEOREM TypeCorrect == Spec => []TypeOK
<1>1. LocksInv => TypeOK
  BY DEF LocksInv
<1>2. QED
  BY LocksInvariant, <1>1, PTL

(* Every return, raise and early exit of database.py frees what the call   *)
(* took, save the write lock of the owner of the shared transaction.       *)
THEOREM NoLeak == Spec => []NoLockLeaked
<1>1. LocksInv => NoLockLeaked
  BY DEF LocksInv, TaskInv, HeldForCall, NoLockLeaked
<1>2. QED
  BY LocksInvariant, <1>1, PTL

(* transaction() and isolated_transaction() exclude each other, every      *)
(* statement on the shared connection, checkpoint(), disconnect() and a    *)
(* restore, and never run beside a pending shared transaction.             *)
THEOREM PrivateIsAlone == Spec => []PrivateTransactionAlone
<1>1. ASSUME LocksInv PROVE PrivateTransactionAlone
  <2> SUFFICES ASSUME NEW t \in Task, InBody(t, Private)
               PROVE  /\ owner = NoTask /\ connected
                      /\ \A u \in Task \ {t} :
                            /\ phase[u] # "body"
                            /\ phase[u] = "running" => op[u] \notin OnSharedConnection \cup {"checkpoint"}
    BY DEF PrivateTransactionAlone
  <2>1. connected /\ \A l \in Lock : holder[l] = t
    BY <1>1 DEF InBody, LocksInv, TaskInv, BodyHolds, Private
  <2>2. owner # t
    BY <1>1, PlainCall DEF InBody, Private, OwnerRuns
  <2>3. owner = NoTask
    BY <1>1, <2>1, <2>2 DEF LocksInv, TypeOK, TaskInv, OwnerHoldsWrite, Lock
  <2>4. ASSUME NEW u \in Task \ {t}, phase[u] = "body" PROVE FALSE
    BY <1>1, <2>1, <2>4, BodyHoldsLifecycle DEF Lock
  <2>5. ASSUME NEW u \in Task \ {t}, phase[u] = "running",
               op[u] \in OnSharedConnection \cup {"checkpoint"}
        PROVE  FALSE
    <3>1. \A l \in LocksOf(op[u]) : holder[l] = u
      BY <1>1, <2>3, <2>5, NoTaskAssumption DEF LocksInv, TaskInv, RunningHoldsAll, TakesNoLock
    <3>2. LocksOf(op[u]) # {} /\ LocksOf(op[u]) \subseteq Lock
      BY <1>1, LocksOfType DEF LocksInv, TypeOK
    <3>3. QED
      BY <2>1, <2>5, <3>1, <3>2
  <2>6. QED
    BY <2>1, <2>3, <2>4, <2>5
<1>2. QED
  BY LocksInvariant, <1>1, PTL

(* The shared connection is opened, closed and replaced only by a holder   *)
(* of the lifecycle lock, and not under a transaction or a checkpoint.     *)
THEOREM ReplacedOnlyUnderLock == Spec => ReplacedUnderLock
<1>1. ASSUME LocksInv, Next, connected' # connected PROVE ReplacingStep
  <2>1. PICK t \in Task : Disconnect(t) \/ Connect(t) \/ BeginRestore(t) \/ EndRestore(t)
    <3>1. PICK t \in Task : Progress(t)
      BY <1>1 DEF Next, Call, BodyWrite, IsolatedCommit
    <3>2. ~\E l \in Lock : Acquire(t, l)
      BY <1>1 DEF Acquire
    <3>3. ~SpinEnds(t) /\ ~Fetch(t) /\ ~Execute(t) /\ ~ExecuteRaises(t) /\ ~ReleaseSavepoint(t)
      BY <1>1 DEF SpinEnds, Fetch, Execute, ExecuteRaises, ReleaseSavepoint
    <3>4. ~Commit(t) /\ ~Rollback(t) /\ ~ExecuteAndCommit(t) /\ ~ExecuteAndCommitRaises(t)
      BY <1>1 DEF Commit, Rollback, ExecuteAndCommit, ExecuteAndCommitRaises, EndShared
    <3>5. ~EnterPrivate(t) /\ ~BodyCommit(t) /\ ~BodyRollback(t) /\ ~Checkpoint(t)
      BY <1>1 DEF EnterPrivate, BodyCommit, BodyRollback, Checkpoint
    <3>6. QED
      BY <3>1, <3>2, <3>3, <3>4, <3>5 DEF Progress
  <2>2. holder["lifecycle"] = t /\ ~InBody(t, Private)
    <3>1. CASE EndRestore(t)
      BY <1>1, <3>1, BodyHoldsLifecycle DEF EndRestore, InBody, Private
    <3>2. CASE Disconnect(t) \/ Connect(t) \/ BeginRestore(t)
      BY <1>1, <3>2, RunningExclusive, LocksOfValues
         DEF Disconnect, Connect, BeginRestore, Running, InBody, OwnerRuns
    <3>3. QED
      BY <2>1, <3>1, <3>2
  <2>3. \A u \in Task : ~InBody(u, Private)
    BY <1>1, <2>2, BodyHoldsLifecycle DEF InBody
  <2>4. connected => \A u \in Task : ~Running(u, "checkpoint")
    <3>1. CASE Connect(t)
      BY <1>1, <3>1 DEF Connect, LocksInv, TypeOK
    <3>2. CASE EndRestore(t)
      BY <1>1, <3>2 DEF EndRestore, InBody, LocksInv, TaskInv, BodyHolds, Private
    <3>3. CASE Disconnect(t) \/ BeginRestore(t)
      <4>1. holder["checkpoint"] = t /\ ~Running(t, "checkpoint")
        BY <1>1, <3>3, RunningExclusive, LocksOfValues DEF Disconnect, BeginRestore, Running, OwnerRuns
      <4>2. ASSUME NEW u \in Task, Running(u, "checkpoint") PROVE holder["checkpoint"] = u
        BY <1>1, <4>2, RunningExclusive, LocksOfValues DEF Running, OwnerRuns
      <4>3. QED
        BY <4>1, <4>2
    <3>4. QED
      BY <2>1, <3>1, <3>2, <3>3
  <2>5. QED
    BY <2>2, <2>3, <2>4, NoTaskAssumption DEF ReplacingStep
<1>2. LocksInv /\ [Next]_vars => [ReplacingStep]_vars
  BY <1>1 DEF vars, ReplacingStep
<1>3. QED
  BY LocksInvariant, <1>2, PTL DEF Spec, ReplacedUnderLock

-----------------------------------------------------------------------------
(* Pending rows, as long as no statement raises with the connection open.  *)

(* What is pending on the shared connection is its owner's, and nothing    *)
(* is pending on a closed one.                                             *)
RowsInv ==
    /\ inTx => owner # NoTask
    /\ \A r \in rows : r.by = owner
    /\ ~connected => ~inTx /\ rows = {}

(* With nobody owning the shared connection, nothing is pending on it.     *)
LEMMA NothingPending ==
    ASSUME TypeOK, RowsInv, owner = NoTask
    PROVE  inTx = FALSE /\ rows = {}
<1>1. inTx = FALSE
  BY DEF TypeOK, RowsInv
<1>2. ASSUME NEW r \in rows PROVE FALSE
  <2>1. r.by \in Task /\ r.by = owner
    BY DEF TypeOK, RowsInv, Row
  <2>2. QED
    BY <2>1, NoTaskAssumption
<1>3. QED
  BY <1>1, <1>2

(* A statement that takes the write lock finds nobody owning.              *)
LEMMA WriterFindsNobody ==
    ASSUME LocksInv, NEW t \in Task, phase[t] = "running", op[t] \in {"execute", "execute_and_commit"}
    PROVE  owner = t \/ owner = NoTask
<1>1. SUFFICES ASSUME owner # t, owner \in Task PROVE FALSE
  BY DEF LocksInv, TypeOK
<1>2. holder["write"] = t
  BY <1>1, LocksOfValues DEF LocksInv, TaskInv, RunningHoldsAll, TakesNoLock
<1>3. holder["write"] = owner
  BY <1>1 DEF LocksInv, TaskInv, OwnerHoldsWrite
<1>4. QED
  BY <1>1, <1>2, <1>3

LEMMA RowsStep ==
    ASSUME StatementsMayFail = FALSE, LocksInv, RowsInv, [Next]_vars
    PROVE  RowsInv'
<1>1. /\ TypeOK /\ inTx \in BOOLEAN /\ connected \in BOOLEAN
      /\ \A t \in Task : Whole(t).by = t
  BY DEF LocksInv, TypeOK, Whole
<1>2. ASSUME UNCHANGED <<connected, owner, inTx, rows>> PROVE RowsInv'
  BY <1>2 DEF RowsInv
<1>3. ASSUME inTx' = FALSE, rows' = {} PROVE RowsInv'
  BY <1>3 DEF RowsInv
<1>4. ASSUME NEW t \in Task, Execute(t) PROVE RowsInv'
  <2>1. phase[t] = "running" /\ op[t] = "execute" /\ connected = TRUE /\ connected' = connected
    BY <1>1, <1>4 DEF Execute, Running
  <2>2. PICK e \in Succeeded(t) :
           /\ inTx' = e[1] /\ rows' = e[2]
           /\ IF owner = t THEN owner' = owner ELSE IF e[1] THEN owner' = t ELSE owner' = owner
    BY <1>4 DEF Execute
  <2>3. /\ inTx' \in {inTx, TRUE} /\ rows' \in {rows, rows \cup {Whole(t)}}
        /\ rows' = rows \/ inTx' = TRUE
    <3>1. e = <<inTx, rows>> \/ e = <<TRUE, rows>> \/ e = <<TRUE, rows \cup {Whole(t)}>>
      BY DEF Succeeded
    <3>2. CASE e = <<inTx, rows>>
      BY <2>2, <3>2
    <3>3. CASE e = <<TRUE, rows>>
      BY <2>2, <3>3
    <3>4. CASE e = <<TRUE, rows \cup {Whole(t)}>>
      BY <2>2, <3>4
    <3>5. QED
      BY <3>1, <3>2, <3>3, <3>4
  <2>4. CASE owner = t
    <3>1. owner' = t /\ t # NoTask
      BY <2>2, <2>4, NoTaskAssumption
    <3>2. \A r \in rows' : r.by = t
      BY <1>1, <2>3, <2>4 DEF RowsInv
    <3>3. QED
      BY <2>1, <3>1, <3>2 DEF RowsInv
  <2>5. CASE owner # t
    <3>1. owner = NoTask
      BY <2>1, <2>5, WriterFindsNobody
    <3>2. inTx = FALSE /\ rows = {}
      BY <1>1, <3>1, NothingPending
    <3>3. CASE inTx' = TRUE
      <4>1. owner' = t /\ t # NoTask
        BY <2>2, <2>5, <3>3, NoTaskAssumption
      <4>2. \A r \in rows' : r.by = t
        BY <1>1, <2>3, <3>2
      <4>3. QED
        BY <2>1, <4>1, <4>2 DEF RowsInv
    <3>4. CASE inTx' # TRUE
      BY <1>3, <2>3, <3>2, <3>4
    <3>5. QED
      BY <3>3, <3>4
  <2>6. QED
    BY <2>4, <2>5
<1>5. ASSUME NEW t \in Task, ExecuteRaises(t) PROVE RowsInv'
  <2>1. /\ connected' = connected /\ owner' = owner
        /\ \E e \in Raised(t) : inTx' = e[1] /\ rows' = e[2]
    BY <1>5 DEF ExecuteRaises
  <2>2. inTx' = inTx /\ rows' = rows
    BY <2>1 DEF Raised
  <2>3. QED
    BY <1>2, <2>1, <2>2
<1>6. ASSUME NEW t \in Task, ExecuteAndCommitRaises(t) PROVE RowsInv'
  <2>1. \E e \in Raised(t) : inTx' = e[1] /\ rows' = e[2]
    BY <1>6 DEF ExecuteAndCommitRaises
  <2>2. connected = FALSE /\ inTx' = inTx /\ rows' = rows
    BY <1>1, <2>1 DEF Raised
  <2>3. QED
    BY <1>1, <1>3, <2>2 DEF RowsInv
<1>7. ASSUME NEW t \in Task, EndRestore(t) PROVE RowsInv'
  <2>1. phase[t] = "body" /\ op[t] = "exclusive_lifecycle" /\ UNCHANGED <<owner, inTx, rows>>
    BY <1>7 DEF EndRestore, InBody
  <2>2. ~connected
    BY <2>1 DEF LocksInv, TaskInv, BodyHolds, Private
  <2>3. QED
    BY <1>1, <1>3, <2>1, <2>2 DEF RowsInv
<1>8. ASSUME NEW t \in Task,
             \/ ReleaseSavepoint(t) \/ Commit(t) \/ Rollback(t) \/ ExecuteAndCommit(t)
             \/ Disconnect(t) \/ Connect(t) \/ BeginRestore(t)
      PROVE  RowsInv'
  <2>1. inTx' = FALSE /\ rows' = {}
    BY <1>8 DEF ReleaseSavepoint, Commit, Rollback, ExecuteAndCommit, EndShared, Disconnect,
       Connect, BeginRestore, Close
  <2>2. QED
    BY <1>3, <2>1
<1>9. ASSUME NEW t \in Task,
             \/ \E o \in Operation : Call(t, o)
             \/ \E l \in Lock : Acquire(t, l)
             \/ SpinEnds(t) \/ Fetch(t) \/ EnterPrivate(t) \/ BodyCommit(t) \/ BodyRollback(t) \/ Checkpoint(t)
             \/ BodyWrite(t) \/ IsolatedCommit(t)
      PROVE  RowsInv'
  <2>1. UNCHANGED <<connected, owner, inTx, rows>>
    BY <1>9 DEF Call, Acquire, SpinEnds, Fetch, EnterPrivate, BodyCommit, BodyRollback, Checkpoint,
       BodyWrite, IsolatedCommit
  <2>2. QED
    BY <1>2, <2>1
<1>10. CASE UNCHANGED vars
  BY <1>2, <1>10 DEF vars
<1>11. QED
  BY <1>4, <1>5, <1>6, <1>7, <1>8, <1>9, <1>10 DEF Next, Progress

LEMMA RowsInvariant == StatementsMayFail = FALSE => (Spec => [](LocksInv /\ RowsInv))
<1> SUFFICES ASSUME StatementsMayFail = FALSE PROVE Spec => [](LocksInv /\ RowsInv)
  OBVIOUS
<1>1. Init => RowsInv
  BY DEF Init, RowsInv
<1>2. LocksInv /\ RowsInv /\ [Next]_vars => RowsInv'
  BY RowsStep
<1>3. QED
  BY <1>1, <1>2, LocksInvariant, PTL DEF Spec

(* As long as no statement raises, whatever is pending on the shared       *)
(* connection was written by the task that owns it and holds the write     *)
(* lock: no other task's commit() or rollback() ends it                    *)
(* (obs/db/database.py, _legacy_write_owner).                              *)
THEOREM RowsAreOwned == StatementsMayFail = FALSE => (Spec => []PendingRowsAreOwned)
<1> SUFFICES ASSUME StatementsMayFail = FALSE PROVE Spec => []PendingRowsAreOwned
  OBVIOUS
<1>1. ASSUME LocksInv, RowsInv PROVE PendingRowsAreOwned
  <2>1. owner # NoTask => holder["write"] = owner
    BY <1>1 DEF LocksInv, TypeOK, TaskInv, OwnerHoldsWrite
  <2>2. QED
    BY <1>1, <2>1 DEF RowsInv, PendingRowsAreOwned
<1>2. QED
  BY <1>1, RowsInvariant, PTL

(* As long as no statement raises, the shared connection is in no          *)
(* transaction while a private one is open: its BEGIN IMMEDIATE meets no   *)
(* lock of SQLite (obs/db/database.py, _isolated_operation).               *)
THEOREM NeverCollides == StatementsMayFail = FALSE => (Spec => []NoCollision)
<1> SUFFICES ASSUME StatementsMayFail = FALSE PROVE Spec => []NoCollision
  OBVIOUS
<1>1. PrivateTransactionAlone /\ RowsInv => NoCollision
  BY DEF PrivateTransactionAlone, RowsInv, NoCollision
<1>2. QED
  BY <1>1, PrivateIsAlone, RowsInvariant, PTL
==============================================================================
