-------------------------- MODULE MCDatabaseLocks --------------------------
(* Instances of DatabaseLocks for TLC.                                     *)
EXTENDS DatabaseLocks, TLC

(* Tasks that may do the same number of calls are interchangeable.         *)
Symmetry == Permutations(Task)
CallsEach == [t \in Task |-> 2]

(* One task comes back for a second call.                                  *)
Busy == CHOOSE t \in Task : TRUE
CallsOnce == [t \in Task |-> IF t = Busy THEN 2 ELSE 1]
=============================================================================
