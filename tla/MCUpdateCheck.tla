---------------------------- MODULE MCUpdateCheck ----------------------------
(* Small instances of UpdateCheck for TLC.                                 *)
EXTENDS UpdateCheck, TLC

CONSTANTS c1, c2, timer, oldList, newList, stable, nightly, v1, v2

(* A nightly build that may be updated to a stable one.                    *)
MCDerived == v1 :> nightly @@ v2 :> stable

CallsEach == [t \in Task |-> 1]

Symmetry == Permutations({c1, c2}) \cup Permutations({oldList, newList})
=============================================================================
