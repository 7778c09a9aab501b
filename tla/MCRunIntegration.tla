-------------------------- MODULE MCRunIntegration --------------------------
(* Instances of RunIntegration for TLC.                                    *)
EXTENDS RunIntegration, TLC

(* Controllers are interchangeable.                                        *)
Symmetry == Permutations(Controllers)

(* Two independent tasks and two that depend on the first of them.         *)
ForkDeps == [t \in 1..4 |-> IF t > 2 THEN {1} ELSE {}]

(* Each task conflicts with the next one unless it started from it: two    *)
(* repairs in one Run, and a third conflict on a path no repair may touch. *)
ChainClash == {{1, 2}, {2, 3}, {3, 4}}
LastClash  == {{3, 4}}

(* Tasks with a run_token.                                                 *)
NoTasks == {}
=============================================================================
