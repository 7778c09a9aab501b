-------------------------- MODULE MCTaskExecution --------------------------
(* Instances of TaskExecution for TLC.                                     *)
EXTENDS TaskExecution, TLC

(* Workers are interchangeable, and so are reconcilers.                    *)
Symmetry == Permutations(Workers) \cup Permutations(Reconcilers)
=============================================================================
