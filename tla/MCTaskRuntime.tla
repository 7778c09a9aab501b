---------------------------- MODULE MCTaskRuntime ----------------------------
(* Two writable files and a protected one, one command per stage, two turns *)
(* per agent run, one repair re-attempt and a continuation slice.           *)
EXTENDS TaskRuntime
=============================================================================
