---------------------------- MODULE MCEventStream ----------------------------
(* One task in two generations, one page, one metrics or trace call.       *)
EXTENDS EventStream
=============================================================================
