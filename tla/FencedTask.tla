----------------------------- MODULE FencedTask -----------------------------
(***************************************************************************)
(* What run-token fencing promises for one persisted task, independently   *)
(* of queues, workers and reconcilers: a sequence of exclusive execution   *)
(* generations.  Durable facts of the task change only while the current   *)
(* generation is ACTIVE and the Run is still RUNNING; an EXPIRED           *)
(* generation is replaced, never revived; a RELEASED one is history.       *)
(***************************************************************************)
EXTENDS Naturals

VARIABLES
  generation,   \* number of the current execution generation, 0 before any
  state,        \* TaskLeaseState of that generation
  durable,      \* everything fenced writes may change (uninterpreted)
  closed        \* the Run has a terminal result

fvars == <<generation, state, durable, closed>>

FInit ==
  /\ generation = 0
  /\ state = "UNOWNED"
  /\ closed = FALSE

(* A new generation starts from nothing or from an expired one.            *)
FGrant ==
  /\ state \in {"UNOWNED", "EXPIRED"}
  /\ ~closed
  /\ generation' = generation + 1
  /\ state' = "ACTIVE"
  /\ UNCHANGED <<durable, closed>>

FExpire ==
  /\ state = "ACTIVE"
  /\ state' = "EXPIRED"
  /\ UNCHANGED <<generation, durable, closed>>

FRelease ==
  /\ state = "ACTIVE"
  /\ state' = "RELEASED"
  /\ UNCHANGED <<generation, durable, closed>>

(* The only step that changes durable task facts.                          *)
FWrite ==
  /\ state = "ACTIVE"
  /\ ~closed
  /\ UNCHANGED <<generation, state, closed>>

(* The Run becomes terminal; no durable task fact changes with it.         *)
FClose ==
  /\ ~closed
  /\ closed' = TRUE
  /\ UNCHANGED <<generation, state, durable>>

FNext == FGrant \/ FExpire \/ FRelease \/ FWrite \/ FClose

FSpec == FInit /\ [][FNext]_fvars
=============================================================================
