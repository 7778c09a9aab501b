----------------------- MODULE MCDevelopmentSessions -----------------------
(* Instances of DevelopmentSessions for TLC. *)
EXTENDS DevelopmentSessions, TLC

CONSTANTS a, b, c1, c2, d

\* b needs a, and d needs b
ChainDeps == [t \in Tasks |-> CASE t = a -> {} [] t = b -> {a} [] t = d -> {b}]

Symmetry == Permutations(Clients)
=============================================================================
