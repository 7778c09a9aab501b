--------------------------- MODULE MCPublication ---------------------------
(* Publication of a Run of one or two tasks by two requests at a time. *)
EXTENDS Publication

CONSTANTS c1, c2, t1, t2
=============================================================================
