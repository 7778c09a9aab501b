------------------------ MODULE MCProjectLifecycle -------------------------
(* Two requests at a time, three in all; a deleted project can be registered again. *)
EXTENDS ProjectLifecycle

CONSTANTS a, b
=============================================================================
