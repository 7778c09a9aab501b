--------------------------- MODULE MCRunAdmission ---------------------------
(* Every work package plan of up to three packages, two of them HIGH, is    *)
(* proposed.  The budget carries one plan of each shape: alone, side by     *)
(* side, chain, fork, join, one edge, and all edges; producers have the     *)
(* larger ids in some and the smaller ones in others.                       *)
EXTENDS RunAdmission

CONSTANTS k1, k2

TwoHigh == [t \in 1..3 |-> IF t = 3 THEN "LOW" ELSE "HIGH"]

OneOfEachShape(p) ==
  LET S == DOMAIN p
      edges == {<<t, u>> \in S \X S : u \in p[t]} IN
  \/ S = {1}
  \/ S = {1, 3} /\ edges \in {{}, {<<1, 3>>}}
  \/ /\ S = {1, 2, 3}
     /\ edges \in {{<<2, 1>>}, {<<1, 2>>, <<3, 1>>}, {<<1, 3>>, <<2, 3>>},
                   {<<3, 1>>, <<3, 2>>}, {<<1, 2>>, <<3, 1>>, <<3, 2>>}}
=============================================================================
