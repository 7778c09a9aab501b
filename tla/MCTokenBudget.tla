---------------------------- MODULE MCTokenBudget ----------------------------
(* Two concurrent calls for one work package, as after a takeover, and one  *)
(* Reviewer call of another; a launch that can afford its recovery.         *)
EXTENDS TokenBudget, TLC

MCTaskOf == ("c1" :> "t1") @@ ("c2" :> "t1") @@ ("c3" :> "t2")
MCRoleOf == ("c1" :> "DEVELOPER") @@ ("c2" :> "DEVELOPER") @@ ("c3" :> "REVIEWER")
MCUsages == {[prompt |-> 0, completion |-> 0], [prompt |-> 4, completion |-> 1]}
=============================================================================
