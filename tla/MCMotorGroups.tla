---------------------------- MODULE MCMotorGroups ----------------------------
(* Two groups: the body, which is confirmed at startup and given two more  *)
(* operations, and another, confirmed at startup and then only commanded   *)
(* and refused.                                                            *)
EXTENDS MotorGroups

MCMaxGeneration == [g \in Groups |-> IF g = Body THEN 3 ELSE 1]
=============================================================================
