---------------------------- MODULE MCBodyMotion ----------------------------
(* The body is confirmed at startup and given two more operations.         *)
EXTENDS BodyMotion

MCMaxGeneration == [g \in Groups |-> 3]
=============================================================================
