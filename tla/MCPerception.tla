---------------------------- MODULE MCPerception ----------------------------
(* Two inference sessions, two sessions of the link, two results of each.   *)
EXTENDS Perception
=============================================================================
