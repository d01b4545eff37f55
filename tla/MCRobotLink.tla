---------------------------- MODULE MCRobotLink ----------------------------
(* A session and two replacements, two frames on each, and one call of     *)
(* another holder of the client.                                            *)
EXTENDS RobotLink
=============================================================================
