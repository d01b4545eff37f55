------------------------------- MODULE MCFeed -------------------------------
(* Two robots, three requests for two slots, and robots that come back.       *)
EXTENDS Feed
=============================================================================
