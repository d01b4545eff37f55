-------------------------- MODULE MCGroundSession --------------------------
(* Two registered capabilities and one the groundstation never heard of;   *)
(* room for two waiting frames and a client that sends three; a session    *)
(* cancelled up to twice.                                                  *)
EXTENDS GroundSession

CONSTANTS face, gesture, other

MCCapabilities == {face, gesture, other}
MCFactories == <<face, gesture>>
MCOffers == {<<other, face>>, <<gesture, face>>}
=============================================================================
