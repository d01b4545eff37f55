-------------------------- MODULE MCVoiceAssistant --------------------------
(* The two outputs, two plays with a callback, and a connection that is    *)
(* lost and comes back.                                                    *)
EXTENDS VoiceAssistant

Outputs == {"speech", "music"}
=============================================================================
