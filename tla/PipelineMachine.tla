-------------------------- MODULE PipelineMachine --------------------------
(***************************************************************************)
(* PipelineMachine (behaviour/pipeline.py): the voice pipeline's state as  *)
(* the robot's behaviour sees it, from the events the protocol emits       *)
(* (adapters/pipeline_events.py).  A muted robot honours only an unmuting  *)
(* and a lost connection, and comes back muted from the second.            *)
(***************************************************************************)

\* _NEXT_STATE: the state each event leads to.
States == {"idle", "listening", "processing", "responding", "error",
           "muted", "disconnected"}

Events == [wake_word_detected |-> "listening", listening |-> "listening",
           processing |-> "processing", responding |-> "responding",
           response_finished |-> "idle", error |-> "error", idle |-> "idle",
           muted |-> "muted", unmuted |-> "idle",
           disconnected |-> "disconnected"]

MachineInit == [state |-> "idle", underneath |-> FALSE]

Ignores(m, e) == m.state = "muted" /\ e \notin {"unmuted", "disconnected"}

\* A bug's form of Underneath: losing the connection forgets the mute.
MutantForgetsMute(m, e) == e # "unmuted" /\ m.underneath

Underneath(m, e) ==
  /\ e # "unmuted"
  /\ m.underneath \/ (m.state = "muted" /\ e = "disconnected")

handle(m, e) ==
  LET underneath == Underneath(m, e)
      back == m.state = "disconnected" /\ underneath /\ e # "disconnected"
  IN IF Ignores(m, e) THEN m
     ELSE [state |-> IF back THEN "muted" ELSE Events[e],
           underneath |-> underneath]

\* tick: an error is shown for a while.
tick(m) == [m EXCEPT !.state = "idle"]
=============================================================================
