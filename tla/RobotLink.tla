----------------------------- MODULE RobotLink -----------------------------
(***************************************************************************)
(* The satellite's half of the robot link: RemotePerception                *)
(* (adapters/groundstation.py) over SessionClient.                         *)
(*                                                                         *)
(* `session` is the robot-link task: it connects, iterates results(), and  *)
(* reconnects; `frames` is the task that submits frames for as long as a   *)
(* session is exchanged; `closer` is RemotePerception.aclose.  `holder` is *)
(* another task that holds the client and calls connect or aclose, which   *)
(* the package allows (session.py:549-578); the satellite has none, and    *)
(* MaxCalls = 0 describes it.  A groundstation answers any frame it        *)
(* received on the connection, in any order, as often as it likes.         *)
(***************************************************************************)
EXTENDS SessionClient

CONSTANT MaxCalls \* bound: calls of the other holder of the client

ASSUME RobotLinkAssumption == MaxCalls \in Nat

VARIABLES
  session, \* RemotePerception._session
  frames,  \* the robot-link-frames task
  closed,  \* RemotePerception._closed
  refused, \* _refused
  closer,  \* the progress of aclose
  holder,  \* the other holder of the client
  applied  \* _generation and _sequence, and the transport they came over

vars == <<status, got, transport, sequence, highest, reconnections,
          clientClosed, est, session, frames, closed, refused, closer,
          holder, applied>>

Sessions ==
  [pc : {"none", "hold", "connect", "delay", "results", "receive", "backoff",
         "reconnect", "leave", "done"},
   t : Transports \cup {None}, cancel : BOOLEAN, raising : BOOLEAN]
Submitters ==
  [pc : {"none", "sleep", "send", "sent", "done"},
   t : Transports \cup {None}, number : (0..MaxFrames) \cup {None},
   cancel : BOOLEAN]
Results ==
  [generation : Nat \cup {None}, number : (0..MaxFrames) \cup {None},
   t : Transports \cup {None}]

NoFrames == [pc |-> "none", t |-> None, number |-> None, cancel |-> FALSE]

Init ==
  /\ ClientInit
  /\ session = [pc |-> "none", t |-> None, cancel |-> FALSE,
                raising |-> FALSE]
  /\ frames = NoFrames
  /\ closed = FALSE /\ refused = FALSE /\ closer = "open"
  /\ holder = [pc |-> "idle", calls |-> 0]
  /\ applied = [generation |-> None, number |-> None, t |-> None]

Rest == UNCHANGED <<closed, closer, holder, applied>>
At(pc) == session.pc = pc /\ ~session.cancel
Goes(pc) == session' = [session EXCEPT !.pc = pc]

-----------------------------------------------------------------------------
(* The session task: start, _run and _hold_a_session.                      *)

start ==
  /\ session.pc = "none" /\ ~closed
  /\ Goes("hold")
  /\ UNCHANGED <<clientVars, frames, refused>> /\ Rest

\* _exchange begins: the frames task is created and results() looked at.
Exchange ==
  /\ session' = [session EXCEPT !.pc = "results", !.t = None]
  /\ frames' = [NoFrames EXCEPT !.pc = "sleep"]

\* The loop of _hold_a_session: it ends, or connects.
_hold_a_session ==
  /\ At("hold")
  /\ \/ /\ closed \/ refused
        /\ Goes("done") /\ UNCHANGED <<clientVars, frames>>
     \/ /\ ~closed /\ ~refused
        /\ \/ ConnectFindsSession /\ Exchange
           \/ connect("session") /\ Goes("connect") /\ UNCHANGED frames
  /\ UNCHANGED refused /\ Rest

\* connect answers: a session, a failure to be retried after a delay, or a
\* refusal.
Connected ==
  /\ At("connect") /\ _establish("session", 0) /\ Exchange
  /\ UNCHANGED refused /\ Rest
ConnectFails ==
  /\ At("connect") /\ EstablishFails("session")
  /\ Goes("delay")
  /\ UNCHANGED <<frames, refused>> /\ Rest
ConnectRefused ==
  /\ At("connect") /\ est.t # None /\ EstablishFails("session")
  /\ refused' = TRUE /\ Goes("done")
  /\ UNCHANGED frames /\ Rest
Delayed ==
  /\ At("delay") /\ Goes("hold")
  /\ UNCHANGED <<clientVars, frames, refused>> /\ Rest

-----------------------------------------------------------------------------
(* The session task in _exchange: results() and what it yields.            *)

\* The loop of results: the client is closed, or has no session, or its
\* transport is read.
results ==
  /\ At("results")
  /\ \/ clientClosed /\ Goes("leave") /\ UNCHANGED refused
     \/ /\ ~clientClosed /\ transport = None
        /\ Goes("leave") /\ refused' = TRUE
     \/ /\ ~clientClosed /\ transport # None
        /\ session' = [session EXCEPT !.pc = "receive", !.t = transport]
        /\ UNCHANGED refused
  /\ UNCHANGED <<clientVars, frames>> /\ Rest

\* A result arrives: SessionClient applies it and RemotePerception keeps it
\* with the reconnections counted so far, or it is superseded.  A session
\* the client has let go of meanwhile has no agreement to apply it under.
\* What a lost connection delivered before is read first.
_interpret ==
  /\ At("receive")
  /\ \E i \in DOMAIN got[session.t] :
       LET number == got[session.t][i] IN
       \/ /\ transport # None /\ _apply(number)
          /\ applied' = [generation |-> reconnections, number |-> number,
                         t |-> session.t]
       \/ /\ transport = None \/ Superseded(number)
          /\ UNCHANGED <<clientVars, applied>>
  /\ session' = [session EXCEPT !.pc = "results", !.t = None]
  /\ UNCHANGED <<frames, refused, closed, closer, holder>>

\* A message the protocol does not describe, or a refusal: not retried.
LinkFails ==
  /\ At("receive")
  /\ refused' = TRUE /\ Goes("leave")
  /\ UNCHANGED <<clientVars, frames>> /\ Rest

\* A drop is retried without letting go of the connection that dropped.
MutantKeepsDropped ==
  /\ At("receive") /\ est = Unlocked /\ UNCHANGED clientVars
  /\ session' = [session EXCEPT
       !.t = None, !.pc = IF clientClosed THEN "results" ELSE "backoff"]
  /\ UNCHANGED <<frames, refused>> /\ Rest

\* The transport is gone, or going away: _reconnect discards the session.
_reconnect ==
  /\ At("receive") /\ _discard
  /\ session' = [session EXCEPT
       !.t = None, !.pc = IF clientClosed THEN "results" ELSE "backoff"]
  /\ UNCHANGED <<frames, refused>> /\ Rest

\* A delay of _reconnect has passed.
Retries ==
  /\ At("backoff")
  /\ \/ ReconnectYields /\ Goes("results")
     \/ ReconnectTries("session") /\ Goes("reconnect")
  /\ UNCHANGED <<frames, refused>> /\ Rest

Reconnected ==
  /\ At("reconnect") /\ _establish("session", 1) /\ Goes("results")
  /\ UNCHANGED <<frames, refused>> /\ Rest
ReconnectFails ==
  /\ At("reconnect") /\ EstablishFails("session") /\ Goes("backoff")
  /\ UNCHANGED <<frames, refused>> /\ Rest
ReconnectRefused ==
  /\ At("reconnect") /\ est.t # None /\ EstablishFails("session")
  /\ refused' = TRUE /\ Goes("leave")
  /\ UNCHANGED frames /\ Rest

\* The `finally` of _exchange: the frames task is cancelled, then awaited.
CancelsFrames ==
  /\ session.pc = "leave" /\ ~frames.cancel /\ frames.pc # "done"
  /\ frames' = [frames EXCEPT !.cancel = TRUE]
  /\ UNCHANGED <<clientVars, session, refused>> /\ Rest
_exchange ==
  /\ session.pc = "leave" /\ frames.pc = "done"
  /\ session' = [session EXCEPT !.cancel = FALSE,
       !.pc = IF session.raising THEN "done" ELSE "hold"]
  /\ UNCHANGED <<clientVars, frames, refused>> /\ Rest

\* CancelledError at an await.  While the frames task is awaited it is
\* swallowed; elsewhere in _exchange it leaves through the `finally`.
SessionCancelled ==
  /\ session.cancel
  /\ \/ /\ session.pc \in {"hold", "delay"}
        /\ session' = [session EXCEPT !.pc = "done", !.cancel = FALSE]
        /\ UNCHANGED clientVars
     \/ /\ session.pc = "connect" /\ EstablishFails("session")
        /\ session' = [session EXCEPT !.pc = "done", !.cancel = FALSE]
     \/ /\ session.pc = "reconnect" /\ EstablishFails("session")
        /\ session' = [session EXCEPT !.pc = "leave", !.cancel = FALSE,
                                      !.raising = TRUE]
     \/ /\ session.pc \in {"results", "receive", "backoff"}
        /\ session' = [session EXCEPT !.pc = "leave", !.cancel = FALSE,
                                      !.raising = TRUE, !.t = None]
        /\ UNCHANGED clientVars
  /\ UNCHANGED <<frames, refused>> /\ Rest

-----------------------------------------------------------------------------
(* The frames task.                                                        *)

\* _submit_frames and _submit_one: a frame is taken from the camera and, if
\* a session is held, put on it.
_submit_one ==
  /\ frames.pc = "sleep" /\ ~frames.cancel
  /\ transport # None /\ Len(got[transport]) < MaxFrames
  /\ frames' = [frames EXCEPT !.pc = "send", !.t = transport,
                              !.number = sequence]
  /\ UNCHANGED <<clientVars, session, refused>> /\ Rest

\* submit_frame: the write, and the task's resumption after it, by when the
\* session may be another; or the write fails.
Written ==
  /\ frames.pc = "send" /\ SendsFrame(frames.t, frames.number)
  /\ frames' = [frames EXCEPT !.pc = "sent"]
  /\ UNCHANGED <<session, refused>> /\ Rest

_submit_frames ==
  /\ ~frames.cancel
  /\ \/ frames.pc = "sent" /\ submit_frame(frames.t)
     \/ /\ frames.pc = "send" /\ status[frames.t] # "open"
        /\ UNCHANGED clientVars
  /\ frames' = [NoFrames EXCEPT !.pc = "sleep"]
  /\ UNCHANGED <<session, refused>> /\ Rest

FramesCancelled ==
  /\ frames.cancel /\ frames.pc # "done"
  /\ frames' = [NoFrames EXCEPT !.pc = "done"]
  /\ UNCHANGED <<clientVars, session, refused>> /\ Rest

-----------------------------------------------------------------------------
(* RemotePerception.aclose, and the other holder of the client.            *)

aclose ==
  /\ closer = "open"
  /\ closed' = TRUE
  /\ closer' = "awaits"
  /\ session' = [session EXCEPT !.cancel = session.pc \notin {"none", "done"}]
  /\ UNCHANGED <<clientVars, frames, refused, holder, applied>>

AcloseClient ==
  /\ closer = "awaits" /\ session.pc \in {"none", "done"}
  /\ SetClosed /\ closer' = "locks"
  /\ UNCHANGED <<session, frames, refused, closed, holder, applied>>

AcloseEnds ==
  /\ closer = "locks" /\ _discard /\ closer' = "closed"
  /\ UNCHANGED <<session, frames, refused, closed, holder, applied>>

HolderRest == UNCHANGED <<session, frames, refused, closed, closer, applied>>

HolderCalls ==
  /\ holder.pc = "idle" /\ holder.calls < MaxCalls
  /\ \/ /\ connect("holder")
        /\ holder' = [pc |-> "connect", calls |-> holder.calls + 1]
     \/ /\ SetClosed
        /\ holder' = [pc |-> "locks", calls |-> holder.calls + 1]
  /\ HolderRest

HolderEnds ==
  /\ \/ holder.pc = "connect" /\ _establish("holder", 0)
     \/ holder.pc = "connect" /\ EstablishFails("holder")
     \/ holder.pc = "locks" /\ _discard
  /\ holder' = [holder EXCEPT !.pc = "idle"]
  /\ HolderRest

-----------------------------------------------------------------------------
Others == <<session, frames, closed, refused, closer, holder, applied>>
ClientSteps == (Opens \/ Drops) /\ UNCHANGED Others
Session ==
  \/ _hold_a_session \/ Connected \/ ConnectFails \/ ConnectRefused
  \/ Delayed \/ results \/ _interpret \/ LinkFails \/ _reconnect \/ Retries
  \/ Reconnected \/ ReconnectFails \/ ReconnectRefused \/ CancelsFrames
  \/ _exchange \/ SessionCancelled
Frames == _submit_one \/ Written \/ _submit_frames \/ FramesCancelled
Closing == aclose \/ AcloseClient \/ AcloseEnds

Next == start \/ Session \/ Frames \/ Closing \/ HolderCalls \/ HolderEnds
          \/ ClientSteps

Spec == Init /\ [][Next]_vars

-----------------------------------------------------------------------------
(* Every task the loop can run is run.  Opening, negotiating and sending    *)
(* are bounded by the time-outs of the WebSocket library, so an attempt     *)
(* ends; a connection that is gone has only so many results left to read;   *)
(* and a groundstation that is there again and again is reached.            *)
Fairness ==
  /\ WF_vars(_hold_a_session) /\ WF_vars(Delayed) /\ WF_vars(results)
  /\ WF_vars(Retries) /\ WF_vars(CancelsFrames) /\ WF_vars(_exchange)
  /\ WF_vars(SessionCancelled) /\ WF_vars(HolderEnds)
  /\ WF_vars(Written) /\ WF_vars(_submit_frames)
  /\ WF_vars(FramesCancelled)
  /\ WF_vars(AcloseClient) /\ WF_vars(AcloseEnds)
  /\ WF_vars(ConnectFails \/ Connected)
  /\ WF_vars(ReconnectFails \/ Reconnected)
  /\ SF_vars(Opens /\ UNCHANGED Others)
  /\ SF_vars(session.t # None /\ status[session.t] # "open" /\ _reconnect)
  /\ SF_vars(Connected) /\ SF_vars(Reconnected)

FairSpec == Spec /\ Fairness

-----------------------------------------------------------------------------
(* Correctness.                                                            *)

\* The type of the link's state: the client's and the two tasks'.
TypeOK ==
  /\ ClientTypeOK
  /\ session \in Sessions /\ frames \in Submitters
  /\ closed \in BOOLEAN /\ refused \in BOOLEAN
  /\ closer \in {"open", "awaits", "locks", "closed"}
  /\ holder \in [pc : {"idle", "connect", "locks"}, calls : 0..MaxCalls]
  /\ applied \in Results

\* A connection that is open is the client's session or the one being
\* established, and never is there one of each: whoever connects, closes,
\* drops or is cancelled, and in whatever order, none is leaked and none
\* replaced (session.py:553-583, 598-620).
OneTransport ==
  \A t \in Transports :
    Live(t) => /\ t \in {transport, est.t}
               /\ transport = None \/ est.t = None

\* A groundstation sees every session's frames numbered from zero with no gap,
\* also when the connection was replaced while a frame was being written to the
\* one before (session.py:426-443).  A number may come twice: a submitter
\* cancelled in its write has sent it and not spent it.  The property allows the
\* repetition wherever it comes.
SequencesPerSession ==
  \A t \in Transports : \A i \in DOMAIN got[t] :
    IF i = 1 THEN got[t][i] = 0
             ELSE got[t][i] \in {got[t][i - 1], got[t][i - 1] + 1}

\* What the satellite shows never goes back: a later result has a greater
\* generation, or the same and a number no smaller, and a new session has a
\* greater generation (session.py:813, groundstation.py:382).  It holds of the
\* satellite, the client's only holder.
AppliedInOrder ==
  [][holder.calls = 0 /\ applied.generation # None /\ applied' # applied
       => \/ applied.generation < applied'.generation
          \/ /\ applied.generation = applied'.generation
             /\ applied.t = applied'.t
             /\ applied.number <= applied'.number]_vars

\* aclose ends: both tasks are over, and no connection of the client is left,
\* wherever the cancellation found the session task (groundstation.py:220-233).
CloseEnds ==
  closed ~>
    /\ closer = "closed"
    /\ session.pc \in {"none", "done"} /\ frames.pc \in {"none", "done"}
    /\ holder.calls = 0 => \A t \in Transports : ~Live(t)

\* A link that dropped comes back, unless the groundstation refuses it or the
\* satellite closes; the model's supply of connections may run out first.
LinkComesBack ==
  session.pc = "receive" /\ status[session.t] = "dropped" ~>
    \/ session.pc = "receive" /\ status[session.t] = "open"
    \/ closed \/ refused
    \/ \A t \in Transports : status[t] # "unused"
=============================================================================
