--------------------------- MODULE RobotLinkProofs ---------------------------
(***************************************************************************)
(* The safety of RobotLink for any number of connections, of frames on     *)
(* each and of calls of another holder of the client: never two            *)
(* connections, gapless sequences, results that never go back.             *)
(***************************************************************************)
EXTENDS RobotLink, TLAPS

USE RobotLinkAssumption, SessionClientAssumption

\* The connections, by who may still refer to them.  A session is established
\* only by the holder of the lock, who found none.
Connections ==
  /\ status \in [Transports -> {"unused", "open", "dropped", "closed"}]
  /\ transport \in Transports \cup {None}
  /\ est \in [by : {None, "session", "holder"}, t : Transports \cup {None}]
  /\ clientClosed \in BOOLEAN
  /\ est.by = None => est.t = None
  /\ est.by # None => transport = None
  /\ est.t # None => status[est.t] # "unused"
  /\ transport # None => status[transport] # "unused"

\* Connections are opened in order, and a reconnection is counted for a
\* connection of its own.
InOrder ==
  /\ reconnections \in 0..MaxTransports
  /\ \A t, u \in Transports :
       t < u /\ status[t] = "unused" => status[u] = "unused"
  /\ est.t # None => reconnections < est.t
  /\ reconnections # 0 => status[reconnections] # "unused"

\* What the operations of the client do, but for sending frames.
Upkeep ==
  \/ UNCHANGED clientVars
  \/ Opens \/ Drops \/ SetClosed \/ _discard
  \/ \E by \in {"session", "holder"} :
       \/ connect(by) \/ EstablishFails(by) \/ ReconnectTries(by)
       \/ _establish(by, 0) \/ _establish(by, 1)
  \/ \E number \in 0..MaxFrames : _apply(number)

\* A step that leaves the frame being sent alone, or gives it up.
FrameKept ==
  \/ frames'.pc = frames.pc /\ frames'.t = frames.t
       /\ frames'.number = frames.number
  \/ frames'.pc \notin {"send", "sent"} /\ frames'.t = None

\* The tasks' half of TypeOK.
Tasks ==
  /\ session \in Sessions /\ frames \in Submitters
  /\ closed \in BOOLEAN /\ refused \in BOOLEAN
  /\ closer \in {"open", "awaits", "locks", "closed"}
  /\ holder \in [pc : {"idle", "connect", "locks"}, calls : 0..MaxCalls]
  /\ applied \in Results
  /\ session.pc = "receive" => session.t # None

\* What the peer received on each connection.
Received ==
  /\ got \in [Transports -> Seq(0..MaxFrames)]
  /\ sequence \in 0..MaxFrames
  /\ highest \in (0..MaxFrames) \cup {None}
  /\ \A t \in Transports :
       /\ Len(got[t]) <= MaxFrames
       /\ \A i \in DOMAIN got[t] : got[t][i] < i
       /\ status[t] = "unused" => got[t] = <<>>

\* The numbers that may come next on a connection.
Follows(t) ==
  IF got[t] = <<>> THEN {0}
                   ELSE {got[t][Len(got[t])], got[t][Len(got[t])] + 1}

\* The client's next number, and the one a frame is being sent with, follow
\* what the connection they are for received; a connection that is being
\* established has received nothing, nor is a frame on its way there.
Numbering ==
  /\ est.t # None => got[est.t] = <<>> /\ frames.t # est.t
  /\ transport # None => sequence \in Follows(transport)
  /\ frames.t # None => status[frames.t] # "unused"
  /\ frames.pc \notin {"send", "sent"} => frames.t = None
  /\ frames.pc = "send" =>
       /\ frames.t # None
       /\ frames.number \in Follows(frames.t)
       /\ Len(got[frames.t]) < MaxFrames
       /\ frames.t = transport => frames.number = sequence
  /\ frames.pc = "sent" =>
       /\ frames.t # None /\ got[frames.t] # <<>>
       /\ frames.t = transport => sequence = got[frames.t][Len(got[frames.t])]

\* While no other holder calls, only the session task moves the session, and
\* it does not read a connection the client has replaced.
Reading ==
  /\ closer # "open" => closed
  /\ holder.calls = 0 =>
       /\ holder.pc = "idle"
       /\ clientClosed => closed
       /\ session.pc = "leave" /\ session.raising = FALSE => closed \/ refused
       /\ session.pc = "receive" /\ transport # None => session.t = transport

\* What the satellite shows was applied in this session or in an earlier one,
\* and in none while it connects for the first time.
Shown ==
  /\ applied.generation # None =>
       applied.generation <= reconnections /\ applied.number # None
  /\ holder.calls = 0 =>
       /\ session.pc \in {"none", "connect", "delay"}
            => applied.generation = None
       /\ session.pc = "hold" /\ ~closed /\ ~refused
            => applied.generation = None
       /\ applied.generation # None /\ transport # None
            /\ applied.generation = reconnections
            => applied.t = transport /\ highest = applied.number

IInv ==
  /\ Connections /\ OneTransport /\ InOrder
  /\ Tasks /\ Received /\ Numbering /\ SequencesPerSession
  /\ Reading /\ Shown

-----------------------------------------------------------------------------
\* Every step sends a frame, or is an operation of the client and keeps the
\* frame being sent or gives it up.
LEMMA StepIsOperation ==
  ASSUME Next, Tasks, Received
  PROVE  _submit_one \/ Written \/ _submit_frames \/ (Upkeep /\ FrameKept)
<1>1. CASE start \/ Delayed \/ results \/ LinkFails \/ _exchange \/ aclose
  BY <1>1
  DEF start, Delayed, results, LinkFails, _exchange, aclose, Upkeep, FrameKept
<1>2. ASSUME Exchange PROVE FrameKept
  BY <1>2 DEF Exchange, NoFrames, FrameKept
<1>3. CASE _hold_a_session
  BY <1>2, <1>3 DEF _hold_a_session, ConnectFindsSession, Upkeep, FrameKept
<1>4. CASE Connected
  BY <1>2, <1>4 DEF Connected, Upkeep
<1>5. CASE ConnectFails \/ ConnectRefused \/ ReconnectFails \/ ReconnectRefused
  BY <1>5 DEF ConnectFails, ConnectRefused, ReconnectFails, ReconnectRefused,
     Upkeep, FrameKept
<1>6. CASE _reconnect \/ Reconnected \/ AcloseClient \/ AcloseEnds
  BY <1>6 DEF _reconnect, Reconnected, AcloseClient, AcloseEnds, Upkeep,
     FrameKept
<1>7. CASE _interpret
  <2>1. session.t \in Transports
    BY <1>7 DEF _interpret, At, Tasks, Sessions
  <2>2. \A i \in DOMAIN got[session.t] : got[session.t][i] \in 0..MaxFrames
    BY <2>1 DEF Received
  <2>3. \/ UNCHANGED clientVars
        \/ \E i \in DOMAIN got[session.t] : _apply(got[session.t][i])
    BY <1>7 DEF _interpret
  <2>4. UNCHANGED frames
    BY <1>7 DEF _interpret
  <2>5. QED
    BY <2>2, <2>3, <2>4 DEF Upkeep, FrameKept
<1>8. CASE Retries
  BY <1>8 DEF Retries, ReconnectYields, Upkeep, FrameKept
<1>9. CASE CancelsFrames
  <2>1. frames' = [frames EXCEPT !.cancel = TRUE] /\ frames \in Submitters
    BY <1>9 DEF CancelsFrames, Tasks
  <2>2. FrameKept
    BY <2>1 DEF Submitters, FrameKept
  <2>3. QED
    BY <1>9, <2>2 DEF CancelsFrames, Upkeep
<1>10. CASE SessionCancelled
  BY <1>10 DEF SessionCancelled, Upkeep, FrameKept
<1>11. CASE FramesCancelled
  BY <1>11 DEF FramesCancelled, NoFrames, Upkeep, FrameKept
<1>12. CASE HolderCalls \/ HolderEnds
  BY <1>12 DEF HolderCalls, HolderEnds, HolderRest, Upkeep, FrameKept
<1>13. CASE ClientSteps
  BY <1>13 DEF ClientSteps, Others, Upkeep, FrameKept
<1>14. QED
  BY <1>1, <1>3, <1>4, <1>5, <1>6, <1>7, <1>8, <1>9, <1>10, <1>11, <1>12,
     <1>13 DEF Next, Session, Frames, Closing

\* What sending a frame does to the client.
LEMMA SendingKeeps ==
  ASSUME _submit_one \/ Written \/ _submit_frames
  PROVE  UNCHANGED <<status, transport, est, reconnections, clientClosed>>
BY DEF _submit_one, Written, SendsFrame, _submit_frames, submit_frame,
   clientVars

-----------------------------------------------------------------------------
\* No operation of the client leaks a connection or keeps two.
LEMMA ConnectionsStep ==
  ASSUME Connections, OneTransport, Upkeep
  PROVE  Connections' /\ OneTransport'
<1>1. CASE Opens
  <2>1. PICK t \in Transports :
          /\ status[t] = "unused"
          /\ status' = [status EXCEPT ![t] = "open"]
          /\ est' = [est EXCEPT !.t = t]
    BY <1>1 DEF Opens
  <2>2. transport = None /\ est.by # None /\ est.t = None /\ transport' = None
    BY <1>1 DEF Opens, Connections
  <2>3. \A u \in Transports : ~Live(u)
    BY <2>2 DEF OneTransport, Transports
  <2>4. est'.by = est.by /\ est'.t = t /\ clientClosed' = clientClosed
    BY <1>1, <2>1 DEF Connections, Opens
  <2>5. Connections'
    BY <2>1, <2>2, <2>4 DEF Connections
  <2>6. OneTransport'
    BY <2>1, <2>2, <2>3, <2>4 DEF OneTransport, Live, Connections
  <2>7. QED
    BY <2>5, <2>6
<1>2. CASE Drops
  <2>1. PICK t \in Transports :
          /\ status[t] = "open" /\ status' = [status EXCEPT ![t] = "dropped"]
    BY <1>2 DEF Drops
  <2>2. UNCHANGED <<transport, est, clientClosed>>
    BY <1>2 DEF Drops
  <2>3. QED
    BY <2>1, <2>2 DEF Connections, OneTransport, Live
<1>3. CASE _discard
  <2>1. /\ transport' = None /\ est' = est /\ est = Unlocked
        /\ clientClosed' = clientClosed
    BY <1>3 DEF _discard
  <2>2. est.t = None /\ est.by = None
    BY <2>1 DEF Unlocked
  <2>3. status' = IF transport = None THEN status
                  ELSE [status EXCEPT ![transport] = "closed"]
    BY <1>3 DEF _discard, ClosedNow
  <2>4. Connections'
    BY <2>1, <2>2, <2>3 DEF Connections
  <2>5. OneTransport'
    BY <2>1, <2>2, <2>3 DEF Connections, OneTransport, Live
  <2>6. QED
    BY <2>4, <2>5
<1>4. ASSUME NEW by \in {"session", "holder"}, connect(by) \/ ReconnectTries(by)
      PROVE  Connections' /\ OneTransport'
  <2>1. /\ transport = None /\ est = Unlocked /\ est' = [by |-> by, t |-> None]
        /\ clientClosed' \in BOOLEAN
        /\ UNCHANGED <<status, transport>>
    BY <1>4 DEF connect, ReconnectTries, Connections
  <2>2. QED
    BY <2>1 DEF Connections, OneTransport, Unlocked, Live
<1>5. ASSUME NEW by \in {"session", "holder"}, EstablishFails(by)
      PROVE  Connections' /\ OneTransport'
  <2>1. /\ transport = None /\ transport' = None /\ est' = Unlocked
        /\ clientClosed' = clientClosed
    BY <1>5 DEF EstablishFails, Connections
  <2>2. status' = IF est.t = None THEN status
                  ELSE [status EXCEPT ![est.t] = "closed"]
    BY <1>5 DEF EstablishFails, ClosedNow
  <2>3. est'.by = None /\ est'.t = None
    BY <2>1 DEF Unlocked
  <2>4. Connections'
    BY <2>1, <2>2, <2>3 DEF Connections, Unlocked
  <2>5. OneTransport'
    BY <2>1, <2>2, <2>3 DEF Connections, OneTransport, Live
  <2>6. QED
    BY <2>4, <2>5
<1>6. ASSUME NEW by \in {"session", "holder"},
             _establish(by, 0) \/ _establish(by, 1)
      PROVE  Connections' /\ OneTransport'
  <2>1. /\ est.t # None /\ transport' = est.t /\ est' = Unlocked
        /\ UNCHANGED <<status, clientClosed>>
    BY <1>6 DEF _establish
  <2>2. est'.by = None /\ est'.t = None
    BY <2>1 DEF Unlocked
  <2>3. QED
    BY <2>1, <2>2 DEF Connections, OneTransport, Unlocked, Live
<1>7. CASE UNCHANGED <<status, transport, est>> /\ clientClosed' \in BOOLEAN
  BY <1>7 DEF Connections, OneTransport, Live
<1>8. SetClosed \/ UNCHANGED clientVars
        => UNCHANGED <<status, transport, est>> /\ clientClosed' \in BOOLEAN
  BY DEF SetClosed, clientVars, Connections
<1>9. \A number : _apply(number)
        => UNCHANGED <<status, transport, est>> /\ clientClosed' \in BOOLEAN
  BY DEF _apply, Connections
<1>10. QED
  BY <1>1, <1>2, <1>3, <1>4, <1>5, <1>6, <1>7, <1>8, <1>9 DEF Upkeep

\* Connections are used in order and counted at most once each.
LEMMA InOrderStep ==
  ASSUME Connections, InOrder, Upkeep
  PROVE  InOrder'
<1>1. CASE Opens
  <2>1. PICK t \in Transports :
          /\ status[t] = "unused" /\ \A u \in 1..(t - 1) : status[u] # "unused"
          /\ status' = [status EXCEPT ![t] = "open"]
          /\ est' = [est EXCEPT !.t = t]
    BY <1>1 DEF Opens
  <2>2. est'.t = t /\ reconnections' = reconnections
    BY <1>1, <2>1 DEF Connections, Opens
  <2>3. t \in 1..MaxTransports /\ status'[t] = "open"
    BY <2>1 DEF Connections, Transports
  <2>4. \A u \in Transports : u # t => status'[u] = status[u]
    BY <2>1 DEF Connections
  <2>5. reconnections # 0 => reconnections \in Transports
    BY DEF InOrder, Transports
  <2>6. reconnections < t
    BY <2>1, <2>3, <2>5 DEF InOrder, Transports
  <2>7. reconnections # 0 => status'[reconnections] # "unused"
    BY <2>4, <2>5, <2>6 DEF InOrder
  <2>8. ASSUME NEW u \in Transports, NEW v \in Transports, u < v,
               status'[u] = "unused"
        PROVE  status'[v] = "unused"
    <3>1. u # t /\ status[u] = "unused"
      BY <2>3, <2>4, <2>8
    <3>2. status[v] = "unused"
      BY <2>8, <3>1 DEF InOrder
    <3>3. u > t
      BY <2>1, <2>3, <3>1 DEF Transports
    <3>4. v # t
      BY <2>3, <2>8, <3>3 DEF Transports
    <3>5. QED
      BY <2>4, <3>2, <3>4
  <2>9. QED
    BY <2>2, <2>6, <2>7, <2>8 DEF InOrder
<1>2. CASE Drops
  <2>1. PICK t \in Transports :
          /\ status[t] = "open" /\ status' = [status EXCEPT ![t] = "dropped"]
    BY <1>2 DEF Drops
  <2>2. \A u \in Transports : status'[u] = "unused" <=> status[u] = "unused"
    BY <2>1 DEF Connections
  <2>3. UNCHANGED <<est, reconnections>>
    BY <1>2 DEF Drops
  <2>4. QED
    BY <2>2, <2>3 DEF InOrder, Transports
<1>3. ASSUME _discard \/ \E by \in {"session", "holder"} : EstablishFails(by)
      PROVE  InOrder'
  <2>1. /\ est'.t = None /\ reconnections' = reconnections
        /\ \E t \in Transports \cup {None} :
             /\ t # None => status[t] # "unused"
             /\ status' = ClosedNow(t)
    BY <1>3 DEF _discard, EstablishFails, Unlocked, Connections
  <2>2. \A u \in Transports : status'[u] = "unused" <=> status[u] = "unused"
    BY <2>1 DEF Connections, ClosedNow
  <2>3. QED
    BY <2>1, <2>2 DEF InOrder, Transports
<1>4. ASSUME NEW by \in {"session", "holder"},
             _establish(by, 0) \/ _establish(by, 1)
      PROVE  InOrder'
  <2>1. /\ est.t \in Transports /\ est.t # None
        /\ UNCHANGED status /\ est'.t = None
        /\ reconnections' \in {reconnections, reconnections + 1}
    BY <1>4 DEF _establish, Unlocked, Connections, InOrder
  <2>2. reconnections < est.t /\ reconnections \in Nat /\ est.t \in 1..MaxTransports
    BY <2>1 DEF InOrder, Transports
  <2>3. reconnections' \in 0..MaxTransports
    BY <2>1, <2>2
  <2>4. reconnections' # 0 => status[reconnections'] # "unused"
    <3>1. CASE reconnections' = est.t
      BY <2>1, <3>1 DEF Connections
    <3>2. CASE reconnections' < est.t /\ reconnections' # 0
      BY <2>1, <2>3, <3>2 DEF Connections, InOrder, Transports
    <3>3. QED
      BY <2>1, <2>2, <3>1, <3>2
  <2>5. QED
    BY <2>1, <2>3, <2>4 DEF InOrder
<1>5. CASE UNCHANGED <<status, reconnections>> /\ est'.t \in {est.t, None}
  BY <1>5 DEF InOrder, Transports
<1>6. SetClosed \/ UNCHANGED clientVars
        => UNCHANGED <<status, reconnections>> /\ est'.t \in {est.t, None}
  BY DEF SetClosed, clientVars
<1>7. \A by \in {"session", "holder"} : connect(by) \/ ReconnectTries(by)
        => UNCHANGED <<status, reconnections>> /\ est'.t \in {est.t, None}
  BY DEF connect, ReconnectTries
<1>8. \A number : _apply(number)
        => UNCHANGED <<status, reconnections>> /\ est'.t \in {est.t, None}
  BY DEF _apply
<1>9. QED
  BY <1>1, <1>2, <1>3, <1>4, <1>5, <1>6, <1>7, <1>8 DEF Upkeep

-----------------------------------------------------------------------------
\* Where the session task goes, and with which connection.
LEMMA SessionTyped ==
  ASSUME session \in Sessions, session.pc = "receive" => session.t # None,
         Connections, Next
  PROVE  /\ session' \in Sessions
         /\ session'.pc = "receive" => session'.t # None
<1> DEFINE Good == /\ session' \in Sessions
                   /\ session'.pc = "receive" => session'.t # None
<1>1. ASSUME NEW pc \in {"hold", "connect", "delay", "results", "backoff",
                         "reconnect", "leave", "done"},
             \/ session' = [session EXCEPT !.pc = pc]
             \/ session' = [session EXCEPT !.pc = pc, !.t = None]
             \/ session' = [session EXCEPT !.t = None, !.pc = pc]
      PROVE  Good
  BY <1>1 DEF Sessions
<1>2. ASSUME NEW pc \in {"hold", "leave", "done"}, NEW raising \in BOOLEAN,
             \/ session' = [session EXCEPT !.pc = pc, !.cancel = FALSE]
             \/ session' = [session EXCEPT !.cancel = FALSE, !.pc = pc]
             \/ session' = [session EXCEPT !.pc = pc, !.cancel = FALSE,
                                           !.raising = TRUE]
             \/ session' = [session EXCEPT !.pc = pc, !.cancel = FALSE,
                                           !.raising = TRUE, !.t = None]
      PROVE  Good
  BY <1>2 DEF Sessions
<1>3. CASE start \/ Delayed \/ ConnectFails \/ ConnectRefused \/ LinkFails
  BY <1>1, <1>3
  DEF start, Delayed, ConnectFails, ConnectRefused, LinkFails, Goes
<1>4. CASE _hold_a_session \/ Connected
  BY <1>1, <1>4 DEF _hold_a_session, Connected, Exchange, Goes
<1>5. CASE results
  <2>1. CASE session' = [session EXCEPT !.pc = "receive", !.t = transport]
               /\ transport # None
    BY <2>1 DEF Sessions, Connections
  <2>2. QED
    BY <1>1, <1>5, <2>1 DEF results, Goes
<1>6. CASE _interpret \/ _reconnect
  BY <1>1, <1>6 DEF _interpret, _reconnect
<1>7. CASE Retries \/ Reconnected \/ ReconnectFails \/ ReconnectRefused
  BY <1>1, <1>7
  DEF Retries, Reconnected, ReconnectFails, ReconnectRefused, Goes
<1>8. CASE _exchange
  BY <1>2, <1>8 DEF _exchange
<1>9. CASE SessionCancelled
  BY <1>2, <1>9 DEF SessionCancelled
<1>10. CASE aclose
  <2>1. PICK c \in BOOLEAN : session' = [session EXCEPT !.cancel = c]
    BY <1>10 DEF aclose
  <2>2. QED
    BY <2>1 DEF Sessions
<1>11. CASE UNCHANGED session
  BY <1>11
<1>12. CancelsFrames \/ Frames \/ AcloseClient \/ AcloseEnds \/ HolderCalls
         \/ HolderEnds \/ ClientSteps => UNCHANGED session
  BY DEF CancelsFrames, Frames, _submit_one, Written, _submit_frames,
     FramesCancelled, AcloseClient, AcloseEnds, HolderCalls, HolderEnds,
     HolderRest, ClientSteps, Others
<1>13. QED
  BY <1>3, <1>4, <1>5, <1>6, <1>7, <1>8, <1>9, <1>10, <1>11, <1>12
  DEF Next, Session, Closing

\* What the frames task is at, and which frame it has.
LEMMA FramesTyped ==
  ASSUME frames \in Submitters, Connections, Received, Next
  PROVE  frames' \in Submitters
<1>1. 0 \in 0..MaxFrames /\ NoFrames \in Submitters
  BY DEF NoFrames, Submitters
<1>2. CASE _submit_one
  <2>1. transport \in Transports /\ sequence \in 0..MaxFrames
    BY <1>2 DEF _submit_one, Connections, Received
  <2>2. frames' = [frames EXCEPT !.pc = "send", !.t = transport,
                                 !.number = sequence]
    BY <1>2 DEF _submit_one
  <2>3. QED
    BY <2>1, <2>2 DEF Submitters
<1>3. CASE Written
  <2>1. frames' = [frames EXCEPT !.pc = "sent"]
    BY <1>3 DEF Written
  <2>2. QED
    BY <2>1 DEF Submitters
<1>4. CASE CancelsFrames
  <2>1. frames' = [frames EXCEPT !.cancel = TRUE]
    BY <1>4 DEF CancelsFrames
  <2>2. QED
    BY <2>1 DEF Submitters
<1>5. ASSUME NEW pc \in {"sleep", "done"},
             frames' = [NoFrames EXCEPT !.pc = pc]
      PROVE  frames' \in Submitters
  BY <1>5 DEF NoFrames, Submitters
<1>6. CASE _submit_frames \/ FramesCancelled \/ Connected \/ _hold_a_session
  BY <1>5, <1>6
  DEF _submit_frames, FramesCancelled, Connected, _hold_a_session, Exchange
<1>7. CASE UNCHANGED frames
  BY <1>7
<1>8. start \/ ConnectFails \/ ConnectRefused \/ Delayed \/ results
        \/ _interpret \/ LinkFails \/ _reconnect \/ Retries \/ Reconnected
        \/ ReconnectFails \/ ReconnectRefused \/ _exchange
        \/ SessionCancelled \/ Closing \/ HolderCalls \/ HolderEnds
        \/ ClientSteps => UNCHANGED frames
  BY DEF start, ConnectFails, ConnectRefused, Delayed, results, _interpret,
     LinkFails, _reconnect, Retries, Reconnected, ReconnectFails,
     ReconnectRefused, _exchange, SessionCancelled, Closing, aclose,
     AcloseClient, AcloseEnds, HolderCalls, HolderEnds, HolderRest,
     ClientSteps, Others
<1>9. QED
  BY <1>2, <1>3, <1>4, <1>6, <1>7, <1>8 DEF Next, Session, Frames

\* What is shown comes from a connection; nothing else changes it.
LEMMA AppliedTyped ==
  ASSUME Tasks, Received, InOrder, Next
  PROVE  applied' \in Results
<1>1. CASE _interpret
  <2>1. session.t \in Transports /\ reconnections \in Nat
    BY <1>1 DEF _interpret, At, Tasks, Sessions, InOrder
  <2>2. \A i \in DOMAIN got[session.t] : got[session.t][i] \in 0..MaxFrames
    BY <2>1 DEF Received
  <2>3. \/ UNCHANGED applied
        \/ \E i \in DOMAIN got[session.t] :
             applied' = [generation |-> reconnections,
                         number |-> got[session.t][i], t |-> session.t]
    BY <1>1 DEF _interpret
  <2>4. QED
    BY <2>1, <2>2, <2>3 DEF Tasks, Results
<1>2. ~_interpret => UNCHANGED applied
  BY DEF Next, Session, Frames, Closing, Rest, HolderRest, Others, start,
     _hold_a_session, Connected, ConnectFails, ConnectRefused, Delayed,
     results, LinkFails, _reconnect, Retries, Reconnected, ReconnectFails,
     ReconnectRefused, CancelsFrames, _exchange, SessionCancelled,
     _submit_one, Written, _submit_frames, FramesCancelled, aclose,
     AcloseClient, AcloseEnds, HolderCalls, HolderEnds, ClientSteps
<1>3. QED
  BY <1>1, <1>2 DEF Tasks

\* Every variable of the tasks stays in its type, and a connection is read
\* only where there is one.
LEMMA TasksStep ==
  ASSUME Tasks, Connections, Received, InOrder, Next
  PROVE  Tasks'
<1>1. closed' \in BOOLEAN /\ refused' \in BOOLEAN
        /\ closer' \in {"open", "awaits", "locks", "closed"}
  BY DEF Tasks, Next, Session, Frames, Closing, Rest, HolderRest, Others,
     start, _hold_a_session, Connected, ConnectFails, ConnectRefused, Delayed,
     results, _interpret, LinkFails, _reconnect, Retries, Reconnected,
     ReconnectFails, ReconnectRefused, CancelsFrames, _exchange,
     SessionCancelled, _submit_one, Written, _submit_frames, FramesCancelled,
     aclose, AcloseClient, AcloseEnds, HolderCalls, HolderEnds, ClientSteps
<1>2. holder' \in [pc : {"idle", "connect", "locks"}, calls : 0..MaxCalls]
  <2>1. CASE HolderCalls
    BY <2>1 DEF HolderCalls, Tasks
  <2>2. CASE HolderEnds
    BY <2>2 DEF HolderEnds, Tasks
  <2>3. ~HolderCalls /\ ~HolderEnds => UNCHANGED holder
    BY DEF Next, Session, Frames, Closing, Rest, Others,
     start, _hold_a_session, Connected, ConnectFails, ConnectRefused, Delayed,
     results, _interpret, LinkFails, _reconnect, Retries, Reconnected,
     ReconnectFails, ReconnectRefused, CancelsFrames, _exchange,
     SessionCancelled, _submit_one, Written, _submit_frames, FramesCancelled,
     aclose, AcloseClient, AcloseEnds, ClientSteps
  <2>4. QED
    BY <2>1, <2>2, <2>3 DEF Tasks
<1>3. QED
  BY <1>1, <1>2, SessionTyped, FramesTyped, AppliedTyped DEF Tasks

-----------------------------------------------------------------------------
\* What the peer received and what comes next, where no frame is sent.
LEMMA UpkeepNumbers ==
  ASSUME Connections, Received, Numbering, SequencesPerSession,
         Tasks, Upkeep, FrameKept
  PROVE  Received' /\ Numbering' /\ SequencesPerSession'
<1>1. UNCHANGED got
  BY DEF Upkeep, clientVars, Opens, Drops, SetClosed, _discard, connect,
     EstablishFails, ReconnectTries, _establish, _apply
<1>2. SequencesPerSession'
  BY <1>1 DEF SequencesPerSession
<1>3. \A t : Follows(t)' = Follows(t)
  BY <1>1 DEF Follows
<1>4. /\ \A t \in Transports : status'[t] = "unused" => status[t] = "unused"
      /\ sequence' \in {sequence, 0}
      /\ highest' \in (0..MaxFrames) \cup {highest, None}
  <2>1. CASE Opens \/ Drops \/ _discard \/ \E by : EstablishFails(by)
    BY <2>1 DEF Opens, Drops, _discard, EstablishFails, ClosedNow, Connections
  <2>2. CASE SetClosed \/ UNCHANGED clientVars
              \/ \E by : connect(by) \/ ReconnectTries(by)
    BY <2>2 DEF SetClosed, clientVars, connect, ReconnectTries
  <2>3. CASE \E by : _establish(by, 0) \/ _establish(by, 1)
    BY <2>3 DEF _establish
  <2>4. CASE \E number \in 0..MaxFrames : _apply(number)
    BY <2>4 DEF _apply
  <2>5. QED
    BY <2>1, <2>2, <2>3, <2>4 DEF Upkeep
<1>5. Received'
  <2>1. sequence' \in 0..MaxFrames
    BY <1>4 DEF Received
  <2>2. highest' \in (0..MaxFrames) \cup {None}
    BY <1>4 DEF Received
  <2>3. QED
    BY <1>1, <1>4, <2>1, <2>2 DEF Received
<1>6. est'.t # None => got[est'.t] = <<>> /\ frames.t # est'.t
  <2>1. CASE Opens
    <3>1. PICK t \in Transports :
            status[t] = "unused" /\ est' = [est EXCEPT !.t = t]
      BY <2>1 DEF Opens
    <3>2. est'.t = t
      BY <3>1 DEF Connections
    <3>3. got[t] = <<>>
      BY <3>1 DEF Received
    <3>4. frames.t # t
      BY <3>1, <3>2 DEF Numbering, Connections, Transports
    <3>5. QED
      BY <3>2, <3>3, <3>4
  <2>2. CASE est'.t \in {None, est.t}
    BY <2>2 DEF Numbering
  <2>3. Opens \/ est'.t \in {None, est.t}
    BY DEF Upkeep, clientVars, Drops, SetClosed, _discard, connect,
       EstablishFails, ReconnectTries, _establish, _apply, Unlocked
  <2>4. QED
    BY <2>1, <2>2, <2>3
<1>7. \/ transport' = None
      \/ /\ transport' = est.t /\ sequence' = 0 /\ est.t # None
      \/ transport' = transport /\ sequence' = sequence
  BY DEF Upkeep, clientVars, Drops, SetClosed, _discard, connect,
     EstablishFails, ReconnectTries, _establish, _apply, Opens
<1>8. transport' # None => sequence' \in Follows(transport')
  BY <1>7 DEF Numbering, Follows
<1>9. frames.t = None \/ frames.t \in Transports
  BY DEF Tasks, Submitters
<1>10. frames'.t # None => status'[frames'.t] # "unused"
  BY <1>4, <1>9 DEF FrameKept, Numbering
<1>11. est'.t # None => got[est'.t] = <<>> /\ frames'.t # est'.t
  BY <1>6 DEF FrameKept
<1>12. frames'.pc = "send" =>
         /\ frames'.t # None /\ frames'.number \in Follows(frames'.t)
         /\ Len(got[frames'.t]) < MaxFrames
         /\ frames'.t = transport' => frames'.number = sequence'
  BY <1>7 DEF FrameKept, Numbering
<1>13. frames'.pc = "sent" =>
         /\ frames'.t # None /\ got[frames'.t] # <<>>
         /\ frames'.t = transport'
              => sequence' = got[frames'.t][Len(got[frames'.t])]
  BY <1>7 DEF FrameKept, Numbering
<1>14. frames'.pc \notin {"send", "sent"} => frames'.t = None
  BY DEF FrameKept, Numbering
<1>15. Numbering'
  BY <1>1, <1>3, <1>8, <1>10, <1>11, <1>12, <1>13, <1>14
  DEF Numbering, Follows
<1>16. QED
  BY <1>2, <1>5, <1>15

\* The places of a sequence that grew by one.
LEMMA LastOrEarlier ==
  ASSUME NEW len \in Nat, NEW i \in 1..(len + 1)
  PROVE  i \in 1..len \/ i = len + 1
OBVIOUS

LEMMA Earlier ==
  ASSUME NEW len \in Nat, NEW i \in 1..len, i # 1
  PROVE  i - 1 \in 1..len
OBVIOUS

\* The steps that send a frame: it follows the last one of its connection,
\* and the client's number follows it.
LEMMA SendingNumbers ==
  ASSUME Connections, Received, Numbering, SequencesPerSession, Tasks,
         _submit_one \/ Written \/ _submit_frames
  PROVE  Received' /\ Numbering' /\ SequencesPerSession'
<1>0. UNCHANGED <<status, transport, est>>
  BY SendingKeeps
<1>1. CASE _submit_one
  <2>1. UNCHANGED clientVars /\ transport # None /\ frames.pc = "sleep"
    BY <1>1 DEF _submit_one
  <2>2. /\ frames'.pc = "send" /\ frames'.t = transport
        /\ frames'.number = sequence
    BY <1>1 DEF _submit_one, Tasks, Submitters
  <2>3. Len(got[transport]) < MaxFrames
    BY <1>1 DEF _submit_one
  <2>4. est.t = None
    BY <2>1 DEF Connections
  <2>5. Received' /\ SequencesPerSession'
    BY <2>1 DEF clientVars, Received, SequencesPerSession
  <2>6. Numbering'
    BY <2>1, <2>2, <2>3, <2>4 DEF Numbering, clientVars, Follows, Connections
  <2>7. QED
    BY <2>5, <2>6
<1>2. CASE Written
  <2> DEFINE t == frames.t
             n == frames.number
  <2>1. /\ frames.pc = "send" /\ got' = [got EXCEPT ![t] = Append(@, n)]
        /\ UNCHANGED <<sequence, highest>>
    BY <1>2 DEF Written, SendsFrame
  <2>2. frames'.pc = "sent" /\ frames'.t = t
    BY <1>2 DEF Written, Tasks, Submitters
  <2>3. /\ t \in Transports /\ n \in Follows(t) /\ Len(got[t]) < MaxFrames
        /\ t = transport => n = sequence
        /\ status[t] # "unused" /\ est.t # t
    BY <2>1 DEF Numbering, Tasks, Submitters
  <2>4. got[t] \in Seq(0..MaxFrames) /\ Len(got[t]) \in Nat
    BY <2>3 DEF Received
  <2>5. n \in 0..MaxFrames /\ n <= Len(got[t])
    <3>1. CASE got[t] = <<>>
      BY <2>3, <2>4, <3>1 DEF Follows
    <3>2. CASE got[t] # <<>>
      <4>1. Len(got[t]) \in DOMAIN got[t] /\ got[t][Len(got[t])] \in 0..MaxFrames
        BY <2>4, <3>2
      <4>2. got[t][Len(got[t])] < Len(got[t])
        BY <2>3, <4>1 DEF Received
      <4>3. QED
        BY <2>3, <2>4, <3>2, <4>1, <4>2 DEF Follows
    <3>3. QED
      BY <3>1, <3>2
  <2>6. got'[t] = Append(got[t], n)
    BY <2>1, <2>3 DEF Received
  <2>7. \A u \in Transports : u # t => got'[u] = got[u]
    BY <2>1 DEF Received
  <2>8. /\ Len(got'[t]) = Len(got[t]) + 1 /\ got'[t] \in Seq(0..MaxFrames)
        /\ \A i \in 1..Len(got[t]) : got'[t][i] = got[t][i]
        /\ got'[t][Len(got[t]) + 1] = n
        /\ DOMAIN got'[t] = 1..(Len(got[t]) + 1)
        /\ got'[t] # <<>>
    BY <2>4, <2>5, <2>6
  <2>9. Received'
    <3>1. got' \in [Transports -> Seq(0..MaxFrames)]
      BY <2>1, <2>6, <2>8 DEF Received
    <3>2. ASSUME NEW u \in Transports
          PROVE  /\ Len(got'[u]) <= MaxFrames
                 /\ \A i \in DOMAIN got'[u] : got'[u][i] < i
                 /\ status[u] = "unused" => got'[u] = <<>>
      <4>1. CASE u # t
        BY <2>7, <4>1 DEF Received
      <4>2. CASE u = t
        <5>1. Len(got'[t]) <= MaxFrames
          BY <2>3, <2>4, <2>8
        <5>2. \A i \in DOMAIN got[t] : got[t][i] < i
          BY <2>3 DEF Received
        <5>3. \A i \in 1..(Len(got[t]) + 1) : got'[t][i] < i
          <6>1. SUFFICES ASSUME NEW i \in 1..(Len(got[t]) + 1)
                         PROVE  got'[t][i] < i
            OBVIOUS
          <6>2. CASE i \in 1..Len(got[t])
            <7>1. i \in DOMAIN got[t] /\ got'[t][i] = got[t][i]
              BY <2>4, <2>8, <6>2
            <7>2. QED
              BY <5>2, <7>1
          <6>3. CASE i = Len(got[t]) + 1
            BY <2>4, <2>5, <2>8, <6>3
          <6>4. QED
            BY <2>4, <6>1, <6>2, <6>3, LastOrEarlier
        <5>4. QED
          BY <2>3, <2>8, <4>2, <5>1, <5>3
      <4>3. QED
        BY <4>1, <4>2
    <3>3. QED
      BY <1>0, <2>1, <3>1, <3>2 DEF Received
  <2>10. SequencesPerSession'
    <3>1. SUFFICES ASSUME NEW u \in Transports, NEW i \in DOMAIN got'[u]
                   PROVE  IF i = 1 THEN got'[u][i] = 0
                          ELSE got'[u][i] \in {got'[u][i - 1], got'[u][i - 1] + 1}
      BY DEF SequencesPerSession
    <3>2. CASE u # t
      BY <2>7, <3>1, <3>2 DEF SequencesPerSession
    <3>3. CASE u = t /\ i \in 1..Len(got[t])
      <4>1. i \in DOMAIN got[t] /\ got'[t][i] = got[t][i]
        BY <2>4, <2>8, <3>3
      <4>2. i # 1 => i - 1 \in 1..Len(got[t]) /\ got'[t][i - 1] = got[t][i - 1]
        <5>1. i # 1 => i - 1 \in 1..Len(got[t])
          BY <2>4, <3>3, Earlier
        <5>2. QED
          BY <2>8, <5>1
      <4>3. IF i = 1 THEN got[t][i] = 0
            ELSE got[t][i] \in {got[t][i - 1], got[t][i - 1] + 1}
        BY <2>3, <4>1 DEF SequencesPerSession
      <4>4. QED
        BY <3>3, <4>1, <4>2, <4>3
    <3>4. CASE u = t /\ i = Len(got[t]) + 1
      <4>1. CASE got[t] = <<>>
        BY <2>3, <2>8, <3>4, <4>1 DEF Follows
      <4>2. CASE got[t] # <<>>
        <5>1. n \in {got[t][Len(got[t])], got[t][Len(got[t])] + 1}
          BY <2>3, <4>2 DEF Follows
        <5>2. Len(got[t]) \in 1..Len(got[t])
          BY <2>4, <4>2
        <5>3. got'[t][Len(got[t])] = got[t][Len(got[t])] /\ got'[t][i] = n
          BY <2>8, <3>4, <5>2
        <5>4. i # 1 /\ i - 1 = Len(got[t])
          BY <2>4, <3>4, <5>2
        <5>5. got'[t][i] \in {got'[t][i - 1], got'[t][i - 1] + 1}
          BY <5>1, <5>3, <5>4
        <5>6. QED
          BY <3>4, <5>4, <5>5
      <4>3. QED
        BY <4>1, <4>2
    <3>5. QED
      BY <2>4, <2>8, <3>1, <3>2, <3>3, <3>4, LastOrEarlier
  <2>11. Numbering'
    <3>1. got'[t][Len(got'[t])] = n
      BY <2>4, <2>8
    <3>2. transport # None => sequence \in Follows(transport)'
      <4>1. CASE transport = t
        BY <1>0, <2>3, <2>8, <3>1, <4>1 DEF Follows
      <4>2. CASE transport # t
        BY <1>0, <2>7, <4>2 DEF Follows, Numbering, Connections
      <4>3. QED
        BY <4>1, <4>2
    <3>3. est.t # None => got'[est.t] = <<>> /\ frames'.t # est.t
      BY <2>2, <2>3, <2>7 DEF Numbering, Connections
    <3>4. t = transport => sequence = got'[t][Len(got'[t])]
      BY <2>3, <3>1
    <3>5. QED
      BY <1>0, <2>1, <2>2, <2>3, <2>8, <3>2, <3>3, <3>4 DEF Numbering
  <2>12. QED
    BY <2>9, <2>10, <2>11
<1>3. CASE _submit_frames
  <2>1. frames'.pc = "sleep" /\ frames'.t = None
    BY <1>3 DEF _submit_frames, NoFrames
  <2>2. UNCHANGED <<got, highest>>
    BY <1>3 DEF _submit_frames, submit_frame, clientVars
  <2>3. \/ sequence' = sequence
        \/ /\ frames.pc = "sent" /\ frames.t = transport
           /\ sequence' = sequence + 1
    BY <1>3 DEF _submit_frames, submit_frame, clientVars
  <2>4. sequence' \in 0..MaxFrames
        /\ (transport # None => sequence' \in Follows(transport))
    <3>1. CASE sequence' = sequence
      BY <3>1 DEF Received, Numbering
    <3>2. CASE /\ frames.pc = "sent" /\ frames.t = transport
               /\ sequence' = sequence + 1
      <4>1. /\ transport \in Transports /\ got[transport] # <<>>
            /\ sequence = got[transport][Len(got[transport])]
        BY <3>2 DEF Numbering, Connections
      <4>2. got[transport] \in Seq(0..MaxFrames) /\ Len(got[transport]) <= MaxFrames
        BY <4>1 DEF Received
      <4>3. Len(got[transport]) \in DOMAIN got[transport]
        BY <4>1, <4>2
      <4>4. sequence < Len(got[transport]) /\ sequence \in Nat
        BY <4>1, <4>3 DEF Received
      <4>5. QED
        BY <3>2, <4>1, <4>2, <4>4 DEF Follows
    <3>3. QED
      BY <2>3, <3>1, <3>2
  <2>5. Received' /\ SequencesPerSession'
    BY <1>0, <2>2, <2>4 DEF Received, SequencesPerSession
  <2>6. Numbering'
    BY <1>0, <2>1, <2>2, <2>4 DEF Numbering, Follows
  <2>7. QED
    BY <2>5, <2>6
<1>4. QED
  BY <1>1, <1>2, <1>3

-----------------------------------------------------------------------------
\* Which of the variables Reading and Shown speak of a step moves.  Another
\* holder's steps count its call.
LEMMA HolderStep ==
  ASSUME Tasks, Reading, HolderCalls \/ HolderEnds
  PROVE  holder'.calls # 0 /\ UNCHANGED <<closer, closed, applied>>
<1>1. CASE HolderCalls
  BY <1>1 DEF HolderCalls, HolderRest, Tasks
<1>2. CASE HolderEnds
  <2>1. holder.pc # "idle" /\ holder'.calls = holder.calls
    BY <1>2 DEF HolderEnds, Tasks
  <2>2. holder.calls # 0
    BY <2>1 DEF Reading
  <2>3. QED
    BY <1>2, <2>1, <2>2 DEF HolderEnds, HolderRest
<1>3. QED
  BY <1>1, <1>2

\* While no other holder calls, the session that is read is the client's.
LEMMA ReadingStep ==
  ASSUME Tasks, Connections, Reading, Next
  PROVE  Reading'
<1> USE DEF Tasks, Sessions
<1>1. CASE start
  BY <1>1 DEF start, Goes, Rest, clientVars, Reading
<1>2. CASE _hold_a_session
  <2>1. CASE session' = [session EXCEPT !.pc = "done"] /\ UNCHANGED clientVars
    BY <1>2, <2>1 DEF _hold_a_session, Rest, clientVars, Reading
  <2>2. CASE ConnectFindsSession /\ Exchange
    BY <1>2, <2>2
    DEF _hold_a_session, Rest, ConnectFindsSession, Exchange, clientVars, Reading
  <2>3. CASE connect("session") /\ Goes("connect")
    BY <1>2, <2>3 DEF _hold_a_session, Rest, connect, Goes, Reading
  <2>4. QED
    BY <1>2, <2>1, <2>2, <2>3 DEF _hold_a_session, Goes
<1>3. CASE Connected
  BY <1>3 DEF Connected, _establish, Exchange, Rest, Reading
<1>4. CASE ConnectFails \/ ConnectRefused \/ ReconnectFails
  BY <1>4 DEF ConnectFails, ConnectRefused, ReconnectFails, EstablishFails,
     Goes, Rest, Reading
<1>5. CASE Delayed
  BY <1>5 DEF Delayed, Goes, Rest, clientVars, Reading
<1>6. CASE results
  <2>1. UNCHANGED clientVars /\ UNCHANGED <<closed, closer, holder>>
    BY <1>6 DEF results, Rest
  <2>2. CASE clientClosed /\ Goes("leave") /\ UNCHANGED refused
    BY <2>1, <2>2 DEF Goes, clientVars, Reading
  <2>3. CASE Goes("leave") /\ refused' = TRUE
    BY <2>1, <2>3 DEF Goes, clientVars, Reading
  <2>4. CASE /\ session' = [session EXCEPT !.pc = "receive", !.t = transport]
             /\ UNCHANGED refused
    BY <2>1, <2>4 DEF clientVars, Reading
  <2>5. QED
    BY <1>6, <2>2, <2>3, <2>4 DEF results
<1>7. CASE _interpret
  <2>1. UNCHANGED <<transport, clientClosed, refused, closed, closer, holder>>
        /\ session' = [session EXCEPT !.pc = "results", !.t = None]
    BY <1>7 DEF _interpret, _apply, clientVars
  <2>2. QED
    BY <2>1 DEF Reading
<1>8. CASE LinkFails \/ ReconnectRefused
  <2>1. session' = [session EXCEPT !.pc = "leave"] /\ refused' = TRUE
        /\ UNCHANGED <<transport, clientClosed, closed, closer, holder>>
    BY <1>8 DEF LinkFails, ReconnectRefused, EstablishFails, Goes, Rest,
       clientVars
  <2>2. QED
    BY <2>1 DEF Reading
<1>9. CASE _reconnect
  <2>1. PICK pc \in {"results", "backoff"} :
          session' = [session EXCEPT !.t = None, !.pc = pc]
    BY <1>9 DEF _reconnect
  <2>2. QED
    BY <1>9, <2>1 DEF _reconnect, _discard, Rest, Reading
<1>10. CASE Retries
  <2>1. UNCHANGED <<transport, clientClosed, refused, closed, closer, holder>>
    BY <1>10 DEF Retries, ReconnectYields, ReconnectTries, clientVars, Rest
  <2>2. PICK pc \in {"results", "reconnect"} :
          session' = [session EXCEPT !.pc = pc]
    BY <1>10 DEF Retries, Goes
  <2>3. QED
    BY <2>1, <2>2 DEF Reading
<1>11. CASE Reconnected
  BY <1>11 DEF Reconnected, _establish, Goes, Rest, Reading
<1>12. CASE CancelsFrames
  BY <1>12 DEF CancelsFrames, Rest, clientVars, Reading
<1>13. CASE _exchange
  <2>1. PICK pc \in {"done", "hold"} :
          session' = [session EXCEPT !.cancel = FALSE, !.pc = pc]
    BY <1>13 DEF _exchange
  <2>2. QED
    BY <1>13, <2>1 DEF _exchange, Rest, clientVars, Reading
<1>14. CASE SessionCancelled
  <2>1. UNCHANGED <<transport, clientClosed, refused, closed, closer, holder>>
    BY <1>14 DEF SessionCancelled, EstablishFails, clientVars, Rest
  <2>2. \/ session' = [session EXCEPT !.pc = "done", !.cancel = FALSE]
        \/ session' = [session EXCEPT !.pc = "leave", !.cancel = FALSE,
                                      !.raising = TRUE]
        \/ session' = [session EXCEPT !.pc = "leave", !.cancel = FALSE,
                                      !.raising = TRUE, !.t = None]
    BY <1>14 DEF SessionCancelled
  <2>3. QED
    BY <2>1, <2>2 DEF Reading
<1>15. CASE _submit_one \/ Written \/ _submit_frames \/ FramesCancelled
  BY <1>15 DEF _submit_one, Written, SendsFrame, _submit_frames, submit_frame,
     FramesCancelled, clientVars, Rest, Reading
<1>16. CASE aclose
  <2>1. PICK c \in BOOLEAN : session' = [session EXCEPT !.cancel = c]
    BY <1>16 DEF aclose
  <2>2. QED
    BY <1>16, <2>1 DEF aclose, clientVars, Reading
<1>17. CASE AcloseClient
  BY <1>17 DEF AcloseClient, SetClosed, Reading
<1>18. CASE AcloseEnds
  BY <1>18 DEF AcloseEnds, _discard, Reading
<1>19. CASE HolderCalls \/ HolderEnds
  BY <1>19, HolderStep DEF Reading
<1>20. CASE ClientSteps
  BY <1>20 DEF ClientSteps, Opens, Drops, Others, Reading
<1>21. QED
  BY <1>1, <1>2, <1>3, <1>4, <1>5, <1>6, <1>7, <1>8, <1>9, <1>10, <1>11,
     <1>12, <1>13, <1>14, <1>15, <1>16, <1>17, <1>18, <1>19, <1>20
  DEF Next, Session, Frames, Closing

\* Reconnections are only ever added to.
LEMMA Growing ==
  ASSUME Next, Tasks, Received, InOrder
  PROVE  reconnections' >= reconnections
<1>1. CASE Upkeep
  BY <1>1 DEF Upkeep, clientVars, Opens, Drops, SetClosed, _discard, connect,
     EstablishFails, ReconnectTries, _establish, _apply, InOrder
<1>2. CASE _submit_one \/ Written \/ _submit_frames
  BY <1>2, SendingKeeps DEF InOrder
<1>3. QED
  BY <1>1, <1>2, StepIsOperation

\* What a result that is applied is newer than.
LEMMA Applying ==
  ASSUME Tasks, InOrder, Received, Reading, Shown, _interpret,
         holder.calls = 0, applied' # applied
  PROVE  /\ transport # None /\ transport' = transport
         /\ reconnections' = reconnections
         /\ applied'.generation = reconnections /\ applied'.t = transport
         /\ applied'.number = highest' /\ applied'.number \in 0..MaxFrames
         /\ highest # None => highest <= applied'.number
<1>1. PICK i \in DOMAIN got[session.t] :
        /\ transport # None /\ _apply(got[session.t][i])
        /\ applied' = [generation |-> reconnections,
                       number |-> got[session.t][i], t |-> session.t]
  BY DEF _interpret
<1>2. session.t \in Transports /\ session.pc = "receive"
  BY DEF _interpret, At, Tasks, Sessions
<1>3. got[session.t][i] \in 0..MaxFrames
  BY <1>1, <1>2 DEF Received
<1>4. session.t = transport
  BY <1>1, <1>2 DEF Reading
<1>5. highest \in (0..MaxFrames) \cup {None}
  BY DEF Received
<1>6. highest # None => ~(got[session.t][i] < highest)
  BY <1>1 DEF _apply, Superseded
<1>7. QED
  BY <1>1, <1>3, <1>4, <1>5, <1>6 DEF _apply

\* What is shown stays in step with the session it came over.
LEMMA ShownStep ==
  ASSUME Tasks, Connections, InOrder, Received, Reading, Shown, Next
  PROVE  Shown'
<1>1. reconnections \in Nat /\ reconnections' \in Nat
        /\ reconnections' >= reconnections
  <2>1. InOrder'
    <3>1. CASE Upkeep
      BY <3>1, InOrderStep
    <3>2. CASE _submit_one \/ Written \/ _submit_frames
      BY <3>2, SendingKeeps DEF InOrder, Transports
    <3>3. QED
      BY <3>1, <3>2, StepIsOperation
  <2>2. QED
    BY <2>1, Growing DEF InOrder
<1>2. \/ applied.generation = None
      \/ applied.generation \in Nat /\ applied.generation # None
  BY DEF Tasks, Results
<1>3. CASE HolderCalls \/ HolderEnds
  BY <1>1, <1>2, <1>3, HolderStep DEF Shown
<1>4. ASSUME UNCHANGED <<transport, reconnections, highest>> \/ transport' = None
                \/ applied.generation = None
                \/ reconnections' > reconnections,
             UNCHANGED <<applied, closed, holder>>,
             refused' = refused \/ refused' = TRUE,
             \/ session'.pc \notin {"none", "hold", "connect", "delay"}
             \/ session'.pc = session.pc
             \/ applied.generation = None \/ holder.calls # 0
             \/ session'.pc = "hold" /\ (closed \/ refused)
      PROVE  Shown'
  BY <1>1, <1>2, <1>4 DEF Shown
<1>5. CASE start \/ Delayed
  <2>1. holder.calls = 0 /\ ~closed /\ ~refused => applied.generation = None
    BY <1>5 DEF start, Delayed, At, Shown
  <2>2. QED
    BY <1>4, <1>5, <2>1
    DEF start, Delayed, At, Goes, Rest, clientVars, Shown, Tasks, Sessions
<1>6. CASE _hold_a_session
  <2>1. CASE session' = [session EXCEPT !.pc = "done"] /\ UNCHANGED clientVars
    BY <1>4, <1>6, <2>1
    DEF _hold_a_session, Rest, clientVars, Tasks, Sessions
  <2>2. CASE ConnectFindsSession /\ Exchange
    BY <1>4, <1>6, <2>2
    DEF _hold_a_session, Rest, ConnectFindsSession, Exchange, clientVars,
        Tasks, Sessions
  <2>3. CASE ~closed /\ ~refused /\ connect("session") /\ Goes("connect")
    <3>1. applied.generation = None \/ holder.calls # 0
      BY <1>6, <2>3 DEF _hold_a_session, At, Shown
    <3>2. QED
      BY <1>4, <1>6, <2>3, <3>1
      DEF _hold_a_session, Rest, connect, Goes, Tasks, Sessions
  <2>4. QED
    BY <1>6, <2>1, <2>2, <2>3 DEF _hold_a_session, Goes
<1>7. CASE Connected
  <2>1. applied.generation = None \/ holder.calls # 0
    BY <1>7 DEF Connected, At, Shown
  <2>2. session'.pc = "results" /\ UNCHANGED <<applied, holder>>
    BY <1>7 DEF Connected, Exchange, Rest, Tasks, Sessions
  <2>3. QED
    BY <1>1, <1>2, <2>1, <2>2 DEF Shown
<1>8. CASE ConnectFails \/ ConnectRefused
  <2>1. applied.generation = None \/ holder.calls # 0
    BY <1>8 DEF ConnectFails, ConnectRefused, At, Shown
  <2>2. QED
    BY <1>4, <1>8, <2>1
    DEF ConnectFails, ConnectRefused, EstablishFails, Goes, Rest, Tasks,
        Sessions
<1>9. CASE results
  BY <1>4, <1>9 DEF results, Goes, Rest, clientVars, Tasks, Sessions
<1>10. CASE _interpret
  <2>1. session'.pc = "results"
        /\ UNCHANGED <<transport, reconnections, closed, refused, holder>>
    BY <1>10 DEF _interpret, _apply, clientVars, Tasks, Sessions
  <2>2. CASE holder.calls # 0
    <3>1. \/ applied' = applied
          \/ applied'.generation = reconnections /\ applied'.number # None
      <4>1. session.t \in Transports
        BY <1>10 DEF _interpret, At, Tasks, Sessions
      <4>2. \A i \in DOMAIN got[session.t] : got[session.t][i] # None
        BY <4>1 DEF Received
      <4>3. QED
        <5>1. PICK i \in DOMAIN got[session.t] :
                \/ applied' = [generation |-> reconnections,
                               number |-> got[session.t][i], t |-> session.t]
                \/ UNCHANGED applied
          BY <1>10 DEF _interpret
        <5>2. QED
          BY <4>2, <5>1
    <3>2. QED
      BY <1>1, <1>2, <2>1, <2>2, <3>1 DEF Shown
  <2>3. CASE holder.calls = 0 /\ applied' # applied
    <3>1. /\ transport' = transport /\ applied'.t = transport
          /\ applied'.generation = reconnections
          /\ applied'.number = highest' /\ applied'.number \in 0..MaxFrames
      BY <1>10, <2>3, Applying
    <3>2. QED
      BY <1>1, <2>1, <3>1 DEF Shown
  <2>4. CASE applied' = applied
    <3>1. \/ highest' = highest
          \/ /\ applied' = [generation |-> reconnections, number |-> highest',
                            t |-> session.t]
             /\ transport # None
      <4>1. PICK i \in DOMAIN got[session.t] :
              \/ /\ transport # None /\ _apply(got[session.t][i])
                 /\ applied' = [generation |-> reconnections,
                                number |-> got[session.t][i],
                                t |-> session.t]
              \/ UNCHANGED <<clientVars, applied>>
        BY <1>10 DEF _interpret
      <4>2. QED
        BY <4>1 DEF _apply, clientVars
    <3>2. CASE highest' = highest
      BY <1>4, <2>1, <2>4, <3>2
    <3>3. CASE /\ applied' = [generation |-> reconnections,
                              number |-> highest', t |-> session.t]
               /\ transport # None /\ holder.calls = 0
      <4>1. session.t = transport
        BY <1>10, <3>3 DEF _interpret, At, Reading
      <4>2. applied'.number = highest' /\ applied'.t = transport'
        BY <2>1, <3>3, <4>1
      <4>3. QED
        BY <1>1, <1>2, <2>1, <2>4, <4>2 DEF Shown
    <3>4. QED
      BY <2>2, <3>1, <3>2, <3>3
  <2>5. QED
    BY <2>2, <2>3, <2>4
<1>11. CASE LinkFails
  BY <1>4, <1>11 DEF LinkFails, Goes, Rest, clientVars, Tasks, Sessions
<1>12. CASE _reconnect
  <2>1. session'.pc \in {"results", "backoff"}
    BY <1>12 DEF _reconnect, Tasks, Sessions
  <2>2. QED
    BY <1>4, <1>12, <2>1 DEF _reconnect, _discard, Rest
<1>13. CASE Retries
  <2>1. session'.pc \in {"results", "reconnect"}
    BY <1>13 DEF Retries, Goes, Tasks, Sessions
  <2>2. QED
    BY <1>4, <1>13, <2>1
    DEF Retries, ReconnectYields, ReconnectTries, clientVars, Rest
<1>14. CASE Reconnected
  <2>1. session'.pc = "results" /\ reconnections' > reconnections
    BY <1>1, <1>14 DEF Reconnected, _establish, Goes, Tasks, Sessions
  <2>2. QED
    BY <1>4, <1>14, <2>1 DEF Reconnected, Rest
<1>15. CASE ReconnectFails \/ ReconnectRefused
  <2>1. session'.pc \in {"leave", "backoff"}
    BY <1>15 DEF ReconnectFails, ReconnectRefused, Goes, Tasks, Sessions
  <2>2. QED
    BY <1>4, <1>15, <2>1
    DEF ReconnectFails, ReconnectRefused, EstablishFails, Rest
<1>16. CASE CancelsFrames
  BY <1>4, <1>16 DEF CancelsFrames, clientVars, Rest
<1>17. CASE _exchange
  <2>1. \/ session'.pc = "done"
        \/ session'.pc = "hold" /\ session.raising = FALSE
    BY <1>17 DEF _exchange, Tasks, Sessions
  <2>2. session'.pc = "hold" => closed \/ refused \/ holder.calls # 0
    BY <1>17, <2>1 DEF _exchange, Reading
  <2>3. QED
    BY <1>4, <1>17, <2>1, <2>2 DEF _exchange, clientVars, Rest
<1>18. CASE SessionCancelled
  <2>1. session'.pc \in {"done", "leave"}
    BY <1>18 DEF SessionCancelled, Tasks, Sessions
  <2>2. QED
    BY <1>4, <1>18, <2>1 DEF SessionCancelled, EstablishFails, clientVars, Rest
<1>19. CASE Frames
  BY <1>4, <1>19
  DEF Frames, _submit_one, Written, SendsFrame, _submit_frames, submit_frame,
      FramesCancelled, clientVars, Rest
<1>20. CASE aclose
  <2>1. session'.pc = session.pc /\ closed' = TRUE
    BY <1>20 DEF aclose, Tasks, Sessions
  <2>2. QED
    BY <1>1, <1>2, <1>20, <2>1 DEF aclose, clientVars, Shown
<1>21. CASE AcloseClient \/ AcloseEnds
  BY <1>4, <1>21 DEF AcloseClient, SetClosed, AcloseEnds, _discard
<1>22. CASE ClientSteps
  BY <1>4, <1>22 DEF ClientSteps, Opens, Drops, Others
<1>23. QED
  BY <1>3, <1>5, <1>6, <1>7, <1>8, <1>9, <1>10, <1>11, <1>12, <1>13, <1>14,
     <1>15, <1>16, <1>17, <1>18, <1>19, <1>20, <1>21, <1>22
  DEF Next, Session, Closing

-----------------------------------------------------------------------------
\* The invariant holds before there is a connection.
LEMMA InvInit == Init => IInv
<1>1. SUFFICES ASSUME Init PROVE IInv
  OBVIOUS
<1>2. 0 \in 0..MaxFrames /\ 0 \in 0..MaxTransports /\ 0 \in 0..MaxCalls
  OBVIOUS
<1>3. session \in Sessions /\ frames \in Submitters /\ applied \in Results
  BY <1>1, <1>2 DEF Init, NoFrames, Sessions, Submitters, Results
<1>4. Tasks
  BY <1>1, <1>2, <1>3 DEF Init, Tasks
<1>5. Connections /\ OneTransport
  BY <1>1 DEF Init, ClientInit, Connections, OneTransport, Live, Unlocked
<1>6. InOrder
  BY <1>1, <1>2 DEF Init, ClientInit, InOrder, Unlocked, Transports
<1>7. Received /\ SequencesPerSession
  <2>1. got = [t \in Transports |-> <<>>]
    BY <1>1 DEF Init, ClientInit
  <2>2. <<>> \in Seq(0..MaxFrames) /\ Len(<<>>) = 0 /\ DOMAIN <<>> = {}
    OBVIOUS
  <2>3. \A t \in Transports : got[t] = <<>>
    BY <2>1
  <2>4. got \in [Transports -> Seq(0..MaxFrames)]
    BY <2>1, <2>2
  <2>5. SequencesPerSession
    BY <2>2, <2>3 DEF SequencesPerSession
  <2>6. QED
    BY <1>1, <1>2, <2>2, <2>3, <2>4, <2>5 DEF Init, ClientInit, Received
<1>8. Numbering
  BY <1>1 DEF Init, ClientInit, NoFrames, Numbering, Unlocked
<1>9. Reading /\ Shown
  BY <1>1 DEF Init, ClientInit, Reading, Shown
<1>10. QED
  BY <1>4, <1>5, <1>6, <1>7, <1>8, <1>9 DEF IInv

\* Every step preserves the invariant, part by part.
LEMMA InvStep ==
  ASSUME IInv, Next
  PROVE  IInv'
<1>1. Connections' /\ OneTransport' /\ InOrder'
  <2>1. CASE Upkeep
    BY <2>1, ConnectionsStep, InOrderStep DEF IInv
  <2>2. CASE _submit_one \/ Written \/ _submit_frames
    BY <2>2, SendingKeeps
    DEF IInv, Connections, OneTransport, Live, InOrder, Transports
  <2>3. QED
    BY <2>1, <2>2, StepIsOperation DEF IInv
<1>2. Received' /\ Numbering' /\ SequencesPerSession'
  BY StepIsOperation, UpkeepNumbers, SendingNumbers DEF IInv
<1>3. QED
  BY <1>1, <1>2, TasksStep, ReadingStep, ShownStep DEF IInv

\* Every reachable state satisfies the invariant.
THEOREM Invariance == Spec => []IInv
<1>1. IInv /\ UNCHANGED vars => IInv'
  BY DEF vars, IInv, Connections, OneTransport, Live, InOrder, Tasks,
     Received, Numbering, Follows, SequencesPerSession, Reading, Shown
<1>2. QED
  BY InvInit, InvStep, <1>1, PTL DEF Spec

\* The variables stay in their types: a session's sequence never passes the
\* frames it was sent.
THEOREM TypeCorrectness == Spec => []TypeOK
<1>1. IInv => TypeOK
  BY DEF IInv, Tasks, Connections, InOrder, Received, TypeOK, ClientTypeOK
<1>2. QED
  BY Invariance, <1>1, PTL

\* Never two connections and none leaked, whoever connects, closes, drops or
\* is cancelled, and however often.
THEOREM SingleTransport == Spec => []OneTransport
<1>1. IInv => OneTransport
  BY DEF IInv
<1>2. QED
  BY Invariance, <1>1, PTL

\* Each session is numbered from zero without a gap, for any number of
\* replacements in the middle of a write.
THEOREM Sequences == Spec => []SequencesPerSession
<1>1. IInv => SequencesPerSession
  BY DEF IInv
<1>2. QED
  BY Invariance, <1>1, PTL

\* What the satellite shows never goes back, over any number of sessions.
THEOREM NeverGoesBack == Spec => AppliedInOrder
<1> DEFINE Newer ==
      \/ applied.generation < applied'.generation
      \/ /\ applied.generation = applied'.generation
         /\ applied.t = applied'.t
         /\ applied.number <= applied'.number
<1>1. ASSUME IInv, Next, holder.calls = 0, applied.generation # None,
             applied' # applied
      PROVE  Newer
  <2>1. CASE _interpret
    <3>1. /\ transport # None /\ applied'.generation = reconnections
          /\ applied'.t = transport /\ applied'.number \in 0..MaxFrames
          /\ highest # None => highest <= applied'.number
      BY <1>1, <2>1, Applying DEF IInv
    <3>2. /\ applied.generation \in Nat /\ reconnections \in Nat
          /\ applied.generation <= reconnections /\ applied.number # None
      BY <1>1 DEF IInv, Tasks, Results, InOrder, Shown
    <3>3. applied.generation = reconnections
            => applied.t = transport /\ highest = applied.number
      BY <1>1, <3>1 DEF IInv, Shown
    <3>4. QED
      BY <3>1, <3>2, <3>3
  <2>2. CASE ~_interpret
    <3>1. UNCHANGED applied
      BY <1>1, <2>2
      DEF Next, Session, Frames, Closing, Rest, HolderRest, Others, start,
          _hold_a_session, Connected, ConnectFails, ConnectRefused, Delayed,
          results, LinkFails, _reconnect, Retries, Reconnected,
          ReconnectFails, ReconnectRefused, CancelsFrames, _exchange,
          SessionCancelled, _submit_one, Written, _submit_frames,
          FramesCancelled, aclose, AcloseClient, AcloseEnds, HolderCalls,
          HolderEnds, ClientSteps
    <3>2. QED
      BY <1>1, <3>1
  <2>3. QED
    BY <2>1, <2>2
<1>2. IInv /\ [Next]_vars
        => [holder.calls = 0 /\ applied.generation # None
              /\ applied' # applied => Newer]_vars
  BY <1>1 DEF vars
<1>3. QED
  BY Invariance, <1>2, PTL DEF Spec, AppliedInOrder
=============================================================================
