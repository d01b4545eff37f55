----------------------------- MODULE FeedProofs -----------------------------
(***************************************************************************)
(* The safety properties of Feed hold for every number of sessions,        *)
(* viewers and slots.  Together with the bound on the epoch they are       *)
(* inductive: a frame is only there under the one session that published   *)
(* it, and a viewer only sleeps on what it has seen.                       *)
(***************************************************************************)
EXTENDS Feed, FiniteSetTheorems, TLAPS

\* What is assumed of the constants is used throughout.
USE FeedAssumption

\* Every session that is counted in leaves room to be counted out.
EpochBound == epoch + Cardinality(sessions) <= 2 * MaxEntries

\* Only a session that is counted has received a frame.
Received == queued \subseteq sessions

IInv ==
  /\ TypeOK /\ EpochBound /\ Received
  /\ SoleSessionsPicture /\ SlotsAreHeld /\ NoLostWakeUp

Open(views) == {v \in Viewers : views[v].pc # "none"}

-----------------------------------------------------------------------------
\* A frame is not the absence of one.
LEMMA PayloadsAreThere ==
  \A p \in Payloads : p # NoPayload /\ p.by \in Sessions
<1>1. SUFFICES ASSUME NEW p \in Payloads, p = NoPayload PROVE FALSE
  BY DEF Payloads
<1>2. DOMAIN p = {"by", "kept"} /\ DOMAIN NoPayload = {"by"}
  BY DEF Payloads, NoPayload
<1>3. QED
  BY <1>1, <1>2

\* The sessions are finitely many, and so are the open responses.
LEMMA Counts ==
  ASSUME TypeOK
  PROVE  /\ IsFiniteSet(sessions) /\ Cardinality(sessions) \in Nat
         /\ IsFiniteSet(Open(viewer)) /\ Cardinality(Open(viewer)) \in Nat
<1>1. sessions \in SUBSET Sessions /\ Open(viewer) \in SUBSET Viewers
  BY DEF TypeOK, Open
<1>2. QED
  BY <1>1, FS_Subset, FS_CardinalityType

\* _wake changes no response but the waiting ones, and those to woken.
LEMMA Waking ==
  ASSUME TypeOK, _wake
  PROVE  /\ viewer' \in [Viewers -> Responses]
         /\ \A v \in Viewers : /\ viewer'[v].pc # "waiting"
                               /\ viewer'[v].pc = "none" <=> viewer[v].pc = "none"
<1>1. ASSUME NEW v \in Viewers
      PROVE  /\ viewer'[v] \in Responses /\ viewer'[v].pc # "waiting"
             /\ viewer'[v].pc = "none" <=> viewer[v].pc = "none"
  <2>1. viewer[v] \in Responses
    BY <1>1 DEF TypeOK
  <2>2. viewer'[v] = IF viewer[v].pc = "waiting"
                     THEN [viewer[v] EXCEPT !.pc = "woken"] ELSE viewer[v]
    BY <1>1 DEF _wake
  <2>3. QED
    BY <2>1, <2>2 DEF Responses, ViewerPcs
<1>2. viewer' = [v \in Viewers |-> viewer'[v]]
  BY DEF _wake
<1>3. QED
  BY <1>1, <1>2

\* The slots are right as long as the same responses are open.
LEMMA SameOpen ==
  ASSUME SlotsAreHeld, slots' = slots,
         \A v \in Viewers : viewer'[v].pc = "none" <=> viewer[v].pc = "none"
  PROVE  SlotsAreHeld'
<1>1. {v \in Viewers : viewer'[v].pc # "none"}
        = {v \in Viewers : viewer[v].pc # "none"}
  OBVIOUS
<1>2. QED
  BY <1>1 DEF SlotsAreHeld

\* What _settle leaves, whatever the count changed to.
LEMMA Settling ==
  ASSUME IInv, NEW count \in SUBSET Sessions, _settle(count),
         epoch + 1 \in Epochs, (epoch + Cardinality(count)) + 1 <= 2 * MaxEntries,
         UNCHANGED <<revision, closed, slots>>,
         queued' \subseteq Sessions,
         \A s \in Sessions : sessions = {s} => \A t \in Sessions : count # {t},
         queued' \subseteq count
  PROVE  IInv'
<1>1. TypeOK'
  BY Waking DEF IInv, _settle, TypeOK
<1>2. EpochBound'
  <2>1. epoch \in Nat
    BY DEF IInv, TypeOK, Epochs
  <2>2. Cardinality(count) \in Nat
    BY FS_Subset, FS_CardinalityType
  <2>3. QED
    BY <2>1, <2>2 DEF _settle, EpochBound
<1>3. SoleSessionsPicture'
  BY DEF IInv, _settle, SoleSessionsPicture, TypeOK, Payloads, NoPayload
<1>4. SlotsAreHeld'
  BY Waking, SameOpen DEF IInv, _settle
<1>5. NoLostWakeUp' /\ Received'
  BY Waking DEF IInv, _settle, NoLostWakeUp, Received
<1>6. QED
  BY <1>1, <1>2, <1>3, <1>4, <1>5 DEF IInv

-----------------------------------------------------------------------------
\* The steps of the sessions.
LEMMA SessionsStep ==
  ASSUME IInv, NEW s \in Sessions,
         \/ authenticated_session(s) \/ SessionEnds(s)
         \/ ReceiveFrame(s) \/ _decode(s)
  PROVE  IInv'
<1>1. CASE authenticated_session(s)
  <2>1. /\ IsFiniteSet(sessions) /\ Cardinality(sessions) \in Nat
        /\ epoch \in Nat /\ s \notin sessions
    BY <1>1, Counts DEF IInv, TypeOK, Epochs, authenticated_session
  <2>2. Cardinality(sessions \cup {s}) = Cardinality(sessions) + 1
    BY <2>1, FS_AddElement
  <2>3. /\ epoch + 1 \in Epochs
        /\ (epoch + Cardinality(sessions \cup {s})) + 1 <= 2 * MaxEntries
    BY <1>1, <2>1, <2>2 DEF authenticated_session, Epochs
  <2>4. \A r \in Sessions : sessions = {r} =>
          \A t \in Sessions : sessions \cup {s} # {t}
    BY <2>1
  <2>5. QED
    BY <1>1, <2>3, <2>4, Settling
    DEF authenticated_session, IInv, TypeOK, Received
<1>2. CASE SessionEnds(s)
  <2>1. /\ IsFiniteSet(sessions) /\ Cardinality(sessions) \in Nat
        /\ epoch \in Nat /\ s \in sessions
    BY <1>2, Counts DEF IInv, TypeOK, Epochs, SessionEnds
  <2>2. /\ Cardinality(sessions \ {s}) = Cardinality(sessions) - 1
        /\ Cardinality(sessions \ {s}) \in Nat
    BY <2>1, FS_RemoveElement, FS_CardinalityType
  <2>3. /\ epoch + 1 \in Epochs
        /\ (epoch + Cardinality(sessions \ {s})) + 1 <= 2 * MaxEntries
    BY <2>1, <2>2 DEF IInv, EpochBound, Epochs
  <2>4. \A r \in Sessions : sessions = {r} =>
          \A t \in Sessions : sessions \ {s} # {t}
    BY <2>1
  <2>5. /\ queued' \subseteq Sessions
        /\ queued' \subseteq sessions \ {s}
    BY <1>2 DEF SessionEnds, IInv, TypeOK, Received
  <2>6. sessions \ {s} \in SUBSET Sessions
    BY DEF IInv, TypeOK
  <2>7. QED
    BY <1>2, <2>3, <2>4, <2>5, <2>6, Settling DEF SessionEnds
<1>3. CASE ReceiveFrame(s)
  BY <1>3
  DEF ReceiveFrame, IInv, TypeOK, EpochBound, SoleSessionsPicture,
      SlotsAreHeld, NoLostWakeUp, Sole, Received
<1>4. CASE _decode(s)
  <2>1. CASE UNCHANGED <<payload, revision, viewer>>
    BY <1>4, <2>1
    DEF _decode, IInv, TypeOK, EpochBound, SoleSessionsPicture,
        SlotsAreHeld, NoLostWakeUp, Sole, Received
  <2>2. CASE ~closed /\ Sole /\ revision < MaxRevision /\ publish(s)
    <3>1. TypeOK'
      BY <1>4, <2>2, Waking DEF IInv, _decode, publish, TypeOK, Payloads
    <3>2. EpochBound'
      BY <1>4 DEF IInv, _decode, EpochBound
    <3>3. SoleSessionsPicture'
      <4>1. sessions = {s} /\ sessions' = sessions
        BY <1>4, <2>2 DEF _decode, Sole, IInv, Received
      <4>2. QED
        BY <1>4, <2>2, <4>1 DEF _decode, publish, SoleSessionsPicture
    <3>4. SlotsAreHeld'
      BY <1>4, <2>2, Waking, SameOpen DEF IInv, _decode, publish
    <3>5. NoLostWakeUp' /\ Received'
      BY <1>4, <2>2, Waking
      DEF IInv, TypeOK, _decode, publish, NoLostWakeUp, Received
    <3>6. QED
      BY <3>1, <3>2, <3>3, <3>4, <3>5 DEF IInv
  <2>3. QED
    BY <1>4, <2>1, <2>2 DEF _decode
<1>5. QED
  BY <1>1, <1>2, <1>3, <1>4

\* The steps of the responses, and the end of the registry.
LEMMA ViewersStep ==
  ASSUME IInv, NEW v \in Viewers,
         \/ stream_response(v) \/ Looks(v) \/ PartSent(v)
         \/ ResponseEnds(v) \/ Disconnects(v)
  PROVE  IInv'
<1>0. /\ viewer[v] \in Responses /\ slots \in Nat
      /\ IsFiniteSet(Open(viewer)) /\ slots = Cardinality(Open(viewer))
  BY Counts DEF IInv, TypeOK, SlotsAreHeld, Open
<1>1. CASE stream_response(v)
  <2>1. viewer' = [viewer EXCEPT ![v] = [NoResponse EXCEPT !.pc = "opened"]]
        /\ viewer[v].pc = "none" /\ slots' = slots + 1 /\ slots < MaxViewers
        /\ UNCHANGED <<sessions, queued, payload, revision, closed, epoch>>
    BY <1>1 DEF stream_response
  <2>2. [NoResponse EXCEPT !.pc = "opened"] \in Responses
    BY DEF NoResponse, Responses, ViewerPcs, Epochs
  <2>3. TypeOK'
    BY <1>0, <2>1, <2>2 DEF IInv, TypeOK
  <2>4. SlotsAreHeld'
    <3>1. Open(viewer') = Open(viewer) \cup {v} /\ v \notin Open(viewer)
      BY <2>1 DEF Open, NoResponse, IInv, TypeOK
    <3>2. Cardinality(Open(viewer) \cup {v}) = slots + 1
      BY <1>0, <3>1, FS_AddElement
    <3>3. slots + 1 <= MaxViewers
      BY <1>0, <2>1
    <3>4. slots' = Cardinality(Open(viewer')) /\ slots' <= MaxViewers
      BY <2>1, <3>1, <3>2, <3>3
    <3>5. QED
      BY <3>4 DEF SlotsAreHeld, Open
  <2>5. NoLostWakeUp'
    BY <2>1 DEF IInv, NoLostWakeUp, TypeOK, NoResponse, Sole
  <2>6. QED
    BY <2>1, <2>3, <2>4, <2>5 DEF IInv, EpochBound, SoleSessionsPicture, Received
<1>2. ASSUME viewer[v].pc # "none", next_frame(v)
      PROVE  IInv'
  <2>1. UNCHANGED <<sessions, queued, payload, revision, closed, slots, epoch>>
    BY <1>2 DEF next_frame
  <2>2. PICK view \in Responses :
          /\ viewer' = [viewer EXCEPT ![v] = view]
          /\ view.pc # "none"
          /\ view.pc = "waiting" =>
               /\ ~closed /\ Sole
               /\ payload # NoPayload => revision <= view.sent
    <3>1. CASE closed \/ ~Sole
      BY <1>0, <1>2, <3>1
      DEF next_frame, Responses, ViewerPcs, IInv, TypeOK
    <3>2. CASE ~closed /\ Sole /\ payload # NoPayload /\ revision > viewer[v].sent
      BY <1>0, <1>2, <3>2
      DEF next_frame, Responses, ViewerPcs, IInv, TypeOK
    <3>3. CASE ~closed /\ Sole /\ (payload = NoPayload \/ revision <= viewer[v].sent)
      BY <1>0, <1>2, <3>3
      DEF next_frame, Responses, ViewerPcs, IInv, TypeOK
    <3>4. QED
      BY <1>2, <3>1, <3>2, <3>3 DEF next_frame
  <2>3. TypeOK'
    BY <2>1, <2>2 DEF IInv, TypeOK
  <2>4. SlotsAreHeld'
    BY <1>2, <2>1, <2>2, SameOpen DEF IInv, TypeOK
  <2>5. NoLostWakeUp'
    BY <2>1, <2>2 DEF IInv, NoLostWakeUp, TypeOK, Sole
  <2>6. QED
    BY <2>1, <2>3, <2>4, <2>5 DEF IInv, EpochBound, SoleSessionsPicture, Received
<1>3. ASSUME viewer[v].pc # "none", release_viewer(v)
      PROVE  IInv'
  <2>1. /\ viewer' = [viewer EXCEPT ![v] = NoResponse] /\ slots' = slots - 1
        /\ UNCHANGED <<sessions, queued, payload, revision, closed, epoch>>
    BY <1>3 DEF release_viewer
  <2>2. /\ Cardinality(Open(viewer) \ {v}) = slots - 1
        /\ Cardinality(Open(viewer) \ {v}) \in Nat
        /\ Open(viewer') = Open(viewer) \ {v}
    <3>1. v \in Open(viewer)
      BY <1>3 DEF Open
    <3>2. Open(viewer') = Open(viewer) \ {v}
      BY <2>1 DEF Open, NoResponse, IInv, TypeOK
    <3>3. QED
      BY <1>0, <3>1, <3>2, FS_RemoveElement, FS_CardinalityType
  <2>3. TypeOK'
    BY <2>1, <2>2 DEF IInv, TypeOK, NoResponse, Responses, ViewerPcs, Epochs
  <2>4. SlotsAreHeld'
    <3>1. slots - 1 <= MaxViewers
      BY <1>0 DEF IInv, SlotsAreHeld
    <3>2. slots' = Cardinality(Open(viewer')) /\ slots' <= MaxViewers
      BY <2>1, <2>2, <3>1
    <3>3. QED
      BY <3>2 DEF SlotsAreHeld, Open
  <2>5. NoLostWakeUp'
    BY <2>1 DEF IInv, NoLostWakeUp, TypeOK, NoResponse, Sole
  <2>6. QED
    BY <2>1, <2>3, <2>4, <2>5 DEF IInv, EpochBound, SoleSessionsPicture, Received
<1>4. QED
  BY <1>1, <1>2, <1>3 DEF Looks, PartSent, ResponseEnds, Disconnects

\* The registry closes: nothing is left to show or to wait for.
LEMMA CloseStep ==
  ASSUME IInv, close
  PROVE  IInv'
<1>1. TypeOK'
  BY Waking DEF IInv, close, TypeOK
<1>2. SoleSessionsPicture' /\ EpochBound'
  BY DEF IInv, close, SoleSessionsPicture, EpochBound
<1>3. SlotsAreHeld'
  BY Waking, SameOpen DEF IInv, close
<1>4. NoLostWakeUp' /\ Received'
  BY Waking DEF IInv, close, NoLostWakeUp, Received
<1>5. QED
  BY <1>1, <1>2, <1>3, <1>4 DEF IInv

\* The invariant holds at construction.
LEMMA InvInit == Init => IInv
<1>1. SUFFICES ASSUME Init PROVE IInv
  OBVIOUS
<1>2. TypeOK
  <2>1. NoResponse \in Responses /\ 0 \in Epochs
    BY DEF Epochs, Responses, NoResponse, ViewerPcs
  <2>2. viewer \in [Viewers -> Responses]
    BY <1>1, <2>1 DEF Init
  <2>3. queued \subseteq Sessions
    BY <1>1 DEF Init
  <2>4. revision \in 0..MaxRevision /\ slots \in Nat /\ epoch \in Epochs
    BY <1>1, <2>1 DEF Init
  <2>5. /\ sessions \subseteq Sessions /\ closed \in BOOLEAN
        /\ payload \in Payloads \cup {NoPayload}
    BY <1>1 DEF Init
  <2>6. QED
    BY <2>2, <2>3, <2>4, <2>5 DEF TypeOK
<1>3. Cardinality({}) = 0
  BY FS_EmptySet
<1>4. EpochBound /\ SoleSessionsPicture
  BY <1>1, <1>3 DEF Init, EpochBound, SoleSessionsPicture
<1>5. SlotsAreHeld
  <2>1. {v \in Viewers : viewer[v].pc # "none"} = {}
    BY <1>1 DEF Init, NoResponse
  <2>2. QED
    BY <1>1, <1>3, <2>1 DEF Init, SlotsAreHeld
<1>6. NoLostWakeUp /\ Received
  BY <1>1 DEF Init, NoLostWakeUp, NoResponse, Received
<1>7. QED
  BY <1>2, <1>4, <1>5, <1>6 DEF IInv

\* The invariant every state of the registry satisfies.
THEOREM Invariance == Spec => []IInv
<1>1. ASSUME IInv, [Next]_vars PROVE IInv'
  <2>1. CASE Next
    BY <1>1, <2>1, SessionsStep, ViewersStep, CloseStep DEF Next
  <2>2. CASE UNCHANGED vars
    BY <1>1, <2>2
    DEF vars, IInv, TypeOK, EpochBound, SoleSessionsPicture, SlotsAreHeld,
        NoLostWakeUp, Sole, Received
  <2>3. QED
    BY <1>1, <2>1, <2>2
<1>2. QED
  BY InvInit, <1>1, PTL DEF Spec

\* Every variable stays in its domain: the slots are never given back twice.
THEOREM TypeCorrectness == Spec => []TypeOK
<1>1. IInv => TypeOK
  BY DEF IInv
<1>2. QED
  BY Invariance, <1>1, PTL

\* REQ-097, for every number of sessions: what is retained is the sole
\* session's, from since it became the sole one.
THEOREM Eligibility == Spec => []SoleSessionsPicture
<1>1. IInv => SoleSessionsPicture
  BY DEF IInv
<1>2. QED
  BY Invariance, <1>1, PTL

\* REQ-098, for every bound: slots and open responses agree and stay within it.
THEOREM Capacity == Spec => []SlotsAreHeld
<1>1. IInv => SlotsAreHeld
  BY DEF IInv
<1>2. QED
  BY Invariance, <1>1, PTL

\* next_frame, for every number of viewers: none sleeps through a change.
THEOREM WakeUps == Spec => []NoLostWakeUp
<1>1. IInv => NoLostWakeUp
  BY DEF IInv
<1>2. QED
  BY Invariance, <1>1, PTL
=============================================================================
