-------------------------------- MODULE Feed --------------------------------
(***************************************************************************)
(* The groundstation's live picture: FeedRegistry in                       *)
(* services/groundstation/src/reachy_groundstation/feed.py, the sessions   *)
(* that count themselves in it and publish to it, and the MJPEG responses  *)
(* of api/mjpeg.py that read it.                                           *)
(*                                                                         *)
(* Everything runs on one event loop, and an action is what happens        *)
(* between two awaits.  A session is counted from the moment its           *)
(* credential is accepted until its pipeline has been drained; the frame   *)
(* it received and has not decoded yet stands for its queue.  A viewer is  *)
(* one response: it looks at the registry when it is opened, when the      *)
(* event it waits on is set, and when a part has been written.             *)
(*                                                                         *)
(* _sessions counts context managers that are open, so it is kept as the   *)
(* set of the sessions that opened them.  The epoch is history: it numbers *)
(* the changes of that set.                                                *)
(***************************************************************************)
EXTENDS Naturals, FiniteSets

CONSTANTS
  Sessions,    \* robot sessions; one that ended may connect again
  Viewers,     \* requests for the stream; one that ended may ask again
  MaxViewers,  \* MAX_VIEWERS
  MaxRevision, \* bound on the payloads published
  MaxEntries,  \* bound on the sessions counted in
  None         \* no frame

ASSUME FeedAssumption ==
  /\ IsFiniteSet(Sessions) /\ IsFiniteSet(Viewers)
  /\ MaxViewers \in Nat /\ MaxRevision \in Nat /\ MaxEntries \in Nat
  /\ None \notin Nat

VARIABLES
  sessions, \* _sessions: the sessions that are authenticated
  queued,   \* the sessions with a frame received and not yet decoded
  payload,  \* _payload: whose it is, and the epoch it was kept in
  revision, \* _revision
  closed,   \* _closed
  slots,    \* _viewers
  viewer,   \* each response
  epoch     \* history: the changes of `sessions`

vars == <<sessions, queued, payload, revision, closed, slots, viewer, epoch>>

Epochs   == 0..2 * MaxEntries
Payloads == [by : Sessions, kept : Epochs]
ViewerPcs == {"none", "opened", "waiting", "woken", "sending", "ending"}
Responses == [pc : ViewerPcs, sent : 0..MaxRevision, first : Epochs, at : Epochs]

NoPayload  == [by |-> None]
NoResponse == [pc |-> "none", sent |-> 0, first |-> 0, at |-> 0]

Init ==
  /\ sessions = {} /\ queued = {}
  /\ payload = NoPayload /\ revision = 0 /\ closed = FALSE
  /\ slots = 0 /\ viewer = [v \in Viewers |-> NoResponse]
  /\ epoch = 0

-----------------------------------------------------------------------------
Sole == \E s \in Sessions : sessions = {s}

\* _wake: every waiting viewer looks again, each in a step of its own.
_wake == viewer' = [v \in Viewers |->
                     IF viewer[v].pc = "waiting"
                     THEN [viewer[v] EXCEPT !.pc = "woken"] ELSE viewer[v]]

\* A variant that leaves the picture up while somebody is connected.
MutantSettleClearsAtZero(count) ==
  /\ sessions' = count
  /\ epoch' = epoch + 1
  /\ payload' = IF count = {} THEN NoPayload ELSE payload
  /\ _wake

\* _settle, after the count has changed: any count but one clears the frame.
_settle(count) ==
  /\ sessions' = count
  /\ epoch' = epoch + 1
  /\ payload' = IF \E s \in Sessions : count = {s} THEN payload ELSE NoPayload
  /\ _wake

-----------------------------------------------------------------------------
(* Sessions: SessionRunner._run, and the pipeline that decodes for it.     *)

authenticated_session(s) ==
  /\ s \notin sessions
  /\ epoch + Cardinality(sessions) + 2 <= 2 * MaxEntries
  /\ _settle(sessions \cup {s})
  /\ UNCHANGED <<queued, revision, closed, slots>>

\* The session closed, disconnected, failed or was cancelled, and what its
\* pipeline had not decoded is gone.
SessionEnds(s) ==
  /\ s \in sessions
  /\ _settle(sessions \ {s})
  /\ queued' = queued \ {s}
  /\ UNCHANGED <<revision, closed, slots>>

\* A frame arrives; it replaces one that is still waiting.
ReceiveFrame(s) ==
  /\ s \in sessions
  /\ queued' = queued \cup {s}
  /\ UNCHANGED <<sessions, payload, revision, closed, slots, viewer, epoch>>

\* A variant that keeps the frame and wakes nobody.
MutantPublishSilently(s) ==
  /\ payload' = [by |-> s, kept |-> epoch]
  /\ revision' = revision + 1
  /\ UNCHANGED viewer

publish(s) ==
  /\ payload' = [by |-> s, kept |-> epoch]
  /\ revision' = revision + 1
  /\ _wake

\* _decode: what is not a decodable JPEG is reported and not published, and
\* the registry refuses while it is closed or the count is not one.
_decode(s) ==
  /\ s \in queued
  /\ queued' = queued \ {s}
  /\ \/ UNCHANGED <<payload, revision, viewer>>
     \/ /\ ~closed /\ Sole /\ revision < MaxRevision
        /\ publish(s)
  /\ UNCHANGED <<sessions, closed, slots, epoch>>

-----------------------------------------------------------------------------
(* Viewers: stream_response, and the response it returns.                  *)

availability == ~closed /\ Sole /\ payload # NoPayload

\* A variant that takes the slot before it asks whether there is a picture.
MutantReserveFirst(v) ==
  /\ viewer[v].pc = "none" /\ slots < MaxViewers
  /\ slots' = slots + 1
  /\ viewer' = IF availability
               THEN [viewer EXCEPT ![v] = [NoResponse EXCEPT !.pc = "opened"]]
               ELSE viewer
  /\ UNCHANGED <<sessions, queued, payload, revision, closed, epoch>>

\* A GET that is served.  A refused one, and a HEAD, change nothing.
stream_response(v) ==
  /\ viewer[v].pc = "none"
  /\ availability /\ slots < MaxViewers
  /\ slots' = slots + 1
  /\ viewer' = [viewer EXCEPT ![v] = [NoResponse EXCEPT !.pc = "opened"]]
  /\ UNCHANGED <<sessions, queued, payload, revision, closed, epoch>>

\* next_frame: finish, take the newest frame, or wait for a change.
next_frame(v) ==
  /\ \/ /\ closed \/ ~Sole
        /\ viewer' = [viewer EXCEPT ![v].pc = "ending"]
     \/ /\ ~closed /\ Sole
        /\ payload # NoPayload /\ revision > viewer[v].sent
        /\ viewer' = [viewer EXCEPT
             ![v] = [pc |-> "sending", sent |-> revision, at |-> epoch,
                     first |-> IF @.sent = 0 THEN epoch ELSE @.first]]
     \/ /\ ~closed /\ Sole
        /\ payload = NoPayload \/ revision <= viewer[v].sent
        /\ viewer' = [viewer EXCEPT ![v].pc = "waiting"]
  /\ UNCHANGED <<sessions, queued, payload, revision, closed, slots, epoch>>

\* _parts: the generator looks when it starts and when it is woken,
Looks(v) == viewer[v].pc \in {"opened", "woken"} /\ next_frame(v)

\* and when the part it yielded has been written.
PartSent(v) == viewer[v].pc = "sending" /\ next_frame(v)

\* The finally of _ViewerStream.__call__.
release_viewer(v) ==
  /\ slots' = slots - 1
  /\ viewer' = [viewer EXCEPT ![v] = NoResponse]
  /\ UNCHANGED <<sessions, queued, payload, revision, closed, epoch>>

ResponseEnds(v) == viewer[v].pc = "ending" /\ release_viewer(v)
Disconnects(v) == viewer[v].pc # "none" /\ release_viewer(v)

\* A variant that discards the frame and wakes nobody.
MutantCloseSilently ==
  /\ ~closed
  /\ closed' = TRUE /\ payload' = NoPayload
  /\ UNCHANGED <<sessions, queued, revision, slots, viewer, epoch>>

\* Scheduled by the server on a signal, and called again by the lifespan.
close ==
  /\ ~closed
  /\ closed' = TRUE /\ payload' = NoPayload
  /\ _wake
  /\ UNCHANGED <<sessions, queued, revision, slots, epoch>>

-----------------------------------------------------------------------------
Next ==
  \/ close
  \/ \E s \in Sessions :
       \/ authenticated_session(s) \/ SessionEnds(s)
       \/ ReceiveFrame(s) \/ _decode(s)
  \/ \E v \in Viewers :
       \/ stream_response(v) \/ Looks(v) \/ PartSent(v)
       \/ ResponseEnds(v) \/ Disconnects(v)

Spec == Init /\ [][Next]_vars

\* The loop runs a woken task and the end of a response.  Nothing says that a
\* client reads, so writing a part may take for ever.
FairSpec ==
  Spec /\ \A v \in Viewers : WF_vars(Looks(v)) /\ WF_vars(ResponseEnds(v))

-----------------------------------------------------------------------------
TypeOK ==
  /\ sessions \subseteq Sessions
  /\ queued \subseteq Sessions
  /\ payload \in Payloads \cup {NoPayload}
  /\ revision \in 0..MaxRevision
  /\ closed \in BOOLEAN
  /\ slots \in Nat
  /\ viewer \in [Viewers -> Responses]
  /\ epoch \in Epochs

\* REQ-097: what is retained was published by the session that is the only
\* one now, and no other has been counted since; nothing outlives close().
SoleSessionsPicture ==
  payload # NoPayload =>
    /\ sessions = {payload.by} /\ payload.kept = epoch
    /\ ~closed

\* A slot is taken exactly as long as a response is open, and the bound is
\* never passed, however requests, disconnections and refusals overlap.
SlotsAreHeld ==
  /\ slots = Cardinality({v \in Viewers : viewer[v].pc # "none"})
  /\ slots <= MaxViewers

\* next_frame: the event it waits on is the one any later change replaces, so
\* a viewer never sleeps on a newer frame, a lost session or a shutdown.
NoLostWakeUp ==
  \A v \in Viewers : viewer[v].pc = "waiting" =>
    /\ ~closed /\ Sole
    /\ payload # NoPayload => revision <= viewer[v].sent

\* close() finishes every viewer that is not held up by its own client.
ParkedViewersFinish ==
  \A v \in Viewers :
    closed /\ viewer[v].pc # "sending" ~> viewer[v].pc = "none"

\* REQ-097: a viewer ends when the count stops being one, so all the parts it
\* is sent are from the one session it began with.
ViewerEndsWithItsSession ==
  \A v \in Viewers : viewer[v].sent > 0 => viewer[v].at = viewer[v].first
=============================================================================
