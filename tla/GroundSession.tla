--------------------------- MODULE GroundSession ---------------------------
(***************************************************************************)
(* One robot-link session of the groundstation: SessionRunner              *)
(* (session/runner.py), the FrameQueue and FramePipeline it pumps frames   *)
(* through (pipeline/queue.py, pipeline/runner.py), the CapabilityRegistry *)
(* it negotiates against (capabilities/registry.py) and the service that   *)
(* warms the registry up and closes it (api/app.py, service.py).           *)
(*                                                                         *)
(* Everything runs on one event loop: an action is what one task does      *)
(* between two awaits.  `session` is the task that runs SessionRunner.run, *)
(* with its outcome and counters; `worker` the pipeline task; sends wait   *)
(* for the connection, so a send is a step of its own.  `link` is the      *)
(* WebSocket: "lost" when the peer is gone, though what it sent before may *)
(* still be received, "closed" once the groundstation closed it, when      *)
(* every send raises TransportClosedError.                                 *)
(*                                                                         *)
(* A frame is its number among the frames accepted.  Each capability has   *)
(* one version; one the registry does not build, or offers in another      *)
(* version, is a capability outside Factories.                             *)
(***************************************************************************)
EXTENDS Naturals, Sequences

CONSTANTS
  Capabilities, \* every capability a client may name
  Factories,    \* the registered capabilities, in the order they are warmed
  Offers,       \* the capability sequences clients offer
  None,         \* no capability
  Bound,        \* settings.queue_bound
  MaxFrames,    \* bound: frames a client sends
  MaxCancels    \* bound: cancellations of the session task

ASSUME GroundSessionAssumption ==
  /\ Factories \in Seq(Capabilities)
  /\ \A o \in Offers : o \in Seq(Capabilities)
  /\ None \notin Capabilities
  /\ Bound \in Nat \ {0} /\ MaxFrames \in Nat /\ MaxCancels \in Nat

VARIABLES
  registry, \* CapabilityRegistry._entries; "absent": disabled or not built
  warming,  \* the entry warm_up has reached; past the last, `ready`
  service,  \* "up", "stopping" (uvicorn drains), "down" (shutdown ran)
  link,     \* the WebSocket
  session,  \* the session task
  queue,    \* FrameQueue._items
  shut,     \* FrameQueue._closed
  arrived,  \* FrameQueue._arrived
  worker,   \* the pipeline task
  sent      \* history: the answers that reached the transport

vars == <<registry, warming, service, link, session, queue, shut, arrived,
          worker, sent>>

Entries == DOMAIN Factories
Ends == {"none", "going_away", "unauthenticated", "protocol_error",
         "cancelled"}
Sessions ==
  [pc : {"none", "offer", "refuse", "agree", "receive", "report", "closing",
         "drain", "ended"},
   end : Ends, offer : Offers \cup {<<>>}, agreed : SUBSET Capabilities,
   routed : SUBSET Capabilities,
   received : 0..MaxFrames, dropped : 0..MaxFrames, cancels : 0..MaxCancels]
Workers ==
  [pc : {"none", "look", "wait", "report", "process", "deliver", "stopped",
         "failed", "cancelled"},
   frame : 0..MaxFrames, given : SUBSET Capabilities,
   asked : Capabilities \cup {None}, kind : {"result", "failed"},
   cancel : BOOLEAN]

Init ==
  /\ registry \in [Entries -> {"absent", "warming"}]
  /\ warming = 1 /\ service = "up" /\ link = "open"
  /\ session = [pc |-> "none", end |-> "none", offer |-> <<>>, agreed |-> {},
                routed |-> {}, received |-> 0, dropped |-> 0, cancels |-> 0]
  /\ queue = <<>> /\ shut = FALSE /\ arrived = FALSE
  /\ worker = [pc |-> "none", frame |-> 0, given |-> {}, asked |-> None,
               kind |-> "result", cancel |-> FALSE]
  /\ sent = <<>>

WorkerEnded == worker.pc \in {"stopped", "failed", "cancelled"}

-----------------------------------------------------------------------------
(* The registry and the service.                                           *)

\* CapabilityRegistry.warm_up: one entry; an entry that was not built is
\* passed over, the others end ready, or unhealthy when they raise or time
\* out.
warm_up ==
  /\ service # "down" /\ warming \in Entries
  /\ warming' = warming + 1
  /\ \/ registry[warming] # "warming" /\ UNCHANGED registry
     \/ /\ registry[warming] = "warming"
        /\ \E state \in {"ready", "unhealthy"} :
             registry' = [registry EXCEPT ![warming] = state]
  /\ UNCHANGED <<service, link, session, queue, shut, arrived, worker, sent>>

\* CapabilityRegistry.supported and get: what can be agreed, and routed.
supported == {Factories[i] : i \in {j \in Entries : registry[j] = "ready"}}

\* handle_exit: uvicorn closes the connections and waits for the sessions.
handle_exit ==
  /\ service = "up" /\ service' = "stopping"
  /\ link' = IF link = "open" THEN "lost" ELSE link
  /\ UNCHANGED <<registry, warming, session, queue, shut, arrived, worker,
                 sent>>

\* The end of lifespan: warm-up is cancelled and awaited, then the registry
\* closes every capability.
lifespan ==
  /\ service = "stopping" /\ session.pc \in {"none", "ended"}
  /\ service' = "down"
  /\ UNCHANGED <<registry, warming, link, session, queue, shut, arrived,
                 worker, sent>>

\* The peer goes away.
Disconnects ==
  /\ link = "open" /\ link' = "lost"
  /\ UNCHANGED <<registry, warming, service, session, queue, shut, arrived,
                 worker, sent>>

-----------------------------------------------------------------------------
(* The session task up to its first frame.                                 *)

Stays == UNCHANGED <<registry, warming, service, sent>>
NoPump == UNCHANGED <<queue, shut, arrived, worker>>

Finish(end) == session' = [session EXCEPT !.pc = "ended", !.end = end]

\* The endpoint accepts the WebSocket and the runner waits for an offer.
session_endpoint ==
  /\ service = "up" /\ link = "open" /\ session.pc = "none"
  /\ session' = [session EXCEPT !.pc = "offer"]
  /\ UNCHANGED link /\ Stays /\ NoPump

\* negotiate: the offered capabilities that are supported.  Their order is
\* the offer's, which the session keeps.
Offered(offer) == {offer[i] : i \in DOMAIN offer}
MutantOffersWarming(offer) ==
  Offered(offer)
    \cap {Factories[i] : i \in {j \in Entries : registry[j] # "absent"}}
negotiate(offer) == Offered(offer) \cap supported

\* _await_offer and _authenticate succeed; _agree negotiates and sends.
_await_offer(offer) ==
  /\ session.pc = "offer"
  /\ session' = [session EXCEPT !.pc = "agree", !.offer = offer,
                               !.agreed = negotiate(offer)]
  /\ UNCHANGED link /\ Stays /\ NoPump

\* No offer in time, a first message that is none, a wrong credential.
Refused(end) ==
  /\ session.pc = "offer"
  /\ session' = [session EXCEPT !.pc = "refuse", !.end = end]
  /\ UNCHANGED link /\ Stays /\ NoPump

\* _refuse: the reason is sent and the connection closed.
_refuse ==
  /\ session.pc = "refuse"
  /\ \/ link = "open" /\ link' = "closed" /\ Finish(session.end)
     \/ link = "lost" /\ UNCHANGED link /\ Finish("going_away")
  /\ Stays /\ NoPump

\* The agreement is sent: _agree looks the capabilities up again, and _pump
\* creates the queue and the pipeline task.
_agree ==
  /\ session.pc = "agree" /\ link = "open"
  /\ session' = [session EXCEPT
       !.pc = "receive",
       !.routed = session.agreed \cap supported]
  /\ worker' = [worker EXCEPT !.pc = "look"]
  /\ UNCHANGED <<link, queue, shut, arrived>> /\ Stays

\* TransportClosedError before there is a pipeline: the receive of the offer
\* or the send of the agreement raises it.
Vanished ==
  /\ session.pc \in {"offer", "agree"} /\ link = "lost"
  /\ Finish("going_away")
  /\ UNCHANGED link /\ Stays /\ NoPump

-----------------------------------------------------------------------------
(* The session task while it receives.                                     *)

\* A variant that does not say that a frame has arrived.
MutantPutSilently(frame) ==
  /\ queue' = IF Len(queue) < Bound THEN Append(queue, frame)
                                    ELSE Append(Tail(queue), frame)
  /\ UNCHANGED arrived

\* FrameQueue.put: at the bound the oldest waiting frame makes room.
put(frame) ==
  /\ queue' = IF Len(queue) < Bound THEN Append(queue, frame)
                                    ELSE Append(Tail(queue), frame)
  /\ arrived' = TRUE

_receive_frames ==
  /\ session.pc = "receive" /\ link # "closed" /\ session.received < MaxFrames
  /\ put(session.received + 1)
  /\ session' = [session EXCEPT
       !.received = @ + 1,
       !.dropped = IF Len(queue) < Bound THEN @ ELSE @ + 1]
  /\ UNCHANGED <<link, shut, worker>> /\ Stays

\* A message too large, a frame or a control message that does not parse, or
\* one that is not a client's: reported, and the session goes on.
Malformed ==
  /\ session.pc = "receive"
  /\ session' = [session EXCEPT !.pc = "report"]
  /\ UNCHANGED link /\ Stays /\ NoPump

_report_malformed ==
  /\ session.pc = "report" /\ link = "open"
  /\ session' = [session EXCEPT !.pc = "receive"]
  /\ UNCHANGED link /\ Stays /\ NoPump

\* _handle_control: the client asks to close, and is closed before anything
\* else happens.
_handle_control ==
  /\ session.pc = "receive"
  /\ link' = IF link = "open" THEN "closed" ELSE link
  /\ session' = [session EXCEPT !.pc = "closing"]
  /\ Stays /\ NoPump

\* The `finally` of _pump: the queue is closed and the worker awaited.
MutantCloseSilently(end) ==
  /\ session' = [session EXCEPT !.pc = "drain", !.end = end]
  /\ shut' = TRUE
  /\ UNCHANGED <<link, queue, worker, arrived>> /\ Stays
Unwind(end) ==
  /\ session' = [session EXCEPT !.pc = "drain", !.end = end]
  /\ shut' = TRUE /\ arrived' = TRUE
  /\ UNCHANGED <<link, queue, worker>> /\ Stays

_pump ==
  \/ session.pc = "closing" /\ Unwind("going_away")
  \/ session.pc \in {"receive", "report"} /\ link = "lost"
       /\ Unwind("going_away")

\* _drain: the worker has ended; how it failed is not this session's outcome.
MutantDrainAbandons ==
  /\ session.pc = "drain"
  /\ Finish(session.end)
  /\ UNCHANGED link /\ Stays /\ NoPump
_drain ==
  /\ session.pc = "drain" /\ WorkerEnded
  /\ Finish(session.end)
  /\ UNCHANGED link /\ Stays /\ NoPump

\* The session task is cancelled where it waits.  In _drain it waits for the
\* worker, so the cancellation reaches the worker first, and the session ends
\* once the worker has.
Counted == session.cancels < MaxCancels
Cancelled ==
  /\ Counted
  /\ \/ /\ session.pc \in {"offer", "refuse", "agree"}
        /\ session' = [session EXCEPT !.pc = "ended", !.end = "cancelled",
                                      !.cancels = @ + 1]
        /\ UNCHANGED link /\ Stays /\ NoPump
     \/ /\ session.pc \in {"receive", "report", "closing"}
        /\ session' = [session EXCEPT !.pc = "drain", !.end = "cancelled",
                                      !.cancels = @ + 1]
        /\ shut' = TRUE /\ arrived' = TRUE
        /\ UNCHANGED <<link, queue, worker>> /\ Stays
     \/ /\ session.pc = "drain"
        /\ session' = [session EXCEPT !.end = "cancelled", !.cancels = @ + 1]
        /\ worker' = [worker EXCEPT !.cancel = ~WorkerEnded]
        /\ UNCHANGED <<link, queue, shut, arrived>> /\ Stays

-----------------------------------------------------------------------------
(* The pipeline task.                                                      *)

Others == UNCHANGED <<registry, warming, service, link, session, shut>>

\* FramePipeline.run takes up the next frame; FrameQueue.get looks at the
\* queue, at `_closed`, and only then clears the event and waits, without a
\* point between at which another task could run.  process decodes what it
\* got: no image is reported, an image goes to the first capability.
get ==
  /\ \/ worker.pc = "look"
     \/ worker.pc = "wait" /\ arrived
  /\ ~worker.cancel
  /\ \/ /\ queue # <<>>
        /\ queue' = Tail(queue)
        /\ \E pc \in {"report", "process"} :
             worker' = [worker EXCEPT !.pc = pc, !.frame = Head(queue),
                                      !.given = {}]
        /\ UNCHANGED arrived
     \/ /\ queue = <<>> /\ shut
        /\ worker' = [worker EXCEPT !.pc = "stopped"]
        /\ UNCHANGED <<queue, arrived>>
     \/ /\ queue = <<>> /\ ~shut
        /\ worker' = [worker EXCEPT !.pc = "wait"]
        /\ arrived' = FALSE
        /\ UNCHANGED queue
  /\ Others /\ UNCHANGED sent

\* process asks the agreed capabilities in the order of the offer.
FirstUnasked(i) ==
  /\ session.offer[i] \in session.routed \ worker.given
  /\ \A j \in DOMAIN session.offer :
       j < i => session.offer[j] \notin session.routed \ worker.given

\* _answer: the capability answers, or raises, overruns its time or answers
\* with a payload that is not its own.
_answer ==
  /\ worker.pc = "process" /\ ~worker.cancel
  /\ \E i \in DOMAIN session.offer, kind \in {"result", "failed"} :
       /\ FirstUnasked(i)
       /\ worker' = [worker EXCEPT !.pc = "deliver", !.kind = kind,
                                   !.asked = session.offer[i]]
  /\ Others /\ UNCHANGED <<queue, arrived, sent>>

\* process has no capability left to ask.
process ==
  /\ worker.pc = "process" /\ ~worker.cancel
  /\ worker.given = session.routed
  /\ worker' = [worker EXCEPT !.pc = "look", !.frame = 0]
  /\ Others /\ UNCHANGED <<queue, arrived, sent>>

\* _deliver: the answer of a capability, result or error, is sent.
_deliver ==
  /\ worker.pc = "deliver" /\ ~worker.cancel /\ link = "open"
  /\ sent' = Append(sent, [frame |-> worker.frame,
                           by |-> worker.asked, kind |-> worker.kind])
  /\ worker' = [worker EXCEPT !.pc = "process",
                              !.given = @ \cup {worker.asked}]
  /\ Others /\ UNCHANGED <<queue, arrived>>

\* _report: the frame was not an image.
_report ==
  /\ worker.pc = "report" /\ ~worker.cancel /\ link = "open"
  /\ sent' = Append(sent, [frame |-> worker.frame, kind |-> "malformed"])
  /\ worker' = [worker EXCEPT !.pc = "look", !.frame = 0]
  /\ Others /\ UNCHANGED <<queue, arrived>>

\* A send raises TransportClosedError, and the pipeline stops with it.
SendFails ==
  /\ worker.pc \in {"deliver", "report"} /\ ~worker.cancel /\ link # "open"
  /\ worker' = [worker EXCEPT !.pc = "failed"]
  /\ Others /\ UNCHANGED <<queue, arrived, sent>>

\* CancelledError, wherever the worker waits.
WorkerCancelled ==
  /\ worker.cancel /\ ~WorkerEnded
  /\ worker' = [worker EXCEPT !.pc = "cancelled"]
  /\ Others /\ UNCHANGED <<queue, arrived, sent>>

-----------------------------------------------------------------------------
Before ==
  \/ session_endpoint \/ _refuse \/ _agree \/ Vanished
  \/ \E offer \in Offers : _await_offer(offer)
  \/ \E end \in {"unauthenticated", "protocol_error"} : Refused(end)
Receiving ==
  \/ _receive_frames \/ Malformed \/ _report_malformed \/ _handle_control
  \/ _pump \/ _drain
Pipeline ==
  get \/ _answer \/ process \/ _deliver \/ _report \/ SendFails
      \/ WorkerCancelled
Service == warm_up \/ handle_exit \/ lifespan

Next == Before \/ Receiving \/ Pipeline \/ Service \/ Disconnects \/ Cancelled

Spec == Init /\ [][Next]_vars

(* The loop runs every task that is ready; the first message is bounded by  *)
(* the handshake timeout and a capability by its own, so both answer.  A    *)
(* peer may stay silent for as long as it likes once the session is open,   *)
(* but a connection that is gone is noticed.                                *)
Fairness ==
  /\ WF_vars(Before) /\ WF_vars(Pipeline)
  /\ WF_vars(_report_malformed) /\ WF_vars(_pump) /\ WF_vars(_drain)
  /\ WF_vars(warm_up)

FairSpec == Spec /\ Fairness

-----------------------------------------------------------------------------
TypeOK ==
  /\ registry \in [Entries -> {"absent", "unhealthy", "warming", "ready"}]
  /\ warming \in 1..(Len(Factories) + 1)
  /\ service \in {"up", "stopping", "down"}
  /\ link \in {"open", "lost", "closed"}
  /\ session \in Sessions /\ worker \in Workers
  /\ queue \in Seq(1..MaxFrames) /\ Len(queue) <= Bound
  /\ shut \in BOOLEAN /\ arrived \in BOOLEAN

\* The promise this session implements.
Promise == INSTANCE FrameStream WITH
  agreed <- session.routed, accepted <- session.received,
  dropped <- session.dropped, waiting <- queue,
  hand <- worker.frame, given <- worker.given, out <- sent,
  over <- session.pc = "ended"

\* Frames are answered in order, each agreed capability once, oldest dropped
\* first, and nothing happens to a frame after the session ended: a pipeline
\* that outlived its session would break this (runner.py:447, queue.py:95).
KeepsPromise == Promise!Spec

\* No wake-up is lost: a worker asleep on an unset event has nothing queued
\* and no close to notice (queue.py:126-151).
NoLostWakeup ==
  worker.pc = "wait" /\ ~arrived => queue = <<>> /\ ~shut

\* Every capability the client was told it gets is one its frames go to,
\* though the registry warms up between the two looks (runner.py:400-410).
AgreedIsRouted ==
  worker.pc # "none" => session.routed = session.agreed

\* A session whose connection is gone or that was asked to close ends, with
\* its pipeline (runner.py:441-477).
SessionEnds ==
  (session.pc \notin {"none", "ended"} /\ link # "open")
    ~> (session.pc = "ended" /\ (worker.pc = "none" \/ WorkerEnded))
=============================================================================
