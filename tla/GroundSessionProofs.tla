------------------------- MODULE GroundSessionProofs -------------------------
(***************************************************************************)
(* The safety of GroundSession for every set of capabilities, every queue  *)
(* bound and any number of frames and cancellations, and the safety half   *)
(* of the refinement: every step of the session is a step of FrameStream   *)
(* or changes nothing a client can tell.                                   *)
(***************************************************************************)
EXTENDS GroundSession, TLAPS

\* What is assumed of the constants is used throughout.
USE GroundSessionAssumption

\* The pipeline task exists from the agreement on and ends before the session
\* does.
TasksInStep ==
  /\ session.pc \in {"none", "offer", "refuse", "agree"}
       => worker.pc = "none" /\ session.received = 0
  /\ session.pc \in {"receive", "report", "closing", "drain"}
       => worker.pc # "none"
  /\ session.pc = "ended" => worker.pc = "none" \/ WorkerEnded
  /\ worker.pc = "none" => worker.cancel = FALSE

\* What the client is about to be told can still be routed: the registry never
\* takes a ready capability back.
AgreedIsReady == session.pc = "agree" => session.agreed \subseteq supported

\* The frame in the worker's hands, by what the worker is at.
HandInStep ==
  /\ worker.pc \in {"none", "look", "wait"} => worker.frame = 0
  /\ worker.pc \in {"process", "deliver", "report"} => worker.frame # 0
  /\ worker.pc = "report" => worker.given = {}
  /\ worker.pc = "deliver" => worker.asked \in session.routed \ worker.given

\* Only a frame that was accepted is dropped.
DropsAreFrames == session.dropped <= session.received

IInv ==
  /\ TypeOK /\ NoLostWakeup /\ AgreedIsRouted
  /\ TasksInStep /\ AgreedIsReady /\ HandInStep /\ DropsAreFrames

-----------------------------------------------------------------------------
\* What can be agreed, of the capabilities there are.
LEMMA Negotiated ==
  ASSUME NEW offer \in Offers
  PROVE  negotiate(offer) \subseteq Capabilities /\ negotiate(offer) \subseteq supported
<1>1. offer \in Seq(Capabilities)
  OBVIOUS
<1>2. \A i \in DOMAIN offer : offer[i] \in Capabilities
  BY <1>1
<1>3. QED
  BY <1>2 DEF negotiate, Offered

\* warm_up only ever adds to what is supported.
LEMMA SupportedGrows ==
  ASSUME TypeOK, Next
  PROVE  supported \subseteq supported'
<1>1. CASE warm_up
  <2>1. SUFFICES ASSUME NEW i \in Entries, registry[i] = "ready"
                 PROVE  registry'[i] = "ready"
    BY DEF supported
  <2>2. QED
    BY <1>1, <2>1 DEF warm_up, TypeOK
<1>2. CASE UNCHANGED registry
  BY <1>2 DEF supported
<1>3. QED
  BY <1>1, <1>2
  DEF Next, Before, Receiving, Pipeline, Service, session_endpoint, _refuse,
      _agree, Vanished, _await_offer, Refused, _receive_frames, Malformed,
      _report_malformed, _handle_control, _pump, _drain, Unwind, get, _answer,
      process, _deliver, _report, SendFails, WorkerCancelled, handle_exit,
      lifespan, Disconnects, Cancelled, Stays, Others

\* The steps of the session task before there is a pipeline.
LEMMA BeforeStep ==
  ASSUME IInv, Before, supported \subseteq supported'
  PROVE  IInv'
<1>1. CASE session_endpoint
  BY <1>1 DEF session_endpoint, Stays, NoPump, IInv, TypeOK, Sessions,
     NoLostWakeup, AgreedIsRouted, TasksInStep, AgreedIsReady, HandInStep,
     DropsAreFrames, WorkerEnded
<1>2. CASE _refuse
  <2>1. session' \in Sessions /\ link' \in {"open", "lost", "closed"}
    BY <1>2 DEF _refuse, Finish, Ends, IInv, TypeOK, Sessions
  <2>2. TypeOK'
    BY <1>2, <2>1 DEF _refuse, Stays, NoPump, IInv, TypeOK
  <2>3. NoLostWakeup' /\ AgreedIsRouted' /\ AgreedIsReady'
    BY <1>2 DEF _refuse, Finish, Stays, NoPump, IInv, TypeOK, Sessions,
         NoLostWakeup, AgreedIsRouted, AgreedIsReady
  <2>4. TasksInStep' /\ HandInStep' /\ DropsAreFrames'
    BY <1>2 DEF _refuse, Finish, Stays, NoPump, IInv, TypeOK, Sessions,
         TasksInStep, HandInStep, DropsAreFrames, WorkerEnded
  <2>5. QED
    BY <2>2, <2>3, <2>4 DEF IInv
<1>3. CASE _agree
  BY <1>3 DEF _agree, Stays, IInv, TypeOK, Sessions, Workers, NoLostWakeup,
     AgreedIsRouted, TasksInStep, AgreedIsReady, HandInStep, DropsAreFrames,
     WorkerEnded
<1>4. CASE Vanished
  BY <1>4 DEF Vanished, Finish, Ends, Stays, NoPump, IInv, TypeOK, Sessions,
     NoLostWakeup, AgreedIsRouted, TasksInStep, AgreedIsReady, HandInStep,
     DropsAreFrames, WorkerEnded
<1>5. ASSUME NEW offer \in Offers, _await_offer(offer) PROVE IInv'
  BY <1>5, Negotiated DEF _await_offer, Stays, NoPump, IInv, TypeOK, Sessions,
     NoLostWakeup, AgreedIsRouted, TasksInStep, AgreedIsReady, HandInStep,
     DropsAreFrames, WorkerEnded
<1>6. ASSUME NEW end \in {"unauthenticated", "protocol_error"}, Refused(end) PROVE IInv'
  BY <1>6 DEF Refused, Ends, Stays, NoPump, IInv, TypeOK, Sessions,
     NoLostWakeup, AgreedIsRouted, TasksInStep, AgreedIsReady, HandInStep,
     DropsAreFrames, WorkerEnded
<1>7. QED
  BY <1>1, <1>2, <1>3, <1>4, <1>5, <1>6 DEF Before

\* What put makes of the queue.
LEMMA PutTyped ==
  ASSUME TypeOK, NEW frame \in 1..MaxFrames, put(frame)
  PROVE  queue' \in Seq(1..MaxFrames) /\ Len(queue') <= Bound
<1>1. queue \in Seq(1..MaxFrames) /\ Len(queue) \in Nat /\ Len(queue) <= Bound
  BY DEF TypeOK
<1>2. CASE Len(queue) < Bound
  BY <1>1, <1>2 DEF put
<1>3. CASE Len(queue) = Bound
  <2>1. queue # <<>>
    BY <1>1, <1>3
  <2>2. Tail(queue) \in Seq(1..MaxFrames) /\ Len(Tail(queue)) = Bound - 1
    BY <1>1, <1>3, <2>1
  <2>3. queue' = Append(Tail(queue), frame)
    BY <1>3 DEF put
  <2>4. QED
    BY <2>2, <2>3
<1>4. QED
  BY <1>1, <1>2, <1>3

\* The steps of the session task while it receives, and its cancellation.
LEMMA ReceivingStep ==
  ASSUME IInv, Receiving \/ Cancelled, supported \subseteq supported'
  PROVE  IInv'
<1>1. CASE _receive_frames
  <2>1. TypeOK'
    <3>1. /\ session.received \in 0..MaxFrames /\ session.received < MaxFrames
          /\ session.dropped \in 0..MaxFrames /\ session.dropped <= session.received
      BY <1>1 DEF _receive_frames, IInv, TypeOK, Sessions, DropsAreFrames
    <3>2. /\ session.received + 1 \in 1..MaxFrames
          /\ session.received + 1 \in 0..MaxFrames
          /\ session.dropped + 1 \in 0..MaxFrames
      BY <3>1
    <3>3. queue' \in Seq(1..MaxFrames) /\ Len(queue') <= Bound
      BY <1>1, <3>2, PutTyped DEF _receive_frames, IInv
    <3>4. session' \in Sessions
      BY <1>1, <3>1, <3>2 DEF _receive_frames, IInv, TypeOK, Sessions
    <3>5. QED
      BY <1>1, <3>3, <3>4 DEF _receive_frames, put, Stays, IInv, TypeOK
  <2>2. NoLostWakeup' /\ AgreedIsRouted' /\ AgreedIsReady'
    BY <1>1 DEF _receive_frames, put, Stays, IInv, TypeOK, Sessions,
       NoLostWakeup,
         AgreedIsRouted, AgreedIsReady, TasksInStep
  <2>3. TasksInStep' /\ DropsAreFrames'
    BY <1>1 DEF _receive_frames, Stays, IInv, TypeOK, Sessions, TasksInStep,
       DropsAreFrames, WorkerEnded
  <2>4. HandInStep'
    BY <1>1 DEF _receive_frames, Stays, IInv, TypeOK, Sessions, HandInStep
  <2>5. QED
    BY <2>1, <2>2, <2>3, <2>4 DEF IInv
<1>2. CASE Malformed
  <2>1. TypeOK'
    <3>1. session' \in Sessions
      BY <1>2 DEF Malformed, IInv, TypeOK, Sessions
    <3>2. QED
      BY <1>2, <3>1 DEF Malformed, Stays, NoPump, IInv, TypeOK
  <2>2. NoLostWakeup' /\ AgreedIsRouted' /\ AgreedIsReady'
    BY <1>2 DEF Malformed, Stays, NoPump, IInv, TypeOK, Sessions, Workers,
       NoLostWakeup,
         AgreedIsRouted, AgreedIsReady, TasksInStep
  <2>3. TasksInStep' /\ DropsAreFrames'
    BY <1>2 DEF Malformed, Stays, NoPump, IInv, TypeOK, Sessions, Workers,
       TasksInStep, DropsAreFrames, WorkerEnded
  <2>4. HandInStep'
    BY <1>2 DEF Malformed, Stays, NoPump, IInv, TypeOK, Sessions, Workers,
       HandInStep, TasksInStep
  <2>5. QED
    BY <2>1, <2>2, <2>3, <2>4 DEF IInv
<1>8. CASE _report_malformed
  <2>1. TypeOK'
    BY <1>8 DEF _report_malformed, Stays, NoPump, IInv, TypeOK, Sessions,
       Workers, Ends, DropsAreFrames, WorkerEnded
  <2>2. NoLostWakeup' /\ AgreedIsRouted' /\ AgreedIsReady'
    BY <1>8 DEF _report_malformed, Stays, NoPump, IInv, TypeOK, Sessions,
       Workers, NoLostWakeup,
         AgreedIsRouted, AgreedIsReady, TasksInStep
  <2>3. TasksInStep' /\ DropsAreFrames'
    BY <1>8 DEF _report_malformed, Stays, NoPump, IInv, TypeOK, Sessions,
       Workers, TasksInStep, DropsAreFrames, WorkerEnded
  <2>4. HandInStep'
    BY <1>8 DEF _report_malformed, Stays, NoPump, IInv, TypeOK, Sessions,
       Workers, HandInStep, TasksInStep
  <2>5. QED
    BY <2>1, <2>2, <2>3, <2>4 DEF IInv
<1>3. CASE _pump
  <2>1. TypeOK'
    BY <1>3 DEF _pump, Unwind, Stays, IInv, TypeOK, Sessions, Workers, Ends,
       DropsAreFrames, WorkerEnded
  <2>2. NoLostWakeup' /\ AgreedIsRouted' /\ AgreedIsReady'
    BY <1>3 DEF _pump, Unwind, Stays, IInv, TypeOK, Sessions, Workers,
       NoLostWakeup,
         AgreedIsRouted, AgreedIsReady, TasksInStep
  <2>3. TasksInStep' /\ DropsAreFrames'
    BY <1>3 DEF _pump, Unwind, Stays, IInv, TypeOK, Sessions, Workers,
       TasksInStep, DropsAreFrames, WorkerEnded
  <2>4. HandInStep'
    BY <1>3 DEF _pump, Unwind, Stays, IInv, TypeOK, Sessions, Workers,
       HandInStep, TasksInStep
  <2>5. QED
    BY <2>1, <2>2, <2>3, <2>4 DEF IInv
<1>5. CASE _handle_control
  <2>1. TypeOK'
    <3>1. session' \in Sessions
      BY <1>5 DEF _handle_control, IInv, TypeOK, Sessions
    <3>2. link' \in {"open", "lost", "closed"}
      BY <1>5 DEF _handle_control, IInv, TypeOK
    <3>3. QED
      BY <1>5, <3>1, <3>2 DEF _handle_control, Stays, NoPump, IInv, TypeOK
  <2>2. NoLostWakeup' /\ AgreedIsRouted' /\ AgreedIsReady'
    BY <1>5 DEF _handle_control, Stays, NoPump, IInv, TypeOK, Sessions,
       Workers, NoLostWakeup,
         AgreedIsRouted, AgreedIsReady, TasksInStep
  <2>3. TasksInStep' /\ DropsAreFrames'
    BY <1>5 DEF _handle_control, Stays, NoPump, IInv, TypeOK, Sessions,
       Workers, TasksInStep, DropsAreFrames, WorkerEnded
  <2>4. HandInStep'
    BY <1>5 DEF _handle_control, Stays, NoPump, IInv, TypeOK, Sessions,
       Workers, HandInStep, TasksInStep
  <2>5. QED
    BY <2>1, <2>2, <2>3, <2>4 DEF IInv
<1>6. CASE _drain
  <2>1. TypeOK'
    BY <1>6 DEF _drain, Finish, Stays, NoPump, IInv, TypeOK, Sessions, Workers,
       Ends, DropsAreFrames, WorkerEnded
  <2>2. NoLostWakeup' /\ AgreedIsRouted' /\ AgreedIsReady'
    BY <1>6 DEF _drain, Finish, Stays, NoPump, IInv, TypeOK, Sessions, Workers,
       NoLostWakeup,
         AgreedIsRouted, AgreedIsReady, TasksInStep
  <2>3. TasksInStep' /\ DropsAreFrames'
    BY <1>6 DEF _drain, Finish, Stays, NoPump, IInv, TypeOK, Sessions, Workers,
       TasksInStep, DropsAreFrames, WorkerEnded
  <2>4. HandInStep'
    BY <1>6 DEF _drain, Finish, Stays, NoPump, IInv, TypeOK, Sessions, Workers,
       HandInStep, TasksInStep
  <2>5. QED
    BY <2>1, <2>2, <2>3, <2>4 DEF IInv
<1>4. CASE Cancelled
  <2>1. CASE /\ session.pc \in {"offer", "refuse", "agree"}
             /\ session' = [session EXCEPT !.pc = "ended", !.end = "cancelled",
                                           !.cancels = @ + 1]
             /\ UNCHANGED link /\ Stays /\ NoPump
    <3>1. session.cancels + 1 \in 0..MaxCancels
      BY <1>4 DEF Cancelled, Counted, IInv, TypeOK, Sessions
    <3>2. session' \in Sessions /\ worker' \in Workers
      <4>1. session' \in Sessions
        BY <2>1, <3>1 DEF IInv, TypeOK, Sessions, Ends
      <4>2. worker' = worker /\ worker \in Workers
        BY <2>1 DEF NoPump, IInv, TypeOK
      <4>3. QED
        BY <4>1, <4>2
    <3>3. TypeOK'
      BY <2>1, <3>2 DEF Stays, NoPump, IInv, TypeOK
    <3>4. NoLostWakeup' /\ AgreedIsRouted' /\ AgreedIsReady'
      BY <2>1 DEF Stays, NoPump, IInv, TypeOK, Sessions, Workers,
           NoLostWakeup, AgreedIsRouted, AgreedIsReady, TasksInStep
    <3>5. TasksInStep' /\ DropsAreFrames' /\ HandInStep'
      BY <2>1 DEF Stays, NoPump, IInv, TypeOK, Sessions, Workers,
           TasksInStep, DropsAreFrames, HandInStep, WorkerEnded
    <3>6. QED
      BY <3>3, <3>4, <3>5 DEF IInv
  <2>2. CASE /\ session.pc \in {"receive", "report", "closing"}
             /\ session' = [session EXCEPT !.pc = "drain", !.end = "cancelled",
                                           !.cancels = @ + 1]
             /\ shut' = TRUE /\ arrived' = TRUE
             /\ UNCHANGED <<link, queue, worker>> /\ Stays
    <3>1. session.cancels + 1 \in 0..MaxCancels
      BY <1>4 DEF Cancelled, Counted, IInv, TypeOK, Sessions
    <3>2. session' \in Sessions /\ worker' \in Workers
      <4>1. session' \in Sessions
        BY <2>2, <3>1 DEF IInv, TypeOK, Sessions, Ends
      <4>2. worker' = worker /\ worker \in Workers
        BY <2>2 DEF IInv, TypeOK
      <4>3. QED
        BY <4>1, <4>2
    <3>3. TypeOK'
      BY <2>2, <3>2 DEF Stays, NoPump, IInv, TypeOK
    <3>4. NoLostWakeup' /\ AgreedIsRouted' /\ AgreedIsReady'
      BY <2>2 DEF Stays, NoPump, IInv, TypeOK, Sessions, Workers,
           NoLostWakeup, AgreedIsRouted, AgreedIsReady, TasksInStep
    <3>5. TasksInStep' /\ DropsAreFrames' /\ HandInStep'
      BY <2>2 DEF Stays, NoPump, IInv, TypeOK, Sessions, Workers,
           TasksInStep, DropsAreFrames, HandInStep, WorkerEnded
    <3>6. QED
      BY <3>3, <3>4, <3>5 DEF IInv
  <2>3. CASE /\ session.pc = "drain"
             /\ session' = [session EXCEPT !.end = "cancelled", !.cancels = @ + 1]
             /\ worker' = [worker EXCEPT !.cancel = ~WorkerEnded]
             /\ UNCHANGED <<link, queue, shut, arrived>> /\ Stays
    <3>1. session.cancels + 1 \in 0..MaxCancels
      BY <1>4 DEF Cancelled, Counted, IInv, TypeOK, Sessions
    <3>2. session' \in Sessions /\ worker' \in Workers
      BY <2>3, <3>1 DEF IInv, TypeOK, Sessions, Workers, Ends
    <3>3. TypeOK'
      BY <2>3, <3>2 DEF Stays, NoPump, IInv, TypeOK
    <3>4. NoLostWakeup' /\ AgreedIsRouted' /\ AgreedIsReady'
      BY <2>3 DEF Stays, NoPump, IInv, TypeOK, Sessions, Workers,
           NoLostWakeup, AgreedIsRouted, AgreedIsReady, TasksInStep
    <3>5. TasksInStep' /\ DropsAreFrames' /\ HandInStep'
      BY <2>3 DEF Stays, NoPump, IInv, TypeOK, Sessions, Workers,
           TasksInStep, DropsAreFrames, HandInStep, WorkerEnded
    <3>6. QED
      BY <3>3, <3>4, <3>5 DEF IInv
  <2>4. QED
    BY <1>4, <2>1, <2>2, <2>3 DEF Cancelled
<1>7. QED
  BY <1>1, <1>2, <1>3, <1>4, <1>5, <1>6, <1>8 DEF Receiving

\* The worker stays a worker, and what it takes from the queue was there.
LEMMA WorkerTyped ==
  ASSUME IInv, Pipeline
  PROVE  worker' \in Workers /\ queue' \in Seq(1..MaxFrames) /\ Len(queue') <= Bound
<1>1. /\ worker \in Workers /\ queue \in Seq(1..MaxFrames)
      /\ Len(queue) <= Bound /\ Len(queue) \in Nat
  BY DEF IInv, TypeOK
<1>2. CASE get /\ queue # <<>>
  <2>1. /\ Head(queue) \in 1..MaxFrames /\ Head(queue) \in 0..MaxFrames
        /\ Tail(queue) \in Seq(1..MaxFrames) /\ Len(Tail(queue)) <= Bound
    BY <1>1, <1>2
  <2>2. PICK pc \in {"report", "process"} :
          worker' = [worker EXCEPT !.pc = pc, !.frame = Head(queue), !.given = {}]
    BY <1>2 DEF get
  <2>3. QED
    BY <1>1, <1>2, <2>1, <2>2 DEF get, Workers
<1>3. CASE get /\ queue = <<>>
  <2>1. \/ worker' = [worker EXCEPT !.pc = "stopped"]
        \/ worker' = [worker EXCEPT !.pc = "wait"]
    BY <1>3 DEF get
  <2>2. QED
    BY <1>1, <1>3, <2>1 DEF get, Workers
<1>4. CASE _answer
  <2>1. PICK i \in DOMAIN session.offer, kind \in {"result", "failed"} :
          worker' = [worker EXCEPT !.pc = "deliver", !.kind = kind,
                                   !.asked = session.offer[i]]
    BY <1>4 DEF _answer
  <2>2. session.offer \in Seq(Capabilities)
    BY DEF IInv, TypeOK, Sessions
  <2>3. session.offer[i] \in Capabilities
    BY <2>2
  <2>4. QED
    BY <1>1, <1>4, <2>1, <2>3 DEF _answer, Workers
<1>5. CASE _deliver
  <2>1. worker.asked \in Capabilities
    BY <1>5 DEF _deliver, IInv, TypeOK, Sessions, HandInStep
  <2>2. QED
    BY <1>1, <1>5, <2>1 DEF _deliver, Workers
<1>6. CASE process
  <2>1. worker' = [worker EXCEPT !.pc = "look", !.frame = 0] /\ 0 \in 0..MaxFrames
    BY <1>6 DEF process
  <2>2. QED
    BY <1>1, <1>6, <2>1 DEF process, Workers
<1>7. CASE _report
  <2>1. worker' = [worker EXCEPT !.pc = "look", !.frame = 0] /\ 0 \in 0..MaxFrames
    BY <1>7 DEF _report
  <2>2. QED
    BY <1>1, <1>7, <2>1 DEF _report, Workers
<1>8. CASE SendFails
  BY <1>1, <1>8 DEF SendFails, Workers
<1>9. CASE WorkerCancelled
  BY <1>1, <1>9 DEF WorkerCancelled, Workers
<1>10. QED
  BY <1>2, <1>3, <1>4, <1>5, <1>6, <1>7, <1>8, <1>9 DEF Pipeline

\* The steps of the pipeline task.
LEMMA PipelineStep ==
  ASSUME IInv, Pipeline, supported \subseteq supported'
  PROVE  IInv'
<1>1. CASE get
  <2>1. TypeOK'
    BY <1>1, WorkerTyped DEF get, Others, IInv, TypeOK
  <2>2. NoLostWakeup' /\ AgreedIsRouted' /\ AgreedIsReady'
    BY <1>1 DEF get, Others, IInv, TypeOK, Sessions, Workers, NoLostWakeup,
         AgreedIsRouted, AgreedIsReady, TasksInStep
  <2>3. TasksInStep' /\ DropsAreFrames'
    BY <1>1 DEF get, Others, IInv, TypeOK, Sessions, Workers, TasksInStep,
         DropsAreFrames, WorkerEnded
  <2>4. HandInStep'
    <3>1. CASE queue # <<>>
      <4>1. Head(queue) # 0 /\ worker \in Workers
        BY <3>1 DEF IInv, TypeOK
      <4>2. PICK pc \in {"report", "process"} :
              worker' = [worker EXCEPT !.pc = pc, !.frame = Head(queue), !.given = {}]
        BY <1>1, <3>1 DEF get
      <4>3. QED
        BY <1>1, <4>1, <4>2 DEF Workers, HandInStep
    <3>2. CASE queue = <<>>
      <4>1. /\ worker \in Workers /\ worker.frame = 0
            /\ \/ worker' = [worker EXCEPT !.pc = "stopped"]
               \/ worker' = [worker EXCEPT !.pc = "wait"]
        BY <1>1, <3>2 DEF get, IInv, TypeOK, HandInStep
      <4>2. QED
        BY <4>1 DEF Workers, HandInStep
    <3>3. QED
      BY <3>1, <3>2
  <2>5. QED
    BY <2>1, <2>2, <2>3, <2>4 DEF IInv
<1>2. CASE _answer
  <2>1. TypeOK'
    BY <1>2, WorkerTyped DEF _answer, FirstUnasked, Others, IInv, TypeOK
  <2>2. NoLostWakeup' /\ AgreedIsRouted' /\ AgreedIsReady'
    BY <1>2 DEF _answer, FirstUnasked, Others, IInv, TypeOK, Sessions, Workers,
       NoLostWakeup,
         AgreedIsRouted, AgreedIsReady, TasksInStep
  <2>3. TasksInStep' /\ DropsAreFrames'
    BY <1>2 DEF _answer, FirstUnasked, Others, IInv, TypeOK, Sessions, Workers,
       TasksInStep,
         DropsAreFrames, WorkerEnded
  <2>4. HandInStep'
    BY <1>2 DEF _answer, FirstUnasked, Others, IInv, TypeOK, Sessions, Workers,
       HandInStep,
         TasksInStep
  <2>5. QED
    BY <2>1, <2>2, <2>3, <2>4 DEF IInv
<1>3. CASE process
  <2>1. TypeOK'
    BY <1>3, WorkerTyped DEF process, Others, IInv, TypeOK
  <2>2. NoLostWakeup' /\ AgreedIsRouted' /\ AgreedIsReady'
    BY <1>3 DEF process, Others, IInv, TypeOK, Sessions, Workers, NoLostWakeup,
         AgreedIsRouted, AgreedIsReady, TasksInStep
  <2>3. TasksInStep' /\ DropsAreFrames'
    BY <1>3 DEF process, Others, IInv, TypeOK, Sessions, Workers, TasksInStep,
         DropsAreFrames, WorkerEnded
  <2>4. HandInStep'
    BY <1>3 DEF process, Others, IInv, TypeOK, Sessions, Workers, HandInStep,
         TasksInStep
  <2>5. QED
    BY <2>1, <2>2, <2>3, <2>4 DEF IInv
<1>4. CASE _deliver
  <2>1. TypeOK'
    BY <1>4, WorkerTyped DEF _deliver, Others, IInv, TypeOK
  <2>2. NoLostWakeup' /\ AgreedIsRouted' /\ AgreedIsReady'
    BY <1>4 DEF _deliver, Others, IInv, TypeOK, Sessions, Workers, NoLostWakeup,
         AgreedIsRouted, AgreedIsReady, TasksInStep
  <2>3. TasksInStep' /\ DropsAreFrames'
    BY <1>4 DEF _deliver, Others, IInv, TypeOK, Sessions, Workers, TasksInStep,
         DropsAreFrames, WorkerEnded
  <2>4. HandInStep'
    BY <1>4 DEF _deliver, Others, IInv, TypeOK, Sessions, Workers, HandInStep,
         TasksInStep
  <2>5. QED
    BY <2>1, <2>2, <2>3, <2>4 DEF IInv
<1>5. CASE _report
  <2>1. TypeOK'
    BY <1>5, WorkerTyped DEF _report, Others, IInv, TypeOK
  <2>2. NoLostWakeup' /\ AgreedIsRouted' /\ AgreedIsReady'
    BY <1>5 DEF _report, Others, IInv, TypeOK, Sessions, Workers, NoLostWakeup,
         AgreedIsRouted, AgreedIsReady, TasksInStep
  <2>3. TasksInStep' /\ DropsAreFrames'
    BY <1>5 DEF _report, Others, IInv, TypeOK, Sessions, Workers, TasksInStep,
         DropsAreFrames, WorkerEnded
  <2>4. HandInStep'
    BY <1>5 DEF _report, Others, IInv, TypeOK, Sessions, Workers, HandInStep,
         TasksInStep
  <2>5. QED
    BY <2>1, <2>2, <2>3, <2>4 DEF IInv
<1>6. CASE SendFails
  <2>1. TypeOK'
    BY <1>6, WorkerTyped DEF SendFails, Others, IInv, TypeOK
  <2>2. NoLostWakeup' /\ AgreedIsRouted' /\ AgreedIsReady'
    BY <1>6 DEF SendFails, Others, IInv, TypeOK, Sessions, Workers,
       NoLostWakeup,
         AgreedIsRouted, AgreedIsReady, TasksInStep
  <2>3. TasksInStep' /\ DropsAreFrames'
    BY <1>6 DEF SendFails, Others, IInv, TypeOK, Sessions, Workers, TasksInStep,
         DropsAreFrames, WorkerEnded
  <2>4. HandInStep'
    BY <1>6 DEF SendFails, Others, IInv, TypeOK, Sessions, Workers, HandInStep,
         TasksInStep
  <2>5. QED
    BY <2>1, <2>2, <2>3, <2>4 DEF IInv
<1>7. CASE WorkerCancelled
  <2>1. /\ worker' = [worker EXCEPT !.pc = "cancelled"] /\ worker \in Workers
        /\ UNCHANGED <<registry, warming, service, link, session, shut, queue,
                       arrived, sent>>
    BY <1>7 DEF WorkerCancelled, Others, IInv, TypeOK
  <2>2. worker.pc # "none"
    BY <1>7 DEF WorkerCancelled, IInv, TasksInStep
  <2>3. TypeOK'
    BY <1>7, <2>1, WorkerTyped DEF IInv, TypeOK
  <2>4. worker'.pc = "cancelled"
    BY <2>1 DEF Workers
  <2>5. NoLostWakeup' /\ AgreedIsRouted' /\ AgreedIsReady'
    BY <2>1, <2>2, <2>4 DEF IInv, NoLostWakeup, AgreedIsRouted, AgreedIsReady
  <2>6. TasksInStep' /\ DropsAreFrames' /\ HandInStep'
    BY <2>1, <2>2, <2>4
    DEF IInv, TasksInStep, DropsAreFrames, HandInStep, WorkerEnded
  <2>7. QED
    BY <2>3, <2>5, <2>6 DEF IInv
<1>8. QED
  BY <1>1, <1>2, <1>3, <1>4, <1>5, <1>6, <1>7 DEF Pipeline

\* The steps of the service and of the connection.
LEMMA ServiceStep ==
  ASSUME IInv, Service \/ Disconnects, supported \subseteq supported'
  PROVE  IInv'
<1>1. CASE warm_up
  BY <1>1 DEF warm_up, Entries, IInv, TypeOK, NoLostWakeup, AgreedIsRouted,
     TasksInStep, AgreedIsReady, HandInStep, DropsAreFrames, WorkerEnded
<1>2. CASE handle_exit \/ lifespan \/ Disconnects
  BY <1>2 DEF handle_exit, lifespan, Disconnects, IInv, TypeOK, NoLostWakeup,
     AgreedIsRouted, TasksInStep, AgreedIsReady, HandInStep, DropsAreFrames,
     WorkerEnded
<1>3. QED
  BY <1>1, <1>2 DEF Service

\* The invariant holds before there is a session.
LEMMA InvInit == Init => IInv
<1>1. SUFFICES ASSUME Init PROVE IInv
  OBVIOUS
<1>2. Len(Factories) \in Nat /\ 0 \in 0..MaxFrames /\ 0 \in 0..MaxCancels
  OBVIOUS
<1>3. session \in Sessions
  BY <1>1, <1>2 DEF Init, Sessions, Ends
<1>4. worker \in Workers
  BY <1>1, <1>2 DEF Init, Workers
<1>5. queue \in Seq(1..MaxFrames) /\ Len(queue) <= Bound
  BY <1>1 DEF Init
<1>6. TypeOK
  <2>1. registry \in [Entries -> {"absent", "unhealthy", "warming", "ready"}]
    BY <1>1 DEF Init
  <2>2. warming \in 1..(Len(Factories) + 1)
    BY <1>1, <1>2 DEF Init
  <2>3. QED
    BY <1>1, <1>3, <1>4, <1>5, <2>1, <2>2 DEF Init, TypeOK
<1>7. NoLostWakeup /\ AgreedIsRouted /\ TasksInStep /\ AgreedIsReady
  BY <1>1 DEF Init, NoLostWakeup, AgreedIsRouted, TasksInStep, AgreedIsReady
<1>8. HandInStep /\ DropsAreFrames
  BY <1>1 DEF Init, HandInStep, DropsAreFrames
<1>9. QED
  BY <1>6, <1>7, <1>8 DEF IInv

\* Every reachable state satisfies the invariant.
THEOREM Invariance == Spec => []IInv
<1>1. ASSUME IInv, [Next]_vars PROVE IInv'
  <2>1. CASE Next
    BY <1>1, <2>1, SupportedGrows, BeforeStep, ReceivingStep, PipelineStep,
       ServiceStep DEF Next, IInv
  <2>2. CASE UNCHANGED vars
    BY <1>1, <2>2 DEF vars, IInv, TypeOK, NoLostWakeup, AgreedIsRouted,
       TasksInStep, AgreedIsReady, HandInStep, DropsAreFrames, WorkerEnded,
       supported
  <2>3. QED
    BY <1>1, <2>1, <2>2
<1>2. QED
  BY InvInit, <1>1, PTL DEF Spec

\* The variables stay in their types; in particular the queue within its bound.
THEOREM TypeCorrectness == Spec => []TypeOK
<1>1. IInv => TypeOK
  BY DEF IInv
<1>2. QED
  BY Invariance, <1>1, PTL

\* No wake-up is lost, for every queue and whatever sets the event.
THEOREM WakeUps == Spec => []NoLostWakeup
<1>1. IInv => NoLostWakeup
  BY DEF IInv
<1>2. QED
  BY Invariance, <1>1, PTL

\* What a client was told it gets is what its frames go to, for every order in
\* which the registry warms up.
THEOREM Routing == Spec => []AgreedIsRouted
<1>1. IInv => AgreedIsRouted
  BY DEF IInv
<1>2. QED
  BY Invariance, <1>1, PTL

-----------------------------------------------------------------------------
(* The refinement.  Each step of the session is one of FrameStream's or    *)
(* leaves what it speaks of alone.                                         *)

\* The end of the session is the end of the stream, from wherever.
LEMMA Ending ==
  ASSUME TypeOK, session.pc # "ended", UNCHANGED <<queue, worker, sent>>,
         session'.pc = "ended", session'.routed = session.routed,
         session'.received = session.received,
         session'.dropped = session.dropped
  PROVE  Promise!End
BY DEF Promise!End

\* A step that only moves the session task between its own places.
LEMMA Moving ==
  ASSUME TypeOK, session.pc # "ended", session'.pc # "ended",
         UNCHANGED <<queue, sent>>,
         worker'.frame = worker.frame, worker'.given = worker.given,
         session'.routed = session.routed, session'.received = session.received,
         session'.dropped = session.dropped
  PROVE  UNCHANGED Promise!vars
BY DEF Promise!vars

\* The session task's steps, the service's and the connection's.
LEMMA SessionRefines ==
  ASSUME IInv, Before \/ Receiving \/ Cancelled \/ Service \/ Disconnects
  PROVE  Promise!Next \/ UNCHANGED Promise!vars
<1>1. session \in Sessions
  BY DEF IInv, TypeOK
<1>2. CASE _agree
  <2>1. /\ session.pc # "ended" /\ session.received = 0
        /\ session'.pc # "ended"
        /\ session'.routed \in SUBSET Capabilities
        /\ session'.received = session.received
        /\ session'.dropped = session.dropped
        /\ worker'.frame = worker.frame /\ worker'.given = worker.given
        /\ UNCHANGED <<queue, sent>>
    BY <1>1, <1>2 DEF _agree, Stays, IInv, TypeOK, Sessions, Workers,
       TasksInStep
  <2>2. Promise!Agree
    BY <2>1 DEF Promise!Agree
  <2>3. QED
    BY <2>2 DEF Promise!Next
<1>3. CASE _receive_frames
  <2>1. /\ session.pc # "ended" /\ session'.pc # "ended"
        /\ session'.routed = session.routed
        /\ session'.received = session.received + 1
        /\ session'.dropped = IF Len(queue) < Bound THEN session.dropped
                              ELSE session.dropped + 1
        /\ UNCHANGED <<worker, sent>>
    BY <1>1, <1>3 DEF _receive_frames, Stays, Sessions
  <2>2. queue' = IF Len(queue) < Bound
                 THEN Append(queue, session.received + 1)
                 ELSE Append(Tail(queue), session.received + 1)
    BY <1>3 DEF _receive_frames, put
  <2>3. Len(queue) \in Nat /\ Len(queue) <= Bound
    BY DEF IInv, TypeOK
  <2>4. Promise!Accept
    BY <2>1, <2>2, <2>3 DEF Promise!Accept
  <2>5. QED
    BY <2>4 DEF Promise!Next
<1>4. CASE session_endpoint \/ \E offer \in Offers : _await_offer(offer)
  BY <1>1, <1>4, Moving
  DEF session_endpoint, _await_offer, Stays, NoPump, IInv, Sessions
<1>5. CASE \E end \in {"unauthenticated", "protocol_error"} : Refused(end)
  BY <1>1, <1>5, Moving DEF Refused, Stays, NoPump, IInv, Sessions
<1>6. CASE Malformed \/ _report_malformed \/ _handle_control
  BY <1>1, <1>6, Moving
  DEF Malformed, _report_malformed, _handle_control, Stays, NoPump, IInv,
      Sessions
<1>7. CASE _pump
  BY <1>1, <1>7, Moving DEF _pump, Unwind, Stays, IInv, Sessions
<1>8. CASE _refuse \/ Vanished \/ _drain
  <2>1. Promise!End
    BY <1>1, <1>8, Ending
    DEF _refuse, Vanished, _drain, Finish, Stays, NoPump, IInv, Sessions
  <2>2. QED
    BY <2>1 DEF Promise!Next
<1>9. CASE Cancelled
  <2>1. CASE session.pc \in {"offer", "refuse", "agree"}
    <3>1. Promise!End
      BY <1>1, <1>9, <2>1, Ending DEF Cancelled, Stays, NoPump, IInv, Sessions
    <3>2. QED
      BY <3>1 DEF Promise!Next
  <2>2. CASE session.pc \in {"receive", "report", "closing"}
    BY <1>1, <1>9, <2>2, Moving DEF Cancelled, Stays, IInv, Sessions
  <2>3. CASE session.pc = "drain"
    BY <1>1, <1>9, <2>3, Moving
    DEF Cancelled, Stays, IInv, TypeOK, Sessions, Workers
  <2>4. QED
    BY <1>9, <2>1, <2>2, <2>3 DEF Cancelled
<1>10. CASE Service \/ Disconnects
  BY <1>10
  DEF Service, warm_up, handle_exit, lifespan, Disconnects, Promise!vars
<1>11. QED
  BY <1>2, <1>3, <1>4, <1>5, <1>6, <1>7, <1>8, <1>9, <1>10
  DEF Before, Receiving

\* The pipeline task's steps.
LEMMA PipelineRefines ==
  ASSUME IInv, Pipeline
  PROVE  Promise!Next \/ UNCHANGED Promise!vars
<1>1. /\ worker \in Workers
      /\ session.pc = "ended" => worker.pc = "none" \/ WorkerEnded
  BY DEF IInv, TypeOK, TasksInStep
<1>2. CASE get
  <2>1. CASE queue # <<>>
    <3>1. PICK pc \in {"report", "process"} :
            worker' = [worker EXCEPT !.pc = pc, !.frame = Head(queue), !.given = {}]
      BY <1>2, <2>1 DEF get
    <3>2. /\ worker'.frame = Head(queue) /\ worker'.given = {}
          /\ worker.frame = 0 /\ session.pc # "ended"
          /\ queue' = Tail(queue) /\ UNCHANGED <<session, sent>>
      BY <1>1, <1>2, <2>1, <3>1 DEF get, Others, IInv, HandInStep, Workers,
         WorkerEnded
    <3>3. Promise!TakeUp
      BY <2>1, <3>2 DEF Promise!TakeUp
    <3>4. QED
      BY <3>3 DEF Promise!Next
  <2>2. CASE queue = <<>>
    <3>1. /\ \/ worker' = [worker EXCEPT !.pc = "stopped"]
             \/ worker' = [worker EXCEPT !.pc = "wait"]
          /\ UNCHANGED <<session, queue, sent>>
      BY <1>2, <2>2 DEF get, Others
    <3>2. worker'.frame = worker.frame /\ worker'.given = worker.given
      BY <1>1, <3>1 DEF Workers
    <3>3. QED
      BY <3>1, <3>2 DEF Promise!vars
  <2>3. QED
    BY <2>1, <2>2
<1>3. CASE _answer
  <2>1. /\ worker'.frame = worker.frame /\ worker'.given = worker.given
        /\ UNCHANGED <<session, queue, sent>>
    BY <1>1, <1>3 DEF _answer, Others, Workers
  <2>2. QED
    BY <2>1 DEF Promise!vars
<1>4. CASE process
  <2>1. /\ session.pc # "ended" /\ worker.frame # 0
        /\ worker.given = session.routed
        /\ worker'.frame = 0 /\ worker'.given = worker.given
        /\ UNCHANGED <<session, queue, sent>>
    BY <1>1, <1>4 DEF process, Others, Workers, IInv, HandInStep, WorkerEnded
  <2>2. Promise!PutDown
    BY <2>1 DEF Promise!PutDown
  <2>3. QED
    BY <2>2 DEF Promise!Next
<1>5. CASE _deliver
  <2>1. /\ session.pc # "ended" /\ worker.frame # 0
        /\ worker.asked \in session.routed \ worker.given
        /\ worker.kind \in {"result", "failed"}
        /\ worker'.frame = worker.frame
        /\ worker'.given = worker.given \cup {worker.asked}
        /\ sent' = Append(sent, [frame |-> worker.frame, by |-> worker.asked,
                                 kind |-> worker.kind])
        /\ UNCHANGED <<session, queue>>
    BY <1>1, <1>5 DEF _deliver, Others, Workers, IInv, HandInStep, WorkerEnded
  <2>2. Promise!Answer
    BY <2>1 DEF Promise!Answer
  <2>3. QED
    BY <2>2 DEF Promise!Next
<1>6. CASE _report
  <2>1. /\ session.pc # "ended" /\ worker.frame # 0 /\ worker.given = {}
        /\ worker'.frame = 0 /\ worker'.given = worker.given
        /\ sent' = Append(sent, [frame |-> worker.frame, kind |-> "malformed"])
        /\ UNCHANGED <<session, queue>>
    BY <1>1, <1>6 DEF _report, Others, Workers, IInv, HandInStep, WorkerEnded
  <2>2. Promise!Reject
    BY <2>1 DEF Promise!Reject
  <2>3. QED
    BY <2>2 DEF Promise!Next
<1>7. CASE SendFails \/ WorkerCancelled
  <2>1. /\ worker'.frame = worker.frame /\ worker'.given = worker.given
        /\ UNCHANGED <<session, queue, sent>>
    BY <1>1, <1>7 DEF SendFails, WorkerCancelled, Others, Workers
  <2>2. QED
    BY <2>1 DEF Promise!vars
<1>8. QED
  BY <1>2, <1>3, <1>4, <1>5, <1>6, <1>7 DEF Pipeline

\* Frames are answered in order and once, the oldest dropped first, and nothing
\* happens to them after the session: for every queue bound, every set of
\* capabilities and any number of frames (runner.py:447, queue.py:95).
THEOREM Refinement == Spec => KeepsPromise
<1>1. Init => Promise!Init
  BY DEF Init, Promise!Init
<1>2. ASSUME IInv, [Next]_vars PROVE [Promise!Next]_(Promise!vars)
  <2>1. CASE Next
    BY <1>2, <2>1, SessionRefines, PipelineRefines DEF Next
  <2>2. CASE UNCHANGED vars
    BY <2>2 DEF vars, Promise!vars
  <2>3. QED
    BY <1>2, <2>1, <2>2
<1>3. QED
  BY Invariance, <1>1, <1>2, PTL DEF Spec, KeepsPromise, Promise!Spec
=============================================================================
