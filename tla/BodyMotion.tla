------------------------------ MODULE BodyMotion ------------------------------
(***************************************************************************)
(* The motor-group coordinator of MotorGroups together with the motion     *)
(* adapter of Motion and the application that runs them.  A phase that     *)
(* MotorGroups lets succeed or raise at will is here the body's lifecycle, *)
(* step by step, and its outcome is what the adapter decides.  Every step  *)
(* is a step of MotorGroups or leaves its variables alone.                 *)
(*                                                                         *)
(* The application acquires the body when it starts with face tracking on, *)
(* ticks until it is stopped, closes the coordinator and then releases the *)
(* adapter.  Terminal state is only requested by aclose, as in main.py,    *)
(* and only initialize is cancelled.  The body is the only group: another  *)
(* group's operation takes the same mutex, and of the adapter it only      *)
(* advances the generation.                                                *)
(***************************************************************************)
EXTENDS MotorGroups, Motion

ASSUME BodyAlone == Groups = {Body}

VARIABLES
  gaze,      \* face_tracking_enabled, fixed when the application is built
  captured,  \* body_policy, whose presence is MotorGroups' policy
  app        \* built, running, stopped, or failed to build

bodyVars == <<vars, motionVars, gaze, captured, app>>
applicationVars == <<gaze, captured, app>>

BodyInit ==
  /\ Init /\ MotionInit
  /\ gaze \in BOOLEAN /\ captured = "none" /\ app = "built"

\* The loop is between two callbacks.
LoopIsFree == loop = "free" /\ op.pc # "prepared"

-----------------------------------------------------------------------------
(* The worker.                                                             *)

AdapterOnly == UNCHANGED <<vars, applicationVars>>

\* A variant that steps over a refused prepare.
MutantPrepareSwallows ==
  \/ wk.pc = "prepare" /\ (_begin_lifecycle \/ PrepareWrites) /\ AdapterOnly
  \/ /\ WorkerCalls("prepare") /\ UNCHANGED applicationVars
     /\ Finish("ok")
     /\ PrepareReturns \/ PrepareRefused

prepare_worker ==
  \/ wk.pc = "prepare" /\ (_begin_lifecycle \/ PrepareWrites) /\ AdapterOnly
  \/ /\ WorkerCalls("prepare") /\ UNCHANGED applicationVars
     /\ \/ PrepareReturns /\ Finish("ok")
        \/ PrepareRefused /\ Finish("fail")

\* A phase ends when the lifecycle has no step of its own left.
restore_worker ==
  /\ wk.pc = "restore" /\ UNCHANGED applicationVars
  /\ \/ RestoreChecks(stop # "no") \/ RestoreWrites
     \/ RestoreSuperseded(stop # "no") \/ RestoreRefused
     \/ RestoreRecords(stop # "no") \/ RestoreCorrects
  /\ IF life'.pc # "none" THEN UNCHANGED vars
     ELSE /\ WorkerCalls("restore")
          /\ Finish(IF life'.raised THEN "fail" ELSE "ok")

\* The torque calls are refused with the link and record it; the measured
\* reads are cached, so they record an answer whatever the link is.
TorqueCalls ==
  /\ \/ _set /\ (reachable \/ torque' = torque)
     \/ _read
  /\ reachable \/ (wk'.ev = "none" /\ wk'.res = "none")
  /\ down' = ~reachable
  /\ UNCHANGED <<motion, auto, reachable, loop, life, uncorrected,
                 applicationVars>>

sample_worker ==
  /\ SampleWorker
  /\ down' = FALSE
  /\ UNCHANGED <<motion, auto, reachable, loop, life, uncorrected,
                 applicationVars>>

WorkerDecides ==
  /\ _execute_reserved \/ _wait_for_commands \/ _transition_reserved
     \/ _refresh_reserved
  /\ UNCHANGED <<motionVars, applicationVars>>

BodyWorker ==
  \/ prepare_worker \/ restore_worker \/ TorqueCalls
  \/ sample_worker \/ WorkerDecides

-----------------------------------------------------------------------------
(* The operation on the loop.  The adapter's answer decides between the    *)
(* outcomes MotorGroups leaves open.                                       *)

DaemonAlone == UNCHANGED <<down, auto, reachable, loop, uncorrected>>

Unmoved == UNCHANGED <<motion, life>>

\* An outcome the adapter did not decide: overtaken, or the phase failed.
NotDecided == ~_current(op) \/ wk.res = "fail"

prepare_loop ==
  /\ loop = "free" /\ OpPrepared /\ DaemonAlone /\ UNCHANGED applicationVars
  /\ \/ op'.pc = "prepared" /\ _commit_quiesce
     \/ /\ op'.pc = "none"
        /\ NotDecided \/ life.seen # motion.generation
        /\ Unmoved

\* A variant that captures the policy over one that is held.
MutantCapturesAnew ==
  /\ loop = "free" /\ OpCaptures /\ UNCHANGED <<motionVars, gaze, app>>
  /\ captured' = IF life.automatic THEN "on" ELSE "off"

\* body_policy is captured unless one is held.
captured_policy ==
  /\ loop = "free" /\ OpCaptures /\ UNCHANGED <<motionVars, gaze, app>>
  /\ captured' = IF captured # "none" THEN captured
                 ELSE IF life.automatic THEN "on" ELSE "off"

\* The restore phase begins with the policy that is held.
HandsPolicy(generation) ==
  life' = [NoLifecycle EXCEPT !.expected = generation, !.policy = captured]

\* sample_loop commits the reseed, or finds it superseded.
ReseedCommits ==
  _commit_reseed /\ HandsPolicy(motion.generation + 1)

OpExecutes ==
  /\ loop = "free" /\ OpExecuted /\ DaemonAlone /\ UNCHANGED applicationVars
  /\ \/ op'.pc = "restoring" /\ wk.res = "enable" /\ ReseedCommits
     \/ /\ op'.pc = "restoring" /\ wk.res = "refresh"
        /\ HandsPolicy(life.expected) /\ UNCHANGED motion
     \/ op'.pc = "sampling" /\ Unmoved
     \/ /\ op'.pc = "none"
        /\ NotDecided \/ wk.res # "enable"
           \/ life.expected # motion.generation
        /\ Unmoved

sample_loop ==
  /\ loop = "free" /\ OpSampled /\ DaemonAlone /\ UNCHANGED applicationVars
  /\ \/ op'.pc = "restoring" /\ ReseedCommits
     \/ /\ op'.pc = "none"
        /\ NotDecided \/ life.expected # motion.generation
        /\ Unmoved

\* restore_loop, and the end of the operation.
restore_loop ==
  /\ loop = "free" /\ OpRestored /\ DaemonAlone /\ UNCHANGED <<gaze, app>>
  /\ \/ groups'[Body].gate /\ _commit_restore /\ captured' = "none"
     \/ /\ ~groups'[Body].gate
        /\ NotDecided \/ ~RestoreStands
        /\ UNCHANGED <<motion, life, captured>>

OpBegins ==
  /\ LoopIsFree /\ (OpStart \/ Initialize)
  /\ UNCHANGED <<motionVars, applicationVars>>

BodyOperation ==
  \/ OpBegins \/ prepare_loop \/ captured_policy \/ OpExecutes
  \/ sample_loop \/ restore_loop

-----------------------------------------------------------------------------
(* The application.                                                        *)

Switches ==
  /\ LoopIsFree /\ app = "running"
  /\ \/ reserve_refresh(Body)
     \/ \E requested \in {"on", "off"} : reserve_transition(Body, requested)
  /\ UNCHANGED <<motionVars, applicationVars>>

\* run acquires the body before anything is served.
run ==
  /\ LoopIsFree /\ app = "built" /\ boot = "up" /\ stop = "no"
  /\ app' = "running"
  /\ IF gaze THEN acquire ELSE UNCHANGED motionVars
  /\ UNCHANGED <<vars, gaze, captured>>

tick ==
  /\ LoopIsFree /\ app = "running" /\ stop = "no" /\ gaze
  /\ loop' = "observe"
  /\ UNCHANGED <<motion, down, auto, reachable, life, uncorrected>>
  /\ AdapterOnly

\* The rest of a tick, and what else the application moves.
TickRuns == Tick /\ AdapterOnly
Expresses ==
  LoopIsFree /\ app = "running" /\ stop = "no" /\ move_head /\ AdapterOnly

BuildCancelled ==
  /\ LoopIsFree /\ InitializeCancelled
  /\ app' = "failed"
  /\ UNCHANGED <<motionVars, gaze, captured>>

CoordinatorCloses ==
  /\ LoopIsFree /\ (aclose \/ terminal \/ Aclose)
  /\ UNCHANGED <<motionVars, applicationVars>>

\* The adapter is released when the coordinator is closed.
MotionReleases ==
  /\ closer = "closed" /\ app \in {"built", "running"}
  /\ release
  /\ IF motion.acquired /\ safe_to_restore_body_policy THEN GivesBodyBack
     ELSE UNCHANGED <<auto, down>>
  /\ app' = "stopped"
  /\ UNCHANGED <<vars, gaze, captured>>

-----------------------------------------------------------------------------
BodyNext ==
  \/ BodyWorker \/ BodyOperation \/ Switches \/ run \/ tick \/ TickRuns
  \/ Expresses \/ BuildCancelled \/ CoordinatorCloses \/ MotionReleases
  \/ LinkChanges /\ AdapterOnly

BodySpec == BodyInit /\ [][BodyNext]_bodyVars

\* The worker thread runs, and the loop ticks.  What is ready runs although
\* ticks go on between: the loop takes its callbacks in order.
BodyFairness ==
  /\ WF_bodyVars(BodyWorker) /\ SF_bodyVars(BodyOperation)
  /\ WF_bodyVars(tick) /\ WF_bodyVars(TickRuns)
  /\ WF_bodyVars(CoordinatorCloses /\ closer # "none") /\ WF_bodyVars(MotionReleases)

BodyFairSpec == BodySpec /\ BodyFairness

-----------------------------------------------------------------------------
BodyTypeOK ==
  /\ MotionTypeOK
  /\ gaze \in BOOLEAN /\ captured \in Policies
  /\ app \in {"built", "running", "stopped", "failed"}
  /\ policy = (captured # "none")

\* The spec of the motor switches: the body's own producer is quiesced before
\* the daemon is asked to change its torque, whoever owned the body before.
YawOffBeforeTorque == wk.pc = "set" => ~auto

\* "Failure and shutdown keep the producer quiesced rather than restoring it
\* against unknown torque": the daemon is only given the body while its
\* torque really is on.
YawOnOnlyTorqued == [][auto' /\ ~auto => torque[Body] = "on"]_bodyVars

\* A restore that a terminal request overtakes is undone: the phase does not
\* end with the daemon turning the body, unless the daemon refused to stop.
NoRestoreBehindTerminal ==
  [][wk.pc = "restore" /\ wk'.pc # "restore" /\ stop # "no"
       /\ life.policy = "on" /\ ~uncorrected'
     => ~auto']_bodyVars

\* The spec of the motor switches: a re-enabled body resumes the policy that
\* preceded its disablement, which with tracking off is the daemon's.
PolicyComesBack ==
  ~gaze /\ groups[Body].gate /\ op.pc = "none" /\ stop = "no"
    => auto /\ ~motion.acquired

\* A write a dead link swallowed is made again: while gaze owns the body the
\* daemon does not go on turning it once the link is back.
OwnershipIsAsserted ==
  <>[]reachable =>
    (app = "running" /\ gaze /\ motion.acquired /\ auto
       ~> ~auto \/ ~motion.acquired \/ stop # "no")

\* A comment of calibrate: its own acquisition is out of production's reach,
\* since the application acquires at startup whenever it calibrates at all.
CalibrateNeverAcquires ==
  loop = "calibrate" => motion.acquired
=============================================================================
