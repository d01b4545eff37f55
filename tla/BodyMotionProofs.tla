--------------------------- MODULE BodyMotionProofs ---------------------------
(***************************************************************************)
(* What BodyMotion promises of the daemon's automatic body yaw, for every  *)
(* bound on the operations.                                                *)
(*                                                                         *)
(* The argument: every step of the composition is a step of MotorGroups    *)
(* (Implementation), so the coordinator's invariant holds here too.  From  *)
(* the end of the preparing write to the restoring one the daemon's yaw is *)
(* off (YawIsOff), because nobody else ever turns it on, and the restoring *)
(* write is only reached by an operation that found the torque on          *)
(* (RestoreIsKnown).  The other write, at release, asks the coordinator.   *)
(* That the policy comes back needs more: a task is never overtaken but by *)
(* the terminal request (TaskInv), so the first operation finds the body   *)
(* with the daemon, holds that, and opens the gate only after the write    *)
(* that gives it back (BodyIsDaemons).                                     *)
(***************************************************************************)
EXTENDS BodyMotion, MotorGroupsProofs

USE BodyAlone

\* The phases between the two writes of an operation.
Held == {"execute", "wait", "asleep", "set", "judgeSet", "sample", "read",
         "judgeRead"}

YawIsOff ==
  /\ wk.pc \in Held => ~auto
  /\ wk.pc = "prepare" /\ life.pc = "wrote" => ~auto
  /\ wk.pc = "done" /\ op.pc = "preparing" /\ wk.res = "ok" => ~auto
  /\ op.pc = "prepared" => ~auto
  /\ wk.pc = "done" /\ op.pc \in {"executing", "sampling"} => ~auto
  /\ wk.pc = "restore" /\ life.pc \in {"none", "write"} => ~auto

\* The fields that the argument reads.
MotionTyped == MotionTypeOK /\ captured \in Policies

LifeInStep == wk.pc \notin {"prepare", "restore"} => life.pc = "none"

RestoreIsKnown == wk.pc = "restore" => torque[wk.g] = "on"

BInv == MotionTyped /\ YawIsOff /\ LifeInStep /\ RestoreIsKnown

-----------------------------------------------------------------------------
(* The composition implements the coordinator.                             *)

LEMMA StepImplements ==
  ASSUME BodyNext
  PROVE  [Next]_vars
<1>1. CASE BodyWorker
  BY <1>1 DEF BodyWorker, prepare_worker, restore_worker, TorqueCalls,
       sample_worker, WorkerDecides, AdapterOnly, Next, Worker
<1>2. CASE BodyOperation
  BY <1>2 DEF BodyOperation, OpBegins, prepare_loop, captured_policy,
       OpExecutes, sample_loop, restore_loop, Next, Operation
<1>3. CASE Switches
  BY <1>3 DEF Switches, Next
<1>4. ASSUME UNCHANGED vars PROVE [Next]_vars
  BY <1>4
<1>5. CASE run
  BY <1>5 DEF run, vars, coordinator
<1>6. CASE tick
  BY <1>6 DEF tick, AdapterOnly, vars, coordinator
<1>7. CASE TickRuns
  BY <1>7 DEF TickRuns, AdapterOnly, vars, coordinator
<1>8. CASE Expresses
  BY <1>8 DEF Expresses, AdapterOnly, vars, coordinator
<1>9. CASE MotionReleases
  <2>1. UNCHANGED <<vars, gaze, captured>>
    BY <1>9 DEF MotionReleases
  <2>2. QED
    BY <2>1
<1>10. CASE LinkChanges /\ AdapterOnly
  BY <1>10 DEF AdapterOnly, vars, coordinator
<1>11. CASE BuildCancelled \/ CoordinatorCloses
  BY <1>11 DEF BuildCancelled, CoordinatorCloses, Next
<1>12. QED
  BY <1>1, <1>2, <1>3, <1>5, <1>6, <1>7, <1>8, <1>9, <1>10, <1>11
     DEF BodyNext

\* What holds of the coordinator alone holds of the coordinator and adapter.
THEOREM Implementation == BodySpec => Spec
<1>1. BodyInit => Init
  BY DEF BodyInit
<1>2. [BodyNext]_bodyVars => [Next]_vars
  <2>1. UNCHANGED bodyVars => UNCHANGED vars
    BY DEF bodyVars
  <2>2. QED
    BY <2>1, StepImplements
<1>3. QED
  BY <1>1, <1>2, PTL DEF BodySpec, Spec

-----------------------------------------------------------------------------
(* The adapter's own state.                                                *)

\* What becomes of the ownership.
LEMMA Owning ==
  ASSUME NEW m \in Ownerships
  PROVE  /\ [m EXCEPT !.pending = TRUE] \in Ownerships
         /\ [m EXCEPT !.pending = FALSE] \in Ownerships
         /\ [m EXCEPT !.generation = @ + 1] \in Ownerships
         /\ [m EXCEPT !.released = TRUE, !.generation = @ + 1] \in Ownerships
         /\ \A a, t \in BOOLEAN :
              [m EXCEPT !.acquired = a, !.temporary = t, !.generation = @ + 1]
                \in Ownerships
<1>1. m.generation \in Nat /\ m.generation + 1 \in Nat
  BY DEF Ownerships, Generations
<1>2. /\ [m EXCEPT !.pending = TRUE] \in Ownerships
      /\ [m EXCEPT !.pending = FALSE] \in Ownerships
  BY DEF Ownerships
<1>3. \A n \in Nat : [m EXCEPT !.generation = n] \in Ownerships
  BY DEF Ownerships, Generations
<1>4. \A n \in Nat :
        [m EXCEPT !.released = TRUE, !.generation = n] \in Ownerships
  BY DEF Ownerships, Generations
<1>5. \A n \in Nat, a, t \in BOOLEAN :
        [m EXCEPT !.acquired = a, !.temporary = t, !.generation = n]
          \in Ownerships
  BY DEF Ownerships, Generations
<1>6. QED
  BY <1>1, <1>2, <1>3, <1>4, <1>5

LEMMA Acquiring ==
  ASSUME MotionTypeOK, acquire
  PROVE  MotionTypeOK' /\ UNCHANGED <<life, auto>>
<1>1. motion \in Ownerships
  BY DEF MotionTypeOK
<1>2. [motion EXCEPT !.acquired = TRUE, !.temporary = FALSE,
                     !.generation = @ + 1] \in Ownerships
  BY <1>1, Owning
<1>3. QED
  BY <1>1, <1>2 DEF acquire, MotionTypeOK, LoopPcs

\* A tick, and what the application does between ticks.
LEMMA Loops ==
  ASSUME MotionTyped, run \/ tick \/ TickRuns \/ Expresses
  PROVE  MotionTyped' /\ UNCHANGED <<life, captured>> /\ (auto' => auto)
<1>1. CASE run
  BY <1>1, Acquiring DEF run, motionVars, MotionTyped, MotionTypeOK
<1>2. CASE tick
  BY <1>2 DEF tick, AdapterOnly, applicationVars, MotionTyped, MotionTypeOK,
       LoopPcs
<1>3. CASE TickRuns
  <2>1. UNCHANGED captured
    BY <1>3 DEF TickRuns, AdapterOnly, applicationVars
  <2>2. CASE AcquireQuiesces
    <3>1. motion \in Ownerships
      BY DEF MotionTyped, MotionTypeOK
    <3>2. motion' \in Ownerships
      BY <2>2, <3>1, Owning DEF AcquireQuiesces
    <3>3. /\ UNCHANGED <<reachable, life, uncorrected>>
          /\ \/ auto' = FALSE /\ down' = down /\ loop' = "quiesced"
             \/ auto' = auto /\ down' = TRUE /\ loop' = "observe"
      BY <2>2 DEF AcquireQuiesces
    <3>4. auto' \in BOOLEAN /\ (auto' => auto)
      <4>1. auto \in BOOLEAN
        BY DEF MotionTyped, MotionTypeOK
      <4>2. auto' = FALSE \/ auto' = auto
        BY <3>3
      <4>3. auto' \in BOOLEAN
        BY <4>1, <4>2
      <4>4. auto' => auto
        BY <4>2
      <4>5. QED
        BY <4>3, <4>4
    <3>5. down' \in BOOLEAN /\ loop' \in LoopPcs
      BY <3>3 DEF MotionTyped, MotionTypeOK, LoopPcs
    <3>6. QED
      BY <2>1, <3>2, <3>3, <3>4, <3>5 DEF MotionTyped, MotionTypeOK
  <2>3. CASE AcquireRecords
    BY <2>1, <2>3 DEF AcquireRecords, MotionTyped, MotionTypeOK, LoopPcs
  <2>4. CASE observe
    BY <2>1, <2>4 DEF observe, MotionTyped, MotionTypeOK, LoopPcs
  <2>5. CASE _assert_body_policy
    BY <2>1, <2>5 DEF _assert_body_policy, MotionTyped, MotionTypeOK, LoopPcs
  <2>6. CASE AssertRecords
    BY <2>1, <2>6, Owning DEF AssertRecords, MotionTyped, MotionTypeOK, LoopPcs
  <2>7. CASE calibrate
    BY <2>1, <2>7, Acquiring DEF calibrate, MotionTyped, MotionTypeOK, LoopPcs
  <2>8. CASE command_gaze
    BY <2>1, <2>8 DEF command_gaze, MotionTyped, MotionTypeOK, LoopPcs
  <2>9. QED
    BY <1>3, <2>2, <2>3, <2>4, <2>5, <2>6, <2>7, <2>8 DEF TickRuns, Tick
<1>4. CASE Expresses
  BY <1>4 DEF Expresses, move_head, AdapterOnly, applicationVars, MotionTyped,
       MotionTypeOK
<1>5. QED
  BY <1>1, <1>2, <1>3, <1>4

\* What else runs on the loop beside the operation, and the daemon's link.
Elsewhere ==
  \/ Switches \/ run \/ tick \/ TickRuns \/ Expresses \/ BuildCancelled
  \/ CoordinatorCloses \/ MotionReleases \/ (LinkChanges /\ AdapterOnly)

LEMMA ElsewhereTyped ==
  ASSUME MotionTyped, Elsewhere
  PROVE  /\ MotionTyped' /\ UNCHANGED life
         /\ auto' => auto \/ (MotionReleases /\ UNCHANGED vars)
<1>1. ASSUME UNCHANGED <<motion, down, auto, reachable, loop, life,
                         uncorrected, captured>>
      PROVE  MotionTyped'
  BY <1>1 DEF MotionTyped, MotionTypeOK
<1>2. CASE Switches \/ BuildCancelled \/ CoordinatorCloses
  BY <1>1, <1>2 DEF Switches, BuildCancelled, CoordinatorCloses,
       applicationVars, motionVars
<1>3. CASE run \/ tick \/ TickRuns \/ Expresses
  BY <1>3, Loops
<1>4. CASE LinkChanges /\ AdapterOnly
  BY <1>4 DEF LinkChanges, AdapterOnly, applicationVars, MotionTyped,
       MotionTypeOK
<1>5. CASE MotionReleases
  <2>1. motion \in Ownerships /\ auto \in BOOLEAN /\ reachable \in BOOLEAN
        /\ down \in BOOLEAN
    BY DEF MotionTyped, MotionTypeOK
  <2>2. motion' \in Ownerships
    BY <1>5, <2>1, Owning DEF MotionReleases, release
  <2>3. auto' \in BOOLEAN /\ down' \in BOOLEAN
    <3>1. CASE GivesBodyBack
      BY <2>1, <3>1 DEF GivesBodyBack
    <3>2. CASE UNCHANGED <<auto, down>>
      BY <2>1, <3>2
    <3>3. QED
      BY <1>5, <3>1, <3>2 DEF MotionReleases
  <2>4. UNCHANGED <<reachable, loop, life, uncorrected, captured>>
    BY <1>5 DEF MotionReleases, release
  <2>5. UNCHANGED vars
    BY <1>5 DEF MotionReleases
  <2>6. MotionTyped'
    BY <2>2, <2>3, <2>4 DEF MotionTyped, MotionTypeOK
  <2>7. QED
    BY <1>5, <2>4, <2>5, <2>6
<1>6. QED
  BY <1>2, <1>3, <1>4, <1>5 DEF Elsewhere

\* Of the worker and of the task they move what the coordinator does.
LEMMA ElsewhereMoves ==
  ASSUME TypeOK, Elsewhere
  PROVE  \/ UNCHANGED <<wk, op, closer>>
         \/ InitializeCancelled /\ TaskMove
         \/ OtherMove
<1>1. CASE BuildCancelled
  BY <1>1, TaskStep DEF BuildCancelled
<1>2. CASE Switches \/ CoordinatorCloses
  <2>1. Other
    BY <1>2 DEF Switches, CoordinatorCloses, Other, reserve_refresh,
         reserve_transition, Requests
  <2>2. QED
    BY <2>1, OtherStep
<1>3. CASE run
  BY <1>3 DEF run, vars
<1>4. CASE tick
  BY <1>4 DEF tick, AdapterOnly, vars
<1>5. CASE TickRuns
  BY <1>5 DEF TickRuns, AdapterOnly, vars
<1>6. CASE Expresses
  BY <1>6 DEF Expresses, AdapterOnly, vars
<1>7. CASE MotionReleases
  <2>1. UNCHANGED vars
    BY <1>7 DEF MotionReleases
  <2>2. QED
    BY <2>1 DEF vars
<1>8. CASE LinkChanges /\ AdapterOnly
  BY <1>8 DEF AdapterOnly, vars
<1>9. QED
  BY <1>1, <1>2, <1>3, <1>4, <1>5, <1>6, <1>7, <1>8 DEF Elsewhere

\* What becomes of the lifecycle on the loop.
LEMMA Handing ==
  ASSUME MotionTyped, NEW n \in Nat, HandsPolicy(n)
  PROVE  life' \in Lifecycles /\ life'.pc = "none"
BY DEF HandsPolicy, MotionTyped, MotionTypeOK, Lifecycles, NoLifecycle,
       LifePcs, Generations

\* A step of the operation on the loop.
LEMMA OperationTyped ==
  ASSUME MotionTyped, BodyOperation
  PROVE  /\ MotionTyped' /\ UNCHANGED auto /\ life'.pc \in {life.pc, "none"}
         /\ wk.pc = "done" \/ life' = life
<1>0. wk.pc = "done" \/ life' = life
  BY DEF BodyOperation, OpBegins, prepare_loop, OpPrepared, captured_policy,
       OpExecutes, OpExecuted, sample_loop, OpSampled, restore_loop,
       OpRestored, motionVars
<1>1. /\ motion \in Ownerships /\ motion.generation \in Nat
      /\ motion.generation + 1 \in Nat
      /\ life \in Lifecycles /\ life.expected \in Nat
      /\ captured \in Policies
  BY DEF MotionTyped, MotionTypeOK, Ownerships, Generations, Lifecycles
<1>2. ASSUME UNCHANGED <<down, auto, reachable, loop, uncorrected>>,
             motion' \in Ownerships, life' \in Lifecycles,
             captured' \in Policies
      PROVE  MotionTyped' /\ UNCHANGED auto
  BY <1>2 DEF MotionTyped, MotionTypeOK
<1>3. ASSUME ReseedCommits
      PROVE  /\ motion' \in Ownerships /\ life' \in Lifecycles
             /\ life'.pc = "none"
  BY <1>1, <1>3, Owning, Handing DEF ReseedCommits, _commit_reseed
<1>4. CASE OpBegins
  BY <1>0, <1>1, <1>2, <1>4 DEF OpBegins, motionVars, applicationVars
<1>5. CASE prepare_loop
  <2>1. ASSUME _commit_quiesce
        PROVE  /\ motion' \in Ownerships /\ life' \in Lifecycles
               /\ life'.pc = life.pc
    <3>1. \A n \in Nat : /\ [life EXCEPT !.expected = n] \in Lifecycles
                         /\ [life EXCEPT !.expected = n].pc = life.pc
      BY <1>1 DEF Lifecycles, Generations
    <3>2. QED
      BY <1>1, <2>1, <3>1, Owning DEF _commit_quiesce
  <2>2. _commit_quiesce \/ UNCHANGED <<motion, life>>
    BY <1>5 DEF prepare_loop, Unmoved
  <2>3. UNCHANGED <<down, auto, reachable, loop, uncorrected, captured>>
    BY <1>5 DEF prepare_loop, DaemonAlone, applicationVars
  <2>4. QED
    BY <1>0, <1>1, <1>2, <2>1, <2>2, <2>3
<1>6. CASE captured_policy
  <2>1. captured' \in Policies
    BY <1>1, <1>6 DEF captured_policy, Policies
  <2>2. UNCHANGED motionVars
    BY <1>6 DEF captured_policy
  <2>3. QED
    BY <1>0, <1>1, <1>2, <2>1, <2>2 DEF motionVars
<1>7. CASE OpExecutes
  <2>1. ReseedCommits \/ (HandsPolicy(life.expected) /\ UNCHANGED motion)
        \/ UNCHANGED <<motion, life>>
    BY <1>7 DEF OpExecutes, Unmoved
  <2>2. UNCHANGED <<down, auto, reachable, loop, uncorrected, captured>>
    BY <1>7 DEF OpExecutes, DaemonAlone, applicationVars
  <2>3. QED
    BY <1>0, <1>1, <1>2, <1>3, <2>1, <2>2, Handing
<1>8. CASE sample_loop
  <2>1. ReseedCommits \/ UNCHANGED <<motion, life>>
    BY <1>8 DEF sample_loop, Unmoved
  <2>2. UNCHANGED <<down, auto, reachable, loop, uncorrected, captured>>
    BY <1>8 DEF sample_loop, DaemonAlone, applicationVars
  <2>3. QED
    BY <1>0, <1>1, <1>2, <1>3, <2>1, <2>2
<1>9. CASE restore_loop
  <2>1. ASSUME _commit_restore
        PROVE  /\ motion' \in Ownerships /\ life' \in Lifecycles
               /\ life'.pc = "none"
    <3>1. NoLifecycle \in Lifecycles /\ NoLifecycle.pc = "none"
      BY DEF NoLifecycle, Lifecycles, LifePcs, Generations, Policies
    <3>2. (life.policy = "off") \in BOOLEAN
      OBVIOUS
    <3>3. motion' \in Ownerships
      BY <1>1, <2>1, <3>2, Owning DEF _commit_restore
    <3>4. QED
      BY <2>1, <3>1, <3>3 DEF _commit_restore
  <2>2. (_commit_restore /\ captured' = "none")
        \/ UNCHANGED <<motion, life, captured>>
    BY <1>9 DEF restore_loop
  <2>3. UNCHANGED <<down, auto, reachable, loop, uncorrected>>
    BY <1>9 DEF restore_loop, DaemonAlone
  <2>4. captured' \in Policies
    BY <1>1, <2>2 DEF Policies
  <2>5. QED
    BY <1>0, <1>1, <1>2, <2>1, <2>2, <2>3, <2>4
<1>10. QED
  BY <1>4, <1>5, <1>6, <1>7, <1>8, <1>9 DEF BodyOperation

\* Of the worker and of the task it moves what the coordinator does.
LEMMA OperationMoves ==
  ASSUME TypeOK, BodyOperation
  PROVE  \/ OtherMove
         \/ /\ TaskMove
            /\ op'.pc = "prepared" => wk.pc = "done" /\ wk.res = "ok"
<1>1. ASSUME Initialize PROVE OtherMove
  BY <1>1, OtherStep DEF Other
<1>2. op.pc \in OpPcs /\ NoOperation.pc = "none"
  BY Fields DEF NoOperation
<1>3. ASSUME Operation
      PROVE  op'.pc = "prepared" => wk.pc = "done" /\ wk.res = "ok"
  <2>1. CASE OpPrepared
    <3>1. ASSUME OpOvertaken \/ OpFails(FALSE) PROVE op'.pc = "none"
      BY <1>2, <3>1, Ending DEF OpOvertaken, OpFails
    <3>2. QED
      BY <2>1, <3>1 DEF OpPrepared
  <2>2. CASE ~OpPrepared
    <3>1. TaskMove
      BY <1>3, TaskStep
    <3>2. op.pc # "preparing"
      BY <1>3, <2>2 DEF Operation, OpStart, OpCaptures, OpExecuted, OpSampled,
           OpRestored
    <3>3. QED
      BY <1>2, <3>1, <3>2 DEF TaskMove, TaskEnds, TaskGoesOn
  <2>3. QED
    BY <2>1, <2>2
<1>4. Initialize \/ Operation
  BY DEF BodyOperation, OpBegins, prepare_loop, captured_policy, OpExecutes,
       sample_loop, restore_loop, Operation
<1>5. QED
  BY <1>1, <1>3, <1>4, TaskStep

\* The steps of a lifecycle on the worker.
LifeSteps ==
  \/ _begin_lifecycle \/ PrepareWrites \/ PrepareReturns \/ PrepareRefused
  \/ RestoreChecks(stop # "no") \/ RestoreWrites
  \/ RestoreSuperseded(stop # "no") \/ RestoreRefused
  \/ RestoreRecords(stop # "no") \/ RestoreCorrects

\* Which of them the yaw is off before, or after.
LifeMoves ==
  \/ UNCHANGED auto /\ <<life.pc, life'.pc>> \in
       {<<"none", "write">>, <<"write", "none">>, <<"none", "none">>,
        <<"write", "correct">>, <<"wrote", "correct">>, <<"wrote", "none">>}
  \/ auto' = FALSE /\ life.pc = "write" /\ life'.pc = "wrote"
  \/ RestoreWrites
  \/ (auto' => auto) /\ life.pc = "correct" /\ life'.pc = "none"

LEMMA LifeTyped ==
  ASSUME MotionTyped, LifeSteps, UNCHANGED captured
  PROVE  MotionTyped' /\ LifeMoves
<1>1. /\ life \in Lifecycles /\ motion \in Ownerships /\ auto \in BOOLEAN
      /\ reachable \in BOOLEAN /\ down \in BOOLEAN /\ loop \in LoopPcs
      /\ uncorrected \in BOOLEAN /\ captured \in Policies
      /\ motion.generation \in Generations
  BY DEF MotionTyped, MotionTypeOK, Ownerships
<1>2. \A p \in LifePcs :
        /\ [life EXCEPT !.pc = p] \in Lifecycles
        /\ [life EXCEPT !.pc = p].pc = p
        /\ \A b \in BOOLEAN :
             /\ [life EXCEPT !.restored = b, !.pc = p] \in Lifecycles
             /\ [life EXCEPT !.restored = b, !.pc = p].pc = p
             /\ [life EXCEPT !.pc = p, !.raised = b] \in Lifecycles
             /\ [life EXCEPT !.pc = p, !.raised = b].pc = p
  BY <1>1 DEF Lifecycles
<1>3. ASSUME UNCHANGED <<motion, loop, reachable, captured>>,
             down' \in BOOLEAN, auto' \in BOOLEAN, uncorrected' \in BOOLEAN,
             life' \in Lifecycles
      PROVE  MotionTyped'
  BY <1>1, <1>3 DEF MotionTyped, MotionTypeOK
<1>4. CASE _begin_lifecycle
  <2>1. (~motion.acquired) \in BOOLEAN
    OBVIOUS
  <2>2. \A n \in Generations, b \in BOOLEAN :
          [NoLifecycle EXCEPT !.pc = "write", !.seen = n, !.automatic = b]
            \in Lifecycles
    BY DEF NoLifecycle, Lifecycles, LifePcs, Policies, Generations
  <2>3. life' \in Lifecycles
    BY <1>1, <1>4, <2>1, <2>2 DEF _begin_lifecycle
  <2>4. life.pc = "none" /\ life'.pc = "write" /\ UNCHANGED auto
    BY <1>4 DEF _begin_lifecycle, NoLifecycle
  <2>5. MotionTyped'
    BY <1>1, <1>3, <1>4, <2>3 DEF _begin_lifecycle
  <2>6. QED
    BY <2>4, <2>5 DEF LifeMoves
<1>5. CASE PrepareWrites
  BY <1>1, <1>2, <1>3, <1>5 DEF PrepareWrites, LifeMoves, LifePcs
<1>6. CASE PrepareReturns
  BY <1>1, <1>2, <1>3, <1>6 DEF PrepareReturns, LifeMoves, LifePcs
<1>7. CASE PrepareRefused
  BY <1>1, <1>2, <1>3, <1>7 DEF PrepareRefused, LifeMoves, LifePcs
<1>8. CASE RestoreChecks(stop # "no")
  BY <1>1, <1>2, <1>3, <1>8 DEF RestoreChecks, LifeMoves, LifePcs
<1>9. CASE RestoreWrites
  <2>1. auto' \in BOOLEAN
    BY <1>9 DEF RestoreWrites
  <2>2. MotionTyped'
    BY <1>1, <1>2, <1>3, <1>9, <2>1 DEF RestoreWrites, LifePcs
  <2>3. QED
    BY <1>9, <2>2 DEF LifeMoves
<1>10. CASE RestoreSuperseded(stop # "no")
  <2>1. [life EXCEPT !.restored = FALSE] \in Lifecycles
        /\ [life EXCEPT !.restored = FALSE].pc = life.pc
    BY <1>1 DEF Lifecycles
  <2>2. QED
    BY <1>1, <1>3, <1>10, <2>1 DEF RestoreSuperseded, LifeMoves
<1>11. CASE RestoreRefused
  <2>1. life.policy = "on" \/ life.policy # "on"
    OBVIOUS
  <2>2. \/ life' = [life EXCEPT !.pc = "correct", !.raised = TRUE]
        \/ life' = [life EXCEPT !.pc = "none", !.raised = TRUE]
    BY <1>11, <2>1 DEF RestoreRefused
  <2>3. /\ life' \in Lifecycles /\ life'.pc \in {"correct", "none"}
        /\ life.pc = "write"
    <3>1. "correct" \in LifePcs /\ "none" \in LifePcs /\ TRUE \in BOOLEAN
      BY DEF LifePcs
    <3>2. life.pc = "write"
      BY <1>11 DEF RestoreRefused
    <3>3. QED
      BY <1>2, <2>2, <3>1, <3>2
  <2>4. MotionTyped'
    BY <1>1, <1>3, <1>11, <2>3 DEF RestoreRefused
  <2>5. QED
    BY <1>11, <2>3, <2>4 DEF RestoreRefused, LifeMoves
<1>12. CASE RestoreRecords(stop # "no")
  <2>1. PICK b \in BOOLEAN, p \in {"correct", "none"} :
          life' = [life EXCEPT !.restored = b, !.pc = p]
    BY <1>12 DEF RestoreRecords, RestoreKept
  <2>2. /\ life' \in Lifecycles /\ life'.pc \in {"correct", "none"}
        /\ life.pc = "wrote"
    <3>1. p \in LifePcs
      BY DEF LifePcs
    <3>2. life.pc = "wrote"
      BY <1>12 DEF RestoreRecords
    <3>3. QED
      BY <1>2, <2>1, <3>1, <3>2
  <2>3. MotionTyped'
    BY <1>1, <1>3, <1>12, <2>2 DEF RestoreRecords
  <2>4. QED
    BY <1>12, <2>2, <2>3 DEF RestoreRecords, LifeMoves
<1>13. CASE RestoreCorrects
  <2>1. auto' \in BOOLEAN /\ down' \in BOOLEAN /\ uncorrected' \in BOOLEAN
    BY <1>13 DEF RestoreCorrects
  <2>2. auto' => auto
    BY <1>13 DEF RestoreCorrects
  <2>3. life' \in Lifecycles /\ life.pc = "correct" /\ life'.pc = "none"
    BY <1>2, <1>13 DEF RestoreCorrects, LifePcs
  <2>4. MotionTyped'
    BY <1>1, <1>3, <1>13, <2>1, <2>3 DEF RestoreCorrects
  <2>5. QED
    BY <2>2, <2>3, <2>4 DEF LifeMoves
<1>14. QED
  BY <1>4, <1>5, <1>6, <1>7, <1>8, <1>9, <1>10, <1>11, <1>12, <1>13
     DEF LifeSteps

\* A worker step is inside a lifecycle, ends one, or has nothing to do with it.
InsideLife ==
  /\ UNCHANGED vars /\ life'.pc # "none"
  /\ \/ wk.pc = "prepare" /\ (_begin_lifecycle \/ PrepareWrites)
     \/ wk.pc = "restore" /\ LifeSteps

EndsLife ==
  /\ LifeSteps /\ life'.pc = "none"
  /\ \/ wk.pc = "restore"
     \/ /\ wk.pc = "prepare" /\ UNCHANGED auto
        /\ \/ life.pc = "wrote"
           \/ wk' = NoPhase \/ wk'.res = "fail"

LEMMA WorkerTyped ==
  ASSUME TypeOK, MotionTyped, BodyWorker
  PROVE  /\ MotionTyped'
         /\ \/ InsideLife
            \/ EndsLife /\ WorkerMove
            \/ /\ UNCHANGED <<life, auto>> /\ WorkerMove
               /\ wk.pc \notin {"prepare", "restore"}
<1>1. ASSUME WorkerCalls("prepare") \/ WorkerCalls("restore") PROVE WorkerMove
  BY <1>1, WorkerStep DEF Worker
<1>2. CASE prepare_worker
  <2>1. UNCHANGED captured
    BY <1>2 DEF prepare_worker, AdapterOnly, applicationVars
  <2>2. CASE wk.pc = "prepare" /\ (_begin_lifecycle \/ PrepareWrites)
             /\ AdapterOnly
    <3>1. LifeSteps
      BY <2>2 DEF LifeSteps
    <3>2. UNCHANGED vars
      BY <2>2 DEF AdapterOnly
    <3>3. MotionTyped'
      BY <2>1, <3>1, LifeTyped
    <3>4. life'.pc # "none"
      BY <2>2 DEF _begin_lifecycle, NoLifecycle, PrepareWrites, MotionTyped,
           MotionTypeOK, Lifecycles
    <3>5. QED
      BY <2>2, <3>2, <3>3, <3>4 DEF InsideLife
  <2>3. CASE WorkerCalls("prepare") /\ PrepareReturns
    <3>1. LifeSteps /\ wk.pc = "prepare"
      BY <2>3 DEF LifeSteps, WorkerCalls
    <3>2. MotionTyped' /\ WorkerMove
      BY <1>1, <2>1, <2>3, <3>1, LifeTyped
    <3>3. life.pc = "wrote" /\ UNCHANGED auto
      BY <2>3 DEF PrepareReturns
    <3>4. life'.pc = "none"
      BY <2>3 DEF PrepareReturns, MotionTyped, MotionTypeOK, Lifecycles
    <3>5. QED
      BY <3>1, <3>2, <3>3, <3>4 DEF EndsLife
  <2>4. CASE WorkerCalls("prepare") /\ PrepareRefused /\ Finish("fail")
    <3>1. LifeSteps /\ wk.pc = "prepare"
      BY <2>4 DEF LifeSteps, WorkerCalls
    <3>2. MotionTyped' /\ WorkerMove
      BY <1>1, <2>1, <2>4, <3>1, LifeTyped
    <3>3. UNCHANGED auto
      BY <2>4 DEF PrepareRefused
    <3>4. life'.pc = "none"
      BY <2>4 DEF PrepareRefused, MotionTyped, MotionTypeOK, Lifecycles
    <3>5. wk' = NoPhase \/ wk'.res = "fail"
      <4>1. wk' = NoPhase \/ wk' = [wk EXCEPT !.pc = "done", !.res = "fail"]
        BY <2>4, Finishing DEF Results
      <4>2. QED
        BY <4>1 DEF TypeOK, Phases
    <3>6. QED
      BY <3>1, <3>2, <3>3, <3>4, <3>5 DEF EndsLife
  <2>5. QED
    BY <1>2, <2>2, <2>3, <2>4 DEF prepare_worker
<1>3. CASE restore_worker
  <2>1. LifeSteps /\ wk.pc = "restore" /\ UNCHANGED captured
    BY <1>3 DEF restore_worker, LifeSteps, applicationVars
  <2>2. MotionTyped'
    BY <2>1, LifeTyped
  <2>3. CASE life'.pc # "none"
    BY <1>3, <2>1, <2>2, <2>3 DEF restore_worker, InsideLife
  <2>4. CASE life'.pc = "none"
    BY <1>1, <1>3, <2>1, <2>2, <2>4 DEF restore_worker, EndsLife
  <2>5. QED
    BY <2>3, <2>4
<1>4. CASE TorqueCalls \/ sample_worker
  <2>1. WorkerMove
    BY <1>4, WorkerStep DEF TorqueCalls, sample_worker, Worker
  <2>2. wk.pc \notin {"prepare", "restore"}
    BY <1>4 DEF TorqueCalls, sample_worker, _set, _read, SampleWorker
  <2>3. /\ UNCHANGED <<motion, auto, reachable, loop, life, uncorrected,
                       captured>>
        /\ down' \in BOOLEAN
    BY <1>4 DEF TorqueCalls, sample_worker, applicationVars
  <2>4. MotionTyped'
    BY <2>3 DEF MotionTyped, MotionTypeOK
  <2>5. QED
    BY <2>1, <2>2, <2>3, <2>4
<1>5. CASE WorkerDecides
  <2>1. WorkerMove
    BY <1>5, WorkerStep DEF WorkerDecides, Worker
  <2>2. wk.pc \notin {"prepare", "restore"}
    BY <1>5 DEF WorkerDecides, _execute_reserved, _wait_for_commands,
         _transition_reserved, _refresh_reserved
  <2>3. UNCHANGED <<motion, down, auto, reachable, loop, life, uncorrected,
                    captured>>
    BY <1>5 DEF WorkerDecides, motionVars, applicationVars
  <2>4. MotionTyped'
    BY <2>3 DEF MotionTyped, MotionTypeOK
  <2>5. QED
    BY <2>1, <2>2, <2>3, <2>4
<1>6. QED
  BY <1>2, <1>3, <1>4, <1>5 DEF BodyWorker

-----------------------------------------------------------------------------
(* The invariant.                                                          *)

\* The restore is only ever submitted by a task that found the torque on.
LEMMA RestoreKnownStep ==
  ASSUME IInv, IInv', RestoreIsKnown, Next
  PROVE  RestoreIsKnown'
<1> USE Fields
<1>1. /\ TypeOK /\ InStep /\ TorqueIsKnown
      /\ (op.pc = "restoring" => OnIt /\ torque[op.g] = "on")'
  BY DEF IInv, InStep, TorqueIsKnown
<1>2. NoPhase.pc = "idle" /\ NoOperation.pc = "none"
  BY DEF NoPhase, NoOperation
<1>3. ASSUME wk'.pc = "restore", wk.pc # "restore" PROVE op'.pc = "restoring"
  <2>1. CASE Worker
    BY <1>1, <1>2, <1>3, <2>1, WorkerStep DEF WorkerMove, WorkerGoesOn
  <2>2. CASE Operation \/ OpCancelled \/ InitializeCancelled
    BY <1>1, <1>2, <1>3, <2>2, TaskStep DEF TaskMove, TaskEnds, TaskGoesOn
  <2>3. CASE Other
    BY <1>1, <1>3, <2>3, OtherStep DEF OtherMove, Wakes
  <2>4. QED
    BY <2>1, <2>2, <2>3, Steps
<1>4. ASSUME wk'.pc = "restore", wk.pc = "restore"
      PROVE  wk'.g = wk.g /\ UNCHANGED torque
  <2>1. UNCHANGED torque
    BY <1>1, <1>4, FrameStep DEF _set
  <2>2. CASE Worker
    BY <1>1, <1>2, <1>4, <2>2, WorkerStep DEF WorkerMove, WorkerGoesOn
  <2>3. CASE Operation \/ OpCancelled \/ InitializeCancelled
    <3>1. TaskMove
      BY <1>1, <2>3, TaskStep
    <3>2. ~TaskGoesOn
      BY <1>1, <1>2, <1>4 DEF TaskGoesOn, InStep, OnIt
    <3>3. wk' = wk
      BY <1>4, <3>1, <3>2 DEF TaskMove, TaskEnds
    <3>4. QED
      BY <2>1, <3>3
  <2>4. CASE Other
    <3>1. wk' = wk
      BY <1>1, <1>4, <2>4, OtherStep DEF OtherMove, Wakes
    <3>2. QED
      BY <2>1, <3>1
  <2>5. QED
    BY <2>1, <2>2, <2>3, <2>4, Steps
<1>5. CASE wk.pc = "restore"
  BY <1>4, <1>5 DEF RestoreIsKnown
<1>6. CASE wk.pc # "restore"
  BY <1>1, <1>3, <1>6 DEF RestoreIsKnown, OnIt
<1>7. QED
  BY <1>5, <1>6

\* A lifecycle is in progress only while the worker runs its phase.
LEMMA LifeInStepStep ==
  ASSUME IInv, BInv, BodyNext
  PROVE  LifeInStep'
<1> USE Fields
<1>1. TypeOK /\ InStep /\ MotionTyped /\ LifeInStep
  BY DEF IInv, BInv
<1>2. NoPhase.pc = "idle" /\ NoOperation.pc = "none"
  BY DEF NoPhase, NoOperation
<1>3. CASE BodyWorker
  <2>1. CASE InsideLife
    BY <2>1 DEF InsideLife, LifeInStep, vars
  <2>2. CASE ~InsideLife
    BY <1>1, <1>3, <2>2, WorkerTyped DEF EndsLife, LifeInStep
  <2>3. QED
    BY <2>1, <2>2
<1>4. ASSUME life'.pc \in {life.pc, "none"},
             wk.pc \in {"prepare", "restore"} => wk'.pc = wk.pc
      PROVE  LifeInStep'
  BY <1>1, <1>4 DEF LifeInStep
<1>5. ASSUME TaskMove, op'.pc = "prepared" => wk.pc = "done"
      PROVE  wk.pc \in {"prepare", "restore"} => wk'.pc = wk.pc
  BY <1>1, <1>2, <1>5 DEF TaskMove, TaskEnds, TaskGoesOn, InStep, OnIt
<1>6. ASSUME OtherMove
      PROVE  wk.pc \in {"prepare", "restore"} => wk'.pc = wk.pc
  BY <1>6 DEF OtherMove, Wakes
<1>7. CASE BodyOperation
  BY <1>1, <1>4, <1>5, <1>6, <1>7, OperationTyped, OperationMoves
<1>8. CASE Elsewhere
  <2>1. life'.pc = life.pc
    BY <1>1, <1>8, ElsewhereTyped
  <2>2. ASSUME InitializeCancelled PROVE op'.pc = "none"
    BY <1>2, <2>2 DEF InitializeCancelled
  <2>3. wk.pc \in {"prepare", "restore"} => wk'.pc = wk.pc
    BY <1>1, <1>5, <1>6, <1>8, <2>2, ElsewhereMoves
  <2>4. QED
    BY <1>4, <2>1, <2>3
<1>9. QED
  BY <1>3, <1>7, <1>8 DEF BodyNext, Elsewhere

\* What leaves the phases where they are leaves the yaw off.
LEMMA YawStaysOff ==
  ASSUME TypeOK, YawIsOff, auto' => auto,
         life'.pc = life.pc \/ wk.pc = "done",
         UNCHANGED <<wk, op>> \/ TaskEnds \/ OtherMove
  PROVE  YawIsOff'
<1>1. NoPhase.pc = "idle" /\ NoOperation.pc = "none"
  BY DEF NoPhase, NoOperation
<1>2. CASE UNCHANGED <<wk, op>>
  BY <1>2 DEF YawIsOff, Held
<1>3. CASE TaskEnds
  BY <1>1, <1>3 DEF YawIsOff, Held, TaskEnds
<1>4. CASE OtherMove
  <2>1. wk' = wk \/ (wk.pc = "asleep" /\ wk'.pc = "wait")
    BY <1>4 DEF OtherMove, Wakes
  <2>2. op' = op \/ op'.pc = "start"
    BY <1>4 DEF OtherMove, Begins
  <2>3. QED
    BY <2>1, <2>2 DEF YawIsOff, Held
<1>5. QED
  BY <1>2, <1>3, <1>4

\* The yaw stays off between the two writes of an operation.
LEMMA YawStep ==
  ASSUME IInv, BInv, BodyNext
  PROVE  YawIsOff'
<1> USE Fields
<1>1. /\ TypeOK /\ InStep /\ ClosesInOrder
      /\ MotionTyped /\ YawIsOff /\ LifeInStep
  BY DEF IInv, BInv
<1>2. NoPhase.pc = "idle" /\ NoOperation.pc = "none"
  BY DEF NoPhase, NoOperation
<1>3. CASE BodyWorker
  <2>1. CASE InsideLife
    <3>1. wk' = wk /\ op' = op /\ op.pc # "prepared"
      BY <1>1, <2>1 DEF InsideLife, vars, InStep
    <3>2. CASE wk.pc = "prepare"
      <4>1. auto' = FALSE \/ life'.pc # "wrote"
        BY <2>1, <3>2 DEF InsideLife, _begin_lifecycle, PrepareWrites,
             NoLifecycle
      <4>2. QED
        BY <3>1, <3>2, <4>1 DEF YawIsOff, Held
    <3>3. CASE wk.pc = "restore"
      <4>1. LifeMoves
        <5>1. UNCHANGED captured
          BY <1>3, <3>3 DEF BodyWorker, prepare_worker, restore_worker,
               TorqueCalls, sample_worker, WorkerDecides, AdapterOnly,
               applicationVars
        <5>2. QED
          BY <1>1, <2>1, <3>3, <5>1, LifeTyped DEF InsideLife
      <4>2. life'.pc # "none"
        BY <2>1 DEF InsideLife
      <4>3. life'.pc = "write" => ~auto'
        BY <1>1, <3>3, <4>1 DEF LifeMoves, YawIsOff, RestoreWrites,
             MotionTyped, MotionTypeOK, Lifecycles
      <4>4. QED
        BY <3>1, <3>3, <4>2, <4>3 DEF YawIsOff, Held
    <3>4. QED
      BY <2>1, <3>2, <3>3 DEF InsideLife
  <2>2. CASE EndsLife /\ WorkerMove
    <3>1. /\ op' = op /\ op.pc # "prepared"
          /\ wk' = NoPhase \/ wk'.pc = "done"
      BY <1>1, <2>2 DEF EndsLife, WorkerMove, WorkerGoesOn, InStep
    <3>2. CASE wk.pc = "prepare"
      <4>1. op.pc \notin {"executing", "sampling"}
        BY <1>1, <3>2 DEF InStep
      <4>2. ~auto' \/ wk' = NoPhase \/ wk'.res = "fail"
        BY <1>1, <2>2, <3>2 DEF EndsLife, YawIsOff
      <4>3. QED
        BY <1>2, <3>1, <4>1, <4>2 DEF YawIsOff, Held
    <3>3. CASE wk.pc = "restore"
      <4>1. op.pc \notin {"preparing", "executing", "sampling"}
        BY <1>1, <3>3 DEF InStep
      <4>2. QED
        BY <1>2, <3>1, <4>1 DEF YawIsOff, Held
    <3>4. QED
      BY <2>2, <3>2, <3>3 DEF EndsLife
  <2>3. CASE /\ UNCHANGED <<life, auto>> /\ WorkerMove
             /\ wk.pc \notin {"prepare", "restore"}
    <3>1. wk.pc \in Held
      BY <1>1, <2>3 DEF WorkerMove, WorkerPcs, Held
    <3>2. QED
      BY <1>1, <2>3, <3>1 DEF YawIsOff
  <2>4. QED
    BY <1>1, <1>3, <2>1, <2>2, <2>3, WorkerTyped
<1>4. CASE BodyOperation
  <2>1. /\ UNCHANGED auto /\ life'.pc \in {life.pc, "none"}
        /\ wk.pc = "done" \/ life' = life
    BY <1>1, <1>4, OperationTyped
  <2>2. CASE OtherMove \/ TaskEnds
    BY <1>1, <2>1, <2>2, YawStaysOff
  <2>3. CASE /\ TaskGoesOn
             /\ op'.pc = "prepared" => wk.pc = "done" /\ wk.res = "ok"
    <3>1. CASE op.pc = "start"
      <4>1. op'.pc = "preparing" /\ wk'.pc = "prepare" /\ wk.pc = "idle"
        BY <2>3, <3>1 DEF TaskGoesOn
      <4>2. life'.pc = "none"
        BY <1>1, <2>1, <4>1 DEF LifeInStep
      <4>3. QED
        BY <4>1, <4>2 DEF YawIsOff, Held
    <3>2. CASE op.pc # "start"
      <4>1. ~auto
        BY <1>1, <2>3, <3>2 DEF TaskGoesOn, YawIsOff
      <4>2. QED
        BY <2>1, <4>1 DEF YawIsOff
    <3>3. QED
      BY <3>1, <3>2
  <2>4. QED
    BY <1>1, <1>4, <2>2, <2>3, OperationMoves DEF TaskMove
<1>5. CASE Elsewhere
  <2>1. life' = life /\ (auto' => auto \/ (MotionReleases /\ UNCHANGED vars))
    BY <1>1, <1>5, ElsewhereTyped
  <2>2. CASE auto' => auto
    <3>1. ASSUME InitializeCancelled, TaskMove PROVE TaskEnds
      <4>1. op'.pc = "none" /\ op.pc # "start"
        BY <1>2, <3>1 DEF InitializeCancelled
      <4>2. QED
        BY <3>1, <4>1 DEF TaskMove, TaskGoesOn
    <3>2. UNCHANGED <<wk, op>> \/ TaskEnds \/ OtherMove
      BY <1>1, <1>5, <3>1, ElsewhereMoves
    <3>3. QED
      BY <1>1, <2>1, <2>2, <3>2, YawStaysOff
  <2>3. CASE MotionReleases /\ UNCHANGED vars
    <3>1. wk.pc = "idle" /\ op.pc = "none"
      BY <1>1, <2>3 DEF MotionReleases, ClosesInOrder
    <3>2. wk' = wk /\ op' = op
      BY <2>3 DEF vars
    <3>3. QED
      BY <3>1, <3>2 DEF YawIsOff, Held
  <2>4. QED
    BY <2>1, <2>2, <2>3
<1>6. QED
  BY <1>3, <1>4, <1>5 DEF BodyNext, Elsewhere

LEMMA BodyInvInit == BodyInit => BInv
<1> SUFFICES ASSUME BodyInit PROVE BInv
  OBVIOUS
<1>1. wk.pc = "idle" /\ op.pc = "none" /\ life.pc = "none"
  BY DEF BodyInit, Init, MotionInit, NoOperation, NoPhase, NoLifecycle
<1>2. MotionTyped
  BY DEF BodyInit, MotionInit, MotionTyped, MotionTypeOK, Ownerships,
       Generations, LoopPcs, Lifecycles, LifePcs, Policies, NoLifecycle
<1>3. QED
  BY <1>1, <1>2 DEF BInv, YawIsOff, Held, LifeInStep, RestoreIsKnown

LEMMA BodyInvStep ==
  ASSUME IInv, IInv', BInv, BodyNext
  PROVE  BInv'
<1>1. TypeOK /\ MotionTyped /\ RestoreIsKnown
  BY DEF IInv, BInv
<1>2. MotionTyped'
  BY <1>1, WorkerTyped, OperationTyped, ElsewhereTyped DEF BodyNext, Elsewhere
<1>3. RestoreIsKnown'
  <2>1. CASE Next
    BY <1>1, <2>1, RestoreKnownStep
  <2>2. CASE UNCHANGED vars
    BY <1>1, <2>2 DEF RestoreIsKnown, vars
  <2>3. QED
    BY <2>1, <2>2, StepImplements
<1>4. QED
  BY <1>2, <1>3, YawStep, LifeInStepStep DEF BInv

THEOREM BodyInvariance == BodySpec => [](IInv /\ BInv)
<1>1. BodySpec => []IInv
  BY Implementation, Invariance, PTL
<1>2. IInv /\ IInv' /\ BInv /\ [BodyNext]_bodyVars => BInv'
  <2> SUFFICES ASSUME IInv, IInv', BInv, [BodyNext]_bodyVars PROVE BInv'
    OBVIOUS
  <2>1. CASE BodyNext
    BY <2>1, BodyInvStep
  <2>2. CASE UNCHANGED bodyVars
    BY <2>2 DEF bodyVars, vars, motionVars, BInv, MotionTyped, MotionTypeOK,
         YawIsOff, LifeInStep, RestoreIsKnown
  <2>3. QED
    BY <2>1, <2>2
<1>3. QED
  BY <1>1, <1>2, BodyInvInit, PTL DEF BodySpec

-----------------------------------------------------------------------------
\* The daemon's own yaw is off whenever the body's torque is written: the
\* preparing write went through, and nothing has given the body back since.
THEOREM QuiescedTorque == BodySpec => []YawOffBeforeTorque
<1>1. BInv => YawOffBeforeTorque
  BY DEF BInv, YawIsOff, Held, YawOffBeforeTorque
<1>2. QED
  BY <1>1, BodyInvariance, PTL

\* What turns the daemon's yaw on.
LEMMA YawTurnsOn ==
  ASSUME IInv, BInv, BodyNext, auto', ~auto
  PROVE  \/ wk.pc = "restore"
         \/ motion.acquired /\ safe_to_restore_body_policy
<1>1. TypeOK /\ MotionTyped
  BY DEF IInv, BInv
<1>2. CASE BodyWorker
  <2>1. CASE InsideLife
    BY <2>1 DEF InsideLife, _begin_lifecycle, PrepareWrites
  <2>2. CASE ~InsideLife
    BY <1>1, <1>2, <2>2, WorkerTyped DEF EndsLife
  <2>3. QED
    BY <2>1, <2>2
<1>3. CASE BodyOperation
  BY <1>1, <1>3, OperationTyped
<1>4. CASE Elsewhere
  <2>1. MotionReleases
    BY <1>1, <1>4, ElsewhereTyped
  <2>2. QED
    BY <2>1 DEF MotionReleases
<1>5. QED
  BY <1>2, <1>3, <1>4 DEF BodyNext, Elsewhere

\* The daemon is given the body back only while the body's torque is on.
THEOREM ReturnsTorqued == BodySpec => YawOnOnlyTorqued
<1> DEFINE Torqued == auto' /\ ~auto => torque[Body] = "on"
<1>1. IInv /\ BInv /\ [BodyNext]_bodyVars => [Torqued]_bodyVars
  <2> SUFFICES ASSUME IInv, BInv, BodyNext, auto', ~auto
               PROVE  torque[Body] = "on"
    OBVIOUS
  <2>1. CASE wk.pc = "restore"
    <3>1. wk.g = Body
      BY Fields DEF IInv
    <3>2. QED
      BY <2>1, <3>1 DEF BInv, RestoreIsKnown
  <2>2. CASE safe_to_restore_body_policy
    BY <2>2 DEF IInv, PolicyIsKept, safe_to_restore_body_policy
  <2>3. QED
    BY <2>1, <2>2, YawTurnsOn
<1>2. [](IInv /\ BInv) /\ [][BodyNext]_bodyVars => [][Torqued]_bodyVars
  BY <1>1, PTL
<1>3. QED
  BY <1>2, BodyInvariance DEF BodySpec, YawOnOnlyTorqued

\* How a restore that was overtaken can end.
LEMMA RestoreEnds ==
  ASSUME MotionTyped, YawIsOff, restore_worker, stop # "no", wk.pc = "restore",
         wk'.pc # "restore", life.policy = "on", ~uncorrected'
  PROVE  ~auto'
<1>1. wk' # wk
  OBVIOUS
<1>2. life'.pc = "none"
  BY <1>1 DEF restore_worker, vars
<1>3. life \in Lifecycles
  BY DEF MotionTyped, MotionTypeOK
<1>4. CASE RestoreSuperseded(stop # "no")
  BY <1>4 DEF RestoreSuperseded, YawIsOff
<1>5. ~RestoreRefused
  BY <1>2, <1>3 DEF RestoreRefused, Lifecycles
<1>6. ~RestoreRecords(stop # "no")
  BY <1>2, <1>3 DEF RestoreRecords, RestoreKept, Lifecycles
<1>7. CASE RestoreCorrects
  BY <1>7 DEF RestoreCorrects
<1>8. ~RestoreChecks(stop # "no") /\ ~RestoreWrites
  BY <1>2, <1>3 DEF RestoreChecks, RestoreWrites, Lifecycles
<1>9. QED
  BY <1>4, <1>5, <1>6, <1>7, <1>8 DEF restore_worker

\* A restore that a terminal request overtakes is undone.
THEOREM RestoreIsUndone == BodySpec => NoRestoreBehindTerminal
<1> DEFINE Undone ==
      wk.pc = "restore" /\ wk'.pc # "restore" /\ stop # "no"
        /\ life.policy = "on" /\ ~uncorrected'
      => ~auto'
<1>1. IInv /\ BInv /\ [BodyNext]_bodyVars => [Undone]_bodyVars
  <2> SUFFICES ASSUME IInv, BInv, BodyNext, wk.pc = "restore",
                      wk'.pc # "restore", stop # "no", life.policy = "on",
                      ~uncorrected'
               PROVE  ~auto'
    OBVIOUS
  <2>1. /\ TypeOK /\ InStep /\ MotionTyped /\ YawIsOff
        /\ NoOperation.pc = "none"
    BY DEF IInv, BInv, NoOperation
  <2>2. CASE BodyWorker
    <3>1. restore_worker
      BY <2>2 DEF BodyWorker, prepare_worker, WorkerCalls, TorqueCalls, _set,
           _read, sample_worker, SampleWorker, WorkerDecides,
           _execute_reserved, _wait_for_commands, _transition_reserved,
           _refresh_reserved
    <3>2. QED
      BY <2>1, <3>1, RestoreEnds
  <2>3. ASSUME TaskMove, op'.pc = "prepared" => wk.pc = "done" PROVE FALSE
    BY <2>1, <2>3 DEF TaskMove, TaskEnds, TaskGoesOn, InStep, OnIt
  <2>4. ~OtherMove
    BY DEF OtherMove, Wakes
  <2>5. CASE BodyOperation
    BY <2>1, <2>3, <2>4, <2>5, OperationMoves
  <2>6. CASE Elsewhere
    <3>1. ASSUME InitializeCancelled PROVE op'.pc = "none"
      BY <2>1, <3>1 DEF InitializeCancelled
    <3>2. QED
      BY <2>1, <2>3, <2>4, <2>6, <3>1, ElsewhereMoves
  <2>7. QED
    BY <2>2, <2>5, <2>6 DEF BodyNext, Elsewhere
<1>2. [](IInv /\ BInv) /\ [][BodyNext]_bodyVars => [][Undone]_bodyVars
  BY <1>1, PTL
<1>3. QED
  BY <1>2, BodyInvariance DEF BodySpec, NoRestoreBehindTerminal

-----------------------------------------------------------------------------
(* What an operation can count on.                                         *)

\* Nothing overtakes a task but the terminal request: a reservation is only
\* granted when there is no task, and only a reservation counts generations.
TaskIsCurrent == op.pc # "none" => op.gen = groups[op.g].gen

\* Nor does a phase outlive its task, unless startup is cancelled.
PhaseIsAwaited ==
  wk.pc # "idle" /\ stop = "no" =>
    op.pc \in {"preparing", "executing", "sampling", "restoring"}

\* A group is confirmed at startup behind its gate, and a phase that confirms
\* nothing leaves it shut.
StartsShut == op.pc # "none" /\ op.req = "init" => ~groups[op.g].gate

UnconfirmedIsShut ==
  op.pc = "executing" /\ wk.pc = "done" /\ wk.res \in {"some", "none"}
    /\ stop = "no"
  => ~groups[op.g].gate

TaskInv == TaskIsCurrent /\ PhaseIsAwaited /\ StartsShut /\ UnconfirmedIsShut

\* A generation is only counted by a request that finds no task.
LEMMA GensKept ==
  ASSUME TypeOK, Next, op'.pc = "none" \/ op.pc # "none"
  PROVE  \A g \in Groups : groups'[g].gen = groups[g].gen
<1> DEFINE Kept == \A g \in Groups : groups'[g].gen = groups[g].gen
<1> USE Fields
<1>1. /\ groups \in [Groups -> _GroupState] /\ op.g \in Groups
      /\ wk.g \in Groups /\ \A g \in Groups : groups[g] \in _GroupState
      /\ "on" \in Confirmed /\ "off" \in Confirmed
  BY DEF _GroupState, Confirmed
<1>2. ASSUME UNCHANGED groups PROVE Kept
  BY <1>2
<1>3. ASSUME ObserveTerminal PROVE Kept
  BY <1>3, ObservingGroups
<1>4. ASSUME NEW h \in Groups,
             \/ groups' = GateShut(groups, h)
             \/ groups' = [groups EXCEPT ![h].transition = "reseeding"]
             \/ groups' = [groups EXCEPT ![h].pending = FALSE,
                                         ![h].transition = "confirming"]
             \/ \E v \in Confirmed : groups' = _promote(groups, h, v, FALSE)
      PROVE  Kept
  <2>1. \A v \in Confirmed, g \in Groups :
          _promote(groups, h, v, FALSE)[g].gen = groups[g].gen
    BY <1>1, <1>4 DEF _promote, _GroupState
  <2>2. \A g \in Groups :
          /\ GateShut(groups, h)[g].gen = groups[g].gen
          /\ [groups EXCEPT ![h].transition = "reseeding"][g].gen
               = groups[g].gen
          /\ [groups EXCEPT ![h].pending = FALSE,
                            ![h].transition = "confirming"][g].gen
               = groups[g].gen
    BY <1>1, <1>4 DEF GateShut, _GroupState
  <2>3. CASE \E v \in Confirmed : groups' = _promote(groups, h, v, FALSE)
    BY <2>1, <2>3
  <2>4. QED
    BY <1>4, <2>2, <2>3
<1>5. CASE Worker
  BY <1>1, <1>2, <1>3, <1>4, <1>5
  DEF coordinator, Worker, WorkerCalls, _execute_reserved, _wait_for_commands,
      _set, _transition_reserved, SampleWorker, _read, _refresh_reserved
<1>6. ASSUME NEW promoted \in BOOLEAN, OpFails(promoted) PROVE Kept
  BY <1>6, Failing
<1>7. ASSUME NEW v \in Confirmed, NEW open \in BOOLEAN,
             OpCommits(_promote(groups, op.g, v, open))
      PROVE  Kept
  BY <1>7, Committing
<1>8. ASSUME groups' = Settled(groups, op.g) PROVE Kept
  BY <1>1, <1>8, Settling
<1>9. CASE OpStart \/ OpPrepared \/ OpSampled
  BY <1>2, <1>3, <1>6, <1>9 DEF OpStart, OpPrepared, OpSampled, OpOvertaken,
     coordinator
<1>10. CASE OpCaptures
  BY <1>1, <1>4, <1>10 DEF OpCaptures
<1>11. CASE OpExecuted
  BY <1>1, <1>2, <1>3, <1>4, <1>6, <1>7, <1>8, <1>11
  DEF OpExecuted, OpOvertaken, coordinator
<1>12. CASE OpRestored \/ OpCancelled
  BY <1>1, <1>3, <1>6, <1>7, <1>12 DEF OpRestored, OpCancelled, OpOvertaken
<1>13. CASE InitializeCancelled
  <2>1. CASE stop = "no"
    <3>1. /\ GateShut(groups, op.g) \in [Groups -> _GroupState]
          /\ \A g \in Groups : GateShut(groups, op.g)[g].gen = groups[g].gen
      BY <1>1, Shutting
    <3>2. groups' = Settled(GateShut(groups, op.g), op.g)
      BY <1>13, <2>1 DEF InitializeCancelled
    <3>3. QED
      BY <1>1, <3>1, <3>2, Settling
  <2>2. CASE stop # "no"
    BY <1>1, <1>13, <2>2, Observing DEF InitializeCancelled
  <2>3. QED
    BY <2>1, <2>2
<1>14. ASSUME NEW g \in Groups, NEW req \in Requests, _reserve(g, req)
       PROVE  Kept
  <2>1. /\ Requested(g, req) \in [Groups -> _GroupState]
        /\ \A h \in Groups : Requested(g, req)[h].gen = groups[h].gen
    BY <1>1, <1>14, Shutting DEF Requested
  <2>2. groups' = Observed(Requested(g, req))
    BY <1>14 DEF _reserve
  <2>3. QED
    BY <2>1, <2>2, Observing
<1>15. ASSUME NEW g \in Groups, InitializeGroup(g) PROVE Kept
  BY <1>3, <1>15 DEF InitializeGroup
<1>16. CASE Other
  BY <1>2, <1>3, <1>14, <1>15, <1>16
  DEF Other, Aclose, _wait_for_all_producers, ShutDownExecutor, Initialize,
      RequestTerminal, terminal, aclose, CommandReturns, command, coordinator
<1>17. QED
  BY <1>5, <1>9, <1>10, <1>11, <1>12, <1>13, <1>16, Steps DEF Operation

LEMMA TaskIsCurrentStep ==
  ASSUME TypeOK, TaskIsCurrent, Next
  PROVE  TaskIsCurrent'
<1> USE Fields
<1>1. NoOperation.pc = "none"
  BY DEF NoOperation
<1>2. CASE Worker
  BY <1>2, GensKept, WorkerStep DEF WorkerMove, TaskIsCurrent
<1>3. CASE Operation \/ OpCancelled \/ InitializeCancelled
  BY <1>1, <1>3, GensKept, TaskStep
     DEF TaskMove, TaskEnds, TaskGoesOn, TaskIsCurrent
<1>4. CASE Other
  BY <1>4, GensKept, OtherStep DEF OtherMove, Begins, TaskIsCurrent
<1>5. QED
  BY <1>2, <1>3, <1>4, Steps

\* Only startup, which is cancelled as a whole, leaves a phase behind.
LEMMA PhaseIsAwaitedStep ==
  ASSUME TypeOK, InStep, PhaseIsAwaited, Next,
         Worker \/ Operation \/ InitializeCancelled \/ Other
  PROVE  PhaseIsAwaited'
<1> USE Fields
<1>1. NoPhase.pc = "idle" /\ NoOperation.pc = "none"
  BY DEF NoPhase, NoOperation
<1>2. stop' = "no" => stop = "no"
  BY StopStep
<1>3. CASE Worker
  BY <1>2, <1>3, WorkerStep DEF WorkerMove, PhaseIsAwaited
<1>4. CASE Operation
  <2>1. wk.pc \in {"idle", "done"}
    BY <1>4 DEF Operation, OpStart, OpPrepared, OpCaptures, OpExecuted,
         OpSampled, OpRestored, InStep
  <2>2. QED
    BY <1>1, <1>4, <2>1, TaskStep
       DEF TaskMove, TaskEnds, TaskGoesOn, PhaseIsAwaited
<1>5. CASE InitializeCancelled
  BY <1>2, <1>5 DEF InitializeCancelled, PhaseIsAwaited
<1>6. CASE Other
  BY <1>2, <1>6, OtherStep DEF OtherMove, Wakes, Begins, PhaseIsAwaited
<1>7. QED
  BY <1>3, <1>4, <1>5, <1>6

\* What startup takes on is shut.
LEMMA InitializeShuts ==
  ASSUME TypeOK, Initialize, op'.pc = "start"
  PROVE  ~groups'[op'.g].gate
<1> USE Fields
<1>1. PICK g \in Groups : InitializeGroup(g)
  BY DEF Initialize
<1> DEFINE closed == GateShut(groups, g)
           shut == [closed EXCEPT ![g].pending = TRUE]
<1>2. closed \in [Groups -> _GroupState] /\ ~closed[g].gate
  BY <1>1, Shutting
<1>3. groups' = Begun(shut, g) /\ op'.g = g
  BY <1>1 DEF InitializeGroup
<1> HIDE DEF closed
<1>4. shut \in [Groups -> _GroupState] /\ ~shut[g].gate
  BY <1>1, <1>2, Pending
<1> HIDE DEF shut
<1>5. QED
  BY <1>1, <1>3, <1>4, Beginning

LEMMA StartsShutStep ==
  ASSUME TypeOK, StartsShut, Next
  PROVE  StartsShut'
<1> USE Fields
<1>1. NoOperation.pc = "none" /\ GroupsMove
  BY GroupsStep DEF NoOperation
<1>2. ASSUME op'.g = op.g, op'.req = op.req, op.pc # "none"
      PROVE  StartsShut'
  BY <1>1, <1>2 DEF GroupsMove, Opens, StartsShut
<1>3. ASSUME op'.pc = "none" PROVE StartsShut'
  BY <1>3 DEF StartsShut
<1>4. ASSUME op' = op PROVE StartsShut'
  BY <1>2, <1>3, <1>4
<1>5. CASE Worker
  BY <1>4, <1>5, WorkerStep DEF WorkerMove
<1>6. CASE Operation \/ OpCancelled \/ InitializeCancelled
  BY <1>1, <1>2, <1>3, <1>6, TaskStep DEF TaskMove, TaskEnds, TaskGoesOn
<1>7. CASE Other
  <2>1. op' = op \/ Begins
    BY <1>7, OtherStep DEF OtherMove
  <2>2. CASE Initialize /\ Begins
    BY <2>2, InitializeShuts DEF Begins, StartsShut
  <2>3. CASE Begins /\ ~Initialize
    <3>1. op'.req # "init"
      BY <1>7, <2>3 DEF Begins, Other, Aclose, _wait_for_all_producers,
           ShutDownExecutor, RequestTerminal, terminal, aclose,
           CommandReturns, command, _reserve
    <3>2. QED
      BY <3>1 DEF StartsShut
  <2>4. QED
    BY <1>4, <2>1, <2>2, <2>3
<1>8. QED
  BY <1>5, <1>6, <1>7, Steps

\* What a phase that confirms nothing was told, or did.
LEMMA ConfirmsNothing ==
  ASSUME TypeOK, InStep, TaskInv, WritesBehindGates, Worker, stop = "no",
         op.pc = "executing", wk'.pc = "done", wk'.res \in {"some", "none"}
  PROVE  ~groups'[op.g].gate
<1> USE Fields
<1>1. /\ OnIt /\ _current(wk) /\ Awaited
      /\ groups \in [Groups -> _GroupState] /\ wk \in Phases
  BY DEF InStep, TaskInv, TaskIsCurrent, OnIt, _current, Awaited, TypeOK
<1>2. ASSUME NEW result \in Results, Finish(result)
      PROVE  result \in {"some", "none"}
  BY <1>1, <1>2 DEF Finish, Phases
<1>3. \A v \in Confirmed : ~_promote(groups, op.g, v, FALSE)[op.g].gate
  BY DEF _promote, _GroupState
<1>4. ~GateShut(groups, op.g)[op.g].gate
  BY DEF GateShut, _GroupState
<1>5. {"ok", "fail", "enable", "refresh"} \subseteq Results
      /\ Confirmed \subseteq Results
  BY DEF Results, Confirmed
<1>6. ~WorkerCalls("prepare") /\ ~WorkerCalls("restore")
  BY <1>2, <1>5 DEF WorkerCalls
<1>7. ~_execute_reserved /\ ~_wait_for_commands /\ ~_set
  <2>1. ~_execute_reserved
    BY <1>1, <1>2, <1>5 DEF _execute_reserved, Phases
  <2>2. ~_wait_for_commands
    BY <1>1, <1>2, <1>5 DEF _wait_for_commands, Phases
  <2>3. ~_set
    BY <1>1, <1>2, <1>5 DEF _set, Phases
  <2>4. QED
    BY <2>1, <2>2, <2>3
<1>8. ~ReadInstead \/ wk.pc \notin {"judgeSet", "sample"}
  BY <1>1 DEF ReadInstead, Phases
<1>9. CASE _transition_reserved
  <2>1. wk.pc = "judgeSet"
    BY <1>9 DEF _transition_reserved
  <2>2. ~ReadInstead
    BY <1>8, <2>1
  <2>3. wk' # [wk EXCEPT !.pc = "sample"]
    BY <1>1 DEF Phases
  <2>4. groups' = _promote(groups, wk.g, wk.ev, FALSE)
    BY <1>1, <1>9, <2>2, <2>3 DEF _transition_reserved
  <2>5. QED
    BY <1>1, <1>3, <2>4 DEF OnIt
<1>10. ~SampleWorker
  BY <1>2, <1>5, <1>8 DEF SampleWorker
<1>11. CASE _read
  <2>1. wk.req = "init"
    BY <1>1, <1>11 DEF _read, Phases
  <2>2. UNCHANGED groups
    BY <1>11 DEF _read, coordinator
  <2>3. QED
    BY <1>1, <2>1, <2>2 DEF OnIt, TaskInv, StartsShut
<1>12. CASE _refresh_reserved
  <2>1. ~Finish("refresh")
    BY <1>2, <1>5
  <2>2. \/ groups' = GateShut(groups, wk.g)
        \/ groups' = _promote(groups, wk.g, wk.ev, FALSE)
    BY <1>1, <1>12, <2>1 DEF _refresh_reserved
  <2>3. QED
    BY <1>1, <1>3, <1>4, <2>2 DEF OnIt
<1>13. QED
  BY <1>6, <1>7, <1>9, <1>10, <1>11, <1>12 DEF Worker

LEMMA UnconfirmedStep ==
  ASSUME TypeOK, InStep, TaskInv, WritesBehindGates, Next
  PROVE  UnconfirmedIsShut'
<1> USE Fields
<1>1. /\ NoPhase.pc = "idle" /\ NoOperation.pc = "none" /\ GroupsMove
      /\ stop' = "no" => stop = "no"
  BY GroupsStep, StopStep DEF NoOperation, NoPhase
<1>2. CASE Worker
  BY <1>1, <1>2, ConfirmsNothing, WorkerStep DEF WorkerMove, UnconfirmedIsShut
<1>3. CASE Operation \/ OpCancelled \/ InitializeCancelled
  BY <1>1, <1>3, TaskStep DEF TaskMove, TaskEnds, TaskGoesOn, UnconfirmedIsShut
<1>4. CASE Other
  <2>1. ASSUME op' = op, wk' = wk PROVE UnconfirmedIsShut'
    BY <1>1, <2>1
       DEF GroupsMove, Opens, UnconfirmedIsShut, TaskInv
  <2>2. op'.pc # "executing" \/ op' = op
    BY <1>4, OtherStep DEF OtherMove, Begins
  <2>3. wk'.pc # "done" \/ wk' = wk
    BY <1>4, OtherStep DEF OtherMove, Wakes
  <2>4. QED
    BY <2>1, <2>2, <2>3 DEF UnconfirmedIsShut
<1>5. QED
  BY <1>2, <1>3, <1>4, Steps

\* The coordinator's steps here: nothing cancels the task of a switch.
LEMMA BodySteps ==
  ASSUME BodyNext
  PROVE  UNCHANGED vars \/ Worker \/ Operation \/ InitializeCancelled \/ Other
<1>1. CASE BodyWorker
  BY <1>1 DEF BodyWorker, prepare_worker, restore_worker, TorqueCalls,
       sample_worker, WorkerDecides, AdapterOnly, Worker
<1>2. CASE BodyOperation
  BY <1>2 DEF BodyOperation, OpBegins, prepare_loop, captured_policy,
       OpExecutes, sample_loop, restore_loop, Operation, Other
<1>3. CASE Switches \/ BuildCancelled \/ CoordinatorCloses
  BY <1>3 DEF Switches, BuildCancelled, CoordinatorCloses, Other,
       reserve_refresh, reserve_transition, Requests
<1>4. CASE run \/ MotionReleases
  BY <1>4 DEF run, MotionReleases
<1>5. CASE tick \/ TickRuns \/ Expresses \/ (LinkChanges /\ AdapterOnly)
  BY <1>5 DEF tick, TickRuns, Expresses, AdapterOnly
<1>6. QED
  BY <1>1, <1>2, <1>3, <1>4, <1>5 DEF BodyNext

LEMMA TaskInvStep ==
  ASSUME IInv, TaskInv, BodyNext
  PROVE  TaskInv'
<1>1. TypeOK /\ InStep /\ WritesBehindGates
  BY DEF IInv
<1>2. CASE UNCHANGED vars
  BY <1>2 DEF vars, TaskInv, TaskIsCurrent, PhaseIsAwaited, StartsShut,
       UnconfirmedIsShut
<1>3. CASE Worker \/ Operation \/ InitializeCancelled \/ Other
  <2>1. CASE UNCHANGED vars
    BY <1>2, <2>1
  <2>2. CASE Next
    BY <1>1, <1>3, <2>2, TaskIsCurrentStep, PhaseIsAwaitedStep, StartsShutStep,
       UnconfirmedStep DEF TaskInv
  <2>3. QED
    BY <2>1, <2>2, StepImplements
<1>4. QED
  BY <1>2, <1>3, BodySteps

-----------------------------------------------------------------------------
(* The application, and the policy that is held.                           *)

\* The coordinator's flag and the application's policy are one.
AppTyped ==
  /\ gaze \in BOOLEAN /\ captured \in Policies
  /\ app \in {"built", "running", "stopped", "failed"}
  /\ policy = (captured # "none")

\* A task that is overtaken or fails leaves its gate shut.
LEMMA EndsShut ==
  ASSUME TypeOK, TerminalCloses, TaskInv, op.pc # "none", NEW p \in BOOLEAN,
         OpOvertaken \/ OpFails(p)
  PROVE  ~groups'[op.g].gate /\ UNCHANGED policy
<1> USE Fields
<1>1. CASE OpOvertaken
  <2>1. stop # "no" /\ ObserveTerminal
    BY <1>1 DEF OpOvertaken, TaskInv, TaskIsCurrent, _current
  <2>2. QED
    BY <2>1, ObservingGroups DEF TerminalCloses, TypeOK, ObserveTerminal
<1>2. CASE OpFails(p)
  <2> DEFINE kept == IF p THEN _promote(groups, op.g, "on", FALSE)
                     ELSE GateShut(groups, op.g)
  <2>1. "on" \in Confirmed
    BY DEF Confirmed
  <2>2. kept \in [Groups -> _GroupState] /\ ~kept[op.g].gate
    <3>1. CASE p
      BY <2>1, <3>1 DEF _promote, _GroupState
    <3>2. CASE ~p
      BY <3>2, Shutting
    <3>3. QED
      BY <3>1, <3>2
  <2>3. groups' = Settled(kept, op.g) /\ UNCHANGED policy
    BY <1>2 DEF OpFails
  <2> HIDE DEF kept
  <2>4. QED
    BY <2>2, <2>3, Settling
<1>3. QED
  BY <1>1, <1>2

\* Only a restore that stands opens the gate and gives the policy up.
LEMMA RestoreOpens ==
  ASSUME TypeOK, TerminalCloses, TaskInv, restore_loop
  PROVE  \/ /\ groups'[Body].gate /\ _commit_restore /\ captured' = "none"
            /\ policy' = FALSE /\ stop = "no"
         \/ /\ ~groups'[Body].gate /\ UNCHANGED <<motion, life, captured>>
            /\ UNCHANGED policy
<1> USE Fields
<1>1. op.g = Body /\ op.pc = "restoring" /\ op.g \in Groups
  BY DEF restore_loop, OpRestored
<1>2. CASE OpOvertaken \/ OpFails(op.req = "on")
  <2>1. (op.req = "on") \in BOOLEAN
    OBVIOUS
  <2>2. ~groups'[Body].gate /\ UNCHANGED policy
    BY <1>1, <1>2, <2>1, EndsShut
  <2>3. QED
    BY <2>2 DEF restore_loop
<1>3. CASE OpCommits(_promote(groups, op.g, "on", TRUE))
           /\ policy' = (policy /\ op.g # Body) /\ _current(op)
  <2>1. _promote(groups, op.g, "on", TRUE) \in [Groups -> _GroupState]
        /\ _promote(groups, op.g, "on", TRUE)[op.g].gate
    BY <1>1 DEF _promote, _GroupState, Confirmed
  <2>2. groups' = Settled(_promote(groups, op.g, "on", TRUE), op.g)
    BY <1>3 DEF OpCommits
  <2>3. groups'[Body].gate
    <3> DEFINE gs == _promote(groups, op.g, "on", TRUE)
    <3>1. gs \in [Groups -> _GroupState] /\ gs[op.g].gate
      BY <2>1
    <3>2. groups' = Settled(gs, op.g)
      BY <2>2
    <3> HIDE DEF gs
    <3>3. \A g \in Groups : Settled(gs, op.g)[g].gate = gs[g].gate
      BY <1>1, <3>1, Settling
    <3>4. QED
      BY <1>1, <3>1, <3>2, <3>3
  <2>4. policy' = FALSE /\ stop = "no"
    BY <1>1, <1>3 DEF _current
  <2>5. QED
    BY <2>3, <2>4 DEF restore_loop
<1>4. QED
  BY <1>2, <1>3 DEF restore_loop, OpRestored

LEMMA AppTypedStep ==
  ASSUME IInv, MotionTyped, TaskInv, AppTyped, BodyNext
  PROVE  AppTyped'
<1>1. TypeOK /\ TerminalCloses /\ policy \in BOOLEAN
  BY DEF IInv, TypeOK
<1>3. ASSUME UNCHANGED <<gaze, captured, policy>>,
             app' \in {app, "running", "stopped", "failed"}
      PROVE  AppTyped'
  BY <1>3 DEF AppTyped
<1>5. CASE captured_policy
  <2>1. op.pc = "prepared" /\ op.g = Body
    BY <1>1, <1>5, Fields DEF captured_policy, OpCaptures
  <2>2. policy' = TRUE
    BY <1>1, <1>5, <2>1 DEF captured_policy, OpCaptures
  <2>3. captured' # "none" /\ captured' \in Policies /\ UNCHANGED <<gaze, app>>
    BY <1>5 DEF captured_policy, AppTyped, Policies
  <2>4. QED
    BY <2>2, <2>3 DEF AppTyped
<1>6. CASE restore_loop
  <2>1. UNCHANGED <<gaze, app>>
    BY <1>6 DEF restore_loop
  <2>2. QED
    BY <1>1, <1>6, <2>1, RestoreOpens DEF AppTyped, Policies
<1>7. CASE OpBegins
  BY <1>3, <1>7 DEF OpBegins, OpStart, Initialize, InitializeGroup,
       OpOvertaken, ObserveTerminal, applicationVars, coordinator
<1>8. CASE prepare_loop
  BY <1>3, <1>8 DEF prepare_loop, OpPrepared, applicationVars, coordinator,
       OpOvertaken, ObserveTerminal, OpFails
<1>9. CASE OpExecutes
  BY <1>3, <1>9 DEF OpExecutes, OpExecuted, applicationVars, coordinator,
       OpOvertaken, ObserveTerminal, OpFails
<1>10. CASE sample_loop
  BY <1>3, <1>10 DEF sample_loop, OpSampled, applicationVars, coordinator,
       OpOvertaken, ObserveTerminal, OpFails
<1>11. CASE BodyWorker
  <2>1. UNCHANGED <<gaze, captured, app>>
    BY <1>11 DEF BodyWorker, prepare_worker, restore_worker, TorqueCalls,
         sample_worker, WorkerDecides, AdapterOnly, applicationVars
  <2>2. UNCHANGED vars \/ Worker
    BY <1>11 DEF BodyWorker, prepare_worker, restore_worker, TorqueCalls,
         sample_worker, WorkerDecides, AdapterOnly, Worker
  <2>3. ASSUME Worker PROVE UNCHANGED policy
    BY <2>3 DEF Worker, WorkerCalls, _execute_reserved, _wait_for_commands,
         _set, _transition_reserved, SampleWorker, _read, _refresh_reserved,
         coordinator, ObserveTerminal
  <2>4. QED
    BY <1>3, <2>1, <2>2, <2>3 DEF vars
<1>12. CASE Switches
  BY <1>3, <1>12 DEF Switches, reserve_refresh, reserve_transition, _reserve,
       applicationVars
<1>13. CASE run \/ MotionReleases
  BY <1>3, <1>13 DEF run, MotionReleases, vars
<1>14. CASE tick \/ TickRuns \/ Expresses \/ (LinkChanges /\ AdapterOnly)
  BY <1>3, <1>14 DEF tick, TickRuns, Expresses, AdapterOnly, vars,
       applicationVars
<1>15. CASE BuildCancelled
  BY <1>3, <1>15 DEF BuildCancelled, InitializeCancelled
<1>16. CASE CoordinatorCloses
  BY <1>3, <1>16 DEF CoordinatorCloses, aclose, terminal, Aclose,
       _wait_for_all_producers, ShutDownExecutor, ObserveTerminal,
       applicationVars, coordinator
<1>17. QED
  BY <1>5, <1>6, <1>7, <1>8, <1>9, <1>10, <1>11, <1>12, <1>13, <1>14, <1>15,
     <1>16 DEF BodyNext, BodyOperation

-----------------------------------------------------------------------------
(* The policy comes back.  With tracking off nobody but an operation ever  *)
(* owns the body, so what it finds and gives back is the daemon's own yaw. *)

\* The first operation finds the body with the daemon, and what is held is to
\* turn the yaw on again.
PolicyIsOn ==
  /\ loop = "free" /\ captured # "off" /\ life.policy # "off"
  /\ op.pc = "restoring" => life.policy = "on"
  /\ captured = "none" /\ op.pc # "prepared" => ~motion.acquired

\* The snapshot of an operation that finds no policy held.
SnapshotIsOn ==
  captured = "none" /\ \/ op.pc = "prepared"
                       \/ op.pc = "preparing" /\ wk.pc = "done" /\ wk.res = "ok"
                       \/ wk.pc = "prepare" /\ life.pc # "none"
    => life.automatic

\* A restore is recorded after its write, and nothing undoes a recorded one.
RestoreIsWritten ==
  /\ wk.pc = "restore" => ~life.restored
  /\ wk.pc = "restore" /\ life.pc = "wrote" /\ life.policy = "on" => auto
  /\ op.pc = "restoring" /\ wk.pc = "done" /\ life.restored => auto

OpenIsRestored ==
  groups[Body].gate /\ op.pc = "none" /\ stop = "no" =>
    captured = "none" /\ auto

BodyIsDaemons ==
  ~gaze => PolicyIsOn /\ SnapshotIsOn /\ RestoreIsWritten /\ OpenIsRestored

\* The worker.

\* What a worker step leaves alone.
LEMMA WorkerFrames ==
  ASSUME TypeOK, BodyWorker
  PROVE  /\ UNCHANGED <<gaze, captured, app, loop, motion, op, stop>>
         /\ wk.pc \notin {"idle", "done"}
<1>1. CASE prepare_worker
  BY <1>1 DEF prepare_worker, AdapterOnly, applicationVars, vars, WorkerCalls,
       WorkerFrame, _begin_lifecycle, PrepareWrites, PrepareReturns,
       PrepareRefused
<1>2. CASE restore_worker
  <2>1. UNCHANGED <<motion, loop>>
    BY <1>2 DEF restore_worker, RestoreChecks, RestoreWrites, RestoreSuperseded,
         RestoreRefused, RestoreRecords, RestoreCorrects
  <2>2. UNCHANGED <<op, stop>>
    BY <1>2 DEF restore_worker, vars, WorkerCalls, WorkerFrame
  <2>3. QED
    BY <1>2, <2>1, <2>2 DEF restore_worker, applicationVars
<1>3. CASE TorqueCalls \/ sample_worker
  BY <1>3 DEF TorqueCalls, sample_worker, _set, _read, SampleWorker,
       WorkerFrame, applicationVars
<1>4. CASE WorkerDecides
  BY <1>4 DEF WorkerDecides, motionVars, applicationVars, _execute_reserved,
       _wait_for_commands, _transition_reserved, _refresh_reserved, WorkerFrame
<1>5. QED
  BY <1>1, <1>2, <1>3, <1>4 DEF BodyWorker

\* The prepare phase takes its snapshot of a body nobody owns.
LEMMA DaemonsPrepare ==
  ASSUME IInv, BInv, TaskInv, ~gaze, BodyIsDaemons, prepare_worker,
         wk.pc = "prepare"
  PROVE  PolicyIsOn' /\ SnapshotIsOn' /\ RestoreIsWritten'
<1> USE Fields
<1>1. /\ TypeOK /\ InStep /\ PolicyIsOn /\ SnapshotIsOn
      /\ life \in Lifecycles /\ wk \in Phases
  BY DEF IInv, BInv, BodyIsDaemons, MotionTyped, MotionTypeOK, TypeOK
<1>2. NoPhase.pc = "idle"
  BY DEF NoPhase
<1>3. UNCHANGED <<captured, loop, op, motion>>
  BY <1>1, WorkerFrames DEF BodyWorker
<1>4. op.pc \notin {"prepared", "restoring"}
  BY <1>1 DEF InStep
<1>5. ASSUME life'.policy # "off", wk'.pc # "restore"
      PROVE  PolicyIsOn' /\ RestoreIsWritten'
  BY <1>1, <1>3, <1>4, <1>5 DEF PolicyIsOn, RestoreIsWritten
<1>6. CASE _begin_lifecycle /\ AdapterOnly
  <2>1. wk' = wk
    BY <1>6 DEF AdapterOnly, vars
  <2>2. life'.policy = "none" /\ life'.automatic = ~motion.acquired
    BY <1>6 DEF _begin_lifecycle, NoLifecycle
  <2>3. SnapshotIsOn'
    BY <1>1, <1>3, <1>4, <2>2 DEF SnapshotIsOn, PolicyIsOn
  <2>4. QED
    BY <1>5, <2>1, <2>2, <2>3
<1>7. CASE PrepareWrites /\ AdapterOnly
  <2>1. wk' = wk
    BY <1>7 DEF AdapterOnly, vars
  <2>2. life'.policy = life.policy /\ life'.automatic = life.automatic
    BY <1>1, <1>7 DEF PrepareWrites, Lifecycles
  <2>3. SnapshotIsOn'
    BY <1>1, <1>3, <1>4, <1>7, <2>1, <2>2 DEF SnapshotIsOn, PrepareWrites
  <2>4. QED
    BY <1>1, <1>5, <2>1, <2>2, <2>3 DEF PolicyIsOn
<1>8. CASE PrepareReturns /\ Finish("ok")
  <2>1. wk'.pc \in {"idle", "done"}
    BY <1>1, <1>2, <1>8, Finishing DEF Results, Phases, WorkerPcs
  <2>2. life'.policy = life.policy /\ life'.automatic = life.automatic
    BY <1>1, <1>8 DEF PrepareReturns, Lifecycles
  <2>3. SnapshotIsOn'
    BY <1>1, <1>3, <1>4, <1>8, <2>1, <2>2 DEF SnapshotIsOn, PrepareReturns
  <2>4. QED
    BY <1>1, <1>5, <2>1, <2>2, <2>3 DEF PolicyIsOn
<1>9. CASE PrepareRefused /\ Finish("fail")
  <2>1. wk'.pc \in {"idle", "done"} /\ wk'.res # "ok"
    <3>1. wk' = NoPhase \/ wk' = [wk EXCEPT !.pc = "done", !.res = "fail"]
      BY <1>1, <1>9, Finishing DEF Results
    <3>2. NoPhase.pc = "idle" /\ NoPhase.res = "none"
      BY DEF NoPhase
    <3>3. [wk EXCEPT !.pc = "done", !.res = "fail"].pc = "done"
          /\ [wk EXCEPT !.pc = "done", !.res = "fail"].res = "fail"
      BY <1>1 DEF Phases
    <3>4. QED
      BY <3>1, <3>2, <3>3
  <2>2. life'.policy = life.policy
    BY <1>1, <1>9 DEF PrepareRefused, Lifecycles
  <2>3. SnapshotIsOn'
    BY <1>3, <1>4, <2>1 DEF SnapshotIsOn
  <2>4. QED
    BY <1>1, <1>5, <2>1, <2>2, <2>3 DEF PolicyIsOn
<1>10. QED
  BY <1>6, <1>7, <1>8, <1>9 DEF prepare_worker

\* The restore phase turns the yaw on before it says so.
LEMMA DaemonsRestore ==
  ASSUME IInv, BInv, TaskInv, ~gaze, BodyIsDaemons, restore_worker
  PROVE  PolicyIsOn' /\ SnapshotIsOn' /\ RestoreIsWritten'
<1> USE Fields
<1>1. /\ TypeOK /\ InStep /\ PolicyIsOn /\ RestoreIsWritten
      /\ life \in Lifecycles /\ wk \in Phases /\ wk.pc = "restore"
      /\ UNCHANGED <<captured, loop, op, motion>>
  BY WorkerFrames DEF IInv, BInv, BodyIsDaemons, MotionTyped, MotionTypeOK,
       TypeOK, restore_worker, BodyWorker
<1>2. NoPhase.pc = "idle"
  BY DEF NoPhase
<1>3. op.pc \notin {"prepared", "preparing"}
  BY <1>1 DEF InStep
<1>4. life'.policy = life.policy
  BY <1>1 DEF restore_worker, RestoreChecks, RestoreWrites, RestoreSuperseded,
       RestoreRefused, RestoreRecords, RestoreCorrects, Lifecycles
<1>5. wk'.pc # "prepare" /\ PolicyIsOn' /\ SnapshotIsOn'
  <2>1. wk' = wk \/ wk'.pc \in {"idle", "done"}
    <3>1. CASE UNCHANGED vars
      BY <3>1 DEF vars
    <3>2. CASE Finish("fail") \/ Finish("ok")
      BY <1>1, <1>2, <3>2, Finishing DEF Results, Phases, WorkerPcs
    <3>3. QED
      BY <3>1, <3>2 DEF restore_worker
  <2>2. QED
    BY <1>1, <1>3, <1>4, <2>1 DEF PolicyIsOn, SnapshotIsOn
<1>6. wk'.pc = "restore" <=> life'.pc # "none"
  <2>1. CASE life'.pc # "none"
    BY <1>1, <2>1 DEF restore_worker, vars
  <2>2. CASE life'.pc = "none"
    <3>1. Finish("fail") \/ Finish("ok")
      BY <2>2 DEF restore_worker
    <3>2. QED
      BY <1>1, <1>2, <2>2, <3>1, Finishing DEF Results, Phases, WorkerPcs
  <2>3. QED
    BY <2>1, <2>2
<1>7. ASSUME life'.restored = life.restored,
             life'.pc = "wrote" => RestoreWrites
      PROVE  RestoreIsWritten'
  BY <1>1, <1>4, <1>6, <1>7 DEF RestoreIsWritten, RestoreWrites, PolicyIsOn
<1>8. CASE \/ RestoreChecks(stop # "no") \/ RestoreWrites \/ RestoreRefused
           \/ RestoreCorrects
  <2>1. life'.restored = life.restored
    BY <1>1, <1>8 DEF RestoreChecks, RestoreWrites, RestoreRefused,
         RestoreCorrects, Lifecycles
  <2>2. life'.pc = "wrote" => RestoreWrites
    BY <1>1, <1>8 DEF RestoreChecks, RestoreRefused, RestoreCorrects, Lifecycles
  <2>3. QED
    BY <1>5, <1>7, <2>1, <2>2
<1>9. CASE RestoreSuperseded(stop # "no")
  <2>1. life'.pc = "none" /\ ~life'.restored
    BY <1>1, <1>9 DEF RestoreSuperseded, Lifecycles
  <2>2. QED
    BY <1>5, <1>6, <2>1 DEF RestoreIsWritten
<1>10. CASE RestoreRecords(stop # "no")
  <2>1. /\ life'.pc \in {"none", "correct"} /\ UNCHANGED auto
        /\ life'.pc = "correct" => ~life'.restored
        /\ life.pc = "wrote"
    BY <1>1, <1>10 DEF RestoreRecords, Lifecycles
  <2>2. QED
    BY <1>1, <1>5, <1>6, <2>1 DEF RestoreIsWritten, PolicyIsOn
<1>11. QED
  BY <1>8, <1>9, <1>10 DEF restore_worker

\* The worker.
LEMMA DaemonsWorker ==
  ASSUME IInv, BInv, TaskInv, BodyIsDaemons, BodyWorker
  PROVE  BodyIsDaemons'
<1> USE Fields
<1>1. SUFFICES ASSUME ~gaze
               PROVE  /\ PolicyIsOn' /\ SnapshotIsOn' /\ RestoreIsWritten'
                      /\ OpenIsRestored'
  BY WorkerFrames DEF IInv, BodyIsDaemons
<1>2. /\ TypeOK /\ InStep /\ MotionTyped
      /\ PolicyIsOn /\ SnapshotIsOn /\ RestoreIsWritten /\ PhaseIsAwaited
      /\ UNCHANGED <<captured, loop, op, motion, stop>>
      /\ wk.pc \notin {"idle", "done"} /\ NoPhase.pc = "idle"
  BY <1>1, WorkerFrames DEF IInv, BInv, TaskInv, BodyIsDaemons, NoPhase
<1>3. op.pc # "prepared" /\ OpenIsRestored'
  BY <1>2 DEF InStep, PhaseIsAwaited, OpenIsRestored
<1>4. CASE wk.pc \notin {"prepare", "restore"}
  <2>1. UNCHANGED <<life, auto>> /\ WorkerMove
    BY <1>2, <1>4, WorkerTyped DEF InsideLife, EndsLife
  <2>2. /\ op.pc \notin {"preparing", "restoring"}
        /\ wk'.pc \notin {"prepare", "restore"}
    BY <1>2, <1>4, <2>1 DEF InStep, WorkerMove, WorkerGoesOn
  <2>3. QED
    BY <1>2, <1>3, <2>1, <2>2 DEF PolicyIsOn, SnapshotIsOn, RestoreIsWritten
<1>5. CASE wk.pc \in {"prepare", "restore"}
  <2>1. prepare_worker \/ restore_worker
    BY <1>5 DEF BodyWorker, TorqueCalls, _set, _read, sample_worker,
         SampleWorker, WorkerDecides, _execute_reserved, _wait_for_commands,
         _transition_reserved, _refresh_reserved
  <2>2. prepare_worker => wk.pc = "prepare"
    BY DEF prepare_worker, WorkerCalls
  <2>3. QED
    BY <1>1, <1>3, <2>1, <2>2, DaemonsPrepare, DaemonsRestore
<1>6. QED
  BY <1>4, <1>5

\* What else runs on the loop.
LEMMA DaemonsElsewhere ==
  ASSUME IInv, BInv, TaskInv, BodyIsDaemons, Elsewhere
  PROVE  BodyIsDaemons'
<1> USE Fields
<1>1. UNCHANGED <<gaze, captured>>
  BY DEF Elsewhere, Switches, run, tick, TickRuns, Expresses, BuildCancelled,
       CoordinatorCloses, MotionReleases, AdapterOnly, applicationVars
<1>2. SUFFICES ASSUME ~gaze
               PROVE  /\ PolicyIsOn' /\ SnapshotIsOn' /\ RestoreIsWritten'
                      /\ OpenIsRestored'
  BY <1>1 DEF BodyIsDaemons
<1>3. /\ TypeOK /\ InStep /\ MotionTyped
      /\ PolicyIsOn /\ SnapshotIsOn /\ RestoreIsWritten /\ OpenIsRestored
      /\ NoPhase.pc = "idle" /\ NoOperation.pc = "none"
  BY <1>2 DEF IInv, BInv, BodyIsDaemons, NoPhase, NoOperation
<1>4. /\ UNCHANGED <<life, loop>> /\ motion'.acquired = motion.acquired
      /\ auto => auto'
  <2>1. motion \in Ownerships /\ loop = "free" /\ life' = life
    BY <1>3, ElsewhereTyped DEF MotionTyped, MotionTypeOK, PolicyIsOn
  <2>2. CASE Switches \/ run \/ BuildCancelled \/ CoordinatorCloses
    BY <1>2, <2>2 DEF Switches, run, BuildCancelled, CoordinatorCloses,
         motionVars
  <2>3. ~tick /\ ~TickRuns
    BY <1>2, <2>1 DEF tick, TickRuns, Tick, AcquireQuiesces, AcquireRecords,
         observe, _assert_body_policy, AssertRecords, calibrate, command_gaze
  <2>4. CASE Expresses \/ (LinkChanges /\ AdapterOnly)
    BY <2>4 DEF Expresses, move_head, LinkChanges
  <2>5. CASE MotionReleases
    <3>1. motion'.acquired = motion.acquired /\ UNCHANGED loop
      BY <2>1, <2>5 DEF MotionReleases, release, Ownerships
    <3>2. auto => auto'
      BY <2>5 DEF MotionReleases, GivesBodyBack
    <3>3. QED
      BY <2>1, <3>1, <3>2
  <2>6. QED
    BY <2>2, <2>3, <2>4, <2>5 DEF Elsewhere
<1>5. CASE op' = op /\ (wk' = wk \/ Wakes)
  <2>1. ASSUME op.pc = "none", stop' = "no", groups'[Body].gate
        PROVE  groups[Body].gate /\ stop = "no"
    <3>1. CASE UNCHANGED vars
      BY <2>1, <3>1 DEF vars
    <3>2. CASE Next
      BY <1>5, <2>1, <3>2, GroupsStep, StopStep DEF GroupsMove, Opens, TypeOK,
         IInv
    <3>3. BodyNext
      BY DEF BodyNext, Elsewhere
    <3>4. QED
      BY <3>1, <3>2, <3>3, StepImplements
  <2>2. OpenIsRestored'
    BY <1>1, <1>3, <1>4, <1>5, <2>1 DEF OpenIsRestored
  <2>3. QED
    BY <1>1, <1>3, <1>4, <1>5, <2>2 DEF PolicyIsOn, SnapshotIsOn,
       RestoreIsWritten, Wakes
<1>6. CASE Begins /\ (wk' = wk \/ Wakes)
  BY <1>1, <1>3, <1>4, <1>6 DEF Begins, PolicyIsOn, SnapshotIsOn,
     RestoreIsWritten, OpenIsRestored, Wakes
<1>7. CASE InitializeCancelled /\ TaskMove
  <2>1. op'.pc = "none" /\ stop' # "no" /\ op.pc # "prepared"
    BY <1>3, <1>7 DEF InitializeCancelled
  <2>2. wk' = wk \/ wk'.pc = "idle"
    BY <1>3, <1>7 DEF InitializeCancelled
  <2>3. QED
    BY <1>1, <1>3, <1>4, <2>1, <2>2 DEF PolicyIsOn, SnapshotIsOn,
       RestoreIsWritten, OpenIsRestored
<1>8. QED
  BY <1>3, <1>5, <1>6, <1>7, ElsewhereMoves DEF OtherMove

\* The commands that end an operation without a restore leave the gate shut.
LEMMA ExecutedShut ==
  ASSUME TypeOK, TerminalCloses, TaskInv, OpExecuted, op'.pc = "none",
         stop = "no"
  PROVE  ~groups'[op.g].gate
<1> USE Fields
<1>1. op.pc = "executing" /\ wk.pc = "done" /\ op.g \in Groups
      /\ op \in _ReservedOperation
  BY DEF OpExecuted, TypeOK
<1>2. CASE OpOvertaken \/ OpFails(FALSE) \/ OpFails(TRUE)
  BY <1>1, <1>2, EndsShut
<1>3. CASE wk.res \in {"some", "none"} /\ groups' = Settled(groups, op.g)
  <2>1. ~groups[op.g].gate
    BY <1>1, <1>3 DEF TaskInv, UnconfirmedIsShut
  <2>2. QED
    BY <1>1, <1>3, <2>1, Settling
<1>4. CASE OpCommits(_promote(groups, op.g, "off", FALSE))
  <2> DEFINE gs == _promote(groups, op.g, "off", FALSE)
  <2>1. gs \in [Groups -> _GroupState] /\ ~gs[op.g].gate
    BY <1>1 DEF _promote, _GroupState, Confirmed
  <2>2. groups' = Settled(gs, op.g)
    BY <1>4 DEF OpCommits
  <2> HIDE DEF gs
  <2>3. QED
    BY <1>1, <2>1, <2>2, Settling
<1>5. /\ op' # [op EXCEPT !.pc = "restoring"]
      /\ op' # [op EXCEPT !.pc = "sampling"]
  BY <1>1 DEF _ReservedOperation
<1>6. QED
  BY <1>2, <1>3, <1>4, <1>5 DEF OpExecuted

\* The operation on the loop.
LEMMA DaemonsBegins ==
  ASSUME IInv, BInv, TaskInv, ~gaze, BodyIsDaemons, OpBegins
  PROVE  BodyIsDaemons'
<1> USE Fields
<1>1. /\ TypeOK /\ InStep /\ TerminalCloses /\ PhaseIsAwaited /\ LifeInStep
      /\ PolicyIsOn /\ SnapshotIsOn /\ RestoreIsWritten /\ OpenIsRestored
      /\ NoPhase.pc = "idle" /\ NoOperation.pc = "none"
  BY DEF IInv, BInv, TaskInv, BodyIsDaemons, NoPhase, NoOperation
<1>2. UNCHANGED <<motion, auto, loop, life, captured>>
  BY DEF OpBegins, motionVars, applicationVars
<1>3. CASE OpStart
  <2>1. wk.pc = "idle" /\ op.pc = "start" /\ life.pc = "none"
    BY <1>1, <1>3 DEF OpStart, LifeInStep
  <2>2. TaskMove
    BY <1>1, <1>3, TaskStep DEF Operation
  <2>3. op'.pc \in {"none", "preparing"} /\ wk'.pc \in {"idle", "prepare"}
    BY <1>1, <2>1, <2>2 DEF TaskMove, TaskEnds, TaskGoesOn
  <2>4. op'.pc = "none" => OpOvertaken
    BY <1>1, <1>3, <2>1 DEF OpStart, TypeOK, _ReservedOperation
  <2>5. OpenIsRestored'
    BY <1>1, <2>1, <2>4, EndsShut DEF OpenIsRestored
  <2>6. QED
    BY <1>1, <1>2, <2>1, <2>3, <2>5 DEF BodyIsDaemons, PolicyIsOn, SnapshotIsOn,
       RestoreIsWritten
<1>4. CASE Initialize
  <2>1. /\ op.pc = "none" /\ wk' = wk /\ stop' = stop
        /\ op'.pc \in {"start", "none"} /\ (stop = "no" => op'.pc = "start")
    BY <1>1, <1>4 DEF Initialize, InitializeGroup, OpFrame
  <2>2. OpenIsRestored'
    BY <2>1 DEF OpenIsRestored
  <2>3. QED
    BY <1>1, <1>2, <2>1, <2>2 DEF BodyIsDaemons, PolicyIsOn, SnapshotIsOn,
       RestoreIsWritten
<1>5. QED
  BY <1>3, <1>4 DEF OpBegins

LEMMA DaemonsPrepared ==
  ASSUME IInv, BInv, TaskInv, ~gaze, BodyIsDaemons, prepare_loop
  PROVE  BodyIsDaemons'
<1> USE Fields
<1>1. /\ TypeOK /\ InStep /\ TerminalCloses
      /\ PolicyIsOn /\ SnapshotIsOn /\ life \in Lifecycles
      /\ NoPhase.pc = "idle" /\ NoOperation.pc = "none"
  BY DEF IInv, BInv, BodyIsDaemons, NoPhase, NoOperation, MotionTyped,
       MotionTypeOK
<1>2. UNCHANGED <<auto, loop, captured, stop>>
  BY DEF prepare_loop, DaemonAlone, applicationVars, OpPrepared, OpFrame
<1>3. op.pc = "preparing" /\ wk.pc = "done" /\ op.g = Body
  BY <1>1 DEF prepare_loop, OpPrepared
<1>4. TaskMove
  BY <1>1, TaskStep DEF prepare_loop, Operation
<1>5. op'.pc \in {"none", "prepared"} /\ wk'.pc = "idle"
  BY <1>1, <1>3, <1>4 DEF TaskMove, TaskEnds, TaskGoesOn
<1>6. CASE op'.pc = "prepared"
  <2>1. _commit_quiesce
    BY <1>6 DEF prepare_loop
  <2>2. life'.policy = life.policy /\ life'.automatic = life.automatic
    BY <1>1, <2>1 DEF _commit_quiesce, Lifecycles
  <2>3. wk.res = "ok"
    BY <1>1, <1>3, <1>6, OperationMoves
       DEF BodyOperation, OtherMove, Begins
  <2>4. SnapshotIsOn'
    BY <1>1, <1>2, <1>3, <2>2, <2>3 DEF SnapshotIsOn
  <2>5. QED
    BY <1>1, <1>2, <1>5, <1>6, <2>2, <2>4 DEF BodyIsDaemons, PolicyIsOn,
       RestoreIsWritten, OpenIsRestored
<1>7. CASE op'.pc = "none"
  <2>1. UNCHANGED <<motion, life>>
    BY <1>7 DEF prepare_loop, Unmoved
  <2>2. OpOvertaken \/ OpFails(FALSE)
    BY <1>1, <1>7 DEF prepare_loop, OpPrepared, TypeOK, _ReservedOperation
  <2>3. OpenIsRestored'
    BY <1>1, <1>3, <2>2, EndsShut DEF OpenIsRestored
  <2>4. QED
    BY <1>1, <1>2, <1>3, <1>5, <1>7, <2>1, <2>3 DEF BodyIsDaemons, PolicyIsOn,
       SnapshotIsOn, RestoreIsWritten
<1>8. QED
  BY <1>5, <1>6, <1>7

LEMMA DaemonsCaptures ==
  ASSUME IInv, BInv, TaskInv, ~gaze, BodyIsDaemons, captured_policy
  PROVE  BodyIsDaemons'
<1> USE Fields
<1>1. /\ TypeOK /\ PolicyIsOn /\ SnapshotIsOn
  BY DEF IInv, BodyIsDaemons
<1>2. UNCHANGED <<motion, auto, loop, life>> /\ op.pc = "prepared"
  BY DEF captured_policy, motionVars, OpCaptures
<1>3. op'.pc = "executing" /\ wk'.pc = "execute"
  BY <1>1, <1>2, TaskStep DEF captured_policy, Operation, OpCaptures, Submit,
     NoPhase, TypeOK, _ReservedOperation
<1>4. captured' # "none" /\ captured' # "off"
  BY <1>1, <1>2 DEF captured_policy, PolicyIsOn, SnapshotIsOn
<1>5. QED
  BY <1>1, <1>2, <1>3, <1>4 DEF BodyIsDaemons, PolicyIsOn, SnapshotIsOn,
     RestoreIsWritten, OpenIsRestored

\* The restore phase begins with the policy that turns the yaw on.
LEMMA DaemonsHands ==
  ASSUME IInv, BInv, TaskInv, AppTyped, ~gaze, BodyIsDaemons,
         OpExecutes \/ sample_loop
  PROVE  BodyIsDaemons'
<1> USE Fields
<1>1. /\ TypeOK /\ InStep /\ TerminalCloses /\ PolicyIsKept /\ PolicyIsOn
      /\ motion \in Ownerships
      /\ NoPhase.pc = "idle" /\ NoOperation.pc = "none"
  BY DEF IInv, BInv, BodyIsDaemons, NoPhase, NoOperation, MotionTyped,
       MotionTypeOK
<1>2. /\ UNCHANGED <<auto, loop, captured, stop>> /\ wk.pc = "done"
      /\ op.pc \in {"executing", "sampling"} /\ op.g = Body
  BY <1>1 DEF OpExecutes, OpExecuted, sample_loop, OpSampled, DaemonAlone,
     applicationVars, OpFrame
<1>3. captured = "on"
  BY <1>1, <1>2 DEF PolicyIsKept, PolicyIsOn, AppTyped, Policies
<1>4. TaskMove
  BY <1>1, TaskStep DEF OpExecutes, sample_loop, Operation
<1>5. <<op'.pc, wk'.pc>> \in {<<"none", "idle">>, <<"sampling", "sample">>,
                              <<"restoring", "restore">>}
  BY <1>1, <1>2, <1>4 DEF TaskMove, TaskEnds, TaskGoesOn
<1>6. CASE op'.pc = "restoring"
  <2>1. ASSUME NEW n, HandsPolicy(n)
        PROVE  life'.policy = "on" /\ life'.pc = "none" /\ ~life'.restored
    BY <1>3, <2>1 DEF HandsPolicy, NoLifecycle
  <2>2. ReseedCommits \/ HandsPolicy(life.expected)
    BY <1>6 DEF OpExecutes, sample_loop
  <2>3. life'.policy = "on" /\ life'.pc = "none" /\ ~life'.restored
    BY <2>1, <2>2 DEF ReseedCommits
  <2>4. QED
    BY <1>1, <1>2, <1>3, <1>5, <1>6, <2>3 DEF BodyIsDaemons, PolicyIsOn,
       SnapshotIsOn, RestoreIsWritten, OpenIsRestored
<1>7. CASE op'.pc # "restoring"
  <2>1. UNCHANGED <<motion, life>>
    BY <1>7 DEF OpExecutes, sample_loop, Unmoved
  <2>2. ASSUME op'.pc = "none", stop = "no" PROVE ~groups'[Body].gate
    <3>1. CASE OpExecutes
      BY <1>1, <1>2, <2>2, <3>1, ExecutedShut DEF OpExecutes
    <3>2. CASE sample_loop
      <4>1. OpOvertaken \/ OpFails(FALSE)
        BY <1>1, <2>2, <3>2
           DEF sample_loop, OpSampled, TypeOK, _ReservedOperation
      <4>2. QED
        BY <1>1, <1>2, <4>1, EndsShut
    <3>3. QED
      BY <3>1, <3>2
  <2>3. OpenIsRestored'
    BY <1>2, <2>2 DEF OpenIsRestored
  <2>4. QED
    BY <1>1, <1>2, <1>3, <1>5, <1>7, <2>1, <2>3 DEF BodyIsDaemons, PolicyIsOn,
       SnapshotIsOn, RestoreIsWritten
<1>8. QED
  BY <1>6, <1>7

\* What it says was restored was, and the policy is held no longer.
LEMMA DaemonsRestored ==
  ASSUME IInv, BInv, TaskInv, ~gaze, BodyIsDaemons, restore_loop
  PROVE  BodyIsDaemons'
<1> USE Fields
<1>1. /\ TypeOK /\ InStep /\ TerminalCloses /\ PolicyIsOn /\ RestoreIsWritten
      /\ motion \in Ownerships
      /\ NoPhase.pc = "idle" /\ NoOperation.pc = "none"
      /\ NoLifecycle.policy = "none"
  BY DEF IInv, BInv, BodyIsDaemons, NoPhase, NoOperation, NoLifecycle,
       MotionTyped, MotionTypeOK
<1>2. /\ UNCHANGED <<auto, loop, stop>> /\ wk.pc = "done"
      /\ op.pc = "restoring"
  BY DEF restore_loop, OpRestored, DaemonAlone, OpFrame
<1>3. TaskMove
  BY <1>1, TaskStep DEF restore_loop, Operation
<1>4. op'.pc = "none" /\ wk'.pc = "idle"
  BY <1>1, <1>2, <1>3 DEF TaskMove, TaskEnds, TaskGoesOn
<1>5. CASE _commit_restore /\ captured' = "none"
  <2>1. ~motion'.acquired /\ life' = NoLifecycle
    BY <1>1, <1>5 DEF _commit_restore, PolicyIsOn, Ownerships
  <2>2. auto'
    BY <1>1, <1>2, <1>5 DEF _commit_restore, RestoreStands, RestoreIsWritten
  <2>3. QED
    BY <1>1, <1>2, <1>4, <1>5, <2>1, <2>2 DEF BodyIsDaemons, PolicyIsOn,
       SnapshotIsOn, RestoreIsWritten, OpenIsRestored
<1>6. CASE ~groups'[Body].gate /\ UNCHANGED <<motion, life, captured>>
  BY <1>1, <1>2, <1>4, <1>6 DEF BodyIsDaemons, PolicyIsOn, SnapshotIsOn,
     RestoreIsWritten, OpenIsRestored
<1>7. QED
  BY <1>5, <1>6 DEF restore_loop

LEMMA DaemonsStep ==
  ASSUME IInv, BInv, TaskInv, AppTyped, BodyIsDaemons, BodyNext
  PROVE  BodyIsDaemons'
<1>1. CASE BodyOperation
  <2>1. UNCHANGED gaze
    BY <1>1 DEF BodyOperation, OpBegins, prepare_loop, captured_policy,
       OpExecutes, sample_loop, restore_loop, applicationVars
  <2>2. CASE gaze
    BY <2>1, <2>2 DEF BodyIsDaemons
  <2>3. CASE ~gaze
    BY <1>1, <2>3, DaemonsBegins, DaemonsPrepared, DaemonsCaptures,
       DaemonsHands, DaemonsRestored DEF BodyOperation
  <2>4. QED
    BY <2>2, <2>3
<1>2. QED
  BY <1>1, DaemonsWorker, DaemonsElsewhere DEF BodyNext, Elsewhere

LEMMA DaemonsInit == BodyInit => TaskInv /\ AppTyped /\ BodyIsDaemons
<1> SUFFICES ASSUME BodyInit PROVE TaskInv /\ AppTyped /\ BodyIsDaemons
  OBVIOUS
<1>1. /\ wk.pc = "idle" /\ op.pc = "none" /\ life = NoLifecycle
      /\ loop = "free" /\ ~motion.acquired /\ ~groups[Body].gate
      /\ ~policy /\ captured = "none" /\ app = "built" /\ gaze \in BOOLEAN
  BY DEF BodyInit, Init, MotionInit, NoOperation, NoPhase
<1>2. TaskInv
  BY <1>1 DEF TaskInv, TaskIsCurrent, PhaseIsAwaited, StartsShut,
     UnconfirmedIsShut
<1>3. AppTyped
  BY <1>1 DEF AppTyped, Policies, BodyInit, Init
<1>4. BodyIsDaemons
  BY <1>1 DEF BodyIsDaemons, PolicyIsOn, SnapshotIsOn, RestoreIsWritten,
     OpenIsRestored, NoLifecycle
<1>5. QED
  BY <1>2, <1>3, <1>4

\* The invariant that the types and the policy's return follow from.
THEOREM BodyIsKnown ==
  BodySpec => [](IInv /\ BInv /\ TaskInv /\ AppTyped /\ BodyIsDaemons)
<1> DEFINE Known == TaskInv /\ AppTyped /\ BodyIsDaemons
<1>1. IInv /\ BInv /\ Known /\ [BodyNext]_bodyVars => Known'
  <2> SUFFICES ASSUME IInv, BInv, Known, [BodyNext]_bodyVars PROVE Known'
    OBVIOUS
  <2>1. CASE BodyNext
    BY <2>1, TaskInvStep, AppTypedStep, DaemonsStep DEF BInv
  <2>2. CASE UNCHANGED bodyVars
    <3>1. UNCHANGED <<vars, motionVars, gaze, captured, app>>
      BY <2>2 DEF bodyVars
    <3>2. TaskInv'
      BY <3>1 DEF vars, TaskInv, TaskIsCurrent, PhaseIsAwaited, StartsShut,
         UnconfirmedIsShut
    <3>3. AppTyped' /\ BodyIsDaemons'
      BY <3>1 DEF vars, motionVars, AppTyped, BodyIsDaemons, PolicyIsOn,
         SnapshotIsOn, RestoreIsWritten, OpenIsRestored
    <3>4. QED
      BY <3>2, <3>3
  <2>3. QED
    BY <2>1, <2>2
<1>2. QED
  BY <1>1, BodyInvariance, DaemonsInit, PTL DEF BodySpec

\* The variables of the composition stay within their types, and the policy
\* is captured exactly while the coordinator believes it is.
THEOREM BodyTypes == BodySpec => []BodyTypeOK
<1>1. BInv /\ AppTyped => BodyTypeOK
  BY DEF BInv, MotionTyped, AppTyped, BodyTypeOK
<1>2. QED
  BY <1>1, BodyIsKnown, PTL

\* With tracking off, a body whose gate is open is the daemon's to turn, and
\* the daemon is turning it.
THEOREM PolicyReturns == BodySpec => []PolicyComesBack
<1>1. BodyIsDaemons => PolicyComesBack
  BY DEF BodyIsDaemons, PolicyIsOn, OpenIsRestored, PolicyComesBack
<1>2. QED
  BY <1>1, BodyIsKnown, PTL
=============================================================================
