-------------------------------- MODULE Motion --------------------------------
(***************************************************************************)
(* The ownership of the robot's body in the motion adapter: ReachyMotion   *)
(* and its lifecycle of a body operation, in adapters/motion_reachy.py of  *)
(* the satellite, over the state of the daemon link in daemon_link.py.     *)
(*                                                                         *)
(* The daemon can turn the body by itself ("automatic body yaw").  Whoever *)
(* moves the body has to switch that off first and give it back afterwards *)
(* so the adapter counts every change of ownership in a generation, and a  *)
(* result computed under an older one is refused.  Two threads run it: the *)
(* event loop (ticks, and the loop half of an operation) and the motor     *)
(* coordinator's worker (the other half).                                  *)
(*                                                                         *)
(* A call either reaches the daemon or is refused before it is sent, which *)
(* is what the SDK's liveness poll does.  A call and the record it makes   *)
(* of the link are two steps, and so are a guard and its call.             *)
(***************************************************************************)
EXTENDS Naturals

VARIABLES
  motion,       \* _acquired, _temporary_ownership, _released,
                \* _body_policy_pending and _generation
  down,         \* DaemonLink._state is DOWN
  auto,         \* the daemon turns the body by itself
  reachable,    \* whether the daemon takes a call now
  loop,         \* where the event loop is inside a tick, or "free"
  life,         \* the lifecycle of the operation in progress
  uncorrected   \* history: a write of safe state was refused

motionVars == <<motion, down, auto, reachable, loop, life, uncorrected>>

Generations == Nat
Ownerships == [acquired : BOOLEAN, temporary : BOOLEAN, released : BOOLEAN,
               pending : BOOLEAN, generation : Generations]
LoopPcs == {"free", "observe", "assert", "asserted", "calibrate", "quiesce",
            "quiesced", "command"}
LifePcs == {"none", "write", "wrote", "correct"}
Policies == {"none", "on", "off"}

\* _BodyPolicySnapshot, the expected generation, the policy being restored,
\* whether it was, and whether its write raised.
Lifecycles == [pc : LifePcs, seen : Generations, automatic : BOOLEAN,
               expected : Generations, policy : Policies, restored : BOOLEAN,
               raised : BOOLEAN]
NoLifecycle == [pc |-> "none", seen |-> 0, automatic |-> FALSE,
                expected |-> 0, policy |-> "none", restored |-> FALSE,
                raised |-> FALSE]

MotionInit ==
  /\ motion = [acquired |-> FALSE, temporary |-> FALSE, released |-> FALSE,
               pending |-> FALSE, generation |-> 0]
  /\ down = FALSE /\ auto = TRUE /\ reachable \in BOOLEAN
  /\ loop = "free" /\ life = NoLifecycle
  /\ uncorrected = FALSE

\* The daemon stops answering, or answers again, whoever is calling it.
LinkChanges ==
  /\ reachable' = ~reachable
  /\ UNCHANGED <<motion, down, auto, loop, life, uncorrected>>

-----------------------------------------------------------------------------
(* The event loop: acquire, observe, calibrate and command_gaze.           *)

\* A variant that takes ownership without noting the refused write.
MutantRefusalForgotten ==
  /\ loop = "quiesce"
  /\ IF reachable THEN auto' = FALSE /\ loop' = "quiesced" /\ UNCHANGED down
     ELSE down' = TRUE /\ loop' = "observe" /\ UNCHANGED auto
  /\ UNCHANGED <<motion, reachable, life, uncorrected>>

\* acquire, up to the daemon call it may need.
acquire ==
  /\ IF motion.acquired /\ ~motion.temporary
     THEN loop' = "calibrate" /\ UNCHANGED motion
     ELSE /\ motion' = [motion EXCEPT !.acquired = TRUE, !.temporary = FALSE,
                                      !.generation = @ + 1]
          /\ loop' = IF motion.acquired THEN "observe" ELSE "quiesce"
  /\ UNCHANGED <<down, auto, reachable, life, uncorrected>>

\* The daemon call of acquire; a refused one is kept for later.
AcquireQuiesces ==
  /\ loop = "quiesce"
  /\ \/ /\ reachable
        /\ auto' = FALSE /\ loop' = "quiesced"
        /\ UNCHANGED <<motion, down>>
     \/ /\ ~reachable
        /\ down' = TRUE /\ loop' = "observe"
        /\ motion' = [motion EXCEPT !.pending = TRUE]
        /\ UNCHANGED auto
  /\ UNCHANGED <<reachable, life, uncorrected>>

AcquireRecords ==
  /\ loop = "quiesced"
  /\ down' = FALSE /\ loop' = "observe"
  /\ UNCHANGED <<motion, auto, reachable, life, uncorrected>>

\* observe begins with _assert_body_policy; the reads after it are cached.
observe ==
  /\ loop = "observe"
  /\ loop' = IF motion.acquired /\ (motion.pending \/ down)
             THEN "assert" ELSE "calibrate"
  /\ UNCHANGED <<motion, down, auto, reachable, life, uncorrected>>

_assert_body_policy ==
  /\ loop = "assert"
  /\ IF reachable
     THEN auto' = FALSE /\ loop' = "asserted" /\ UNCHANGED down
     ELSE down' = TRUE /\ loop' = "calibrate" /\ UNCHANGED auto
  /\ UNCHANGED <<motion, reachable, life, uncorrected>>

AssertRecords ==
  /\ loop = "asserted"
  /\ down' = FALSE /\ loop' = "calibrate"
  /\ motion' = [motion EXCEPT !.pending = FALSE]
  /\ UNCHANGED <<auto, reachable, life, uncorrected>>

\* A face is calibrated, which takes ownership if nobody has it, or there
\* is none.
calibrate ==
  /\ loop = "calibrate"
  /\ \/ ~motion.acquired /\ acquire
     \/ /\ loop' = "command"
        /\ UNCHANGED <<motion, down, auto, reachable, life, uncorrected>>

\* command_gaze, when the behaviour asks for it and the gates it needs (the
\* head's, and the body's if body motion is enabled) are open.
command_gaze ==
  /\ loop = "command" /\ loop' = "free"
  /\ \/ motion.acquired /\ down' = ~reachable
     \/ UNCHANGED down
  /\ UNCHANGED <<motion, auto, reachable, life, uncorrected>>

\* move_head and move_antennas: a pipeline state is expressed.
move_head ==
  /\ loop = "free" /\ ~motion.released
  /\ down' = ~reachable
  /\ UNCHANGED <<motion, auto, reachable, loop, life, uncorrected>>

-----------------------------------------------------------------------------
(* The loop half of an operation.                                          *)

_commit_quiesce ==
  /\ life.seen = motion.generation
  /\ motion' = [motion EXCEPT !.acquired = TRUE, !.temporary = TRUE,
                              !.generation = @ + 1]
  /\ life' = [life EXCEPT !.expected = motion.generation + 1]

\* The loop half of a sample: what is left of it is the generation.
_commit_reseed ==
  /\ life.expected = motion.generation
  /\ motion' = [motion EXCEPT !.generation = @ + 1]

\* What _commit_restore asks before it changes the owner.
RestoreStands == life.restored /\ life.expected = motion.generation

_commit_restore ==
  /\ RestoreStands
  /\ motion' = [motion EXCEPT !.acquired = (life.policy = "off"),
                              !.temporary = FALSE, !.generation = @ + 1]
  /\ life' = NoLifecycle

-----------------------------------------------------------------------------
(* The worker half: prepare_worker and _restore_policy_worker.  A step     *)
(* with a result ends the phase.                                           *)

_begin_lifecycle ==
  /\ life.pc = "none"
  /\ life' = [NoLifecycle EXCEPT !.pc = "write", !.seen = motion.generation,
                                 !.automatic = ~motion.acquired]
  /\ UNCHANGED <<motion, down, auto, reachable, loop, uncorrected>>

\* The preparing write is carried, or refused, which fails the phase.
PrepareWrites ==
  /\ life.pc = "write" /\ reachable
  /\ auto' = FALSE /\ life' = [life EXCEPT !.pc = "wrote"]
  /\ UNCHANGED <<motion, down, reachable, loop, uncorrected>>

PrepareRefused ==
  /\ life.pc = "write" /\ ~reachable
  /\ down' = TRUE /\ life' = [life EXCEPT !.pc = "none"]
  /\ UNCHANGED <<motion, auto, reachable, loop, uncorrected>>

PrepareReturns ==
  /\ life.pc = "wrote"
  /\ down' = FALSE /\ life' = [life EXCEPT !.pc = "none"]
  /\ UNCHANGED <<motion, auto, reachable, loop, uncorrected>>

\* The check before the write, and the result of finding it overtaken.
RestoreChecks(terminal_requested) ==
  /\ life.pc = "none"
  /\ ~terminal_requested /\ motion.generation = life.expected
  /\ life' = [life EXCEPT !.pc = "write"]
  /\ UNCHANGED <<motion, down, auto, reachable, loop, uncorrected>>

RestoreSuperseded(terminal_requested) ==
  /\ life.pc = "none"
  /\ terminal_requested \/ motion.generation # life.expected
  /\ life' = [life EXCEPT !.restored = FALSE]
  /\ UNCHANGED <<motion, down, auto, reachable, loop, uncorrected>>

RestoreWrites ==
  /\ life.pc = "write" /\ reachable
  /\ auto' = (life.policy = "on") /\ life' = [life EXCEPT !.pc = "wrote"]
  /\ UNCHANGED <<motion, down, reachable, loop, uncorrected>>

RestoreRefused ==
  /\ life.pc = "write" /\ ~reachable
  /\ down' = TRUE
  /\ life' = [life EXCEPT !.pc = IF life.policy = "on" THEN "correct"
                                 ELSE "none", !.raised = TRUE]
  /\ UNCHANGED <<motion, auto, reachable, loop, uncorrected>>

\* A variant whose second check asks for the generation alone.
MutantKeptByGeneration(terminal_requested) ==
  motion.generation = life.expected

\* The check after the write asks what the one before it asked.
RestoreKept(terminal_requested) ==
  ~terminal_requested /\ motion.generation = life.expected

RestoreRecords(terminal_requested) ==
  /\ life.pc = "wrote"
  /\ down' = FALSE
  /\ life' = [life EXCEPT !.restored = RestoreKept(terminal_requested),
                          !.pc = IF ~RestoreKept(terminal_requested)
                                    /\ life.policy = "on"
                                 THEN "correct" ELSE "none"]
  /\ UNCHANGED <<motion, auto, reachable, loop, uncorrected>>

\* The safe state again, when the policy was not kept.
RestoreCorrects ==
  /\ life.pc = "correct"
  /\ auto' = (auto /\ ~reachable) /\ down' = ~reachable
  /\ uncorrected' = (uncorrected \/ ~reachable)
  /\ life' = [life EXCEPT !.pc = "none"]
  /\ UNCHANGED <<motion, reachable, loop>>

-----------------------------------------------------------------------------
\* release, once the coordinator is closed, and the last write it may make.
GivesBodyBack ==
  auto' = (auto \/ reachable) /\ down' = ~reachable

release ==
  /\ ~motion.released
  /\ motion' = [motion EXCEPT !.released = TRUE, !.generation = @ + 1]
  /\ UNCHANGED <<reachable, loop, life, uncorrected>>

Tick ==
  \/ AcquireQuiesces \/ AcquireRecords \/ observe \/ _assert_body_policy
  \/ AssertRecords \/ calibrate \/ command_gaze

MotionTypeOK ==
  /\ motion \in Ownerships
  /\ down \in BOOLEAN /\ auto \in BOOLEAN /\ reachable \in BOOLEAN
  /\ loop \in LoopPcs /\ life \in Lifecycles
  /\ uncorrected \in BOOLEAN
=============================================================================
