----------------------------- MODULE MotorGroups -----------------------------
(***************************************************************************)
(* The motor-group coordinator of the satellite: MotorGroupCoordinator in  *)
(* apps/ha-satellite/src/reachy_mini_ha_satellite/motor_control.py.        *)
(*                                                                         *)
(* Three kinds of actor share its state under one lock: the event loop     *)
(* (reservations from Home Assistant, the operation task, initialize and   *)
(* aclose), one worker thread (the blocking daemon calls) and the command  *)
(* producers.  terminal() sets an event outside the lock and then takes    *)
(* it, so the request and its observation are two steps.                   *)
(*                                                                         *)
(* One action is one critical section, one daemon call, or one stretch of  *)
(* the loop between two awaits.  A callback of the group's lifecycle       *)
(* (prepare, sample, restore) succeeds or raises; what it does to the      *)
(* motion adapter is not part of this module.                              *)
(***************************************************************************)
EXTENDS Naturals

CONSTANTS
  Groups,        \* the motor groups
  Body,          \* the one group whose command policy is captured and restored
  Producers,     \* callers of command()
  MaxGeneration, \* bound on the operations each group is given
  Cancellation   \* whether the operation task may be cancelled

ASSUME MotorGroupsAssumption ==
  /\ Body \in Groups
  /\ MaxGeneration \in [Groups -> Nat]
  /\ Cancellation \in BOOLEAN

VARIABLES
  groups,     \* _groups: one _GroupState per group
  inflight,   \* commands_inflight, as the set of producers holding the group
  policy,     \* body_policy of the body group is captured and not yet restored
  stop,       \* terminal(): not called, event set, or returned
  term,       \* _terminal
  op,         \* the operation task; its pc is "none" when there is none
  wk,         \* the worker thread and the phase it runs
  torque,     \* the physical torque of each group
  boot,       \* initialize(): not called, running, or ended
  todo,       \* the groups initialize() has still to confirm
  registered, \* the groups that have a Home Assistant switch
  announced,  \* the value each switch last sent to Home Assistant
  closer,     \* the progress of aclose()
  offWanted   \* history: an off request not followed by an accepted on request

coordinator == <<groups, policy, term>>
vars == <<groups, inflight, policy, stop, term, op, wk, torque, boot, todo,
          registered, announced, closer, offWanted>>

Confirmed   == {"none", "on", "off"}
Transitions == {"idle", "quiescing", "confirming", "reseeding", "terminal"}
Requests    == {"on", "off", "refresh", "init"}
OpPcs       == {"none", "start", "preparing", "prepared", "executing",
                "sampling", "restoring"}
WorkerPcs   == {"idle", "prepare", "execute", "wait", "asleep", "set",
                "judgeSet", "sample", "read", "judgeRead", "restore", "done"}
Results     == {"ok", "fail", "some", "none", "on", "off", "enable", "refresh"}

_GroupState == [confirmed : Confirmed, gate : BOOLEAN,
                transition : Transitions, pending : BOOLEAN, gen : Nat]
_ReservedOperation == [pc : OpPcs, g : Groups, req : Requests, gen : Nat]
Phases == [pc : WorkerPcs, g : Groups, req : Requests, gen : Nat,
           step : {"set", "read"}, ev : Confirmed, res : Results]

NoOperation == [pc |-> "none", g |-> Body, req |-> "init", gen |-> 0]
NoPhase == [pc |-> "idle", g |-> Body, req |-> "init", gen |-> 0,
            step |-> "read", ev |-> "none", res |-> "none"]

Init ==
  /\ groups = [g \in Groups |-> [confirmed |-> "none", gate |-> FALSE,
                                 transition |-> "idle", pending |-> FALSE,
                                 gen |-> 0]]
  /\ inflight = [g \in Groups |-> {}]
  /\ policy = FALSE
  /\ stop = "no" /\ term = FALSE
  /\ op = NoOperation /\ wk = NoPhase
  /\ torque \in [Groups -> {"on", "off", "mixed"}]
  /\ boot = "new" /\ todo = Groups /\ registered = {}
  /\ announced = [g \in Groups |-> "none"]
  /\ closer = "none"
  /\ offWanted = [g \in Groups |-> FALSE]

-----------------------------------------------------------------------------
(* What the critical sections share.                                       *)

\* _terminal_observed: the first section to see the event closes every gate.
Observed(gs) ==
  IF stop = "no" \/ term THEN gs
  ELSE [g \in Groups |-> [gs[g] EXCEPT !.gate = FALSE,
                                       !.transition = "terminal"]]

\* A section that found the operation overtaken only observes the event.
ObserveTerminal ==
  /\ groups' = Observed(groups)
  /\ term' = (stop # "no")
  /\ UNCHANGED policy

\* A variant that trusts the generation alone.
MutantCurrentIgnoresTerminal(o) == groups[o.g].gen = o.gen

_current(o) == stop = "no" /\ groups[o.g].gen = o.gen

\* _promote, in a section that has found no terminal request.
_promote(gs, g, value, open) ==
  [gs EXCEPT ![g].confirmed = value, ![g].gate = open]

\* The gate closes; the confirmed value is kept.
GateShut(gs, g) == [gs EXCEPT ![g].gate = FALSE]

\* An operation of the group begins, under the generation that follows.
Begun(gs, g) ==
  [gs EXCEPT ![g].gen = @ + 1, ![g].transition = "quiescing"]

\* The finally block of _run_reserved; initialize ends a group the same way.
Settled(gs, g) == [gs EXCEPT ![g].pending = FALSE, ![g].transition = "idle"]

\* A phase answers the task that awaits it, if that task is still there.
Awaited == op.pc # "none" /\ op.g = wk.g /\ op.gen = wk.gen
Finish(result) ==
  wk' = IF Awaited THEN [wk EXCEPT !.pc = "done", !.res = result] ELSE NoPhase

\* _offload, onto a worker that is free.
Submit(phase) ==
  wk' = [NoPhase EXCEPT !.pc = phase, !.g = op.g, !.req = op.req,
                        !.gen = op.gen]

-----------------------------------------------------------------------------
(* Command producers, in any thread.                                       *)

\* A variant that looks at the transition and not at the gate.
MutantCommandIgnoresGate(p, required) ==
  /\ stop = "no"
  /\ \A g \in Groups : p \notin inflight[g]
  /\ \A g \in required : groups[g].transition = "idle"
  /\ inflight' = [g \in Groups |-> IF g \in required
                                   THEN inflight[g] \cup {p} ELSE inflight[g]]
  /\ UNCHANGED <<coordinator, stop, op, wk, torque, boot, todo, registered,
                 announced, closer, offWanted>>

\* A variant that looks at the gate and not at the transition.
MutantCommandIgnoresTransition(p, required) ==
  /\ stop = "no"
  /\ \A g \in Groups : p \notin inflight[g]
  /\ \A g \in required : groups[g].gate
  /\ inflight' = [g \in Groups |-> IF g \in required
                                   THEN inflight[g] \cup {p} ELSE inflight[g]]
  /\ UNCHANGED <<coordinator, stop, op, wk, torque, boot, todo, registered,
                 announced, closer, offWanted>>

command(p, required) ==
  /\ stop = "no"
  /\ \A g \in Groups : p \notin inflight[g]
  /\ \A g \in required : groups[g].gate /\ groups[g].transition = "idle"
  /\ inflight' = [g \in Groups |-> IF g \in required
                                   THEN inflight[g] \cup {p} ELSE inflight[g]]
  /\ UNCHANGED <<coordinator, stop, op, wk, torque, boot, todo, registered,
                 announced, closer, offWanted>>

\* The action returned: the reservation is given back and waiters are woken.
CommandReturns(p) ==
  LET left == [g \in Groups |-> inflight[g] \ {p}] IN
  /\ \E g \in Groups : p \in inflight[g]
  /\ inflight' = left
  /\ wk' = IF wk.pc = "asleep" THEN [wk EXCEPT !.pc = "wait"] ELSE wk
  /\ closer' = IF closer = "producers" /\ \A g \in Groups : left[g] = {}
               THEN "phases" ELSE closer
  /\ ObserveTerminal
  /\ UNCHANGED <<stop, op, torque, boot, todo, registered, announced,
                 offWanted>>

-----------------------------------------------------------------------------
(* Terminal state.                                                         *)

\* terminal() before it has the lock: the event alone.
RequestTerminal ==
  /\ stop = "no"
  /\ stop' = "set"
  /\ UNCHANGED <<coordinator, inflight, op, wk, torque, boot, todo,
                 registered, announced, closer, offWanted>>

\* terminal() under the lock: observe the event and wake the worker.
terminal ==
  /\ stop = "set"
  /\ stop' = "done"
  /\ ObserveTerminal
  /\ wk' = IF wk.pc = "asleep" THEN [wk EXCEPT !.pc = "wait"] ELSE wk
  /\ UNCHANGED <<inflight, op, torque, boot, todo, registered, announced,
                 closer, offWanted>>

-----------------------------------------------------------------------------
(* Reservations, made by the switch entities on the loop.                  *)

\* An off request closes the gate whatever becomes of it.
Requested(g, req) ==
  IF req = "off" THEN GateShut(groups, g) ELSE groups

_reserve(g, req) ==
  LET asked == Requested(g, req)
      free  == op.pc = "none" /\ groups[g].transition = "idle" IN
  /\ boot = "up" /\ g \in registered
  /\ announced' = [announced EXCEPT ![g] = groups[g].confirmed]
  /\ \/ /\ stop = "no" /\ free /\ groups[g].gen < MaxGeneration[g]
        /\ groups' = Begun(IF req = "refresh" THEN asked
                          ELSE GateShut(asked, g), g)
        /\ op' = [pc |-> "start", g |-> g, req |-> req,
                  gen |-> groups[g].gen + 1]
        /\ offWanted' = [offWanted EXCEPT
              ![g] = IF req = "refresh" THEN @ ELSE req = "off"]
        /\ UNCHANGED <<policy, term>>
     \/ /\ stop # "no" \/ ~free
        /\ groups' = Observed(asked)
        /\ term' = (stop # "no")
        /\ offWanted' = [offWanted EXCEPT ![g] = @ \/ req = "off"]
        /\ UNCHANGED <<policy, op>>
  /\ UNCHANGED <<inflight, stop, wk, torque, boot, todo, registered, closer>>

reserve_transition(g, requested) == _reserve(g, requested)
reserve_refresh(g) == _reserve(g, "refresh")

-----------------------------------------------------------------------------
(* The operation task on the loop: _run_reserved, and initialize, which    *)
(* runs the same phases for one group after another.                       *)

\* The task ends; initialize goes on to its next group, or returns.
OpEnds(confirmed) ==
  /\ op' = NoOperation
  /\ wk' = IF wk.pc = "done" THEN NoPhase ELSE wk
  /\ IF op.req # "init"
     THEN UNCHANGED <<boot, todo, registered>>
     ELSE /\ todo' = IF stop = "no" THEN todo \ {op.g} ELSE {}
          /\ registered' = IF stop # "no" THEN {}
                           ELSE IF confirmed THEN registered \cup {op.g}
                           ELSE registered
          /\ boot' = IF todo' = {} THEN "up" ELSE boot

\* A stale or overtaken task leaves the group as it is.
OpOvertaken ==
  /\ ~_current(op)
  /\ ObserveTerminal
  /\ OpEnds(FALSE)
  /\ UNCHANGED announced

\* _fail_operation and _startup_failed: close the gate, keep the value.
\* After an enable was confirmed, _promote_failed_enable keeps that value.
OpFails(promoted) ==
  LET kept == IF promoted THEN _promote(groups, op.g, "on", FALSE)
              ELSE GateShut(groups, op.g) IN
  /\ _current(op)
  /\ groups' = Settled(kept, op.g)
  /\ OpEnds(FALSE)
  /\ UNCHANGED <<policy, term, announced>>

\* The task ends with a confirmation of its own and, unless it is
\* initialize, publishes the confirmed value.
OpCommits(gs) ==
  /\ groups' = Settled(gs, op.g)
  /\ OpEnds(TRUE)
  /\ announced' = IF op.req = "init" THEN announced
                  ELSE [announced EXCEPT ![op.g] = gs[op.g].confirmed]
  /\ UNCHANGED term

OpFrame == UNCHANGED <<inflight, stop, torque, closer, offWanted>>

\* The first step of the task: the prepare phase is handed to the worker.
OpStart ==
  /\ op.pc = "start" /\ wk.pc = "idle"
  /\ \/ OpOvertaken
     \/ /\ _current(op)
        /\ op' = [op EXCEPT !.pc = "preparing"]
        /\ Submit("prepare")
        /\ UNCHANGED <<coordinator, boot, todo, registered, announced>>
  /\ OpFrame

\* prepare_loop, and the check that follows it.
OpPrepared ==
  /\ op.pc = "preparing" /\ wk.pc = "done"
  /\ \/ OpOvertaken
     \/ OpFails(FALSE)
     \/ /\ _current(op) /\ wk.res = "ok"
        /\ op' = [op EXCEPT !.pc = "prepared"]
        /\ wk' = NoPhase
        /\ UNCHANGED <<coordinator, boot, todo, registered, announced>>
  /\ OpFrame

\* A variant that forgets the policy it found.
MutantCapturesNothing ==
  /\ op.pc = "prepared"
  /\ groups' = [groups EXCEPT ![op.g].pending = FALSE,
                              ![op.g].transition = "confirming"]
  /\ op' = [op EXCEPT !.pc = "executing"]
  /\ Submit("execute")
  /\ UNCHANGED <<policy, term, boot, todo, registered, announced>>
  /\ OpFrame

\* The section that captures the policy does not look at the event again.
OpCaptures ==
  /\ op.pc = "prepared"
  /\ policy' = (policy \/ op.g = Body)
  /\ groups' = [groups EXCEPT ![op.g].pending = FALSE,
                              ![op.g].transition = "confirming"]
  /\ op' = [op EXCEPT !.pc = "executing"]
  /\ Submit("execute")
  /\ UNCHANGED <<term, boot, todo, registered, announced>>
  /\ OpFrame

\* The confirming phase returned: end, or go on to reseed and restore.
OpExecuted ==
  /\ op.pc = "executing" /\ wk.pc = "done"
  /\ \/ OpOvertaken
     \/ wk.res = "fail" /\ OpFails(FALSE)
     \/ wk.res = "enable" /\ OpFails(TRUE)
     \/ /\ wk.res \in {"some", "none"} /\ _current(op)
        /\ groups' = Settled(groups, op.g)
        /\ OpEnds(FALSE)
        /\ announced' = IF wk.res = "none" THEN announced
                        ELSE [announced EXCEPT
                                ![op.g] = groups[op.g].confirmed]
        /\ UNCHANGED <<policy, term>>
     \/ /\ wk.res \in {"enable", "refresh"} /\ _current(op)
        /\ op' = [op EXCEPT !.pc = "restoring"]
        /\ Submit("restore")
        /\ UNCHANGED <<coordinator, boot, todo, registered, announced>>
     \/ /\ op.req = "init" /\ wk.res = "off" /\ _current(op)
        /\ OpCommits(_promote(groups, op.g, "off", FALSE))
        /\ UNCHANGED policy
     \/ /\ op.req = "init" /\ wk.res = "on" /\ _current(op)
        /\ groups' = [groups EXCEPT ![op.g].transition = "reseeding"]
        /\ op' = [op EXCEPT !.pc = "sampling"]
        /\ Submit("sample")
        /\ UNCHANGED <<policy, term, boot, todo, registered, announced>>
  /\ OpFrame

\* initialize samples in a phase of its own.
OpSampled ==
  /\ op.pc = "sampling" /\ wk.pc = "done"
  /\ \/ OpOvertaken
     \/ OpFails(FALSE)
     \/ /\ _current(op) /\ wk.res = "ok"
        /\ op' = [op EXCEPT !.pc = "restoring"]
        /\ Submit("restore")
        /\ UNCHANGED <<coordinator, boot, todo, registered, announced>>
  /\ OpFrame

\* _finalize_enable, _finalize_refresh and the end of an enabled startup:
\* the confirmed group is opened whatever its gate was meanwhile.
OpRestored ==
  /\ op.pc = "restoring" /\ wk.pc = "done"
  /\ \/ OpOvertaken
     \/ OpFails(op.req = "on")
     \/ /\ _current(op) /\ wk.res = "ok"
        /\ OpCommits(_promote(groups, op.g, "on", TRUE))
        /\ policy' = (policy /\ op.g # Body)
  /\ OpFrame

\* Cancellation is delivered at an await; the phase it awaited runs on.
OpCancelled ==
  /\ Cancellation /\ op.req # "init"
  /\ op.pc \in {"preparing", "executing", "restoring"}
  /\ \/ OpOvertaken
     \/ OpFails(op.pc = "restoring" /\ op.req = "on")
  /\ OpFrame

\* initialize takes the next group, in any order.
InitializeGroup(g) ==
  /\ boot \in {"new", "starting"} /\ op.pc = "none" /\ g \in todo
  /\ \/ /\ stop = "no" /\ groups[g].gen < MaxGeneration[g]
        /\ boot' = "starting"
        /\ groups' = Begun([GateShut(groups, g) EXCEPT ![g].pending = TRUE], g)
        /\ op' = [pc |-> "start", g |-> g, req |-> "init",
                  gen |-> groups[g].gen + 1]
        /\ UNCHANGED <<policy, term, todo, registered>>
     \/ /\ stop # "no"
        /\ ObserveTerminal
        /\ boot' = "up" /\ todo' = {} /\ registered' = {}
        /\ UNCHANGED op
  /\ UNCHANGED <<wk, announced>>
  /\ OpFrame

\* Startup is cancelled: initialize fails its group and main closes the
\* coordinator before anything else runs on the loop.
InitializeCancelled ==
  /\ op.req = "init" /\ closer = "none"
  /\ op.pc \in {"preparing", "executing", "sampling", "restoring"}
  /\ groups' = IF stop = "no"
               THEN Settled(GateShut(groups, op.g), op.g)
               ELSE Observed(groups)
  /\ term' = (stop # "no")
  /\ op' = NoOperation
  /\ wk' = IF wk.pc = "done" THEN NoPhase ELSE wk
  /\ boot' = "up" /\ todo' = {} /\ registered' = {}
  /\ stop' = IF stop = "no" THEN "set" ELSE stop
  /\ closer' = "op"
  /\ UNCHANGED <<inflight, policy, torque, announced, offWanted>>

-----------------------------------------------------------------------------
(* The worker thread.                                                      *)

WorkerFrame == UNCHANGED <<inflight, stop, op, boot, todo, registered,
                           announced, closer, offWanted>>

\* prepare_worker, restore_worker: return or raise.
WorkerCalls(phase) ==
  /\ wk.pc = phase
  /\ \E result \in {"ok", "fail"} : Finish(result)
  /\ UNCHANGED <<coordinator, torque>>
  /\ WorkerFrame

\* _execute_reserved; initialize offloads the read alone.
_execute_reserved ==
  /\ wk.pc = "execute"
  /\ \/ /\ wk.req = "init"
        /\ wk' = [wk EXCEPT !.pc = "read"]
     \/ /\ wk.req # "init" /\ stop # "no"
        /\ Finish("some")
     \/ /\ wk.req # "init" /\ stop = "no"
        /\ wk' = [wk EXCEPT !.pc = "wait",
                    !.step = IF wk.req = "refresh" THEN "read" ELSE "set"]
  /\ UNCHANGED <<coordinator, torque>>
  /\ WorkerFrame

\* A variant that does not wait for the commands in flight.
MutantWriteAtOnce ==
  /\ wk.pc = "wait" /\ stop = "no"
  /\ wk' = [wk EXCEPT !.pc = wk.step]
  /\ UNCHANGED <<coordinator, torque>>
  /\ WorkerFrame

_wait_for_commands ==
  /\ wk.pc = "wait"
  /\ \/ /\ stop = "no" /\ inflight[wk.g] # {}
        /\ wk' = [wk EXCEPT !.pc = "asleep"]
        /\ UNCHANGED coordinator
     \/ /\ stop = "no" /\ inflight[wk.g] = {}
        /\ wk' = [wk EXCEPT !.pc = wk.step]
        /\ UNCHANGED coordinator
     \/ /\ stop # "no"
        /\ Finish("none")
        /\ ObserveTerminal
  /\ UNCHANGED torque
  /\ WorkerFrame

\* What a grouped read-back can say: the one physical value, or nothing.
Evidence(value) == {"none"} \cup ({value} \cap {"on", "off"})

\* The daemon's confirmed write: it may take, not take, or take in part.
_set ==
  /\ wk.pc = "set"
  /\ \E value \in {torque[wk.g], wk.req, "mixed"} :
       /\ torque' = [torque EXCEPT ![wk.g] = value]
       /\ \E ev \in Evidence(value) :
            wk' = [wk EXCEPT !.pc = "judgeSet", !.ev = ev]
  /\ UNCHANGED coordinator
  /\ WorkerFrame

\* A transition that yielded nothing is followed by an independent read.
ReadInstead ==
  IF stop = "no" THEN wk' = [wk EXCEPT !.pc = "wait", !.step = "read"]
  ELSE Finish("some")

\* _transition_reserved after the write.
_transition_reserved ==
  /\ wk.pc = "judgeSet"
  /\ \/ /\ ~_current(wk)
        /\ ObserveTerminal
        /\ ReadInstead
     \/ /\ _current(wk) /\ wk.ev = "none"
        /\ groups' = GateShut(groups, wk.g)
        /\ ReadInstead
        /\ UNCHANGED <<policy, term>>
     \/ /\ _current(wk) /\ wk.ev = "on" /\ wk.req = "on"
        /\ groups' = [groups EXCEPT ![wk.g].transition = "reseeding"]
        /\ wk' = [wk EXCEPT !.pc = "sample"]
        /\ UNCHANGED <<policy, term>>
     \/ /\ _current(wk) /\ wk.ev # "none"
        /\ ~(wk.ev = "on" /\ wk.req = "on")
        /\ groups' = _promote(groups, wk.g, wk.ev, FALSE)
        /\ Finish("some")
        /\ UNCHANGED <<policy, term>>
  /\ UNCHANGED torque
  /\ WorkerFrame

\* sample_worker, for an enable and for initialize.
SampleWorker ==
  /\ wk.pc = "sample"
  /\ \/ Finish("fail") /\ UNCHANGED coordinator
     \/ wk.req = "init" /\ Finish("ok") /\ UNCHANGED coordinator
     \/ wk.req = "on" /\ _current(wk) /\ Finish("enable")
        /\ UNCHANGED coordinator
     \/ wk.req = "on" /\ ~_current(wk) /\ ReadInstead /\ ObserveTerminal
  /\ UNCHANGED torque
  /\ WorkerFrame

_read ==
  /\ wk.pc = "read"
  /\ \E ev \in Evidence(torque[wk.g]) :
       IF wk.req = "init" THEN Finish(ev)
       ELSE wk' = [wk EXCEPT !.pc = "judgeRead", !.ev = ev]
  /\ UNCHANGED <<coordinator, torque>>
  /\ WorkerFrame

\* _refresh_reserved after the read.
_refresh_reserved ==
  /\ wk.pc = "judgeRead"
  /\ \/ /\ ~_current(wk)
        /\ ObserveTerminal
        /\ Finish("none")
     \/ /\ _current(wk) /\ wk.ev = "none"
        /\ groups' = GateShut(groups, wk.g)
        /\ Finish("none")
        /\ UNCHANGED <<policy, term>>
     \/ /\ _current(wk) /\ wk.ev = "on" /\ groups[wk.g].gate
        /\ Finish("refresh")
        /\ UNCHANGED coordinator
     \/ /\ _current(wk) /\ wk.ev # "none"
        /\ ~(wk.ev = "on" /\ groups[wk.g].gate)
        /\ groups' = _promote(groups, wk.g, wk.ev, FALSE)
        /\ Finish("some")
        /\ UNCHANGED <<policy, term>>
  /\ UNCHANGED torque
  /\ WorkerFrame

-----------------------------------------------------------------------------
(* aclose: terminal, then drain the operation, the producers, the worker.  *)

aclose ==
  /\ closer = "none" /\ boot = "up"
  /\ closer' = "op"
  /\ stop' = IF stop = "no" THEN "set" ELSE stop
  /\ UNCHANGED <<coordinator, inflight, op, wk, torque, boot, todo,
                 registered, announced, offWanted>>

\* A variant that registers its waiter without looking first.
MutantWaitAlways ==
  /\ closer = "op" /\ stop = "done" /\ op.pc = "none"
  /\ closer' = "producers"
  /\ UNCHANGED <<coordinator, inflight, stop, op, wk, torque, boot, todo,
                 registered, announced, offWanted>>

\* The waiter is registered in the section that saw a command in flight.
_wait_for_all_producers ==
  /\ closer = "op" /\ stop = "done" /\ op.pc = "none"
  /\ closer' = IF \E g \in Groups : inflight[g] # {} THEN "producers"
               ELSE "phases"
  /\ UNCHANGED <<coordinator, inflight, stop, op, wk, torque, boot, todo,
                 registered, announced, offWanted>>

\* A variant that does not wait for the phase a cancelled task left behind.
MutantShutDownAtOnce ==
  /\ closer = "phases"
  /\ closer' = "closed"
  /\ UNCHANGED <<coordinator, inflight, stop, op, wk, torque, boot, todo,
                 registered, announced, offWanted>>

ShutDownExecutor ==
  /\ closer = "phases" /\ wk.pc = "idle"
  /\ closer' = "closed"
  /\ UNCHANGED <<coordinator, inflight, stop, op, wk, torque, boot, todo,
                 registered, announced, offWanted>>

-----------------------------------------------------------------------------
Operation ==
  \/ OpStart \/ OpPrepared \/ OpCaptures \/ OpExecuted \/ OpSampled
  \/ OpRestored
Worker ==
  \/ WorkerCalls("prepare") \/ WorkerCalls("restore")
  \/ _execute_reserved \/ _wait_for_commands \/ _set
  \/ _transition_reserved \/ SampleWorker \/ _read \/ _refresh_reserved
Aclose == _wait_for_all_producers \/ ShutDownExecutor
Initialize == \E g \in Groups : InitializeGroup(g)

Next ==
  \/ Operation \/ Worker \/ Aclose \/ Initialize
  \/ OpCancelled \/ InitializeCancelled
  \/ RequestTerminal \/ terminal \/ aclose
  \/ \E p \in Producers :
       \/ CommandReturns(p)
       \/ \E required \in SUBSET Groups : required # {} /\ command(p, required)
  \/ \E g \in Groups :
       \/ reserve_refresh(g)
       \/ \E requested \in {"on", "off"} : reserve_transition(g, requested)

Spec == Init /\ [][Next]_vars

\* The loop runs its ready tasks, the worker thread runs, a daemon call and
\* a command return (each has a timeout), and terminal() gets the lock.
Fairness ==
  /\ WF_vars(Operation) /\ WF_vars(Worker) /\ WF_vars(Aclose)
  /\ WF_vars(Initialize) /\ WF_vars(terminal)
  /\ \A p \in Producers : WF_vars(CommandReturns(p))

FairSpec == Spec /\ Fairness

-----------------------------------------------------------------------------
TypeOK ==
  /\ groups \in [Groups -> _GroupState]
  /\ inflight \in [Groups -> SUBSET Producers]
  /\ policy \in BOOLEAN
  /\ stop \in {"no", "set", "done"} /\ term \in BOOLEAN
  /\ op \in _ReservedOperation /\ wk \in Phases
  /\ torque \in [Groups -> {"on", "off", "mixed"}]
  /\ boot \in {"new", "starting", "up"}
  /\ todo \subseteq Groups /\ registered \subseteq Groups
  /\ announced \in [Groups -> Confirmed]
  /\ closer \in {"none", "op", "producers", "phases", "closed"}
  /\ offWanted \in [Groups -> BOOLEAN]

\* REQ-094: every command producer of a group is quiesced before the daemon
\* is asked to change the group's torque, whatever overlaps the request.
QuiescedBeforeWrite == wk.pc = "set" => inflight[wk.g] = {}

\* A command is only ever executed on a group whose torque is really on.
CommandsOnlyTorquedGroups ==
  \A g \in Groups : inflight[g] # {} => torque[g] = "on"

\* A variant that does not ask whether the policy is still held.
MutantSafeWhileHeld ==
  /\ groups[Body].confirmed = "on"
  /\ groups[Body].transition \in {"idle", "terminal"}
  /\ ~groups[Body].pending
  /\ \A g \in Groups : inflight[g] = {}
  /\ op.pc = "none"

safe_to_restore_body_policy ==
  /\ groups[Body].confirmed = "on"
  /\ groups[Body].transition \in {"idle", "terminal"}
  /\ ~policy /\ ~groups[Body].pending
  /\ \A g \in Groups : inflight[g] = {}
  /\ op.pc = "none"

\* REQ-094: the body's automatic policy is never declared safe to hand back
\* to the daemon while the body's torque is not known to be on.
NoRestoreAgainstUnknownTorque ==
  safe_to_restore_body_policy => torque[Body] = "on"

\* Once terminal() has begun nothing a late phase learns is promoted, and
\* once it has been observed no gate opens again.
TerminalWins ==
  [][/\ stop # "no" => \A g \in Groups :
                         groups'[g].confirmed = groups[g].confirmed
     /\ term => \A g \in Groups : ~groups'[g].gate]_vars

\* aclose returns only when no phase, operation or command is running.
ClosedIsQuiet ==
  closer = "closed" =>
    /\ wk.pc = "idle" /\ op.pc = "none"
    /\ \A g \in Groups : inflight[g] = {}

\* An accepted operation ends, however many commands are already running.
OperationEnds == op.pc # "none" ~> op.pc = "none"

\* aclose returns: nothing it waits for can outlast the terminal request.
AcloseReturns == closer = "op" ~> closer = "closed"

\* REQ-093: a request that is refused leaves the group's gate closed.  Stated
\* of the off requests: once off was asked for, only an accepted on opens it.
OffRequestKeepsGateClosed ==
  \A g \in Groups : offWanted[g] => ~groups[g].gate
=============================================================================
