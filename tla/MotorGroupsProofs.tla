-------------------------- MODULE MotorGroupsProofs --------------------------
(***************************************************************************)
(* The safety properties of MotorGroups hold for every set of groups and   *)
(* producers and every bound on the operations.                            *)
(*                                                                         *)
(* The argument: the worker runs one phase at a time and the task waits    *)
(* for it, so at most one of them decides (InStep).  A gate is closed from *)
(* the request of a write until the task has restored the group, even when *)
(* the task is cancelled and its phase runs on (WritesBehindGates).  So    *)
(* nobody commands the group that is being written, and an open gate means *)
(* torque that is on (TorqueIsKnown).  The body's policy stays captured    *)
(* for as long as its torque may differ from what was confirmed            *)
(* (PolicyIsKept).                                                         *)
(***************************************************************************)
EXTENDS MotorGroups, TLAPS

\* What is assumed of the constants is used throughout.
USE MotorGroupsAssumption

Writes == {"on", "off"}

\* The phase the worker runs is the one the task waits for.
OnIt == wk.g = op.g /\ wk.gen = op.gen /\ wk.req = op.req

InStep ==
  /\ op.pc = "start" /\ wk.pc # "idle" /\ wk.g = op.g => wk.gen < op.gen
  /\ op.pc = "preparing" => OnIt /\ wk.pc \in {"prepare", "done"}
  /\ op.pc = "executing" => OnIt /\ wk.pc \notin {"idle", "prepare", "restore"}
  /\ op.pc = "sampling" =>
       OnIt /\ wk.pc \in {"sample", "done"} /\ op.req = "init"
  /\ op.pc = "restoring" => OnIt /\ wk.pc \in {"restore", "done"}
  /\ op.pc = "prepared" => wk.pc = "idle"
  /\ op.pc # "none" => op.gen <= groups[op.g].gen
  /\ wk.pc # "idle" => wk.gen <= groups[wk.g].gen

WritesBehindGates ==
  /\ op.pc # "none" /\ op.req \in Writes => ~groups[op.g].gate
  /\ wk.pc # "idle" /\ wk.req \in Writes => ~groups[wk.g].gate
  /\ wk.pc \in {"set", "judgeSet"} => wk.req \in Writes
  /\ wk.pc \in {"wait", "asleep"} /\ wk.step = "set" => wk.req \in Writes

TorqueIsKnown ==
  /\ \A g \in Groups : groups[g].gate => torque[g] = "on"
  /\ wk.pc = "sample" => torque[wk.g] = "on"
  /\ wk.pc \in {"judgeSet", "judgeRead"} /\ wk.ev = "on" => torque[wk.g] = "on"
  /\ wk.pc = "done" /\ wk.res \in {"on", "enable", "refresh"}
       => torque[wk.g] = "on"
  /\ op.pc \in {"sampling", "restoring"} => torque[op.g] = "on"

PolicyIsKept ==
  /\ op.pc \in {"executing", "sampling", "restoring"} /\ op.g = Body => policy
  /\ wk.pc \notin {"idle", "prepare", "done"} /\ wk.g = Body => policy
  /\ ~policy /\ groups[Body].confirmed = "on" => torque[Body] = "on"

TerminalCloses ==
  term => stop # "no" /\ \A g \in Groups : ~groups[g].gate

ClosesInOrder ==
  /\ closer # "none" => boot = "up" /\ stop # "no"
  /\ closer \in {"producers", "phases", "closed"} =>
       stop = "done" /\ op.pc = "none"
  /\ closer \in {"phases", "closed"} => \A g \in Groups : inflight[g] = {}
  /\ closer = "closed" => wk.pc = "idle"

IInv ==
  /\ TypeOK /\ InStep /\ WritesBehindGates /\ QuiescedBeforeWrite
  /\ TorqueIsKnown /\ CommandsOnlyTorquedGroups /\ PolicyIsKept
  /\ TerminalCloses /\ ClosesInOrder

-----------------------------------------------------------------------------
(* What the shared operators leave.                                        *)

\* Observing the event changes no value and opens no gate.
LEMMA Observing ==
  ASSUME TypeOK, NEW gs \in [Groups -> _GroupState]
  PROVE  /\ Observed(gs) \in [Groups -> _GroupState]
         /\ \A g \in Groups : /\ Observed(gs)[g].confirmed = gs[g].confirmed
                              /\ Observed(gs)[g].gen = gs[g].gen
                              /\ Observed(gs)[g].gate => gs[g].gate
                              /\ stop # "no" /\ ~term => ~Observed(gs)[g].gate
BY DEF Observed, _GroupState, Transitions, TypeOK

\* A section that only observes the event.
LEMMA ObservingGroups ==
  ASSUME TypeOK, ObserveTerminal
  PROVE  /\ groups' \in [Groups -> _GroupState] /\ term' \in BOOLEAN
         /\ \A g \in Groups : /\ groups'[g].confirmed = groups[g].confirmed
                              /\ groups'[g].gen = groups[g].gen
                              /\ groups'[g].gate => groups[g].gate
                              /\ stop # "no" /\ ~term => ~groups'[g].gate
BY Observing DEF ObserveTerminal, TypeOK

\* Neither the free worker nor the absent task is ill typed.
LEMMA Rests ==
  NoOperation \in _ReservedOperation /\ NoPhase \in Phases
BY DEF NoOperation, NoPhase, _ReservedOperation, Phases, OpPcs, Requests,
       WorkerPcs, Confirmed, Results

\* A phase that ends answers its task or leaves the worker free.
LEMMA Finishing ==
  ASSUME TypeOK, NEW result \in Results, Finish(result)
  PROVE  /\ wk' \in Phases
         /\ \/ wk' = NoPhase /\ ~Awaited
            \/ wk' = [wk EXCEPT !.pc = "done", !.res = result] /\ Awaited
<1>1. wk \in Phases /\ NoPhase \in Phases
  BY Rests DEF TypeOK
<1>2. CASE Awaited
  <2>1. wk' = [wk EXCEPT !.pc = "done", !.res = result]
    BY <1>2 DEF Finish
  <2>2. QED
    BY <1>1, <1>2, <2>1 DEF Phases, WorkerPcs
<1>3. CASE ~Awaited
  BY <1>1, <1>3 DEF Finish
<1>4. QED
  BY <1>2, <1>3

\* A phase that is submitted is the task's own.
LEMMA Submitting ==
  ASSUME TypeOK, NEW phase \in WorkerPcs, Submit(phase)
  PROVE  /\ wk' \in Phases /\ wk'.pc = phase
         /\ wk'.g = op.g /\ wk'.gen = op.gen /\ wk'.req = op.req
         /\ wk'.step = "read" /\ wk'.ev = "none" /\ wk'.res = "none"
BY DEF Submit, TypeOK, Phases, _ReservedOperation, NoPhase, WorkerPcs, Requests,
       Confirmed, Results

\* The end of the task.
LEMMA Ending ==
  ASSUME TypeOK, NEW confirmed \in BOOLEAN, OpEnds(confirmed)
  PROVE  /\ op' = NoOperation /\ op' \in _ReservedOperation
         /\ wk' \in Phases /\ wk' = IF wk.pc = "done" THEN NoPhase ELSE wk
         /\ boot' \in {"new", "starting", "up"} /\ (boot = "up" => boot' = "up")
         /\ todo' \subseteq Groups /\ registered' \subseteq Groups
BY Rests DEF OpEnds, TypeOK, _ReservedOperation

\* Settling a group changes neither values, nor gates, nor generations.
LEMMA Settling ==
  ASSUME NEW gs \in [Groups -> _GroupState], NEW h \in Groups
  PROVE  /\ Settled(gs, h) \in [Groups -> _GroupState]
         /\ \A g \in Groups : /\ Settled(gs, h)[g].confirmed = gs[g].confirmed
                              /\ Settled(gs, h)[g].gate = gs[g].gate
                              /\ Settled(gs, h)[g].gen = gs[g].gen
BY DEF Settled, _GroupState, Transitions

\* An operation that begins changes neither values nor gates.
LEMMA Beginning ==
  ASSUME NEW gs \in [Groups -> _GroupState], NEW h \in Groups
  PROVE  /\ Begun(gs, h) \in [Groups -> _GroupState]
         /\ \A g \in Groups : /\ Begun(gs, h)[g].confirmed = gs[g].confirmed
                              /\ Begun(gs, h)[g].gate = gs[g].gate
                              /\ g # h => Begun(gs, h)[g].gen = gs[g].gen
         /\ Begun(gs, h)[h].gen = gs[h].gen + 1
         /\ gs[h].gen \in Nat
<1>1. \A g \in Groups : gs[g] \in _GroupState /\ gs[g].gen \in Nat
  BY DEF _GroupState
<1>2. Begun(gs, h) \in [Groups -> _GroupState]
  <2>1. [gs[h] EXCEPT !.gen = gs[h].gen + 1, !.transition = "quiescing"]
          \in _GroupState
    <3>1. [gs[h] EXCEPT !.gen = gs[h].gen + 1] \in _GroupState
      BY <1>1 DEF _GroupState
    <3>2. \A r \in _GroupState :
            [r EXCEPT !.transition = "quiescing"] \in _GroupState
      BY DEF _GroupState, Transitions
    <3>3. QED
      BY <3>1, <3>2
  <2>2. Begun(gs, h) =
          [gs EXCEPT ![h] = [gs[h] EXCEPT !.gen = gs[h].gen + 1,
                                          !.transition = "quiescing"]]
    BY DEF Begun
  <2>3. QED
    BY <2>1, <2>2
<1>3. \A g \in Groups : /\ Begun(gs, h)[g].confirmed = gs[g].confirmed
                        /\ Begun(gs, h)[g].gate = gs[g].gate
                        /\ g # h => Begun(gs, h)[g].gen = gs[g].gen
  BY <1>1 DEF Begun, _GroupState
<1>4. Begun(gs, h)[h].gen = gs[h].gen + 1
  BY <1>1 DEF Begun, _GroupState
<1>5. QED
  BY <1>1, <1>2, <1>3, <1>4

\* Closing a gate, and marking a startup as pending.
LEMMA Shutting ==
  ASSUME NEW gs \in [Groups -> _GroupState], NEW h \in Groups
  PROVE  /\ GateShut(gs, h) \in [Groups -> _GroupState]
         /\ \A g \in Groups : /\ GateShut(gs, h)[g].confirmed = gs[g].confirmed
                              /\ GateShut(gs, h)[g].gen = gs[g].gen
                              /\ GateShut(gs, h)[g].gate => gs[g].gate
         /\ ~GateShut(gs, h)[h].gate
BY DEF GateShut, _GroupState

LEMMA Pending ==
  ASSUME NEW gs \in [Groups -> _GroupState], NEW h \in Groups
  PROVE  /\ [gs EXCEPT ![h].pending = TRUE] \in [Groups -> _GroupState]
         /\ \A g \in Groups :
              /\ [gs EXCEPT ![h].pending = TRUE][g].confirmed = gs[g].confirmed
              /\ [gs EXCEPT ![h].pending = TRUE][g].gen = gs[g].gen
              /\ [gs EXCEPT ![h].pending = TRUE][g].gate = gs[g].gate
BY DEF _GroupState

\* A task that fails.
LEMMA Failing ==
  ASSUME TypeOK, NEW promoted \in BOOLEAN, OpFails(promoted)
  PROVE  /\ groups' \in [Groups -> _GroupState] /\ stop = "no"
         /\ \A g \in Groups : /\ groups'[g].gen = groups[g].gen
                              /\ groups'[g].gate => groups[g].gate
                              /\ groups'[g].confirmed # groups[g].confirmed =>
                                   promoted = TRUE /\ g = op.g
         /\ OpEnds(FALSE) /\ UNCHANGED <<policy, term, announced>>
<1> DEFINE kept == IF promoted THEN _promote(groups, op.g, "on", FALSE)
                   ELSE GateShut(groups, op.g)
<1>1. groups \in [Groups -> _GroupState] /\ op.g \in Groups /\ "on" \in Confirmed
  BY DEF TypeOK, _ReservedOperation, Confirmed
<1>2. /\ kept \in [Groups -> _GroupState]
      /\ \A g \in Groups : /\ kept[g].gen = groups[g].gen
                           /\ kept[g].gate => groups[g].gate
                           /\ kept[g].confirmed # groups[g].confirmed =>
                                promoted = TRUE /\ g = op.g
  <2>1. CASE promoted
    BY <1>1, <2>1 DEF _promote, _GroupState
  <2>2. CASE ~promoted
    BY <1>1, <2>2, Shutting
  <2>3. QED
    BY <2>1, <2>2
<1>3. /\ groups' = Settled(kept, op.g) /\ stop = "no"
      /\ OpEnds(FALSE) /\ UNCHANGED <<policy, term, announced>>
  BY DEF OpFails, _current
<1> HIDE DEF kept
<1>4. /\ groups' \in [Groups -> _GroupState]
      /\ \A g \in Groups : /\ groups'[g].confirmed = kept[g].confirmed
                           /\ groups'[g].gate = kept[g].gate
                           /\ groups'[g].gen = kept[g].gen
  BY <1>1, <1>2, <1>3, Settling
<1>5. QED
  BY <1>2, <1>3, <1>4

\* A task that ends with a confirmation.
LEMMA Committing ==
  ASSUME TypeOK, NEW value \in Confirmed, NEW open \in BOOLEAN,
         OpCommits(_promote(groups, op.g, value, open))
  PROVE  /\ groups' \in [Groups -> _GroupState]
         /\ \A g \in Groups :
              /\ groups'[g].gen = groups[g].gen
              /\ groups'[g].gate => groups[g].gate \/ (open = TRUE /\ g = op.g)
              /\ groups'[g].confirmed # groups[g].confirmed => g = op.g
         /\ groups'[op.g].confirmed = value
         /\ announced' \in [Groups -> Confirmed]
         /\ OpEnds(TRUE) /\ UNCHANGED term
<1> DEFINE gs == _promote(groups, op.g, value, open)
<1>1. groups \in [Groups -> _GroupState] /\ op.g \in Groups
  BY DEF TypeOK, _ReservedOperation
<1>2. /\ gs \in [Groups -> _GroupState]
      /\ \A g \in Groups :
              /\ gs[g].gen = groups[g].gen
              /\ gs[g].gate => groups[g].gate \/ (open = TRUE /\ g = op.g)
              /\ gs[g].confirmed # groups[g].confirmed => g = op.g
      /\ gs[op.g].confirmed = value
  BY <1>1 DEF _promote, _GroupState
<1>3. /\ groups' = Settled(gs, op.g) /\ OpEnds(TRUE) /\ UNCHANGED term
      /\ announced' = IF op.req = "init" THEN announced
                      ELSE [announced EXCEPT ![op.g] = gs[op.g].confirmed]
  BY DEF OpCommits
<1>4. announced' \in [Groups -> Confirmed]
  BY <1>1, <1>2, <1>3 DEF TypeOK
<1> HIDE DEF gs
<1>5. /\ groups' \in [Groups -> _GroupState]
      /\ \A g \in Groups : /\ groups'[g].confirmed = gs[g].confirmed
                           /\ groups'[g].gate = gs[g].gate
                           /\ groups'[g].gen = gs[g].gen
  BY <1>1, <1>2, <1>3, Settling
<1>6. QED
  BY <1>1, <1>2, <1>3, <1>4, <1>5

-----------------------------------------------------------------------------
(* What a step may do to the groups.                                       *)

\* The one step that opens a gate: the task has restored its group.
Opens(g) ==
  /\ g = op.g /\ op.pc = "restoring" /\ wk.pc = "done" /\ stop = "no"
  /\ op' = NoOperation /\ wk' = NoPhase

\* A value is confirmed by the task, or by the worker that has just read it.
Confirms(g) ==
  /\ stop = "no"
  /\ \/ g = op.g /\ op.pc \in {"executing", "restoring"}
     \/ g = wk.g /\ wk.pc \in {"judgeSet", "judgeRead"}

GroupsMove ==
  /\ groups' \in [Groups -> _GroupState]
  /\ \A g \in Groups :
       /\ groups[g].gen <= groups'[g].gen
       /\ groups'[g].gate => groups[g].gate \/ Opens(g)
       /\ groups'[g].confirmed # groups[g].confirmed => Confirms(g)

\* An operation that begins behind gates that were only closed.
LEMMA BegunMoves ==
  ASSUME TypeOK, NEW g \in Groups, NEW shut \in [Groups -> _GroupState],
         \A h \in Groups : /\ shut[h].confirmed = groups[h].confirmed
                           /\ shut[h].gen = groups[h].gen
                           /\ shut[h].gate => groups[h].gate,
         groups' = Begun(shut, g)
  PROVE  GroupsMove
<1>1. \A h \in Groups : groups[h].gen \in Nat
  BY DEF TypeOK, _GroupState
<1>2. groups' \in [Groups -> _GroupState]
  BY Beginning
<1>3. \A h \in Groups : groups[h].gen <= groups'[h].gen
  <2>1. \A h \in Groups : h # g => groups'[h].gen = shut[h].gen
    BY Beginning
  <2>2. groups'[g].gen = shut[g].gen + 1
    BY Beginning
  <2>3. QED
    BY <1>1, <2>1, <2>2
<1>4. \A h \in Groups : groups'[h].gate => groups[h].gate
  BY Beginning
<1>5. \A h \in Groups : groups'[h].confirmed = groups[h].confirmed
  BY Beginning
<1>6. QED
  BY <1>2, <1>3, <1>4, <1>5 DEF GroupsMove

\* Generations grow, gates open at one place only, and no value changes once
\* the terminal event is set.
LEMMA GroupsStep ==
  ASSUME TypeOK, Next
  PROVE  GroupsMove
<1>1. /\ groups \in [Groups -> _GroupState]
      /\ \A g \in Groups : groups[g] \in _GroupState /\ groups[g].gen \in Nat
      /\ op.g \in Groups /\ wk.g \in Groups /\ wk.ev \in Confirmed
      /\ "on" \in Confirmed /\ "off" \in Confirmed
  BY DEF TypeOK, _GroupState, _ReservedOperation, Phases, Confirmed
<1> DEFINE Calm == /\ groups' \in [Groups -> _GroupState]
                   /\ \A g \in Groups :
                        /\ groups'[g].gen = groups[g].gen
                        /\ groups'[g].gate => groups[g].gate
                        /\ \/ groups'[g].confirmed = groups[g].confirmed
                           \/ Confirms(g)
<1>0. ASSUME Calm PROVE GroupsMove
  BY <1>0, <1>1 DEF GroupsMove
<1>2. ASSUME UNCHANGED groups PROVE GroupsMove
  BY <1>0, <1>1, <1>2
<1>3. ASSUME ObserveTerminal PROVE GroupsMove
  <2>1. Calm
    BY <1>1, <1>3, ObservingGroups
  <2>2. QED
    BY <1>0, <2>1
<1>4. ASSUME OpOvertaken PROVE GroupsMove
  BY <1>3, <1>4 DEF OpOvertaken
<1>5. ASSUME NEW promoted \in BOOLEAN, OpFails(promoted),
             promoted = TRUE => op.pc \in {"executing", "restoring"}
      PROVE  GroupsMove
  <2>1. Calm
    BY <1>5, Failing DEF Confirms
  <2>2. QED
    BY <1>0, <2>1
<1>6. CASE OpStart
  BY <1>2, <1>4, <1>6 DEF OpStart, coordinator
<1>7. CASE OpPrepared
  BY <1>2, <1>4, <1>5, <1>7 DEF OpPrepared, coordinator
<1>8. CASE OpCaptures
  <2>1. Calm
    BY <1>1, <1>8 DEF OpCaptures, _GroupState, Transitions
  <2>2. QED
    BY <1>0, <2>1
<1>9. CASE OpExecuted
  <2>1. ASSUME _current(op), groups' = Settled(groups, op.g) PROVE GroupsMove
    <3>1. Calm
      BY <1>1, <2>1, Settling
    <3>2. QED
      BY <1>0, <3>1
  <2>2. ASSUME _current(op), OpCommits(_promote(groups, op.g, "off", FALSE))
        PROVE  GroupsMove
    <3>1. Calm
      BY <1>1, <1>9, <2>2, Committing DEF _current, OpExecuted, Confirms
    <3>2. QED
      BY <1>0, <3>1
  <2>3. ASSUME groups' = [groups EXCEPT ![op.g].transition = "reseeding"]
        PROVE  GroupsMove
    <3>1. Calm
      BY <1>1, <2>3 DEF _GroupState, Transitions
    <3>2. QED
      BY <1>0, <3>1
  <2>4. QED
    BY <1>2, <1>4, <1>5, <1>9, <2>1, <2>2, <2>3 DEF OpExecuted, coordinator
<1>10. CASE OpSampled
  BY <1>2, <1>4, <1>5, <1>10 DEF OpSampled, coordinator
<1>11. CASE OpRestored
  <2>1. ASSUME wk.pc = "done", op.pc = "restoring", _current(op),
               OpCommits(_promote(groups, op.g, "on", TRUE))
        PROVE  GroupsMove
    <3>1. op' = NoOperation /\ wk' = NoPhase
      BY <1>1, <2>1, Committing, Ending
    <3>2. /\ groups' \in [Groups -> _GroupState] /\ stop = "no"
          /\ \A g \in Groups :
               /\ groups'[g].gen = groups[g].gen
               /\ groups'[g].gate => groups[g].gate \/ g = op.g
               /\ groups'[g].confirmed # groups[g].confirmed => g = op.g
      BY <1>1, <2>1, Committing DEF _current
    <3>3. QED
      BY <1>1, <2>1, <3>1, <3>2 DEF Opens, Confirms, GroupsMove
  <2>2. QED
    BY <1>4, <1>5, <1>11, <2>1 DEF OpRestored
<1>12. CASE OpCancelled
  BY <1>4, <1>5, <1>12 DEF OpCancelled
<1>13. ASSUME NEW g \in Groups, InitializeGroup(g) PROVE GroupsMove
  <2> DEFINE closed == GateShut(groups, g)
             shut == [closed EXCEPT ![g].pending = TRUE]
  <2>1. CASE groups' = Begun(shut, g)
    <3>1. /\ closed \in [Groups -> _GroupState]
          /\ \A h \in Groups : /\ closed[h].confirmed = groups[h].confirmed
                               /\ closed[h].gen = groups[h].gen
                               /\ closed[h].gate => groups[h].gate
      BY <1>1, <1>13, Shutting
    <3> HIDE DEF closed
    <3>2. /\ shut \in [Groups -> _GroupState]
          /\ \A h \in Groups : /\ shut[h].confirmed = closed[h].confirmed
                               /\ shut[h].gen = closed[h].gen
                               /\ shut[h].gate = closed[h].gate
      BY <1>13, <3>1, Pending
    <3> HIDE DEF shut
    <3>3. QED
      BY <1>1, <1>13, <2>1, <3>1, <3>2, BegunMoves
  <2>2. QED
    BY <1>3, <1>13, <2>1 DEF InitializeGroup
<1>14. CASE InitializeCancelled
  <2>1. CASE stop = "no"
    <3> DEFINE gs == GateShut(groups, op.g)
    <3>1. /\ gs \in [Groups -> _GroupState]
          /\ \A g \in Groups : /\ gs[g].gen = groups[g].gen
                               /\ gs[g].confirmed = groups[g].confirmed
                               /\ gs[g].gate => groups[g].gate
      BY <1>1, Shutting
    <3>2. groups' = Settled(gs, op.g)
      BY <1>14, <2>1 DEF InitializeCancelled
    <3> HIDE DEF gs
    <3>3. QED
      <4>1. /\ groups' \in [Groups -> _GroupState]
            /\ \A g \in Groups : /\ groups'[g].confirmed = gs[g].confirmed
                                 /\ groups'[g].gate = gs[g].gate
                                 /\ groups'[g].gen = gs[g].gen
        BY <1>1, <3>1, <3>2, Settling
      <4>2. Calm
        BY <2>1, <3>1, <4>1
      <4>3. QED
        BY <1>0, <4>2
  <2>2. CASE stop # "no"
    <3>1. Calm
      BY <1>1, <1>14, <2>2, Observing DEF InitializeCancelled
    <3>2. QED
      BY <1>0, <3>1
  <2>3. QED
    BY <2>1, <2>2
<1>15. CASE WorkerCalls("prepare") \/ WorkerCalls("restore")
  BY <1>2, <1>15 DEF WorkerCalls, coordinator
<1>16. CASE _execute_reserved \/ _set \/ _read \/ SampleWorker
  BY <1>2, <1>3, <1>16 DEF _execute_reserved, _set, _read, SampleWorker, coordinator
<1>17. CASE _wait_for_commands
  BY <1>2, <1>3, <1>17 DEF _wait_for_commands, coordinator
<1>18. ASSUME groups' = GateShut(groups, wk.g) PROVE GroupsMove
  <2>1. Calm
    BY <1>1, <1>18, Shutting
  <2>2. QED
    BY <1>0, <2>1
<1>19. ASSUME _current(wk), groups' = _promote(groups, wk.g, wk.ev, FALSE),
              wk.pc \in {"judgeSet", "judgeRead"}
       PROVE  GroupsMove
  <2>1. Calm
    BY <1>1, <1>19 DEF _current, _promote, _GroupState, Confirms
  <2>2. QED
    BY <1>0, <2>1
<1>20. CASE _transition_reserved
  <2>1. ASSUME groups' = [groups EXCEPT ![wk.g].transition = "reseeding"]
        PROVE  GroupsMove
    <3>1. Calm
      BY <1>1, <2>1 DEF _GroupState, Transitions
    <3>2. QED
      BY <1>0, <3>1
  <2>2. QED
    BY <1>3, <1>18, <1>19, <1>20, <2>1 DEF _transition_reserved
<1>21. CASE _refresh_reserved
  BY <1>2, <1>3, <1>18, <1>19, <1>21 DEF _refresh_reserved, coordinator
<1>22. CASE _wait_for_all_producers \/ ShutDownExecutor \/ aclose \/ RequestTerminal
  BY <1>2, <1>22 DEF _wait_for_all_producers, ShutDownExecutor, aclose,
                     RequestTerminal, coordinator
<1>23. CASE terminal
  BY <1>3, <1>23 DEF terminal
<1>24. ASSUME NEW p \in Producers, CommandReturns(p) PROVE GroupsMove
  BY <1>3, <1>24 DEF CommandReturns
<1>25. ASSUME NEW p \in Producers, NEW required \in SUBSET Groups,
              command(p, required)
       PROVE  GroupsMove
  BY <1>2, <1>25 DEF command, coordinator
<1>26. ASSUME NEW g \in Groups, NEW req \in Requests, _reserve(g, req)
       PROVE  GroupsMove
  <2> DEFINE asked == Requested(g, req)
  <2>1. /\ asked \in [Groups -> _GroupState]
        /\ \A h \in Groups : /\ asked[h].gen = groups[h].gen
                             /\ asked[h].confirmed = groups[h].confirmed
                             /\ asked[h].gate => groups[h].gate
    BY <1>1, <1>26, Shutting DEF Requested
  <2>2. CASE groups' = Observed(asked)
    <3> HIDE DEF asked
    <3>1. QED
      <4>1. Calm
        BY <2>1, <2>2, Observing
      <4>2. QED
        BY <1>0, <4>1
  <2> DEFINE shut == IF req = "refresh" THEN asked
                     ELSE GateShut(asked, g)
  <2>3. CASE groups' = Begun(shut, g)
    <3> HIDE DEF asked
    <3>1. /\ shut \in [Groups -> _GroupState]
          /\ \A h \in Groups : /\ shut[h].confirmed = groups[h].confirmed
                               /\ shut[h].gen = groups[h].gen
                               /\ shut[h].gate => groups[h].gate
      <4>1. CASE req = "refresh"
        BY <2>1, <4>1
      <4>2. CASE req # "refresh"
        <5>1. shut = GateShut(asked, g)
          BY <4>2
        <5> HIDE DEF shut
        <5>2. QED
          BY <1>26, <2>1, <5>1, Shutting
      <4>3. QED
        BY <4>1, <4>2
    <3> HIDE DEF shut
    <3>2. QED
      BY <1>1, <1>26, <2>3, <3>1, BegunMoves
  <2>4. QED
    BY <1>26, <2>2, <2>3 DEF _reserve
<1>27. QED
  BY <1>6, <1>7, <1>8, <1>9, <1>10, <1>11, <1>12, <1>13, <1>14, <1>15, <1>16,
     <1>17, <1>20, <1>21, <1>22, <1>23, <1>24, <1>25, <1>26
  DEF Next, Operation, Worker, Aclose, Initialize, reserve_refresh,
      reserve_transition, Requests

-----------------------------------------------------------------------------
(* What a step may do to the worker and to the task.                       *)

\* What the fields of the operation and of the phase may be.
LEMMA Fields ==
  ASSUME TypeOK
  PROVE  /\ op.pc \in OpPcs /\ op.g \in Groups /\ op.req \in Requests
         /\ op.gen \in Nat
         /\ wk.pc \in WorkerPcs /\ wk.g \in Groups /\ wk.req \in Requests
         /\ wk.gen \in Nat /\ wk.step \in {"set", "read"}
         /\ wk.ev \in Confirmed /\ wk.res \in Results
         /\ groups \in [Groups -> _GroupState]
         /\ \A g \in Groups : groups[g].gen \in Nat
BY DEF TypeOK, _ReservedOperation, Phases, _GroupState

\* The phase goes on under the operation it was submitted for; what it leaves
\* when nobody awaits it is a free worker.
WorkerGoesOn ==
  /\ wk'.g = wk.g /\ wk'.gen = wk.gen /\ wk'.req = wk.req
  /\ wk'.pc \notin {"idle", "prepare", "restore"}
  /\ wk.pc \in {"prepare", "restore"} => wk'.pc = "done"
  /\ wk.pc = "sample" /\ wk.req = "init" => wk'.pc = "done"

WorkerMove ==
  /\ wk' \in Phases /\ UNCHANGED op
  /\ wk.pc \notin {"idle", "done"}
  /\ (wk' = NoPhase /\ ~Awaited) \/ WorkerGoesOn

LEMMA FinishMoves ==
  ASSUME TypeOK, NEW result \in Results, Finish(result), UNCHANGED op,
         wk.pc \notin {"idle", "done"}
  PROVE  WorkerMove
BY Finishing, Fields DEF WorkerMove, WorkerGoesOn, Phases

\* A worker step.
LEMMA WorkerStep ==
  ASSUME TypeOK, Worker
  PROVE  WorkerMove
<1> USE Fields
<1>1. ASSUME NEW result \in Results, Finish(result), UNCHANGED op,
             wk.pc \notin {"idle", "done"}
      PROVE  WorkerMove
  BY <1>1, FinishMoves
<1>2. /\ Confirmed \subseteq Results /\ wk \in Phases
      /\ {"ok", "fail", "some", "none", "enable", "refresh"} \subseteq Results
  BY DEF Confirmed, Results, TypeOK
<1>3. CASE WorkerCalls("prepare") \/ WorkerCalls("restore")
  BY <1>1, <1>2, <1>3 DEF WorkerCalls, WorkerFrame
<1>4. CASE _execute_reserved
  BY <1>1, <1>2, <1>4 DEF _execute_reserved, WorkerFrame, WorkerMove,
       WorkerGoesOn, Phases, WorkerPcs
<1>5. CASE _wait_for_commands
  BY <1>1, <1>2, <1>5 DEF _wait_for_commands, WorkerFrame, WorkerMove,
       WorkerGoesOn, Phases, WorkerPcs
<1>6. CASE _set
  BY <1>2, <1>6 DEF _set, Evidence, WorkerFrame, WorkerMove, WorkerGoesOn,
       Phases, WorkerPcs, Confirmed
<1>7. ASSUME ReadInstead, wk.pc \in {"judgeSet", "sample"}, UNCHANGED op,
             wk.pc = "sample" => wk.req = "on"
      PROVE  WorkerMove
  BY <1>1, <1>2, <1>7 DEF ReadInstead, WorkerMove, WorkerGoesOn, Phases,
       WorkerPcs
<1>8. CASE _transition_reserved
  BY <1>1, <1>2, <1>7, <1>8 DEF _transition_reserved, WorkerFrame, WorkerMove,
       WorkerGoesOn, Phases, WorkerPcs
<1>9. CASE SampleWorker
  BY <1>1, <1>2, <1>7, <1>9 DEF SampleWorker, WorkerFrame
<1>10. CASE _read
  BY <1>1, <1>2, <1>10 DEF _read, Evidence, WorkerFrame, WorkerMove,
       WorkerGoesOn, Phases, WorkerPcs, Confirmed
<1>11. CASE _refresh_reserved
  BY <1>1, <1>2, <1>11 DEF _refresh_reserved, WorkerFrame
<1>12. QED
  BY <1>3, <1>4, <1>5, <1>6, <1>8, <1>9, <1>10, <1>11 DEF Worker

\* Where a phase comes from, and what it has learnt.
Learns ==
  /\ wk'.pc = "set" =>
       wk.pc = "wait" /\ wk.step = "set" /\ inflight[wk.g] = {} /\ wk'.g = wk.g
  /\ wk'.pc = "judgeSet" => wk.pc = "set" /\ wk'.req = wk.req
  /\ wk'.pc \in {"wait", "asleep"} /\ wk'.step = "set" =>
       wk'.req \in Writes \/ (wk.pc = "wait" /\ wk.step = "set" /\ wk'.req = wk.req)
  /\ wk'.pc = "sample" => wk.pc = "judgeSet" /\ wk.ev = "on" /\ wk'.g = wk.g
  /\ wk'.pc \in {"judgeSet", "judgeRead"} /\ wk'.ev = "on" =>
       torque'[wk'.g] = "on"
  /\ wk'.pc = "done" /\ wk'.res \in {"on", "enable", "refresh"} =>
       /\ wk'.g = wk.g
       /\ \/ wk.pc = "sample"
          \/ wk.pc = "judgeRead" /\ wk.ev = "on"
          \/ wk.pc = "read" /\ torque[wk.g] = "on"

LEMMA LearningStep ==
  ASSUME TypeOK, Worker
  PROVE  Learns
<1> USE Fields
<1>1. ASSUME NEW result \in Results, Finish(result),
             result \in {"on", "enable", "refresh"} =>
               \/ wk.pc = "sample"
               \/ wk.pc = "judgeRead" /\ wk.ev = "on"
               \/ wk.pc = "read" /\ torque[wk.g] = "on"
      PROVE  Learns
  <2>1. CASE wk' = NoPhase
    BY <2>1 DEF NoPhase, Learns
  <2>2. CASE wk' = [wk EXCEPT !.pc = "done", !.res = result]
    BY <1>1, <2>2 DEF Learns, TypeOK, Phases
  <2>3. QED
    BY <1>1, <2>1, <2>2, Finishing
<1>2. /\ Confirmed \subseteq Results /\ wk \in Phases
      /\ {"ok", "fail", "some", "none", "enable", "refresh"} \subseteq Results
  BY DEF Confirmed, Results, TypeOK
<1>3. CASE WorkerCalls("prepare") \/ WorkerCalls("restore")
  BY <1>1, <1>2, <1>3 DEF WorkerCalls
<1>4. CASE _execute_reserved
  BY <1>1, <1>2, <1>4 DEF _execute_reserved, Learns, Phases, Writes, Requests
<1>5. CASE _wait_for_commands
  BY <1>1, <1>2, <1>5 DEF _wait_for_commands, Learns, Phases
<1>6. CASE _set
  <2>1. PICK value \in {torque[wk.g], wk.req, "mixed"} :
          /\ torque' = [torque EXCEPT ![wk.g] = value]
          /\ \E ev \in Evidence(value) :
               wk' = [wk EXCEPT !.pc = "judgeSet", !.ev = ev]
    BY <1>6 DEF _set
  <2>2. PICK ev \in Evidence(value) :
          wk' = [wk EXCEPT !.pc = "judgeSet", !.ev = ev]
    BY <2>1
  <2>3. ev = "on" => value = "on"
    BY <2>2 DEF Evidence
  <2>4. torque'[wk.g] = value
    BY <2>1 DEF TypeOK
  <2>5. wk'.pc = "judgeSet" /\ wk'.g = wk.g /\ wk'.req = wk.req /\ wk'.ev = ev
    BY <1>2, <2>2 DEF Phases
  <2>6. QED
    BY <1>6, <2>3, <2>4, <2>5 DEF _set, Learns
<1>7. ASSUME ReadInstead PROVE Learns
  BY <1>1, <1>2, <1>7 DEF ReadInstead, Learns, Phases
<1>8. CASE _transition_reserved
  BY <1>1, <1>2, <1>7, <1>8 DEF _transition_reserved, Learns, Phases
<1>9. CASE SampleWorker
  BY <1>1, <1>2, <1>7, <1>9 DEF SampleWorker
<1>10. CASE _read
  <2>1. PICK ev \in Evidence(torque[wk.g]) :
          IF wk.req = "init" THEN Finish(ev)
          ELSE wk' = [wk EXCEPT !.pc = "judgeRead", !.ev = ev]
    BY <1>10 DEF _read
  <2>2. ev \in Confirmed /\ (ev = "on" => torque[wk.g] = "on")
    BY <2>1 DEF Evidence, Confirmed
  <2>3. wk.pc = "read" /\ UNCHANGED torque
    BY <1>10 DEF _read
  <2>4. ev \notin {"enable", "refresh"}
    BY <2>2 DEF Confirmed
  <2>5. QED
    BY <1>1, <1>2, <2>1, <2>2, <2>3, <2>4 DEF Learns, Phases
<1>11. CASE _refresh_reserved
  BY <1>1, <1>2, <1>11 DEF _refresh_reserved
<1>12. QED
  BY <1>3, <1>4, <1>5, <1>6, <1>8, <1>9, <1>10, <1>11 DEF Worker

\* The step the task makes: it ends, or goes on to its next phase with the
\* worker it has been given.
TaskEnds ==
  op' = NoOperation /\ wk' = IF wk.pc = "done" THEN NoPhase ELSE wk

TaskGoesOn ==
  /\ op'.g = op.g /\ op'.req = op.req /\ op'.gen = op.gen
  /\ \/ op'.pc = "prepared" /\ wk' = NoPhase /\ op.pc = "preparing"
     \/ /\ <<op.pc, op'.pc, wk'.pc>> \in
             {<<"start", "preparing", "prepare">>,
              <<"prepared", "executing", "execute">>,
              <<"executing", "sampling", "sample">>,
              <<"executing", "restoring", "restore">>,
              <<"sampling", "restoring", "restore">>}
        /\ wk'.g = op.g /\ wk'.gen = op.gen /\ wk'.req = op.req
        /\ wk'.step = "read" /\ wk'.ev = "none"
        /\ op.pc = "start" => wk.pc = "idle"
        /\ op.pc \in {"executing", "sampling"} => wk.pc = "done"
        /\ op'.pc = "sampling" => op.req = "init" /\ wk.res = "on"
        /\ op.pc = "executing" /\ op'.pc = "restoring" =>
             wk.res \in {"enable", "refresh"}

TaskMove ==
  /\ op' \in _ReservedOperation /\ wk' \in Phases
  /\ op.pc # "none"
  /\ TaskEnds \/ TaskGoesOn

LEMMA TaskStep ==
  ASSUME TypeOK, Operation \/ OpCancelled \/ InitializeCancelled
  PROVE  TaskMove
<1> USE Fields
<1>1. op \in _ReservedOperation /\ wk \in Phases
  BY DEF TypeOK
<1>2. ASSUME NEW confirmed \in BOOLEAN, OpEnds(confirmed), op.pc # "none"
      PROVE  TaskMove
  BY <1>2, Ending DEF TaskMove, TaskEnds
<1>3. ASSUME OpOvertaken, op.pc # "none" PROVE TaskMove
  BY <1>2, <1>3 DEF OpOvertaken
<1>4. ASSUME NEW promoted \in BOOLEAN, OpFails(promoted), op.pc # "none"
      PROVE  TaskMove
  BY <1>2, <1>4 DEF OpFails
<1>5. ASSUME NEW gs, OpCommits(gs), op.pc # "none" PROVE TaskMove
  BY <1>2, <1>5 DEF OpCommits
<1>6. ASSUME NEW phase \in WorkerPcs, Submit(phase)
      PROVE  /\ wk' \in Phases /\ wk'.pc = phase
             /\ wk'.g = op.g /\ wk'.gen = op.gen /\ wk'.req = op.req
             /\ wk'.step = "read" /\ wk'.ev = "none"
  BY <1>6, Submitting
<1>7. ASSUME NEW pc \in OpPcs, op' = [op EXCEPT !.pc = pc]
      PROVE  /\ op' \in _ReservedOperation /\ op'.pc = pc
             /\ op'.g = op.g /\ op'.req = op.req /\ op'.gen = op.gen
  BY <1>1, <1>7 DEF _ReservedOperation
<1>8. /\ {"prepare", "execute", "sample", "restore"} \subseteq WorkerPcs
      /\ {"preparing", "prepared", "executing", "sampling", "restoring"}
           \subseteq OpPcs
  BY DEF WorkerPcs, OpPcs
<1>9. CASE OpStart
  BY <1>3, <1>6, <1>7, <1>8, <1>9 DEF OpStart, TaskMove, TaskGoesOn
<1>10. CASE OpPrepared
  BY <1>3, <1>4, <1>7, <1>8, <1>10, Rests DEF OpPrepared, TaskMove, TaskGoesOn
<1>11. CASE OpCaptures
  BY <1>6, <1>7, <1>8, <1>11 DEF OpCaptures, TaskMove, TaskGoesOn
<1>12. CASE OpExecuted
  BY <1>2, <1>3, <1>4, <1>5, <1>6, <1>7, <1>8, <1>12
  DEF OpExecuted, TaskMove, TaskGoesOn
<1>13. CASE OpSampled
  BY <1>3, <1>4, <1>6, <1>7, <1>8, <1>13 DEF OpSampled, TaskMove, TaskGoesOn
<1>14. CASE OpRestored
  BY <1>3, <1>4, <1>5, <1>14 DEF OpRestored
<1>15. CASE OpCancelled
  BY <1>3, <1>4, <1>15 DEF OpCancelled
<1>16. CASE InitializeCancelled
  BY <1>1, <1>16, Rests DEF InitializeCancelled, TaskMove, TaskEnds
<1>17. QED
  BY <1>9, <1>10, <1>11, <1>12, <1>13, <1>14, <1>15, <1>16 DEF Operation

\* The remaining steps leave both alone, wake the worker, or begin an
\* operation when there is none.
Wakes ==
  /\ wk.pc = "asleep" /\ wk'.pc = "wait"
  /\ wk'.g = wk.g /\ wk'.gen = wk.gen /\ wk'.req = wk.req /\ wk'.step = wk.step

Begins ==
  /\ op.pc = "none" /\ op'.pc = "start" /\ stop = "no"
  /\ op'.gen = groups[op'.g].gen + 1 /\ groups'[op'.g].gen = op'.gen
  /\ op'.req \in Writes => ~groups'[op'.g].gate
  /\ op'.req = "init" => boot # "up"

OtherMove ==
  /\ op' \in _ReservedOperation /\ wk' \in Phases
  /\ wk' = wk \/ Wakes
  /\ op' = op \/ Begins

Other ==
  \/ Aclose \/ Initialize \/ RequestTerminal \/ terminal \/ aclose
  \/ \E p \in Producers :
       \/ CommandReturns(p)
       \/ \E required \in SUBSET Groups : command(p, required)
  \/ \E g \in Groups, req \in Requests \ {"init"} : _reserve(g, req)

LEMMA OtherStep ==
  ASSUME TypeOK, Other
  PROVE  OtherMove
<1> USE Fields
<1>1. op \in _ReservedOperation /\ wk \in Phases
  BY DEF TypeOK
<1>2. ASSUME UNCHANGED <<op, wk>> PROVE OtherMove
  BY <1>1, <1>2 DEF OtherMove
<1>3. ASSUME wk' = IF wk.pc = "asleep" THEN [wk EXCEPT !.pc = "wait"] ELSE wk,
             UNCHANGED op
      PROVE  OtherMove
  BY <1>1, <1>3 DEF OtherMove, Wakes, Phases, WorkerPcs
<1>4. ASSUME NEW g \in Groups, NEW shut \in [Groups -> _GroupState],
             NEW req \in Requests,
             groups' = Begun(shut, g), shut[g].gen = groups[g].gen,
             req \in Writes => ~shut[g].gate, UNCHANGED wk,
             op' = [pc |-> "start", g |-> g, req |-> req,
                    gen |-> groups[g].gen + 1],
             op.pc = "none", stop = "no", req = "init" => boot # "up"
      PROVE  OtherMove
  <2>1. groups'[g].gen = groups[g].gen + 1 /\ groups'[g].gate = shut[g].gate
    BY <1>4, Beginning
  <2>2. op' \in _ReservedOperation
    BY <1>4 DEF _ReservedOperation, OpPcs
  <2>3. QED
    BY <1>1, <1>4, <2>1, <2>2 DEF OtherMove, Begins
<1>5. CASE Aclose \/ RequestTerminal \/ aclose
  BY <1>2, <1>5 DEF Aclose, _wait_for_all_producers, ShutDownExecutor,
                    RequestTerminal, aclose
<1>6. CASE terminal
  BY <1>3, <1>6 DEF terminal
<1>7. ASSUME NEW p \in Producers, CommandReturns(p) PROVE OtherMove
  BY <1>3, <1>7 DEF CommandReturns
<1>8. ASSUME NEW p \in Producers, NEW required \in SUBSET Groups,
             command(p, required)
      PROVE  OtherMove
  BY <1>2, <1>8 DEF command
<1>9. ASSUME NEW g \in Groups, InitializeGroup(g) PROVE OtherMove
  <2> DEFINE closed == GateShut(groups, g)
             shut == [closed EXCEPT ![g].pending = TRUE]
  <2>1. CASE stop # "no"
    BY <1>2, <1>9, <2>1 DEF InitializeGroup
  <2>2. CASE stop = "no"
    <3>1. closed \in [Groups -> _GroupState] /\ closed[g].gen = groups[g].gen
      BY <1>9, Shutting
    <3> HIDE DEF closed
    <3>2. shut \in [Groups -> _GroupState] /\ shut[g].gen = groups[g].gen
      BY <1>9, <3>1, Pending
    <3>3. /\ groups' = Begun(shut, g) /\ UNCHANGED wk
          /\ op' = [pc |-> "start", g |-> g, req |-> "init",
                    gen |-> groups[g].gen + 1]
          /\ op.pc = "none" /\ boot # "up"
      BY <1>9, <2>2 DEF InitializeGroup, closed
    <3>4. "init" \in Requests /\ "init" \notin Writes
      BY DEF Requests, Writes
    <3> HIDE DEF shut
    <3>5. QED
      BY <1>4, <1>9, <2>2, <3>2, <3>3, <3>4
  <2>3. QED
    BY <2>1, <2>2
<1>10. ASSUME NEW g \in Groups, NEW req \in Requests \ {"init"},
              _reserve(g, req)
       PROVE  OtherMove
  <2> DEFINE asked == Requested(g, req)
             shut == IF req = "refresh" THEN asked ELSE GateShut(asked, g)
  <2>1. asked \in [Groups -> _GroupState] /\ asked[g].gen = groups[g].gen
    BY <1>10, Shutting DEF Requested
  <2>2. CASE UNCHANGED op
    BY <1>2, <1>10, <2>2 DEF _reserve
  <2>3. CASE op' # op
    <3>1. /\ groups' = Begun(shut, g) /\ UNCHANGED wk
          /\ op' = [pc |-> "start", g |-> g, req |-> req,
                    gen |-> groups[g].gen + 1]
          /\ op.pc = "none" /\ stop = "no"
      BY <1>10, <2>3 DEF _reserve
    <3> HIDE DEF asked
    <3>2. shut \in [Groups -> _GroupState] /\ shut[g].gen = groups[g].gen
      <4>1. /\ GateShut(asked, g) \in [Groups -> _GroupState]
            /\ GateShut(asked, g)[g].gen = asked[g].gen
        BY <1>10, <2>1, Shutting
      <4>2. QED
        BY <2>1, <4>1
    <3>3. req \in Writes => ~shut[g].gate
      BY <1>10, <2>1, Shutting DEF Writes
    <3> HIDE DEF shut
    <3>4. QED
      BY <1>4, <1>10, <3>1, <3>2, <3>3
  <2>4. QED
    BY <2>2, <2>3
<1>11. QED
  BY <1>5, <1>6, <1>7, <1>8, <1>9, <1>10 DEF Other, Initialize

\* Every step is one of the three.
LEMMA Steps ==
  ASSUME Next
  PROVE  Worker \/ Operation \/ OpCancelled \/ InitializeCancelled \/ Other
BY DEF Next, Other, reserve_refresh, reserve_transition, Requests

\* The torque changes where it is written, the commands in flight where one is
\* admitted or returns, and the captured policy at two places.
LEMMA FrameStep ==
  ASSUME Next
  PROVE  /\ UNCHANGED torque \/ _set
         /\ \/ UNCHANGED inflight
            \/ \E p \in Producers : CommandReturns(p)
            \/ \E p \in Producers, required \in SUBSET Groups :
                 command(p, required)
         /\ UNCHANGED policy \/ OpCaptures \/ OpRestored
         /\ UNCHANGED stop \/ RequestTerminal \/ terminal \/ aclose
                           \/ InitializeCancelled
<1> USE DEF coordinator, ObserveTerminal, OpFrame, WorkerFrame
<1>1. CASE Worker
  BY <1>1 DEF Worker, WorkerCalls, _execute_reserved, _wait_for_commands, _set,
              _transition_reserved, SampleWorker, _read, _refresh_reserved
<1>2. CASE Operation \/ OpCancelled \/ InitializeCancelled
  BY <1>2 DEF Operation, OpCancelled, InitializeCancelled, OpStart, OpPrepared,
              OpCaptures, OpExecuted, OpSampled, OpRestored, OpOvertaken,
              OpFails, OpCommits
<1>3. CASE Other
  BY <1>3 DEF Other, Aclose, _wait_for_all_producers, ShutDownExecutor,
              Initialize, InitializeGroup, RequestTerminal, terminal, aclose,
              CommandReturns, command, _reserve
<1>4. QED
  BY <1>1, <1>2, <1>3, Steps

\* The event is observed by a section that closes every gate.
LEMMA TermStep ==
  ASSUME TypeOK, Next
  PROVE  /\ term' \in BOOLEAN
         /\ term' /\ ~term =>
              stop # "no" /\ \A g \in Groups : ~groups'[g].gate
<1> DEFINE Kept == /\ term' \in BOOLEAN
                   /\ term' /\ ~term =>
                        stop # "no" /\ \A g \in Groups : ~groups'[g].gate
<1>1. ASSUME UNCHANGED term PROVE Kept
  BY <1>1 DEF TypeOK
<1>2. ASSUME NEW gs \in [Groups -> _GroupState], groups' = Observed(gs),
             term' = (stop # "no")
      PROVE  Kept
  BY <1>2, Observing
<1>3. ASSUME ObserveTerminal PROVE Kept
  BY <1>3, ObservingGroups DEF ObserveTerminal
<1> USE DEF coordinator
<1>4. CASE Worker
  BY <1>1, <1>3, <1>4
  DEF Worker, WorkerCalls, _execute_reserved, _wait_for_commands, _set,
      _transition_reserved, SampleWorker, _read, _refresh_reserved
<1>5. CASE Operation \/ OpCancelled
  BY <1>1, <1>3, <1>5
  DEF Operation, OpCancelled, OpStart, OpPrepared, OpCaptures, OpExecuted,
      OpSampled, OpRestored, OpOvertaken, OpFails, OpCommits
<1>6. CASE InitializeCancelled
  <2>1. CASE stop = "no"
    BY <1>6, <2>1 DEF InitializeCancelled
  <2>2. CASE stop # "no"
    <3>1. groups' = Observed(groups) /\ term' = (stop # "no")
      BY <1>6, <2>2 DEF InitializeCancelled
    <3>2. QED
      BY <1>2, <3>1, Fields
  <2>3. QED
    BY <2>1, <2>2
<1>7. ASSUME NEW g \in Groups, NEW req \in Requests, _reserve(g, req)
      PROVE  Kept
  <2>1. Requested(g, req) \in [Groups -> _GroupState]
    BY <1>7, Fields, Shutting DEF Requested
  <2>2. QED
    BY <1>1, <1>2, <1>7, <2>1 DEF _reserve
<1>8. CASE Aclose \/ Initialize \/ RequestTerminal \/ terminal \/ aclose
  BY <1>1, <1>3, <1>8
  DEF Aclose, _wait_for_all_producers, ShutDownExecutor, Initialize,
      InitializeGroup, RequestTerminal, terminal, aclose
<1>9. ASSUME NEW p \in Producers,
             \/ CommandReturns(p)
             \/ \E required \in SUBSET Groups : command(p, required)
      PROVE  Kept
  BY <1>1, <1>3, <1>9 DEF CommandReturns, command
<1>10. QED
  BY <1>4, <1>5, <1>6, <1>7, <1>8, <1>9, Steps DEF Other

-----------------------------------------------------------------------------
(* Every step preserves each part of the invariant.                        *)

LEMMA TypeStep ==
  ASSUME TypeOK, WritesBehindGates, Next
  PROVE  TypeOK'
<1>1. /\ groups' \in [Groups -> _GroupState] /\ term' \in BOOLEAN
      /\ op' \in _ReservedOperation /\ wk' \in Phases
  <2>1. groups' \in [Groups -> _GroupState] /\ term' \in BOOLEAN
    BY GroupsStep, TermStep DEF GroupsMove
  <2>2. op' \in _ReservedOperation /\ wk' \in Phases
    BY Steps, WorkerStep, TaskStep, OtherStep
    DEF WorkerMove, TaskMove, OtherMove, TypeOK
  <2>3. QED
    BY <2>1, <2>2
<1>2. inflight' \in [Groups -> SUBSET Producers]
  BY FrameStep DEF CommandReturns, command, TypeOK
<1>3. torque' \in [Groups -> {"on", "off", "mixed"}]
  <2>1. CASE _set
    <3>1. PICK value \in {torque[wk.g], wk.req, "mixed"} :
            torque' = [torque EXCEPT ![wk.g] = value]
      BY <2>1 DEF _set
    <3>2. value \in {"on", "off", "mixed"}
      BY <2>1 DEF _set, WritesBehindGates, Writes, TypeOK, Phases
    <3>3. QED
      BY <3>1, <3>2 DEF TypeOK
  <2>2. QED
    BY <2>1, FrameStep DEF TypeOK
<1>4. policy' \in BOOLEAN /\ stop' \in {"no", "set", "done"}
  BY FrameStep, Failing
  DEF OpCaptures, OpRestored, OpOvertaken, ObserveTerminal, OpFails,
      RequestTerminal, terminal, aclose, InitializeCancelled, TypeOK
<1> DEFINE Switches == /\ boot' \in {"new", "starting", "up"}
                       /\ todo' \subseteq Groups /\ registered' \subseteq Groups
                       /\ announced' \in [Groups -> Confirmed]
           Shutdown == /\ closer' \in {"none", "op", "producers", "phases", "closed"}
                       /\ offWanted' \in [Groups -> BOOLEAN]
<1>5. Switches
  <2>1. ASSUME UNCHANGED <<boot, todo, registered, announced>> PROVE Switches
    BY <2>1 DEF TypeOK
  <2>2. ASSUME NEW confirmed \in BOOLEAN, OpEnds(confirmed),
               announced' \in [Groups -> Confirmed]
        PROVE  Switches
    BY <2>2, Ending
  <2>3. announced \in [Groups -> Confirmed]
    BY DEF TypeOK
  <2>4. ASSUME OpOvertaken PROVE Switches
    BY <2>2, <2>3, <2>4 DEF OpOvertaken
  <2>5. ASSUME NEW promoted \in BOOLEAN, OpFails(promoted) PROVE Switches
    BY <2>2, <2>3, <2>5 DEF OpFails
  <2>6. ASSUME NEW value \in Confirmed, NEW open \in BOOLEAN,
               OpCommits(_promote(groups, op.g, value, open))
        PROVE  Switches
    BY <2>2, <2>6, Committing
  <2>7. \A g \in Groups : groups[g].confirmed \in Confirmed
    BY DEF TypeOK, _GroupState
  <2>8. "on" \in Confirmed /\ "off" \in Confirmed
    BY DEF Confirmed
  <2>9. CASE Worker
    BY <2>1, <2>9
    DEF Worker, WorkerFrame, WorkerCalls, _execute_reserved, _set, _read,
        _wait_for_commands, _transition_reserved, SampleWorker, _refresh_reserved
  <2>10. CASE OpExecuted
    <3>1. ASSUME OpEnds(FALSE),
                 announced' = IF wk.res = "none" THEN announced
                              ELSE [announced EXCEPT
                                      ![op.g] = groups[op.g].confirmed]
          PROVE  Switches
      <4>1. announced' \in [Groups -> Confirmed]
        BY <2>3, <2>7, <3>1, Fields
      <4>2. QED
        BY <2>2, <3>1, <4>1
    <3>2. QED
      BY <2>1, <2>4, <2>5, <2>6, <2>8, <2>10, <3>1 DEF OpExecuted
  <2>11. CASE Operation \/ OpCancelled
    BY <2>1, <2>4, <2>5, <2>6, <2>8, <2>10, <2>11
    DEF Operation, OpCancelled, OpStart, OpPrepared, OpCaptures, OpSampled,
        OpRestored
  <2>12. CASE InitializeCancelled
    BY <2>3, <2>12 DEF InitializeCancelled
  <2>13. ASSUME NEW g \in Groups, NEW req \in Requests, _reserve(g, req)
         PROVE  Switches
    BY <2>3, <2>7, <2>13 DEF _reserve, TypeOK
  <2>14. CASE Aclose \/ Initialize \/ RequestTerminal \/ terminal \/ aclose
    BY <2>1, <2>3, <2>14
    DEF Aclose, _wait_for_all_producers, ShutDownExecutor, Initialize,
        InitializeGroup, RequestTerminal, terminal, aclose, TypeOK
  <2>15. ASSUME NEW p \in Producers,
                \/ CommandReturns(p)
                \/ \E required \in SUBSET Groups : command(p, required)
         PROVE  Switches
    BY <2>1, <2>15 DEF CommandReturns, command
  <2>16. QED
    BY <2>9, <2>11, <2>12, <2>13, <2>14, <2>15, Steps DEF Other
<1>6. Shutdown
  <2>1. ASSUME UNCHANGED <<closer, offWanted>> PROVE Shutdown
    BY <2>1 DEF TypeOK
  <2>2. CASE Worker
    BY <2>1, <2>2
    DEF Worker, WorkerFrame, WorkerCalls, _execute_reserved, _set, _read,
        _wait_for_commands, _transition_reserved, SampleWorker, _refresh_reserved
  <2>3. CASE Operation \/ OpCancelled
    BY <2>1, <2>3
    DEF Operation, OpCancelled, OpFrame, OpStart, OpPrepared, OpCaptures,
        OpExecuted, OpSampled, OpRestored
  <2>4. ASSUME NEW g \in Groups, NEW req \in Requests, _reserve(g, req)
        PROVE  Shutdown
    BY <2>4 DEF _reserve, TypeOK
  <2>5. CASE Initialize \/ InitializeCancelled
    BY <2>1, <2>5 DEF Initialize, InitializeGroup, InitializeCancelled, OpFrame,
                      TypeOK
  <2>6. CASE Aclose \/ RequestTerminal \/ terminal \/ aclose
    BY <2>6 DEF Aclose, _wait_for_all_producers, ShutDownExecutor,
                RequestTerminal, terminal, aclose, TypeOK
  <2>7. ASSUME NEW p \in Producers,
               \/ CommandReturns(p)
               \/ \E required \in SUBSET Groups : command(p, required)
        PROVE  Shutdown
    BY <2>7 DEF CommandReturns, command, TypeOK
  <2>8. QED
    BY <2>2, <2>3, <2>4, <2>5, <2>6, <2>7, Steps DEF Other
<1>7. QED
  BY <1>1, <1>2, <1>3, <1>4, <1>5, <1>6 DEF TypeOK

\* The worker and the task keep in step.
LEMMA InStepStep ==
  ASSUME TypeOK, InStep, Next
  PROVE  InStep'
<1> USE Fields
<1>1. \A g \in Groups : groups'[g].gen \in Nat /\ groups[g].gen <= groups'[g].gen
  BY GroupsStep DEF GroupsMove, _GroupState
<1>2. NoOperation.pc = "none" /\ NoPhase.pc = "idle"
  BY DEF NoOperation, NoPhase
<1>3. CASE Worker
  <2>1. WorkerMove
    BY <1>3, WorkerStep
  <2>2. CASE wk' = NoPhase /\ ~Awaited
    BY <1>1, <1>2, <2>1, <2>2 DEF WorkerMove, InStep, OnIt, Awaited
  <2>3. CASE WorkerGoesOn
    BY <1>1, <2>1, <2>3 DEF WorkerMove, WorkerGoesOn, InStep, OnIt
  <2>4. QED
    BY <2>1, <2>2, <2>3 DEF WorkerMove
<1>4. CASE Operation \/ OpCancelled \/ InitializeCancelled
  <2>1. TaskMove
    BY <1>4, TaskStep
  <2>2. CASE TaskEnds
    BY <1>1, <1>2, <2>2 DEF TaskEnds, InStep
  <2>3. CASE TaskGoesOn
    BY <1>1, <1>2, <2>1, <2>3 DEF TaskMove, TaskGoesOn, InStep, OnIt
  <2>4. QED
    BY <2>1, <2>2, <2>3 DEF TaskMove
<1>5. CASE Other
  <2>1. OtherMove
    BY <1>5, OtherStep
  <2>2. CASE op' = op
    BY <1>1, <2>1, <2>2 DEF OtherMove, Wakes, InStep, OnIt
  <2>3. CASE Begins
    <3>1. op'.g \in Groups /\ op'.gen \in Nat
      BY <2>1 DEF OtherMove, _ReservedOperation
    <3>2. QED
      BY <1>1, <2>1, <2>3, <3>1 DEF OtherMove, Wakes, Begins, InStep
  <2>4. QED
    BY <2>1, <2>2, <2>3 DEF OtherMove
<1>6. QED
  BY <1>3, <1>4, <1>5, Steps

\* The gate of a group stays closed behind a requested write.
LEMMA GatesStep ==
  ASSUME TypeOK, InStep, WritesBehindGates, Next
  PROVE  WritesBehindGates'
<1> USE Fields
<1>1. GroupsMove
  BY GroupsStep
<1>2. NoOperation.pc = "none" /\ NoPhase.pc = "idle"
  BY DEF NoOperation, NoPhase
<1>3. CASE Worker
  <2>1. WorkerMove
    BY <1>3, WorkerStep
  <2>2. \A g \in Groups : groups'[g].gate => groups[g].gate
    BY <1>1, <1>2, <2>1 DEF GroupsMove, Opens, WorkerMove
  <2>3. /\ op'.pc # "none" /\ op'.req \in Writes => ~groups'[op'.g].gate
        /\ wk'.pc # "idle" /\ wk'.req \in Writes => ~groups'[wk'.g].gate
    BY <1>2, <2>1, <2>2 DEF WorkerMove, WorkerGoesOn, WritesBehindGates
  <2>4. /\ wk'.pc \in {"set", "judgeSet"} => wk'.req \in Writes
        /\ wk'.pc \in {"wait", "asleep"} /\ wk'.step = "set" => wk'.req \in Writes
    BY <1>2, <1>3, <2>1, LearningStep
    DEF Learns, WorkerMove, WorkerGoesOn, WritesBehindGates
  <2>5. QED
    BY <2>3, <2>4 DEF WritesBehindGates
<1>4. CASE Operation \/ OpCancelled \/ InitializeCancelled
  <2>1. TaskMove
    BY <1>4, TaskStep
  <2>2. CASE TaskEnds
    BY <1>1, <1>2, <2>1, <2>2
    DEF TaskMove, TaskEnds, GroupsMove, Opens, WritesBehindGates
  <2>3. CASE TaskGoesOn
    <3>1. op' # NoOperation
      BY <1>2, <2>3 DEF TaskGoesOn
    <3>2. \A g \in Groups : groups'[g].gate => groups[g].gate
      BY <1>1, <3>1 DEF GroupsMove, Opens
    <3>3. QED
      BY <1>2, <2>1, <2>3, <3>2 DEF TaskMove, TaskGoesOn, WritesBehindGates
  <2>4. QED
    BY <2>1, <2>2, <2>3 DEF TaskMove
<1>5. CASE Other
  <2>1. OtherMove
    BY <1>5, OtherStep
  <2>2. \A g \in Groups : groups'[g].gate => groups[g].gate
    BY <1>1, <1>2, <2>1 DEF GroupsMove, Opens, OtherMove, Begins, Wakes
  <2>3. op'.pc # "none" /\ op'.req \in Writes => ~groups'[op'.g].gate
    BY <2>1, <2>2 DEF OtherMove, Begins, WritesBehindGates
  <2>4. QED
    BY <2>1, <2>2, <2>3 DEF OtherMove, Wakes, WritesBehindGates
<1>6. QED
  BY <1>3, <1>4, <1>5, Steps

\* No command is admitted to the group that is being written.
QuietBehindGates ==
  \A g \in Groups : inflight'[g] # {} => inflight[g] # {} \/ groups[g].gate

LEMMA InflightStep ==
  ASSUME TypeOK, Next
  PROVE  QuietBehindGates
<1>1. CASE UNCHANGED inflight
  BY <1>1 DEF QuietBehindGates
<1>2. ASSUME NEW p \in Producers, CommandReturns(p) PROVE QuietBehindGates
  BY <1>2 DEF CommandReturns, QuietBehindGates, TypeOK
<1>3. ASSUME NEW p \in Producers, NEW required \in SUBSET Groups,
             command(p, required)
      PROVE  QuietBehindGates
  BY <1>3 DEF command, QuietBehindGates, TypeOK
<1>4. QED
  BY <1>1, <1>2, <1>3, FrameStep

LEMMA QuiescedStep ==
  ASSUME TypeOK, WritesBehindGates, QuiescedBeforeWrite, Next
  PROVE  QuiescedBeforeWrite'
<1> USE Fields
<1>1. CASE Worker
  <2>1. UNCHANGED inflight
    BY <1>1
    DEF Worker, WorkerFrame, WorkerCalls, _execute_reserved, _set, _read,
        _wait_for_commands, _transition_reserved, SampleWorker, _refresh_reserved
  <2>2. QED
    BY <1>1, <2>1, LearningStep DEF Learns, QuiescedBeforeWrite
<1>2. CASE Operation \/ OpCancelled \/ InitializeCancelled
  <2>1. TaskMove /\ UNCHANGED inflight
    BY <1>2, TaskStep
    DEF Operation, OpCancelled, InitializeCancelled, OpFrame, OpStart,
        OpPrepared, OpCaptures, OpExecuted, OpSampled, OpRestored
  <2>2. QED
    BY <2>1 DEF TaskMove, TaskEnds, TaskGoesOn, NoPhase, QuiescedBeforeWrite
<1>3. CASE Other
  <2>1. OtherMove /\ QuietBehindGates
    BY <1>3, OtherStep, InflightStep
  <2>2. wk.pc = "set" => ~groups[wk.g].gate /\ inflight[wk.g] = {}
    BY DEF WritesBehindGates, QuiescedBeforeWrite
  <2>3. QED
    BY <2>1, <2>2 DEF OtherMove, Wakes, QuietBehindGates, QuiescedBeforeWrite
<1>4. QED
  BY <1>1, <1>2, <1>3, Steps

\* The torque that changes is that of a group behind a closed gate, which
\* nobody commands and whose task does not restore.
TorqueMove ==
  \A g \in Groups : torque'[g] # torque[g] => wk.pc = "set" /\ g = wk.g

LEMMA TorqueStep ==
  ASSUME TypeOK, Next
  PROVE  TorqueMove
BY FrameStep DEF _set, TorqueMove, TypeOK

LEMMA KnownStep ==
  ASSUME TypeOK, InStep, WritesBehindGates, TorqueIsKnown, Next
  PROVE  TorqueIsKnown'
<1> USE Fields
<1>1. GroupsMove /\ TorqueMove
  BY GroupsStep, TorqueStep
<1>2. \A g \in Groups : groups'[g].gate => torque'[g] = "on"
  <2> SUFFICES ASSUME NEW g \in Groups, groups'[g].gate PROVE torque'[g] = "on"
    OBVIOUS
  <2>1. CASE groups[g].gate
    BY <1>1, <2>1 DEF TorqueMove, TorqueIsKnown, WritesBehindGates
  <2>2. CASE ~groups[g].gate
    BY <1>1, <2>2 DEF GroupsMove, Opens, TorqueMove, TorqueIsKnown
  <2>3. QED
    BY <2>1, <2>2
<1> DEFINE TaskKnows == op'.pc \in {"sampling", "restoring"} => torque'[op'.g] = "on"
           WorkerKnows ==
             /\ wk'.pc = "sample" => torque'[wk'.g] = "on"
             /\ wk'.pc \in {"judgeSet", "judgeRead"} /\ wk'.ev = "on" =>
                  torque'[wk'.g] = "on"
             /\ wk'.pc = "done" /\ wk'.res \in {"on", "enable", "refresh"} =>
                  torque'[wk'.g] = "on"
<1>3. CASE Worker
  <2>1. WorkerMove /\ Learns
    BY <1>3, WorkerStep, LearningStep
  <2>2. TaskKnows
    BY <1>1, <2>1 DEF TorqueMove, WorkerMove, InStep, TorqueIsKnown
  <2>3. WorkerKnows
    BY <1>1, <2>1 DEF Learns, TorqueMove, TorqueIsKnown
  <2>4. QED
    BY <1>2, <2>2, <2>3 DEF TorqueIsKnown
<1>4. CASE Operation \/ OpCancelled \/ InitializeCancelled
  <2>1. TaskMove
    BY <1>4, TaskStep
  <2>2. CASE TaskEnds
    <3>1. TaskKnows
      BY <2>2 DEF TaskEnds, NoOperation
    <3>2. WorkerKnows
      BY <1>1, <2>2 DEF TaskEnds, NoPhase, TorqueMove, TorqueIsKnown
    <3>3. QED
      BY <1>2, <3>1, <3>2 DEF TorqueIsKnown
  <2>3. CASE TaskGoesOn
    <3>1. op'.pc \in {"sampling", "restoring"} => torque[op.g] = "on" /\ wk.pc # "set"
      BY <2>3 DEF TaskGoesOn, InStep, OnIt, TorqueIsKnown
    <3>2. TaskKnows
      BY <1>1, <2>3, <3>1 DEF TaskGoesOn, TorqueMove
    <3>3. WorkerKnows
      BY <1>1, <2>3, <3>1 DEF TaskGoesOn, NoPhase, TorqueMove
    <3>4. QED
      BY <1>2, <3>2, <3>3 DEF TorqueIsKnown
  <2>4. QED
    BY <2>1, <2>2, <2>3 DEF TaskMove
<1>5. CASE Other
  <2>1. OtherMove
    BY <1>5, OtherStep
  <2>2. TaskKnows
    BY <1>1, <2>1 DEF OtherMove, Begins, TorqueMove, InStep, TorqueIsKnown
  <2>3. WorkerKnows
    BY <1>1, <2>1 DEF OtherMove, Wakes, TorqueMove, TorqueIsKnown
  <2>4. QED
    BY <1>2, <2>2, <2>3 DEF TorqueIsKnown
<1>6. QED
  BY <1>3, <1>4, <1>5, Steps

LEMMA CommandsStep ==
  ASSUME TypeOK, QuiescedBeforeWrite, TorqueIsKnown, WritesBehindGates,
         CommandsOnlyTorquedGroups, Next
  PROVE  CommandsOnlyTorquedGroups'
<1> SUFFICES ASSUME NEW g \in Groups, inflight'[g] # {} PROVE torque'[g] = "on"
  BY DEF CommandsOnlyTorquedGroups
<1>1. TorqueMove /\ QuietBehindGates
  BY TorqueStep, InflightStep
<1>2. torque[g] = "on"
  BY <1>1 DEF QuietBehindGates, TorqueIsKnown, CommandsOnlyTorquedGroups
<1>3. ~(wk.pc = "set" /\ g = wk.g)
  BY <1>1 DEF QuietBehindGates, QuiescedBeforeWrite, WritesBehindGates
<1>4. QED
  BY <1>1, <1>2, <1>3 DEF TorqueMove

\* The policy is captured when the task goes on to confirm, and given up when
\* it has restored the body.
Releases ==
  /\ op.pc = "restoring" /\ op.g = Body /\ wk.pc = "done"
  /\ op' = NoOperation /\ wk' = NoPhase

PolicyMove ==
  /\ policy' \in BOOLEAN
  /\ policy => policy' \/ Releases
  /\ op.pc = "prepared" /\ op'.pc = "executing" /\ op.g = Body => policy'

LEMMA PolicyStep ==
  ASSUME TypeOK, Next
  PROVE  PolicyMove
<1>1. policy \in BOOLEAN
  BY DEF TypeOK
<1>2. CASE OpCaptures
  BY <1>1, <1>2 DEF OpCaptures, PolicyMove
<1>3. CASE OpRestored
  <2>1. op.pc = "restoring" /\ wk.pc = "done"
    BY <1>3 DEF OpRestored
  <2>2. CASE OpOvertaken \/ OpFails(op.req = "on")
    <3>1. UNCHANGED policy
      BY <2>2 DEF OpOvertaken, ObserveTerminal, OpFails
    <3>2. QED
      BY <1>1, <2>1, <3>1 DEF PolicyMove
  <2>3. CASE /\ OpCommits(_promote(groups, op.g, "on", TRUE))
             /\ policy' = (policy /\ op.g # Body)
    <3>1. op' = NoOperation /\ wk' = NoPhase
      BY <2>1, <2>3, Ending DEF OpCommits
    <3>2. QED
      BY <1>1, <2>1, <2>3, <3>1 DEF PolicyMove, Releases
  <2>4. QED
    BY <1>3, <2>2, <2>3 DEF OpRestored
<1>4. CASE UNCHANGED policy /\ ~OpCaptures
  <2>1. ~(op.pc = "prepared" /\ op'.pc = "executing")
    <3>1. CASE Worker \/ Other
      BY <3>1, WorkerStep, OtherStep DEF WorkerMove, OtherMove, Begins
    <3>2. CASE OpCancelled \/ InitializeCancelled
      BY <3>2 DEF OpCancelled, InitializeCancelled
    <3>3. CASE Operation
      BY <1>4, <3>3 DEF Operation, OpStart, OpPrepared, OpExecuted, OpSampled,
                        OpRestored
    <3>4. QED
      BY <3>1, <3>2, <3>3, Steps
  <2>2. QED
    BY <1>1, <1>4, <2>1 DEF PolicyMove
<1>5. QED
  BY <1>2, <1>3, <1>4, FrameStep

LEMMA PolicyKeptStep ==
  ASSUME TypeOK, InStep, TorqueIsKnown, PolicyIsKept, Next
  PROVE  PolicyIsKept'
<1> USE Fields
<1>1. GroupsMove /\ TorqueMove /\ PolicyMove
  BY GroupsStep, TorqueStep, PolicyStep
<1>2. NoOperation.pc = "none" /\ NoPhase.pc = "idle"
  BY DEF NoOperation, NoPhase
<1>3. Worker \/ TaskMove \/ OtherMove
  BY Steps, TaskStep, OtherStep
<1>4. op'.pc \in {"executing", "sampling", "restoring"} /\ op'.g = Body => policy'
  <2> SUFFICES ASSUME op'.pc \in {"executing", "sampling", "restoring"}, op'.g = Body
               PROVE  policy'
    OBVIOUS
  <2>1. policy => policy'
    BY <1>1, <1>2 DEF PolicyMove, Releases
  <2>2. CASE op' = op
    BY <2>1, <2>2 DEF PolicyIsKept
  <2>3. CASE TaskMove
    BY <1>1, <1>2, <2>1, <2>3
    DEF TaskMove, TaskEnds, TaskGoesOn, PolicyMove, PolicyIsKept
  <2>4. QED
    BY <1>3, <2>2, <2>3, WorkerStep DEF WorkerMove, OtherMove, Begins
<1>5. wk'.pc \notin {"idle", "prepare", "done"} /\ wk'.g = Body => policy'
  <2> SUFFICES ASSUME wk'.pc \notin {"idle", "prepare", "done"}, wk'.g = Body
               PROVE  policy'
    OBVIOUS
  <2>1. policy => policy'
    BY <1>1, <1>2 DEF PolicyMove, Releases
  <2>2. CASE Worker
    BY <1>2, <2>1, <2>2, WorkerStep DEF WorkerMove, WorkerGoesOn, PolicyIsKept
  <2>3. CASE TaskMove
    BY <1>1, <1>2, <2>1, <2>3
    DEF TaskMove, TaskEnds, TaskGoesOn, PolicyMove, PolicyIsKept
  <2>4. CASE OtherMove
    BY <2>1, <2>4 DEF OtherMove, Wakes, PolicyIsKept
  <2>5. QED
    BY <1>3, <2>2, <2>3, <2>4
<1>6. ~policy' /\ groups'[Body].confirmed = "on" => torque'[Body] = "on"
  <2> SUFFICES ASSUME ~policy', groups'[Body].confirmed = "on"
               PROVE  torque'[Body] = "on"
    OBVIOUS
  <2>1. CASE policy
    BY <1>1, <2>1 DEF PolicyMove, Releases, TorqueMove, TorqueIsKnown
  <2>2. CASE ~policy
    <3>1. ~Confirms(Body) /\ ~(wk.pc = "set" /\ wk.g = Body)
      BY <2>2 DEF Confirms, PolicyIsKept
    <3>2. groups[Body].confirmed = "on"
      BY <1>1, <3>1 DEF GroupsMove
    <3>3. QED
      BY <1>1, <2>2, <3>1, <3>2 DEF TorqueMove, PolicyIsKept
  <2>3. QED
    BY <1>1, <2>1, <2>2 DEF TypeOK
<1>7. QED
  BY <1>4, <1>5, <1>6 DEF PolicyIsKept

\* The terminal request is never withdrawn.
LEMMA StopStep ==
  ASSUME Next
  PROVE  /\ stop # "no" => stop' # "no"
         /\ stop = "done" => stop' = "done"
BY FrameStep DEF RequestTerminal, terminal, aclose, InitializeCancelled

LEMMA TerminalStep ==
  ASSUME TypeOK, TerminalCloses, Next
  PROVE  TerminalCloses'
<1>1. GroupsMove
  BY GroupsStep
<1>2. CASE term
  BY <1>1, <1>2, StopStep DEF GroupsMove, Opens, TerminalCloses
<1>3. CASE ~term
  BY <1>3, StopStep, TermStep DEF TerminalCloses
<1>4. QED
  BY <1>2, <1>3 DEF TypeOK

\* aclose goes through its stages in order.
CloserMove ==
  \/ UNCHANGED closer
  \/ closer = "none" /\ closer' = "op" /\ boot' = "up" /\ stop' # "no"
  \/ /\ closer = "op" /\ stop = "done" /\ op.pc = "none" /\ UNCHANGED op
     /\ closer' = IF \E g \in Groups : inflight[g] # {} THEN "producers"
                  ELSE "phases"
     /\ UNCHANGED inflight
  \/ /\ closer = "producers" /\ closer' = "phases"
     /\ \A g \in Groups : inflight'[g] = {}
  \/ closer = "phases" /\ closer' = "closed" /\ wk.pc = "idle" /\ UNCHANGED wk

LEMMA CloserStep ==
  ASSUME TypeOK, Next
  PROVE  /\ CloserMove /\ (boot = "up" => boot' = "up")
         /\ stop # "no" => \A g \in Groups : inflight'[g] \subseteq inflight[g]
<1>1. CASE Worker
  BY <1>1
  DEF Worker, WorkerFrame, WorkerCalls, _execute_reserved, _set, _read,
      _wait_for_commands, _transition_reserved, SampleWorker, _refresh_reserved,
      CloserMove
<1>2. CASE Operation \/ OpCancelled
  BY <1>2
  DEF Operation, OpCancelled, OpFrame, OpStart, OpPrepared, OpCaptures,
      OpExecuted, OpSampled, OpRestored, OpOvertaken, OpFails, OpCommits, OpEnds,
      CloserMove
<1>3. CASE InitializeCancelled
  BY <1>3 DEF InitializeCancelled, CloserMove
<1>4. CASE Aclose \/ Initialize \/ RequestTerminal \/ terminal \/ aclose
  BY <1>4
  DEF Aclose, _wait_for_all_producers, ShutDownExecutor, Initialize, OpFrame,
      InitializeGroup, RequestTerminal, terminal, aclose, CloserMove
<1>5. ASSUME NEW p \in Producers, CommandReturns(p)
      PROVE  /\ CloserMove /\ UNCHANGED boot
             /\ \A g \in Groups : inflight'[g] \subseteq inflight[g]
  BY <1>5 DEF CommandReturns, CloserMove, TypeOK
<1>6. ASSUME NEW p \in Producers, NEW required \in SUBSET Groups,
             command(p, required)
      PROVE  CloserMove /\ UNCHANGED boot /\ stop = "no"
  BY <1>6 DEF command, CloserMove
<1>7. ASSUME NEW g \in Groups, NEW req \in Requests, _reserve(g, req)
      PROVE  CloserMove /\ UNCHANGED <<boot, inflight>>
  BY <1>7 DEF _reserve, CloserMove
<1>8. QED
  BY <1>1, <1>2, <1>3, <1>4, <1>5, <1>6, <1>7, Steps DEF Other

LEMMA ClosingStep ==
  ASSUME TypeOK, ClosesInOrder, Next
  PROVE  ClosesInOrder'
<1> DEFINE Draining == closer \in {"producers", "phases", "closed"}
<1>1. CloserMove /\ (boot = "up" => boot' = "up")
  BY CloserStep
<1>2. closer # "none" =>
        /\ boot' = "up" /\ stop' # "no" /\ (stop = "done" => stop' = "done")
        /\ \A g \in Groups : inflight'[g] \subseteq inflight[g]
  BY CloserStep, StopStep DEF ClosesInOrder
<1>3. Draining => op' = op /\ (wk.pc = "idle" => wk' = wk)
  <2> SUFFICES ASSUME Draining PROVE op' = op /\ (wk.pc = "idle" => wk' = wk)
    OBVIOUS
  <2>1. stop = "done" /\ op.pc = "none"
    BY DEF ClosesInOrder
  <2>2. CASE Worker
    BY <2>2, WorkerStep DEF WorkerMove
  <2>3. ~TaskMove
    BY <2>1 DEF TaskMove
  <2>4. CASE Other
    BY <2>1, <2>4, OtherStep DEF OtherMove, Begins, Wakes
  <2>5. QED
    BY <2>2, <2>3, <2>4, Steps, TaskStep
<1>4. CASE UNCHANGED closer
  BY <1>2, <1>3, <1>4 DEF ClosesInOrder
<1>5. CASE closer # closer'
  BY <1>1, <1>2, <1>3, <1>5 DEF CloserMove, ClosesInOrder
<1>6. QED
  BY <1>4, <1>5

-----------------------------------------------------------------------------
\* The invariant holds at construction, where no gate is open.
LEMMA InvInit == Init => IInv
<1> SUFFICES ASSUME Init PROVE IInv
  OBVIOUS
<1>1. op.pc = "none" /\ wk.pc = "idle"
  BY DEF Init, NoOperation, NoPhase
<1>2. \A g \in Groups : /\ ~groups[g].gate /\ groups[g].confirmed = "none"
                        /\ inflight[g] = {}
  BY DEF Init
<1>3. TypeOK
  <2>1. groups \in [Groups -> _GroupState]
    BY DEF Init, _GroupState, Confirmed, Transitions
  <2>2. QED
    BY <2>1, Rests DEF Init, TypeOK, Confirmed
<1>4. InStep /\ WritesBehindGates /\ QuiescedBeforeWrite
  BY <1>1 DEF InStep, WritesBehindGates, QuiescedBeforeWrite
<1>5. TorqueIsKnown /\ CommandsOnlyTorquedGroups /\ PolicyIsKept
  BY <1>1, <1>2 DEF TorqueIsKnown, CommandsOnlyTorquedGroups, PolicyIsKept
<1>6. TerminalCloses /\ ClosesInOrder
  BY DEF Init, TerminalCloses, ClosesInOrder
<1>7. QED
  BY <1>3, <1>4, <1>5, <1>6 DEF IInv

\* The invariant every state of the coordinator satisfies.
THEOREM Invariance == Spec => []IInv
<1>1. IInv /\ [Next]_vars => IInv'
  <2> SUFFICES ASSUME IInv, [Next]_vars PROVE IInv'
    OBVIOUS
  <2>1. CASE Next
    <3>1. TypeOK' /\ InStep' /\ WritesBehindGates' /\ QuiescedBeforeWrite'
      BY <2>1, TypeStep, InStepStep, GatesStep, QuiescedStep DEF IInv
    <3>2. TorqueIsKnown' /\ CommandsOnlyTorquedGroups' /\ PolicyIsKept'
      BY <2>1, KnownStep, CommandsStep, PolicyKeptStep DEF IInv
    <3>3. TerminalCloses' /\ ClosesInOrder'
      BY <2>1, TerminalStep, ClosingStep DEF IInv
    <3>4. QED
      BY <3>1, <3>2, <3>3 DEF IInv
  <2>2. CASE UNCHANGED vars
    <3>1. TypeOK' /\ InStep' /\ WritesBehindGates' /\ QuiescedBeforeWrite'
      BY <2>2 DEF IInv, vars, coordinator, TypeOK, InStep, OnIt,
                  WritesBehindGates, QuiescedBeforeWrite
    <3>2. TorqueIsKnown' /\ CommandsOnlyTorquedGroups' /\ PolicyIsKept'
      BY <2>2 DEF IInv, vars, coordinator, TorqueIsKnown,
                  CommandsOnlyTorquedGroups, PolicyIsKept
    <3>3. TerminalCloses' /\ ClosesInOrder'
      BY <2>2 DEF IInv, vars, coordinator, TerminalCloses, ClosesInOrder
    <3>4. QED
      BY <3>1, <3>2, <3>3 DEF IInv
  <2>3. QED
    BY <2>1, <2>2
<1>2. QED
  BY <1>1, InvInit, PTL DEF Spec

\* Type correctness: in particular the daemon is never asked for a torque
\* that is neither on nor off.
THEOREM TypeCorrectness == Spec => []TypeOK
<1>1. IInv => TypeOK
  BY DEF IInv
<1>2. QED
  BY <1>1, Invariance, PTL

\* REQ-094: no producer holds a group while the daemon is asked to change its
\* torque, also when the operation was cancelled and its phase runs on.
THEOREM Quiescence == Spec => []QuiescedBeforeWrite
<1>1. IInv => QuiescedBeforeWrite
  BY DEF IInv
<1>2. QED
  BY <1>1, Invariance, PTL

\* No command is executed on a group whose torque is off or in disagreement.
THEOREM CommandSafety == Spec => []CommandsOnlyTorquedGroups
<1>1. IInv => CommandsOnlyTorquedGroups
  BY DEF IInv
<1>2. QED
  BY <1>1, Invariance, PTL

\* REQ-094: what safe_to_restore_body_policy promises the motion adapter.
THEOREM RestoreSafety == Spec => []NoRestoreAgainstUnknownTorque
<1>1. IInv => NoRestoreAgainstUnknownTorque
  BY DEF IInv, PolicyIsKept, NoRestoreAgainstUnknownTorque,
         safe_to_restore_body_policy
<1>2. QED
  BY <1>1, Invariance, PTL

\* When aclose has returned no phase, operation or command is left running.
THEOREM Quiet == Spec => []ClosedIsQuiet
<1>1. IInv => ClosedIsQuiet
  BY DEF IInv, ClosesInOrder, ClosedIsQuiet
<1>2. QED
  BY <1>1, Invariance, PTL

\* A late result is never promoted after the terminal request, and a gate it
\* has closed stays closed.
THEOREM TerminalIsFinal == Spec => TerminalWins
<1> DEFINE Final == /\ stop # "no" => \A g \in Groups :
                                        groups'[g].confirmed = groups[g].confirmed
                    /\ term => \A g \in Groups : ~groups'[g].gate
<1>1. IInv /\ [Next]_vars => [Final]_vars
  <2> SUFFICES ASSUME IInv, Next PROVE Final
    OBVIOUS
  <2>1. GroupsMove
    BY GroupsStep DEF IInv
  <2>2. stop # "no" => \A g \in Groups :
                         groups'[g].confirmed = groups[g].confirmed
    BY <2>1 DEF GroupsMove, Confirms
  <2>3. term => \A g \in Groups : ~groups'[g].gate
    BY <2>1 DEF IInv, TerminalCloses, GroupsMove, Opens
  <2>4. QED
    BY <2>2, <2>3
<1>2. QED
  BY <1>1, Invariance, PTL DEF Spec, TerminalWins
=============================================================================
