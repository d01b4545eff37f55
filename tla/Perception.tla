----------------------------- MODULE Perception -----------------------------
(***************************************************************************)
(* The satellite's detections: FallbackPerception                          *)
(* (adapters/perception_source.py) over a remote source and LocalPerception *)
(* (adapters/perception_local.py), what the application's tick makes of     *)
(* them, and the guarded shutdown that closes them (main.py).               *)
(*                                                                         *)
(* The remote source is RobotLink seen from here: it is connected or not,   *)
(* and the result it keeps never goes back (RobotLink's AppliedInOrder).    *)
(* Time is what it decides: a result goes stale, a link has held for long   *)
(* enough, a deadline passes.                                              *)
(***************************************************************************)
EXTENDS GazeSelector

CONSTANTS
  MaxBuilds,      \* bound: detectors built
  MaxGeneration,  \* bound: reconnections of the remote source
  MaxSequence     \* bound: results numbered within a generation

ASSUME PerceptionAssumption ==
  /\ MaxBuilds \in Nat /\ MaxGeneration \in Nat /\ MaxSequence \in Nat
  /\ None \notin Nat
  /\ None \notin [source : Sources, generation : Nat, sequence : Nat]

Builds == 1..MaxBuilds
Numbers == 0..MaxSequence

VARIABLES
  remote,    \* connected, reconnections, and the result it keeps
  detectors, \* each inference session: unbuilt, loading, disowned, open, closed
  local,     \* LocalPerception: detector, loop, generation and result
  running,   \* FallbackPerception._local_running
  since,     \* _connected_since: None, or whether it is long enough ago
  watch,     \* the detection-source task
  closer,    \* the application's guarded call of aclose
  selector   \* the behaviour's GazeSelector

vars == <<remote, detectors, local, running, since, watch, closer, selector>>

Init ==
  /\ remote = [connected |-> FALSE, reconnections |-> 0, result |-> Nothing]
  /\ detectors = [b \in Builds |-> "unbuilt"]
  /\ local = [detector |-> None, loop |-> "none", generation |-> None,
              result |-> Nothing]
  /\ running = FALSE /\ since = None
  /\ watch = [pc |-> "sleep", build |-> None, cancel |-> FALSE]
  /\ closer = "open"
  /\ selector = Fresh

Over == closer \in {"ended", "forced"}

-----------------------------------------------------------------------------
(* The remote source.                                                      *)

RemoteRest == UNCHANGED <<detectors, local, running, since, watch, closer,
                          selector>>

LinkDrops ==
  /\ remote.connected /\ remote' = [remote EXCEPT !.connected = FALSE]
  /\ RemoteRest

\* The first session, or one more: the result kept stays what it was.
LinkOpens ==
  /\ ~remote.connected /\ closer \in {"open", "watch"}
  /\ \E again \in {0, 1} :
       /\ remote.reconnections + again <= MaxGeneration
       /\ remote' = [remote EXCEPT !.connected = TRUE,
                                   !.reconnections = @ + again]
  /\ RemoteRest

Advances(result, generation, number) ==
  result.identity # None =>
    \/ result.identity.generation < generation
    \/ result.identity.generation = generation
         /\ result.identity.sequence <= number

RemoteResult ==
  /\ remote.connected
  /\ \E number \in Numbers :
       /\ Advances(remote.result, remote.reconnections, number)
       /\ remote' = [remote EXCEPT
            !.result = Sees("remote", remote.reconnections, number, TRUE)]
  /\ RemoteRest

\* A result outlives the staleness window.
GoesStale ==
  /\ \/ /\ remote.result.fresh
        /\ remote' = [remote EXCEPT !.result.fresh = FALSE]
        /\ UNCHANGED local
     \/ /\ local.result.fresh
        /\ local' = [local EXCEPT !.result.fresh = FALSE]
        /\ UNCHANGED remote
  /\ UNCHANGED <<detectors, running, since, watch, closer, selector>>

-----------------------------------------------------------------------------
(* LocalPerception.                                                        *)

\* A source that starts again starts its generations again.
MutantSameGeneration(b) ==
  local' = [detector |-> b, loop |-> "sleep", generation |-> 0,
            result |-> Nothing]

\* start, once the detector is built: a new generation, and nothing seen in it.
start(b) ==
  local' = [detector |-> b, loop |-> "sleep", result |-> Nothing,
            generation |-> IF local.generation = None THEN 0
                           ELSE local.generation + 1]

\* _run and _look: the loop takes a frame and records what it found there; a
\* turn that has no frame, or fails, is over.
_run ==
  /\ local.loop = "sleep" /\ local' = [local EXCEPT !.loop = "look"]
  /\ UNCHANGED <<remote, detectors, running, since, watch, closer, selector>>

_look ==
  /\ local.loop = "look"
  /\ \/ local' = [local EXCEPT !.loop = "sleep"]
     \/ \E number \in Numbers :
          /\ number = IF local.result = Nothing THEN 0
                      ELSE local.result.identity.sequence + 1
          /\ local' = [local EXCEPT !.loop = "sleep",
               !.result = Sees("local", local.generation, number, TRUE)]
  /\ UNCHANGED <<remote, detectors, running, since, watch, closer, selector>>

\* aclose, first half: the loop is cancelled, and awaited if there is one.
StopsLoop ==
  local' = [local EXCEPT !.loop = IF @ = "none" THEN @ ELSE "cancelled"]

\* aclose, second half: the loop is over; the detector is let go of.
ClosesDetector ==
  /\ detectors' = IF local.detector = None THEN detectors
                  ELSE [detectors EXCEPT ![local.detector] = "closed"]
  /\ local' = [local EXCEPT !.detector = None, !.loop = "none",
                            !.result = Nothing]

-----------------------------------------------------------------------------
(* The supervisor: FallbackPerception._supervise and check.                *)

Watching(pc) == watch.pc = pc /\ ~watch.cancel

\* check finds the session lost: local detection is started, if it is not.
FallsBack ==
  /\ Watching("sleep") /\ ~remote.connected
  /\ since' = None
  /\ IF running
     THEN UNCHANGED <<detectors, watch>>
     ELSE \E b \in Builds :
            /\ detectors[b] = "unbuilt"
            /\ \A c \in 1..(b - 1) : detectors[c] # "unbuilt"
            /\ detectors' = [detectors EXCEPT ![b] = "loading"]
            /\ watch' = [watch EXCEPT !.pc = "starting", !.build = b]
  /\ UNCHANGED <<remote, local, running, closer, selector>>

\* Fallback counts as engaged before the detector is known to exist.
MutantMarksFirst ==
  /\ Watching("starting") /\ running' = TRUE
  /\ \/ /\ detectors' = [detectors EXCEPT ![watch.build] = "open"]
        /\ start(watch.build)
     \/ /\ detectors' = [detectors EXCEPT ![watch.build] = "unbuilt"]
        /\ UNCHANGED local
  /\ watch' = [watch EXCEPT !.pc = "sleep", !.build = None]
  /\ UNCHANGED <<remote, since, closer, selector>>

\* The build ends: LocalPerception starts and check returns, or the turn
\* failed and the next one tries again.
Started ==
  /\ Watching("starting")
  /\ \/ /\ detectors' = [detectors EXCEPT ![watch.build] = "open"]
        /\ start(watch.build) /\ running' = TRUE
     \/ /\ detectors' = [detectors EXCEPT ![watch.build] = "unbuilt"]
        /\ UNCHANGED <<local, running>>
  /\ watch' = [watch EXCEPT !.pc = "sleep", !.build = None]
  /\ UNCHANGED <<remote, since, closer, selector>>

\* check finds the session up: it notes since when, and once that is long
\* enough ago it stops local detection.
check ==
  /\ Watching("sleep") /\ remote.connected
  /\ since' = IF since = None THEN "recent" ELSE since
  /\ IF running /\ since = "long"
     THEN /\ running' = FALSE /\ StopsLoop
          /\ watch' = [watch EXCEPT !.pc = "stopping"]
     ELSE UNCHANGED <<running, local, watch>>
  /\ UNCHANGED <<remote, detectors, closer, selector>>

\* The recovery interval passes.
Holds ==
  /\ since = "recent" /\ since' = "long"
  /\ UNCHANGED <<remote, detectors, local, running, watch, closer, selector>>

\* LocalPerception.aclose ends, and check with it.  It suppresses every
\* CancelledError while it awaits its loop: one of the watch's own is lost.
Stopped ==
  /\ watch.pc = "stopping" /\ ClosesDetector
  /\ watch' = [watch EXCEPT !.pc = "sleep", !.cancel = FALSE]
  /\ UNCHANGED <<remote, running, since, closer, selector>>

\* A cancelled start does not see to the build it leaves behind.
MutantForgetsBuild ==
  /\ watch.cancel /\ watch.pc \in {"sleep", "starting"}
  /\ detectors' = IF watch.pc = "sleep" THEN detectors
                  ELSE [detectors EXCEPT ![watch.build] = "open"]
  /\ watch' = [pc |-> "done", build |-> None, cancel |-> FALSE]
  /\ UNCHANGED <<remote, local, running, since, closer, selector>>

\* The watch is cancelled: in its sleep, or awaiting a build, which is left to
\* its thread and closed when it is done.
WatchCancelled ==
  /\ watch.cancel /\ watch.pc \in {"sleep", "starting"}
  /\ detectors' = IF watch.pc = "sleep" THEN detectors
                  ELSE [detectors EXCEPT ![watch.build] = "disowned"]
  /\ watch' = [pc |-> "done", build |-> None, cancel |-> FALSE]
  /\ UNCHANGED <<remote, local, running, since, closer, selector>>

_close_when_built ==
  /\ \E b \in Builds :
       /\ detectors[b] = "disowned"
       /\ detectors' = [detectors EXCEPT ![b] = "closed"]
  /\ UNCHANGED <<remote, local, running, since, watch, closer, selector>>

-----------------------------------------------------------------------------
(* FallbackPerception.aclose under the application's _aguard.              *)

aclose ==
  /\ closer = "open" /\ closer' = "watch"
  /\ watch' = [watch EXCEPT !.cancel = TRUE]
  /\ UNCHANGED <<remote, detectors, local, running, since, selector>>

\* The watch is over: the remote source is closed, then the local one if it
\* runs.
ClosesRemote ==
  /\ closer = "watch" /\ watch.pc = "done"
  /\ remote' = [remote EXCEPT !.connected = FALSE]
  /\ IF running THEN closer' = "local" /\ running' = FALSE /\ StopsLoop
                ELSE closer' = "ended" /\ UNCHANGED <<running, local>>
  /\ UNCHANGED <<detectors, since, watch, selector>>

ClosesLocal ==
  /\ closer = "local" /\ ClosesDetector /\ closer' = "ended"
  /\ UNCHANGED <<remote, running, since, watch, selector>>

\* Shutdown waits for as long as it takes.
MutantNoDeadline == FALSE /\ UNCHANGED vars

\* The deadline passes: the call is cancelled, which cancels the watch if that
\* is what it awaits, and force-closed.
_aguard ==
  /\ closer \in {"watch", "local"} /\ closer' = "forced"
  /\ watch' = [watch EXCEPT !.cancel = (closer = "watch" /\ watch.pc # "done")]
  /\ UNCHANGED <<remote, detectors, local, running, since, selector>>

-----------------------------------------------------------------------------
(* The application's tick, and the behaviour.                              *)

\* FallbackPerception.latest.
latest == IF remote.connected THEN remote.result ELSE local.result

\* tick and prepare: the selector is shown what there is to see.
Tick ==
  /\ closer = "open"
  /\ selector' = select(selector, latest)
  /\ UNCHANGED <<remote, detectors, local, running, since, watch, closer>>

\* reseed_motion after a motor group came back: a selector that saw nothing.
reseed_motion ==
  /\ closer = "open" /\ selector' = Fresh
  /\ UNCHANGED <<remote, detectors, local, running, since, watch, closer>>

-----------------------------------------------------------------------------
Next ==
  \/ LinkDrops \/ LinkOpens \/ RemoteResult \/ GoesStale \/ _run \/ _look
  \/ FallsBack \/ Started \/ check \/ Holds \/ Stopped \/ WatchCancelled
  \/ _close_when_built \/ aclose \/ ClosesRemote \/ ClosesLocal \/ _aguard
  \/ Tick \/ reseed_motion

Spec == Init /\ [][Next]_vars

(* Every task and thread that can go on does; a link that holds has held    *)
(* for long enough at some time; deadlines pass; and a detector that is     *)
(* built again and again is built.                                         *)
Fairness ==
  /\ WF_vars(_look) /\ WF_vars(FallsBack) /\ WF_vars(check) /\ WF_vars(Holds)
  /\ WF_vars(Started) /\ SF_vars(Started /\ local' # local)
  /\ WF_vars(Stopped) /\ WF_vars(WatchCancelled) /\ WF_vars(_close_when_built)
  /\ WF_vars(ClosesRemote) /\ WF_vars(ClosesLocal) /\ WF_vars(_aguard)

FairSpec == Spec /\ Fairness

-----------------------------------------------------------------------------
(* Correctness.                                                            *)

\* The type of the state; a local source that is closed has neither a loop nor
\* a result.
Results(source, generations) ==
  {Nothing} \cup [identity : [source : {source}, generation : generations,
                              sequence : Numbers],
                  fresh : BOOLEAN]
Identities(source) ==
  [source : {source}, generation : Nat, sequence : Numbers]
TypeOK ==
  /\ remote \in [connected : BOOLEAN, reconnections : 0..MaxGeneration,
                 result : Results("remote", 0..MaxGeneration)]
  /\ detectors \in [Builds -> {"unbuilt", "loading", "disowned", "open",
                               "closed"}]
  /\ local \in [detector : {None}, loop : {"none"},
                generation : Nat \cup {None}, result : {Nothing}]
          \cup [detector : Builds, loop : {"sleep", "look", "cancelled"},
                generation : Nat, result : Results("local", Nat)]
  /\ running \in BOOLEAN /\ since \in {None, "recent", "long"}
  /\ watch \in [pc : {"sleep", "stopping", "done"}, build : {None},
                cancel : BOOLEAN]
          \cup [pc : {"starting"}, build : Builds, cancel : BOOLEAN]
  /\ closer \in {"open", "watch", "local", "ended", "forced"}
  /\ selector.current \in Results("remote", Nat) \cup Results("local", Nat)
  /\ \A source \in Sources :
       selector.marks[source] \in {None} \cup Identities(source)

\* No inference session is leaked or used after it is closed: one that is open
\* is the one local detection runs on, one that loads has somebody to hold or
\* to close it, and a shutdown that ended in time leaves none, wherever it
\* caught the supervisor (perception_local.py:557-562, perception_source.py:188).
DetectorsHeld ==
  /\ \A b \in Builds :
       /\ detectors[b] = "open" <=> b = local.detector
       /\ detectors[b] = "loading" <=> b = watch.build
  /\ running => local.detector # None
  /\ closer = "ended" => /\ watch.pc = "done" /\ ~running
                         /\ local.detector = None

\* A result nobody has been shown is followed at the next tick if it is fresh:
\* neither a source that starts again, nor the change from one source to the
\* other, hides what is seen behind what was (tracking.py:97-99,
\* perception_local.py:563).
FreshIsFollowed ==
  latest.fresh /\ latest.identity # selector.marks[latest.identity.source]
    => select(selector, latest).current = latest

\* A link that stays down has the robot's own detector take over, and one that
\* stays up has it released, however often builds failed and the link flapped
\* before.
SourceFollowsLink ==
  /\ <>[](closer = "open" /\ ~remote.connected)
       => <>[](local.detector # None \/ \A b \in Builds : detectors[b] = "closed")
  /\ <>[](closer = "open" /\ remote.connected) => <>[](local.detector = None)

\* Shutting the detections down ends, although a supervisor that was stopping
\* local detection swallows the cancellation and goes on (main.py:525-581).
ShutdownEnds == closer = "watch" ~> Over
=============================================================================
