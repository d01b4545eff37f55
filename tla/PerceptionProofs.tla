-------------------------- MODULE PerceptionProofs --------------------------
(***************************************************************************)
(* The safety of Perception for any number of detectors built, of          *)
(* reconnections and of results: every detector is held by somebody, and   *)
(* the selector follows what it has not been shown.                        *)
(***************************************************************************)
EXTENDS Perception, TLAPS

USE PerceptionAssumption

Generations == 0..MaxGeneration
Remotes ==
  [connected : BOOLEAN, reconnections : Generations,
   result : Results("remote", Generations)]
Locals ==
  [detector : Builds \cup {None},
   loop : {"none", "sleep", "look", "cancelled"},
   generation : Nat \cup {None}, result : Results("local", Nat)]
Watches ==
  [pc : {"sleep", "starting", "stopping", "done"},
   build : Builds \cup {None}, cancel : BOOLEAN]
Marks == {None} \cup Identities("remote") \cup Identities("local")
Selectors ==
  [current : Results("remote", Nat) \cup Results("local", Nat),
   marks : [Sources -> Marks]]

\* Every variable on its own.
Typed ==
  /\ remote \in Remotes /\ local \in Locals /\ watch \in Watches
  /\ selector \in Selectors
  /\ detectors \in [Builds -> {"unbuilt", "loading", "disowned", "open",
                               "closed"}]
  /\ running \in BOOLEAN /\ since \in {None, "recent", "long"}
  /\ closer \in {"open", "watch", "local", "ended", "forced"}

\* The local source is started or it is not: with a detector go a loop and a
\* generation, without one there is nothing left of what was seen.
LocalInStep ==
  /\ local.detector = None => local.loop = "none" /\ local.result = Nothing
  /\ local.detector # None => local.loop # "none" /\ local.generation # None

\* Who holds each detector, by what the supervisor and the shutdown are at.
Holders ==
  /\ watch.pc = "starting" <=> watch.build # None
  /\ watch.pc \in {"starting", "stopping"} => running = FALSE
  /\ closer = "local" => watch.pc = "done" /\ running = FALSE
  /\ running = FALSE /\ local.detector # None =>
       \/ watch.pc = "stopping"
       \/ watch.pc = "done" /\ closer \in {"local", "forced"}

\* What the selector was shown of a source is no newer than what the source
\* has, and older than what it finds once it started again.
Shown ==
  /\ \A s \in Sources :
       selector.marks[s] # None => selector.marks[s].source = s
  /\ remote.result.identity # None =>
       /\ ~Older(remote.result.identity, selector.marks["remote"])
       /\ remote.result.identity.generation <= remote.reconnections
  /\ selector.marks["remote"] # None => remote.result.identity # None
  /\ local.result.identity # None =>
       /\ ~Older(local.result.identity, selector.marks["local"])
       /\ local.result.identity.generation = local.generation
  /\ selector.marks["local"] # None =>
       /\ local.generation # None
       /\ selector.marks["local"].generation <= local.generation
       /\ local.result.identity = None /\ local.detector # None
            => selector.marks["local"].generation < local.generation

IInv == Typed /\ LocalInStep /\ Holders /\ DetectorsHeld /\ Shown

-----------------------------------------------------------------------------
\* A result in a source's type is one of the two kinds.
LEMMA ResultKinds ==
  ASSUME NEW source \in Sources, NEW generations \in SUBSET Nat,
         NEW result \in Results(source, generations)
  PROVE  /\ result.fresh \in BOOLEAN
         /\ \/ result = Nothing /\ result.identity = None
               /\ result.fresh = FALSE
            \/ /\ result.identity \in [source : {source},
                                       generation : generations,
                                       sequence : Numbers]
               /\ result.identity # None
               /\ result.identity.source = source
               /\ result.identity.generation \in generations
               /\ result.identity.sequence \in Numbers
<1>1. CASE result = Nothing
  BY <1>1 DEF Nothing
<1>2. CASE result \in [identity : [source : {source}, generation : generations,
                                  sequence : Numbers],
                       fresh : BOOLEAN]
  <2>1. result.identity \in [source : {source}, generation : generations,
                             sequence : Numbers]
    BY <1>2
  <2>2. result.identity \in [source : Sources, generation : Nat, sequence : Nat]
    <3>1. [source : {source}, generation : generations, sequence : Numbers]
            \subseteq [source : Sources, generation : Nat, sequence : Nat]
      <4>1. Numbers \subseteq Nat /\ {source} \subseteq Sources
        BY DEF Numbers
      <4>2. QED
        BY <4>1
    <3>2. QED
      BY <2>1, <3>1
  <2>3. result.identity # None
    BY <2>2
  <2>4. QED
    BY <1>2, <2>1, <2>3
<1>3. QED
  BY <1>1, <1>2 DEF Results

\* What a source sees is a result of its type.
LEMMA SeesTyped ==
  ASSUME NEW source \in Sources, NEW generations \in SUBSET Nat,
         NEW generation \in generations, NEW number \in Numbers
  PROVE  /\ Sees(source, generation, number, TRUE)
              \in Results(source, generations)
         /\ Nothing \in Results(source, generations)
         /\ LET seen == Sees(source, generation, number, TRUE)
            IN  /\ seen.fresh = TRUE
                /\ seen.identity = [source |-> source,
                                    generation |-> generation,
                                    sequence |-> number]
                /\ seen.identity # None
<1> DEFINE id == [source |-> source, generation |-> generation,
                  sequence |-> number]
<1>1. id \in [source : {source}, generation : generations,
              sequence : Numbers]
  OBVIOUS
<1>2. id \in [source : Sources, generation : Nat, sequence : Nat]
  <2>1. generation \in Nat /\ number \in Nat
    BY DEF Numbers
  <2>2. QED
    BY <2>1
<1>3. id # None
  BY <1>2
<1>4. QED
  BY <1>1, <1>3 DEF Results, Sees

\* The steps of the local source and of those who start and close it.
LEMMA LocalTyped ==
  ASSUME Typed, LocalInStep, Holders, Next
  PROVE  local' \in Locals /\ LocalInStep'
<1>1. ASSUME StopsLoop PROVE local' \in Locals /\ LocalInStep'
  <2>1. PICK loop \in {"none", "cancelled"} :
          /\ local' = [local EXCEPT !.loop = loop]
          /\ loop = "none" <=> local.loop = "none"
    BY <1>1 DEF StopsLoop, Typed, Locals
  <2>2. QED
    BY <2>1 DEF Typed, Locals, LocalInStep
<1>2. ASSUME NEW b \in Builds, start(b) PROVE local' \in Locals /\ LocalInStep'
  <2>1. Nothing \in Results("local", Nat) /\ Nothing.identity = None
    BY DEF Results, Nothing
  <2>2. PICK g \in Nat :
          local' = [detector |-> b, loop |-> "sleep", result |-> Nothing,
                    generation |-> g]
    <3>1. local.generation \in Nat \cup {None}
      BY DEF Typed, Locals
    <3>2. (IF local.generation = None THEN 0 ELSE local.generation + 1) \in Nat
      BY <3>1
    <3>3. QED
      BY <1>2, <3>2 DEF start
  <2>3. b # None /\ g # None
    BY DEF Builds
  <2>4. QED
    BY <2>1, <2>2, <2>3 DEF Locals, LocalInStep
<1>3. ASSUME ClosesDetector PROVE local' \in Locals /\ LocalInStep'
  <2>1. Nothing \in Results("local", Nat)
    BY DEF Results
  <2>2. local' = [local EXCEPT !.detector = None, !.loop = "none",
                               !.result = Nothing]
    BY <1>3 DEF ClosesDetector
  <2>3. QED
    BY <2>1, <2>2 DEF Typed, Locals, LocalInStep
<1>4. CASE GoesStale
  <2>1. CASE local.result.fresh /\ local' = [local EXCEPT !.result.fresh = FALSE]
    <3>1. local.result \in Results("local", Nat) /\ local.result.fresh = TRUE
      BY <2>1, ResultKinds DEF Typed, Locals, Sources
    <3>2. local.result # Nothing /\ [local.result EXCEPT !.fresh = FALSE]
                                      \in Results("local", Nat)
      <4>1. local.result # Nothing
        BY <3>1 DEF Nothing
      <4>2. local.result \in [identity : [source : {"local"},
                                         generation : Nat,
                                         sequence : Numbers],
                              fresh : BOOLEAN]
        BY <3>1, <4>1 DEF Results
      <4>3. QED
        BY <4>1, <4>2 DEF Results
    <3>3. QED
      BY <2>1, <3>2 DEF Typed, Locals, LocalInStep
  <2>2. QED
    BY <1>4, <2>1 DEF GoesStale, Typed, LocalInStep
<1>5. CASE _run
  BY <1>5 DEF _run, Typed, Locals, LocalInStep
<1>6. CASE _look
  <2>1. CASE local' = [local EXCEPT !.loop = "sleep"]
    BY <1>6, <2>1 DEF _look, Typed, Locals, LocalInStep
  <2>2. CASE \E number \in Numbers :
               local' = [local EXCEPT !.loop = "sleep",
                 !.result = Sees("local", local.generation, number, TRUE)]
    <3>1. PICK number \in Numbers :
            local' = [local EXCEPT !.loop = "sleep",
              !.result = Sees("local", local.generation, number, TRUE)]
      BY <2>2
    <3>2. local.detector # None /\ local.generation \in Nat
      BY <1>6 DEF _look, LocalInStep, Typed, Locals
    <3>3. Sees("local", local.generation, number, TRUE)
            \in Results("local", Nat)
      BY <3>2, SeesTyped DEF Sources
    <3>4. QED
      BY <3>1, <3>2, <3>3 DEF Typed, Locals, LocalInStep
  <2>3. QED
    BY <1>6, <2>1, <2>2 DEF _look
<1>7. CASE Started
  <2>1. watch.build \in Builds
    BY <1>7 DEF Started, Watching, Holders, Typed, Watches
  <2>2. QED
    BY <1>2, <1>7, <2>1 DEF Started, Typed, LocalInStep
<1>8. CASE check
  BY <1>1, <1>8 DEF check, Typed, LocalInStep
<1>9. CASE Stopped \/ ClosesLocal
  BY <1>3, <1>9 DEF Stopped, ClosesLocal
<1>10. CASE ClosesRemote
  BY <1>1, <1>10 DEF ClosesRemote, Typed, LocalInStep
<1>11. CASE UNCHANGED local
  BY <1>11 DEF Typed, LocalInStep
<1>12. LinkDrops \/ LinkOpens \/ RemoteResult \/ FallsBack \/ Holds
         \/ WatchCancelled \/ _close_when_built \/ aclose \/ _aguard \/ Tick
         \/ reseed_motion => UNCHANGED local
  BY DEF LinkDrops, LinkOpens, RemoteResult, RemoteRest, FallsBack, Holds,
     WatchCancelled, _close_when_built, aclose, _aguard, Tick, reseed_motion
<1>13. QED
  BY <1>4, <1>5, <1>6, <1>7, <1>8, <1>9, <1>10, <1>11, <1>12 DEF Next

\* Every other variable.
LEMMA RestTyped ==
  ASSUME Typed, LocalInStep, Holders, Next
  PROVE  /\ remote' \in Remotes /\ watch' \in Watches
         /\ selector' \in Selectors
         /\ detectors' \in [Builds -> {"unbuilt", "loading", "disowned", "open",
                                      "closed"}]
         /\ running' \in BOOLEAN /\ since' \in {None, "recent", "long"}
         /\ closer' \in {"open", "watch", "local", "ended", "forced"}
<1>0. "remote" \in Sources /\ Generations \in SUBSET Nat
  BY DEF Sources, Generations
<1>1. remote' \in Remotes
  <2>1. CASE LinkDrops
    <3>1. remote' = [remote EXCEPT !.connected = FALSE]
      BY <2>1 DEF LinkDrops
    <3>2. QED
      BY <3>1 DEF Typed, Remotes
  <2>2. CASE LinkOpens
    <3>1. PICK n \in Nat :
            /\ n <= MaxGeneration
            /\ remote' = [remote EXCEPT !.connected = TRUE, !.reconnections = n]
      <4>1. remote.reconnections \in Nat
        BY DEF Typed, Remotes, Generations
      <4>2. PICK again \in {0, 1} :
              /\ remote.reconnections + again <= MaxGeneration
              /\ remote' = [remote EXCEPT !.connected = TRUE,
                                          !.reconnections = @ + again]
        BY <2>2 DEF LinkOpens
      <4>3. remote.reconnections + again \in Nat
        BY <4>1
      <4>4. QED
        BY <4>2, <4>3
    <3>2. n \in Generations
      BY <3>1 DEF Generations
    <3>3. QED
      BY <3>1, <3>2 DEF Typed, Remotes
  <2>3. CASE RemoteResult
    <3>1. PICK number \in Numbers :
            remote' = [remote EXCEPT
              !.result = Sees("remote", remote.reconnections, number, TRUE)]
      BY <2>3 DEF RemoteResult
    <3>2. remote.reconnections \in Generations
      BY DEF Typed, Remotes
    <3>3. Sees("remote", remote.reconnections, number, TRUE)
            \in Results("remote", Generations)
      BY <1>0, <3>2, SeesTyped
    <3>4. QED
      BY <3>1, <3>3 DEF Typed, Remotes
  <2>4. CASE GoesStale /\ remote.result.fresh
               /\ remote' = [remote EXCEPT !.result.fresh = FALSE]
    <3>1. remote.result \in Results("remote", Generations)
      BY DEF Typed, Remotes
    <3>2. remote.result # Nothing
      BY <2>4 DEF Nothing
    <3>3. remote.result \in [identity : [source : {"remote"},
                                        generation : Generations,
                                        sequence : Numbers],
                             fresh : BOOLEAN]
      BY <3>1, <3>2 DEF Results
    <3>4. [remote.result EXCEPT !.fresh = FALSE]
            \in Results("remote", Generations)
      BY <3>3 DEF Results
    <3>5. QED
      BY <2>4, <3>4 DEF Typed, Remotes
  <2>5. CASE ClosesRemote
    <3>1. remote' = [remote EXCEPT !.connected = FALSE]
      BY <2>5 DEF ClosesRemote
    <3>2. QED
      BY <3>1 DEF Typed, Remotes
  <2>6. CASE UNCHANGED remote
    BY <2>6 DEF Typed
  <2>7. QED
    BY <2>1, <2>2, <2>3, <2>4, <2>5, <2>6
    DEF Next, GoesStale, _run, _look, FallsBack, Started, check, Holds,
        Stopped, WatchCancelled, _close_when_built, aclose, ClosesLocal,
        _aguard, Tick, reseed_motion
<1>2. watch' \in Watches
  <2>1. CASE FallsBack \/ Started \/ check
    BY <2>1 DEF FallsBack, Started, check, Typed, Watches
  <2>2. CASE Stopped \/ WatchCancelled \/ aclose
    <3>1. \/ watch' = [watch EXCEPT !.pc = "sleep", !.cancel = FALSE]
          \/ watch' = [watch EXCEPT !.cancel = TRUE]
          \/ watch' = [pc |-> "done", build |-> None, cancel |-> FALSE]
      BY <2>2 DEF Stopped, WatchCancelled, aclose
    <3>2. CASE watch' = [watch EXCEPT !.pc = "sleep", !.cancel = FALSE]
      BY <3>2 DEF Typed, Watches
    <3>3. CASE watch' = [watch EXCEPT !.cancel = TRUE]
      BY <3>3 DEF Typed, Watches
    <3>4. CASE watch' = [pc |-> "done", build |-> None, cancel |-> FALSE]
      BY <3>4 DEF Watches
    <3>5. QED
      BY <3>1, <3>2, <3>3, <3>4
  <2>3. CASE _aguard
    <3>1. PICK c \in BOOLEAN : watch' = [watch EXCEPT !.cancel = c]
      BY <2>3 DEF _aguard
    <3>2. QED
      BY <3>1 DEF Typed, Watches
  <2>4. CASE UNCHANGED watch
    BY <2>4 DEF Typed
  <2>5. QED
    BY <2>1, <2>2, <2>3, <2>4
    DEF Next, LinkDrops, LinkOpens, RemoteResult, RemoteRest, GoesStale, _run,
        _look, Holds, _close_when_built, ClosesRemote, ClosesLocal, Tick,
        reseed_motion
<1>3. selector' \in Selectors
  <2>1. CASE Tick
    <3>1. PICK source \in Sources : latest \in Results(source, Nat)
      <4>1. remote.result \in Results("remote", Nat)
        BY DEF Typed, Remotes, Results, Generations
      <4>2. local.result \in Results("local", Nat)
        BY DEF Typed, Locals
      <4>3. QED
        BY <4>1, <4>2 DEF latest, Sources
    <3>2. CASE UNCHANGED selector
      BY <3>2 DEF Typed
    <3>3. CASE /\ latest.identity # None
               /\ selector' = [current |-> latest,
                    marks |-> IF ~latest.fresh THEN selector.marks
                              ELSE [selector.marks EXCEPT
                                     ![latest.identity.source]
                                       = latest.identity]]
      <4>1. latest.identity \in Identities(source)
              /\ latest.identity.source = source
        BY <3>1, <3>3, ResultKinds DEF Identities
      <4>2. latest.identity \in Marks
        BY <4>1 DEF Marks, Sources
      <4>3. selector.marks \in [Sources -> Marks]
        BY DEF Typed, Selectors
      <4>4. selector'.marks \in [Sources -> Marks]
        BY <3>3, <4>2, <4>3
      <4>5. selector'.current \in Results("remote", Nat) \cup Results("local", Nat)
        BY <3>1, <3>3 DEF Sources
      <4>6. QED
        BY <3>3, <4>4, <4>5 DEF Selectors
    <3>4. QED
      BY <2>1, <3>2, <3>3 DEF Tick, select
  <2>2. CASE reseed_motion
    <3>1. Fresh \in Selectors
      BY DEF Fresh, Selectors, Results, Marks
    <3>2. QED
      BY <2>2, <3>1 DEF reseed_motion
  <2>3. CASE UNCHANGED selector
    BY <2>3 DEF Typed
  <2>4. QED
    BY <2>1, <2>2, <2>3
    DEF Next, LinkDrops, LinkOpens, RemoteResult, RemoteRest, GoesStale, _run,
        _look, FallsBack, Started, check, Holds, Stopped, WatchCancelled,
        _close_when_built, aclose, ClosesRemote, ClosesLocal, _aguard
<1>4. detectors' \in [Builds -> {"unbuilt", "loading", "disowned", "open",
                                "closed"}]
  BY DEF Next, LinkDrops, LinkOpens, RemoteResult, RemoteRest, GoesStale, _run,
     _look, FallsBack, Started, check, Holds, Stopped, WatchCancelled,
     _close_when_built, aclose, ClosesRemote, ClosesLocal, ClosesDetector,
     _aguard, Tick, reseed_motion, Typed
<1>5. running' \in BOOLEAN /\ since' \in {None, "recent", "long"}
        /\ closer' \in {"open", "watch", "local", "ended", "forced"}
  BY DEF Next, LinkDrops, LinkOpens, RemoteResult, RemoteRest, GoesStale, _run,
     _look, FallsBack, Started, check, Holds, Stopped, WatchCancelled,
     _close_when_built, aclose, ClosesRemote, ClosesLocal, ClosesDetector,
     _aguard, Tick, reseed_motion, Typed
<1>6. QED
  BY <1>1, <1>2, <1>3, <1>4, <1>5

-----------------------------------------------------------------------------
\* Every detector is held, and the supervisor and the shutdown know by whom.
LEMMA HeldStep ==
  ASSUME Typed, LocalInStep, Holders, DetectorsHeld, Next
  PROVE  Holders' /\ DetectorsHeld'
<1>1. /\ watch.build \in Builds \cup {None}
      /\ local.detector \in Builds \cup {None}
      /\ running \in BOOLEAN /\ None \notin Builds
      /\ watch.pc \in {"sleep", "starting", "stopping", "done"}
  BY DEF Typed, Watches, Locals, Builds
<1>2. \A b \in Builds :
        /\ detectors[b] = "open" <=> b = local.detector
        /\ detectors[b] = "loading" <=> b = watch.build
  BY DEF DetectorsHeld
<1>3. CASE /\ UNCHANGED <<detectors, running, closer>>
           /\ watch'.pc = watch.pc /\ watch'.build = watch.build
           /\ local'.detector = local.detector
  BY <1>3 DEF Holders, DetectorsHeld
<1>4. CASE LinkDrops \/ LinkOpens \/ RemoteResult \/ Holds \/ Tick
             \/ reseed_motion
  BY <1>3, <1>4
  DEF LinkDrops, LinkOpens, RemoteResult, RemoteRest, Holds, Tick, reseed_motion
<1>5. CASE GoesStale \/ _run \/ _look
  <2>1. local'.detector = local.detector
    BY <1>5 DEF GoesStale, _run, _look, Typed, Locals
  <2>2. QED
    BY <1>3, <1>5, <2>1 DEF GoesStale, _run, _look
<1>6. CASE FallsBack
  <2>1. CASE running
    BY <1>3, <1>6, <2>1 DEF FallsBack
  <2>2. CASE ~running
    <3>1. PICK b \in Builds :
            /\ detectors[b] = "unbuilt"
            /\ detectors' = [detectors EXCEPT ![b] = "loading"]
            /\ watch' = [watch EXCEPT !.pc = "starting", !.build = b]
      BY <1>6, <2>2 DEF FallsBack
    <3>2. watch.pc = "sleep" /\ UNCHANGED <<local, running, closer>>
      BY <1>6 DEF FallsBack, Watching
    <3>3. watch'.pc = "starting" /\ watch'.build = b
      BY <3>1 DEF Typed, Watches
    <3>4. local.detector = None /\ watch.build = None /\ running = FALSE
            /\ closer # "local" /\ closer # "ended"
      BY <1>1, <2>2, <3>2 DEF Holders, DetectorsHeld
    <3>5. \A c \in Builds : detectors'[c] = IF c = b THEN "loading"
                                            ELSE detectors[c]
      BY <3>1 DEF Typed
    <3>6. DetectorsHeld'
      BY <1>1, <1>2, <3>2, <3>3, <3>4, <3>5 DEF DetectorsHeld
    <3>7. Holders'
      BY <1>1, <3>2, <3>3, <3>4 DEF Holders
    <3>8. QED
      BY <3>6, <3>7
  <2>3. QED
    BY <2>1, <2>2
<1>7. CASE Started
  <2>1. /\ watch.pc = "starting" /\ watch.build \in Builds
        /\ running = FALSE /\ local.detector = None
        /\ closer # "local" /\ closer # "ended" /\ UNCHANGED closer
    BY <1>1, <1>7 DEF Started, Watching, Holders, DetectorsHeld
  <2>2. watch'.pc = "sleep" /\ watch'.build = None
    BY <1>7 DEF Started, Typed, Watches
  <2>3. CASE /\ detectors' = [detectors EXCEPT ![watch.build] = "open"]
             /\ start(watch.build) /\ running' = TRUE
    <3>1. local'.detector = watch.build
      BY <2>3 DEF start
    <3>2. \A c \in Builds : detectors'[c] = IF c = watch.build THEN "open"
                                            ELSE detectors[c]
      BY <2>1, <2>3 DEF Typed
    <3>3. QED
      BY <1>1, <1>2, <2>1, <2>2, <2>3, <3>1, <3>2 DEF Holders, DetectorsHeld
  <2>4. CASE /\ detectors' = [detectors EXCEPT ![watch.build] = "unbuilt"]
             /\ UNCHANGED <<local, running>>
    <3>1. \A c \in Builds : detectors'[c] = IF c = watch.build THEN "unbuilt"
                                            ELSE detectors[c]
      BY <2>1, <2>4 DEF Typed
    <3>2. QED
      BY <1>1, <1>2, <2>1, <2>2, <2>4, <3>1 DEF Holders, DetectorsHeld
  <2>5. QED
    BY <1>7, <2>3, <2>4 DEF Started
<1>8. CASE check
  <2>1. UNCHANGED <<detectors, closer>> /\ watch.pc = "sleep"
    BY <1>8 DEF check, Watching
  <2>2. CASE /\ running /\ running' = FALSE /\ StopsLoop
             /\ watch' = [watch EXCEPT !.pc = "stopping"]
    <3>1. local'.detector = local.detector
      BY <2>2 DEF StopsLoop, Typed, Locals
    <3>2. watch'.pc = "stopping" /\ watch'.build = watch.build
      BY <2>2 DEF Typed, Watches
    <3>3. closer # "local" /\ closer # "ended"
      BY <2>1 DEF Holders, DetectorsHeld
    <3>4. QED
      BY <1>1, <2>1, <2>2, <3>1, <3>2, <3>3 DEF Holders, DetectorsHeld
  <2>3. QED
    BY <1>3, <1>8, <2>1, <2>2 DEF check
<1>9. ASSUME ClosesDetector
      PROVE  /\ local'.detector = None
             /\ \A b \in Builds :
                  /\ detectors'[b] = "open" <=> b = local'.detector
                  /\ detectors'[b] = "loading" <=> detectors[b] = "loading"
  <2>1. local'.detector = None
    BY <1>9 DEF ClosesDetector, Typed, Locals
  <2>2. CASE local.detector = None
    BY <1>1, <1>2, <1>9, <2>1, <2>2 DEF ClosesDetector
  <2>3. CASE local.detector # None
    <3>1. \A c \in Builds : detectors'[c] = IF c = local.detector THEN "closed"
                                            ELSE detectors[c]
      BY <1>1, <1>9, <2>3 DEF ClosesDetector, Typed
    <3>2. QED
      BY <1>1, <1>2, <2>1, <2>3, <3>1
  <2>4. QED
    BY <2>2, <2>3
<1>10. CASE Stopped
  <2>1. /\ watch.pc = "stopping" /\ watch'.pc = "sleep"
        /\ watch'.build = watch.build /\ UNCHANGED <<running, closer>>
    BY <1>10 DEF Stopped, Typed, Watches
  <2>2. watch.build = None /\ running = FALSE /\ closer # "local"
          /\ closer # "ended"
    BY <2>1 DEF Holders, DetectorsHeld
  <2>3. QED
    BY <1>1, <1>2, <1>9, <1>10, <2>1, <2>2 DEF Stopped, Holders, DetectorsHeld
<1>11. CASE WatchCancelled
  <2>1. /\ watch.pc \in {"sleep", "starting"}
        /\ watch'.pc = "done" /\ watch'.build = None
        /\ UNCHANGED <<local, running, closer>>
    BY <1>11 DEF WatchCancelled
  <2>2. closer # "local" /\ closer # "ended"
          /\ (running = FALSE => local.detector = None)
    BY <2>1 DEF Holders, DetectorsHeld
  <2>3. CASE watch.pc = "sleep"
    BY <1>1, <1>2, <1>11, <2>1, <2>2, <2>3
    DEF WatchCancelled, Holders, DetectorsHeld
  <2>4. CASE watch.pc = "starting"
    <3>1. watch.build \in Builds
      BY <1>1, <2>4 DEF Holders
    <3>2. \A c \in Builds : detectors'[c] = IF c = watch.build THEN "disowned"
                                            ELSE detectors[c]
      BY <1>11, <2>4, <3>1 DEF WatchCancelled, Typed
    <3>3. QED
      BY <1>1, <1>2, <2>1, <2>2, <3>1, <3>2 DEF Holders, DetectorsHeld
  <2>5. QED
    BY <2>1, <2>3, <2>4
<1>12. CASE _close_when_built
  <2>1. PICK b \in Builds :
          /\ detectors[b] = "disowned"
          /\ detectors' = [detectors EXCEPT ![b] = "closed"]
    BY <1>12 DEF _close_when_built
  <2>2. \A c \in Builds : detectors'[c] = IF c = b THEN "closed"
                                          ELSE detectors[c]
    BY <2>1 DEF Typed
  <2>3. UNCHANGED <<local, running, watch, closer>>
    BY <1>12 DEF _close_when_built
  <2>4. QED
    BY <1>2, <2>1, <2>2, <2>3 DEF Holders, DetectorsHeld
<1>13. CASE aclose \/ _aguard
  <2>1. watch'.pc = watch.pc /\ watch'.build = watch.build
          /\ UNCHANGED <<detectors, local, running>>
    BY <1>13 DEF aclose, _aguard, Typed, Watches
  <2>2. \/ closer = "open" /\ closer' = "watch"
        \/ closer \in {"watch", "local"} /\ closer' = "forced"
    BY <1>13 DEF aclose, _aguard
  <2>3. QED
    BY <2>1, <2>2 DEF Holders, DetectorsHeld
<1>14. CASE ClosesRemote
  <2>1. watch.pc = "done" /\ UNCHANGED <<detectors, watch>> /\ closer = "watch"
    BY <1>14 DEF ClosesRemote
  <2>2. CASE closer' = "local" /\ running' = FALSE /\ StopsLoop
    <3>1. local'.detector = local.detector
      BY <2>2 DEF StopsLoop, Typed, Locals
    <3>2. QED
      BY <2>1, <2>2, <3>1 DEF Holders, DetectorsHeld
  <2>3. CASE ~running /\ closer' = "ended" /\ UNCHANGED <<running, local>>
    <3>1. local.detector = None
      BY <1>1, <2>1, <2>3 DEF Holders
    <3>2. QED
      BY <1>1, <2>1, <2>3, <3>1 DEF Holders, DetectorsHeld
  <2>4. QED
    BY <1>14, <2>2, <2>3 DEF ClosesRemote
<1>15. CASE ClosesLocal
  <2>1. closer = "local" /\ closer' = "ended" /\ UNCHANGED <<running, watch>>
    BY <1>15 DEF ClosesLocal
  <2>2. watch.pc = "done" /\ running = FALSE
    BY <2>1 DEF Holders
  <2>3. QED
    BY <1>1, <1>2, <1>9, <1>15, <2>1, <2>2
    DEF ClosesLocal, Holders, DetectorsHeld
<1>16. QED
  BY <1>4, <1>5, <1>6, <1>7, <1>8, <1>10, <1>11, <1>12, <1>13, <1>14, <1>15
  DEF Next

-----------------------------------------------------------------------------
\* A result that is seen has the identity it was seen with.
LEMMA SeesIdentity ==
  ASSUME NEW source \in Sources, NEW generation \in Nat,
         NEW number \in Numbers
  PROVE  LET seen == Sees(source, generation, number, TRUE)
         IN  /\ seen.identity = [source |-> source,
                                 generation |-> generation,
                                 sequence |-> number]
             /\ seen.identity # None
<1>1. Nat \in SUBSET Nat
  OBVIOUS
<1>2. QED
  BY <1>1, SeesTyped

\* The result each source keeps.
LEMMA RemoteKind ==
  ASSUME Typed
  PROVE  \/ /\ remote.result = Nothing /\ remote.result.identity = None
            /\ remote.result.fresh = FALSE
         \/ /\ remote.result.identity \in Identities("remote")
            /\ remote.result.identity # None
            /\ remote.result.identity.source = "remote"
            /\ remote.result.identity.generation \in Nat
            /\ remote.result.identity.sequence \in Nat
<1>1. "remote" \in Sources /\ Generations \in SUBSET Nat
  BY DEF Sources, Generations
<1>2. remote.result \in Results("remote", Generations)
  BY DEF Typed, Remotes
<1>3. \/ /\ remote.result = Nothing /\ remote.result.identity = None
         /\ remote.result.fresh = FALSE
      \/ /\ remote.result.identity \in [source : {"remote"},
                                       generation : Generations,
                                       sequence : Numbers]
         /\ remote.result.identity # None
         /\ remote.result.identity.source = "remote"
         /\ remote.result.identity.generation \in Generations
         /\ remote.result.identity.sequence \in Numbers
  BY <1>1, <1>2, ResultKinds
<1>4. QED
  BY <1>3 DEF Identities, Numbers, Generations

LEMMA LocalKind ==
  ASSUME Typed
  PROVE  \/ /\ local.result = Nothing /\ local.result.identity = None
            /\ local.result.fresh = FALSE
         \/ /\ local.result.identity \in Identities("local")
            /\ local.result.identity # None
            /\ local.result.identity.source = "local"
            /\ local.result.identity.generation \in Nat
            /\ local.result.identity.sequence \in Nat
<1>1. "local" \in Sources /\ Nat \in SUBSET Nat
  BY DEF Sources
<1>2. local.result \in Results("local", Nat)
  BY DEF Typed, Locals
<1>3. \/ /\ local.result = Nothing /\ local.result.identity = None
         /\ local.result.fresh = FALSE
      \/ /\ local.result.identity \in [source : {"local"}, generation : Nat,
                                      sequence : Numbers]
         /\ local.result.identity # None
         /\ local.result.identity.source = "local"
         /\ local.result.identity.generation \in Nat
         /\ local.result.identity.sequence \in Numbers
  BY <1>1, <1>2, ResultKinds
<1>4. QED
  BY <1>3 DEF Identities, Numbers

\* A result that is fresh is one: it has an identity of its source.
LEMMA Latest ==
  ASSUME Typed, Shown
  PROVE  \/ latest.identity = None /\ latest.fresh = FALSE
         \/ \E source \in Sources :
              /\ latest.identity \in Identities(source)
              /\ latest.identity # None /\ latest.identity.source = source
              /\ ~Older(latest.identity, selector.marks[source])
<1>2. "remote" \in Sources /\ "local" \in Sources
  BY DEF Sources
<1>3. CASE remote.connected
  <2>1. latest = remote.result
    BY <1>3 DEF latest
  <2>2. QED
    BY <1>2, <2>1, RemoteKind DEF Shown
<1>4. CASE ~remote.connected
  <2>1. latest = local.result
    BY <1>4 DEF latest
  <2>2. QED
    BY <1>2, <2>1, LocalKind DEF Shown
<1>5. QED
  BY <1>3, <1>4

\* What has not been shown is followed.
LEMMA Followed ==
  ASSUME Typed, Shown
  PROVE  FreshIsFollowed
<1>1. SUFFICES ASSUME latest.fresh,
               latest.identity # selector.marks[latest.identity.source]
               PROVE  select(selector, latest).current = latest
  BY DEF FreshIsFollowed
<1>2. PICK source \in Sources :
        /\ latest.identity \in Identities(source)
        /\ latest.identity # None /\ latest.identity.source = source
        /\ ~Older(latest.identity, selector.marks[source])
  BY <1>1, Latest
<1>3. selector.marks[source] # None =>
        /\ selector.marks[source] \in Identities(source)
        /\ selector.marks[source].source = source
  BY DEF Typed, Selectors, Marks, Identities, Shown
<1>4. ~Same(latest.identity, selector.marks[source])
  <2>1. SUFFICES ASSUME Same(latest.identity, selector.marks[source])
                 PROVE  latest.identity = selector.marks[source]
    BY <1>1, <1>2
  <2>2. /\ latest.identity.generation = selector.marks[source].generation
        /\ latest.identity.sequence = selector.marks[source].sequence
    BY <1>2, <1>3, <2>1 DEF Same, Older, Identities, Numbers
  <2>3. QED
    BY <1>2, <1>3, <2>1, <2>2 DEF Same, Identities
<1>5. ~Ignores(selector, latest)
  BY <1>1, <1>2, <1>4 DEF Ignores
<1>6. QED
  BY <1>2, <1>5 DEF select

\* What is no older than a result that is no older than a mark.
LEMMA Later ==
  ASSUME NEW mark, NEW a, NEW b,
         mark.generation \in Nat, mark.sequence \in Nat,
         a.generation \in Nat, a.sequence \in Nat,
         b.generation \in Nat, b.sequence \in Nat,
         ~Older(a, mark),
         \/ a.generation < b.generation
         \/ a.generation = b.generation /\ a.sequence <= b.sequence
  PROVE  ~Older(b, mark)
BY DEF Older

\* A step that leaves the sources' results and the marks alone.
LEMMA ShownAlone ==
  ASSUME Shown, UNCHANGED <<remote, selector>>,
         local'.result.identity = local.result.identity,
         local'.generation = local.generation,
         local'.detector = local.detector \/ local'.detector = None
  PROVE  Shown'
BY DEF Shown, Older

\* The selector is shown nothing newer than there is, and a source goes on
\* from there.
LEMMA ShownStep ==
  ASSUME Typed, LocalInStep, Holders, DetectorsHeld, Shown, Next
  PROVE  Shown'
<1>0. "remote" \in Sources /\ "local" \in Sources
        /\ Generations \in SUBSET Nat
  BY DEF Sources, Generations
<1>1. \A s \in Sources : selector.marks[s] # None =>
        /\ selector.marks[s] \in Identities(s)
        /\ selector.marks[s].generation \in Nat
        /\ selector.marks[s].sequence \in Numbers
  BY DEF Typed, Selectors, Marks, Identities, Shown
<1>2. CASE LinkDrops \/ LinkOpens \/ ClosesRemote
  <2>1. /\ remote'.result = remote.result
        /\ remote'.reconnections >= remote.reconnections
        /\ UNCHANGED selector
    <3>1. CASE LinkDrops \/ ClosesRemote
      BY <3>1 DEF LinkDrops, ClosesRemote, RemoteRest, Typed, Remotes,
         Generations
    <3>2. CASE LinkOpens
      <4>1. PICK again \in {0, 1} :
              remote' = [remote EXCEPT !.connected = TRUE,
                                       !.reconnections = @ + again]
        BY <3>2 DEF LinkOpens
      <4>2. remote.reconnections \in Nat
        BY DEF Typed, Remotes, Generations
      <4>3. /\ remote'.result = remote.result
            /\ remote'.reconnections = remote.reconnections + again
        BY <4>1 DEF Typed, Remotes
      <4>4. QED
        BY <3>2, <4>2, <4>3 DEF LinkOpens, RemoteRest
    <3>3. QED
      BY <1>2, <3>1, <3>2
  <2>2. /\ local'.result = local.result /\ local'.generation = local.generation
        /\ local'.detector = local.detector
    BY <1>2
    DEF LinkDrops, LinkOpens, ClosesRemote, RemoteRest, StopsLoop, Typed, Locals
  <2>3. remote.result.identity # None =>
          remote.result.identity.generation <= remote'.reconnections
    <3>1. remote.result.identity # None =>
            remote.result.identity.generation \in Nat
      BY RemoteKind
    <3>2. remote.reconnections \in Nat /\ remote'.reconnections \in Nat
      BY RestTyped DEF Typed, Remotes, Generations
    <3>3. QED
      BY <2>1, <3>1, <3>2 DEF Shown
  <2>4. QED
    BY <2>1, <2>2, <2>3 DEF Shown, Older
<1>3. CASE RemoteResult
  <2>1. PICK number \in Numbers :
          /\ Advances(remote.result, remote.reconnections, number)
          /\ remote' = [remote EXCEPT
               !.result = Sees("remote", remote.reconnections, number, TRUE)]
    BY <1>3 DEF RemoteResult
  <2>2. remote.reconnections \in Generations /\ remote.reconnections \in Nat
    BY DEF Typed, Remotes, Generations
  <2>3. /\ remote'.result.identity = [source |-> "remote",
                                      generation |-> remote.reconnections,
                                      sequence |-> number]
        /\ remote'.result.identity # None
        /\ remote'.reconnections = remote.reconnections
    <3>1. LET seen == Sees("remote", remote.reconnections, number, TRUE)
          IN  /\ seen.identity = [source |-> "remote",
                                  generation |-> remote.reconnections,
                                  sequence |-> number]
              /\ seen.identity # None
      BY <1>0, <2>2, SeesIdentity
    <3>2. remote'.result = Sees("remote", remote.reconnections, number, TRUE)
            /\ remote'.reconnections = remote.reconnections
      BY <2>1 DEF Typed, Remotes
    <3>3. QED
      BY <3>1, <3>2
  <2>4. \/ selector.marks["remote"] = None
        \/ /\ remote.result.identity # None
           /\ remote.result.identity.generation \in Nat
           /\ remote.result.identity.sequence \in Nat
           /\ ~Older(remote.result.identity, selector.marks["remote"])
    BY RemoteKind DEF Shown
  <2>5. ~Older(remote'.result.identity, selector.marks["remote"])
    <3>1. CASE selector.marks["remote"] = None
      BY <3>1 DEF Older
    <3>2. CASE selector.marks["remote"] # None
      <4>1. /\ selector.marks["remote"].generation \in Nat
            /\ selector.marks["remote"].sequence \in Nat
        BY <1>0, <1>1, <3>2 DEF Numbers
      <4>2. \/ remote.result.identity.generation < remote.reconnections
            \/ /\ remote.result.identity.generation = remote.reconnections
               /\ remote.result.identity.sequence <= number
        BY <2>1, <2>4, <3>2 DEF Advances
      <4>3. number \in Nat
        BY <2>1 DEF Numbers
      <4>4. /\ remote'.result.identity.generation = remote.reconnections
            /\ remote'.result.identity.sequence = number
        BY <2>3
      <4>5. QED
        BY <2>2, <2>4, <3>2, <4>1, <4>2, <4>3, <4>4, Later
    <3>3. QED
      BY <3>1, <3>2
  <2>6. UNCHANGED <<local, selector>>
    BY <1>3 DEF RemoteResult, RemoteRest
  <2>7. QED
    BY <2>2, <2>3, <2>5, <2>6 DEF Shown, Older
<1>4. CASE GoesStale
  <2>1. CASE UNCHANGED local /\ remote' = [remote EXCEPT !.result.fresh = FALSE]
    <3>1. remote'.result.identity = remote.result.identity
            /\ remote'.reconnections = remote.reconnections
      <4>1. remote.result.identity = [remote.result EXCEPT !.fresh = FALSE].identity
        BY DEF Typed, Remotes, Results, Nothing
      <4>2. QED
        BY <2>1, <4>1 DEF Typed, Remotes
    <3>2. QED
      BY <1>4, <2>1, <3>1 DEF GoesStale, Shown, Older
  <2>2. CASE UNCHANGED remote /\ local' = [local EXCEPT !.result.fresh = FALSE]
    <3>1. /\ local'.result.identity = local.result.identity
          /\ local'.generation = local.generation
          /\ local'.detector = local.detector
      <4>1. local.result.identity = [local.result EXCEPT !.fresh = FALSE].identity
        BY DEF Typed, Locals, Results, Nothing
      <4>2. QED
        BY <2>2, <4>1 DEF Typed, Locals
    <3>2. QED
      BY <1>4, <2>2, <3>1, ShownAlone DEF GoesStale
  <2>3. QED
    BY <1>4, <2>1, <2>2 DEF GoesStale
<1>5. CASE _run \/ check
  <2>1. /\ local'.result = local.result /\ local'.generation = local.generation
        /\ local'.detector = local.detector
    BY <1>5 DEF _run, check, StopsLoop, Typed, Locals
  <2>2. QED
    BY <1>5, <2>1, ShownAlone DEF _run, check
<1>6. CASE _look
  <2>1. local.detector # None /\ local.generation \in Nat
    BY <1>6 DEF _look, LocalInStep, Typed, Locals
  <2>2. UNCHANGED <<remote, selector>>
    BY <1>6 DEF _look
  <2>3. CASE local' = [local EXCEPT !.loop = "sleep"]
    BY <2>2, <2>3, ShownAlone DEF Typed, Locals
  <2>4. CASE \E number \in Numbers :
               /\ number = IF local.result = Nothing THEN 0
                           ELSE local.result.identity.sequence + 1
               /\ local' = [local EXCEPT !.loop = "sleep",
                    !.result = Sees("local", local.generation, number, TRUE)]
    <3>1. PICK number \in Numbers :
            /\ number = IF local.result = Nothing THEN 0
                        ELSE local.result.identity.sequence + 1
            /\ local' = [local EXCEPT !.loop = "sleep",
                 !.result = Sees("local", local.generation, number, TRUE)]
      BY <2>4
    <3>2. /\ local'.result.identity = [source |-> "local",
                                       generation |-> local.generation,
                                       sequence |-> number]
          /\ local'.result.identity # None
          /\ local'.generation = local.generation
          /\ local'.detector = local.detector
      <4> DEFINE seen == Sees("local", local.generation, number, TRUE)
      <4>1. /\ seen.identity = [source |-> "local",
                               generation |-> local.generation,
                               sequence |-> number]
            /\ seen.identity # None
        BY <1>0, <2>1, SeesTyped
      <4>2. local'.result = seen
        BY <3>1 DEF Typed, Locals
      <4>3. local'.generation = local.generation /\ local'.detector = local.detector
        BY <3>1 DEF Typed, Locals
      <4> HIDE DEF seen
      <4>4. local'.result.identity = seen.identity
        BY <4>2
      <4>5. QED
        BY <4>1, <4>3, <4>4
    <3>3. ~Older(local'.result.identity, selector.marks["local"])
      <4>1. CASE local.result.identity = None
        BY <1>0, <1>1, <2>1, <3>2, <4>1 DEF Shown, Older
      <4>2. CASE local.result.identity # None
        <5>1. /\ local.result # Nothing
              /\ local.result.identity.sequence \in Nat
              /\ local.result.identity.generation = local.generation
              /\ ~Older(local.result.identity, selector.marks["local"])
          <6>1. local.result # Nothing
            BY <4>2 DEF Nothing
          <6>2. local.result.identity.sequence \in Nat
            BY <4>2, LocalKind
          <6>3. QED
            BY <4>2, <6>1, <6>2 DEF Shown
        <5>2. number = local.result.identity.sequence + 1
          BY <3>1, <5>1
        <5>3. QED
          BY <1>0, <1>1, <2>1, <3>2, <5>1, <5>2 DEF Older, Numbers
      <4>3. QED
        BY <4>1, <4>2
    <3>4. QED
      BY <2>1, <2>2, <3>2, <3>3 DEF Shown, Older
  <2>5. QED
    BY <1>6, <2>3, <2>4 DEF _look
<1>7. CASE Started
  <2>1. UNCHANGED <<remote, selector>>
    BY <1>7 DEF Started
  <2>2. CASE UNCHANGED local
    BY <2>1, <2>2, ShownAlone
  <2>3. CASE start(watch.build)
    <3>1. /\ local'.result.identity = None
          /\ local'.generation = IF local.generation = None THEN 0
                                 ELSE local.generation + 1
      BY <2>3 DEF start, Nothing
    <3>2. local.generation = None \/ local.generation \in Nat
      BY DEF Typed, Locals
    <3>3. selector.marks["local"] # None =>
            /\ local'.generation # None
            /\ selector.marks["local"].generation < local'.generation
      BY <1>0, <1>1, <3>1, <3>2 DEF Shown
    <3>4. selector.marks["local"] # None =>
            selector.marks["local"].generation <= local'.generation
      BY <1>0, <1>1, <3>1, <3>2 DEF Shown
    <3>5. QED
      BY <2>1, <3>1, <3>3, <3>4 DEF Shown, Older
  <2>4. QED
    BY <1>7, <2>2, <2>3 DEF Started
<1>8. CASE Stopped \/ ClosesLocal
  <2>1. /\ UNCHANGED <<remote, selector>>
        /\ local' = [local EXCEPT !.detector = None, !.loop = "none",
                                  !.result = Nothing]
    BY <1>8 DEF Stopped, ClosesLocal, ClosesDetector
  <2>2. /\ local'.detector = None /\ local'.result.identity = None
        /\ local'.generation = local.generation
    BY <2>1 DEF Typed, Locals, Nothing
  <2>3. QED
    BY <2>1, <2>2 DEF Shown, Older
<1>9. CASE Tick
  <2>1. UNCHANGED <<remote, local>>
    BY <1>9 DEF Tick
  <2>2. CASE selector'.marks = selector.marks
    BY <2>1, <2>2 DEF Shown, Older
  <2>3. CASE /\ latest.identity # None
             /\ selector'.marks = [selector.marks EXCEPT
                  ![latest.identity.source] = latest.identity]
    <3>1. PICK source \in Sources :
            /\ latest.identity \in Identities(source)
            /\ latest.identity.source = source
      BY <2>3, Latest
    <3>2. \A s \in Sources : selector'.marks[s] =
            IF s = source THEN latest.identity ELSE selector.marks[s]
      BY <2>3, <3>1 DEF Typed, Selectors
    <3>3. latest.identity.generation \in Nat /\ latest.identity.sequence \in Nat
      BY <3>1 DEF Identities, Numbers
    <3>4. CASE source = "remote"
      <4>1. latest = remote.result
        <5>1. ~remote.connected => latest.identity = None
                \/ latest.identity.source = "local"
          BY LocalKind DEF latest
        <5>2. QED
          BY <2>3, <3>1, <3>4, <5>1 DEF latest
      <4>2. QED
        BY <1>0, <2>1, <2>3, <3>1, <3>2, <3>3, <3>4, <4>1 DEF Shown, Older
    <3>5. CASE source = "local"
      <4>1. latest = local.result
        <5>1. remote.connected => latest.identity = None
                \/ latest.identity.source = "remote"
          BY RemoteKind DEF latest
        <5>2. QED
          BY <2>3, <3>1, <3>5, <5>1 DEF latest
      <4>2. /\ local.result.identity # None
            /\ local.result.identity.generation = local.generation
        BY <2>3, <4>1 DEF Shown
      <4>3. local.generation \in Nat
        BY <3>3, <4>1, <4>2
      <4>4. QED
        BY <1>0, <2>1, <2>3, <3>1, <3>2, <3>3, <3>5, <4>1, <4>2, <4>3
        DEF Shown, Older
    <3>6. QED
      BY <3>4, <3>5 DEF Sources
  <2>4. QED
    BY <1>9, <2>2, <2>3 DEF Tick, select
<1>10. CASE reseed_motion
  <2>1. UNCHANGED <<remote, local>> /\ \A s \in Sources : selector'.marks[s] = None
    BY <1>10 DEF reseed_motion, Fresh
  <2>2. QED
    BY <1>0, <2>1 DEF Shown, Older
<1>11. CASE FallsBack \/ Holds \/ WatchCancelled \/ _close_when_built
             \/ aclose \/ _aguard
  BY <1>11, ShownAlone
  DEF FallsBack, Holds, WatchCancelled, _close_when_built, aclose, _aguard
<1>12. QED
  BY <1>2, <1>3, <1>4, <1>5, <1>6, <1>7, <1>8, <1>9, <1>10, <1>11 DEF Next

-----------------------------------------------------------------------------
\* The invariant holds before anything was built or seen.
LEMMA InvInit == Init => IInv
<1>1. SUFFICES ASSUME Init PROVE IInv
  OBVIOUS
<1>2. Nothing.identity = None /\ Nothing.fresh = FALSE
  BY DEF Nothing
<1>3. remote \in Remotes
  BY <1>1 DEF Init, Remotes, Results, Generations
<1>4. local \in Locals
  BY <1>1 DEF Init, Locals, Results
<1>5. watch \in Watches
  BY <1>1 DEF Init, Watches
<1>6. selector \in Selectors
  BY <1>1 DEF Init, Fresh, Selectors, Results, Marks
<1>7. Typed
  BY <1>1, <1>3, <1>4, <1>5, <1>6 DEF Init, Typed
<1>8. LocalInStep /\ Holders /\ DetectorsHeld
  BY <1>1 DEF Init, LocalInStep, Holders, DetectorsHeld, Builds
<1>9. Shown
  BY <1>1, <1>2 DEF Init, Shown, Fresh, Sources
<1>10. QED
  BY <1>7, <1>8, <1>9 DEF IInv

\* Every reachable state satisfies the invariant.
THEOREM Invariance == Spec => []IInv
<1>1. ASSUME IInv, Next PROVE IInv'
  <2>1. Typed' /\ LocalInStep'
    BY <1>1, LocalTyped, RestTyped DEF IInv, Typed
  <2>2. QED
    BY <1>1, <2>1, HeldStep, ShownStep DEF IInv
<1>2. IInv /\ UNCHANGED vars => IInv'
  BY DEF vars, IInv, Typed, LocalInStep, Holders, DetectorsHeld, Shown, Older
<1>3. QED
  BY InvInit, <1>1, <1>2, PTL DEF Spec

\* The variables stay in their types; a local source that is closed keeps
\* neither a loop nor a result.
THEOREM TypeCorrectness == Spec => []TypeOK
<1>1. ASSUME IInv PROVE TypeOK
  <2>1. remote \in [connected : BOOLEAN, reconnections : 0..MaxGeneration,
                    result : Results("remote", 0..MaxGeneration)]
    BY <1>1 DEF IInv, Typed, Remotes, Generations
  <2>2. local \in [detector : {None}, loop : {"none"},
                   generation : Nat \cup {None}, result : {Nothing}]
             \cup [detector : Builds, loop : {"sleep", "look", "cancelled"},
                   generation : Nat, result : Results("local", Nat)]
    <3>1. local \in Locals /\ LocalInStep
      BY <1>1 DEF IInv, Typed
    <3>2. CASE local.detector = None
      BY <3>1, <3>2 DEF Locals, LocalInStep
    <3>3. CASE local.detector # None
      BY <3>1, <3>3 DEF Locals, LocalInStep
    <3>4. QED
      BY <3>2, <3>3
  <2>3. watch \in [pc : {"sleep", "stopping", "done"}, build : {None},
                   cancel : BOOLEAN]
             \cup [pc : {"starting"}, build : Builds, cancel : BOOLEAN]
    BY <1>1 DEF IInv, Typed, Watches, Holders
  <2>4. selector.current \in Results("remote", Nat) \cup Results("local", Nat)
    BY <1>1 DEF IInv, Typed, Selectors
  <2>5. \A source \in Sources :
          selector.marks[source] \in {None} \cup Identities(source)
    BY <1>1 DEF IInv, Typed, Selectors, Marks, Identities, Shown
  <2>6. QED
    BY <1>1, <2>1, <2>2, <2>3, <2>4, <2>5 DEF IInv, Typed, TypeOK
<1>2. QED
  BY Invariance, <1>1, PTL

\* No inference session is leaked, shared or used after it is closed, for any
\* number of builds that fail, are cancelled or outlive their supervisor.
THEOREM DetectorsAreHeld == Spec => []DetectorsHeld
<1>1. IInv => DetectorsHeld
  BY DEF IInv
<1>2. QED
  BY Invariance, <1>1, PTL

\* What is seen is never hidden behind what was, for any number of restarts of
\* either source.
THEOREM FreshFollowed == Spec => []FreshIsFollowed
<1>1. IInv => FreshIsFollowed
  BY Followed DEF IInv
<1>2. QED
  BY Invariance, <1>1, PTL
=============================================================================
