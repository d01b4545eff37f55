--------------------------- MODULE UrlOwnerProofs ---------------------------
(***************************************************************************)
(* The safety properties of UrlOwner hold for every number of sources,     *)
(* configurations and attempts.  They are conjuncts of IInv, which every   *)
(* step preserves; what IInv adds says, for each place a transition, a     *)
(* restoration or aclose can stand at, which of the owner's references are *)
(* set and what the sources they name are doing there.                     *)
(***************************************************************************)
EXTENDS UrlOwner, TLAPS

\* Where the transition stands: a candidate and a retired source exist only
\* between the factory and the start, nothing is outstanding from the factory
\* on, and the restoration has ended.
TransitionPhase ==
  /\ tx.pc \notin {"retire", "start", "compensate"} => tx.cand = None
  /\ tx.pc # "retire" => tx.retired = None
  /\ tx.pc \notin {"idle", "join"} => rest.pc = "none"
  /\ tx.pc \in {"settle", "factory", "retire", "start", "compensate",
                "rebuild"} => partial = None
  /\ tx.pc \in {"factory", "retire", "start", "compensate", "rebuild",
                "restart"} => outstanding = {}
  /\ tx.pc \in {"retire", "start", "compensate", "rebuild"} => delegate = None
  /\ tx.pc = "retire" => tx.retired # None /\ tx.cand # tx.retired
  /\ tx.pc \in {"retire", "start"} /\ tx.cand # None =>
       src[tx.cand] # "gone" /\ addr[tx.cand] = tx.want.session
  /\ tx.pc = "start" /\ tx.cand # None => src[tx.cand] = "running"
  /\ tx.pc = "restart" => partial # None /\ addr[partial] = effective.session

\* Where the restoration stands: while there is one nothing is outstanding, so
\* its cancellation never interrupts a further close, and nothing is installed,
\* so a selection adopted beside an installed source overtakes none; and once a
\* transition waits for it it can no longer install.
RestorationPhase ==
  /\ rest.pc = "sleep" => rest.attempt < Attempts
  /\ rest.pc \in {"sleep", "rebuild"} => partial = None
  /\ rest.pc # "none" => outstanding = {}
  /\ rest.pc = "restart" =>
       partial # None /\ addr[partial] = rest.settings.session
  /\ rest.pc = "restart" \/ tx.pc \in {"join", "restart"} \/ partial = None
  /\ rest.pc # "none" /\ rest.cancelled => tx.pc = "join"
  /\ rest.pc # "none" /\ tx.pc = "join" => ~rest.current
  /\ rest.pc # "none" /\ rest.current => rest.settings = effective
  /\ rest.pc # "none" => delegate = None
  /\ partial # None => outstanding = {} /\ delegate = None

\* The references name sources that hold a session.
Held ==
  /\ delegate # None => src[delegate] = "running" /\ delegate \notin outstanding
  /\ partial # None => src[partial] = "running"

\* Where aclose stands: it has marked the owner, holds the lock, or has left
\* nothing running behind it.
ShutdownPhase ==
  /\ closer # "open" => closed
  /\ closer = "locked" => tx.pc \in {"join", "settle"}
  /\ tx.pc # "idle" => (tx.why = "close" <=> closer = "locked")
  /\ closer \in {"released", "ended"} => tx.pc = "idle" /\ rest.pc = "none"

IInv ==
  /\ TypeOK /\ NoOverlap /\ SourceMatchesEffective /\ NoSourceForgotten
  /\ TransitionPhase /\ RestorationPhase /\ ShutdownPhase /\ Held

USE UrlOwnerAssumption

-----------------------------------------------------------------------------
\* The constant records are of their types.
LEMMA IdleType ==
  /\ Unconfigured \in Configs
  /\ Idle \in Transitions
  /\ NoRest \in Restorations
<1>1. Unconfigured \in Configs
  BY DEF Unconfigured, Configs, Sessions
<1>2. QED
  BY <1>1 DEF Idle, NoRest, Transitions, Restorations

\* A configuration has a session.
LEMMA ConfigParts ==
  ASSUME NEW config \in Configs
  PROVE  config.session \in Sessions
BY DEF Configs

\* The initial states are of the right type.
LEMMA TypeInit == Init => TypeOK
<1> SUFFICES ASSUME Init PROVE TypeOK
  OBVIOUS
<1>1. /\ src \in [Sources -> {"gone", "built", "running"}]
      /\ addr \in [Sources -> Sessions]
      /\ delegate \in Sources \cup {None}
  BY ConfigParts DEF Init
<1>2. tx \in Transitions /\ rest \in Restorations
  BY IdleType DEF Init
<1>3. QED
  BY <1>1, <1>2 DEF Init, TypeOK

\* _discard closes some of the sources it is given and retains the others.
LEMMA Discarding ==
  ASSUME TypeOK, NEW sources \in SUBSET Sources, _discard(sources)
  PROVE  /\ src' \in [Sources -> {"gone", "built", "running"}]
         /\ outstanding' \subseteq Sources
         /\ outstanding \subseteq outstanding'
         /\ outstanding' \subseteq outstanding \cup sources
         /\ \A s \in Sources :
              \/ src'[s] = src[s] /\ (s \in sources => s \in outstanding')
              \/ s \in sources /\ src'[s] = "gone"
<1>1. PICK ended \in SUBSET sources : /\ src' = Closed(ended)
                                      /\ outstanding' = outstanding \cup (sources \ ended)
  BY DEF _discard
<1>2. QED
  BY <1>1 DEF Closed, TypeOK

\* _settle_outstanding closes some of the outstanding sources, no other.
LEMMA Settling ==
  ASSUME TypeOK, _settle_outstanding
  PROVE  /\ src' \in [Sources -> {"gone", "built", "running"}]
         /\ outstanding' \subseteq outstanding
         /\ \A s \in Sources :
              \/ src'[s] = src[s] /\ (s \in outstanding => s \in outstanding')
              \/ s \in outstanding /\ src'[s] = "gone"
<1>1. PICK ended \in SUBSET outstanding : /\ src' = Closed(ended)
                                          /\ outstanding' = outstanding \ ended
  BY DEF _settle_outstanding
<1>2. QED
  BY <1>1 DEF Closed, TypeOK

\* What is closed at each place is a set of sources: None is not in it.
LEMMA HeldTypes ==
  ASSUME IInv
  PROVE  /\ The(partial) \in SUBSET Sources
         /\ The(delegate) \in SUBSET Sources
         /\ The(tx.cand) \in SUBSET Sources
         /\ tx.pc = "retire" => tx.retired \in Sources
         /\ tx.pc = "restart" \/ rest.pc = "restart" => {partial} \in SUBSET Sources
BY DEF IInv, TypeOK, The, Transitions, TransitionPhase, RestorationPhase

\* The factory hands out no source that is still there.
LEMMA BuiltSources ==
  ASSUME NEW config, NEW s \in Built(config)
  PROVE  s = None \/ (s \in Sources /\ src[s] = "gone")
<1>1. CASE Opens(config)
  BY <1>1 DEF Built
<1>2. CASE ~Opens(config)
  BY <1>2 DEF Built
<1>3. QED
  BY <1>1, <1>2

\* The chain's own close: the installed source closes, or raises and is let go.
LEMMA ChainClosing ==
  ASSUME IInv, ChainCloses
  PROVE  /\ closer = "released" /\ closer' = "ended" /\ delegate' = None
         /\ src' \in [Sources -> {"gone", "built", "running"}]
         /\ \A s \in Sources : src'[s] \in {src[s], "gone"}
         /\ UNCHANGED <<addr, partial, outstanding, effective, durable, closed,
                        tx, rest, exhausted>>
<1>1. PICK ended \in SUBSET The(delegate) : src' = Closed(ended)
  BY DEF ChainCloses
<1>2. /\ src' \in [Sources -> {"gone", "built", "running"}]
      /\ \A s \in Sources : src'[s] \in {src[s], "gone"}
  BY <1>1 DEF Closed, IInv, TypeOK
<1>3. QED
  BY <1>2 DEF ChainCloses

\* The two ways an attempt ends, as facts about the variables they set.
LEMMA InlineEnding ==
  ASSUME TypeOK, NEW settled \in BOOLEAN, InlineEnds(settled)
  PROVE  /\ tx' = Idle /\ exhausted' \in BOOLEAN /\ rest' \in Restorations
         /\ tx'.pc = "idle" /\ tx'.cand = None /\ tx'.retired = None
         /\ \/ rest' = rest
            \/ /\ ~settled /\ ~closed
               /\ rest'.pc = "sleep" /\ rest'.attempt = 1 /\ Attempts # 1
               /\ rest'.current /\ ~rest'.cancelled
               /\ rest'.settings = effective
<1>1. [pc |-> "sleep", attempt |-> 1, current |-> TRUE, cancelled |-> FALSE,
       settings |-> effective] \in Restorations
  BY DEF TypeOK, Restorations
<1>2. QED
  BY <1>1 DEF InlineEnds, End, Idle, TypeOK

LEMMA AttemptEnding ==
  ASSUME TypeOK, NEW settled \in BOOLEAN, AttemptEnds(settled)
  PROVE  /\ tx' = tx /\ exhausted' \in BOOLEAN /\ rest' \in Restorations
         /\ \/ rest' = NoRest /\ rest'.pc = "none"
            \/ /\ ~settled /\ rest.attempt # Attempts /\ rest'.pc = "sleep"
               /\ rest'.attempt = rest.attempt /\ rest'.current = rest.current
               /\ rest'.cancelled = rest.cancelled
               /\ rest'.settings = rest.settings
<1>1. [rest EXCEPT !.pc = "sleep"] \in Restorations
  BY DEF TypeOK, Restorations
<1>2. ASSUME rest' = [rest EXCEPT !.pc = "sleep"]
      PROVE  /\ rest'.pc = "sleep" /\ rest'.attempt = rest.attempt
             /\ rest'.current = rest.current
             /\ rest'.cancelled = rest.cancelled
             /\ rest'.settings = rest.settings
  BY <1>2 DEF TypeOK, Restorations
<1>3. QED
  BY <1>1, <1>2, IdleType DEF AttemptEnds, NoRest, TypeOK

\* The outcomes of asking the factory, and of a start, one by one.
LEMMA InlineRebuildCases ==
  ASSUME IInv, InlineRebuild
  PROVE  /\ tx.pc = "rebuild"
         /\ UNCHANGED <<delegate, effective, durable, closed, closer>>
         /\ \/ /\ \E settled \in BOOLEAN : InlineEnds(settled)
               /\ UNCHANGED <<src, addr, partial, outstanding>>
            \/ \E s \in Sources :
                 /\ src[s] = "gone" /\ addr' = [addr EXCEPT ![s] = effective.session]
                 /\ \/ /\ InlineEnds(TRUE) /\ UNCHANGED partial
                       /\ \/ UNCHANGED <<src, outstanding>>
                          \/ /\ src' = [src EXCEPT ![s] = "built"]
                             /\ outstanding' = outstanding \cup {s}
                    \/ /\ delegate = None /\ ~closed
                       /\ partial' = s
                       /\ src' = [src EXCEPT ![s] = "running"]
                       /\ tx' = [tx EXCEPT !.pc = "restart"] /\ UNCHANGED rest
                       /\ UNCHANGED <<exhausted, outstanding>>
<1>1. CASE Opens(effective)
  BY <1>1 DEF InlineRebuild, Rebuild, Built, Ends, Starts
<1>2. CASE ~Opens(effective)
  BY <1>2 DEF InlineRebuild, Rebuild, Built, Ends, Starts
<1>3. QED
  BY <1>1, <1>2

\* The same of an attempt of the task, which its generation can overtake.
LEMMA AttemptRebuildCases ==
  ASSUME IInv, AttemptRebuild
  PROVE  /\ rest.pc = "rebuild"
         /\ UNCHANGED <<delegate, effective, durable, closed, closer>>
         /\ \/ /\ \E settled \in BOOLEAN : AttemptEnds(settled)
               /\ UNCHANGED <<src, addr, partial, outstanding>>
            \/ \E s \in Sources :
                 /\ src[s] = "gone" /\ addr' = [addr EXCEPT ![s] = rest.settings.session]
                 /\ \/ /\ AttemptEnds(TRUE) /\ UNCHANGED partial
                       /\ \/ UNCHANGED <<src, outstanding>>
                          \/ /\ src' = [src EXCEPT ![s] = "built"]
                             /\ outstanding' = outstanding \cup {s}
                    \/ /\ delegate = None /\ ~Superseded
                       /\ partial' = s
                       /\ src' = [src EXCEPT ![s] = "running"]
                       /\ rest' = [rest EXCEPT !.pc = "restart"] /\ UNCHANGED tx
                       /\ UNCHANGED <<exhausted, outstanding>>
<1>1. CASE Opens(rest.settings)
  BY <1>1 DEF AttemptRebuild, Rebuild, Built, Ends, Starts
<1>2. CASE ~Opens(rest.settings)
  BY <1>2 DEF AttemptRebuild, Rebuild, Built, Ends, Starts
<1>3. QED
  BY <1>1, <1>2

\* A start that ended: closed again, or installed.
LEMMA InlineRestartCases ==
  ASSUME IInv, InlineRestart
  PROVE  /\ tx.pc = "restart" /\ partial' = None
         /\ {partial} \in SUBSET Sources
         /\ UNCHANGED <<addr, effective, durable, closed, closer>>
         /\ \/ /\ _discard({partial}) /\ UNCHANGED delegate
               /\ \E settled \in BOOLEAN :
                    /\ InlineEnds(settled)
                    /\ settled \/ outstanding' = outstanding
            \/ /\ ~closed /\ delegate' = partial
               /\ UNCHANGED <<src, outstanding>>
               /\ InlineEnds(TRUE)
BY HeldTypes DEF InlineRestart, Restart, Ends

\* The same of an attempt of the task.
LEMMA AttemptRestartCases ==
  ASSUME IInv, AttemptRestart
  PROVE  /\ rest.pc = "restart" /\ partial' = None
         /\ {partial} \in SUBSET Sources
         /\ UNCHANGED <<addr, effective, durable, closed, closer>>
         /\ \/ /\ _discard({partial}) /\ UNCHANGED delegate
               /\ \E settled \in BOOLEAN :
                    /\ AttemptEnds(settled)
                    /\ settled \/ outstanding' = outstanding
            \/ /\ ~Superseded /\ delegate' = partial
               /\ UNCHANGED <<src, outstanding>>
               /\ AttemptEnds(TRUE)
BY HeldTypes DEF AttemptRestart, Restart, Ends

\* Every step keeps the types, from a state of the invariant.
LEMMA TypeStep ==
  ASSUME IInv, [Next]_vars
  PROVE  TypeOK'
<1>0. TypeOK /\ TransitionPhase /\ RestorationPhase
  BY DEF IInv
<1> DEFINE SourcesOK == /\ src \in [Sources -> {"gone", "built", "running"}]
                        /\ addr \in [Sources -> Sessions]
                        /\ delegate \in Sources \cup {None}
                        /\ partial \in Sources \cup {None}
                        /\ outstanding \subseteq Sources
<1>1. CASE Join
  <2>1. SourcesOK'
    BY <1>0, <1>1, Discarding, HeldTypes DEF Join, TypeOK
  <2>2. tx' \in Transitions
    BY <1>0, <1>1, IdleType DEF Join, TypeOK, Transitions
  <2>3. QED
    BY <1>0, <1>1, <2>1, <2>2 DEF Join, TypeOK
<1>2. CASE Settle
  <2>1. SourcesOK'
    BY <1>0, <1>2, Settling DEF Settle, TypeOK
  <2>2. tx' \in Transitions
    BY <1>0, <1>2, IdleType DEF Settle, TypeOK, End, Transitions
  <2>3. QED
    BY <1>0, <1>2, <2>1, <2>2 DEF Settle, TypeOK
<1>3. CASE PrepareFails
  <2>1. SourcesOK'
    BY <1>0, <1>3 DEF PrepareFails, TypeOK
  <2>2. tx' \in Transitions
    BY <1>0, <1>3, IdleType DEF PrepareFails, TypeOK, End
  <2>3. QED
    BY <1>0, <1>3, <2>1, <2>2 DEF PrepareFails, TypeOK
<1>4. CASE Prepare
  <2>1. SourcesOK'
    <3>1. tx.want.session \in Sessions
      BY <1>0, ConfigParts DEF TypeOK, Transitions
    <3>2. PICK s \in Built(tx.want) :
            addr' = IF s = None THEN addr
                    ELSE [addr EXCEPT ![s] = tx.want.session]
      BY <1>4 DEF Prepare
    <3>3. addr' \in [Sources -> Sessions]
      BY <1>0, <3>1, <3>2 DEF TypeOK
    <3>4. QED
      BY <1>0, <1>4, <3>3 DEF Prepare, TypeOK, Built
  <2>2. tx' \in Transitions
    <3>1. PICK s \in Sources \cup {None} :
            \/ tx' = Idle
            \/ tx' = [tx EXCEPT !.cand = s, !.retired = delegate,
                       !.pc = IF delegate = None THEN "start" ELSE "retire"]
      BY <1>0, <1>4 DEF Prepare, Built, End
    <3>2. QED
      BY <1>0, <3>1, IdleType DEF TypeOK, Transitions
  <2>3. QED
    BY <1>0, <1>4, <2>1, <2>2 DEF Prepare, TypeOK
<1>5. CASE Retire
  <2>1. SourcesOK'
    BY <1>0, <1>5, HeldTypes DEF Retire, TypeOK, The, Closed, Transitions
  <2>2. tx' \in Transitions
    BY <1>0, <1>5, IdleType DEF Retire, TypeOK, End, Transitions
  <2>3. QED
    BY <1>0, <1>5, <2>1, <2>2 DEF Retire, TypeOK
<1>6. CASE Commit
  <2>1. SourcesOK'
    BY <1>0, <1>6 DEF Commit, TypeOK, Transitions
  <2>2. tx' \in Transitions
    BY <1>0, <1>6, IdleType DEF Commit, TypeOK, End
  <2>3. QED
    BY <1>0, <1>6, <2>1, <2>2 DEF Commit, TypeOK, Transitions
<1>7. CASE StartOrSaveFails
  <2>1. SourcesOK'
    BY <1>0, <1>7 DEF StartOrSaveFails, TypeOK
  <2>2. tx' \in Transitions
    BY <1>0, <1>7, IdleType DEF StartOrSaveFails, TypeOK, Transitions
  <2>3. QED
    BY <1>0, <1>7, <2>1, <2>2 DEF StartOrSaveFails, TypeOK
<1>8. CASE StartOvertaken
  <2>1. SourcesOK'
    BY <1>0, <1>8, Discarding, HeldTypes DEF StartOvertaken, TypeOK
  <2>2. tx' \in Transitions
    BY <1>0, <1>8, IdleType DEF StartOvertaken, TypeOK, End
  <2>3. QED
    BY <1>0, <1>8, <2>1, <2>2 DEF StartOvertaken, TypeOK
<1>9. CASE Compensate
  <2>1. SourcesOK'
    BY <1>0, <1>9, Discarding, HeldTypes DEF Compensate, TypeOK
  <2>2. tx' \in Transitions
    BY <1>0, <1>9, IdleType DEF Compensate, TypeOK, Transitions
  <2>3. QED
    BY <1>0, <1>9, <2>1, <2>2 DEF Compensate, TypeOK
<1>10. CASE InlineRebuild
  <2>1. SourcesOK'
    <3>1. src' \in [Sources -> {"gone", "built", "running"}]
      BY <1>0, <1>10, InlineRebuildCases DEF TypeOK
    <3>2. addr' \in [Sources -> Sessions]
      <4>1. effective.session \in Sessions
        BY <1>0, ConfigParts DEF TypeOK
      <4>2. QED
        BY <1>0, <1>10, <4>1, InlineRebuildCases DEF TypeOK
    <3>3. QED
      BY <1>0, <1>10, InlineRebuildCases, <3>1, <3>2 DEF TypeOK
  <2>2. tx' \in Transitions
    <3>1. [tx EXCEPT !.pc = "restart"] \in Transitions
      BY <1>0 DEF TypeOK, Transitions
    <3>2. \/ tx' = [tx EXCEPT !.pc = "restart"]
          \/ \E settled \in BOOLEAN : InlineEnds(settled)
      BY <1>0, <1>10, InlineRebuildCases
    <3>3. QED
      BY <1>0, <3>1, <3>2, InlineEnding, IdleType
  <2>3. rest' \in Restorations
    BY <1>0, <1>10, InlineRebuildCases, InlineEnding DEF TypeOK
  <2>4. exhausted' \in BOOLEAN
    BY <1>0, <1>10, InlineRebuildCases, InlineEnding DEF TypeOK
  <2>5. QED
    BY <1>0, <1>10, InlineRebuildCases, <2>1, <2>2, <2>3, <2>4 DEF TypeOK
<1>11. CASE InlineRestart
  <2>1. SourcesOK'
    BY <1>0, <1>11, InlineRestartCases, Discarding DEF TypeOK
  <2>2. tx' \in Transitions /\ rest' \in Restorations /\ exhausted' \in BOOLEAN
    BY <1>0, <1>11, InlineRestartCases, InlineEnding, IdleType DEF TypeOK
  <2>3. QED
    BY <1>0, <1>11, InlineRestartCases, <2>1, <2>2 DEF TypeOK
<1>12. CASE AcloseSettles
  <2>1. SourcesOK'
    BY <1>0, <1>12, Settling DEF AcloseSettles, TypeOK
  <2>2. tx' \in Transitions
    BY <1>0, <1>12, IdleType DEF AcloseSettles, TypeOK, End
  <2>3. QED
    BY <1>0, <1>12, <2>1, <2>2 DEF AcloseSettles, TypeOK
<1>13. CASE AttemptBegins
  <2>1. SourcesOK'
    BY <1>0, <1>13, Settling DEF AttemptBegins, TypeOK
  <2>2. rest' \in Restorations
    <3>1. CASE rest' = NoRest
      BY <1>0, <3>1, IdleType
    <3>2. CASE rest' = [rest EXCEPT !.pc = "rebuild", !.attempt = @ + 1]
      <4>1. rest.attempt + 1 \in 0..Attempts
        BY <1>0, <1>13
        DEF AttemptBegins, TypeOK, Restorations, RestorationPhase
      <4>2. QED
        BY <1>0, <3>2, <4>1 DEF TypeOK, Restorations
    <3>3. QED
      BY <1>0, <1>13, <3>1, <3>2 DEF AttemptBegins
  <2>3. QED
    BY <1>0, <1>13, <2>1, <2>2 DEF AttemptBegins, TypeOK
<1>14. CASE AttemptRebuild
  <2>1. SourcesOK'
    <3>1. src' \in [Sources -> {"gone", "built", "running"}]
      BY <1>0, <1>14, AttemptRebuildCases DEF TypeOK
    <3>2. addr' \in [Sources -> Sessions]
      <4>1. rest.settings.session \in Sessions
        BY <1>0, ConfigParts DEF TypeOK, Restorations
      <4>2. QED
        BY <1>0, <1>14, <4>1, AttemptRebuildCases DEF TypeOK
    <3>3. QED
      BY <1>0, <1>14, AttemptRebuildCases, <3>1, <3>2 DEF TypeOK
  <2>2. tx' \in Transitions
    BY <1>0, <1>14, AttemptRebuildCases, AttemptEnding, IdleType DEF TypeOK
  <2>3. rest' \in Restorations
    BY <1>0, <1>14, AttemptRebuildCases, AttemptEnding DEF TypeOK, Restorations
  <2>4. exhausted' \in BOOLEAN
    BY <1>0, <1>14, AttemptRebuildCases, AttemptEnding DEF TypeOK
  <2>5. QED
    BY <1>0, <1>14, AttemptRebuildCases, <2>1, <2>2, <2>3, <2>4 DEF TypeOK
<1>15. CASE AttemptRestart
  <2>1. SourcesOK'
    BY <1>0, <1>15, AttemptRestartCases, Discarding DEF TypeOK
  <2>2. tx' \in Transitions /\ rest' \in Restorations /\ exhausted' \in BOOLEAN
    BY <1>0, <1>15, AttemptRestartCases, AttemptEnding, IdleType DEF TypeOK
  <2>3. QED
    BY <1>0, <1>15, AttemptRestartCases, <2>1, <2>2 DEF TypeOK
<1>16. CASE RestorationCancelled
  <2>1. SourcesOK'
    BY <1>0, <1>16 DEF RestorationCancelled, TypeOK
  <2>2. rest' \in Restorations
    BY <1>0, <1>16, IdleType DEF RestorationCancelled, TypeOK
  <2>3. QED
    BY <1>0, <1>16, <2>1, <2>2 DEF RestorationCancelled, TypeOK
<1>17. CASE aclose
  <2>1. SourcesOK'
    BY <1>0, <1>17 DEF aclose, TypeOK
  <2>2. tx' \in Transitions
    BY <1>0, <1>17, IdleType DEF aclose, TypeOK, Idle, Transitions, Configs
  <2>3. rest' \in Restorations
    BY <1>0, <1>17, IdleType
    DEF aclose, TypeOK, CancelRestoration, Restorations
  <2>4. QED
    BY <1>0, <1>17, <2>1, <2>2, <2>3 DEF aclose, TypeOK
<1>18. CASE ChainCloses
  <2>1. SourcesOK'
    BY <1>0, <1>18, ChainClosing DEF TypeOK
  <2>2. QED
    BY <1>0, <1>18, <2>1 DEF ChainCloses, TypeOK
<1>19. CASE MarkClosed
  <2>1. SourcesOK'
    BY <1>0, <1>19 DEF MarkClosed, TypeOK
  <2>2. QED
    BY <1>0, <1>19, <2>1 DEF MarkClosed, TypeOK
<1>20. ASSUME NEW config \in Configs, Submit(config) PROVE TypeOK'
  <2>1. tx' \in Transitions
    BY <1>0, <1>20, IdleType DEF Submit, Transitions
  <2>2. rest' \in Restorations
    BY <1>0, <1>20 DEF Submit, CancelRestoration, Restorations, TypeOK
  <2>3. QED
    BY <1>0, <1>20, <2>1, <2>2 DEF Submit, TypeOK
<1>21. ASSUME NEW config \in Configs, apply_settings_change(config) PROVE TypeOK'
  <2>1. tx' \in Transitions
    BY <1>0, <1>21, IdleType DEF apply_settings_change, TypeOK, Transitions
  <2>2. rest' \in Restorations
    BY <1>0, <1>21
    DEF apply_settings_change, CancelRestoration, Restorations, TypeOK
  <2>3. QED
    BY <1>0, <1>21, <2>1, <2>2 DEF apply_settings_change, TypeOK
<1>22. CASE UNCHANGED vars
  BY <1>0, <1>22 DEF vars, TypeOK
<1>23. QED
  BY <1>0, <1>1, <1>2, <1>3, <1>4, <1>5, <1>6, <1>7, <1>8, <1>9, <1>10, <1>11,
     <1>12, <1>13, <1>14, <1>15, <1>16, <1>17, <1>18, <1>19, <1>20, <1>21, <1>22
  DEF Next, Transition, Restoration, Shutdown

\* Every step keeps the invariant.
LEMMA SafetyStep ==
  ASSUME IInv, [Next]_vars, TypeOK'
  PROVE  IInv'
<1> DEFINE Safe == NoOverlap /\ SourceMatchesEffective /\ NoSourceForgotten
           Phases == TransitionPhase /\ RestorationPhase /\ ShutdownPhase /\ Held
<1>0. TypeOK /\ TypeOK' /\ Safe /\ Phases /\ IInv
  BY DEF IInv
<1>1. CASE Join
  <2>1. Safe'
    BY <1>0, <1>1, Discarding, HeldTypes
    DEF Join, TypeOK, NoOverlap, SourceMatchesEffective, NoSourceForgotten,
        TransitionPhase, RestorationPhase, ShutdownPhase, Held, Transitions,
        The
  <2>2. Phases'
    BY <1>0, <1>1, Discarding, HeldTypes
    DEF Join, TypeOK, NoOverlap, SourceMatchesEffective, NoSourceForgotten,
        TransitionPhase, RestorationPhase, ShutdownPhase, Held, Transitions,
        The
  <2>3. QED
    BY <1>0, <2>1, <2>2 DEF IInv
<1>2. CASE Settle
  <2>1. Safe'
    <3>1. NoOverlap'
      BY <1>0, <1>2, Settling
      DEF Settle, TypeOK, NoOverlap, SourceMatchesEffective,
          NoSourceForgotten, TransitionPhase, RestorationPhase, ShutdownPhase,
          Held, End, Idle, Transitions
    <3>2. SourceMatchesEffective'
      BY <1>0, <1>2, Settling
      DEF Settle, TypeOK, NoOverlap, SourceMatchesEffective,
          NoSourceForgotten, TransitionPhase, RestorationPhase, ShutdownPhase,
          Held, End, Idle, Transitions
    <3>3. NoSourceForgotten'
      BY <1>0, <1>2, Settling
      DEF Settle, TypeOK, NoOverlap, SourceMatchesEffective,
          NoSourceForgotten, TransitionPhase, RestorationPhase, ShutdownPhase,
          Held, End, Idle, Transitions
    <3>4. QED
      BY <3>1, <3>2, <3>3
  <2>2. Phases'
    BY <1>0, <1>2, Settling
    DEF Settle, TypeOK, NoOverlap, SourceMatchesEffective, NoSourceForgotten,
        TransitionPhase, RestorationPhase, ShutdownPhase, Held, End, Idle,
        Transitions
  <2>3. QED
    BY <1>0, <2>1, <2>2 DEF IInv
<1>3. CASE PrepareFails
  <2>1. Safe'
    BY <1>0, <1>3
    DEF PrepareFails, TypeOK, NoOverlap, SourceMatchesEffective,
        NoSourceForgotten, TransitionPhase, RestorationPhase, ShutdownPhase,
        Held, End, Idle
  <2>2. Phases'
    BY <1>0, <1>3
    DEF PrepareFails, TypeOK, NoOverlap, SourceMatchesEffective,
        NoSourceForgotten, TransitionPhase, RestorationPhase, ShutdownPhase,
        Held, End, Idle
  <2>3. QED
    BY <1>0, <2>1, <2>2 DEF IInv
<1>4. CASE Prepare
  <2>1. PICK s \in Built(tx.want) :
          LET made == [src EXCEPT ![s] = "built"] IN
          /\ addr' = IF s = None THEN addr
                     ELSE [addr EXCEPT ![s] = tx.want.session]
          /\ \/ /\ closed /\ tx' = Idle /\ src' = src
                /\ UNCHANGED <<outstanding, delegate>>
             \/ /\ closed /\ tx' = Idle /\ s # None /\ src' = made
                /\ outstanding' = outstanding \cup {s} /\ UNCHANGED delegate
             \/ tx' = Idle /\ UNCHANGED <<src, outstanding, delegate>>
             \/ /\ delegate' = None /\ UNCHANGED outstanding
                /\ src' = IF s = None THEN src
                          ELSE IF delegate = None THEN [src EXCEPT ![s] = "running"]
                          ELSE made
                /\ tx' = [tx EXCEPT !.cand = s, !.retired = delegate,
                            !.pc = IF delegate = None THEN "start" ELSE "retire"]
    BY <1>4 DEF Prepare, End
  <2>2. s = None \/ (s \in Sources /\ src[s] = "gone")
    BY <2>1, BuiltSources
  <2>3. /\ tx.pc = "factory"
        /\ UNCHANGED <<partial, effective, durable, closed, closer, rest,
                       exhausted>>
    BY <1>4 DEF Prepare
  <2>4. /\ outstanding = {} /\ partial = None /\ tx.cand = None
        /\ tx.retired = None /\ rest.pc = "none" /\ closer # "ended"
    BY <1>0, <2>3 DEF TransitionPhase, ShutdownPhase
  <2> DEFINE Refused == tx'.pc = "idle" /\ tx'.cand = None /\ tx'.retired = None
  <2>5. \/ Refused /\ UNCHANGED <<src, outstanding, delegate>>
        \/ /\ Refused /\ s # None /\ src' = [src EXCEPT ![s] = "built"]
           /\ outstanding' = outstanding \cup {s} /\ UNCHANGED delegate
        \/ /\ delegate' = None /\ UNCHANGED outstanding
           /\ tx'.cand = s /\ tx'.retired = delegate /\ tx'.want = tx.want
           /\ tx'.why = tx.why
           /\ \/ tx'.pc = "start" /\ delegate = None
                 /\ src' = IF s = None THEN src ELSE [src EXCEPT ![s] = "running"]
              \/ tx'.pc = "retire" /\ delegate # None
                 /\ src' = IF s = None THEN src ELSE [src EXCEPT ![s] = "built"]
    <3>1. ASSUME tx' = Idle PROVE Refused
      BY <3>1 DEF Idle
    <3>2. ASSUME tx' = [tx EXCEPT !.cand = s, !.retired = delegate,
                          !.pc = IF delegate = None THEN "start" ELSE "retire"]
          PROVE  /\ tx'.cand = s /\ tx'.retired = delegate /\ tx'.want = tx.want
                 /\ tx'.why = tx.why
                 /\ tx'.pc = IF delegate = None THEN "start" ELSE "retire"
      BY <1>0, <3>2 DEF TypeOK, Transitions
    <3>3. QED
      BY <2>1, <3>1, <3>2
  <2>6. SourceMatchesEffective'
    BY <1>0, <2>1, <2>2, <2>3 DEF TypeOK, SourceMatchesEffective, Held
  <2>7. NoOverlap'
    BY <1>0, <2>1, <2>2, <2>3, <2>4 DEF TypeOK, NoOverlap, NoSourceForgotten
  <2>8. NoSourceForgotten'
    BY <1>0, <2>2, <2>3, <2>4, <2>5 DEF TypeOK, NoSourceForgotten
  <2>9. TransitionPhase'
    BY <1>0, <2>1, <2>2, <2>3, <2>4, <2>5 DEF TypeOK, TransitionPhase, Held
  <2>10. (RestorationPhase /\ ShutdownPhase /\ Held)'
    BY <1>0, <2>1, <2>2, <2>3, <2>4, <2>5
    DEF TypeOK, RestorationPhase, ShutdownPhase, Held
  <2>11. QED
    BY <1>0, <2>6, <2>7, <2>8, <2>9, <2>10 DEF IInv
<1>5. CASE Retire
  <2>1. /\ tx.pc = "retire" /\ delegate = None /\ partial = None /\ outstanding = {}
        /\ tx.retired \in Sources /\ tx.cand # tx.retired /\ rest.pc = "none"
        /\ closer # "ended"
    BY <1>0, <1>5 DEF Retire, TransitionPhase, ShutdownPhase, TypeOK, Transitions
  <2>2. UNCHANGED <<addr, delegate, partial, effective, durable, closed,
                    closer, rest, exhausted>>
    BY <1>5 DEF Retire
  <2>3. \/ /\ src' = [s \in Sources |-> IF s = tx.retired THEN "gone"
                                        ELSE IF s = tx.cand THEN "running" ELSE src[s]]
           /\ tx' = [tx EXCEPT !.pc = "start", !.retired = None]
           /\ UNCHANGED outstanding
        \/ /\ tx' = Idle
           /\ \A s \in Sources :
                \/ /\ src'[s] = src[s]
                   /\ s \in {tx.cand, tx.retired} => s \in outstanding'
                \/ src'[s] = "gone"
    <3>1. CASE tx' = Idle /\ src' # [s \in Sources |-> IF s = tx.retired THEN "gone"
                                        ELSE IF s = tx.cand THEN "running" ELSE src[s]]
      BY <1>0, <1>5, <2>1, <3>1 DEF Retire, Closed, The, TypeOK, Transitions
    <3>2. QED
      BY <1>0, <1>5, <2>1, <3>1
      DEF Retire, Closed, The, TypeOK, Transitions, End
  <2>4. ASSUME tx' = [tx EXCEPT !.pc = "start", !.retired = None]
        PROVE  /\ tx'.pc = "start" /\ tx'.cand = tx.cand /\ tx'.retired = None
               /\ tx'.want = tx.want /\ tx'.why = tx.why
    BY <1>0, <2>4 DEF TypeOK, Transitions
  <2>5. ASSUME tx' = Idle
        PROVE  tx'.pc = "idle" /\ tx'.cand = None /\ tx'.retired = None
    BY <2>5 DEF Idle
  <2>6. SourceMatchesEffective'
    BY <1>0, <2>2 DEF SourceMatchesEffective
  <2>7. NoOverlap'
    BY <1>0, <2>1, <2>3 DEF TypeOK, NoOverlap, NoSourceForgotten
  <2>8. NoSourceForgotten'
    BY <1>0, <2>1, <2>2, <2>3, <2>4, <2>5 DEF TypeOK, NoSourceForgotten
  <2>9. TransitionPhase'
    BY <1>0, <2>1, <2>2, <2>3, <2>4, <2>5
    DEF TypeOK, TransitionPhase, Transitions
  <2>10. (RestorationPhase /\ ShutdownPhase /\ Held)'
    BY <1>0, <2>1, <2>2, <2>3, <2>4, <2>5
    DEF TypeOK, RestorationPhase, ShutdownPhase, Held
  <2>11. QED
    BY <1>0, <2>6, <2>7, <2>8, <2>9, <2>10 DEF IInv
<1>6. CASE Commit
  <2>1. Safe'
    BY <1>0, <1>6
    DEF Commit, TypeOK, NoOverlap, SourceMatchesEffective, NoSourceForgotten,
        TransitionPhase, RestorationPhase, ShutdownPhase, Held, End, Idle,
        Transitions
  <2>2. Phases'
    BY <1>0, <1>6
    DEF Commit, TypeOK, NoOverlap, SourceMatchesEffective, NoSourceForgotten,
        TransitionPhase, RestorationPhase, ShutdownPhase, Held, End, Idle,
        Transitions
  <2>3. QED
    BY <1>0, <2>1, <2>2 DEF IInv
<1>7. CASE StartOrSaveFails
  <2>1. Safe'
    BY <1>0, <1>7
    DEF StartOrSaveFails, TypeOK, NoOverlap, SourceMatchesEffective,
        NoSourceForgotten, TransitionPhase, RestorationPhase, ShutdownPhase,
        Held, Transitions
  <2>2. Phases'
    BY <1>0, <1>7
    DEF StartOrSaveFails, TypeOK, NoOverlap, SourceMatchesEffective,
        NoSourceForgotten, TransitionPhase, RestorationPhase, ShutdownPhase,
        Held, Transitions
  <2>3. QED
    BY <1>0, <2>1, <2>2 DEF IInv
<1>8. CASE StartOvertaken
  <2>1. Safe'
    BY <1>0, <1>8, Discarding, HeldTypes
    DEF StartOvertaken, TypeOK, NoOverlap, SourceMatchesEffective,
        NoSourceForgotten, TransitionPhase, RestorationPhase, ShutdownPhase,
        Held, End, Idle, The
  <2>2. Phases'
    BY <1>0, <1>8, Discarding, HeldTypes
    DEF StartOvertaken, TypeOK, NoOverlap, SourceMatchesEffective,
        NoSourceForgotten, TransitionPhase, RestorationPhase, ShutdownPhase,
        Held, End, Idle, The
  <2>3. QED
    BY <1>0, <2>1, <2>2 DEF IInv
<1>9. CASE Compensate
  <2>1. Safe'
    BY <1>0, <1>9, Discarding, HeldTypes
    DEF Compensate, TypeOK, NoOverlap, SourceMatchesEffective,
        NoSourceForgotten, TransitionPhase, RestorationPhase, ShutdownPhase,
        Held, Idle, Transitions, The
  <2>2. Phases'
    BY <1>0, <1>9, Discarding, HeldTypes
    DEF Compensate, TypeOK, NoOverlap, SourceMatchesEffective,
        NoSourceForgotten, TransitionPhase, RestorationPhase, ShutdownPhase,
        Held, Idle, Transitions, The
  <2>3. QED
    BY <1>0, <2>1, <2>2 DEF IInv
<1>10. CASE InlineRebuild
  <2>1. /\ tx.pc = "rebuild" /\ rest.pc = "none" /\ partial = None
        /\ delegate = None
        /\ outstanding = {} /\ tx.cand = None /\ tx.retired = None
        /\ closer \notin {"released", "ended"}
    BY <1>0, <1>10, InlineRebuildCases
    DEF TransitionPhase, RestorationPhase, ShutdownPhase
  <2>2. UNCHANGED <<delegate, effective, durable, closed, closer>>
    BY <1>0, <1>10, InlineRebuildCases
  <2>3. ASSUME NEW settled \in BOOLEAN, InlineEnds(settled), UNCHANGED partial,
               \/ UNCHANGED <<src, addr, outstanding>>
               \/ \E s \in Sources :
                    /\ settled /\ src[s] = "gone"
                    /\ addr' = [addr EXCEPT ![s] = effective.session]
                    /\ \/ UNCHANGED <<src, outstanding>>
                       \/ /\ src' = [src EXCEPT ![s] = "built"]
                          /\ outstanding' = outstanding \cup {s}
        PROVE  IInv'
    <3>1. /\ tx'.pc = "idle" /\ tx'.cand = None /\ tx'.retired = None
          /\ \/ rest' = rest
             \/ /\ ~closed /\ rest'.pc = "sleep" /\ rest'.attempt < Attempts
                /\ rest'.current /\ ~rest'.cancelled
                /\ rest'.settings = effective /\ outstanding' = outstanding
      BY <1>0, <2>3, InlineEnding DEF TypeOK, Restorations
    <3>2. NoOverlap'
      BY <1>0, <2>3 DEF TypeOK, NoOverlap
    <3>3. SourceMatchesEffective'
      BY <1>0, <2>2, <2>3 DEF TypeOK, SourceMatchesEffective, Held
    <3>4. NoSourceForgotten'
      BY <1>0, <2>1, <2>2, <2>3, <3>1 DEF TypeOK, NoSourceForgotten
    <3>5. TransitionPhase'
      BY <1>0, <2>1, <2>2, <2>3, <3>1 DEF TypeOK, TransitionPhase
    <3>6. RestorationPhase'
      BY <1>0, <2>1, <2>2, <2>3, <3>1 DEF TypeOK, RestorationPhase
    <3>7. ShutdownPhase'
      BY <1>0, <2>1, <2>2, <3>1 DEF ShutdownPhase
    <3>8. Held'
      BY <1>0, <2>1, <2>2, <2>3 DEF TypeOK, Held
    <3>9. QED
      BY <1>0, <3>2, <3>3, <3>4, <3>5, <3>6, <3>7, <3>8 DEF IInv
  <2>4. ASSUME NEW s \in Sources, src[s] = "gone",
               addr' = [addr EXCEPT ![s] = effective.session],
               delegate = None, ~closed, partial' = s,
               src' = [src EXCEPT ![s] = "running"],
               tx' = [tx EXCEPT !.pc = "restart"] /\ UNCHANGED rest,
               UNCHANGED outstanding
        PROVE  IInv'
    <3>1. /\ rest' = rest /\ tx'.pc = "restart" /\ tx'.cand = None /\ tx'.retired = None
          /\ tx'.why = tx.why
      BY <1>0, <2>1, <2>4 DEF TypeOK, Transitions
    <3>2. NoOverlap'
      BY <1>0, <2>1, <2>4 DEF TypeOK, NoOverlap, NoSourceForgotten
    <3>3. SourceMatchesEffective'
      BY <1>0, <2>2, <2>4 DEF SourceMatchesEffective
    <3>4. NoSourceForgotten'
      BY <1>0, <2>1, <2>2, <2>4, <3>1 DEF TypeOK, NoSourceForgotten
    <3>5. TransitionPhase'
      BY <1>0, <2>1, <2>2, <2>4, <3>1
      DEF TypeOK, TransitionPhase, RestorationPhase
    <3>6. RestorationPhase'
      BY <1>0, <2>1, <2>2, <2>4, <3>1 DEF TypeOK, RestorationPhase
    <3>7. ShutdownPhase'
      BY <1>0, <2>1, <2>2, <3>1 DEF ShutdownPhase
    <3>8. Held'
      BY <1>0, <2>1, <2>2, <2>4 DEF TypeOK, Held
    <3>9. QED
      BY <1>0, <3>2, <3>3, <3>4, <3>5, <3>6, <3>7, <3>8 DEF IInv
  <2>5. QED
    BY <1>0, <1>10, <2>3, <2>4, InlineRebuildCases
<1>11. CASE InlineRestart
  <2>1. /\ tx.pc = "restart" /\ rest.pc = "none" /\ partial \in Sources
        /\ outstanding = {} /\ delegate = None /\ tx.cand = None /\ tx.retired = None
        /\ closer \notin {"released", "ended"} /\ src[partial] = "running"
    BY <1>0, <1>11, InlineRestartCases
       DEF TransitionPhase, RestorationPhase, ShutdownPhase, Held
  <2>2. partial' = None /\ UNCHANGED <<addr, effective, durable, closed, closer>>
    BY <1>0, <1>11, InlineRestartCases
  <2>3. PICK settled \in BOOLEAN :
          /\ InlineEnds(settled)
          /\ \/ /\ UNCHANGED delegate /\ _discard({partial})
                /\ settled \/ outstanding' = outstanding
             \/ /\ settled /\ ~closed /\ delegate' = partial
                /\ UNCHANGED <<src, outstanding>>
    BY <1>0, <1>11, InlineRestartCases
  <2>4. /\ tx'.pc = "idle" /\ tx'.cand = None /\ tx'.retired = None
        /\ \/ rest' = rest
           \/ /\ ~settled /\ ~closed /\ rest'.pc = "sleep" /\ rest'.attempt < Attempts
              /\ rest'.current /\ ~rest'.cancelled
              /\ rest'.settings = effective /\ outstanding' = outstanding
    BY <1>0, <2>3, InlineEnding DEF TypeOK, Restorations
  <2>5. \/ /\ UNCHANGED delegate /\ outstanding' \subseteq {partial}
           /\ \A s \in Sources :
                IF s # partial THEN src'[s] = src[s]
                ELSE src'[s] = "gone" \/ (src'[s] = src[s] /\ s \in outstanding')
           /\ settled \/ outstanding' = outstanding
        \/ /\ settled /\ ~closed /\ delegate' = partial
           /\ UNCHANGED <<src, outstanding>>
    BY <1>0, <2>1, <2>3, Discarding
  <2>6. NoOverlap'
    BY <1>0, <2>5 DEF TypeOK, NoOverlap
  <2>7. SourceMatchesEffective'
    BY <1>0, <2>1, <2>2, <2>5
    DEF SourceMatchesEffective, TransitionPhase, RestorationPhase
  <2>8. NoSourceForgotten'
    BY <1>0, <2>1, <2>2, <2>4, <2>5 DEF TypeOK, NoSourceForgotten
  <2>9. TransitionPhase'
    BY <1>0, <2>1, <2>2, <2>4, <2>5 DEF TransitionPhase
  <2>10. RestorationPhase'
    BY <1>0, <2>1, <2>2, <2>4, <2>5 DEF RestorationPhase
  <2>11. ShutdownPhase'
    BY <1>0, <2>1, <2>2, <2>4 DEF ShutdownPhase
  <2>12. Held'
    BY <1>0, <2>1, <2>2, <2>5 DEF Held
  <2>13. QED
    BY <1>0, <2>6, <2>7, <2>8, <2>9, <2>10, <2>11, <2>12 DEF IInv
<1>12. CASE AcloseSettles
  <2>1. Safe'
    <3>1. NoOverlap'
      BY <1>0, <1>12, Settling
      DEF AcloseSettles, TypeOK, NoOverlap, SourceMatchesEffective,
          NoSourceForgotten, TransitionPhase, RestorationPhase, ShutdownPhase,
          Held, End, Idle
    <3>2. SourceMatchesEffective'
      BY <1>0, <1>12, Settling
      DEF AcloseSettles, TypeOK, NoOverlap, SourceMatchesEffective,
          NoSourceForgotten, TransitionPhase, RestorationPhase, ShutdownPhase,
          Held, End, Idle
    <3>3. NoSourceForgotten'
      BY <1>0, <1>12, Settling
      DEF AcloseSettles, TypeOK, NoOverlap, SourceMatchesEffective,
          NoSourceForgotten, TransitionPhase, RestorationPhase, ShutdownPhase,
          Held, End, Idle
    <3>4. QED
      BY <3>1, <3>2, <3>3
  <2>2. Phases'
    <3>1. TransitionPhase'
      BY <1>0, <1>12, Settling
      DEF AcloseSettles, TypeOK, TransitionPhase, RestorationPhase,
          ShutdownPhase, Held, End, Idle
    <3>2. RestorationPhase'
      BY <1>0, <1>12, Settling
      DEF AcloseSettles, TypeOK, TransitionPhase, RestorationPhase,
          ShutdownPhase, Held, End, Idle
    <3>3. ShutdownPhase'
      BY <1>0, <1>12, Settling
      DEF AcloseSettles, TypeOK, TransitionPhase, RestorationPhase,
          ShutdownPhase, Held, End, Idle
    <3>4. Held'
      BY <1>0, <1>12, Settling
      DEF AcloseSettles, TypeOK, TransitionPhase, RestorationPhase,
          ShutdownPhase, Held, End, Idle
    <3>5. QED
      BY <3>1, <3>2, <3>3, <3>4
  <2>3. QED
    BY <1>0, <2>1, <2>2 DEF IInv
<1>13. CASE AttemptBegins
  <2>1. Safe'
    <3>1. NoOverlap'
      BY <1>0, <1>13, Settling
      DEF AttemptBegins, TypeOK, NoOverlap, SourceMatchesEffective,
          NoSourceForgotten, TransitionPhase, RestorationPhase, ShutdownPhase,
          Held, NoRest, Restorations, Superseded
    <3>2. SourceMatchesEffective'
      BY <1>0, <1>13, Settling
      DEF AttemptBegins, TypeOK, NoOverlap, SourceMatchesEffective,
          NoSourceForgotten, TransitionPhase, RestorationPhase, ShutdownPhase,
          Held, NoRest, Restorations, Superseded
    <3>3. NoSourceForgotten'
      BY <1>0, <1>13, Settling
      DEF AttemptBegins, TypeOK, NoOverlap, SourceMatchesEffective,
          NoSourceForgotten, TransitionPhase, RestorationPhase, ShutdownPhase,
          Held, NoRest, Restorations, Superseded
    <3>4. QED
      BY <3>1, <3>2, <3>3
  <2>2. Phases'
    <3>1. TransitionPhase'
      BY <1>0, <1>13, Settling
      DEF AttemptBegins, TypeOK, TransitionPhase, RestorationPhase,
          ShutdownPhase, Held, NoRest, Restorations, Superseded
    <3>2. RestorationPhase'
      <4>1. UNCHANGED <<addr, partial, delegate, tx, effective>>
            /\ rest.pc = "sleep"
        BY <1>13 DEF AttemptBegins
      <4>2. CASE rest' = NoRest
        <5>1. rest'.pc = "none"
          BY <4>2 DEF NoRest
        <5>2. QED
          BY <1>0, <4>1, <5>1 DEF RestorationPhase
      <4>3. CASE /\ rest' = [rest EXCEPT !.pc = "rebuild", !.attempt = @ + 1]
                 /\ ~Superseded /\ outstanding' = {}
        <5>1. /\ rest'.pc = "rebuild" /\ rest'.current = rest.current
              /\ rest'.cancelled = rest.cancelled /\ rest'.settings = rest.settings
          BY <1>0, <4>3 DEF TypeOK, Restorations
        <5>2. QED
          BY <1>0, <4>1, <4>3, <5>1 DEF RestorationPhase
      <4>4. QED
        BY <1>13, <4>2, <4>3 DEF AttemptBegins
    <3>3. ShutdownPhase'
      BY <1>0, <1>13, Settling
      DEF AttemptBegins, TypeOK, TransitionPhase, RestorationPhase,
          ShutdownPhase, Held, NoRest, Restorations, Superseded
    <3>4. Held'
      BY <1>0, <1>13, Settling
      DEF AttemptBegins, TypeOK, TransitionPhase, RestorationPhase,
          ShutdownPhase, Held, NoRest, Restorations, Superseded
    <3>5. QED
      BY <3>1, <3>2, <3>3, <3>4
  <2>3. QED
    BY <1>0, <2>1, <2>2 DEF IInv
<1>14. CASE AttemptRebuild
  <2>1. /\ rest.pc = "rebuild" /\ tx.pc \in {"idle", "join"} /\ partial = None
        /\ delegate = None
        /\ outstanding = {} /\ tx.cand = None /\ tx.retired = None
        /\ closer \notin {"released", "ended"}
    BY <1>0, <1>14, AttemptRebuildCases
    DEF TransitionPhase, RestorationPhase, ShutdownPhase
  <2>2. UNCHANGED <<delegate, effective, durable, closed, closer>>
    BY <1>0, <1>14, AttemptRebuildCases
  <2>3. ASSUME NEW settled \in BOOLEAN, AttemptEnds(settled), UNCHANGED partial,
               \/ UNCHANGED <<src, addr, outstanding>>
               \/ \E s \in Sources :
                    /\ settled /\ src[s] = "gone"
                    /\ addr' = [addr EXCEPT ![s] = rest.settings.session]
                    /\ \/ UNCHANGED <<src, outstanding>>
                       \/ /\ src' = [src EXCEPT ![s] = "built"]
                          /\ outstanding' = outstanding \cup {s}
        PROVE  IInv'
    <3>1. /\ tx' = tx
          /\ \/ rest'.pc = "none"
             \/ /\ rest'.pc = "sleep" /\ rest'.attempt < Attempts
                /\ rest'.current = rest.current
                /\ rest'.cancelled = rest.cancelled
                /\ rest'.settings = rest.settings
                /\ outstanding' = outstanding
      BY <1>0, <2>3, AttemptEnding DEF TypeOK, Restorations
    <3>2. NoOverlap'
      BY <1>0, <2>3 DEF TypeOK, NoOverlap
    <3>3. SourceMatchesEffective'
      BY <1>0, <2>2, <2>3 DEF TypeOK, SourceMatchesEffective, Held
    <3>4. NoSourceForgotten'
      BY <1>0, <2>1, <2>2, <2>3, <3>1 DEF TypeOK, NoSourceForgotten
    <3>5. TransitionPhase'
      BY <1>0, <2>1, <2>2, <2>3, <3>1 DEF TypeOK, TransitionPhase
    <3>6. RestorationPhase'
      BY <1>0, <2>1, <2>2, <2>3, <3>1 DEF TypeOK, RestorationPhase
    <3>7. ShutdownPhase'
      BY <1>0, <2>1, <2>2, <3>1 DEF ShutdownPhase
    <3>8. Held'
      BY <1>0, <2>1, <2>2, <2>3 DEF TypeOK, Held
    <3>9. QED
      BY <1>0, <3>2, <3>3, <3>4, <3>5, <3>6, <3>7, <3>8 DEF IInv
  <2>4. ASSUME NEW s \in Sources, src[s] = "gone",
               addr' = [addr EXCEPT ![s] = rest.settings.session],
               delegate = None, ~Superseded, partial' = s,
               src' = [src EXCEPT ![s] = "running"],
               rest' = [rest EXCEPT !.pc = "restart"] /\ UNCHANGED tx,
               UNCHANGED outstanding
        PROVE  IInv'
    <3>1. /\ tx' = tx /\ rest'.pc = "restart" /\ rest'.current = rest.current
          /\ rest'.cancelled = rest.cancelled /\ rest'.settings = rest.settings
      BY <1>0, <2>1, <2>4 DEF TypeOK, Restorations
    <3>2. NoOverlap'
      BY <1>0, <2>1, <2>4 DEF TypeOK, NoOverlap, NoSourceForgotten
    <3>3. SourceMatchesEffective'
      BY <1>0, <2>2, <2>4 DEF SourceMatchesEffective
    <3>4. NoSourceForgotten'
      BY <1>0, <2>1, <2>2, <2>4, <3>1 DEF TypeOK, NoSourceForgotten
    <3>5. TransitionPhase'
      BY <1>0, <2>1, <2>2, <2>4, <3>1
      DEF TypeOK, TransitionPhase, RestorationPhase, Superseded
    <3>6. RestorationPhase'
      BY <1>0, <2>1, <2>2, <2>4, <3>1 DEF TypeOK, RestorationPhase
    <3>7. ShutdownPhase'
      BY <1>0, <2>1, <2>2, <3>1 DEF ShutdownPhase
    <3>8. Held'
      BY <1>0, <2>1, <2>2, <2>4 DEF TypeOK, Held
    <3>9. QED
      BY <1>0, <3>2, <3>3, <3>4, <3>5, <3>6, <3>7, <3>8 DEF IInv
  <2>5. QED
    BY <1>0, <1>14, <2>3, <2>4, AttemptRebuildCases
<1>15. CASE AttemptRestart
  <2>1. /\ rest.pc = "restart" /\ tx.pc \in {"idle", "join"} /\ partial \in Sources
        /\ outstanding = {} /\ delegate = None /\ tx.cand = None /\ tx.retired = None
        /\ closer \notin {"released", "ended"} /\ src[partial] = "running"
    BY <1>0, <1>15, AttemptRestartCases
       DEF TransitionPhase, RestorationPhase, ShutdownPhase, Held
  <2>2. partial' = None /\ UNCHANGED <<addr, effective, durable, closed, closer>>
    BY <1>0, <1>15, AttemptRestartCases
  <2>3. PICK settled \in BOOLEAN :
          /\ AttemptEnds(settled)
          /\ \/ /\ UNCHANGED delegate /\ _discard({partial})
                /\ settled \/ outstanding' = outstanding
             \/ /\ settled /\ ~Superseded /\ delegate' = partial
                /\ UNCHANGED <<src, outstanding>>
    BY <1>0, <1>15, AttemptRestartCases
  <2>4. /\ tx' = tx
        /\ \/ rest'.pc = "none"
           \/ /\ ~settled /\ rest'.pc = "sleep" /\ rest'.attempt < Attempts
              /\ rest'.current = rest.current
              /\ rest'.cancelled = rest.cancelled
              /\ rest'.settings = rest.settings
              /\ outstanding' = outstanding
    BY <1>0, <2>3, AttemptEnding DEF TypeOK, Restorations
  <2>5. \/ /\ UNCHANGED delegate /\ outstanding' \subseteq {partial}
           /\ \A s \in Sources :
                IF s # partial THEN src'[s] = src[s]
                ELSE src'[s] = "gone" \/ (src'[s] = src[s] /\ s \in outstanding')
           /\ settled \/ outstanding' = outstanding
        \/ /\ settled /\ ~Superseded /\ delegate' = partial
           /\ UNCHANGED <<src, outstanding>>
    BY <1>0, <2>1, <2>3, Discarding
  <2>6. NoOverlap'
    BY <1>0, <2>5 DEF TypeOK, NoOverlap
  <2>7. SourceMatchesEffective'
    BY <1>0, <2>1, <2>2, <2>5
    DEF SourceMatchesEffective, TransitionPhase, RestorationPhase, Superseded
  <2>8. NoSourceForgotten'
    BY <1>0, <2>1, <2>2, <2>4, <2>5 DEF TypeOK, NoSourceForgotten
  <2>9. TransitionPhase'
    BY <1>0, <2>1, <2>2, <2>4, <2>5 DEF TransitionPhase
  <2>10. RestorationPhase'
    BY <1>0, <2>1, <2>2, <2>4, <2>5 DEF RestorationPhase
  <2>11. ShutdownPhase'
    BY <1>0, <2>1, <2>2, <2>4 DEF ShutdownPhase
  <2>12. Held'
    BY <1>0, <2>1, <2>2, <2>5 DEF Held
  <2>13. QED
    BY <1>0, <2>6, <2>7, <2>8, <2>9, <2>10, <2>11, <2>12 DEF IInv
<1>16. CASE RestorationCancelled
  <2>1. Safe'
    BY <1>0, <1>16
    DEF RestorationCancelled, TypeOK, NoOverlap, SourceMatchesEffective,
        NoSourceForgotten, TransitionPhase, RestorationPhase, ShutdownPhase,
        Held, NoRest
  <2>2. Phases'
    BY <1>0, <1>16
    DEF RestorationCancelled, TypeOK, NoOverlap, SourceMatchesEffective,
        NoSourceForgotten, TransitionPhase, RestorationPhase, ShutdownPhase,
        Held, NoRest
  <2>3. QED
    BY <1>0, <2>1, <2>2 DEF IInv
<1>17. CASE aclose
  <2>1. Safe'
    BY <1>0, <1>17
    DEF aclose, TypeOK, NoOverlap, SourceMatchesEffective, NoSourceForgotten,
        TransitionPhase, RestorationPhase, ShutdownPhase, Held, Idle,
        CancelRestoration, Restorations
  <2>2. Phases'
    BY <1>0, <1>17
    DEF aclose, TypeOK, NoOverlap, SourceMatchesEffective, NoSourceForgotten,
        TransitionPhase, RestorationPhase, ShutdownPhase, Held, Idle,
        CancelRestoration, Restorations
  <2>3. QED
    BY <1>0, <2>1, <2>2 DEF IInv
<1>18. CASE ChainCloses
  <2>1. /\ closer = "released" /\ closer' = "ended" /\ delegate' = None
        /\ \A s \in Sources : src'[s] \in {src[s], "gone"}
        /\ UNCHANGED <<addr, partial, outstanding, effective, durable, closed,
                       tx, rest, exhausted>>
    BY <1>0, <1>18, ChainClosing
  <2>2. tx.pc = "idle" /\ rest.pc = "none" /\ partial = None /\ closed
    BY <1>0, <2>1 DEF TransitionPhase, RestorationPhase, ShutdownPhase
  <2>3. Safe'
    BY <1>0, <2>1
    DEF TypeOK, NoOverlap, SourceMatchesEffective, NoSourceForgotten
  <2>4. Phases'
    BY <1>0, <2>1, <2>2
    DEF TransitionPhase, RestorationPhase, ShutdownPhase, Held
  <2>5. QED
    BY <1>0, <2>3, <2>4 DEF IInv
<1>19. CASE MarkClosed
  <2>1. Safe'
    BY <1>0, <1>19
    DEF MarkClosed, TypeOK, NoOverlap, SourceMatchesEffective,
        NoSourceForgotten, TransitionPhase, RestorationPhase, ShutdownPhase,
        Held
  <2>2. Phases'
    BY <1>0, <1>19
    DEF MarkClosed, TypeOK, NoOverlap, SourceMatchesEffective,
        NoSourceForgotten, TransitionPhase, RestorationPhase, ShutdownPhase,
        Held
  <2>3. QED
    BY <1>0, <2>1, <2>2 DEF IInv
<1>20. ASSUME NEW config \in Configs, Submit(config) PROVE IInv'
  <2>1. Safe'
    BY <1>0, <1>20
    DEF Submit, TypeOK, CancelRestoration, Idle, Transitions, Restorations,
        NoOverlap, SourceMatchesEffective, NoSourceForgotten, TransitionPhase,
        RestorationPhase, ShutdownPhase, Held
  <2>2. Phases'
    BY <1>0, <1>20
    DEF Submit, TypeOK, CancelRestoration, Idle, Transitions, Restorations,
        TransitionPhase, RestorationPhase, ShutdownPhase, Held
  <2>3. QED
    BY <1>0, <2>1, <2>2 DEF IInv
<1>21. ASSUME NEW config \in Configs, apply_settings_change(config) PROVE IInv'
  <2>1. /\ tx.pc = "idle" /\ ~closed /\ config.session = effective.session
        /\ durable' = config /\ effective' = config
        /\ UNCHANGED <<src, addr, delegate, partial, outstanding, closed, closer,
                       exhausted>>
    BY <1>21 DEF apply_settings_change, _opens_a_different_session
  <2>2. /\ tx'.cand = None /\ tx'.retired = None
        /\ tx.cand = None /\ tx.retired = None
        /\ \/ delegate # None /\ UNCHANGED <<tx, rest>>
           \/ /\ delegate = None
              /\ tx'.pc = "join" /\ tx'.why = "restore"
              /\ rest'.pc = rest.pc /\ rest'.attempt = rest.attempt
              /\ rest.pc # "none" => ~rest'.current
    <3>1. tx.cand = None /\ tx.retired = None
      BY <1>0, <2>1 DEF TransitionPhase
    <3>2. CASE delegate # None
      BY <1>21, <3>1, <3>2 DEF apply_settings_change
    <3>3. CASE delegate = None
      <4>1. /\ tx' = [Idle EXCEPT !.pc = "join", !.why = "restore"]
            /\ CancelRestoration
        BY <1>21, <3>3 DEF apply_settings_change
      <4>2. /\ tx'.pc = "join" /\ tx'.why = "restore"
            /\ tx'.cand = None /\ tx'.retired = None
        BY <4>1 DEF Idle
      <4>3. /\ rest'.pc = rest.pc /\ rest'.attempt = rest.attempt
            /\ rest.pc # "none" => ~rest'.current
        BY <1>0, <4>1 DEF CancelRestoration, TypeOK, Restorations
      <4>4. QED
        BY <3>1, <3>3, <4>2, <4>3
    <3>4. QED
      BY <3>2, <3>3
  <2>3. Safe'
    BY <1>0, <2>1, <2>2
    DEF NoOverlap, SourceMatchesEffective, NoSourceForgotten
  <2>4. TransitionPhase'
    BY <1>0, <2>1, <2>2 DEF TransitionPhase, RestorationPhase
  <2>5. RestorationPhase'
    BY <1>0, <1>21, <2>1, <2>2
    DEF TransitionPhase, RestorationPhase, apply_settings_change,
        CancelRestoration, TypeOK, Restorations
  <2>6. ShutdownPhase' /\ Held'
    BY <1>0, <2>1, <2>2 DEF ShutdownPhase, Held
  <2>7. QED
    BY <1>0, <2>3, <2>4, <2>5, <2>6 DEF IInv
<1>22. CASE UNCHANGED vars
  BY <1>0, <1>22
  DEF vars, IInv, NoOverlap, SourceMatchesEffective, NoSourceForgotten,
      TransitionPhase, RestorationPhase, ShutdownPhase, Held, TypeOK
<1>23. QED
  BY <1>1, <1>2, <1>3, <1>4, <1>5, <1>6, <1>7, <1>8, <1>9, <1>10, <1>11,
     <1>12, <1>13, <1>14, <1>15, <1>16, <1>17, <1>18, <1>19, <1>20, <1>21,
     <1>22
  DEF Next, Transition, Restoration, Shutdown

\* The invariant holds at construction.
LEMMA InvInit == Init => IInv
<1> SUFFICES ASSUME Init PROVE IInv
  OBVIOUS
<1>1. TypeOK
  BY TypeInit
<1>2. PICK s \in Sources :
        /\ delegate = IF Opens(effective) THEN s ELSE None
        /\ src = [t \in Sources |-> IF t = delegate THEN "running" ELSE "gone"]
        /\ addr = [t \in Sources |-> effective.session]
  BY DEF Init
<1>3. tx.pc = "idle" /\ tx.cand = None /\ tx.retired = None /\ rest.pc = "none"
  BY DEF Init, Idle, NoRest
<1>4. durable = effective /\ partial = None /\ outstanding = {} /\ closer = "open"
  BY DEF Init
<1>5. NoOverlap /\ SourceMatchesEffective /\ NoSourceForgotten
  BY <1>1, <1>2, <1>3, <1>4
  DEF TypeOK, NoOverlap, SourceMatchesEffective, NoSourceForgotten
<1>6. TransitionPhase /\ RestorationPhase /\ ShutdownPhase /\ Held
  BY <1>1, <1>2, <1>3, <1>4
  DEF TypeOK, TransitionPhase, RestorationPhase, ShutdownPhase, Held
<1>7. QED
  BY <1>1, <1>5, <1>6 DEF IInv

\* The invariant every state of the owner satisfies.
THEOREM Invariance == Spec => []IInv
<1>1. Init => IInv
  BY InvInit
<1>2. IInv /\ [Next]_vars => IInv'
  <2> SUFFICES ASSUME IInv, [Next]_vars PROVE IInv'
    OBVIOUS
  <2>1. TypeOK'
    BY TypeStep
  <2>2. QED
    BY <2>1, SafetyStep
<1>3. QED
  BY <1>1, <1>2, PTL DEF Spec

\* Type correctness: in particular a restoration never makes more attempts
\* than _reconstruct allows.
THEOREM TypeCorrectness == Spec => []TypeOK
<1>1. IInv => TypeOK
  BY DEF IInv
<1>2. QED
  BY <1>1, Invariance, PTL

\* REQ-095: whatever closes, starts, writes and shutdown do, and whenever
\* they do it, two sources never hold a session together.
THEOREM Exclusion == Spec => []NoOverlap
<1>1. IInv => NoOverlap
  BY DEF IInv
<1>2. QED
  BY <1>1, Invariance, PTL

\* The configuration in effect is the stored one, and the installed source
\* was built for its address and credential, also when a restoration installs
\* it and when only the selection has changed since.
THEOREM Agreement == Spec => []SourceMatchesEffective
<1>1. IInv => SourceMatchesEffective
  BY DEF IInv
<1>2. QED
  BY <1>1, Invariance, PTL

\* Until the chain is closed no source that may hold a session is dropped: a
\* reference to it is kept by something that closes it.
THEOREM Retention == Spec => []NoSourceForgotten
<1>1. IInv => NoSourceForgotten
  BY DEF IInv
<1>2. QED
  BY <1>1, Invariance, PTL

\* After aclose has marked the owner closed, no transition and no attempt
\* already under way installs a source or changes the file.
THEOREM ShutdownHolds == Spec => NothingAfterShutdown
<1> DEFINE Kept == closed => delegate' \in {delegate, None} /\ durable' = durable
<1>1. ASSUME Next PROVE Kept
  <2>1. ASSUME Transition PROVE Kept
    <3>1. ASSUME InlineRestart PROVE Kept
      BY <3>1 DEF InlineRestart, Restart, Ends
    <3>2. ASSUME InlineRebuild PROVE Kept
      BY <3>2 DEF InlineRebuild
    <3>3. QED
      BY <2>1, <3>1, <3>2
      DEF Transition, Join, Settle, PrepareFails, Prepare, Retire, Commit,
          StartOrSaveFails, StartOvertaken, Compensate, AcloseSettles
  <2>2. ASSUME Restoration PROVE Kept
    <3>1. ASSUME AttemptRestart PROVE Kept
      BY <3>1 DEF AttemptRestart, Restart, Ends, Superseded
    <3>2. ASSUME AttemptRebuild PROVE Kept
      BY <3>2 DEF AttemptRebuild
    <3>3. QED
      BY <2>2, <3>1, <3>2
      DEF Restoration, AttemptBegins, RestorationCancelled
  <2>3. QED
    BY <1>1, <2>1, <2>2
    DEF Next, Shutdown, aclose, ChainCloses, MarkClosed, Submit,
        apply_settings_change
<1>2. ASSUME UNCHANGED vars PROVE Kept
  BY <1>2 DEF vars
<1>3. [Next]_vars => [Kept]_vars
  BY <1>1, <1>2
<1>4. QED
  BY <1>3, PTL DEF Spec, NothingAfterShutdown
=============================================================================
