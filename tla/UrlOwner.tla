------------------------------ MODULE UrlOwner ------------------------------
(***************************************************************************)
(* The owner of the groundstation address: GroundstationUrlOwner and the   *)
(* ReplaceableRemoteSource it installs into, in                            *)
(* apps/ha-satellite/src/reachy_mini_ha_satellite/groundstation_url.py.    *)
(*                                                                         *)
(* Everything runs on one event loop, so an action is what happens between *)
(* two awaits.  The owner's lock admits one transition at a time, `tx`: a  *)
(* submission or the locked half of aclose().  Beside it run the           *)
(* restoration task, `rest`, and the half of aclose() that only marks the  *)
(* owner closed.                                                           *)
(*                                                                         *)
(* The generation counter is compared and never read, so it is kept as     *)
(* rest.current: whether the restoration's generation is still the owner's.*)
(* A transition advances it under the lock, so its own is always current.  *)
(*                                                                         *)
(* A configuration has two parts.  Its session stands for the address and  *)
(* the credential a session is opened with; `selected` for the settings    *)
(* that decide whether one is opened at all, face_tracking_enabled and     *)
(* detection_source.  Only a different session replaces the source; a save *)
(* that changes the selection alone is adopted at once and leaves the      *)
(* source to the next start.  The caller of a transition is never          *)
(* cancelled: no surface of the application cancels one.                   *)
(***************************************************************************)
EXTENDS Naturals

CONSTANTS
  Sources,   \* identities of remote sources; one is reused once closed
  Urls,      \* resolved sessions: an address together with a credential
  Unset,     \* the session of an unconfigured groundstation
  None,      \* no source
  Attempts   \* DEFAULT_RESTORE_ATTEMPTS

ASSUME UrlOwnerAssumption ==
  /\ None \notin Sources
  /\ Unset \notin Urls
  /\ Attempts \in Nat \ {0}

Sessions == Urls \cup {Unset}
Configs == [session : Sessions, selected : BOOLEAN]

\* build_remote_source: the configurations a source is built for.
Opens(config) == config.session \in Urls /\ config.selected

VARIABLES
  src,         \* each source: not there, built, or holding a session
  addr,        \* the session each source was built for
  delegate,    \* ReplaceableRemoteSource._delegate
  partial,     \* _partial: built by a restoration and not installed
  outstanding, \* _outstanding: sources whose close raised
  effective,   \* _resolution
  durable,     \* the overrides file
  closed,      \* _closed
  closer,      \* aclose of the owner, then of the chain: not begun .. ended
  tx,          \* the transition holding the lock
  rest,        \* the restoration task
  exhausted    \* history: the last restoration ran out of attempts

vars == <<src, addr, delegate, partial, outstanding, effective, durable,
          closed, closer, tx, rest, exhausted>>

Unconfigured == [session |-> Unset, selected |-> TRUE]
Idle   == [pc |-> "idle", why |-> "replace", want |-> Unconfigured,
           cand |-> None, retired |-> None]
NoRest == [pc |-> "none", attempt |-> 0, current |-> FALSE,
           cancelled |-> FALSE, settings |-> Unconfigured]

Transitions ==
  [pc : {"idle", "join", "settle", "factory", "retire", "start", "compensate",
         "rebuild", "restart"},
   why : {"replace", "restore", "close"}, want : Configs,
   cand : Sources \cup {None}, retired : Sources \cup {None}]
Restorations ==
  [pc : {"none", "sleep", "rebuild", "restart"}, attempt : 0..Attempts,
   current : BOOLEAN, cancelled : BOOLEAN, settings : Configs]

Init ==
  /\ effective \in Configs /\ durable = effective
  /\ \E s \in Sources :
       /\ delegate = IF Opens(effective) THEN s ELSE None
       /\ src = [t \in Sources |-> IF t = delegate THEN "running" ELSE "gone"]
       /\ addr = [t \in Sources |-> effective.session]
  /\ partial = None /\ outstanding = {}
  /\ closed = FALSE /\ closer = "open"
  /\ tx = Idle /\ rest = NoRest /\ exhausted = FALSE

-----------------------------------------------------------------------------
(* What the steps share: source states after closing `ended`, and the      *)
(* sources left outstanding when `refusing` would not close.               *)

Closed(ended) == [s \in Sources |-> IF s \in ended THEN "gone" ELSE src[s]]
The(s) == {s} \ {None}

\* _discard: each source closes, or is retained as outstanding.
_discard(sources) ==
  \E ended \in SUBSET sources :
    /\ src' = Closed(ended)
    /\ outstanding' = outstanding \cup (sources \ ended)

\* _settle_outstanding: one further close of each.  The list is empty while
\* the closes are awaited, which only the cancellation of the restoration
\* could expose; UrlOwnerProofs shows nothing is outstanding while there is
\* a restoration.
_settle_outstanding ==
  \E ended \in SUBSET outstanding :
    /\ src' = Closed(ended)
    /\ outstanding' = outstanding \ ended

\* The factory's answer to a configuration: a source, or none to build.
Built(config) ==
  IF Opens(config) THEN {s \in Sources : src[s] = "gone"} ELSE {None}

Superseded == closed \/ ~rest.current

\* _cancel_restoration up to the await: its generation stops being current
\* before the task is asked to stop.
CancelRestoration ==
  rest' = IF rest.pc = "none" THEN rest
          ELSE [rest EXCEPT !.current = FALSE, !.cancelled = TRUE]

End == tx' = Idle

-----------------------------------------------------------------------------
(* submit_merged, submit and submit_url: take the lock and decide.         *)

\* A variant that takes a cleared address for no change of the session.
MutantClearingIsNoChange(config) ==
  config.session \notin {effective.session, Unset}

\* The address and the credential, and not the selection.
_opens_a_different_session(config) == config.session # effective.session

\* A different session: the transition begins.
Submit(config) ==
  /\ tx.pc = "idle" /\ ~closed
  /\ _opens_a_different_session(config)
  /\ tx' = [Idle EXCEPT !.pc = "join", !.want = config]
  /\ CancelRestoration
  /\ UNCHANGED <<src, addr, delegate, partial, outstanding, effective,
                 durable, closed, closer, exhausted>>

\* The same session, whatever else changed: saved and in effect at once.  A
\* source that runs is left alone; without one a restoration begins.
apply_settings_change(config) ==
  /\ tx.pc = "idle" /\ ~closed
  /\ ~_opens_a_different_session(config)
  /\ durable' = config /\ effective' = config
  /\ \/ /\ delegate # None
        /\ UNCHANGED <<tx, rest>>
     \/ /\ delegate = None
        /\ tx' = [Idle EXCEPT !.pc = "join", !.why = "restore"]
        /\ CancelRestoration
  /\ UNCHANGED <<src, addr, delegate, partial, outstanding, closed, closer,
                 exhausted>>

\* The cancelled task has ended: close what it had built.
Join ==
  /\ tx.pc = "join" /\ rest.pc = "none"
  /\ _discard(The(partial))
  /\ partial' = None
  /\ tx' = [tx EXCEPT !.pc = "settle"]
  /\ UNCHANGED <<addr, delegate, effective, durable, closed, closer, rest,
                 exhausted>>

\* A variant that builds beside a source that would not close.
MutantSettleBuildsAnyway ==
  /\ tx.pc = "settle" /\ tx.why # "close" /\ ~closed
  /\ tx.why = "replace" \/ delegate = None
  /\ _settle_outstanding
  /\ tx' = [tx EXCEPT !.pc = IF tx.why = "replace" THEN "factory"
                             ELSE "rebuild"]
  /\ UNCHANGED <<addr, delegate, partial, effective, durable, closed, closer,
                 rest, exhausted>>

\* Another close of everything outstanding; then on, or the end.
Settle ==
  LET overtaken == closed \/ (tx.why = "restore" /\ delegate # None) IN
  /\ tx.pc = "settle" /\ tx.why # "close"
  /\ \/ /\ overtaken
        /\ End
        /\ UNCHANGED <<src, outstanding>>
     \/ /\ ~overtaken
        /\ _settle_outstanding
        /\ tx' = IF outstanding' # {} THEN Idle
                 ELSE [tx EXCEPT !.pc = IF tx.why = "replace" THEN "factory"
                                        ELSE "rebuild"]
  /\ UNCHANGED <<addr, delegate, partial, effective, durable, closed, closer,
                 rest, exhausted>>

\* _replace: the factory answers or raises; the running source is detached.
PrepareFails ==
  /\ tx.pc = "factory"
  /\ End
  /\ UNCHANGED <<src, addr, delegate, partial, outstanding, effective,
                 durable, closed, closer, rest, exhausted>>

Prepare ==
  /\ tx.pc = "factory"
  /\ \E s \in Built(tx.want) :
       LET made == [src EXCEPT ![s] = "built"]
           into == /\ tx.want.session # Unset
                   /\ s = None /\ delegate # None IN
       /\ addr' = IF s = None THEN addr
                  ELSE [addr EXCEPT ![s] = tx.want.session]
       /\ \/ /\ closed
             /\ End
             /\ \/ src' = src /\ UNCHANGED outstanding
                \/ s # None /\ src' = made /\ outstanding' = outstanding \cup {s}
             /\ UNCHANGED delegate
          \/ /\ ~closed /\ into
             /\ End
             /\ UNCHANGED <<src, outstanding, delegate>>
          \/ /\ ~closed /\ ~into
             /\ delegate' = None
             /\ src' = IF s = None THEN src
                       ELSE IF delegate = None THEN [src EXCEPT ![s] = "running"]
                       ELSE made
             /\ tx' = [tx EXCEPT !.cand = s, !.retired = delegate,
                         !.pc = IF delegate = None THEN "start" ELSE "retire"]
             /\ UNCHANGED outstanding
  /\ UNCHANGED <<partial, effective, durable, closed, closer, rest, exhausted>>

\* The retired source closes and the candidate is started, or it does not
\* and the candidate is closed too.
Retire ==
  /\ tx.pc = "retire"
  /\ \/ /\ ~closed
        /\ src' = [s \in Sources |-> IF s = tx.retired THEN "gone"
                                     ELSE IF s = tx.cand THEN "running"
                                     ELSE src[s]]
        /\ tx' = [tx EXCEPT !.pc = "start", !.retired = None]
        /\ UNCHANGED outstanding
     \/ /\ closed
        /\ \E ended \in SUBSET The(tx.cand) :
             /\ src' = Closed(ended \cup {tx.retired})
             /\ outstanding' = outstanding \cup (The(tx.cand) \ ended)
        /\ End
     \/ /\ \E ended \in SUBSET The(tx.cand) :
             /\ src' = Closed(ended)
             /\ outstanding' = outstanding \cup {tx.retired}
                                           \cup (The(tx.cand) \ ended)
        /\ End
  /\ UNCHANGED <<addr, delegate, partial, effective, durable, closed, closer,
                 rest, exhausted>>

\* A variant that does not ask again whether it was overtaken.
MutantCommitUnchecked ==
  /\ tx.pc = "start"
  /\ delegate' = tx.cand
  /\ durable' = tx.want /\ effective' = tx.want
  /\ End
  /\ UNCHANGED <<src, addr, partial, outstanding, closed, closer, rest,
                 exhausted>>

\* Started: install, commit the file and publish, with no await between.
Commit ==
  /\ tx.pc = "start" /\ ~closed
  /\ delegate' = tx.cand
  /\ durable' = tx.want /\ effective' = tx.want
  /\ End
  /\ UNCHANGED <<src, addr, partial, outstanding, closed, closer, rest,
                 exhausted>>

\* The start raised, or the file could not be written: compensate.
StartOrSaveFails ==
  /\ tx.pc = "start"
  /\ tx' = [tx EXCEPT !.pc = "compensate"]
  /\ UNCHANGED <<src, addr, delegate, partial, outstanding, effective,
                 durable, closed, closer, rest, exhausted>>

\* Shutdown overtook the start.
StartOvertaken ==
  /\ tx.pc = "start" /\ closed
  /\ _discard(The(tx.cand))
  /\ End
  /\ UNCHANGED <<addr, delegate, partial, effective, durable, closed, closer,
                 rest, exhausted>>

\* _compensate: close the candidate, then rebuild the preceding source.
Compensate ==
  /\ tx.pc = "compensate"
  /\ _discard(The(tx.cand))
  /\ tx' = IF closed \/ outstanding' # outstanding THEN Idle
           ELSE [tx EXCEPT !.pc = "rebuild", !.cand = None]
  /\ UNCHANGED <<addr, delegate, partial, effective, durable, closed, closer,
                 rest, exhausted>>

-----------------------------------------------------------------------------
(* _install_fresh, run inline by a transition and then by the task.        *)

\* An attempt of the transition settled, or failed and the task takes over.
InlineEnds(settled) ==
  /\ End
  /\ rest' = IF settled \/ closed \/ Attempts = 1 THEN rest
             ELSE [pc |-> "sleep", attempt |-> 1, current |-> TRUE,
                   cancelled |-> FALSE, settings |-> effective]
  /\ exhausted' = (~settled /\ ~closed /\ Attempts = 1)

\* A variant that never gives up.
MutantNeverExhausted(settled) ==
  /\ rest' = IF settled THEN NoRest
             ELSE [rest EXCEPT !.pc = "sleep", !.attempt = 1]
  /\ exhausted' = FALSE
  /\ UNCHANGED tx

\* An attempt of the task settled, or failed and is repeated or was the last.
AttemptEnds(settled) ==
  /\ rest' = IF settled \/ rest.attempt = Attempts THEN NoRest
             ELSE [rest EXCEPT !.pc = "sleep"]
  /\ exhausted' = (~settled /\ rest.attempt = Attempts)
  /\ UNCHANGED tx

\* Its two callers go on with their own start, and end in their own way.
Starts(inline) ==
  IF inline THEN tx' = [tx EXCEPT !.pc = "restart"] /\ UNCHANGED rest
  ELSE rest' = [rest EXCEPT !.pc = "restart"] /\ UNCHANGED tx
Ends(inline, settled) ==
  IF inline THEN InlineEnds(settled) ELSE AttemptEnds(settled)

\* The factory is asked: it raises, has nothing to build, or builds.
Rebuild(inline, config, unwanted) ==
  \/ /\ Ends(inline, FALSE)
     /\ UNCHANGED <<src, addr, partial, outstanding>>
  \/ /\ ~Opens(config)
     /\ Ends(inline, TRUE)
     /\ UNCHANGED <<src, addr, partial, outstanding>>
  \/ \E s \in Built(config) \ {None} :
       /\ addr' = [addr EXCEPT ![s] = config.session]
       /\ \/ /\ unwanted
             /\ Ends(inline, TRUE)
             /\ \/ UNCHANGED <<src, outstanding>>
                \/ /\ src' = [src EXCEPT ![s] = "built"]
                   /\ outstanding' = outstanding \cup {s}
             /\ UNCHANGED partial
          \/ /\ ~unwanted
             /\ partial' = s
             /\ src' = [src EXCEPT ![s] = "running"]
             /\ Starts(inline)
             /\ UNCHANGED <<exhausted, outstanding>>

\* The start ended: raised, unwanted by now, or installed.
Restart(inline, unwanted) ==
  /\ partial' = None
  /\ \/ /\ _discard({partial})
        /\ Ends(inline, outstanding' # outstanding)
        /\ UNCHANGED delegate
     \/ /\ unwanted
        /\ _discard({partial})
        /\ Ends(inline, TRUE)
        /\ UNCHANGED delegate
     \/ /\ ~unwanted
        /\ delegate' = partial
        /\ Ends(inline, TRUE)
        /\ UNCHANGED <<src, outstanding>>

InlineRebuild ==
  /\ tx.pc = "rebuild"
  /\ Rebuild(TRUE, effective, closed \/ delegate # None)
  /\ UNCHANGED <<delegate, effective, durable, closed, closer>>

InlineRestart ==
  /\ tx.pc = "restart"
  /\ Restart(TRUE, closed \/ delegate # None)
  /\ UNCHANGED <<addr, effective, durable, closed, closer>>

\* _reconstruct wakes: stop if superseded, settle what is outstanding, try.
AttemptBegins ==
  /\ rest.pc = "sleep"
  /\ \/ /\ Superseded
        /\ rest' = NoRest
        /\ UNCHANGED <<src, outstanding>>
     \/ /\ ~Superseded
        /\ _settle_outstanding
        /\ rest' = IF outstanding' # {} THEN NoRest
                   ELSE [rest EXCEPT !.pc = "rebuild", !.attempt = @ + 1]
  /\ UNCHANGED <<addr, delegate, partial, effective, durable, closed, closer,
                 tx, exhausted>>

AttemptRebuild ==
  /\ rest.pc = "rebuild"
  /\ Rebuild(FALSE, rest.settings, Superseded \/ delegate # None)
  /\ UNCHANGED <<delegate, effective, durable, closed, closer>>

AttemptRestart ==
  /\ rest.pc = "restart"
  /\ Restart(FALSE, Superseded \/ delegate # None)
  /\ UNCHANGED <<addr, effective, durable, closed, closer>>

\* A variant whose cancelled attempt drops what it had built.
MutantCancelledDropsPartial ==
  /\ rest.pc # "none" /\ rest.cancelled
  /\ rest' = NoRest /\ partial' = None
  /\ UNCHANGED <<src, addr, delegate, outstanding, effective, durable, closed,
                 closer, tx, exhausted>>

\* The cancellation is delivered at the await; the partial source stays
\* recorded.  A source that swallows it lets the attempt run on instead.
RestorationCancelled ==
  /\ rest.pc # "none" /\ rest.cancelled
  /\ rest' = NoRest
  /\ UNCHANGED <<src, addr, delegate, partial, outstanding, effective,
                 durable, closed, closer, tx, exhausted>>

-----------------------------------------------------------------------------
(* aclose: mark, let the reserved submissions finish, then under the lock. *)

MarkClosed ==
  /\ ~closed
  /\ closed' = TRUE
  /\ UNCHANGED <<src, addr, delegate, partial, outstanding, effective,
                 durable, closer, tx, rest, exhausted>>

aclose ==
  /\ closed /\ closer = "open" /\ tx.pc = "idle"
  /\ closer' = "locked"
  /\ tx' = [Idle EXCEPT !.pc = "join", !.why = "close"]
  /\ CancelRestoration
  /\ UNCHANGED <<src, addr, delegate, partial, outstanding, effective,
                 durable, closed, exhausted>>

\* A variant that starts over until everything has closed.
MutantAcloseStartsOver ==
  /\ tx.pc = "settle" /\ tx.why = "close"
  /\ _settle_outstanding
  /\ End
  /\ closer' = IF outstanding' = {} THEN "released" ELSE "open"
  /\ UNCHANGED <<addr, delegate, partial, effective, durable, closed, rest,
                 exhausted>>

AcloseSettles ==
  /\ tx.pc = "settle" /\ tx.why = "close"
  /\ _settle_outstanding
  /\ End
  /\ closer' = "released"
  /\ UNCHANGED <<addr, delegate, partial, effective, durable, closed, rest,
                 exhausted>>

\* ReplaceableRemoteSource.aclose, by the perception chain afterwards: the
\* source is detached first, and one whose close raises is held by nothing.
ChainCloses ==
  /\ closer = "released"
  /\ closer' = "ended"
  /\ delegate' = None
  /\ \E ended \in SUBSET The(delegate) : src' = Closed(ended)
  /\ UNCHANGED <<addr, partial, outstanding, effective, durable, closed, tx,
                 rest, exhausted>>

-----------------------------------------------------------------------------
Transition ==
  \/ Join \/ Settle \/ PrepareFails \/ Prepare \/ Retire \/ Commit
  \/ StartOrSaveFails \/ StartOvertaken \/ Compensate \/ InlineRebuild
  \/ InlineRestart \/ AcloseSettles
Restoration ==
  AttemptBegins \/ AttemptRebuild \/ AttemptRestart \/ RestorationCancelled
Shutdown == aclose \/ ChainCloses

Next ==
  \/ Transition \/ Restoration \/ Shutdown \/ MarkClosed
  \/ \E config \in Configs : Submit(config) \/ apply_settings_change(config)

Spec == Init /\ [][Next]_vars

\* Factories, starts, closes and sleeps return, and the loop runs what is
\* ready.  Nothing obliges anyone to submit or to shut down.
FairSpec ==
  Spec /\ WF_vars(Transition) /\ WF_vars(Restoration) /\ WF_vars(Shutdown)

-----------------------------------------------------------------------------
TypeOK ==
  /\ src \in [Sources -> {"gone", "built", "running"}]
  /\ addr \in [Sources -> Sessions]
  /\ delegate \in Sources \cup {None} /\ partial \in Sources \cup {None}
  /\ outstanding \subseteq Sources
  /\ effective \in Configs /\ durable \in Configs
  /\ closed \in BOOLEAN /\ exhausted \in BOOLEAN
  /\ closer \in {"open", "locked", "released", "ended"}
  /\ tx \in Transitions /\ rest \in Restorations

\* REQ-095, "excluding overlap": two sources never hold a session at once.
\* A source whose close was refused counts as holding one.
NoOverlap ==
  \A s, t \in Sources : src[s] = "running" /\ src[t] = "running" => s = t

\* The installed source authenticates with the address and the credential in
\* effect, which are the stored ones, however late a restoration installs it.
\* The defect _opens_a_different_session records: a running client answering
\* "under a secret the operator had just revoked".
SourceMatchesEffective ==
  /\ durable = effective
  /\ delegate # None => addr[delegate] = effective.session

\* Until the chain itself is closed, a source that was built and has not
\* confirmed its close is held by something that will close it.
NoSourceForgotten ==
  \A s \in Sources : src[s] # "gone" =>
    \/ s \in {delegate, partial, tx.cand, tx.retired} \cup outstanding
    \/ closer = "ended"

\* Once aclose has begun nothing is installed and the file does not change.
NothingAfterShutdown ==
  [][closed => delegate' \in {delegate, None} /\ durable' = durable]_vars

\* Restoration is bounded: a reconstruction ends whatever the factory does.
RestorationEnds == rest.pc # "none" ~> rest.pc = "none"

\* Shutdown is never held up by a transition or a restoration.
ShutdownEnds == closed ~> closer = "ended"

\* When the factory fails during a replacement "the running source is still
\* the preceding one and there is nothing to restore": at rest, an owner whose
\* configuration opens a session has its source, is rebuilding it, or has said
\* why it cannot.
SourceOrReason ==
  tx.pc = "idle" /\ ~closed /\ Opens(effective) =>
    \/ delegate # None \/ rest.pc # "none"
    \/ outstanding # {} \/ exhausted
=============================================================================
