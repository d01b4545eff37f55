------------------------------ MODULE Playback ------------------------------
(***************************************************************************)
(* ReachyPlayback (adapters/audio_reachy.py): one of the robot's two audio *)
(* outputs.  play, pause, resume, stop and release run under the player's  *)
(* lock and each moves its generation on, so that the thread resolving,    *)
(* decoding or pushing the preceding sound returns at its next look at it  *)
(* and touches nothing.  The model therefore keeps the one thread whose    *)
(* generation is the player's and forgets the others.                      *)
(*                                                                         *)
(* A completion callback runs outside the lock, on whichever thread ended  *)
(* or replaced the sound, and may itself play: what a thread still has to  *)
(* do is its stack of frames.  Context 0 is the event loop, context n the  *)
(* playback thread that took the callback of play n.                       *)
(***************************************************************************)
EXTENDS Naturals, Sequences

CONSTANTS
  Players, \* the outputs, "speech" and "music"
  None,    \* no thread
  MaxPlays \* bound: plays that carry a callback

ASSUME PlaybackAssumption ==
  /\ MaxPlays \in Nat \ {0}
  /\ None \notin {"due", "resolve", "resolving", "push"}

VARIABLES
  player, \* the state under each player's lock
  stack,  \* what each context still has to do, the next first
  plays,  \* the plays with a callback so far; they are numbered
  calls   \* how often each of their callbacks was called

playbackVars == <<player, stack, plays, calls>>

Contexts == 0..MaxPlays

\* A thread that is due has yet to be detached by the context `by`.
Threads == {None, "due", "resolve", "resolving", "push"}

Player == [pending : Nat, current : BOOLEAN, loading : BOOLEAN,
           resolving : BOOLEAN, paused : BOOLEAN, released : BOOLEAN,
           held : Contexts, thread : Threads, by : Contexts]

PlaybackInit ==
  /\ player = [p \in Players |->
       [pending |-> 0, current |-> FALSE, loading |-> FALSE,
        resolving |-> FALSE, paused |-> FALSE, released |-> FALSE,
        held |-> 0, thread |-> None, by |-> 0]]
  /\ stack = [c \in Contexts |-> << >>]
  /\ plays = 0
  /\ calls = [n \in 1..MaxPlays |-> 0]

is_playing(r) == r.current \/ r.loading

-----------------------------------------------------------------------------
(* The methods, as what they leave of the player r.                        *)

\* _take_over: the preceding sound is gone, its callback the caller's.
_take_over(r) ==
  [r EXCEPT !.pending = 0, !.current = FALSE, !.loading = FALSE,
            !.resolving = FALSE, !.held = 0, !.thread = None, !.by = 0]

Called(n) == IF n = 0 THEN << >> ELSE << <<"call", n>> >>

\* play, by context c, of `urls` sounds with callback n (0 is none) ...
play(r, c, n, urls) ==
  IF r.released
  THEN _take_over(r)
  ELSE [_take_over(r) EXCEPT
         !.pending = urls, !.held = n, !.paused = FALSE, !.loading = TRUE,
         !.thread = IF r.held = 0 THEN "resolve" ELSE "due",
         !.by = IF r.held = 0 THEN 0 ELSE c]

\* ... and what its caller does after the lock: the superseded callback, if
\* there is one, and then the detaching of the thread.
AfterPlay(r, p, n) ==
  IF r.released
  THEN Called(r.held) \o Called(n)
  ELSE IF r.held = 0 THEN << >> ELSE Called(r.held) \o << <<"detach", p>> >>

\* A bug's form of pause: the sound being resolved is forgotten.
MutantPauseForgetsUrl(r) ==
  IF r.paused \/ ~is_playing(r)
  THEN r
  ELSE [r EXCEPT !.resolving = FALSE, !.loading = FALSE, !.paused = TRUE,
                 !.thread = None, !.by = 0]

pause(r) ==
  IF r.paused \/ ~is_playing(r)
  THEN r
  ELSE [r EXCEPT !.pending = IF r.resolving THEN @ + 1 ELSE @,
                 !.resolving = FALSE, !.loading = FALSE, !.paused = TRUE,
                 !.thread = None, !.by = 0]

resume(r) ==
  IF ~r.paused \/ r.released
  THEN r
  ELSE IF r.current
       THEN [r EXCEPT !.paused = FALSE, !.thread = "push"]
       ELSE IF r.pending = 0
            THEN [r EXCEPT !.paused = FALSE]
            ELSE [r EXCEPT !.paused = FALSE, !.loading = TRUE,
                           !.thread = "resolve"]

stop(r) == [_take_over(r) EXCEPT !.paused = FALSE]

-----------------------------------------------------------------------------
(* The threads.                                                            *)

\* Context c does `frames` before what else it had to do after its next.
Does(c, frames) == stack' = [stack EXCEPT ![c] = frames \o Tail(@)]
Next_(c, what) == stack[c] # << >> /\ Head(stack[c])[1] = what

\* _detach: the thread starts; one superseded since returns at once.
Detach(c) ==
  /\ Next_(c, "detach")
  /\ LET p == Head(stack[c])[2]
     IN player' = IF player[p].thread = "due" /\ player[p].by = c
                  THEN [player EXCEPT ![p].thread = "resolve", ![p].by = 0]
                  ELSE player
  /\ Does(c, << >>)
  /\ UNCHANGED <<plays, calls>>

\* The thread ends and, outside the lock, calls the callback it took.
Hands(p, r) ==
  /\ player' = [player EXCEPT ![p] = [r EXCEPT !.held = 0, !.thread = None]]
  /\ stack' = IF r.held = 0 THEN stack
              ELSE [stack EXCEPT ![r.held] = Called(r.held)]
  /\ UNCHANGED <<plays, calls>>

Becomes(p, r) ==
  /\ player' = [player EXCEPT ![p] = r]
  /\ UNCHANGED <<stack, plays, calls>>

\* _resolve_and_begin takes the next sound, or finds there is none.
_resolve_and_begin(p) ==
  LET r == [player[p] EXCEPT !.resolving = FALSE]
  IN /\ r.thread = "resolve"
     /\ \/ /\ r.pending = 0
           /\ Hands(p, [r EXCEPT !.loading = FALSE, !.current = FALSE])
        \/ /\ r.pending > 0
           /\ Becomes(p, [r EXCEPT !.pending = @ - 1, !.resolving = TRUE,
                                   !.thread = "resolving"])

\* A sound that cannot be resolved or decoded is skipped.
Skips(p) ==
  /\ player[p].thread = "resolving"
  /\ Becomes(p, [player[p] EXCEPT !.thread = "resolve"])

_begin(p) ==
  /\ player[p].thread = "resolving"
  /\ Becomes(p, [player[p] EXCEPT !.resolving = FALSE, !.loading = FALSE,
                                  !.current = TRUE, !.thread = "push"])

\* The sound was pushed to its end.
_finished(p) ==
  LET r == [player[p] EXCEPT !.current = FALSE]
  IN /\ r.thread = "push"
     /\ \/ /\ r.pending > 0
           /\ Becomes(p, [r EXCEPT !.loading = TRUE, !.thread = "resolve"])
        \/ r.pending = 0 /\ Hands(p, r)

PlayerSteps(p) ==
  _resolve_and_begin(p) \/ Skips(p) \/ _begin(p) \/ _finished(p)
=============================================================================
