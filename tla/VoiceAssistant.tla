--------------------------- MODULE VoiceAssistant ---------------------------
(***************************************************************************)
(* VoiceSatelliteProtocol (esphome/satellite.py): one Home Assistant       *)
(* connection, over the two outputs of Playback and the PipelineMachine    *)
(* its events drive.                                                       *)
(*                                                                         *)
(* Messages, wake words and the machine's events are handled on the event  *)
(* loop, context 0 of Playback, one at a time: a handler runs only when    *)
(* the loop's stack is empty, and leaves on it what it does after a        *)
(* callback of a sound it replaced.  Callbacks on playback threads and the *)
(* timer that continues a conversation run concurrently with it; what they *)
(* send and emit goes through call_soon_threadsafe, the queue `soon`.      *)
(*                                                                         *)
(* Each connection is a new object; `link` is the state of the one that is *)
(* ServerState.satellite, and the callbacks of an earlier one touch only   *)
(* that one's fields, which nobody reads.  External: Home Assistant starts *)
(* a run it was asked for, sends its events in order and ends it.          *)
(*                                                                         *)
(* Left out: the streaming of the microphone's audio and the loudness of   *)
(* the outputs (duck, unduck, volume), neither of which decides what is    *)
(* modelled; texts; a second connection at the same time; the thread-safe  *)
(* details of a superseded playback thread, which does nothing more.       *)
(***************************************************************************)
EXTENDS Playback

PipelineMachine == INSTANCE PipelineMachine

CONSTANT MaxConnections \* bound: connections of Home Assistant

ASSUME VoiceAssumption ==
  /\ {"speech", "music"} \subseteq Players
  /\ MaxConnections \in Nat \ {0}

VARIABLES
  link,    \* the fields of the connection's VoiceSatelliteProtocol
  muted,   \* ServerState.muted
  done,    \* the callback of each play: what it does, and whose it is
  timers,  \* continued conversations waiting for their settle delay
  machine, \* the PipelineMachine
  soon,    \* what other threads handed to the loop
  run      \* Home Assistant's pipeline run, and whether one was asked for

voiceVars == <<link, muted, done, timers, machine, soon, run>>
vars == <<playbackVars, voiceVars>>

Kinds == {"wake", "tts", "timer", "resume", "idle"}
Fresh(n) == [number |-> n, authenticated |-> TRUE,
             played |-> FALSE, continues |-> FALSE, ringing |-> FALSE,
             active |-> FALSE]
NoRun == [phase |-> "none", asked |-> FALSE]

Init ==
  /\ PlaybackInit
  /\ link = [Fresh(0) EXCEPT !.authenticated = FALSE]
  /\ muted = FALSE
  /\ done = << >>
  /\ timers = 0
  /\ machine = PipelineMachine!MachineInit
  /\ soon = << >>
  /\ run = NoRun

-----------------------------------------------------------------------------
(* Helpers: emitting, sending, and playing from a handler or a callback.   *)

Connected == link.authenticated
Loop == stack[0] = << >> \* the loop is between two handlers
Handles == Loop /\ Connected

\* PipelineEventTap.emit_event_sync and send_messages on the loop ...
Emits(e) == machine' = PipelineMachine!handle(machine, e)

\* ... and from context c, with the events e and the request, if any, of
\* connection k: the loop's own at once, another thread's through `soon`.
Tells(c, k, asks, e) ==
  IF c = 0
  THEN /\ Emits(e)
       /\ run' = IF asks /\ k = link.number /\ Connected
                 THEN [run EXCEPT !.asked = TRUE] ELSE run
       /\ UNCHANGED soon
  ELSE /\ soon' = soon \o (IF asks THEN << <<"request", k>> >> ELSE << >>)
                       \o << <<"event", e>> >>
       /\ UNCHANGED <<machine, run>>

Adds(kind) ==
  /\ plays < MaxPlays
  /\ plays' = plays + 1
  /\ done' = Append(done, [kind |-> kind, by |-> link.number])

\* Context c plays on p with a new callback of this kind; the frames then
\* follow.  A sound without one is not numbered.
Plays(c, p, kind, urls, then) ==
  /\ Adds(kind)
  /\ player' = [player EXCEPT ![p] = play(@, c, plays + 1, urls)]
  /\ stack' = [stack EXCEPT ![c] = AfterPlay(player[p], p, plays + 1)
                                     \o then \o @]
  /\ UNCHANGED calls

PlaysSound(c, p, then) ==
  /\ player' = [player EXCEPT ![p] = play(@, c, 0, 1)]
  /\ stack' = [stack EXCEPT ![c] = AfterPlay(player[p], p, 0) \o then]
  /\ UNCHANGED <<plays, calls, done>>

Stops(p, then) ==
  /\ player' = [player EXCEPT ![p] = stop(@)]
  /\ stack' = [stack EXCEPT ![0] = Called(player[p].held) \o then]
  /\ UNCHANGED <<plays, calls, done>>

Silent == UNCHANGED <<playbackVars, done>>

-----------------------------------------------------------------------------
(* Wake word, stop word and mute.                                          *)

wakeup ==
  /\ Handles /\ ~muted /\ ~link.active
  /\ link' = [link EXCEPT !.ringing = FALSE, !.active = TRUE]
  /\ Emits("wake_word_detected")
  /\ Plays(0, "speech", "wake", 1, << >>)
  /\ UNCHANGED <<muted, timers, soon, run>>

\* The stop word was heard, at whatever time since: detection runs on a
\* thread of its own.
stop_ ==
  /\ Handles
  /\ link' = [link EXCEPT !.active = FALSE, !.ringing = FALSE]
  /\ Stops("speech", IF link.ringing THEN << <<"emit", "idle">> >> ELSE << >>)
  /\ UNCHANGED <<muted, timers, machine, soon, run>>

\* The mute switch.  After the stop, or the unmute sound, and the callback
\* either may have run: the mute sound, or the pipeline is idle.
_set_muted(new) ==
  /\ Handles
  /\ muted' = new
  /\ Emits(IF new THEN "muted" ELSE "unmuted")
  /\ IF new
     THEN Stops("speech", << <<"sound", "mute">> >>)
     ELSE PlaysSound(0, "speech", << <<"emit", "idle">> >>)
  /\ UNCHANGED <<link, timers, soon, run>>

-----------------------------------------------------------------------------
(* handle_voice_event: Home Assistant's run.                               *)

Phase(phases, next) ==
  /\ Handles /\ run.phase \in phases
  /\ run' = [run EXCEPT !.phase = next]
  /\ UNCHANGED <<muted, timers, soon>>

RUN_START ==
  /\ run.asked
  /\ Handles /\ run.phase = "none"
  /\ run' = [phase |-> "started", asked |-> FALSE]
  /\ link' = [link EXCEPT !.played = FALSE, !.continues = FALSE,
                          !.active = TRUE]
  /\ Silent /\ UNCHANGED <<muted, timers, soon, machine>>

\* STT_VAD_END and STT_END.
STT_END ==
  /\ Phase({"started"}, "heard")
  /\ Silent /\ UNCHANGED <<link, machine>>

INTENT_START ==
  /\ Phase({"heard"}, "thinking")
  /\ Emits("processing")
  /\ UNCHANGED link
  /\ \/ Silent
     \/ PlaysSound(0, "speech", << >>) \* thinking_sound_enabled

INTENT_END ==
  /\ Phase({"thinking"}, "thinking")
  /\ \E continue_conversation \in BOOLEAN :
       link' = [link EXCEPT !.continues = @ \/ continue_conversation]
  /\ Silent /\ UNCHANGED machine

\* INTENT_PROGRESS and TTS_END, with the answer's URL.
play_tts ==
  /\ Phase({"thinking"}, "thinking")
  /\ ~link.played
  /\ link' = [link EXCEPT !.played = TRUE]
  /\ Emits("responding")
  /\ Plays(0, "speech", "tts", 1, << >>)

\* A bug's form of RUN_END: a run without an answer frees nothing.
MutantRunEndOnlyResets ==
  /\ Phase({"started", "heard", "thinking"}, "none")
  /\ link' = [link EXCEPT !.played = FALSE]
  /\ Silent /\ UNCHANGED machine

\* The first half of _tts_finished, for the current connection ...
Unwinds == [link EXCEPT !.active = FALSE]

\* ... which RUN_END runs itself when no answer was played.
RUN_END ==
  /\ Phase({"started", "heard", "thinking"}, "none")
  /\ IF link.played
     THEN /\ link' = [link EXCEPT !.played = FALSE]
          /\ Silent /\ UNCHANGED machine
     ELSE /\ link' = Unwinds
          /\ Emits("response_finished")
          /\ stack' = [stack EXCEPT ![0] = << <<"settle", link.number>> >>]
          /\ UNCHANGED <<player, plays, calls, done>>

ERROR ==
  /\ \E phase \in {"started", "heard", "thinking"} :
       Phase({phase}, phase)
  /\ Emits("error")
  /\ Silent /\ UNCHANGED link

-----------------------------------------------------------------------------
(* Announcements, timers and the media player.                             *)

\* VoiceAssistantAnnounceRequest, with or without a sound before it.
Announce ==
  /\ Handles
  /\ \E start_conversation \in BOOLEAN, urls \in 1..2 :
       /\ link' = [link EXCEPT !.continues = start_conversation]
       /\ Plays(0, "speech", "tts", urls, << >>)
  /\ Emits("responding")
  /\ UNCHANGED <<muted, timers, soon, run>>

\* handle_timer_event: finished, and cancelled.
TIMER_FINISHED ==
  /\ Handles /\ ~link.ringing
  /\ link' = [link EXCEPT !.ringing = TRUE]
  /\ Emits("responding")
  /\ Plays(0, "speech", "timer", 1, << >>)
  /\ UNCHANGED <<muted, timers, soon, run>>

TIMER_CANCELLED ==
  /\ Handles /\ Emits("idle")
  /\ Silent /\ UNCHANGED <<link, muted, timers, soon, run>>

\* MediaPlayerEntity.handle_message: a command for the music.
MediaCommand ==
  /\ Handles
  /\ \/ /\ \E m \in {pause(player["music"]), resume(player["music"])} :
             player' = [player EXCEPT !["music"] = m]
        /\ UNCHANGED <<stack, plays, calls, done>>
     \/ Plays(0, "music", "idle", 1, << >>)
     \/ Stops("music", << >>)
  /\ UNCHANGED <<link, muted, timers, machine, soon, run>>

\* MediaPlayerEntity.play of an announcement: the music waits for its end.
MediaAnnouncement ==
  LET plays_ == is_playing(player["music"])
  IN /\ Handles
     /\ Adds(IF plays_ THEN "resume" ELSE "idle")
     /\ player' = [player EXCEPT
          !["speech"] = play(@, 0, plays + 1, 1),
          !["music"] = IF plays_ THEN pause(@) ELSE @]
     /\ stack' = [stack EXCEPT
          ![0] = AfterPlay(player["speech"], "speech", plays + 1)]
     /\ UNCHANGED <<calls, link, muted, timers, machine, soon, run>>

\* ReachyAudio.stop at the application's shutdown, before the connections
\* are closed: the music is released, then the speech.  The bound: during
\* the last connection.
release(r) == [stop(r) EXCEPT !.released = TRUE]

Shutdown ==
  /\ Loop /\ ~player["music"].released
  /\ link.number = MaxConnections
  /\ player' = [player EXCEPT !["music"] = release(@)]
  /\ stack' = [stack EXCEPT ![0] = Called(player["music"].held)
                                     \o << <<"release", "speech">> >>]
  /\ UNCHANGED <<plays, calls, voiceVars>>

-----------------------------------------------------------------------------
(* The callbacks, in the context that calls them.                          *)

Own(n) == Connected /\ done[n].by = link.number

Calling(c, kind) ==
  /\ Next_(c, "call")
  /\ done[Head(stack[c])[2]].kind = kind
  /\ calls' = [calls EXCEPT ![Head(stack[c])[2]] = @ + 1]

\* _on_wakeup_sound_finished: a run is asked for; the event follows the
\* request through the same queue.
_on_wakeup_sound_finished(c) ==
  /\ Calling(c, "wake")
  /\ Tells(c, done[Head(stack[c])[2]].by, TRUE, "listening")
  /\ Does(c, << >>)
  /\ UNCHANGED <<player, plays, link, muted, done, timers>>

\* _tts_finished frees the pipeline and says so ...
_tts_finished(c) ==
  LET n == Head(stack[c])[2]
  IN /\ Calling(c, "tts")
     /\ link' = IF Own(n) THEN Unwinds ELSE link
     /\ Tells(c, done[n].by, FALSE, "response_finished")
     /\ Does(c, << <<"settle", done[n].by>> >>)
     /\ UNCHANGED <<player, plays, muted, done, timers>>

\* ... and then, if the conversation continues, takes it again and waits.
Settles(c) ==
  LET own == Connected /\ Head(stack[c])[2] = link.number
      continues == own /\ link.continues
  IN /\ Next_(c, "settle")
     /\ timers' = IF continues THEN timers + 1 ELSE timers
     /\ link' = IF own THEN [link EXCEPT !.continues = FALSE,
                                         !.active = @ \/ continues]
                ELSE link
     /\ Tells(c, 0, FALSE, IF continues THEN "listening" ELSE "idle")
     /\ Does(c, << >>)
     /\ UNCHANGED <<player, plays, calls, muted, done>>

\* A bug's form of _start_continued_conversation: a mute that came during
\* the delay only drops the request.
MutantStaysTaken ==
  /\ timers > 0 /\ timers' = timers - 1
  /\ IF muted THEN UNCHANGED soon
              ELSE soon' = Append(soon, <<"request", link.number>>)
  /\ Silent /\ UNCHANGED <<link, muted, machine, run>>

\* _start_continued_conversation, on the timer's thread.
_start_continued_conversation ==
  /\ timers > 0 /\ timers' = timers - 1
  /\ IF muted
     THEN link' = [link EXCEPT !.active = FALSE] /\ UNCHANGED soon
     ELSE soon' = Append(soon, <<"request", link.number>>) /\ UNCHANGED link
  /\ Silent /\ UNCHANGED <<muted, machine, run>>

\* _play_timer_finished: it was silenced, it rang for long enough, or it
\* rings again.
_play_timer_finished(c) ==
  LET n == Head(stack[c])[2]
  IN /\ Calling(c, "timer")
     /\ \/ /\ \/ ~(Own(n) /\ link.ringing) /\ UNCHANGED link
              \/ /\ Own(n) /\ link.ringing
                 /\ link' = [link EXCEPT !.ringing = FALSE]
           /\ Does(c, << >>)
           /\ UNCHANGED <<player, plays, done>>
        \/ /\ Own(n) /\ link.ringing
           /\ Adds("timer")
           /\ player' = [player EXCEPT !["speech"] = play(@, c, plays + 1, 1)]
           /\ Does(c, AfterPlay(player["speech"], "speech", plays + 1))
           /\ UNCHANGED link
     /\ UNCHANGED <<muted, timers, machine, soon, run>>

\* The media player's own: the music resumes, or Home Assistant is told.
MediaFinished(c) ==
  /\ \/ /\ Calling(c, "resume")
        /\ player' = [player EXCEPT !["music"] = resume(@)]
     \/ Calling(c, "idle") /\ UNCHANGED player
  /\ Does(c, << >>)
  /\ UNCHANGED <<plays, voiceVars>>

\* What a handler does after a callback.
Resumes ==
  \/ /\ Next_(0, "emit")
     /\ Emits(Head(stack[0])[2])
     /\ Does(0, << >>)
     /\ UNCHANGED <<player, plays, done, calls>>
  \/ /\ Next_(0, "sound")
     /\ PlaysSound(0, "speech", Tail(stack[0]))
     /\ UNCHANGED machine
  \/ /\ Next_(0, "stop")
     /\ Stops("speech", Tail(stack[0]))
     /\ UNCHANGED machine
  \/ /\ Next_(0, "release")
     /\ player' = [player EXCEPT !["speech"] = release(@)]
     /\ Does(0, Called(player["speech"].held))
     /\ UNCHANGED <<plays, done, calls, machine>>

HandlerResumes ==
  Resumes /\ UNCHANGED <<link, muted, timers, soon, run>>

Callbacks(c) ==
  \/ _on_wakeup_sound_finished(c)
  \/ _tts_finished(c)
  \/ Settles(c)
  \/ _play_timer_finished(c)
  \/ MediaFinished(c)
  \/ Detach(c) /\ UNCHANGED voiceVars

-----------------------------------------------------------------------------
(* The connection and the loop.                                            *)

\* process_packet of an AuthenticationRequest, on the object the server made
\* for this connection; number 0 is none yet.
Authenticated ==
  /\ Loop /\ ~Connected
  /\ link.number < MaxConnections
  /\ link' = Fresh(link.number + 1)
  /\ Silent /\ UNCHANGED <<muted, timers, machine, soon, run>>

\* connection_lost of the only connection: the music is stopped, then the
\* speech, and each callback runs before the behaviour is told.
connection_lost ==
  /\ Handles
  /\ link' = [Fresh(link.number) EXCEPT !.authenticated = FALSE]
  /\ timers' = 0
  /\ run' = NoRun
  /\ Stops("music", << <<"stop", "speech">>, <<"emit", "disconnected">> >>)
  /\ UNCHANGED <<muted, machine, soon>>

\* The loop runs what another thread handed it.
Deliver ==
  /\ Loop /\ soon # << >> /\ soon' = Tail(soon)
  /\ LET what == Head(soon)[1]
         of == Head(soon)[2]
     IN \/ what = "event" /\ Emits(of) /\ UNCHANGED run
        \/ /\ what = "request"
           /\ run' = IF Connected /\ of = link.number
                     THEN [run EXCEPT !.asked = TRUE] ELSE run
           /\ UNCHANGED machine
  /\ Silent /\ UNCHANGED <<link, muted, timers>>

ErrorShown ==
  /\ Loop /\ machine.state = "error"
  /\ machine' = PipelineMachine!tick(machine)
  /\ Silent /\ UNCHANGED <<link, muted, timers, soon, run>>

Next ==
  \/ wakeup \/ stop_ \/ \E new \in BOOLEAN : _set_muted(new)
  \/ RUN_START \/ STT_END \/ INTENT_START \/ INTENT_END \/ play_tts
  \/ RUN_END \/ ERROR
  \/ Announce \/ TIMER_FINISHED \/ TIMER_CANCELLED
  \/ MediaCommand \/ MediaAnnouncement
  \/ Shutdown
  \/ \E p \in Players : PlayerSteps(p) /\ UNCHANGED voiceVars
  \/ \E c \in Contexts : Callbacks(c)
  \/ _start_continued_conversation
  \/ HandlerResumes
  \/ Authenticated \/ connection_lost \/ Deliver \/ ErrorShown

\* The speech's thread, the threads that call callbacks, the loop's own
\* frames and a timer are got to.  The event loop is fair to what was
\* handed to it and to what Home Assistant sends, however often other
\* messages come first.  External: Home Assistant starts what it was asked
\* for and ends every run.
Fairness ==
  /\ WF_vars(PlayerSteps("speech") /\ UNCHANGED voiceVars)
  /\ WF_vars(\E c \in Contexts \ {0} : Callbacks(c))
  /\ WF_vars(Callbacks(0) \/ HandlerResumes)
  /\ WF_vars(_start_continued_conversation)
  /\ SF_vars(Deliver) /\ SF_vars(RUN_START) /\ SF_vars(RUN_END)

Spec == Init /\ [][Next]_vars
FairSpec == Spec /\ Fairness

-----------------------------------------------------------------------------
(* What must hold.                                                         *)

\* The variables stay within their types; a frame names a play or an
\* output that exists, and only a playback thread of a taken callback has
\* anything to do.
TypeOK ==
  /\ player \in [Players -> Player]
  /\ plays \in 0..MaxPlays
  /\ calls \in [1..MaxPlays -> Nat]
  /\ done \in Seq([kind : Kinds, by : 0..MaxConnections])
  /\ Len(done) = plays
  /\ link.number \in 0..MaxConnections
  /\ timers \in Nat
  /\ machine.state \in PipelineMachine!States
  /\ \A c \in Contexts : c > plays => stack[c] = << >>
  /\ \A p \in Players : player[p].held <= plays
  /\ \A c \in Contexts : \A i \in DOMAIN stack[c] :
       stack[c][i][1] = "call" => stack[c][i][2] \in 1..plays

Owed(n) == {c \in Contexts : \E i \in DOMAIN stack[c] : stack[c][i] = <<"call", n>>}

\* The callback of every play is held by one player, is about to be called
\* by one thread, or was called once; and a player that holds one has a
\* thread that will end the sound, or is paused with something to resume.
\* Racing ends, replacements, stops and releases neither lose a callback
\* (a wake word would never be followed by a run) nor call it twice.
CallbackOnce ==
  /\ \A n \in 1..plays :
       LET holders == {p \in Players : player[p].held = n}
       IN \/ calls[n] = 1 /\ holders = {} /\ Owed(n) = {}
          \/ calls[n] = 0 /\ holders = {} /\ \E c \in Contexts : Owed(n) = {c}
          \/ calls[n] = 0 /\ Owed(n) = {} /\ \E p \in Players : holders = {p}
  /\ \A p \in Players : LET r == player[p] IN
       r.held # 0 => \/ r.thread # None
                     \/ r.paused /\ (r.current \/ r.pending > 0)

\* The robot shows itself muted exactly while it is, and comes back muted
\* from a lost connection, whatever events of other threads arrive late.
MutedIsShown ==
  muted <=> (machine.state = "muted" \/ machine.underneath)

\* While the pipeline is taken, something that frees it is still to come: a
\* sound or an answer of this connection that was not called back, a delay,
\* a request, or a run whose end frees it.  Nothing takes the pipeline and
\* leaves it to no one, as an event lost between threads would.
Pending ==
  \/ \E n \in 1..plays : /\ done[n].kind \in {"wake", "tts"}
                         /\ done[n].by = link.number /\ calls[n] = 0
  \/ timers > 0
  \/ \E i \in DOMAIN soon : soon[i] = <<"request", link.number>>
  \/ run.asked

TakenIsOwed ==
  link.active => /\ Connected
                 /\ Pending \/ (run.phase # "none" /\ ~link.played)

\* A wake word or a continued conversation takes the pipeline, and the
\* pipeline is free again: no order of sounds, answers, announcements,
\* timers, mutes and lost connections leaves it taken, which would make
\* the robot deaf to every later wake word.
PipelineFrees == []<>~link.active
=============================================================================
