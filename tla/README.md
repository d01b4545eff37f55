# A verification project for fx/reachy

TLA+ models of the concurrent core of this repository, the TLC runs that check
them on small instances, and TLAPS proofs of what matters most for every
instance. The code is the reference: `PROJECT.json` maps each definition to the
lines it stands for. Requirements (`REQ-…`) are those of `docs/specs`.

Contents: [the system](#the-system) · [the plan](#the-plan) ·
[the modules](#the-modules) · [the runs](#the-runs) ·
[fairness](#fairness) · [the proofs](#the-proofs) ·
[what the checks found](#what-the-checks-found) · [limits](#limits)

## The system

A robot runs the **satellite** (`apps/ha-satellite`), an asyncio application
that speaks to Home Assistant, to the robot's daemon and, over one WebSocket
session, to a **groundstation** (`services/groundstation`) that looks for faces
in the robot's camera frames and answers with detections. `packages/` holds the
session client and the wire contracts, `cli/reachyctl` the operator's command
line, `bench`, `provisioning`, `tools` what surrounds them.

```
 Home Assistant ── switches, URL ──► MotorGroupCoordinator ── worker ──► daemon
        │                            GroundstationUrlOwner
        │                                   │ installs
        │                            ReplaceableRemoteSource ◄── FallbackPerception
        │                                   │                      │     ▲
        │                            RemotePerception        LocalPerception
        │                              SessionClient               │
        │                                   │ frames ▲ results     ▼
        │                                   ▼        │        GazeSelector → motion
        │                     SessionRunner → FrameQueue → FramePipeline
        │                          │ counted in             │ publishes
        └── MJPEG viewers ◄── FeedRegistry ◄────────────────┘
```

| component | state it keeps | operations | what is hard | what makes it correct |
|---|---|---|---|---|
| motor-group coordinator (`motor_control.py`, `motor_entities.py`) | per group: confirmed value, gate, transition, commands in flight, captured policy, generation; one operation task, one worker thread, a terminal flag | reserve a transition or a refresh, command, initialize, terminal, aclose | three kinds of thread under one lock, an event set outside it, late phases after cancellation, callbacks that fail half way | no torque write while a command runs; commands only on torqued groups; nothing promoted after terminal; shutdown returns |
| address owner (`groundstation_url.py`) | installed source, partial and outstanding sources, effective and stored configuration, generation, restoration task | submit (three surfaces), replace and compensate, restore, aclose | awaits between every two steps; closes that are refused; a restoration racing a submission; shutdown at any await | one source at a time, built for the stored address and credential; none forgotten; bounded restoration |
| live feed (`feed.py`, `api/mjpeg.py`) | session count, one retained JPEG, revision, viewers, an event | count a session in and out, publish, reserve and release, next_frame, close | a count that changes while viewers write; an event replaced at each change; slots across cancellations | the picture is the sole session's; slots equal open responses; no lost wake-up |
| session runner and pipeline (`session/runner.py`, `pipeline/`, `capabilities/registry.py`) | a bounded queue, a worker, the agreed capabilities, the registry's warm-up | handshake, receive, decode, answer, drain | drop-oldest at the bound, a worker that dies, a drain that is cancelled, a registry that warms up between two looks | order of results, every frame answered once or counted dropped, agreed = routed |
| session client and RemotePerception (`reachy_session_client`, `adapters/groundstation.py`) | transport, sequence, highest applied result, closed flags, session and frame tasks | connect, submit, results, reconnect, aclose | reconnection during a send, cancellation swallowed by a join, results across sessions | one transport; sequence per session; aclose ends and leaves nothing |
| detection sources and gaze selection (`perception_source.py`, `perception_local.py`, `tracking.py`) | which source answers, the local detector, watermarks | supervise, start and stop the detector, select | a detector built in a thread while it is cancelled; identities across replaced sources | one detector, closed once; results only of the current source |
| audio outputs and voice assistant (`adapters/audio_reachy.py`, `esphome/satellite.py`, `behaviour/pipeline.py`) | each player's sound, queue and thread; the pipeline taken or free; the mute; Home Assistant's run | wake, run events, answers, announcements, timers, media commands, mute, disconnect | callbacks outside the lock on whichever thread ended a sound; threads that are superseded; events of other threads delivered late | every completion callback once; the mute shown; the pipeline freed |
| motion adapter and daemon link (`adapters/motion_reachy.py`, `daemon_link.py`) | who owns the body, a generation, an owed write, the state of the link | acquire, observe, calibrate, command, the lifecycle of a body operation, release | the loop and the coordinator's worker write to one daemon; a policy captured under one owner is restored under another; calls refused by a dead link; shutdown between a check and its write | the daemon's own body motion is off before torque changes, comes back only with torque on and never behind a shutdown |
| settings page, CLI, provisioning | — | — | mostly sequential | — |

All the hazards found in the survey are listed in `PROJECT.json` at the line
where they bite, with the properties that cover them.

## The plan

In the order of importance: what can move or power a robot, what can talk for
it, what can be seen of it, then the data path.

1. `MotorGroups`: the coordinator. **Done**; checked and proved
   (`MotorGroupsProofs`).
2. `UrlOwner`: the address owner. **Done**; checked and proved
   (`UrlOwnerProofs`).
3. `Feed`: registry, counted sessions, viewers. **Done**; checked and proved
   (`FeedProofs`).
4. `GroundSession`: handshake, bounded queue, worker, drain and registry of one
   session, shown to implement the abstract `FrameStream`. **Done**; checked
   and proved, the refinement included (`GroundSessionProofs`).
5. `RobotLink` over `SessionClient`: the client's operations with the tasks of
   `RemotePerception`, over transports that may drop at any step. **Done**;
   checked and proved (`RobotLinkProofs`).
6. `Perception` with `GazeSelector`: `FallbackPerception`, the lifetime of the
   local detector, the selector over sources that may be replaced, the guarded
   shutdown. **Done**; checked and proved (`PerceptionProofs`).
7. `VoiceAssistant` with `Playback` and `PipelineMachine`: a Home Assistant
   connection over the two audio outputs. **Done**; checked and proved
   (`VoiceAssistantProofs`).
8. `BodyMotion`: the coordinator composed with `Motion`, the motion adapter, and
   with the application that ticks and shuts down, shown to implement the
   coordinator alone. **Done**; checked and proved (`BodyMotionProofs`).
9. Left: the composition of `RobotLink` with `GroundSession` over a lossy
   transport, and of `UrlOwner` with `Perception`, so that a replacement is
   followed down to the selected directive.

Every module is written to be proved about: constants with named assumptions,
one action per operation, no `RECURSIVE` operator.

## The modules

In all of them an action is what the code does between two points at which
another actor can run: a critical section, a daemon call, or a stretch between
two awaits. Names follow the source. Definitions called `Mutant…` are plausible
bugs, used by no specification; each shows that one property can fail.

### MotorGroups

*State.* `groups` is `_groups`, with `pending` for `policy_capture_pending`;
`inflight` is `commands_inflight` as the set of producers; `policy` stands for
`body_policy` of the one group that has one; `stop` and `term` are
`_terminal_requested` and `_terminal`; `op` is `_operation` and the place its
task has reached; `wk` is the worker thread with the phase it runs, its evidence
and its answer; `boot`, `todo`, `registered` are the progress of `initialize`;
`closer` that of `aclose`; `announced` is what each switch last told Home
Assistant; `torque` is the physical truth; `offWanted` is history.

*Actions.* Producers: `command`, `CommandReturns`. Switches:
`reserve_transition`, `reserve_refresh`, each with its refusal. The task:
`OpStart`, `OpPrepared`, `OpCaptures`, `OpExecuted`, `OpSampled`, `OpRestored`,
`OpCancelled`; `initialize` runs the same phases for each group, so it is the
same task with `req = "init"`, begun by `InitializeGroup`. The worker:
`WorkerCalls`, `_execute_reserved`, `_wait_for_commands`, `_set`,
`_transition_reserved`, `SampleWorker`, `_read`, `_refresh_reserved`. Ending:
`RequestTerminal` (the event), `terminal` (the lock), `aclose` and its waits,
`InitializeCancelled`.

*Failures.* Every callback may raise, a daemon write may take, not take or take
in part, a read may say nothing, and the operation task may be cancelled at any
of its awaits with its phase left running. The application itself cancels only
`initialize`; `Cancellation` admits the rest.

*Assumed.* Torque changes only through the coordinator's writes. The operation
task and the reservations run on one event loop.

### Motion and BodyMotion

*State.* `motion` is the adapter's `_acquired`, `_temporary_ownership`,
`_released`, `_body_policy_pending` and `_generation`; `down` is the daemon
link's state; `auto` is the truth in the daemon: whether it turns the body by
itself; `reachable` whether it takes a call; `loop` the place of the event loop
inside a tick; `life` the lifecycle of the operation in progress, with the
snapshot, the expected generation and the policy it restores; `uncorrected` is
history. `BodyMotion` adds `captured` (`body_policy`, of which `MotorGroups`
keeps only whether there is one), `gaze` (face tracking, fixed at startup) and
`app`.

*Actions.* `Motion` states what each method does to the adapter. A tick is
`observe`, `_assert_body_policy`, `AssertRecords`, `calibrate` (with its own
`acquire`), `command_gaze`; a daemon call and the record it makes of the link
are two steps, and so are a check and the call it guards. `BodyMotion` puts the
lifecycle where `MotorGroups` has a phase that succeeds or fails at will: on the
worker `prepare_worker`, `sample_worker`, `restore_worker` and the torque calls;
on the loop `prepare_loop`, `captured_policy`, `OpExecutes`, `sample_loop`,
`restore_loop`, each deciding the outcome `MotorGroups` leaves open. The
application's steps are `run`, `tick`, `Expresses`, `BuildCancelled`,
`CoordinatorCloses` and `MotionReleases`.

*Abstract specification.* `MotorGroups` itself: each step of `BodyMotion` is one
of its steps or leaves its variables alone, which is proved
(`BodyMotionProofs!Implementation`), so that its safety carries over.

*Failures.* The daemon refuses calls for any stretch of time: a tick goes on and
owes the write, a phase fails, a release gives nothing back. Phases are
overtaken by ticks, by shutdown, and an operation's confirmation may fail.

*Assumed.* A call reaches the daemon or is refused before it is sent, which is
what the SDK does with a dead socket; a call lost after it was sent is not
modelled. The body is the only group (`BodyAlone`): another group's operation
takes the same mutex and of the adapter advances the generation only. Only
`initialize` is cancelled and terminal state is only requested by the
application's `aclose`, as in `main.py`. Measured poses, calibration and the
envelope of a command are left out, and so is the behaviour's own check of a
sample: operations come one after the other, so it never refuses one here.

### UrlOwner

*State.* `src` says what each source holds; `addr` the session it was built for;
`delegate`, `partial`, `outstanding` are where the owner keeps sources;
`effective` and `durable` are `_resolution` and the overrides file; `tx` is the
transition that holds the lock, `rest` the restoration task, `closer` the
progress of shutdown. The generation is compared and never read, so it is kept
as `rest.current`. A source reached by no variable and not gone is a leak:
`NoSourceForgotten`. A configuration has two parts: `session` is the address
with the credential, or `Unset`; `selected` says whether face tracking and the
detection source ask for a remote source at all. A source is built for a
configuration that has both (`Opens`).

*Actions.* `Submit` and `apply_settings_change` for `submit`, `submit_url`,
`submit_merged` and the two reservations: a different session begins a
replacement, while anything else, a changed selection included, is saved and
adopted at once, leaves an installed source as it is and begins a restoration
where there is none; `Join` and `Settle` for what precedes building; `Prepare`,
`PrepareFails`, `Retire`, `Commit`, `StartOrSaveFails`, `StartOvertaken`,
`Compensate` for `_replace`; `InlineRebuild`, `InlineRestart`, `AttemptBegins`,
`AttemptRebuild`, `AttemptRestart`, `RestorationCancelled` for
`_install_fresh` in its two callers; `MarkClosed`, `aclose`, `AcloseSettles`,
`ChainCloses`. `Rebuild` and `Restart` are that function; `inline`
says which caller runs it.

*Failures.* The factory, a start, a close and the save each succeed or fail;
cancellation of the restoration may be delivered or swallowed.

*The end.* `ReplaceableRemoteSource.aclose` detaches the source and awaits its
close with nothing to retain it: one that refuses its last close is held by
nothing while the process ends. `ChainCloses` does the same, and
`NoSourceForgotten` speaks of every state before it.

*Assumed.* The caller of a transition is not cancelled. `_settle_outstanding` empties
its list while it awaits the closes and the model does it in one step; that is
sound because nothing is outstanding while a restoration, the only thing that
could be cancelled there, exists (a conjunct of the proved invariant).

### Feed

*State.* `sessions` is `_sessions` as the set it counts; `payload`, `revision`,
`closed`, `slots` are the registry's fields; `queued` is the frame each session
has received and not decoded; `viewer` is each response, with the revision it
last sent. `epoch` is history: it numbers the changes of the count, and frames
and responses remember the epochs they met.

*Actions.* `authenticated_session`, `SessionEnds`, `ReceiveFrame`, `_decode`
(which publishes, or does not) for a session; `stream_response`, `Looks`,
`PartSent`, `ResponseEnds`, `Disconnects` for a viewer; `close`. A woken viewer
looks in a step of its own, so everything may change between the event and the
look.

*Abstracted.* One frame stands for a session's queue: the properties tell apart
only when a frame was received and when it was published. A refused request and
a HEAD change nothing and are no action.

### GroundSession and FrameStream

*State.* `session` is the task that runs `SessionRunner.run`, with the
capabilities it agreed and routes to and its counts of frames; `queue`, `shut`,
`arrived` are `FrameQueue`'s fields; `worker` is the pipeline task with the
frame in its hand and who has answered it; `registry` and `warming` are the
capability registry and how far its warm-up has come; `service` is the server's
life; `link` the WebSocket; `sent` is history.

*Actions.* `session_endpoint`, `_await_offer`, `Refused`, `_refuse`, `_agree`,
`Vanished` up to the first frame; `_receive_frames` with `put`, `Malformed`,
`_report_malformed`, `_handle_control`, `_pump` and `_drain` for a session that
receives; `get`, `_answer`, `process`, `_deliver`, `_report`, `SendFails`,
`WorkerCancelled` for the pipeline; `warm_up`, `handle_exit`, `lifespan` for
the service.

*Failures.* The peer disappears at any step, also with frames sent and not yet
received; capabilities fail, overrun or answer with another's payload; warm-up
fails; the session task is cancelled wherever it waits, also in its drain, where
the cancellation reaches the worker first.

*Abstract specification.* `FrameStream` promises what a client may rely on: the
frames accepted are taken up in order, the oldest of a full queue is the only
one ever dropped, each frame taken up is answered by each agreed capability
once and before the next, and nothing happens after the end. The mapping reads
the abstract state off the detailed one: `waiting` is the queue, `hand` and
`given` the worker's.

### SessionClient and RobotLink

*State.* `transport`, `sequence`, `highest`, `clientClosed` are the client's
fields; `est` is its lock while the holder establishes a session; `status` and
`got` say what became of each transport and what its peer received. `session`
and `frames` are `RemotePerception`'s two tasks, `closer` its `aclose`,
`applied` the generation and number of the result it keeps; `holder` is another
caller of the client, which the package allows and the satellite does not have.

*Actions.* `SessionClient` states what each operation does to the client
(`connect`, `Opens`, `_establish`, `EstablishFails`, `_discard`,
`ReconnectTries`, `SendsFrame`, `submit_frame`, `_apply`); `RobotLink` puts
them in the tasks: `_hold_a_session`, `results`, `_interpret`, `_reconnect`,
`Retries`, `_exchange` with the `finally` that joins the frames task,
`SessionCancelled`, `_submit_one`, `Written`, `_submit_frames`, `aclose`.

*Failures.* A transport drops at any time, before or after a frame was written;
an attempt fails or is refused at each stage; results come late, twice or out
of order; the session task is cancelled at every await, and its cancellation is
swallowed where it joins the frames task, as in the code.

*Simplified.* Closing a transport counts from the call of `close()`. A `bye`
and the discard happen under the lock and are one step. The lock is a state
only while its holder establishes; the other sections under it have no await
that another task could notice. A protocol error and `NotConnected` end in
`refused` with the transport left to `aclose`, as the code leaves it.

### Perception and GazeSelector

*State.* `remote` is the remote source as seen from here: connected or not, its
reconnections, the result it keeps. `detectors` says what became of each
inference session that was built; `local` is `LocalPerception`; `watch` the
supervisor with the build it awaits; `running` and `since` its fields;
`selector` is `GazeSelector`; `closer` the application's guarded close.

*Actions.* `FallsBack`, `Started`, `check`, `Holds`, `Stopped`,
`WatchCancelled` for the supervisor; `_run`, `_look`, `_close_when_built` for
the local source; `aclose`, `ClosesRemote`, `ClosesLocal` and `_aguard`, the
deadline after which `aclose` is cancelled; `Tick` and `reseed_motion` for the
behaviour; the link's and time's steps.

*Failures.* A build fails or takes for ever; the supervisor is cancelled in its
sleep, while a build is in its thread (which is then disowned and closed when it
is done), and while it closes the local source, where the code swallows the
cancellation.

*Assumed.* The remote source behaves as `RobotLink` proves: what it keeps never
goes back. Choice of a face, association and staleness are reduced to *fresh* or
*stale*.

### VoiceAssistant, Playback and PipelineMachine

*State.* `player` is what each output's lock protects: the sound, the queue of
the next, the callback held, the thread whose generation is current. `stack` is
what the event loop and each callback's thread still have to do; `calls` counts
the calls of each callback. `link` holds the connection's flags (`active` is
`_pipeline_active`), `muted` is `ServerState.muted`, `machine` the behaviour's
`PipelineMachine`, `soon` the loop's queue of `call_soon_threadsafe`, `run` Home
Assistant's pipeline run.

*Actions.* Each method of `ReachyPlayback` is an operator on a player's record;
its threads are `_resolve_and_begin`, `Skips`, `_begin`, `_finished`, `Detach`.
The protocol's handlers are `wakeup`, `stop_`, `_set_muted`, the events
`RUN_START` to `RUN_END`, `Announce`, `TIMER_FINISHED`, `MediaCommand`,
`MediaAnnouncement`, `connection_lost`; the callbacks
`_on_wakeup_sound_finished`, `_tts_finished` with `Settles`,
`_play_timer_finished`, `MediaFinished` run on whichever thread ended or
replaced the sound.

*External.* Home Assistant starts a run it was asked for, sends its events in
order and ends it.

*Simplified.* A thread that was superseded returns at its next look at the
generation and touches nothing, so only the current one is kept. The stop word
may be applied at any time after it was heard. `INTENT_PROGRESS` and `TTS_END`
with an answer's URL are one action, `play_tts`. Plays without a callback are
not numbered. `listen_during_wake_sound` is never set by the application and
`start_listening` has no caller; both are left out. There is one connection at
a time, and the release of the outputs comes during the last one.

## The runs

| run | instance | states | shows |
|---|---|---|---|
| `motor_groups` | 2 groups, 1 producer, 3 operations for the body and 1 for the other group, cancellation on | 177 000 | the safety of writes, commands, policy and shutdown; operations and `aclose` end |
| `motor_off` | the same, cancellation off | — | violated: a refused off request does not keep the gate closed |
| `url_owner` | 3 sources, 2 sessions and none, 2 selections, 2 attempts | 63 000 | exclusion, agreement, retention, shutdown; restoration and shutdown end |
| `url_reason` | the same | — | violated: an owner may rest without source, restoration or reason |
| `feed` | 2 robots, 3 viewers, 2 slots, 3 frames, 3 connections | 121 000 | eligibility, slots, wake-ups; viewers finish at shutdown |
| `session` | 3 capabilities, 2 registered, 2 offers, queue of 2, 3 frames, 2 cancellations | 468 000 | implements `FrameStream`; wake-ups; agreed = routed; the session ends |
| `robot_link` | 3 transports, 2 frames on each, 1 call of another holder | 255 000 | one transport, numbering, results never go back; the link comes back, `aclose` ends |
| `perception` | 2 builds, 2 generations, 2 results in each | 468 000 | detectors held, fresh results followed; the source follows the link, shutdown ends |
| `voice` | 2 outputs, 2 plays with a callback, 2 connections | 436 000 | callbacks once, the mute shown, a taken pipeline is owed something that frees it, and freed |
| `motion` | the body alone, startup and 2 operations, face tracking on or off, a link that fails | 177 000 | yaw off before torque, back only with torque and not behind a shutdown; the policy comes back; a refused quiesce is made again |
| `motion_calibrate` | the same | — | violated: the next face takes the body, which the application owned since startup |
| `feed_viewer` | 1 viewer | — | violated: a viewer outlives its session |

*Why the bounds are enough.* Motor groups: one operation exists at a time, so
two groups give every overlap of an operation with refusals and commands of its
own and of another group; three operations of the body are the startup
confirmation, an operation whose phase outlives it, and the one that follows.
`MaxGeneration` is the only cap. Address owner: at most one source runs, one is
retired or partial and one is outstanding, so three identities never run out
before an interesting case; the guards compare two sessions at most, and ask
of each whether it is unset; two attempts give a first, a last, and one in between is a repetition;
nothing else is capped. Feed: two sessions are every count the code tells apart
(none, one, more); three viewers for two slots meet the limit; `MaxRevision`
and `MaxEntries` cap what grows, and three connections allow the count to go
1→0→1 and 1→2→1 with a third change to spare.

Session: with room for two and three frames the queue is empty, full and
overflowing while one is in the worker's hand; two offers in different order
meet a registry in which each entry is absent, warming, unhealthy or ready; a
second cancellation is the one that reaches the drain. Robot link: three
transports are a session, its replacement and the one that replaces that, the
least in which a frame written to the first can meet the third; two frames make
a late and a newest result. Perception: two builds are one that is disowned and
one after it; two generations and two numbers give every order the selector's
comparison tells apart. Voice: two numbered plays are a sound and the one that
supersedes it, on the same or the other output; a third adds another pair of
the same kind; two connections are one that is lost and the next.

Motion: three operations are the startup, one that keeps or loses the captured
policy, and one that finds what that left; ticks and changes of the link are not
bounded, and only operations advance what is counted, since an acquisition
follows a release or a restore.

Types are an invariant of every module, proved for every value of the
constants; only those of `BodyMotion`, which also relate the application's
captured policy to the coordinator's flag, have a run as well.

*Deadlock* is not checked: each system may stop (closed, or nobody asks).

*The properties* are stated in the modules, each with the requirement it comes
from. No run uses symmetry, since the passing runs check liveness.

## Fairness

`MotorGroups`: the loop runs ready tasks, the worker thread runs, a daemon call
and a command return (both have timeouts), and `terminal()` obtains the lock.
Nobody is obliged to command, to request or to shut down, and cancellation is
never obliged to come. `UrlOwner`: the loop runs what is ready; factories,
starts, closes and sleeps return, as the code bounds them. Nobody is obliged to
submit or to shut down. `Feed`: a woken viewer looks and an ending response
ends. Writing a part is not fair, because a client may not read, so
`ParkedViewersFinish` excludes a viewer that is writing. So far all of it is
weak fairness.

`GroundSession`: weak fairness of the session task up to its first frame (the
handshake has a timeout), of the pipeline (a capability has one) and of the
drain; nobody is obliged to send, to disconnect or to stop the service.
`RobotLink`: the tasks run, an attempt ends (the WebSocket library bounds it).
Strong fairness, because a retry is enabled again and again rather than
continuously, says that a groundstation which is there again and again is
reached (`Opens`, `Connected`, `Reconnected`) and that only so many results are
left to read from a connection that is gone (`_reconnect`). `Perception`: tasks,
threads and deadlines go on; a detector that is built again and again is built
at last (strong). `VoiceAssistant`: threads, callbacks and timers are got to;
strong fairness of `Deliver`, `RUN_START` and `RUN_END` says that the event loop
reaches what was handed to it and what Home Assistant sends, however many other
messages come first, and that Home Assistant starts what it was asked for and
ends every run, which is its contract and not this code's. `BodyMotion`: weak
fairness of the worker, of ticks and of what follows a shutdown that has begun;
strong fairness of the operation on the loop, which runs its callbacks in order
and so gets to one however many ticks it runs. The link owes nothing:
`OwnershipIsAsserted` is conditional on a daemon that in the end stays
reachable.

## The proofs

| theorem | of | states |
|---|---|---|
| `MotorGroupsProofs!Invariance` | `IInv` | the inductive invariant |
| `MotorGroupsProofs!TypeCorrectness` | `TypeOK` | types; the daemon is only asked for on or off |
| `MotorGroupsProofs!Quiescence` | `QuiescedBeforeWrite` | no command in flight during a write |
| `MotorGroupsProofs!CommandSafety` | `CommandsOnlyTorquedGroups` | commands meet torque that is on |
| `MotorGroupsProofs!RestoreSafety` | `NoRestoreAgainstUnknownTorque` | the policy is handed back only with torque on |
| `MotorGroupsProofs!Quiet` | `ClosedIsQuiet` | nothing runs after aclose |
| `MotorGroupsProofs!TerminalIsFinal` | `TerminalWins` | action property |
| `UrlOwnerProofs!Invariance` | `IInv` | the inductive invariant |
| `UrlOwnerProofs!TypeCorrectness` | `TypeOK` | types; the attempt never passes `Attempts` |
| `UrlOwnerProofs!Exclusion` | `NoOverlap` | never two sources with a session |
| `UrlOwnerProofs!Agreement` | `SourceMatchesEffective` | stored = effective, and the source was built for its address and credential |
| `UrlOwnerProofs!Retention` | `NoSourceForgotten` | no source is leaked before the chain is closed |
| `UrlOwnerProofs!ShutdownHolds` | `NothingAfterShutdown` | action property |
| `FeedProofs!Invariance` | `IInv` | the inductive invariant |
| `FeedProofs!TypeCorrectness` | `TypeOK` | types; slots are never negative |
| `FeedProofs!Eligibility` | `SoleSessionsPicture` | the retained frame is the sole session's |
| `FeedProofs!Capacity` | `SlotsAreHeld` | slots = open responses ≤ `MaxViewers` |
| `FeedProofs!WakeUps` | `NoLostWakeUp` | a sleeping viewer has seen everything |
| `GroundSessionProofs!Invariance` | `IInv` | the inductive invariant |
| `GroundSessionProofs!TypeCorrectness` | `TypeOK` | types; the queue never passes its bound |
| `GroundSessionProofs!WakeUps` | `NoLostWakeup` | a sleeping pipeline has nothing to do |
| `GroundSessionProofs!Routing` | `AgreedIsRouted` | frames go to exactly what was agreed |
| `GroundSessionProofs!Refinement` | `KeepsPromise` | the session implements `FrameStream` |
| `RobotLinkProofs!Invariance` | `IInv` | the inductive invariant |
| `RobotLinkProofs!TypeCorrectness` | `TypeOK` | types |
| `RobotLinkProofs!SingleTransport` | `OneTransport` | no connection leaked or replaced |
| `RobotLinkProofs!Sequences` | `SequencesPerSession` | numbered from zero, no gap |
| `RobotLinkProofs!NeverGoesBack` | `AppliedInOrder` | action property |
| `PerceptionProofs!Invariance` | `IInv` | the inductive invariant |
| `PerceptionProofs!TypeCorrectness` | `TypeOK` | types |
| `PerceptionProofs!DetectorsAreHeld` | `DetectorsHeld` | no inference session leaked |
| `PerceptionProofs!FreshFollowed` | `FreshIsFollowed` | nothing fresh is hidden behind what was |
| `BodyMotionProofs!Implementation` | `Spec` of `MotorGroups` | the composition implements the coordinator |
| `BodyMotionProofs!BodyInvariance` | `IInv`, `BInv` | the inductive invariant |
| `BodyMotionProofs!QuiescedTorque` | `YawOffBeforeTorque` | the daemon is quiet before torque changes |
| `BodyMotionProofs!ReturnsTorqued` | `YawOnOnlyTorqued` | action property |
| `BodyMotionProofs!RestoreIsUndone` | `NoRestoreBehindTerminal` | action property |
| `BodyMotionProofs!BodyIsKnown` | `TaskInv`, `AppTyped`, `BodyIsDaemons` | the rest of the inductive invariant |
| `BodyMotionProofs!BodyTypes` | `BodyTypeOK` | types; a policy is kept exactly when the coordinator says so |
| `BodyMotionProofs!PolicyReturns` | `PolicyComesBack` | with tracking off, an open gate means the daemon's yaw is on |
| `VoiceAssistantProofs!VoiceIsKnown` | `VoiceInv` | the inductive invariant |
| `VoiceAssistantProofs!VoiceTypes` | `TypeOK` | types; a frame calls only a play that exists |
| `VoiceAssistantProofs!CallbacksAreCalledOnce` | `CallbackOnce` | every callback is held, owed or was called once |
| `VoiceAssistantProofs!CallbacksFollowPlays` | `CallsFollowPlays` | action property: a step calls one callback at most, of an earlier play |
| `VoiceAssistantProofs!TakenPipelinesAreOwed` | `TakenIsOwed` | what frees a taken pipeline is still to come |
| `VoiceAssistantProofs!MuteIsShown` | `MutedIsShown` | muted exactly while the mute is shown or underneath |
| `VoiceAssistantProofs!MuteIsAllShown` | `MutedShowsNothingElse` | a muted robot shows the mute or a lost connection |

They hold for every value of the constants, from the assumptions named in the
modules: `MotorGroupsAssumption` (the body is a group, generations are bounded
by naturals), `UrlOwnerAssumption` (the special values are distinct and there is at
least one attempt) and `FeedAssumption` (sessions and viewers are finite, the
bounds are naturals, `None` is not one), `GroundSessionAssumption` (the
registered capabilities and the offers are sequences of capabilities, the queue
has room for at least one), `SessionClientAssumption`, `RobotLinkAssumption` and
`PerceptionAssumption` (bounds are naturals, `None` is none of the values it is
compared with), `PlaybackAssumption` (room for at least one play, `None` is no
state of a thread), `VoiceAssumption` (the speech and the music are outputs,
there is at least one connection), and `BodyAlone` for the composition of the
coordinator with the motion adapter.

*The coordinator.* None of its properties is inductive. `QuiescedBeforeWrite`
needs the gate to stay shut from the request of a write to the end of its phase,
also when the task that asked was cancelled and another operation has begun
(`WritesBehindGates`); that needs the worker to be on the task's own operation
whenever the task waits for it (`InStep`). `CommandsOnlyTorquedGroups` needs an
open gate to mean torque that is on, and so every piece of evidence that leads
to opening one (`TorqueIsKnown`). The promise about the body's policy needs the
policy to be captured wherever the torque or the confirmed value may change
(`PolicyIsKept`). The steps are first summarised: `GroupsStep` says that
generations grow, that one step alone opens a gate and who confirms a value;
`WorkerStep`, `LearningStep`, `TaskStep` and `OtherStep` say how the worker and
the task move; then each part of the invariant is one lemma over the summaries.

*The address owner.* `NoOverlap` is not inductive: whether the next step may
start a source depends on where the transition and the restoration are. The
invariant adds, for every place a transition can be at, which sources it holds
and in which state (`tx.cand` is built, not running, while something is being
retired), and for the restoration that it never runs beside a transition past
its join, that nothing is outstanding or installed while it exists and that its
settings are the effective ones as long as its generation is current. That
nothing is installed is what a selection adopted beside a running source needs:
it changes what is in effect and overtakes no restoration. Each action is one
step of the proof; most touch one or two conjuncts.

*The feed.* The safety properties are inductive together with two facts: the
epoch leaves room for every counted session to be counted out (`EpochBound`, an
artefact of the cap), and only a counted session has received a frame
(`Received`). `Settling` does the work for the three ways a count changes;
`Waking` shows that after `_wake` no viewer waits. The library's facts on
finite sets carry the count of slots.

*The session.* The refinement is proved from an invariant with one part for each
pair of actors: `NoLostWakeup` for the queue and its event, `TasksInStep` for
the session and its worker (a worker runs only between the agreement and the
end, and a session ends only after its worker), `HandInStep` for the frame in
the worker's hand and who answered it, `AgreedIsReady` for the registry (a
ready entry stays ready), `DropsAreFrames` for the count. Each action then maps
to one action of `FrameStream` or to a stutter: the drain, the wake-ups, the
registry and the decoding are stutters.

*The link.* `OneTransport` needs to know who holds each connection
(`Connections`) and that the lock's holder is where its task says (`Tasks`).
`SequencesPerSession` needs the number a submitter carries to be the next of the
transport it carries, also when that transport is no longer the client's
(`Numbering`). `AppliedInOrder` is an action property: the invariant ties
`highest` to what is shown (`Shown`) and a transport to the generation it was
established in (`InOrder`, `Reading`).

*Perception.* `DetectorsHeld` needs the local loop, its detector and the
supervisor in step (`LocalInStep`, `Holders`); `FreshIsFollowed` is about two
watermarks and two sources, and is inductive with `Shown`: what a source keeps
is never older than its watermark.

*The body's motion.* `Implementation` takes each action of `BodyMotion` to the
action of `MotorGroups` it conjoins; the coordinator's `IInv` is then at hand.
`BInv` adds that the daemon's yaw is off from the carried write of a preparation
to the restore (`YawIsOff`), which the ticks cannot disturb because they only
ever turn it off; that the lifecycle on the worker is where the worker's phase is
(`LifeInStep`); and that an operation only gets to its restore over torque that
is on (`RestoreIsKnown`, from the coordinator's `TorqueIsKnown`).
`YawOnOnlyTorqued` has two writers, the restore and the release: the first is
behind `RestoreIsKnown`, the second behind `safe_to_restore_body_policy`, proved
of the coordinator before.

`PolicyComesBack` relates an open gate to the daemon, across all that an
operation does between, and needs three more parts. `TaskInv`: an operation is
of the current generation, its worker's phase does not outlive it while nobody
shuts down, and a phase that confirmed nothing leaves the gate shut; none of
this holds of the coordinator alone, whose tasks may be cancelled anywhere.
`AppTyped`: the coordinator's flag is the application's policy. `BodyIsDaemons`:
with tracking off nobody but an operation takes the body, so the snapshot of one
that finds no policy held is "automatic", a held policy is never "off", a
restore that was recorded was written, and an open gate has nothing held and the
yaw on. The last follows from the others at the one step that opens a gate.

*The voice assistant.* A play's callback is a token: held by a player, owed by a
context's stack, or called. `Conserved` says that each is in exactly one place,
over the functions from players and contexts that their contents abstract to.
`ExchangeStep` proves it preserved once and for all, for a step that calls some
tokens, takes from one context and one player and gives to both; each method of
a player then only has to say what it holds before and after, and each action is
an instance (`KeepsStep`, `HandsStep`, `PlaysStep`, `DoesStep`). That a token
held is one that ends needs `Ends`: a player that loads has something to load,
or a thread that took it, so that a pause at that moment leaves something to
resume. `Handling` carries the mute: of all events only the mute switch's own
change whether the machine shows it, whatever a thread emits late.

`TakenIsOwed` is the safety under `PipelineFrees`: the liveness says that the
pipeline is freed by a fair Home Assistant and fair threads, the invariant that
there is always something they can do. It is inductive with the types and the
tokens: a wake sound's callback becomes a request, on the loop at once or
through `soon`; a request becomes a run; a run's end frees, or has played an
answer whose callback does; a callback of a connection that is gone is nobody's.
That needs each connection to be numbered apart (`link.number` is 0 before the
first), as each is an object of its own.

*Operators.* Lemmas about the model's operators carry the proofs: `OwesConcat`
and `OwesTail` (what a stack owes), `Playing`, `Stopping`, `Pausing`, `Resuming`
(what a player's methods leave), `Handling` (the machine), `Settling`, `Waking`
(the feed), `Finishing`, `Committing`, `Failing` (how the coordinator's
operations end).

*Only model-checked:* liveness
(`OperationEnds`, `AcloseReturns`, `RestorationEnds`, `ShutdownEnds`,
`ParkedViewersFinish`, `SessionEnds`, `LinkComesBack`, `CloseEnds`,
`SourceFollowsLink`, `PipelineFrees`, `OwnershipIsAsserted`), which rests on
fairness and is out of the prover's reach; every other property of a passing
run is stated by a theorem.

## What the checks found

- **A refused off request does not hold** (`motor_off`). An off request that
  meets a running refresh or enable closes the gate and is refused; the running
  operation then commits and opens the gate. REQ-093 asks a refused request to
  keep the gate closed.
- **Nothing to restore, and nothing restored** (`url_reason`). A replacement may
  begin with no source installed: a close was refused and the source is
  outstanding, or a restoration is still rebuilding it. It closes the one or
  cancels the other before it asks its factory; if the factory then fails, the
  code assumes a running source that is not there. TLC's shortest traces are of
  these two kinds, and all end in `Settle` and `PrepareFails`.
- **A viewer outlives its session** (`feed_viewer`). A viewer that is writing
  while the count leaves one and returns goes on with another session's frames.
- **The body is given away under its owner** (`motion_calibrate`). With torque
  off at startup the coordinator keeps the policy it captured then, "automatic";
  the application acquires the body afterwards and the coordinator is not told.
  The next enable restores the old policy: the daemon turns the body while face
  tracking believes it owns it, until a face is calibrated and `calibrate`
  takes the body again, in the branch its comment holds to be unreachable.

Seen while modelling, and not the subject of a run:

- A selection switched off is left to the next start and its source runs on
  (`groundstation_url.py:685-690`). A replacement that then retires that source
  and fails to start its own rebuilds nothing, because `build_remote_source`
  answers `None` for the configuration in effect, which `_install_fresh` (1035)
  takes to mean that "there was no remote source before".
- When an enable is confirmed and its reseeding then fails
  (`motor_control.py:660`), the confirmed value changes and Home Assistant is not
  told.
- A frame that waited in its session's queue while the count was not one is
  published once it is (`pipeline/runner.py:224`).
- A shutdown between the worker's check after its write
  (`motion_reachy.py:1089`) and `restore_loop` leaves the daemon's yaw on with
  the capture held, against the docstring at 1071-1078;
  `NoRestoreBehindTerminal` speaks of the phase, which is all the code covers.
- A shutdown between the write of a preparation and `_commit_quiesce` leaves the
  daemon's yaw off: `release` gives back only what is acquired.
- After the stale restore of `motion_calibrate`, a tick's repeated quiesce may
  come after the worker's write and before its commit: the body is then nobody's
  and its yaw is off.

- A client's `close` closes the transport before the drain, so frames already
  accepted are never answered, while the docstring at `session/runner.py:448`
  speaks of finishing them.
- `FallbackPerception.aclose` cancels its supervisor; inside
  `LocalPerception.aclose` that cancellation is swallowed, and only the
  application's deadline ends the shutdown (`ShutdownEnds` has that case).
- A remote source rebuilt for another address starts at generation 0, below the
  selector's watermark of the one before (`adapters/groundstation.py:142`,
  `:382`); the selector keeps a fresh local directive when the link comes back
  with a stale result.
- A mute, a stop or a disconnect during the wake sound calls the superseded
  callback, which asks for a run. A mute does not silence a ringing timer, and
  a timer supersedes an announcement. A `listening` emitted on a playback thread
  may be delivered after `disconnected`.
- The stop word is active by its membership in `active_wake_words`, which
  `VoiceAssistantSetConfiguration` (`esphome/satellite.py:842`) replaces, also
  while an answer plays.

## Limits

Left out of the modelled components: diagnostics and status, ages and clocks,
validation of settings, wording, part formatting. Time appears only as order:
a timeout is a step that fails.

Not modelled: inference and model loading, the numeric gaze controller
(real-valued filters), the streaming of audio, ducking and volume, a second
simultaneous Home Assistant connection, the packet encoding, the settings page,
the command line, provisioning, the wire contracts and the benchmarks; the
reasons are in `PROJECT.json`. Much of what the map does not cover is of this
kind: data, numbers, text, or steps that run one after the other.

To repeat everything: `tlc -config X.cfg M` for each run of `PROJECT.json`, and
`tlapm` for each module whose name ends in `Proofs`.
