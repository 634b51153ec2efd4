# A TLA+ model of hypxrvoice

hypxrvoice is a voice-command daemon for a desktop in a headset. A microphone stream feeds a
gate; behind the gate are a voice detector (VAD), a speech recogniser (ASR) and an intent tier
that acts on the compositor. A push-to-talk (PTT) key or a wake phrase opens the gate. The
hard part of the program is not any one of these but their coordination: one thread delivers
audio, another runs every handler to completion, some of which block for as long as a
recognition takes, and half a dozen flags, timers and buffers must agree after each of them.
That is what is modelled first. Around it stand a frame-level model of the detector and of the
whole-window buffer, and a model of what an accepted utterance becomes: a snapshot of the
desktop, an action resolved against it, a plan, and commands run one by one on a desktop that
changes meanwhile.

Source paths are relative to `src/`; `Daemon.cpp` alone means `src/src/Daemon.cpp`.

## 1. Inventory

| Part | State it keeps | Operations | Hard behaviour | What makes it correct |
|---|---|---|---|---|
| Activation machine (`ActivationMachine`) | mode, fallback, environment, state, who activated, key held | `configure`, `onEnv`, `onPttStart/Stop`, `onWakeDetected`, `onSpeechEnd`, `onListenTimeout`, `onTranscribeDone` | polls and reloads during an utterance; events out of order | the base state is never stale; an utterance is never cut short; only a press opens a gate that is shut |
| Daemon (`Daemon`) | the machine; the gate; the window's flags, deadline and outcome; who owns the panel; the audio queue shared with PipeWire's thread | `onAudio` (other thread); `drainAudio`, `tick`, `ptt start/stop/toggle`, `reload`, `status` | commands served before queued audio; deadlines; a blocking ASR; a gate shut by a poll | the gate obeys the machine; a window loses nothing that fits, is heard once, always answers, always closes |
| Capture (`AudioCapture`) and supervision (`Daemon::applyMicPolicy`, `tick`) | stream, failed latch, retry time, frame count | start, stop, reconnect | errors, stalls, refused connections, sources that move | capture comes back; attempts are backed off; no stream nobody wants |
| Pre-roll ring (`PreRoll`) | the last `preroll_ms` of gated audio | push, drain, clear | clock gaps, reconnects | contiguous and bounded |
| Whole-window buffer (`PttWindow`) | the audio of the open PTT window | begin, push, finish | a ceiling on what is retained, a cap on what is transcribed, silent tails | what is transcribed is the window, but for its dead tail and what exceeds the cap |
| Voice detector (`Vad`) | frame counters, noise floor, retention ring, utterance | push, flush, presence check | boundaries of every counter; a clock that counts samples | segments disjoint, in order, with their back-pad |
| Transcription (`Pipeline`, `WakeWord`, `Asr`, `VocabBias`) | the loaded model, the bias prompt | processSegment, load, setVocabBias | prompt budget, wake-phrase matching | addressed speech accepted, the rest not |
| Intent tier (`Intent`, `IntentPipeline`) | none between calls | process: snapshot, rule parse, finalizeAction, plan, run | names nobody has, "this" and "here" that resolve to nothing, a chain of fallbacks | what was pointed at or named is what is acted on, or it is asked for |
| Llama backend (`LlamaIntent`, `Grammar`) | the loaded model | load, parse | a model that answers anything | its answer goes through `finalizeAction` |
| Desktop context and gaze (`DesktopContext`, `GazeResolver`) | a snapshot | resolveDeixis, projectPlacePoint | dwell and ambiguity margins | "this" is resolved or asked about, never guessed |
| Executor (`Executor`) | none between calls | planFor, validateStep, awaitMonitor, runPlan | monitors that appear late or never, failing steps | only validated steps run, in order, each once |
| HUD client and feedback (`HudClient`, `Feedback`, `HudModel`, `Tts`) | bus, panel id, owner and runtime state | show, hide, poll, three signal handlers | hypxrhud vanishing and returning, fire-and-forget updates | every message reaches the user by panel or by notification |
| Control socket (`ControlSocket`, `ctl_main`) | listening socket | start, serviceOnce, stop | a client that sends no line; two daemons | one answer per request |
| Audio dump (`AudioDump`, `Wav`) | the window being dumped | beginWindow, append, endWindow, prune | retention | the newest `keep` windows |
| Compositor poll, configuration, entry points, logging | — | parse | — | — |

The daemon calls everything else synchronously from one epoll loop (`Daemon.cpp:781-809`).
The only concurrency inside the process is PipeWire's thread, which appends to `m_queue` under
a lock, counts frames and latches stream errors. Everything outside it (clients of the control
socket, the compositor, the sources, the clock) acts between handlers.

`PROJECT.json` lists the same components with what is modelled of each, and under "hazards"
where in the code each difficulty bites and which property covers it.

## 2. Modules

    Activation ──────────┬─> ActivationMachine ─> MCActivationMachine
       │                 └─> VoiceDaemon ───────> MCVoiceDaemon
       │                        │  └── INSTANCE PttSession (abstract)
    ActivationLemmas ──> ActivationProofs
                    └──> VoiceDaemonProofs ─> VoiceDaemonStepProofs
    HudClient ──────────────────────────────────> MCHudClient
       └──> HudClientProofs
    Segmentation ───────────────────────────────> MCSegmentation
       └──> SegmentationProofs

    Lists ─> DesktopContext ─> GazeResolver ─> RuleIntent ─> Intent ─> Executor ─> VoiceCommand ─> MCVoiceCommand
                                                                          │            │  └── INSTANCE PlanRun (abstract)
                                                                     ActionProofs ─────┴──> VoiceCommandProofs

| Module | Models |
|---|---|
| `Activation` | `CActivationMachine`'s events as functions from a machine record to a machine record, and `baseGate`, the table from mode, fallback and environment to the base state |
| `ActivationMachine` | those events as actions in any order: the machine as its own tests drive it. The daemon itself never calls `onWakeDetected`, `onSpeechEnd` or `onListenTimeout` (a wake-word utterance is matched and transcribed within one `handleSegment`), so what concerns a wake-word capture in progress is a property of the class |
| `PttSession` | the abstract promise to whoever holds the key: a press opens a window, it answers, it closes only answered, it does close |
| `VoiceDaemon` | `CDaemon`: queue, gate, detector, window, supervision, panel |
| `HudClient` | `CHudClient` and the choice in `Feedback` between panel and notification, against hypxrhud and the bus, which are external |
| `Segmentation` | `CVad` and `CPttWindow`, frame by frame, and the calls the daemon makes on them during one window |
| `Lists` | leaving elements out of a list, by a fold, so that it can be reasoned about |
| `DesktopContext` | the snapshot and its parser's merges, and how a spoken name becomes a monitor or a window: scores, ties, spatial words |
| `GazeResolver` | the gaze queries around a word, the vote, its representative sample, and the point "here" stands for |
| `RuleIntent` | the rule parser: from words to a raw intent |
| `Intent` | `finalizeAction`: a raw intent, the gaze and the snapshot become an action or a question |
| `Executor` | `planFor` and `validateStep`: an action and the switches become a plan or a refusal |
| `VoiceCommand` | `IntentPipeline::process` as steps: three queries, resolution, the runner, `awaitMonitor`; and the desktop, which is external |
| `PlanRun` | the abstract promise of running a plan |
| `MC*` | the environments the runs use |
| `*Lemmas`, `*Proofs` | theorems and their proofs |

### How VoiceDaemon corresponds to the code

Each handler of the main thread is one action, because it runs to completion and takes the
queue lock once: a chunk that arrives while it runs is indistinguishable from one that arrives
just after it. A handler is written as the calls it makes, in the order it makes them; each
call is a function from a view (a record of all the members) to the next view:

    pttStop  = applyMicPolicy o closePttWindow
    tick     = watchFrames o updateListeningHud o applyMicPolicy o [closePttWindow if due] o poll
    closePttWindow = answer o updateListeningHud o settle o transcribeRest o drainAudio

| Variable | Members |
|---|---|
| `machine` | `m_machine`, with `m_env` |
| `stream` | `m_audio` running / failed, its source, `m_captureRetryAtMs`, `m_lastFrameCount`, `m_lastFrameChangeMs` |
| `audio` | `m_queue`, `m_preRoll`, `m_pttAudio`, and the utterance `m_vad` has open |
| `gate` | `m_captureActive`, `m_pttWholeWindow`, `m_pttSpent`, `m_pttDeadlineMs`, `m_windowProduced`, `m_lastOutcome` |
| `hud` | `m_hudListening`, `m_hudResultShown`, and the panel a working hypxrhud would be displaying |
| `asr` | `m_asr.loaded()` |
| `captured`, `speech` | the world: how many chunks there have been, and which are speech |
| `past` | history only: what was given to the ASR, what was given twice, when the gate last moved, what this window told the user |

Abstractions, and why they lose nothing the properties are about:

- *A chunk* is a stretch of PCM long enough for the detector to decide on, speech or not, and is
  named by its place in capture order. Buffers are sets of chunks. What is below a chunk (the
  detector's frame counters, its back-pad) is `Segmentation`'s; the ring's clearing on a clock gap
  is not modelled. The back-pad overlaps a segment with what came before it; `past.heard` counts
  an utterance's own voiced chunks.
- *The window's buffer* takes what `CPttWindow::push` takes: the oldest `Retention` chunks of a
  window, twice `MaxUtterance`, and refuses the rest; in the code the chunk at the ceiling is cut
  in two. What it gives the ASR is what `finish` gives: nothing behind the last audible chunk, and
  of the rest the first `MaxUtterance` chunks. The run-out kept behind the last audible frame
  (`kTailKeepMs`) is less than a chunk. A press in an open window re-arms its deadline, so that a
  window can outlast both limits. A chunk the detector takes for speech is audible to `finish`,
  and so are those of the constant `Faint`: `finish` measures the whole window, with a lower
  threshold. Where the whole window's floor is the higher one, the window may be called silent,
  which is a free verdict here, and is `Segmentation`'s subject. The detector also ends an
  utterance by its length; the chunk at which it does so is one outside `speech`, and it may be in
  `Faint`.
- *Verdicts.* What the recogniser and the intent tier make of an utterance is chosen freely:
  silent, nothing, no command, command. A batch of segments handed over in one drain gets one
  verdict, that of the last one the user hears about.
- *Clocks* are "armed" and "has run out". The window's deadline, the retry time and the stall
  time may each run out at any moment after they are armed, so every race with them is there.
- *Reload* may change the mode, the fallback and whether the model is loaded. The other
  configuration values are constants of an instance. A reload that fails to parse changes
  nothing and is a stuttering step.
- `audio.headset_source` is set, as shipped. The daemon is configured and polled once before its
  first event, as `init()` does.
- *Panels* stay until they are replaced or taken down. A result panel fades by itself in hypxrhud
  after its hold; no property looks at a result panel's end. The listening view is persistent.
- Not modelled: `status` (reads only), the audio dump, the vocabulary bias, the partial
  transcript; an utterance that is only the wake phrase (accepted with no text) is "command".

### How HudClient corresponds to the code

`VoiceDaemon` assumes a hypxrhud that works; `HudClient` is about one that does not. `client`
holds `m_cfg.feedback.hud`, `m_bus`, `m_panelId`, `m_ownerPresent` and `m_runtimeState`. A method
that calls the bus is a function from client, service and inbox together to the same after it,
because the call changes both sides; what the outside decides (whether the bus opens, whether
the service can be activated, accepts a panel, dies once it has answered) is an argument. The
service's own moves (start, crash, a runtime that comes or goes, a panel that expires) are
actions, and each leaves a signal in `inbox`, which only `poll` reads: between two polls the
client acts on what it knew before. `told` records what became of the last message: displayed,
notified, or neither.

Assumed: the bus delivers in order and its connection does not break; `refreshOwnerAndState`'s
two calls see one service; a fire-and-forget update is carried out at once if its panel is there;
`feedback.notify` is on. A restarted service numbers its panels from 1 again, so a stale id can
name a new panel. The transcript, action and rejection messages differ in wording only.

### How Segmentation corresponds to the code

Time is counted in analysis frames (20 ms in the code), and every duration of `SVadConfig` is a
number of frames. A frame is its level, a small number that stands for its RMS; the energy
threshold, the factors 1.6, 1.5 and 0.5 and the 20th percentile are computed on levels as the
code computes them on RMS values. A buffer is the sequence of its frames' *numbers*, so that a
frame that is lost, repeated or moved shows. `vad` has the members of `CVad`, with two
histories: what it has emitted, and what it took each frame for.

The actions are the calls the daemon makes: `Open` (`openCaptureWindow` with any pre-roll),
`Drain` (`drainAudio` with any chunk of one or two frames, the first endpoint finalising a whole
window), `Reconnect` (`startCapture` in an open window: a new detector, the window's own buffer
kept), `Release` (`closePttWindow`) and `Shut` (a wake-word gate that a poll shuts, flushing
nothing). Nothing survives `Open`, so a behaviour is one window, and ends: the run does not
check deadlock. Left out: the samples of a chunk that do not fill a frame, and the clocks (a
frame's time is its number), so that a capture gap inside one stream, which `Vad.hpp` assumes
away, is not there; and the second that `CPttWindow` takes for the cap when `max_utterance_ms`
is less (`PttWindow.cpp:55`).

`SettingsAssumption` says of a configuration no more than its types, as `Config` does. What two
of the properties need besides is a premise of theirs, written out. `Proportioned` is what the
shipped values have: the back-pad fits in the hangover, the longest utterance holds an onset,
however choppy, and a back-pad, and `presence_ms` is no more than `start_ms`. `AllRetained`:
nothing of the window came after twice `max_utterance_ms`, from where on its buffer takes no
more. Without them the properties are false, and section 3 says how.

### How VoiceCommand corresponds to the code

`process()` runs on the daemon's thread, but the desktop does not wait for it. `phase` says
where it stands; one action is one `hyprctl` process or the computation between two of them:

| Phase | Action | Code |
|---|---|---|
| `monitors`, `clients`, `status` | `QueryMonitors`, `QueryClients`, `QueryStatus` | `snapshotDesktop`, three processes one after another, any of which may fail and answer nothing |
| `resolve` | `Resolve` | parse, `finalizeAction`, `planFor`; a refusal or a question runs nothing |
| `step` | `NextStep` | the head of `runPlan`'s loop: validation, dry run, precondition |
| `wait` | `AwaitMonitor` | `awaitMonitor`: a look, then a sleep of at most the rest of the budget |
| `run` | `RunStep` | the command, which may fail |
| `over` | `Hear` | the next utterance |

Beside them, windows close, focus and selection move, monitors go, and the output of a
`create` registers when it will: each at any point, `Changes` times in all.

Abstractions: an utterance is its words, and a word is a string compared whole; substrings of
names are words; inflections and synonyms are the sets `Kin` and the tables of `RuleIntent`,
of several synonyms of the code one or two kept. Coordinates are small integers. Confidence
numbers, notes and wording are left out. Hyprland is external: a command about something that is
gone exits with an error and changes nothing, any command may fail.

Of the gaze: a query has an answer or none, and an answer's number, name and `selected` are
independent, as `SGazeSample::parse` reads them. `docs/COMPOSITOR-GAPS.md` calls the name that
of a *candidate*, which need not be selected; the repository's tests only have unselected answers
without a name. The situations have both kinds, and an answer that has a number the vote does not
count because it was not selected.

## 3. What the runs check

TLC runs, at most two minutes each. All check deadlock but `segmentation` and `voice_command`,
whose behaviours end: the timer and PipeWire never stop.

| Run | States | Question |
|---|---|---|
| `activation` | 528 | exhaustive: every mode, fallback and environment, every event. The base state is the right one (`BaseIsSettled`), polls and reloads neither cut an utterance nor start one (`NeverYanked`), the key leaves wake captures alone (`ButtonLeavesWakeCapture`), only a press opens a shut gate |
| `daemon_gate` | 253,951 | mode auto, headset on and off, keyboard, toggle, wake-word and PTT windows: after every handler the gate, ring, window, deadline and panel agree with the machine; and what is transcribed of a whole window is all of it but its dead tail and what exceeds the cap (`WholeWindowIsHeardWhole`) |
| `daemon_whole_window` | 105,292 | mode ptt with strays and repeats, reloads, failing streams and refused connections: nothing of a window is lost that its buffer can hold (`NothingLostInWholeWindow`), nothing is heard twice, nothing is analysed behind the shut gate (`ShutGateIsDeaf`), no window ends in silence, and of two attempts to connect the second waits its time (`ReconnectsAreBackedOff`) |
| `daemon_capture` | 12,010 | failing, stalling and moving streams under a client that never releases: `StreamOnlyWhenWanted`, `WatchdogSparesTheWindow`, and, under fairness, `StuckWindowCloses` and `CaptureRecovers` |
| `daemon_session` | 15,102 | the shipped toggle binding with reloads, a missing model and refused connections: `VoiceDaemon` implements `PttSession` |
| `hud_client` | 6,282 | hypxrhud starts three times, crashes, loses its runtime and drops panels with signals unread. A client that has read them believes in nothing that is gone (`ReadClientIsNotFooled`); panels are orphaned across a restart only (`OnlyRestartsOrphan`); a message is lost only if an unread signal would have told (`LostOnlyUnread`) |
| `segmentation` | 936,108 | every stream of eight frames on three levels in any chunks, with pre-roll, one reconnect, a release or a shut at any point, under three settings. A segment is its frames, each once, with its back-pad, in proportioned settings, if its run dipped within the tolerance in all (`SegmentsAreSound`); a run that adds up is never missed (`NoRunIsMissed`); the whole-window verdict forgives if nothing was dropped (`QuietWindowIsForgiven`) |
| `voice_command` | 220,475 | some eight hundred situations (desktop, switches, utterance, gaze), a change of the desktop or a failed query at any point. The safety contract (`ContractHolds`), a run is a prefix of its plan that ends with the first command to fail (`ImplementsPlanRun`), the wait keeps its budget and the thread comes back (`WaitWithinBudget`, `UtterancesEnd`); "this" is what was looked at around the word, or what fits its name, or it is asked (`PointedOrAsked`), the gaze is the freshest of the winner's (`GazeIsFresh`), of two that fit neither is picked (`NothingPickedAmongEquals`), what is resolved is there, unless the gaze named it without having selected it (`ResolvedIsLive`), and commands on the focused window or the selection hit the one that was meant unless somebody else moved them (`OnlyTheNamed`) |

Bounds. `MaxChunks` bounds the audio of a behaviour, `PreRollCap` the ring. Three chunks and a
ring of two are enough for a ring that overflows, an utterance that ends with one chunk more
behind it, and audio in the ring, the queue, the window and the detector at once. `MaxUtterance`
is two, so that a window of three exceeds the cap, or one, so that three exceed what is retained
as well; with `Faint` = {2} the last chunk may be a dead tail, and one that is not speech may not
be. The environments are headset and keyboard in the combinations that change the source, the held
stream and the base state. Capture stops after `MaxChunks`, but every other action goes on, so the
runs explore all that can follow. In `hud_client`, `MaxStarts` = 3 is the first start and two
restarts, `MaxPanels` = 2 lets a stale id and a fresh one differ or collide, and `MaxUnread` = 4
holds a death, a start and two signals more. In `segmentation`, eight frames hold an onset of
three with a dip, its hangover of two and the onset of a second utterance; three levels are
silence, a voice that steady noise of the same level hides, and a loud one; the noise window of
five is outlived, the caps of four, five and six exceeded (of twice four, not: what a buffer drops
is the proof's). In `voice_command`, two desktops of three monitors, one with an output that only
`openxr status` lists, and a third with oddly named and tied monitors; eight ways of looking, from
steady to a saccade, a passthrough, a glance that selects nothing and no answer at all; every verb
of the grammar with its named, pointed-at, bare and unmatched forms; switches on, off, dry and
without the optional dispatchers; a budget of five and polls of two, so that the last sleep is a
partial one. `Changes` = 1: one change between two steps is what a stale snapshot needs, and a
second one would have to undo or repeat it.

Fairness. The loop wakes for a readable eventfd, hence WF of `Drain`; time passes, hence WF of
`DeadlinePasses` and `BackoffElapses`. The timer fires for ever; but WF of `Tick` would say
too much: a tick is disabled in the sense of WF when the poll reports nothing new, so WF would
force the compositor to report what makes it matter. `TicksGoOn` says only that a state in
which *every* tick changes something is left by a tick. Nobody need speak, press or release.

`VoiceCommand` assumes that the thread goes on: WF of its queries and of the runner, and of
`Resolve`, whose second conjunct is that condition written out, since it is enabled until it is
taken. Nothing is assumed of the desktop: `UtterancesEnd` holds whether or not a created monitor
ever registers.

Liveness holds under that: `StuckWindowCloses` assumes the presses cease (a press re-arms the
deadline, as in the code); `PttSession`'s closing needs no such assumption in `daemon_session`,
where a second toggle closes the window. `CaptureRecovers` is checked with connections that
succeed; when they may be refused for ever nothing recovers, and the promise is then that retries
are backed off.

The activation machine has no fairness and no liveness: the daemon calls `onTranscribeDone` in
the handler that calls `onPttStop`, so that no utterance can stay between the two, which is
`GateFollowsMachine`'s second conjunct.

Each property has a mutant in `PROJECT.json`: an operator that stands before the one it varies,
used by nothing, with a bug someone could plausibly write.

### Where the code does otherwise

Four runs expect a violation, one for each part of the system: each states what a comment or the
README says, and TLC shows an execution of the code that contradicts it. In brief:

| Property | What happens |
|---|---|
| `HeardOnce` (mode auto) | a whole window closes into the armed wake-word gate; the detector, never told, later endpoints the same speech and the ASR hears it again (`Daemon.cpp:622-625`) |
| `NoOrphan` | the old service's owner-lost signal is read after a panel was created in the new one, and clears its id: the panel is up and nothing can take it down (`HudClient.cpp:320-324`, against `HudClient.hpp:113`) |
| `BackpadGuaranteed` | a first word that dips twice, each time within the tolerance, outgrows a ring sized for one dip, and its segment starts at its onset (`Vad.cpp:25-28`, against `Vad.hpp:65`, `README.md:262`). At the shipped values two dips of 100 ms leave 200 ms of the 300 |
| `NamedButNotSeenIsAsked` | "grab the mail monitor", when there is none, grabs the one under the pointer (`Intent.cpp:1145-1183`, against the comment at `Intent.cpp:1095`) |

More disagreements were met while modelling and have no run of their own. In the daemon, its
capture and its panel:

- a change of source reconnects a healthy stream in an open window (`Daemon.cpp:475`, against
  `src/README.md:399`);
- chunks of a window still queued at its close enter the next pre-roll (`Daemon.cpp:233`, against
  the comment at `Daemon.cpp:511`);
- a second `ptt start` resets `m_windowProduced`, and a window that has answered closes with
  "didn't hear anything" (`Daemon.cpp:648`, against the comment at `Daemon.cpp:635`);
- a detector left in speech by one window keeps `m_hudResultShown`, and the next press shows no
  listening panel (`Daemon.cpp:523`, against `src/README.md:558`);
- with `intent.enabled = false` the transcript's persistent panel has no owner to take it down
  (`Feedback.cpp:119`, against the comment at `Daemon.cpp:524`);
- the headset comes off, or hands go to the keyboard, in mid-utterance: the gate shuts, the
  detector stays "in speech", and the persistent listening panel stays up (`Daemon.cpp:523-534`,
  against the comment at `Daemon.cpp:512`);
- a press through an already open wake-word gate opens no whole window (`Daemon.cpp:493`, against
  `src/README.md:266`);
- what piled up in `m_queue` behind a shut gate passes it when it opens (`Daemon.cpp:222-247,492`,
  against `src/README.md:241`);
- hypxrhud restarts between two polls; the update goes to a panel that is gone, `show` says it was
  shown, and nobody notifies (`HudClient.cpp:240-252`, against `Feedback.cpp:115`).
  `LostOnlyUnread` is what does hold;
- the presence check takes its floor from the whole window, the detector from the last 1.5 s: when
  steady noise sets in and there is one loud click, a window in which the detector emitted a
  segment is rejected (against the comment at `Vad.cpp:220`). `QuietWindowIsForgiven` is what does
  hold;
- what is said after twice `max_utterance_ms` of an open window is dropped by its buffer while the
  detector still hears it, so a window in which the detector emitted a segment can be called
  silent (`PttWindow.cpp:56`, against the comment at `Vad.cpp:220`). Hence `AllRetained`;
- with a `max_utterance_ms` that does not hold a choppy onset and a back-pad, an utterance cut at
  the cap right after its onset leaves the ring, which the onset emptied, too short, and the next
  utterance loses its back-pad (`Vad.cpp:130,159`, against `Vad.hpp:65`). `Config` does not refuse
  such a value; hence `Proportioned`.

In the intent tier and the executor:

- "move this window to the coding monitor" with no such monitor takes the monitor looked at, by
  the subject's own "this" (`Intent.cpp:881-930`);
- "put the active monitor here" loses its "here"; an unresolved "focus this" becomes a refused
  plan ("nothing to focus") and not a question;
- a named fullscreen subject that matches nothing toggles the focused window
  (`Intent.cpp:1018-1065`);
- `wait_monitor_ms = 0` is documented to disable the precondition (`Executor.hpp`,
  `waitMonitorMs`), but one probe runs and the plan stops if the monitor is not there yet
  (`Executor.cpp:655-675`);
- a second "create a monitor" before the first has registered mints the same name, and fails;
- a window that closes after the snapshot is dispatched to all the same, against "so a stale
  handle can never be dispatched" (`Executor.cpp:242`); the command then fails, and the plan ends;
- a monitor whose name has unusual characters passes `planFor`, and stops the plan at
  `validateStep` when the focus has already been moved;
- a gaze answer with nothing selected but a name keeps that name, which is not checked to be live
  (`GazeResolver.cpp:232,253`), and a monitor verb takes it for its target
  (`Intent.cpp:1120-1125`), against the comment below it, that a deixis "that resolved to no live
  monitor is a CLARIFY". If there is no such monitor the executor refuses the plan.
  `ResolvedIsLive` excepts that case, and only that.

## 4. What is proved

For all values of the constants, under the assumptions the modules name.

### The activation machine and the daemon

`ActivationInputs` and `DaemonConstants` allow any number of chunks, any ring, any subset of
modes, environments, commands and verdicts.

- `ActivationProofs`: `TypeOK`, `BaseIsSettled` and, as action properties, `NeverYanked`,
  `ButtonLeavesWakeCapture`, `OnlyAPressOpensAClosedGate`. The invariant is type and settledness
  together; neither is inductive without the other, since only a typed machine is resettled to a
  base state. `ActivationLemmas` states for each event that it keeps a machine settled; the
  daemon's proof cites the same lemmas.
- `VoiceDaemonProofs`, the control: `TypeOK`, `GateFollowsMachine`, `DeadlineGuardsTheWindow`,
  `WholeWindowIsOpen`.
- `VoiceDaemonStepProofs`, the audio, the panel, the answers and the stream: the invariants
  `StreamOnlyWhenWanted`, `PreRollIsContiguous`, `NothingLostInWholeWindow`,
  `ListeningPanelIsOwned`, `HeardOnce`, `ReconnectsAreBackedOff`; the action properties
  `ShutGateIsDeaf`, `WholeWindowIsHeardWhole`, `WindowNeverEndsInSilence`,
  `WatchdogSparesTheWindow`; and the safety half of the refinement of `PttSession`
  (`DaemonStepsAreSessionSteps`).

The argument follows the handlers. `Mid(v)` is what holds of a view in the middle of a handler:
it is typed, the machine is settled and not transcribing, the deadline is armed if and only if a
PTT window is open, and a window's buffer is empty if the window is spent or not whole. `Ctl(v)`
adds what only holds between handlers: the gate is where the machine wants it, and a whole window
is an open PTT window. `GateFollowsMachine` is not inductive by itself, since every handler breaks
it as soon as it moves the machine; what makes the proof go through is that *each handler ends in
`applyMicPolicy`, or moves nothing*, and that `PolicyIsCtl` takes `Mid` to `Ctl`. Each call has
one lemma with what it may change, and `NextInv` one step per action.

The second proof keeps that shape. `Carried` is what a view in mid-handler satisfies besides
`Mid`, and each part of it is there because a property is not inductive without it:

| Part | Says | Needed for |
|---|---|---|
| `Recent` | every chunk since the oldest queued one is queued; ring and queue together have no hole either | `PreRollIsContiguous`, and with it `Complete` at the moment a window opens |
| `RingShut` | the ring is empty while the gate is open | the same; a ring that kept chunks would repeat them at the next opening |
| `Complete` | a whole window was given a run of chunks, from no later than the press up to the queue, and its buffer is the oldest of them that fit | `NothingLostInWholeWindow`, `WholeWindowIsHeardWhole` |
| `Backed` | at most one attempt to connect has been made since one was last due, and none if the retry time has come | `ReconnectsAreBackedOff` |
| `Accounted` | what the window noted as its result, the user was told | `WindowNeverEndsInSilence`: `closePttWindow` says "didn't hear anything" only if nothing was noted |
| `OnlyPtt` | a listening window is a PTT window, since the daemon drives no `onWakeDetected` | which gate a window may open, in mode `ptt` |
| `PanelOwned` | a listening panel is known to the daemon | itself |

`Kept` adds `Wanted` (a stream that is up is wanted), which the calls before the policy may break.
A handler is some calls, then `applyMicPolicy`, then at most the panel and the watchdog; what it
does as a whole is composed once (`HandlerHandles`) from what the first part did (`Leads`), what
the policy does (`Polices`) and what may come after it (`Watches`). `ReconnectsAreBackedOff`
holds because an attempt takes the retry time away whether or not it connects, and neither the
policy nor the watchdog makes one without it (`Backed`); `WatchdogSparesTheWindow`, because only
the watchdog, behind a shut gate, tears down a stream that has not failed. What `finish` makes of
a buffer is followed in one place: `Due` is what the ASR is to be given of a window that ends now,
with what is still queued, and no order of drains and closes changes it.

Two parts of the invariant have hypotheses, and the theorems about them state these. `HeardOnce`
is proved where `WholeWindow` holds and `Modes = {"ptt"}`: in mode auto it is false
(`ClaimHeardOnce`), because a window closes into an armed wake-word gate. There `Once` says that a
chunk is in one place: heard, in the window, in the ring, or queued. That a window answers at most
once (`SaidOnce`, part of the session's promise) further needs `OneAnswer`, the condition under
which `VoiceDaemon` instantiates `PttSession`: no stray `ptt start` resets `m_windowProduced`.
What a session step is follows from `AnsweredOnce`: the answers told are the result noted.

### The HUD client

`HudBounds` allows any number of restarts, panels and unread signals. `HudClientProofs`: `TypeOK`,
`ReadClientIsNotFooled`, `OnlyRestartsOrphan` and the action property `LostOnlyUnread`.

While signals wait, almost anything the client believes may be wrong; so the invariant, `Sound`,
says what the waiting signals *owe* it. Without a bus there is nothing to read (`Closed`); a
service that is down has no panels (`Dark`); if no news waits, what the client believes is so
(`Honest`); the last news, if it is of the runtime, is the truth (`Latest`); a panel that is gone
has left a signal that says so (`Excused`); until the service restarts, the only panel up is the
client's (`First`). The last is why `OnlyRestartsOrphan` ends at a restart: a signal of the old
service can be read as one of the new, which is the run `ClaimNoOrphan`.

Each call and each move of the service keeps `Sound`. A poll is a fold over the inbox, and pays
the debt. Its proof is an induction on how many signals have been dispatched (`PollSteps`). The
library's induction theorem, which takes the predicate as a parameter, cannot be instantiated
here; it is carried out instead on the *set* of the counts for which the claim fails, which would
have a least element (`Counting`, from `WFMin`).

### The command pipeline

For any desktop, switches, utterances, rings of poses, budget and number of changes. What is
assumed is named where the constants are declared: budgets are natural numbers
(`BudgetAssumption`); the empty string is no monitor's name (`NamesAssumption`), and neither is
the word "active", by which the intent tier refers to the selection (`ActiveAssumption`); instants
and distances are integers (`GazeAssumption`); at the start of a run a desktop is
one a compositor can have: its lists are typed, no two monitors have one name, and an output still
to register is not listed yet (`SituationsAssumption`). TLC evaluates all of them in
`voice_command`.

- `ActionProofs`, the intent tier. `ActionsAct`: every utterance resolves to an action of a known
  verb and source. The rules are a chain of alternatives, of which the last always matches
  (`ChainEnds`); that the first match exists is the least-element principle on their indices.
  `ActionsAreGrounded`: on any snapshot, the action is about monitors and windows of it
  (`Reachable`), or about what the gaze named when it had selected nothing (`Unselected`); a
  destination that was named was the only one to fit (`SingledOut`); a monitor that was pointed at
  was looked at around the word, or fits a name that was said, or is asked for (`WasMeant`); and
  the gaze it carries is that of the deictic word (`SeenAtTheWord`). There is one lemma per branch
  of `finalizeAction`, and each matcher has one about what it finds.
- `ActionProofs`, the executor. `PlansAreGood`, one lemma per planner: each of its steps is
  permitted by the switches and names only what `hasMonitor` and `hasWindow` found in the
  snapshot. `NotRefusedAsGone`: an action that is `Reachable` in a snapshot is never refused as
  gone; the checks of two tiers agree.
- `VoiceCommandProofs`, the runner: `TypeOK`, `ContractHolds`, `WaitWithinBudget` and the
  refinement `ImplementsPlanRun`. The contract about what has *run* is not inductive: the
  invariant says in addition that the plan is good (`Planned`, by `PlansAreGood` at `Resolve`),
  that a step that waits or runs has been validated in a run that is not dry (`Vetted`), and where
  the runner stands (`Placed`). The refinement maps the steps not run yet to `todo`: a dry run has
  none, and a query, a sleep or a change of the desktop is a stutter.
- `VoiceCommandProofs`, what was meant: `ResolvedIsLive`, `PointedOrAsked`,
  `NothingPickedAmongEquals`, `GazeIsFresh`. These follow from `ActionsAreGrounded` once the
  snapshot is known to be one, which takes a second invariant:

| Part of `Grounded` | Says | Needed because |
|---|---|---|
| `Ordinary(desk)` | the desktop is typed, names no two monitors alike, and none that is still to register | commands, the user and a registering output change it between any two queries |
| the replies | each is what the desktop was, or nothing | monitors and windows are asked for at different moments, so the two may disagree |
| `Snapshot(ctx)` | what `parse` makes of three such replies: known names, and one content for each | a monitor that only `openxr status` lists is appended, and a window may be on a monitor that has gone |
| what was resolved | action and plan are those of this snapshot and utterance | the properties are read while the plan runs on a desktop that has moved on |

The proof of `Ordinary` is about the desktop, and shows that the distinct names hold by what a
compositor does and not by luck: a command may announce an output only if none has or awaits its
name (`possible`). Equal names with different contents would break `NothingPickedAmongEquals`, as
the snapshot could then list one monitor twice with two scores.

- `VoiceCommandProofs`, what the commands act on: `OnlyTheNamed`. Most commands name no window;
  they act on what has the focus or is selected. `PlanAims` says, planner by planner, that the
  first command of a plan is about what the action is about (`Alone`), and that each later one is
  too, or uses the focus or the selection that the first one set (`Follows`). That takes a fact of
  the intent tier: an action that has a window has no monitor to act on instead (`OneSubject`). A
  third invariant, `Aimed`, says that what the first command chose is still chosen while the plan
  is run and nobody has meddled. It is inductive since no later command of a plan moves the focus
  or the selection elsewhere (`RunAimed`), and since everything else that changes the desktop, but
  for an output that registers, is noticed (`DeskAlone`).

A list from which some elements are left out is a fold (`without`); what it contains is shown by
an induction on its length, as for the inbox above. Sums over the words of a phrase
(`monitorScore`) are folds too; of their value it is only needed that it is a number, and the same
for one monitor listed twice (`ScoreOfAlike`). That one score is above another then follows from
how the best are chosen.

### The detector and the whole window

`SegmentationProofs`, for any configuration of natural numbers, any loudness and any length of a
window: `SegmentsAreSound`, `NoRunIsMissed`, `QuietWindowIsForgiven`. The only assumption is
`SettingsAssumption`, that is, types.

The three speak of what a whole stream of frames added up to; the detector has a few counters.
The invariant says what the counters stand for:

| Part of `Inv` | Says | Needed because |
|---|---|---|
| `HasJudged` | every frame was taken for voiced or not, and a voiced one is at the gate | the other parts are about these verdicts |
| `HoldsLatest` | the ring is the latest frames, without a gap | a segment starts with the ring |
| `ReachesBack` | the ring is full; or holds all since the detector was built; or reaches back-pad and more into the last segment; or, in an utterance, will do so before it can end | the onset empties the ring, so that the next one finds what was put in since |
| `Listens` | the run in progress starts at a voiced frame, its length is what its dips allow, and it starts no later than any voiced frame from which a run could still be counted | a run that is discarded, or that another one hides, must not have been the one that is missed |
| `Speaks` | the utterance in progress would be sound if it ended here | an end, a release and a reconnect cut it anywhere |
| `AllSound`, `NoneMissed` | the properties, of the utterances so far | themselves |
| `Counts` | it took `start` frames at the gate to open one | the quiet verdict, which counts frames again |
| the buffer | the window's first `2 * max` frames; when spent, what `finish` makes of them | the same |

`Inv` was first checked by TLC, on the instance of the run. The argument goes frame by frame.
`processFrame` makes one of five moves, and `FrameDoes` says exactly which: an utterance goes on
(`Continues`) or ends (`Ends`), a voiced frame opens one (`Opens`) or is counted (`Runs`), an
unvoiced one pauses or discards the run (`Waits`). There is one lemma for what each move does to
each part it can disturb; `FrameKeeps` puts them together, `PushKeeps` carries them over a chunk
(a fold, again by `Counting`), and `InvNext` over the daemon's calls.

Two arguments are arithmetic. *The back-pad*: the ring is `backpad + start + gap` deep or deeper,
and a run whose dips are within the tolerance in all is no longer than `start + gap`, so what is
in front of it in the ring is at least the back-pad - provided that the ring is that full, which
is `ReachesBack`: an utterance lasts for its hangover, which holds the back-pad, or for `max`,
which holds onset and back-pad. Here `Proportioned` is used. *The quiet verdict*: if more than a
fifth of the frames are well under the gate, so is the 20th percentile (`AmbientIs`); then 1.5
times that ambient is no more than the gate (`QuietThreshold`), and the frames that opened an
utterance, `start` of them at the gate, are enough for `presence` (`QuietIsForgiven`).

### Only model-checked

Every safety property of a run that passes is the statement of a theorem. What is left is
liveness, which needs fairness and `ENABLED`: `StuckWindowCloses`, `CaptureRecovers`, the command
pipeline's `UtterancesEnd`, and the closing that `PttSession` promises
(the rest of that refinement is proved). And what the runs that expect a violation show is shown
by their executions.

## 5. Plan

Done in this order of importance: the activation machine, the daemon's coordination, its
session promise, the first proofs, the HUD client, the command pipeline from words to dispatched
commands with its proofs, the frame-level detector with its own. Next:

1. `CaptureSupervision`: the numeric backoff and the stall clock.
2. Pure algorithms: wake-phrase matching, the vocabulary-bias budget, dump retention.
3. `ControlSocket`, and configuration as a variable of the daemon.

Runs for these are bounded as above: enough for one thing to be stale while another is fresh,
every counter at its limit and one past it.

Not modelled, and not planned: the whisper and llama calls (external), the wording of panels and
notes (no property is about it), JSON and TOML parsing, logging, the one-shot mode of `main.cpp`.
