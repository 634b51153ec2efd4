----------------------------- MODULE VoiceDaemon -----------------------------
(***************************************************************************)
(* CDaemon: the event loop that owns the activation machine, the capture   *)
(* stream, the gate between the microphone and the detectors, the          *)
(* push-to-talk window, and the "listening" panel.                         *)
(*                                                                         *)
(* Two threads.  PipeWire's thread appends chunks of PCM to a locked queue *)
(* (PwCallback) and flips the stream's state (StreamFails).  Everything    *)
(* else is a handler of the main epoll thread, which runs to completion:   *)
(* the queue drain, the 4 Hz tick, and the control commands.  A handler    *)
(* takes the queue lock once, so a chunk that arrives while it runs is one *)
(* that arrives just after it; each handler is one action.  A handler is   *)
(* written as the calls it makes, each a function from a view of the       *)
(* daemon's members to the next view, in the order of the code.            *)
(*                                                                         *)
(* Data.  A chunk is a stretch of PCM long enough for the voice detector   *)
(* to decide on; it is named by its place in capture order, so a buffer is *)
(* a set of chunks and its order is the order of their names.  Clocks are  *)
(* abstracted to "the timer is armed" and "it has run out".                *)
(*                                                                         *)
(* A few operators stand before the one they vary and are used by none:    *)
(* each is that operator with a bug someone could plausibly write, for     *)
(* checking that a property would notice it.                               *)
(***************************************************************************)
EXTENDS Activation, Integers, FiniteSets, FiniteSetsExt

CONSTANTS
  MaxChunks,      \* bound: chunks captured in a behaviour
  PreRollCap,     \* chunks the pre-roll ring holds (capture.preroll_ms)
  MaxUtterance,   \* chunks the ASR is given of a whole window (vad.max_utterance_ms)
  Faint,          \* chunks loud enough for the presence check in any case
  WholeWindow,    \* capture.ptt_whole_window
  Hold,           \* capture.hold
  IntentEnabled,  \* intent.enabled
  Modes, Fallbacks, \* what the configuration file may say at a (re)load
  AsrLoads,       \* whether loading the ASR model works
  Envs,           \* what the compositor poll may report
  Commands,       \* the control commands clients send
  Verdicts,       \* what the transcription tier may make of an utterance
  StreamFaults,   \* whether the capture stream may fail or stall
  Starts          \* what an attempt to connect the stream may come to

AllCommands == {"ptt start", "ptt stop", "ptt toggle", "reload"}

\* "silent":    no speech anywhere in a whole window, so no ASR pass
\* "nothing":   the ASR returned no text, or text not addressed to us
\* "nocommand": a transcript that is not a command (EVerb::None)
\* "command":   a transcript the intent tier acts on
AllVerdicts == {"silent", "nothing", "nocommand", "command"}

ASSUME DaemonConstants ==
  /\ MaxChunks \in Nat
  /\ PreRollCap \in Nat
  /\ MaxUtterance \in Nat \ {0}
  /\ Faint \subseteq Nat
  /\ WholeWindow \in BOOLEAN
  /\ Hold \in BOOLEAN
  /\ IntentEnabled \in BOOLEAN
  /\ Modes \subseteq Mode
  /\ Fallbacks \subseteq Fallback
  /\ AsrLoads \subseteq BOOLEAN
  /\ Envs \subseteq SEnvSignal
  /\ Commands \subseteq AllCommands
  /\ Verdicts \subseteq AllVerdicts
  /\ StreamFaults \in BOOLEAN
  /\ Starts \subseteq BOOLEAN

VARIABLES
  machine,   \* m_machine, and the m_env it was last given
  stream,    \* m_audio's stream and its reconnect bookkeeping
  audio,     \* every buffer PCM can sit in
  gate,      \* m_captureActive and the push-to-talk window
  hud,       \* who owns the panel, and the panel that is up
  asr,       \* m_asr.loaded()
  captured,  \* chunks captured so far
  speech,    \* those the voice detector takes for speech
  past       \* history: what was transcribed, when the gate last moved

vars == <<machine, stream, audio, gate, hud, asr, captured, speech, past>>

Chunk   == 1 .. MaxChunks
Source  == {"desk", "headset"}
Outcome == {"idle", "ok", "unparsed", "no-speech", "asr-unavailable"}
Panel   == {"none", "listening", "transcript", "result"}

Stream == [up      : BOOLEAN,   \* m_running
           source  : Source,
           failed  : BOOLEAN,   \* CAudioCapture::failed()
           retryOk : BOOLEAN,   \* now >= m_captureRetryAtMs
           fresh   : BOOLEAN,   \* m_framesReceived # m_lastFrameCount
           stalled : BOOLEAN]   \* ten seconds without a frame

Audio == [queue  : SUBSET Chunk,   \* m_queue, shared with PipeWire's thread
          ring   : SUBSET Chunk,   \* m_preRoll
          window : SUBSET Chunk,   \* m_pttAudio
          vad    : SUBSET Chunk]   \* m_vad's utterance; empty iff not in speech

Gate == [active   : BOOLEAN,       \* m_captureActive
         whole    : BOOLEAN,       \* m_pttWholeWindow
         spent    : BOOLEAN,       \* m_pttSpent
         deadline : {"none", "full", "linger"},   \* m_pttDeadlineMs
         due      : BOOLEAN,       \* now >= m_pttDeadlineMs
         produced : BOOLEAN,       \* m_windowProduced
         outcome  : Outcome]       \* m_lastOutcome

Hud == [listening : BOOLEAN,       \* m_hudListening
        shown     : BOOLEAN,       \* m_hudResultShown
        panel     : Panel]         \* the panel a working hypxrhud displays

Past == [heard    : SUBSET Chunk,    \* given to the ASR
         again    : SUBSET Chunk,    \* given to the ASR more than once
         opened   : 0 .. MaxChunks,  \* captured when the gate last opened
         told     : 0 .. 2,          \* what this PTT window told the user (2: or more)
         attempts : 0 .. 2]          \* to connect since one was last due (2: or more)

View == [machine : Machine, stream : Stream, audio : Audio,
         gate : Gate, hud : Hud, asr : BOOLEAN, past : Past]

Now == [machine |-> machine, stream |-> stream, audio |-> audio,
        gate |-> gate, hud |-> hud, asr |-> asr, past |-> past]

Become(v) == /\ machine' = v.machine /\ stream' = v.stream /\ audio' = v.audio
             /\ gate' = v.gate /\ hud' = v.hud /\ asr' = v.asr /\ past' = v.past
             /\ UNCHANGED <<captured, speech>>
-----------------------------------------------------------------------------
(* The voice detector and the rings, on whole buffers.                     *)

\* A chunk of non-speech ends the utterance that was running when it came.
Ends(utt, chunks) ==
  {c \in chunks \ speech :
     LET before == {b \in chunks : b < c}
     IN  IF before = {} THEN utt # {} ELSE Max(before) \in speech}

Spoken(utt, chunks) == utt \cup (chunks \cap speech)

\* The utterances CVad::push emits, as the sets of their voiced chunks...
Segments(utt, chunks) ==
  LET E == Ends(utt, chunks)
  IN  {{b \in Spoken(utt, chunks) : b < e /\ \A f \in E : f < e => f < b} : e \in E}

\* ...and the one it is left in.
Utterance(utt, chunks) ==
  {b \in Spoken(utt, chunks) : \A e \in Ends(utt, chunks) : e < b}

\* CPreRollRing::push drops the oldest audio beyond its capacity.
NewestAndOne(chunks) ==
  {c \in chunks : Cardinality({d \in chunks : d > c}) <= PreRollCap}
Newest(chunks) ==
  {c \in chunks : Cardinality({d \in chunks : d > c}) < PreRollCap}

\* What is left of chunks where only n fit and those that come once it is full
\* are refused.
Oldest(n, chunks) == {c \in chunks : Cardinality({d \in chunks : d < c}) < n}

\* Twice vad.max_utterance_ms of a window is retained, by CPttWindow::push.
Retention == 2 * MaxUtterance

\* Energy enough for CPttWindow's own presence check.
Audible == speech \cup Faint

\* CPttWindow::finish: what comes after the last audible chunk is trimmed, and
\* of the rest only the head is kept.  Nothing, if nothing was audible.
finish(chunks) ==
  Oldest(MaxUtterance, {c \in chunks : \E d \in chunks \cap Audible : c <= d})
-----------------------------------------------------------------------------
(* What the user is told.                                                  *)

pttListening(m) == m.state = "LISTENING" /\ m.activation = "ptt"

OneMore(n) == IF n < 2 THEN n + 1 ELSE n

Tell(v, panel) ==
  [v EXCEPT !.hud.panel = panel,
            !.past.told = IF pttListening(v.machine) THEN OneMore(@) ELSE @]

noteWindowResult(v, outcome) ==
  [v EXCEPT !.gate.produced = TRUE, !.gate.outcome = outcome,
            !.hud.shown = TRUE, !.hud.listening = FALSE]

updateListeningFlag(v) ==
  [v EXCEPT !.hud.listening = pttListening(v.machine),
            !.hud.panel = IF pttListening(v.machine) THEN "listening" ELSE @]
updateListeningHud(v) ==
  LET capturing == v.audio.vad # {} \/ pttListening(v.machine)
  IN  IF ~capturing
      THEN [v EXCEPT !.hud.panel = IF v.hud.listening THEN "none" ELSE @,
                     !.hud.listening = FALSE, !.hud.shown = FALSE]
      ELSE IF v.hud.listening \/ v.hud.shown THEN v
      ELSE [v EXCEPT !.hud.panel = "listening", !.hud.listening = TRUE]
-----------------------------------------------------------------------------
(* Utterances.                                                             *)

\* The panel and outcome an accepted transcript ends with: the intent tier, if
\* on, replaces the transcript's own panel with an action or a rejection.
AcceptVerbatim(v, verdict) == Tell(noteWindowResult(v, verdict), "result")
Accept(v, verdict) ==
  LET outcome == IF IntentEnabled /\ verdict = "nocommand" THEN "unparsed" ELSE "ok"
      panel   == IF IntentEnabled THEN "result" ELSE "transcript"
  IN  Tell(noteWindowResult(v, outcome), panel)

\* A rejection is told in a push-to-talk window, and only there.
RejectQuietly(v, outcome) == noteWindowResult(v, outcome)
Reject(v, outcome) ==
  IF pttListening(v.machine) THEN Tell(noteWindowResult(v, outcome), "result") ELSE v

\* handleSegment on each of a batch of segments.  All of them reach the ASR;
\* the verdict is that of the last one the user hears about.
handleSegments(v, segs, verdict) ==
  LET ids == UNION segs
      t == [v EXCEPT !.past.again = @ \cup (v.past.heard \cap ids),
                     !.past.heard = @ \cup ids]
  IN  IF segs = {} THEN v
      ELSE IF ~v.asr THEN Reject(v, "asr-unavailable")
      ELSE IF verdict \in {"silent", "nothing"} THEN Reject(t, "no-speech")
      ELSE Accept(t, verdict)

finalizePttUtterance(v, verdict) ==
  LET f    == [v EXCEPT !.gate.spent = TRUE, !.audio.window = {}]
      kept == finish(v.audio.window)
      h    == handleSegments(f, {kept}, verdict)
  IN  IF ~v.gate.whole \/ v.gate.spent THEN v
      ELSE IF verdict = "silent" \/ kept = {} THEN f
      ELSE IF h.gate.deadline = "none" THEN h
      ELSE [h EXCEPT !.gate.deadline = "linger", !.gate.due = FALSE]

\* Audio that passed the open gate: to the window if it is a whole one, and to
\* the detector, whose endpoint finalizes a whole window or yields segments.
FeedOnset(v, chunks, verdict) ==
  LET fed == [v EXCEPT !.audio.vad = Utterance(@, chunks),
                       !.audio.window = Oldest(Retention, @ \cup (chunks \cap speech))]
  IN  IF Segments(v.audio.vad, chunks) = {} THEN fed
      ELSE finalizePttUtterance(fed, verdict)
Feed(v, chunks, verdict) ==
  LET segs == Segments(v.audio.vad, chunks)
      fed  == [v EXCEPT !.audio.vad = Utterance(@, chunks),
                        !.audio.window = IF v.gate.whole
                                         THEN Oldest(Retention, @ \cup chunks) ELSE @]
  IN  IF ~v.gate.whole THEN handleSegments(fed, segs, verdict)
      ELSE IF segs = {} THEN fed ELSE finalizePttUtterance(fed, verdict)

drainUngated(v, verdict) ==
  Feed([v EXCEPT !.audio.queue = {}], v.audio.queue, verdict)
drainAudio(v, verdict) ==
  LET local == v.audio.queue
      d     == [v EXCEPT !.audio.queue = {}]
  IN  IF ~v.gate.active
      THEN [d EXCEPT !.audio.ring = Newest(@ \cup local)]
      ELSE updateListeningHud(IF v.gate.whole /\ v.gate.spent
                              THEN d ELSE Feed(d, local, verdict))
-----------------------------------------------------------------------------
(* The microphone policy.                                                  *)

\* With audio.headset_source configured; without it the source never changes.
chooseSource(m) == IF m.env.headsetPresent THEN "headset" ELSE "desk"

captureShouldBeHeld(m) == Hold /\ m.env.headsetPresent

\* A stream that is not up; what else it remembers is reset when it starts.
Closed == [up |-> FALSE, source |-> "desk", failed |-> FALSE,
           retryOk |-> TRUE, fresh |-> FALSE, stalled |-> FALSE]

\* (Re)connect.  The next attempt is backed off whether or not this one works.
startCaptureHopefully(v, ok) ==
  [v EXCEPT !.stream = [up |-> ok,
                        source |-> IF ok THEN chooseSource(v.machine) ELSE "desk",
                        failed |-> FALSE, retryOk |-> ~ok,
                        fresh |-> FALSE, stalled |-> FALSE],
            !.audio.ring = {},
            !.audio.vad = IF v.gate.active THEN {} ELSE @,
            !.past.attempts = OneMore(@)]
startCapture(v, ok) ==
  [v EXCEPT !.stream = [up |-> ok,
                        source |-> IF ok THEN chooseSource(v.machine) ELSE "desk",
                        failed |-> FALSE, retryOk |-> FALSE,
                        fresh |-> FALSE, stalled |-> FALSE],
            !.audio.ring = {},
            !.audio.vad = IF v.gate.active THEN {} ELSE @,
            !.past.attempts = OneMore(@)]

superviseUnheeding(v, ok) ==
  IF (micShouldBeOpen(v.machine) \/ captureShouldBeHeld(v.machine))
     /\ v.stream.source # chooseSource(v.machine) /\ v.stream.retryOk
  THEN startCapture(v, ok) ELSE v
superviseStream(v, ok) ==
  LET wanted == micShouldBeOpen(v.machine) \/ captureShouldBeHeld(v.machine)
      need   == \/ ~v.stream.up \/ v.stream.failed
                \/ v.stream.source # chooseSource(v.machine)
  IN  IF wanted THEN IF need /\ v.stream.retryOk THEN startCapture(v, ok) ELSE v
      ELSE IF ~v.stream.up THEN v
      ELSE [v EXCEPT !.stream = Closed, !.audio.ring = {}, !.past.attempts = 0]

\* The gate opened: a fresh detector, fed with the ring.
openCaptureWindow(v, verdict) ==
  LET pre   == v.audio.ring
      whole == WholeWindow /\ pttListening(v.machine)
      o     == [v EXCEPT !.gate.whole = whole, !.gate.spent = FALSE,
                         !.audio.vad = {}, !.audio.ring = {},
                         !.audio.window = IF whole THEN {} ELSE @,
                         !.past.opened = captured]
  IN  IF pre = {} THEN o ELSE Feed(o, pre, verdict)

applyMicPolicy(v, ok, verdict) ==
  LET s   == superviseStream(v, ok)
      mic == micShouldBeOpen(v.machine)
  IN  IF mic /\ ~v.gate.active
      THEN openCaptureWindow([s EXCEPT !.gate.active = TRUE], verdict)
      ELSE IF ~mic /\ v.gate.active
      THEN updateListeningHud(
             [s EXCEPT !.gate.active = FALSE,
                       !.gate.whole = FALSE,
                       !.gate.spent = IF s.gate.whole THEN FALSE ELSE @,
                       !.audio.window = IF s.gate.whole THEN {} ELSE @,
                       !.audio.ring = {}])
      ELSE s
-----------------------------------------------------------------------------
(* The push-to-talk window and the handlers.                               *)

flushVad(v, verdict) ==
  handleSegments([v EXCEPT !.audio.vad = {}],
                 IF v.audio.vad = {} THEN {} ELSE {v.audio.vad}, verdict)

\* A whole window goes to the ASR whole; another flushes the detector.
transcribeRestTwice(v, last) == flushVad(finalizePttUtterance(v, last), last)
transcribeRestWhole(v, last) ==
  IF v.gate.whole THEN finalizePttUtterance(v, last) ELSE flushVad(v, last)
transcribeRest(v, last) ==
  IF v.gate.whole
  THEN [finalizePttUtterance(v, last) EXCEPT !.gate.whole = FALSE]
  ELSE flushVad(v, last)

disarm(v) == [v EXCEPT !.gate.deadline = "none", !.gate.due = FALSE]

settleArmed(v) == [v EXCEPT !.machine = onTranscribeDone(onPttStop(@))]
settle(v) == disarm([v EXCEPT !.machine = onTranscribeDone(onPttStop(@))])

answerAgain(v) == [v EXCEPT !.hud.panel = "result", !.past.told = OneMore(@)]
answer(v) ==
  IF v.gate.produced THEN v
  ELSE [v EXCEPT !.gate.outcome = "no-speech", !.hud.panel = "result",
                 !.past.told = OneMore(@)]

closeUndrained(v, drained, last) ==
  LET a == answer(updateListeningHud(settle(transcribeRest(v, last))))
  IN  [IF pttListening(v.machine) THEN a ELSE disarm(v)
         EXCEPT !.gate.produced = FALSE]
closePttWindow(v, drained, last) ==
  LET rest == transcribeRest(drainAudio(v, drained), last)
      a    == answer(updateListeningHud(settle(rest)))
  IN  [IF pttListening(v.machine) THEN a ELSE disarm(v)
         EXCEPT !.gate.produced = FALSE]

pttStartUnarmed(v, ok, verdict) ==
  updateListeningHud(applyMicPolicy(
    [v EXCEPT !.machine = onPttStart(@), !.gate.produced = FALSE], ok, verdict))
pttStart(v, ok, verdict) ==
  LET started == [v EXCEPT !.machine = onPttStart(@),
                           !.gate.produced = FALSE,
                           !.past.told = IF pttListening(v.machine) THEN @ ELSE 0]
      armed == IF pttListening(started.machine)
               THEN [started EXCEPT !.gate.deadline = "full", !.gate.due = FALSE]
               ELSE started
  IN  updateListeningHud(applyMicPolicy(armed, ok, verdict))

pttStopOnly(v, ok, drained, last) == closePttWindow(v, drained, last)
pttStop(v, ok, drained, last) ==
  applyMicPolicy(closePttWindow(v, drained, last), ok, drained)

doReload(v, mode, fallback, loads, ok, verdict) ==
  applyMicPolicy([v EXCEPT !.machine = configure(@, mode, fallback),
                           !.audio.vad = {}, !.audio.ring = {},
                           !.asr = loads], ok, verdict)

\* The stall watchdog at the end of a tick acts only while the gate is shut.
watchAlways(v, ok) ==
  IF v.stream.up /\ ~v.stream.fresh /\ v.stream.stalled /\ v.stream.retryOk
  THEN startCapture(v, ok) ELSE v
watchFrames(v, ok) ==
  IF ~v.stream.up THEN v
  ELSE IF v.stream.fresh
  THEN [v EXCEPT !.stream.fresh = FALSE, !.stream.stalled = FALSE,
                 !.stream.retryOk = TRUE, !.past.attempts = 0]
  ELSE IF ~v.gate.active /\ v.stream.stalled /\ v.stream.retryOk
  THEN startCapture(v, ok) ELSE v

tick(v, env, ok, drained, last) ==
  LET polled == [v EXCEPT !.machine = onEnv(@, env)]
      expired == pttListening(polled.machine) /\ v.gate.due
      c == IF expired THEN closePttWindow(polled, drained, last) ELSE polled
  IN  watchFrames(updateListeningHud(applyMicPolicy(c, ok, drained)), ok)
-----------------------------------------------------------------------------
(* Actions.                                                                *)

\* init(): configured, the environment polled once, the policy applied.
Blank(mode, fallback, env, loads) ==
  [machine |-> onEnv(configure(NewMachine, mode, fallback), env),
   stream |-> Closed,
   audio |-> [queue |-> {}, ring |-> {}, window |-> {}, vad |-> {}],
   gate |-> [active |-> FALSE, whole |-> FALSE, spent |-> FALSE, deadline |-> "none",
             due |-> FALSE, produced |-> FALSE, outcome |-> "idle"],
   hud |-> [listening |-> FALSE, shown |-> FALSE, panel |-> "none"],
   asr |-> loads,
   past |-> [heard |-> {}, again |-> {}, opened |-> 0, told |-> 0, attempts |-> 0]]

Init ==
  /\ captured = 0
  /\ speech = {}
  /\ \E mode \in Modes, fallback \in Fallbacks, env \in Envs,
        loads \in AsrLoads, ok \in Starts :
       LET v == applyMicPolicy(Blank(mode, fallback, env, loads), ok, "nothing")
       IN  /\ machine = v.machine /\ stream = v.stream /\ audio = v.audio
           /\ gate = v.gate /\ hud = v.hud /\ asr = v.asr /\ past = v.past

\* PipeWire's thread delivers a chunk; the voice detector will take it for
\* speech or not.
PwCallback(voiced) ==
  /\ stream.up /\ ~stream.failed
  /\ captured < MaxChunks
  /\ captured' = captured + 1
  /\ speech' = IF voiced THEN speech \cup {captured + 1} ELSE speech
  /\ audio' = [audio EXCEPT !.queue = @ \cup {captured + 1}]
  /\ stream' = [stream EXCEPT !.fresh = TRUE]
  /\ UNCHANGED <<machine, gate, hud, asr, past>>

\* The stream errors, or its source vanishes (onStateChanged).
StreamFails ==
  /\ StreamFaults
  /\ stream.up /\ ~stream.failed
  /\ stream' = [stream EXCEPT !.failed = TRUE]
  /\ UNCHANGED <<machine, audio, gate, hud, asr, captured, speech, past>>

\* Ten seconds pass without a frame on a stream that looks healthy.
StallElapses ==
  /\ StreamFaults
  /\ stream.up /\ ~stream.fresh /\ ~stream.stalled
  /\ stream' = [stream EXCEPT !.stalled = TRUE]
  /\ UNCHANGED <<machine, audio, gate, hud, asr, captured, speech, past>>

BackoffElapses ==
  /\ ~stream.retryOk
  /\ stream' = [stream EXCEPT !.retryOk = TRUE]
  /\ past' = [past EXCEPT !.attempts = 0]
  /\ UNCHANGED <<machine, audio, gate, hud, asr, captured, speech>>

DeadlinePasses ==
  /\ gate.deadline # "none" /\ ~gate.due
  /\ gate' = [gate EXCEPT !.due = TRUE]
  /\ UNCHANGED <<machine, stream, audio, hud, asr, captured, speech, past>>

Drain ==
  /\ audio.queue # {}
  /\ \E verdict \in Verdicts : Become(drainAudio(Now, verdict))

Tick ==
  \E env \in Envs, ok \in Starts, drained, last \in Verdicts :
    Become(tick(Now, env, ok, drained, last))

PttStart ==
  \E ok \in Starts, verdict \in Verdicts : Become(pttStart(Now, ok, verdict))

PttStop ==
  \E ok \in Starts, drained, last \in Verdicts :
    Become(pttStop(Now, ok, drained, last))

Reload ==
  \E mode \in Modes, fallback \in Fallbacks, loads \in AsrLoads,
     ok \in Starts, verdict \in Verdicts :
    Become(doReload(Now, mode, fallback, loads, ok, verdict))

\* `ptt toggle` is `ptt stop` on an open window and `ptt start` otherwise.
Press   == /\ \/ "ptt start" \in Commands
              \/ "ptt toggle" \in Commands /\ ~pttListening(machine)
           /\ PttStart
Release == /\ \/ "ptt stop" \in Commands
              \/ "ptt toggle" \in Commands /\ pttListening(machine)
           /\ PttStop

Next == \/ \E voiced \in BOOLEAN : PwCallback(voiced)
        \/ StreamFails \/ StallElapses \/ BackoffElapses \/ DeadlinePasses
        \/ Drain \/ Tick \/ Press \/ Release
        \/ "reload" \in Commands /\ Reload

\* The timer never stops: a state in which any tick at all, whatever it is told,
\* changes something is left by a tick.  (WF_vars(Tick) would claim more, that
\* the compositor must some day report what makes a tick matter.)
TickMatters == \A env \in Envs, ok \in Starts, drained, last \in Verdicts :
                 tick(Now, env, ok, drained, last) # Now
TicksGoOn   == []<>~TickMatters \/ []<><<Tick>>_vars

\* The loop wakes for a readable eventfd and every 250 ms for the timer, and
\* time passes.  Nobody has to speak, press or release anything.
Fairness == /\ WF_vars(Drain) /\ TicksGoOn
            /\ WF_vars(DeadlinePasses) /\ WF_vars(BackoffElapses)

Spec == Init /\ [][Next]_vars /\ Fairness
-----------------------------------------------------------------------------
(* Invariants: what holds whenever no handler is running.                  *)

TypeOK == Now \in View

\* The machine decides and the gate obeys, whichever handler ran last; and no
\* handler leaves a half-finished transcription or a stale base state behind
\* (Daemon.cpp:492-513; ActivationMachine.cpp:84-88).
GateFollowsMachine == /\ gate.active = micShouldBeOpen(machine)
                      /\ machine.state # "TRANSCRIBING"
                      /\ Settled(machine)

\* The safety deadline is armed exactly while a push-to-talk window is open, so
\* no window is without one and it "can never fire on a stale timestamp or
\* stack across repeated toggles" (Daemon.cpp:554-557).
DeadlineGuardsTheWindow == gate.deadline # "none" <=> pttListening(machine)

\* A whole window is an open push-to-talk window, and its buffer leaks into no
\* other: with no whole window open there is nothing in it (Daemon.cpp:502-509).
WholeWindowIsOpen ==
  /\ gate.whole => pttListening(machine) /\ gate.active
  /\ ~gate.whole \/ gate.spent => audio.window = {}

\* A whole window misses nothing that fits: every chunk captured since the
\* press, until it is transcribed, is in its buffer or on its way there, across
\* stream restarts and reloads alike, unless the buffer is at its ceiling with
\* older ones (Daemon.cpp:434-441; PttWindow.hpp:16-31; PttWindow.cpp:51-58).
NothingLostInWholeWindow ==
  gate.whole /\ ~gate.spent =>
    \A c \in past.opened + 1 .. captured :
      \/ c \in audio.window \cup audio.queue
      \/ /\ Cardinality(audio.window) = Retention
         /\ \A d \in audio.window : d < c

\* The ring is a run of consecutive chunks reaching up to the queue, no longer
\* than its capacity, and empty while the gate is open: what is spliced onto a
\* window has no hole in it (Daemon.cpp:228-235; PreRoll.cpp:35-60).
PreRollIsContiguous ==
  /\ Cardinality(audio.ring) <= PreRollCap
  /\ \A c \in audio.ring : c .. captured \subseteq audio.ring \cup audio.queue
  /\ gate.active => audio.ring = {}

\* No stream is connected unless a window is open or the headset's is being
\* held (Daemon.cpp:383-394,485-490).
StreamOnlyWhenWanted ==
  stream.up => gate.active \/ captureShouldBeHeld(machine)

\* Connection attempts are backed off.  However a connection was lost, and
\* whether or not the last attempt made one, there is no second attempt before
\* the retry time has come, PCM has flowed, or the stream was no longer wanted
\* (Daemon.cpp:396-421,475-490,580-588).
ReconnectsAreBackedOff == past.attempts <= 1

\* "listening" is on the panel only while the daemon knows it put it there, so
\* that it will take it down again (Daemon.hpp:130).
ListeningPanelIsOwned == hud.panel = "listening" => hud.listening

\* No utterance's speech goes to the ASR twice (Daemon.hpp:123: "no second
\* transcript"; Daemon.cpp:622-625).
HeardOnce == past.again = {}
-----------------------------------------------------------------------------
(* Action properties.                                                      *)

Opens  == ~gate.active /\ gate'.active
Shuts  == gate.active /\ ~gate'.active
Closes == pttListening(machine) /\ ~pttListening(machine)'

\* The privacy rule.  A chunk that reaches the ASR was captured with the gate
\* open, or sat in the ring or the queue when it opened; while the gate is shut
\* nothing is analysed (README.md:241-244).
ShutGateIsDeaf ==
  [][ ~gate.active /\ ~gate'.active =>
        /\ past'.heard = past.heard
        /\ audio'.vad \subseteq audio.vad
        /\ audio'.window = {} ]_vars

\* "The utterance handed to whisper is the window, pre-roll to `ptt stop`, minus
\* an obviously-dead tail, capped at vad.max_utterance_ms" (README.md:281-284).
\* What the ASR gets of a whole window starts with the first chunk the window
\* was given, no later than the press; it leaves out what comes after the cap,
\* what nothing audible follows within the retention, and nothing else.
WholeWindowIsHeardWhole ==
  [][ gate.whole /\ past'.heard # past.heard =>
        \E first \in audio.window \cup audio.queue :
          /\ first <= past.opened + 1
          /\ \A c \in audio.window \cup audio.queue : first <= c
          /\ past'.heard = past.heard \cup
               {c \in first .. captured :
                  /\ c < first + MaxUtterance
                  /\ \E d \in c .. captured : d \in Audible /\ d < first + Retention} ]_vars

\* A push-to-talk window never ends in silence: when it closes, whatever closed
\* it, the user has been told something (README.md:201-209; Daemon.cpp:635-642).
WindowNeverEndsInSilence == [][ Closes => past'.told >= 1 ]_vars

\* A healthy stream on the right source is left alone while a window is open,
\* however long no frame has come (Daemon.cpp:571-588).
WatchdogSparesTheWindow ==
  [][ /\ gate.active /\ gate'.active
      /\ stream.up /\ ~stream.failed /\ stream.source = chooseSource(machine')
      => stream'.up /\ (stream.retryOk => stream'.retryOk) ]_vars

-----------------------------------------------------------------------------
(* Liveness.                                                               *)

PressesCease == <>[][~Press]_vars

Needed == /\ micShouldBeOpen(machine) \/ captureShouldBeHeld(machine)
          /\ ~stream.up \/ stream.failed \/ stream.source # chooseSource(machine)

\* "A stuck PTT window auto-closes at its deadline": with no further press a
\* window closes, though nobody ever releases it (Daemon.cpp:554-566).
StuckWindowCloses == PressesCease => (pttListening(machine) ~> ~pttListening(machine))

\* The stream a window or the held headset needs comes back, whatever failed,
\* when connecting works: the failure is noticed, the source follows the
\* headset, the backoff runs out and the attempt is made (Daemon.cpp:471-490).
CaptureRecovers == Needed ~> ~Needed
-----------------------------------------------------------------------------
(* The promise to whoever holds the key.                                   *)

\* Pressing again while a window is open starts its answers afresh, and only a
\* window that opened a shut gate is a whole one.
OneAnswer == WholeWindow /\ Modes = {"ptt"} /\ "ptt start" \notin Commands

Session == INSTANCE PttSession WITH
             Once  <- OneAnswer,
             phase <- IF pttListening(machine) THEN "open" ELSE "idle",
             told  <- past.told

\* The daemon implements PttSession: windows open by a press, answer, and close
\* only answered, exactly once if they are whole; and the key held for good does
\* not keep one open (Daemon.cpp:271-300,554-566,613-644).
ImplementsSession == Session!Spec
=============================================================================
