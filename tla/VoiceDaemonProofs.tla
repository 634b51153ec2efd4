-------------------------- MODULE VoiceDaemonProofs --------------------------
(***************************************************************************)
(* The control of the daemon, proved for every configuration, every        *)
(* environment, every pre-roll length and every number of chunks: its      *)
(* type invariant, that the gate follows the machine, that the deadline is *)
(* armed exactly while a push-to-talk window is open, and that the buffer  *)
(* of a whole window leaks into no other.                                  *)
(*                                                                         *)
(* The code changes the machine first and the gate last, so between the    *)
(* two calls a handler is in a state the invariant does not allow.  Mid is *)
(* what holds there, Ctl what holds when no handler runs, and the proof is *)
(* one lemma per call: each call keeps Mid, and applyMicPolicy, the last   *)
(* to touch the gate in every handler, turns Mid into Ctl.                 *)
(***************************************************************************)
EXTENDS VoiceDaemon, ActivationLemmas, TLAPS

\* A window's buffer is empty unless a whole window is waiting to be heard.
WindowEmptied(v) == ~v.gate.whole \/ v.gate.spent => v.audio.window = {}

Mid(v) == /\ v \in View
          /\ v.machine.state # "TRANSCRIBING"
          /\ Settled(v.machine)
          /\ v.gate.deadline # "none" <=> pttListening(v.machine)
          /\ v.gate.whole => pttListening(v.machine) /\ v.gate.active
          /\ WindowEmptied(v)

Ctl(v) == Mid(v) /\ v.gate.active = micShouldBeOpen(v.machine)

\* A call that only talks: the user's panel, what this window said of itself,
\* and the history may change, nothing else.
OnlyTalks(v, w) == /\ w \in View
                   /\ w.machine = v.machine
                   /\ w.audio = v.audio
                   /\ w.gate.active = v.gate.active
                   /\ w.gate.whole = v.gate.whole
                   /\ w.gate.spent = v.gate.spent
                   /\ w.gate.deadline = v.gate.deadline

\* A call that may also transcribe what a window holds, and rearm the deadline.
KeepsWindow(v, w) == /\ w \in View
                     /\ w.machine = v.machine
                     /\ w.gate.active = v.gate.active
                     /\ w.gate.whole = v.gate.whole
                     /\ w.gate.deadline = "none" <=> v.gate.deadline = "none"
                     /\ WindowEmptied(w)
-----------------------------------------------------------------------------
(* Buffers.                                                                *)

\* The utterance the detector is left in consists of captured chunks.
LEMMA UtteranceType ==
  ASSUME NEW utt \in SUBSET Chunk, NEW chunks \in SUBSET Chunk
  PROVE  Utterance(utt, chunks) \in SUBSET Chunk
BY DEF Utterance, Spoken

\* So do the segments it emits.
LEMMA SegmentsType ==
  ASSUME NEW utt \in SUBSET Chunk, NEW chunks \in SUBSET Chunk
  PROVE  Segments(utt, chunks) \in SUBSET (SUBSET Chunk)
BY DEF Segments, Spoken

\* The ring keeps captured chunks only.
LEMMA NewestType ==
  ASSUME NEW chunks \in SUBSET Chunk
  PROVE  Newest(chunks) \in SUBSET Chunk
BY DEF Newest

\* What fits of chunks is some of them...
LEMMA OldestType ==
  ASSUME NEW chunks \in SUBSET Chunk, NEW n
  PROVE  Oldest(n, chunks) \in SUBSET chunks
BY DEF Oldest

\* ...and so is what the ASR is given of a whole window.
LEMMA FinishType ==
  ASSUME NEW chunks \in SUBSET Chunk
  PROVE  finish(chunks) \in SUBSET chunks
BY OldestType DEF finish
-----------------------------------------------------------------------------
(* Talking to the user.                                                    *)

\* The count of answers stays capped.
LEMMA OneMoreType == \A n \in 0 .. 2 : OneMore(n) \in 0 .. 2
BY DEF OneMore

\* Raising a panel only talks.
LEMMA TellTalks ==
  ASSUME NEW v \in View, NEW panel \in Panel
  PROVE  OnlyTalks(v, Tell(v, panel))
BY OneMoreType DEF Tell, OnlyTalks, View, Hud, Past

\* Recording an outcome only talks.
LEMMA NoteTalks ==
  ASSUME NEW v \in View, NEW outcome \in Outcome
  PROVE  OnlyTalks(v, noteWindowResult(v, outcome))
BY DEF noteWindowResult, OnlyTalks, View, Hud, Gate

\* Raising or dropping the listening panel only talks.
LEMMA HudTalks ==
  ASSUME NEW v \in View
  PROVE  OnlyTalks(v, updateListeningHud(v))
BY DEF updateListeningHud, OnlyTalks, View, Hud, Panel

\* Answering a silent window at its close only talks.
LEMMA AnswerTalks ==
  ASSUME NEW v \in View
  PROVE  OnlyTalks(v, answer(v))
<1>1. "result" \in Panel /\ "no-speech" \in Outcome BY DEF Panel, Outcome
<1> QED BY <1>1, OneMoreType DEF answer, OnlyTalks, View, Hud, Gate, Past

\* The panel and the note of a result, together.
LEMMA ResultTalks ==
  ASSUME NEW v \in View, NEW outcome \in Outcome, NEW panel \in Panel
  PROVE  OnlyTalks(v, Tell(noteWindowResult(v, outcome), panel))
<1>1. OnlyTalks(v, noteWindowResult(v, outcome)) BY NoteTalks
<1>2. noteWindowResult(v, outcome) \in View BY <1>1 DEF OnlyTalks
<1>3. OnlyTalks(noteWindowResult(v, outcome), Tell(noteWindowResult(v, outcome), panel))
  BY <1>2, TellTalks
<1> QED BY <1>1, <1>3 DEF OnlyTalks

\* A rejection, told or kept quiet, only talks.
LEMMA RejectTalks ==
  ASSUME NEW v \in View, NEW outcome \in Outcome
  PROVE  OnlyTalks(v, Reject(v, outcome))
<1>1. "result" \in Panel BY DEF Panel
<1> QED BY <1>1, ResultTalks DEF Reject, OnlyTalks

\* An accepted transcript, whatever the intent tier makes of it, only talks.
LEMMA AcceptTalks ==
  ASSUME NEW v \in View, NEW verdict
  PROVE  OnlyTalks(v, Accept(v, verdict))
<1>1. "result" \in Panel /\ "transcript" \in Panel BY DEF Panel
<1>2. "ok" \in Outcome /\ "unparsed" \in Outcome BY DEF Outcome
<1> QED BY <1>1, <1>2, ResultTalks DEF Accept

\* Transcribing a batch of segments touches no buffer and no window.
LEMMA SegmentsTalk ==
  ASSUME NEW v \in View, NEW segs \in SUBSET (SUBSET Chunk), NEW verdict
  PROVE  OnlyTalks(v, handleSegments(v, segs, verdict))
<1> DEFINE ids == UNION segs
           t == [v EXCEPT !.past.again = @ \cup (v.past.heard \cap ids),
                          !.past.heard = @ \cup ids]
<1>1. ids \in SUBSET Chunk OBVIOUS
<1>2. OnlyTalks(v, t)
  <2> HIDE DEF ids
  <2> QED BY <1>1 DEF OnlyTalks, View, Past
<1>3. "no-speech" \in Outcome /\ "asr-unavailable" \in Outcome BY DEF Outcome
<1> HIDE DEF t
<1>4. t \in View BY <1>2 DEF OnlyTalks
<1>5. OnlyTalks(t, Reject(t, "no-speech")) BY <1>3, <1>4, RejectTalks
<1>6. OnlyTalks(t, Accept(t, verdict)) BY <1>4, AcceptTalks
<1>7. OnlyTalks(v, Reject(v, "asr-unavailable")) BY <1>3, RejectTalks
<1>8. OnlyTalks(v, v) BY DEF OnlyTalks
<1>9. OnlyTalks(v, Reject(t, "no-speech")) /\ OnlyTalks(v, Accept(t, verdict))
  BY <1>2, <1>5, <1>6 DEF OnlyTalks
<1> QED BY <1>7, <1>8, <1>9 DEF handleSegments, t, ids
-----------------------------------------------------------------------------
(* The window.                                                             *)

\* Finalizing a whole window spends it and keeps its deadline armed.
LEMMA FinalizeKeeps ==
  ASSUME NEW v \in View, NEW verdict, WindowEmptied(v)
  PROVE  /\ KeepsWindow(v, finalizePttUtterance(v, verdict))
         /\ v.gate.whole => finalizePttUtterance(v, verdict).audio.window = {}
<1> DEFINE f == [v EXCEPT !.gate.spent = TRUE, !.audio.window = {}]
           kept == finish(v.audio.window)
           h == handleSegments(f, {kept}, verdict)
           l == [h EXCEPT !.gate.deadline = "linger", !.gate.due = FALSE]
<1>1. f \in View /\ KeepsWindow(v, f)
  BY DEF View, Gate, Audio, KeepsWindow, WindowEmptied
<1>2. {kept} \in SUBSET (SUBSET Chunk)
  <2>1. v.audio.window \in SUBSET Chunk BY DEF View, Audio
  <2> QED BY <2>1, FinishType
<1>3. OnlyTalks(f, h)
  <2> HIDE DEF f
  <2> QED BY <1>1, <1>2, SegmentsTalk
<1>4. KeepsWindow(v, h) /\ h.audio.window = {}
  <2>1. f.audio.window = {} BY DEF View, Audio
  <2> HIDE DEF f, h
  <2> QED BY <1>1, <1>3, <2>1 DEF OnlyTalks, KeepsWindow, WindowEmptied
<1>5. h.gate.deadline # "none" => KeepsWindow(v, l) /\ l.audio.window = {}
  <2> HIDE DEF h
  <2>1. h \in View BY <1>4 DEF KeepsWindow
  <2>2. /\ l \in View /\ l.machine = h.machine /\ l.audio = h.audio
        /\ l.gate.active = h.gate.active /\ l.gate.whole = h.gate.whole
        /\ l.gate.deadline = "linger"
    BY <2>1 DEF View, Gate
  <2> HIDE DEF l
  <2> QED BY <1>4, <2>2 DEF KeepsWindow, WindowEmptied
<1>6. finalizePttUtterance(v, verdict) =
        IF ~v.gate.whole \/ v.gate.spent THEN v
        ELSE IF verdict = "silent" \/ kept = {} THEN f
        ELSE IF h.gate.deadline = "none" THEN h ELSE l
  BY DEF finalizePttUtterance
<1>7. f.audio.window = {} BY DEF View, Audio
<1>8. KeepsWindow(v, v) BY DEF KeepsWindow
<1>9. v.gate.whole /\ v.gate.spent => v.audio.window = {} BY DEF WindowEmptied
<1> HIDE DEF f, h, l
<1> QED BY <1>1, <1>4, <1>5, <1>6, <1>7, <1>8, <1>9

\* Chunks that pass the open gate leave the window's control state alone.
LEMMA FeedKeeps ==
  ASSUME NEW v \in View, NEW chunks \in SUBSET Chunk, NEW verdict,
         WindowEmptied(v), ~(v.gate.whole /\ v.gate.spent)
  PROVE  KeepsWindow(v, Feed(v, chunks, verdict))
<1> DEFINE segs == Segments(v.audio.vad, chunks)
           kept == Oldest(Retention, v.audio.window \cup chunks)
           fed  == [v EXCEPT !.audio.vad = Utterance(@, chunks),
                             !.audio.window = IF v.gate.whole THEN kept ELSE @]
<1>1. segs \in SUBSET (SUBSET Chunk) BY SegmentsType DEF View, Audio
<1>2. Utterance(v.audio.vad, chunks) \in SUBSET Chunk BY UtteranceType DEF View, Audio
<1>3. /\ fed \in View /\ fed.machine = v.machine /\ fed.gate = v.gate
      /\ ~v.gate.whole => fed.audio.window = v.audio.window
  <2>1. v.audio.window \cup chunks \in SUBSET Chunk BY DEF View, Audio
  <2>2. kept \in SUBSET Chunk BY <2>1, OldestType
  <2> HIDE DEF kept
  <2> QED BY <1>2, <2>2 DEF View, Audio
<1>4. Feed(v, chunks, verdict) = IF ~v.gate.whole THEN handleSegments(fed, segs, verdict)
                                 ELSE IF segs = {} THEN fed
                                 ELSE finalizePttUtterance(fed, verdict)
  BY DEF Feed
<1> HIDE DEF fed, segs
<1>5. KeepsWindow(v, fed) BY <1>3 DEF KeepsWindow, WindowEmptied
<1>6. KeepsWindow(v, finalizePttUtterance(fed, verdict))
  <2>1. KeepsWindow(fed, finalizePttUtterance(fed, verdict))
    BY <1>3, <1>5, FinalizeKeeps DEF KeepsWindow
  <2> QED BY <1>5, <2>1 DEF KeepsWindow
<1>7. KeepsWindow(v, handleSegments(fed, segs, verdict))
  <2>1. OnlyTalks(fed, handleSegments(fed, segs, verdict)) BY <1>1, <1>3, SegmentsTalk
  <2> QED BY <1>5, <2>1 DEF OnlyTalks, KeepsWindow, WindowEmptied
<1> QED BY <1>4, <1>5, <1>6, <1>7

\* So does a whole drain of the queue, the gate being open or shut.
LEMMA DrainKeeps ==
  ASSUME NEW v \in View, NEW verdict, WindowEmptied(v)
  PROVE  KeepsWindow(v, drainAudio(v, verdict))
<1> DEFINE local == v.audio.queue
           d     == [v EXCEPT !.audio.queue = {}]
           r     == [d EXCEPT !.audio.ring = Newest(@ \cup local)]
           fed   == IF v.gate.whole /\ v.gate.spent THEN d ELSE Feed(d, local, verdict)
<1>1. local \in SUBSET Chunk /\ v.audio.ring \in SUBSET Chunk BY DEF View, Audio
<1>2. /\ d \in View /\ d.machine = v.machine /\ d.gate = v.gate
      /\ d.audio.window = v.audio.window /\ d.audio.ring = v.audio.ring
  BY DEF View, Audio
<1>3. drainAudio(v, verdict) = IF ~v.gate.active THEN r ELSE updateListeningHud(fed)
  BY DEF drainAudio
<1> HIDE DEF d, local
<1>4. Newest(d.audio.ring \cup local) \in SUBSET Chunk BY <1>1, <1>2, NewestType
<1>5. KeepsWindow(v, r)
  <2>1. /\ r \in View /\ r.machine = d.machine /\ r.gate = d.gate
        /\ r.audio.window = d.audio.window
    BY <1>2, <1>4 DEF View, Audio
  <2> HIDE DEF r
  <2> QED BY <1>2, <2>1 DEF KeepsWindow, WindowEmptied
<1>6. KeepsWindow(v, d) BY <1>2 DEF KeepsWindow, WindowEmptied
<1>7. KeepsWindow(v, fed)
  <2>1. ~(v.gate.whole /\ v.gate.spent) => KeepsWindow(d, Feed(d, local, verdict))
    BY <1>1, <1>2, <1>6, FeedKeeps DEF KeepsWindow
  <2> QED BY <1>6, <2>1 DEF KeepsWindow
<1> HIDE DEF fed, r
<1>8. KeepsWindow(v, updateListeningHud(fed))
  <2>1. OnlyTalks(fed, updateListeningHud(fed)) BY <1>7, HudTalks DEF KeepsWindow
  <2> QED BY <1>7, <2>1 DEF OnlyTalks, KeepsWindow, WindowEmptied
<1> QED BY <1>3, <1>5, <1>8

\* Flushing the detector, and handing over what is left of a window.
LEMMA RestKeeps ==
  ASSUME NEW v \in View, NEW verdict, WindowEmptied(v)
  PROVE  /\ transcribeRest(v, verdict) \in View
         /\ transcribeRest(v, verdict).machine = v.machine
         /\ transcribeRest(v, verdict).gate.active = v.gate.active
         /\ ~transcribeRest(v, verdict).gate.whole
         /\ transcribeRest(v, verdict).audio.window = {}
<1>1. CASE v.gate.whole
  <2> DEFINE f == finalizePttUtterance(v, verdict)
  <2>1. KeepsWindow(v, f) /\ f.audio.window = {}
    BY <1>1, FinalizeKeeps
  <2>2. transcribeRest(v, verdict) = [f EXCEPT !.gate.whole = FALSE]
    BY <1>1 DEF transcribeRest
  <2> HIDE DEF f
  <2>3. f \in View BY <2>1 DEF KeepsWindow
  <2>4. LET w == [f EXCEPT !.gate.whole = FALSE]
        IN  /\ w \in View /\ w.machine = f.machine /\ w.audio = f.audio
            /\ w.gate.active = f.gate.active /\ ~w.gate.whole
    BY <2>3 DEF View, Gate
  <2> QED BY <2>1, <2>2, <2>4 DEF KeepsWindow
<1>2. CASE ~v.gate.whole
  <2> DEFINE d == [v EXCEPT !.audio.vad = {}]
             segs == IF v.audio.vad = {} THEN {} ELSE {v.audio.vad}
  <2>1. segs \in SUBSET (SUBSET Chunk) BY DEF View, Audio
  <2>2. /\ d \in View /\ d.machine = v.machine /\ d.gate = v.gate
        /\ d.audio.window = v.audio.window
    BY DEF View, Audio
  <2>3. transcribeRest(v, verdict) = handleSegments(d, segs, verdict)
    BY <1>2 DEF transcribeRest, flushVad
  <2> HIDE DEF d, segs
  <2>4. OnlyTalks(d, handleSegments(d, segs, verdict)) BY <2>1, <2>2, SegmentsTalk
  <2> QED BY <1>2, <2>2, <2>3, <2>4 DEF OnlyTalks, WindowEmptied
<1> QED BY <1>1, <1>2
-----------------------------------------------------------------------------
(* The microphone policy.                                                  *)

\* What a reconnect may change: the stream, the ring and the detector.
OnlyReconnects(v, w) == /\ w \in View
                        /\ w.machine = v.machine
                        /\ w.gate = v.gate
                        /\ w.audio.window = v.audio.window

\* A stream that is not up is a stream.
LEMMA ClosedType == Closed \in Stream
BY DEF Closed, Stream, Source

\* The attempts forgotten, the history is a history.
LEMMA ForgottenType == \A p \in Past : [p EXCEPT !.attempts = 0] \in Past
BY DEF Past

\* A connection attempt, failed or not, only reconnects.
LEMMA StartReconnects ==
  ASSUME NEW v \in View, NEW ok \in BOOLEAN
  PROVE  OnlyReconnects(v, startCapture(v, ok))
<1> DEFINE s == [up |-> ok, source |-> IF ok THEN chooseSource(v.machine) ELSE "desk",
                 failed |-> FALSE, retryOk |-> FALSE, fresh |-> FALSE, stalled |-> FALSE]
           vad == IF v.gate.active THEN {} ELSE v.audio.vad
           w == [v EXCEPT !.stream = s, !.audio.ring = {}, !.audio.vad = vad,
                          !.past.attempts = OneMore(@)]
<1>1. s \in Stream BY DEF Stream, Source, chooseSource
<1>2. vad \in SUBSET Chunk BY DEF View, Audio
<1>3. startCapture(v, ok) = w BY DEF startCapture
<1> HIDE DEF s, vad
<1>4. OneMore(v.past.attempts) \in 0 .. 2 BY OneMoreType DEF View, Past
<1>5. OnlyReconnects(v, w) BY <1>1, <1>2, <1>4 DEF OnlyReconnects, View, Audio, Past
<1> QED BY <1>3, <1>5

\* So does the supervision at the head of the policy.
LEMMA SuperviseReconnects ==
  ASSUME NEW v \in View, NEW ok \in BOOLEAN
  PROVE  OnlyReconnects(v, superviseStream(v, ok))
<1>1. OnlyReconnects(v, [v EXCEPT !.stream = Closed, !.audio.ring = {},
                                  !.past.attempts = 0])
  <2>1. [v.past EXCEPT !.attempts = 0] \in Past BY ForgottenType DEF View
  <2> QED BY <2>1, ClosedType DEF OnlyReconnects, View, Audio
<1>2. OnlyReconnects(v, v) BY DEF OnlyReconnects
<1> QED BY <1>1, <1>2, StartReconnects DEF superviseStream

\* Reconnecting preserves what holds in mid-handler.
LEMMA ReconnectKeepsMid ==
  ASSUME NEW v, NEW w, Mid(v), OnlyReconnects(v, w)
  PROVE  Mid(w)
BY DEF Mid, OnlyReconnects, WindowEmptied

\* So does talking to the user...
LEMMA TalkKeepsMid ==
  ASSUME NEW v, NEW w, Mid(v), OnlyTalks(v, w)
  PROVE  Mid(w)
BY DEF Mid, OnlyTalks, WindowEmptied

\* ...and whatever keeps the window.
LEMMA WindowKeepsMid ==
  ASSUME NEW v, NEW w, Mid(v), KeepsWindow(v, w)
  PROVE  Mid(w)
BY DEF Mid, KeepsWindow

\* A push-to-talk window calls for an open gate.
LEMMA PttOpensMic == \A m : pttListening(m) => micShouldBeOpen(m)
BY DEF pttListening, micShouldBeOpen

\* The gate opens over the ring; the new window starts with an empty buffer.
LEMMA OpenIsCtl ==
  ASSUME NEW v \in View, NEW verdict, captured \in 0 .. MaxChunks, DaemonConstants,
         Mid(v), ~v.gate.whole, micShouldBeOpen(v.machine)
  PROVE  Ctl(openCaptureWindow([v EXCEPT !.gate.active = TRUE], verdict))
<1> DEFINE a == [v EXCEPT !.gate.active = TRUE]
           whole == WholeWindow /\ pttListening(a.machine)
           win == IF whole THEN {} ELSE a.audio.window
           o == [a EXCEPT !.gate.whole = whole, !.gate.spent = FALSE,
                          !.audio.vad = {}, !.audio.ring = {},
                          !.audio.window = win,
                          !.past.opened = captured]
<1>1. /\ a \in View /\ a.machine = v.machine /\ a.audio = v.audio
      /\ a.gate.active /\ a.gate.deadline = v.gate.deadline
  BY DEF View, Gate
<1>2. openCaptureWindow(a, verdict) = IF a.audio.ring = {} THEN o
                                      ELSE Feed(o, a.audio.ring, verdict)
  BY DEF openCaptureWindow
<1>3. whole \in BOOLEAN /\ (whole => pttListening(v.machine))
  BY <1>1 DEF DaemonConstants, pttListening
<1>4. v.audio.window = {} /\ v.audio.ring \in SUBSET Chunk
  BY DEF Mid, WindowEmptied, View, Audio
<1> HIDE DEF a, whole
<1>5. /\ o \in View /\ o.machine = a.machine /\ o.gate.active = a.gate.active
      /\ o.gate.deadline = a.gate.deadline /\ o.gate.whole = whole
      /\ ~o.gate.spent /\ o.audio.window = {}
  <2>1. win = {} BY <1>1, <1>4
  <2> HIDE DEF win
  <2>2. o \in View BY <1>1, <1>3, <2>1 DEF View, Gate, Audio, Past
  <2>3. /\ o.machine = a.machine /\ o.gate.active = a.gate.active
        /\ o.gate.deadline = a.gate.deadline /\ o.gate.whole = whole
        /\ ~o.gate.spent /\ o.audio.window = {}
    BY <1>1, <2>1 DEF View, Gate, Audio
  <2> QED BY <2>2, <2>3
<1> HIDE DEF o
<1>6. Mid(o) /\ Ctl(o)
  BY <1>1, <1>3, <1>5, PttOpensMic DEF Mid, Ctl, WindowEmptied, View, Gate
<1>7. KeepsWindow(o, Feed(o, a.audio.ring, verdict))
  BY <1>1, <1>4, <1>5, FeedKeeps DEF WindowEmptied
<1>8. Ctl(Feed(o, a.audio.ring, verdict))
  BY <1>6, <1>7, WindowKeepsMid DEF Ctl, KeepsWindow
<1>9. Ctl(openCaptureWindow(a, verdict)) BY <1>2, <1>6, <1>8
<1> QED BY <1>9 DEF a

\* The policy restores the whole invariant from the mid-handler one.
LEMMA PolicyIsCtl ==
  ASSUME NEW v, NEW ok \in BOOLEAN, NEW verdict,
         captured \in 0 .. MaxChunks, DaemonConstants, Mid(v)
  PROVE  Ctl(applyMicPolicy(v, ok, verdict))
<1> DEFINE s == superviseStream(v, ok)
           mic == micShouldBeOpen(v.machine)
           c == [s EXCEPT !.gate.active = FALSE, !.gate.whole = FALSE,
                          !.gate.spent = IF s.gate.whole THEN FALSE ELSE @,
                          !.audio.window = IF s.gate.whole THEN {} ELSE @,
                          !.audio.ring = {}]
<1>1. OnlyReconnects(v, s) BY SuperviseReconnects DEF Mid
<1>2. Mid(s) BY <1>1, ReconnectKeepsMid
<1>3. s \in View /\ s.machine = v.machine /\ s.gate = v.gate BY <1>1 DEF OnlyReconnects
<1>4. applyMicPolicy(v, ok, verdict) =
        IF mic /\ ~v.gate.active
        THEN openCaptureWindow([s EXCEPT !.gate.active = TRUE], verdict)
        ELSE IF ~mic /\ v.gate.active THEN updateListeningHud(c) ELSE s
  BY DEF applyMicPolicy
<1>5. mic \in BOOLEAN BY DEF micShouldBeOpen
<1> HIDE DEF s
<1>6. CASE mic /\ ~v.gate.active
  BY <1>2, <1>3, <1>4, <1>6, OpenIsCtl DEF Mid
<1>7. CASE ~mic /\ v.gate.active
  <2>1. ~s.gate.whole /\ s.audio.window = {}
    BY <1>2, <1>3, <1>7, PttOpensMic DEF Mid, WindowEmptied
  <2>2. /\ c \in View /\ c.machine = s.machine /\ c.gate.active = FALSE
        /\ c.gate.whole = FALSE /\ c.gate.deadline = s.gate.deadline
        /\ c.audio.window = {}
    BY <1>3, <2>1 DEF View, Gate, Audio, Past
  <2> HIDE DEF c
  <2>3. Mid(c) BY <1>2, <2>2 DEF Mid, WindowEmptied
  <2>4. OnlyTalks(c, updateListeningHud(c)) BY <2>2, HudTalks
  <2>5. Ctl(updateListeningHud(c))
    BY <1>3, <1>5, <1>7, <2>2, <2>3, <2>4, TalkKeepsMid DEF Ctl, OnlyTalks
  <2> QED BY <1>4, <1>7, <2>5
<1>8. CASE mic <=> v.gate.active
  <2>1. v.gate.active \in BOOLEAN BY DEF Mid, View, Gate
  <2>2. Ctl(s) BY <1>2, <1>3, <1>5, <1>8, <2>1 DEF Ctl
  <2> QED BY <1>4, <1>8, <2>2
<1> QED BY <1>6, <1>7, <1>8
-----------------------------------------------------------------------------
(* The handlers.                                                           *)

\* A poll or a reload moves the base state only: it neither opens nor closes a
\* push-to-talk window.
LEMMA ResettleKeepsPtt ==
  ASSUME NEW m \in Machine, m.state # "TRANSCRIBING"
  PROVE  /\ resettle(m).state # "TRANSCRIBING"
         /\ pttListening(resettle(m)) <=> pttListening(m)
BY GateIsBase DEF resettle, recomputeBase, Machine, Base, pttListening

\* A poll preserves what holds in mid-handler.
LEMMA PollKeepsMid ==
  ASSUME NEW v, NEW env \in SEnvSignal, Mid(v)
  PROVE  Mid([v EXCEPT !.machine = onEnv(@, env)])
<1> DEFINE e == [v.machine EXCEPT !.env = env]
           n == onEnv(v.machine, env)
           w == [v EXCEPT !.machine = n]
<1>1. v \in View /\ v.machine \in Machine BY DEF Mid, View
<1>2. n \in Machine /\ Settled(n) BY <1>1, EnvSettles
<1>3. e \in Machine /\ e.state = v.machine.state /\ e.activation = v.machine.activation
  BY <1>1 DEF Machine
<1>4. n = resettle(e) BY DEF onEnv
<1> HIDE DEF e
<1>5. n.state # "TRANSCRIBING" /\ (pttListening(n) <=> pttListening(v.machine))
  <2>1. pttListening(e) <=> pttListening(v.machine) BY <1>3 DEF pttListening
  <2> QED BY <1>3, <1>4, <2>1, ResettleKeepsPtt DEF Mid
<1> HIDE DEF n
<1>6. w \in View /\ w.machine = n /\ w.gate = v.gate /\ w.audio = v.audio
  BY <1>1, <1>2 DEF View
<1> HIDE DEF w
<1>7. Mid(w) BY <1>2, <1>5, <1>6 DEF Mid, WindowEmptied
<1> QED BY <1>7 DEF w, n

\* So does the configuring half of a reload.
LEMMA ReloadKeepsMid ==
  ASSUME NEW v, NEW mode \in Mode, NEW fallback \in Fallback, NEW loads \in BOOLEAN,
         Mid(v)
  PROVE  Mid([v EXCEPT !.machine = configure(@, mode, fallback),
                       !.audio.vad = {}, !.audio.ring = {}, !.asr = loads])
<1> DEFINE e == [v.machine EXCEPT !.mode = mode, !.fallback = fallback]
           n == configure(v.machine, mode, fallback)
           w == [v EXCEPT !.machine = n, !.audio.vad = {}, !.audio.ring = {},
                          !.asr = loads]
<1>1. v \in View /\ v.machine \in Machine BY DEF Mid, View
<1>2. n \in Machine /\ Settled(n) BY <1>1, ConfigureSettles
<1>3. e \in Machine /\ e.state = v.machine.state /\ e.activation = v.machine.activation
  BY <1>1 DEF Machine
<1>4. n = resettle(e) BY DEF configure
<1> HIDE DEF e
<1>5. n.state # "TRANSCRIBING" /\ (pttListening(n) <=> pttListening(v.machine))
  <2>1. pttListening(e) <=> pttListening(v.machine) BY <1>3 DEF pttListening
  <2> QED BY <1>3, <1>4, <2>1, ResettleKeepsPtt DEF Mid
<1> HIDE DEF n
<1>6. /\ w \in View /\ w.machine = n /\ w.gate = v.gate
      /\ w.audio.window = v.audio.window
  BY <1>1, <1>2 DEF View, Audio
<1> HIDE DEF w
<1>7. Mid(w) BY <1>2, <1>5, <1>6 DEF Mid, WindowEmptied
<1> QED BY <1>7 DEF w, n

\* Releasing an open push-to-talk window settles the machine at once.
LEMMA StopSettles ==
  ASSUME NEW m \in Machine, pttListening(m)
  PROVE  LET n == onTranscribeDone(onPttStop(m))
         IN  /\ n \in Machine /\ Settled(n)
             /\ n.state # "TRANSCRIBING" /\ ~pttListening(n)
<1> DEFINE p == onPttStop(m)
<1>1. p \in Machine /\ p.state = "TRANSCRIBING"
  BY DEF onPttStop, pttListening, Machine, EState
<1> HIDE DEF p
<1>2. onTranscribeDone(p) = recomputeBase(p) BY <1>1 DEF onTranscribeDone
<1>3. recomputeBase(p) \in Machine /\ Settled(recomputeBase(p)) BY <1>1, RecomputeSettles
<1>4. recomputeBase(p).state \in Base BY <1>1, GateIsBase DEF recomputeBase, Machine
<1>5. \A n : n.state \in Base => n.state # "TRANSCRIBING" /\ ~pttListening(n)
  BY DEF Base, pttListening
<1>6. onTranscribeDone(p).state # "TRANSCRIBING" /\ ~pttListening(onTranscribeDone(p))
  BY <1>2, <1>4, <1>5
<1> QED BY <1>2, <1>3, <1>6 DEF p

\* Pressing never leaves the machine transcribing or unsettled.
LEMMA StartSettles ==
  ASSUME NEW m \in Machine, m.state # "TRANSCRIBING", Settled(m)
  PROVE  /\ onPttStart(m) \in Machine /\ Settled(onPttStart(m))
         /\ onPttStart(m).state # "TRANSCRIBING"
         /\ pttListening(m) => pttListening(onPttStart(m))
<1>1. onPttStart(m) \in Machine /\ Settled(onPttStart(m)) BY EventsSettle
<1> QED BY <1>1 DEF onPttStart, pttListening, Machine, Base

\* Disarming touches the deadline and nothing else.
LEMMA DisarmDisarms ==
  ASSUME NEW v \in View
  PROVE  /\ disarm(v) \in View /\ disarm(v).machine = v.machine
         /\ disarm(v).audio = v.audio /\ disarm(v).gate.deadline = "none"
         /\ disarm(v).gate.active = v.gate.active
         /\ disarm(v).gate.whole = v.gate.whole /\ disarm(v).gate.spent = v.gate.spent
BY DEF disarm, View, Gate

\* Closing a window, or finding none to close, preserves what holds in mid-
\* handler.
LEMMA CloseKeepsMid ==
  ASSUME NEW v, NEW drained, NEW last, Mid(v)
  PROVE  Mid(closePttWindow(v, drained, last))
<1> DEFINE d == drainAudio(v, drained)
           r == transcribeRest(d, last)
           n == onTranscribeDone(onPttStop(r.machine))
           u == updateListeningHud(settle(r))
           a == answer(u)
           Unproduced(w) == [w EXCEPT !.gate.produced = FALSE]
<1>1. closePttWindow(v, drained, last)
        = Unproduced(IF pttListening(v.machine) THEN a ELSE disarm(v))
  BY DEF closePttWindow
<1>2. ASSUME NEW w, Mid(w) PROVE Mid(Unproduced(w))
  <2>1. w \in View BY <1>2 DEF Mid
  <2>2. LET x == Unproduced(w)
        IN  /\ x \in View /\ x.machine = w.machine /\ x.audio = w.audio
            /\ x.gate.active = w.gate.active /\ x.gate.whole = w.gate.whole
            /\ x.gate.spent = w.gate.spent /\ x.gate.deadline = w.gate.deadline
    BY <2>1 DEF View, Gate
  <2> HIDE DEF Unproduced
  <2> QED BY <1>2, <2>2 DEF Mid, WindowEmptied
<1> HIDE DEF Unproduced
<1>3. CASE pttListening(v.machine)
  <2>1. KeepsWindow(v, d) BY DrainKeeps DEF Mid
  <2>2. d \in View /\ WindowEmptied(d) /\ d.machine = v.machine BY <2>1 DEF KeepsWindow
  <2> HIDE DEF d
  <2>3. /\ r \in View /\ r.machine = v.machine
        /\ ~r.gate.whole /\ r.audio.window = {}
    BY <2>2, RestKeeps
  <2> HIDE DEF r
  <2>4. n \in Machine /\ Settled(n) /\ n.state # "TRANSCRIBING" /\ ~pttListening(n)
    BY <1>3, <2>3, StopSettles DEF View
  <2> DEFINE q == [r EXCEPT !.machine = n]
  <2>5. settle(r) = disarm(q) BY DEF settle
  <2> HIDE DEF n
  <2>6a. q \in View /\ q.machine = n /\ q.gate = r.gate /\ q.audio = r.audio
    BY <2>3, <2>4 DEF View
  <2> HIDE DEF q
  <2>6. /\ settle(r) \in View /\ settle(r).machine = n
        /\ settle(r).gate.whole = r.gate.whole /\ settle(r).gate.deadline = "none"
        /\ settle(r).audio = r.audio
    BY <2>5, <2>6a, DisarmDisarms
  <2>7. Mid(settle(r)) BY <2>3, <2>4, <2>6 DEF Mid, WindowEmptied
  <2>8. OnlyTalks(settle(r), u) BY <2>6, HudTalks
  <2>9. Mid(u) BY <2>7, <2>8, TalkKeepsMid
  <2> HIDE DEF u
  <2>10. OnlyTalks(u, a) BY <2>9, AnswerTalks DEF Mid
  <2>11. Mid(a) BY <2>9, <2>10, TalkKeepsMid
  <2> HIDE DEF a
  <2> QED BY <1>1, <1>2, <1>3, <2>11
<1>4. CASE ~pttListening(v.machine)
  <2>1. v \in View /\ v.gate.deadline = "none" BY <1>4 DEF Mid
  <2>2. Mid(disarm(v)) BY <2>1, DisarmDisarms DEF Mid, WindowEmptied
  <2> QED BY <1>1, <1>2, <1>4, <2>2
<1> QED BY <1>3, <1>4

\* A press establishes the invariant, whether or not it opens a window.
LEMMA StartIsCtl ==
  ASSUME NEW v, NEW ok \in BOOLEAN, NEW verdict,
         captured \in 0 .. MaxChunks, DaemonConstants, Mid(v)
  PROVE  Ctl(pttStart(v, ok, verdict))
<1> DEFINE n == onPttStart(v.machine)
           told == IF pttListening(v.machine) THEN v.past.told ELSE 0
           started == [v EXCEPT !.machine = n, !.gate.produced = FALSE, !.past.told = told]
           full == [started EXCEPT !.gate.deadline = "full", !.gate.due = FALSE]
           armed == IF pttListening(started.machine) THEN full ELSE started
           p == applyMicPolicy(armed, ok, verdict)
<1>1. v \in View /\ v.machine \in Machine BY DEF Mid, View
<1>2. told \in 0 .. 2 BY <1>1 DEF View, Past
<1>3. /\ n \in Machine /\ Settled(n) /\ n.state # "TRANSCRIBING"
      /\ pttListening(v.machine) => pttListening(n)
  BY <1>1, StartSettles DEF Mid
<1>4. pttStart(v, ok, verdict) = updateListeningHud(p) BY DEF pttStart
<1> HIDE DEF n, told
<1>5. /\ started \in View /\ started.machine = n /\ started.audio = v.audio
      /\ started.gate.active = v.gate.active /\ started.gate.whole = v.gate.whole
      /\ started.gate.spent = v.gate.spent /\ started.gate.deadline = v.gate.deadline
  BY <1>1, <1>2, <1>3 DEF View, Gate, Past
<1> HIDE DEF started
<1>6. Mid(armed)
  <2>1. CASE pttListening(n)
    <3>1. /\ full \in View /\ full.machine = n /\ full.audio = v.audio
          /\ full.gate.active = v.gate.active /\ full.gate.whole = v.gate.whole
          /\ full.gate.spent = v.gate.spent /\ full.gate.deadline = "full"
      BY <1>5 DEF View, Gate
    <3> HIDE DEF full
    <3>2. Mid(full) BY <1>3, <2>1, <3>1 DEF Mid, WindowEmptied
    <3> QED BY <1>5, <2>1, <3>2
  <2>2. CASE ~pttListening(n)
    <3>1. Mid(started) BY <1>3, <1>5, <2>2 DEF Mid, WindowEmptied
    <3> QED BY <1>5, <2>2, <3>1
  <2> QED BY <2>1, <2>2
<1> HIDE DEF armed
<1>7. Ctl(p) BY <1>6, PolicyIsCtl
<1> HIDE DEF p
<1>8. OnlyTalks(p, updateListeningHud(p)) BY <1>7, HudTalks DEF Ctl, Mid
<1>9. Ctl(updateListeningHud(p)) BY <1>7, <1>8, TalkKeepsMid DEF Ctl, OnlyTalks
<1> QED BY <1>4, <1>9

\* The stall watchdog, which may reconnect, preserves the invariant.
LEMMA WatchIsCtl ==
  ASSUME NEW v, NEW ok \in BOOLEAN, Ctl(v)
  PROVE  Ctl(watchFrames(v, ok))
<1>1. v \in View BY DEF Ctl, Mid
<1> DEFINE w == [v EXCEPT !.stream.fresh = FALSE, !.stream.stalled = FALSE,
                          !.stream.retryOk = TRUE, !.past.attempts = 0]
<1>2. OnlyReconnects(v, w)
  <2>1. [v.past EXCEPT !.attempts = 0] \in Past BY <1>1, ForgottenType DEF View
  <2> QED BY <1>1, <2>1 DEF OnlyReconnects, View, Stream
<1>3. OnlyReconnects(v, startCapture(v, ok)) BY <1>1, StartReconnects
<1>4. OnlyReconnects(v, watchFrames(v, ok))
  BY <1>1, <1>2, <1>3 DEF watchFrames, OnlyReconnects
<1> QED BY <1>4, ReconnectKeepsMid DEF Ctl, OnlyReconnects

\* A tick preserves the invariant: poll, deadline, policy, watchdog.
LEMMA TickIsCtl ==
  ASSUME NEW v, NEW env \in SEnvSignal, NEW ok \in BOOLEAN, NEW drained, NEW last,
         captured \in 0 .. MaxChunks, DaemonConstants, Mid(v)
  PROVE  Ctl(tick(v, env, ok, drained, last))
<1> DEFINE polled == [v EXCEPT !.machine = onEnv(@, env)]
           c == IF pttListening(polled.machine) /\ v.gate.due
                THEN closePttWindow(polled, drained, last) ELSE polled
           p == applyMicPolicy(c, ok, drained)
           u == updateListeningHud(p)
<1>1. tick(v, env, ok, drained, last) = watchFrames(u, ok) BY DEF tick
<1>2. Mid(polled) BY PollKeepsMid
<1> HIDE DEF polled
<1>3. Mid(c) BY <1>2, CloseKeepsMid
<1> HIDE DEF c
<1>4. Ctl(p) BY <1>3, PolicyIsCtl
<1> HIDE DEF p
<1>5. OnlyTalks(p, u) BY <1>4, HudTalks DEF Ctl, Mid
<1>6. Ctl(u) BY <1>4, <1>5, TalkKeepsMid DEF Ctl, OnlyTalks
<1> HIDE DEF u
<1>7. Ctl(watchFrames(u, ok)) BY <1>6, WatchIsCtl
<1> QED BY <1>1, <1>7
-----------------------------------------------------------------------------
(* The invariant.                                                          *)

Inv == Ctl(Now) /\ captured \in 0 .. MaxChunks /\ speech \in SUBSET Chunk

\* A handler's result becomes the next state.
LEMMA BecomeInv ==
  ASSUME NEW v, Ctl(v), Become(v), captured \in 0 .. MaxChunks, speech \in SUBSET Chunk
  PROVE  Inv'
<1>1. v \in View BY DEF Ctl, Mid
<1>2. Now' = v BY <1>1 DEF Now, Become, View
<1>3. Ctl(Now') BY <1>2
<1>4. Ctl(Now)' BY <1>3 DEF Ctl, Mid, WindowEmptied, Settled
<1> QED BY <1>4 DEF Inv, Become, Chunk

\* So does a drain of the queue.
LEMMA DrainIsCtl ==
  ASSUME NEW v, NEW verdict, Ctl(v)
  PROVE  Ctl(drainAudio(v, verdict))
<1>1. KeepsWindow(v, drainAudio(v, verdict)) BY DrainKeeps DEF Ctl, Mid
<1> QED BY <1>1, WindowKeepsMid DEF Ctl, KeepsWindow

\* What PipeWire's thread and the clocks may do: nothing the control looks at.
LEMMA OutsideInv ==
  ASSUME Inv, Now' \in View, machine' = machine, audio'.window = audio.window,
         gate'.active = gate.active, gate'.whole = gate.whole,
         gate'.spent = gate.spent, gate'.deadline = gate.deadline,
         captured' \in 0 .. MaxChunks, speech' \in SUBSET Chunk
  PROVE  Inv'
BY DEF Inv, Ctl, Mid, Now, WindowEmptied, Settled, pttListening, micShouldBeOpen,
   baseGate, Away, Chunk

\* A daemon just configured and polled: a base state of the configured mode, and
\* nothing recorded, shown or told.
LEMMA BlankIsMid ==
  ASSUME NEW mode \in Mode, NEW fallback \in Fallback, NEW env \in SEnvSignal,
         NEW loads \in BOOLEAN, DaemonConstants
  PROVE  LET b == Blank(mode, fallback, env, loads)
         IN  /\ Mid(b) /\ b.machine.state \in Base /\ b.machine.mode = mode
             /\ b.audio = [queue |-> {}, ring |-> {}, window |-> {}, vad |-> {}]
             /\ ~b.gate.active /\ ~b.gate.whole /\ ~b.gate.produced /\ b.hud.panel = "none"
             /\ b.past = [heard |-> {}, again |-> {}, opened |-> 0, told |-> 0,
                        attempts |-> 0]
<1> DEFINE m == configure(NewMachine, mode, fallback)
           n == onEnv(m, env)
           b == Blank(mode, fallback, env, loads)
<1>1. m \in Machine BY NewMachineIsMachine, ConfigureSettles
<1>2. m.state \in Base /\ m.mode = mode
  <2> DEFINE e == [NewMachine EXCEPT !.mode = mode, !.fallback = fallback]
  <2>1. e \in Machine /\ e.state \in Base /\ e.mode = mode
    BY NewMachineIsMachine DEF NewMachine, Machine, Base
  <2>2. m = resettle(e) BY DEF configure
  <2> HIDE DEF e, m
  <2> QED BY <2>1, <2>2, GateIsBase DEF resettle, recomputeBase, Machine
<1> HIDE DEF m
<1>3. n \in Machine /\ Settled(n) BY <1>1, EnvSettles
<1>4. n.state \in Base /\ n.mode = mode
  <2> DEFINE e == [m EXCEPT !.env = env]
  <2>1. e \in Machine /\ e.state \in Base /\ e.mode = mode BY <1>1, <1>2 DEF Machine
  <2>2. n = resettle(e) BY DEF onEnv
  <2> HIDE DEF e, n
  <2> QED BY <2>1, <2>2, GateIsBase DEF resettle, recomputeBase, Machine
<1> HIDE DEF n
<1>5. b = [machine |-> n, stream |-> Closed,
           audio |-> [queue |-> {}, ring |-> {}, window |-> {}, vad |-> {}],
           gate |-> [active |-> FALSE, whole |-> FALSE, spent |-> FALSE,
                     deadline |-> "none", due |-> FALSE, produced |-> FALSE,
                     outcome |-> "idle"],
           hud |-> [listening |-> FALSE, shown |-> FALSE, panel |-> "none"],
           asr |-> loads,
           past |-> [heard |-> {}, again |-> {}, opened |-> 0, told |-> 0,
                        attempts |-> 0]]
  BY DEF Blank, n, m
<1> HIDE DEF b
<1>6. b \in View
  <2>1. 0 \in 0 .. MaxChunks /\ 0 \in 0 .. 2 BY DEF DaemonConstants
  <2> QED BY <1>3, <1>5, <2>1, ClosedType DEF View, Audio, Gate, Outcome, Hud, Panel, Past
<1>7. Mid(b) BY <1>3, <1>4, <1>5, <1>6 DEF Mid, WindowEmptied, Base, pttListening
<1> QED BY <1>4, <1>5, <1>7 DEF b

\* What the daemon starts from: that, after the policy.
LEMMA InitIs ==
  ASSUME Init
  PROVE  \E mode \in Modes, fallback \in Fallbacks, env \in SEnvSignal,
            loads \in BOOLEAN, ok \in BOOLEAN :
           LET b == Blank(mode, fallback, env, loads)
           IN  Mid(b) /\ Now = applyMicPolicy(b, ok, "nothing")
<1>1. PICK mode \in Modes, fallback \in Fallbacks, env \in Envs, loads \in AsrLoads,
           ok \in Starts :
        LET v == applyMicPolicy(Blank(mode, fallback, env, loads), ok, "nothing")
        IN  /\ machine = v.machine /\ stream = v.stream /\ audio = v.audio
            /\ gate = v.gate /\ hud = v.hud /\ asr = v.asr /\ past = v.past
  BY DEF Init
<1> DEFINE b == Blank(mode, fallback, env, loads)
           p == applyMicPolicy(b, ok, "nothing")
<1>2. /\ mode \in Mode /\ fallback \in Fallback /\ env \in SEnvSignal
      /\ loads \in BOOLEAN /\ ok \in BOOLEAN
  BY DaemonConstants DEF DaemonConstants
<1>3. Mid(b) BY <1>2, BlankIsMid, DaemonConstants
<1>4. captured \in 0 .. MaxChunks BY DaemonConstants DEF Init, DaemonConstants
<1>5. /\ machine = p.machine /\ stream = p.stream /\ audio = p.audio
      /\ gate = p.gate /\ hud = p.hud /\ asr = p.asr /\ past = p.past
  BY <1>1
<1> HIDE DEF b
<1>6. p \in View BY <1>2, <1>3, <1>4, PolicyIsCtl, DaemonConstants DEF Ctl, Mid
<1> HIDE DEF p
<1>7. Now = p BY <1>5, <1>6 DEF Now, View
<1> QED BY <1>2, <1>3, <1>7 DEF p, b

\* init() establishes the invariant.
LEMMA InitInv == Init => Inv
<1> SUFFICES ASSUME Init PROVE Inv OBVIOUS
<1>1. captured \in 0 .. MaxChunks /\ speech \in SUBSET Chunk
  BY DaemonConstants DEF Init, DaemonConstants
<1>2. PICK mode \in Modes, fallback \in Fallbacks, env \in SEnvSignal,
           loads \in BOOLEAN, ok \in BOOLEAN :
        LET b == Blank(mode, fallback, env, loads)
        IN  Mid(b) /\ Now = applyMicPolicy(b, ok, "nothing")
  BY InitIs
<1>3. Ctl(Now) BY <1>1, <1>2, PolicyIsCtl, DaemonConstants
<1> QED BY <1>1, <1>3 DEF Inv

\* Every handler, and everything that happens outside them, preserves it.
LEMMA NextInv == Inv /\ [Next]_vars => Inv'
<1> SUFFICES ASSUME Inv, [Next]_vars PROVE Inv' OBVIOUS
<1>1. /\ Ctl(Now) /\ captured \in 0 .. MaxChunks /\ speech \in SUBSET Chunk
      /\ Mid(Now) /\ Now \in View
  BY DEF Inv, Ctl, Mid
<1>2. ASSUME NEW voiced \in BOOLEAN, PwCallback(voiced) PROVE Inv'
  <2>1. captured + 1 \in Chunk /\ captured' \in 0 .. MaxChunks /\ speech' \in SUBSET Chunk
    BY <1>1, <1>2, DaemonConstants DEF PwCallback, Chunk, DaemonConstants
  <2>2. audio \in Audio /\ stream \in Stream BY <1>1 DEF Now, View
  <2>3. audio' \in Audio /\ audio'.window = audio.window
    BY <1>2, <2>1, <2>2 DEF PwCallback, Audio
  <2>4. stream' \in Stream BY <1>2, <2>2 DEF PwCallback, Stream
  <2>5. Now' \in View BY <1>1, <1>2, <2>3, <2>4 DEF PwCallback, Now, View
  <2> QED BY <1>2, <2>1, <2>3, <2>5, OutsideInv DEF PwCallback
<1>3. CASE StreamFails
  <2>1. Now' \in View BY <1>1, <1>3 DEF StreamFails, Now, View, Stream, Chunk
  <2> QED BY <1>1, <1>3, <2>1, OutsideInv DEF StreamFails
<1>4. CASE StallElapses
  <2>1. Now' \in View BY <1>1, <1>4 DEF StallElapses, Now, View, Stream, Chunk
  <2> QED BY <1>1, <1>4, <2>1, OutsideInv DEF StallElapses
<1>5. CASE BackoffElapses
  <2>1. /\ stream \in Stream /\ past \in Past /\ machine \in Machine /\ audio \in Audio
        /\ gate \in Gate /\ hud \in Hud /\ asr \in BOOLEAN
    BY <1>1 DEF Now, View
  <2>2. stream' \in Stream BY <1>5, <2>1 DEF BackoffElapses, Stream
  <2>3. past' \in Past BY <1>5, <2>1, ForgottenType DEF BackoffElapses
  <2>4. Now' \in View BY <1>5, <2>1, <2>2, <2>3 DEF BackoffElapses, Now, View
  <2> QED BY <1>1, <1>5, <2>4, OutsideInv DEF BackoffElapses
<1>6. CASE DeadlinePasses
  <2>1. gate \in Gate BY <1>1 DEF Now, View
  <2>2. /\ gate' \in Gate /\ gate'.active = gate.active /\ gate'.whole = gate.whole
        /\ gate'.spent = gate.spent /\ gate'.deadline = gate.deadline
    BY <1>6, <2>1 DEF DeadlinePasses, Gate
  <2>3. Now' \in View BY <1>1, <1>6, <2>2 DEF DeadlinePasses, Now, View, Chunk
  <2> QED BY <1>1, <1>6, <2>2, <2>3, OutsideInv DEF DeadlinePasses
<1>7. CASE Drain
  <2>1. PICK verdict \in Verdicts : Become(drainAudio(Now, verdict)) BY <1>7 DEF Drain
  <2>2. Ctl(drainAudio(Now, verdict)) BY <1>1, DrainIsCtl
  <2> QED BY <1>1, <2>1, <2>2, BecomeInv
<1>8. CASE Tick
  <2>1. PICK env \in Envs, ok \in Starts, drained \in Verdicts, last \in Verdicts :
          Become(tick(Now, env, ok, drained, last))
    BY <1>8 DEF Tick
  <2>2. Ctl(tick(Now, env, ok, drained, last))
    BY <1>1, TickIsCtl, DaemonConstants DEF DaemonConstants
  <2> QED BY <1>1, <2>1, <2>2, BecomeInv
<1>9. CASE PttStart
  <2>1. PICK ok \in Starts, verdict \in Verdicts : Become(pttStart(Now, ok, verdict))
    BY <1>9 DEF PttStart
  <2>2. Ctl(pttStart(Now, ok, verdict))
    BY <1>1, StartIsCtl, DaemonConstants DEF DaemonConstants
  <2> QED BY <1>1, <2>1, <2>2, BecomeInv
<1>10. CASE PttStop
  <2>1. PICK ok \in Starts, drained \in Verdicts, last \in Verdicts :
          Become(pttStop(Now, ok, drained, last))
    BY <1>10 DEF PttStop
  <2>2. Ctl(pttStop(Now, ok, drained, last))
    BY <1>1, CloseKeepsMid, PolicyIsCtl, DaemonConstants DEF pttStop, DaemonConstants
  <2> QED BY <1>1, <2>1, <2>2, BecomeInv
<1>11. CASE Reload
  <2>1. PICK mode \in Modes, fallback \in Fallbacks, loads \in AsrLoads,
             ok \in Starts, verdict \in Verdicts :
          Become(doReload(Now, mode, fallback, loads, ok, verdict))
    BY <1>11 DEF Reload
  <2>2. Ctl(doReload(Now, mode, fallback, loads, ok, verdict))
    BY <1>1, ReloadKeepsMid, PolicyIsCtl, DaemonConstants DEF doReload, DaemonConstants
  <2> QED BY <1>1, <2>1, <2>2, BecomeInv
<1>12. CASE UNCHANGED vars
  <2>1. Now' = Now BY <1>12 DEF vars, Now
  <2> QED BY <1>1, <1>12, <2>1, OutsideInv DEF vars
<1> QED
  BY <1>2, <1>3, <1>4, <1>5, <1>6, <1>7, <1>8, <1>9, <1>10, <1>11, <1>12
     DEF Next, Press, Release
-----------------------------------------------------------------------------
(* The theorems.                                                           *)

\* Every buffer, flag and timer keeps its type, whatever is polled, reloaded or
\* pressed.
THEOREM DaemonTypeOK == Spec => []TypeOK
<1>1. Inv => TypeOK BY DEF Inv, Ctl, Mid, TypeOK
<1> QED BY InitInv, NextInv, <1>1, PTL DEF Spec

\* The gate obeys the machine after every handler (Daemon.cpp:492-513).
THEOREM DaemonGateFollowsMachine == Spec => []GateFollowsMachine
<1>1. Inv => GateFollowsMachine BY DEF Inv, Ctl, Mid, Now, GateFollowsMachine
<1> QED BY InitInv, NextInv, <1>1, PTL DEF Spec

\* No push-to-talk window is without its deadline, and no deadline without its
\* window (Daemon.cpp:554-557).
THEOREM DaemonDeadlineGuardsTheWindow == Spec => []DeadlineGuardsTheWindow
<1>1. Inv => DeadlineGuardsTheWindow BY DEF Inv, Ctl, Mid, Now, DeadlineGuardsTheWindow
<1> QED BY InitInv, NextInv, <1>1, PTL DEF Spec

\* A whole window is an open push-to-talk window, and what it recorded is gone
\* once it is heard or closed (Daemon.cpp:502-509).
THEOREM DaemonWholeWindowIsOpen == Spec => []WholeWindowIsOpen
<1>1. Inv => WholeWindowIsOpen
  BY DEF Inv, Ctl, Mid, Now, WindowEmptied, WholeWindowIsOpen
<1> QED BY InitInv, NextInv, <1>1, PTL DEF Spec
=============================================================================
