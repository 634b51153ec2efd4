---------------------------- MODULE Segmentation ----------------------------
(***************************************************************************)
(* What VoiceDaemon takes for granted about a capture window, frame by     *)
(* frame: CVad, which cuts the frames it is fed into utterances, and       *)
(* CPttWindow, which keeps a push-to-talk window whole and decides at its  *)
(* end whether anybody spoke.                                              *)
(*                                                                         *)
(* Time is counted in analysis frames.  A frame is its level (its RMS), a  *)
(* small number; a buffer is the sequence of the numbers its frames have   *)
(* in the window, so that a frame dropped, repeated or moved shows.        *)
(* Everything behind the gate - pre-roll, reconnects, the release - is     *)
(* VoiceDaemon's, and appears here as the calls it makes.                  *)
(***************************************************************************)
EXTENDS Naturals, Sequences, FiniteSetsExt, SequencesExt

CONSTANTS
  Settings,      \* the vad configurations an instance tries, in frames
  Levels,        \* the levels a frame may have
  NoiseFrames,   \* noiseWindowMs: the frames the rolling noise floor looks at
  TailKeep,      \* kTailKeepMs: the run-out kept behind the last energetic frame
  MaxPreRoll,    \* the most frames the pre-roll ring hands to a window
  MaxFrames      \* bound: the frames a window may hear

\* A setting is what Config loads into SVadConfig.
ASSUME SettingsAssumption ==
  /\ Levels \subseteq Nat
  /\ NoiseFrames \in Nat \ {0} /\ TailKeep \in Nat \ {0}
  /\ MaxPreRoll \in Nat /\ MaxFrames \in Nat
  /\ Settings \subseteq [energy : Nat, start : Nat, end : Nat \ {0}, max : Nat \ {0}, preRoll : Nat,
                         gap : Nat, presence : Nat, backpad : Nat, adaptive : BOOLEAN]

VARIABLES
  cfg,        \* m_cfg
  phase,      \* m_captureActive, as open or shut
  whole,      \* m_pttWholeWindow
  heard,      \* the levels of the frames fed to the detector in this window
  vad,        \* CVad
  kept,       \* the buffer of m_pttAudio
  utterance   \* what m_pttAudio.finish() returned, which spends the window

vars == <<cfg, phase, whole, heard, vad, kept, utterance>>

----------------------------------------------------------------------------
\* The detector

\* A detector that has just been built, behind the first `base` frames of the window.  `out`
\* and `judged` are history: the segments of the window, and what each frame was taken for.
FreshVad(base) ==
  [base |-> base, ring |-> <<>>, run |-> 0, gap |-> 0, start |-> 0, inSpeech |-> FALSE,
   onset |-> 0, from |-> 0, samples |-> <<>>, silence |-> 0, out |-> <<>>, judged |-> <<>>]

\* resetVad in an open window: the detector forgets, what it has emitted is emitted.
resetVad(v, base) == [FreshVad(base) EXCEPT !.out = v.out, !.judged = v.judged]

\* The 20th percentile: of n levels in ascending order, the one at index n * 0.2, from 0.
Ambient(h, frames) ==
  LET idx == Cardinality(frames) \div 5
  IN CHOOSE level \in Levels :
       /\ Cardinality({i \in frames : h[i] < level}) <= idx
       /\ Cardinality({i \in frames : h[i] <= level}) > idx

\* A frame is voiced at max(energyThreshold, floor * 1.6), the floor being that of the
\* noise window which it ends.
IsVoiced(c, h, v) ==
  LET now == Len(h)
      first == Max({v.base + 1, (now + 1) - Min({NoiseFrames, now})})
  IN /\ h[now] >= c.energy
     /\ c.adaptive => 5 * h[now] >= 8 * Ambient(h, first..now)

\* Mutant: the ring has no room for a run that spans a dip.
ringFramesForAPlainRun(c) == Max({c.preRoll, c.backpad + c.start, 1})

ringFrames(c) == Max({c.preRoll, c.backpad + c.start + c.gap, 1})

emit(v, end) ==
  [v EXCEPT !.out = Append(@, [onset |-> v.onset, from |-> v.from, end |-> end,
                               samples |-> v.samples, base |-> v.base]),
            !.inSpeech = FALSE, !.run = 0, !.gap = 0, !.silence = 0, !.samples = <<>>]

\* An onset: the utterance is the ring, which holds the current frame already.
declareOnset(v, now) ==
  [v EXCEPT !.inSpeech = TRUE, !.onset = v.start, !.silence = 0,
            !.from = now - (Len(v.ring) - 1), !.samples = v.ring, !.ring = <<>>]

\* Mutant: the voiced frames between two dips do not end the first one.
extendRunSummingDips(c, v, now) ==
  LET w == [v EXCEPT !.start = IF v.run = 0 THEN now ELSE @, !.run = @ + 1]
  IN IF w.run >= c.start THEN declareOnset(w, now) ELSE w

\* A voiced frame of an onset run; the first one is where the onset will be.
extendRun(c, v, now) ==
  LET w == [v EXCEPT !.start = IF v.run = 0 THEN now ELSE @, !.run = @ + 1, !.gap = 0]
  IN IF w.run >= c.start THEN declareOnset(w, now) ELSE w

\* A dip in the run pauses it; one longer than the tolerance discards it.
pauseRun(c, v) ==
  IF v.run = 0 THEN v
  ELSE IF v.gap + 1 > c.gap THEN [v EXCEPT !.run = 0, !.gap = 0]
  ELSE [v EXCEPT !.gap = @ + 1]

\* A frame of an utterance, which ends after `end` silent frames or `max` in all.
extendUtterance(c, v, now, voiced) ==
  LET w == [v EXCEPT !.samples = Append(@, now), !.silence = IF voiced THEN 0 ELSE @ + 1]
  IN IF w.silence >= c.end \/ (now + 1) - w.onset >= c.max THEN emit(w, now + 1) ELSE w

\* The detector's step on the newest frame of h.
processFrame(c, h, v) ==
  LET now == Len(h)
      voiced == IsVoiced(c, h, v)
      ring == Append(v.ring, now)
      w == [v EXCEPT !.judged = Append(@, voiced),
                     !.ring = SubSeq(ring, Len(ring) + 1 - Min({Len(ring), ringFrames(c)}),
                                     Len(ring))]
  IN IF w.inSpeech THEN extendUtterance(c, w, now, voiced)
     ELSE IF voiced THEN extendRun(c, w, now) ELSE pauseRun(c, w)

\* CVad::push: the frames of a chunk, one after another.
push(c, h, v, chunk) ==
  FoldLeft(LAMBDA s, level : LET fed == Append(s.h, level)
                             IN [h |-> fed, v |-> processFrame(c, fed, s.v)],
           [h |-> h, v |-> v], chunk)

flush(v, now) == IF v.inSpeech THEN emit(v, now + 1) ELSE v

----------------------------------------------------------------------------
\* The whole window

None == [speech |-> FALSE, samples |-> <<>>, done |-> FALSE]

\* CPttWindow::push keeps no more than twice what an utterance may be.
retain(c, frames) == SubSeq(frames, 1, Min({Len(frames), 2 * c.max}))

\* Twice the presence threshold: half the energy floor, or 1.5 times the ambient of the
\* buffer capped at half its peak.
PresenceTwice(c, h, frames) ==
  LET at == {frames[k] : k \in DOMAIN frames}
      peak == Max({h[i] : i \in at})
  IN Max({c.energy, Min({3 * Ambient(h, at), peak})})

\* Where in the buffer there is a frame that counts as somebody speaking.
Energetic(c, h, frames) ==
  {k \in DOMAIN frames : 2 * h[frames[k]] >= PresenceTwice(c, h, frames)}

detectSpeechPresence(c, h, frames) == Cardinality(Energetic(c, h, frames)) >= c.presence

\* Everything behind the last energetic frame goes, but for a little run-out.
trimTail(c, h, frames) ==
  SubSeq(frames, 1, Min({Len(frames), Max(Energetic(c, h, frames) \union {0}) + TailKeep}))

Capped(c, frames) == SubSeq(frames, 1, Min({Len(frames), c.max}))

\* Mutant: the verdict is on what whisper would be given.
finishOnTheHead(c, h, frames) ==
  LET head == Capped(c, frames)
      speech == head # <<>> /\ detectSpeechPresence(c, h, head)
  IN [speech |-> speech, samples |-> IF speech THEN trimTail(c, h, head) ELSE head, done |-> TRUE]

\* CPttWindow::finish: the verdict on everything captured, then the tail, then the cap.
finish(c, h, frames) ==
  LET speech == frames # <<>> /\ detectSpeechPresence(c, h, frames)
  IN [speech |-> speech,
      samples |-> Capped(c, IF speech THEN trimTail(c, h, frames) ELSE frames), done |-> TRUE]

----------------------------------------------------------------------------
\* The calls the daemon makes

Init ==
  /\ cfg \in Settings /\ phase = "shut" /\ whole = FALSE
  /\ heard = <<>> /\ vad = FreshVad(0) /\ kept = <<>> /\ utterance = None

\* The loop over the chunks of drainAudio and of openCaptureWindow: window and detector hear
\* them all, and the first endpoint finalises a whole window.
hear(w, h, v, k, chunk) ==
  LET fed == push(cfg, h, v, chunk)
      all == retain(cfg, k \o [n \in 1..Len(chunk) |-> Len(h) + n])
      endpoint == w /\ Len(fed.v.out) > Len(v.out)
  IN /\ heard' = fed.h /\ vad' = fed.v
     /\ kept' = IF ~w THEN k ELSE IF endpoint THEN <<>> ELSE all
     /\ utterance' = IF endpoint THEN finish(cfg, fed.h, all) ELSE None

\* openCaptureWindow: a new detector, an empty window, and the pre-roll spliced in front.
\* Nothing of the window before is left, so one window in a behaviour is enough: a bound.
Open(w, preRoll) ==
  /\ phase = "shut" /\ heard = <<>>
  /\ phase' = "open" /\ whole' = w
  /\ hear(w, <<>>, FreshVad(0), <<>>, preRoll)
  /\ UNCHANGED cfg

\* drainAudio: a window that is spent hears nothing more.
Drain(chunk) ==
  /\ phase = "open" /\ ~utterance.done
  /\ Len(heard) + Len(chunk) <= MaxFrames
  /\ hear(whole, heard, vad, kept, chunk)
  /\ UNCHANGED <<cfg, phase, whole>>

\* startCapture in an open window builds a new detector and leaves the window its audio.
\* Once in a window is enough: a bound.
Reconnect ==
  /\ phase = "open" /\ vad.base = 0
  /\ vad' = resetVad(vad, Len(heard))
  /\ UNCHANGED <<cfg, phase, whole, heard, kept, utterance>>

\* closePttWindow: a whole window is finalised unless it was, a segmented one flushed.
Release ==
  /\ phase = "open"
  /\ phase' = "shut"
  /\ IF whole
     THEN /\ utterance' = IF utterance.done THEN utterance ELSE finish(cfg, heard, kept)
          /\ kept' = <<>> /\ UNCHANGED vad
     ELSE vad' = flush(vad, Len(heard)) /\ UNCHANGED <<kept, utterance>>
  /\ UNCHANGED <<cfg, whole, heard>>

\* The wake-word gate shuts: nothing is flushed.
Shut ==
  /\ phase = "open" /\ ~whole
  /\ phase' = "shut"
  /\ UNCHANGED <<cfg, whole, heard, vad, kept, utterance>>

Next ==
  \/ \E w \in BOOLEAN : \E n \in 0..MaxPreRoll : \E preRoll \in [1..n -> Levels] : Open(w, preRoll)
  \/ \E n \in 1..2 : \E chunk \in [1..n -> Levels] : Drain(chunk)
  \/ Reconnect
  \/ Release
  \/ Shut

Spec == Init /\ [][Next]_vars

----------------------------------------------------------------------------
\* Properties

Emitted == Range(vad.out)

\* The dips in the run that declared the segment's onset: its unvoiced frames up to where
\* `start` voiced ones have been counted.
Dips(s) ==
  LET voicedBy(d) == Cardinality({i \in s.onset..d : vad.judged[i]})
      declared == Min({d \in s.onset..(s.end - 1) : voicedBy(d) >= cfg.start})
  IN {i \in s.onset..declared : ~vad.judged[i]}

LeadIn(s) == s.onset - s.from

\* Each voiced frame of an onset may be followed by a dip of gap_tolerance_ms.
LongestOnset(c) == c.start + (c.start - 1) * c.gap

\* The proportions of the shipped values: onset_backpad_ms (300) fits in end_ms (600), an
\* utterance of max_utterance_ms (12 s) holds its onset, however choppy, and a back-pad, and
\* presence_ms (100) is no more than start_ms (150).  Config does not insist on them.
Proportioned(c) ==
  /\ c.start > 0 /\ c.backpad <= c.end
  /\ LongestOnset(c) + c.backpad <= c.max
  /\ c.presence <= c.start

\* However pre-roll, reconnects and releases cut the stream, a segment is the frames from
\* its start to its end, each once and in order (the timestamps of every word hang on it);
\* it begins its own speech no sooner than the segment before it ended; and, the settings
\* being in proportion, if its first word dipped no longer than gap_tolerance_ms in all it
\* carries its back-pad, or all that the detector was given (CVad::processFrame, the depth of
\* the ring in CVad::CVad).
SegmentsAreSound ==
  /\ \A s \in Emitted :
       /\ s.samples = [n \in 1..(s.end - s.from) |-> s.from + n - 1]
       /\ Proportioned(cfg) /\ Cardinality(Dips(s)) <= cfg.gap =>
            LeadIn(s) >= Min({cfg.backpad, s.onset - 1 - s.base})
  /\ \A j, k \in DOMAIN vad.out : j < k => vad.out[j].end <= vad.out[k].onset

\* Voiced frames which add up to an onset, every dip among them tolerated.
IsRun(a, b) ==
  /\ vad.judged[a] /\ vad.judged[b]
  /\ Cardinality({i \in a..b : vad.judged[i]}) >= cfg.start
  /\ \A i \in a..b : (i + cfg.gap <= b) => \E j \in i..(i + cfg.gap) : vad.judged[j]

\* No choppy word is structurally undetectable: frames that add up to start_ms, with no dip
\* longer than gap_tolerance_ms, are in an utterance, emitted or open, whatever was said or
\* cut off before them (CVad::processFrame; the failure the comments on gapToleranceMs tell of).
NoRunIsMissed ==
  \A a, b \in (vad.base + 1)..Len(heard) :
    a <= b /\ IsRun(a, b) =>
      \/ \E s \in Emitted : s.onset <= b /\ s.end > a
      \/ vad.inSpeech /\ vad.onset <= b
      \/ phase = "shut"

\* More than a fifth of the window is well under the gate.
QuietBetweenWords ==
  Cardinality({i \in DOMAIN heard : 3 * heard[i] <= 2 * cfg.energy}) > Len(heard) \div 5

\* CPttWindow::push drops what comes after twice max_utterance_ms; the detector hears it.
AllRetained == Len(heard) <= 2 * cfg.max

\* The forgiving verdict forgives: in a window with quiet in it, none of it dropped, an
\* utterance the detector opened - early or late, past the cap, behind a reconnect - makes the
\* window speech, and neither the trimmed tail nor the cap takes a frame at the energy
\* threshold from the first max_utterance_ms (CPttWindow::finish, detectSpeechPresence).
QuietWindowIsForgiven ==
  whole /\ utterance.done /\ (vad.inSpeech \/ vad.out # <<>>) /\ QuietBetweenWords
        /\ AllRetained /\ Proportioned(cfg) =>
    /\ utterance.speech
    /\ {i \in 1..Min({Len(heard), cfg.max}) : heard[i] >= cfg.energy}
         \subseteq Range(utterance.samples)

----------------------------------------------------------------------------
\* What the documentation and comments say, where the code does otherwise

\* Vad.hpp:65-67: "an emitted segment always carries at least onsetBackpadMs of audio
\* before onsetMs - clamped, of course, to the audio the stream has actually delivered so far".
BackpadGuaranteed ==
  \A s \in Emitted : LeadIn(s) >= Min({cfg.backpad, s.onset - 1 - s.base})
=============================================================================
