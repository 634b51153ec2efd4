----------------------------- MODULE Activation -----------------------------
(***************************************************************************)
(* The pure core of CActivationMachine: the activation record and what     *)
(* each event does to it.  The daemon holds one such machine and drives it *)
(* from the control socket and the compositor poll, so the operators are   *)
(* functions from a machine to a machine; ActivationMachine turns them     *)
(* into a state machine of its own, VoiceDaemon composes them with the     *)
(* rest of the daemon.                                                     *)
(***************************************************************************)

Mode       == {"auto", "ptt", "wake"}
Fallback   == {"wake", "gate"}
EState     == {"GATED_KEYBOARD", "ARMED_WAKEWORD", "LISTENING", "TRANSCRIBING"}
Base       == {"GATED_KEYBOARD", "ARMED_WAKEWORD"}
ActivatedBy == {"ptt", "wake"}

SEnvSignal == [compositorAvailable : BOOLEAN,
               headsetPresent      : BOOLEAN,
               atKeyboard          : BOOLEAN]

Machine == [mode       : Mode,
            fallback   : Fallback,
            env        : SEnvSignal,
            state      : EState,
            activation : ActivatedBy,
            pttHeld    : BOOLEAN]

\* What the compositor's status is read as when there is no compositor.
NoCompositor == [compositorAvailable |-> FALSE,
                 headsetPresent      |-> FALSE,
                 atKeyboard          |-> TRUE]

NewMachine == [mode       |-> "auto",
               fallback   |-> "wake",
               env        |-> NoCompositor,
               state      |-> "GATED_KEYBOARD",
               activation |-> "ptt",
               pttHeld    |-> FALSE]

\* Away from the keyboard, as the compositor sees it; with no compositor to
\* ask, what the configured fallback says.
Away(fallback, env) ==
  IF env.compositorAvailable THEN env.headsetPresent /\ ~env.atKeyboard
                             ELSE fallback = "wake"

baseGate(mode, fallback, env) ==
  IF mode = "wake" \/ (mode = "auto" /\ Away(fallback, env))
  THEN "ARMED_WAKEWORD" ELSE "GATED_KEYBOARD"

recomputeBase(m) == [m EXCEPT !.state = baseGate(m.mode, m.fallback, m.env)]

\* A base state follows the gate; an utterance in flight is left alone.
resettle(m) == IF m.state \in Base THEN recomputeBase(m) ELSE m

configureSwapped(m, mode, fallback) ==
  resettle([m EXCEPT !.mode = fallback, !.fallback = mode])
configure(m, mode, fallback) ==
  resettle([m EXCEPT !.mode = mode, !.fallback = fallback])

onEnvUnsettled(m, env) == [m EXCEPT !.env = env]
onEnvAtOnce(m, env)    == recomputeBase([m EXCEPT !.env = env])
onEnv(m, env) == resettle([m EXCEPT !.env = env])

onPttStart(m) ==
  IF m.state \in Base
  THEN [m EXCEPT !.pttHeld = TRUE, !.activation = "ptt", !.state = "LISTENING"]
  ELSE [m EXCEPT !.pttHeld = TRUE]

onAnyStop(m) ==
  IF m.state = "LISTENING"
  THEN [m EXCEPT !.pttHeld = FALSE, !.state = "TRANSCRIBING"]
  ELSE [m EXCEPT !.pttHeld = FALSE]
onPttStop(m) ==
  IF m.state = "LISTENING" /\ m.activation = "ptt"
  THEN [m EXCEPT !.pttHeld = FALSE, !.state = "TRANSCRIBING"]
  ELSE [m EXCEPT !.pttHeld = FALSE]

onWakeAnywhere(m) ==
  IF m.state \in Base
  THEN [m EXCEPT !.activation = "wake", !.state = "LISTENING"] ELSE m
onWakeDetected(m) ==
  IF m.state = "ARMED_WAKEWORD"
  THEN [m EXCEPT !.activation = "wake", !.state = "LISTENING"] ELSE m

onSpeechEnd(m) ==
  IF m.state = "LISTENING" THEN [m EXCEPT !.state = "TRANSCRIBING"] ELSE m

onListenTimeout(m) == IF m.state = "LISTENING" THEN recomputeBase(m) ELSE m

onTranscribeDone(m) == IF m.state = "TRANSCRIBING" THEN recomputeBase(m) ELSE m

\* The privacy rule: may PCM reach the detectors at all?
micShouldBeOpen(m) == m.state \in {"ARMED_WAKEWORD", "LISTENING"}

\* A base state is always the one the mode and the environment call for.
Settled(m) == m.state \in Base => m.state = baseGate(m.mode, m.fallback, m.env)
=============================================================================
