-------------------------- MODULE ActivationMachine --------------------------
(***************************************************************************)
(* CActivationMachine as a state machine over every event it accepts, in   *)
(* every order.  That includes onWakeDetected, onSpeechEnd and             *)
(* onListenTimeout, which the class offers (and its tests drive) but the   *)
(* daemon does not call.                                                   *)
(***************************************************************************)
EXTENDS Activation

CONSTANTS Modes, Fallbacks, Envs   \* what a reload and a poll may bring

ASSUME ActivationInputs == /\ Modes \subseteq Mode
                           /\ Fallbacks \subseteq Fallback
                           /\ Envs \subseteq SEnvSignal

VARIABLE machine
vars == machine

\* Whoever owns a machine configures it before the first event.
Init == \E mode \in Modes, fallback \in Fallbacks :
          machine = configure(NewMachine, mode, fallback)

Configure(mode, fallback) == machine' = configure(machine, mode, fallback)
Env(env)        == machine' = onEnv(machine, env)
PttStart        == machine' = onPttStart(machine)
PttStop         == machine' = onPttStop(machine)
WakeDetected    == machine' = onWakeDetected(machine)
SpeechEnd       == machine' = onSpeechEnd(machine)
ListenTimeout   == machine' = onListenTimeout(machine)
TranscribeDone  == machine' = onTranscribeDone(machine)

Next == \/ \E mode \in Modes, fallback \in Fallbacks : Configure(mode, fallback)
        \/ \E env \in Envs : Env(env)
        \/ PttStart \/ PttStop
        \/ WakeDetected \/ SpeechEnd \/ ListenTimeout \/ TranscribeDone

Spec == Init /\ [][Next]_vars
-----------------------------------------------------------------------------
TypeOK == machine \in Machine

\* Whatever events arrived while an utterance was in flight, the machine comes
\* back to the base state that the CURRENT mode and environment call for: no
\* stale gate survives an utterance (ActivationMachine.cpp:34-41,84-88).
BaseIsSettled == Settled(machine)

\* "Never yank the mic out from under an in-flight utterance": a poll or a
\* reload that changes what the gate depends on ends no utterance and moves it
\* to no other phase, and from a base state it starts none
\* (ActivationMachine.cpp:36-38).
NeverYanked ==
  [][ <<machine.env, machine.mode, machine.fallback>>'
        # <<machine.env, machine.mode, machine.fallback>>
      => IF machine.state \in Base
           THEN machine'.state \in Base
           ELSE machine'.state = machine.state ]_vars

\* A wake-word capture "is ended by VAD, not by the (unrelated) PTT button":
\* pressing or releasing PTT during one neither ends it nor turns it into a
\* PTT window (ActivationMachine.cpp:56-58).
ButtonLeavesWakeCapture ==
  [][ /\ machine.state = "LISTENING" /\ machine.activation = "wake"
      /\ machine'.pttHeld # machine.pttHeld
      => /\ machine'.state = "LISTENING"
         /\ machine'.activation = "wake" ]_vars

\* In a mode or environment that calls for the closed gate, the microphone
\* opens only by a press: a step that opens it while the gate stays closed is
\* the start of a push-to-talk utterance (ActivationMachine.hpp:56-58).
OnlyAPressOpensAClosedGate ==
  [][ /\ ~micShouldBeOpen(machine) /\ micShouldBeOpen(machine)'
      /\ baseGate(machine.mode, machine.fallback, machine.env)' = "GATED_KEYBOARD"
      => /\ machine'.state = "LISTENING"
         /\ machine'.activation = "ptt"
         /\ machine'.pttHeld ]_vars
=============================================================================
