-------------------------- MODULE ActivationProofs --------------------------
(***************************************************************************)
(* What is proved of CActivationMachine for every set of modes, fallbacks  *)
(* and environments.  The invariants are inductive together with the type  *)
(* invariant; the action properties need it too, to know what a step       *)
(* starts from.                                                            *)
(***************************************************************************)
EXTENDS ActivationMachine, ActivationLemmas, TLAPS

Inv == TypeOK /\ BaseIsSettled

-----------------------------------------------------------------------------
\* The configured machine is a settled one.
LEMMA InitInv == Init => Inv
<1> SUFFICES ASSUME NEW mode \in Modes, NEW fallback \in Fallbacks,
                    machine = configure(NewMachine, mode, fallback)
             PROVE  Inv
  BY DEF Init
<1>1. [NewMachine EXCEPT !.mode = mode, !.fallback = fallback] \in Machine
  BY NewMachineIsMachine, ActivationInputs DEF Machine
<1> QED BY <1>1, ResettleSettles DEF Inv, TypeOK, BaseIsSettled, configure

\* Every event preserves the type and the settled base state.
LEMMA NextInv == Inv /\ [Next]_vars => Inv'
<1> SUFFICES ASSUME Inv, [Next]_vars PROVE Inv' OBVIOUS
<1>0. machine \in Machine /\ Settled(machine) BY DEF Inv, TypeOK, BaseIsSettled
<1>a. ASSUME machine' \in Machine, Settled(machine') PROVE Inv'
  BY <1>a DEF Inv, TypeOK, BaseIsSettled, Settled
<1>1. ASSUME NEW mode \in Modes, NEW fallback \in Fallbacks, Configure(mode, fallback)
      PROVE  Inv'
  BY <1>0, <1>1, <1>a, ConfigureSettles, ActivationInputs DEF Configure
<1>2. ASSUME NEW env \in Envs, Env(env) PROVE Inv'
  BY <1>0, <1>2, <1>a, EnvSettles, ActivationInputs DEF Env
<1>3. CASE PttStart       BY <1>0, <1>3, <1>a, EventsSettle DEF PttStart
<1>4. CASE PttStop        BY <1>0, <1>4, <1>a, EventsSettle DEF PttStop
<1>5. CASE WakeDetected   BY <1>0, <1>5, <1>a, EventsSettle DEF WakeDetected
<1>6. CASE SpeechEnd      BY <1>0, <1>6, <1>a, EventsSettle DEF SpeechEnd
<1>7. CASE ListenTimeout  BY <1>0, <1>7, <1>a, EventsSettle DEF ListenTimeout
<1>8. CASE TranscribeDone BY <1>0, <1>8, <1>a, EventsSettle DEF TranscribeDone
<1>9. CASE UNCHANGED vars BY <1>0, <1>9, <1>a DEF vars
<1> QED
  BY <1>1, <1>2, <1>3, <1>4, <1>5, <1>6, <1>7, <1>8, <1>9 DEF Next

\* The machine is always a machine, whatever is reloaded or polled.
THEOREM ActivationTypeOK == Spec => []TypeOK
<1>1. Inv => TypeOK BY DEF Inv
<1> QED BY InitInv, NextInv, <1>1, PTL DEF Spec

\* An utterance that ends always ends at the base state the current mode and
\* environment call for (ActivationMachine.cpp:34-41,84-88).
THEOREM ActivationBaseIsSettled == Spec => []BaseIsSettled
<1>1. Inv => BaseIsSettled BY DEF Inv
<1> QED BY InitInv, NextInv, <1>1, PTL DEF Spec

\* A poll or a reload ends no utterance, moves it to no other phase, and starts
\* none from a base state (ActivationMachine.cpp:36-38).
THEOREM ActivationNeverYanked == Spec => NeverYanked
<1>1. Inv /\ [Next]_vars =>
        [ <<machine.env, machine.mode, machine.fallback>>'
            # <<machine.env, machine.mode, machine.fallback>>
          => IF machine.state \in Base
               THEN machine'.state \in Base
               ELSE machine'.state = machine.state ]_vars
  <2> DEFINE Kept == IF machine.state \in Base
                       THEN machine'.state \in Base
                       ELSE machine'.state = machine.state
  <2> SUFFICES ASSUME machine \in Machine, Next
               PROVE  \/ Kept
                      \/ <<machine'.env, machine'.mode, machine'.fallback>>
                          = <<machine.env, machine.mode, machine.fallback>>
    BY DEF Inv, TypeOK
  <2>1. ASSUME NEW mode \in Modes, NEW fallback \in Fallbacks, Configure(mode, fallback)
        PROVE  Kept
    BY <2>1 DEF Configure, configure, resettle, recomputeBase, baseGate, Base, Machine
  <2>2. ASSUME NEW env \in Envs, Env(env) PROVE Kept
    BY <2>2 DEF Env, onEnv, resettle, recomputeBase, baseGate, Base, Machine
  <2>3. CASE \/ PttStart \/ PttStop \/ WakeDetected
             \/ SpeechEnd \/ ListenTimeout \/ TranscribeDone
    BY <2>3 DEF PttStart, PttStop, WakeDetected, SpeechEnd, ListenTimeout,
         TranscribeDone, onPttStart, onPttStop, onWakeDetected, onSpeechEnd,
         onListenTimeout, onTranscribeDone, recomputeBase, Machine
  <2> QED BY <2>1, <2>2, <2>3 DEF Next
<1> QED BY InitInv, NextInv, <1>1, PTL DEF Spec, NeverYanked

\* A press or a release leaves a wake-word capture to the voice detector
\* (ActivationMachine.cpp:56-58).
THEOREM ActivationButtonLeavesWakeCapture == Spec => ButtonLeavesWakeCapture
<1>1. Inv /\ [Next]_vars =>
        [ /\ machine.state = "LISTENING" /\ machine.activation = "wake"
          /\ machine'.pttHeld # machine.pttHeld
          => /\ machine'.state = "LISTENING"
             /\ machine'.activation = "wake" ]_vars
  <2> SUFFICES ASSUME machine \in Machine, Next,
                      machine.state = "LISTENING", machine.activation = "wake"
               PROVE  \/ machine'.pttHeld = machine.pttHeld
                      \/ /\ machine'.state = "LISTENING"
                         /\ machine'.activation = "wake"
    BY DEF Inv, TypeOK
  <2> USE DEF Machine, Base
  <2>1. CASE PttStart BY <2>1 DEF PttStart, onPttStart
  <2>2. CASE PttStop  BY <2>2 DEF PttStop, onPttStop
  <2>3. ASSUME NEW mode \in Modes, NEW fallback \in Fallbacks, Configure(mode, fallback)
        PROVE  machine'.pttHeld = machine.pttHeld
    BY <2>3 DEF Configure, configure, resettle
  <2>4. ASSUME NEW env \in Envs, Env(env) PROVE machine'.pttHeld = machine.pttHeld
    BY <2>4 DEF Env, onEnv, resettle
  <2>5. CASE WakeDetected \/ SpeechEnd \/ ListenTimeout \/ TranscribeDone
    BY <2>5 DEF WakeDetected, SpeechEnd, ListenTimeout, TranscribeDone,
         onWakeDetected, onSpeechEnd, onListenTimeout, onTranscribeDone, recomputeBase
  <2> QED BY <2>1, <2>2, <2>3, <2>4, <2>5 DEF Next
<1> QED BY InitInv, NextInv, <1>1, PTL DEF Spec, ButtonLeavesWakeCapture

\* A shut gate that the mode and the environment keep shut is opened by a press
\* and by nothing else (ActivationMachine.hpp:56-58).
THEOREM ActivationOnlyAPress == Spec => OnlyAPressOpensAClosedGate
<1>1. Inv /\ Inv' /\ [Next]_vars =>
        [ /\ ~micShouldBeOpen(machine) /\ micShouldBeOpen(machine)'
          /\ baseGate(machine.mode, machine.fallback, machine.env)' = "GATED_KEYBOARD"
          => /\ machine'.state = "LISTENING"
             /\ machine'.activation = "ptt"
             /\ machine'.pttHeld ]_vars
  <2> SUFFICES ASSUME machine \in Machine, machine' \in Machine,
                      Settled(machine)', Next,
                      ~micShouldBeOpen(machine), micShouldBeOpen(machine)',
                      baseGate(machine.mode, machine.fallback, machine.env)'
                        = "GATED_KEYBOARD"
               PROVE  /\ machine'.state = "LISTENING"
                      /\ machine'.activation = "ptt"
                      /\ machine'.pttHeld
    BY DEF Inv, TypeOK, BaseIsSettled, vars
  <2>1. machine'.state = "LISTENING"
    BY DEF Settled, micShouldBeOpen, Base, Machine
  <2>2. machine.state \in {"GATED_KEYBOARD", "TRANSCRIBING"}
    BY DEF micShouldBeOpen, Machine, EState
  <2>3. CASE PttStart BY <2>1, <2>2, <2>3 DEF PttStart, onPttStart, Machine
  <2>4. ASSUME NEW mode \in Modes, NEW fallback \in Fallbacks, Configure(mode, fallback)
        PROVE  FALSE
    BY <2>1, <2>2, <2>4 DEF Configure, configure, resettle, recomputeBase, baseGate, Machine
  <2>5. ASSUME NEW env \in Envs, Env(env) PROVE FALSE
    BY <2>1, <2>2, <2>5 DEF Env, onEnv, resettle, recomputeBase, baseGate, Machine
  <2>6. CASE PttStop \/ WakeDetected \/ SpeechEnd \/ ListenTimeout \/ TranscribeDone
    BY <2>1, <2>2, <2>6 DEF PttStop, WakeDetected, SpeechEnd, ListenTimeout,
         TranscribeDone, onPttStop, onWakeDetected, onSpeechEnd, onListenTimeout,
         onTranscribeDone, recomputeBase, baseGate, Machine
  <2> QED BY <2>3, <2>4, <2>5, <2>6 DEF Next
<1> QED BY InitInv, NextInv, <1>1, PTL DEF Spec, OnlyAPressOpensAClosedGate
=============================================================================
