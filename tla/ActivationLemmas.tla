-------------------------- MODULE ActivationLemmas --------------------------
(***************************************************************************)
(* What each event does to a machine that is settled: lemmas about the     *)
(* operators of Activation, for the proofs of whoever owns a machine.      *)
(***************************************************************************)
EXTENDS Activation, TLAPS

\* The gate a mode and an environment call for is a base state.
LEMMA GateIsBase ==
  ASSUME NEW mode, NEW fallback, NEW env
  PROVE  baseGate(mode, fallback, env) \in Base
BY DEF baseGate, Base

\* Resettling a machine, whatever was assigned to it, settles it.
LEMMA ResettleSettles ==
  ASSUME NEW m \in Machine
  PROVE  resettle(m) \in Machine /\ Settled(resettle(m))
<1>1. CASE m.state \in Base
  <2>1. resettle(m) = recomputeBase(m) BY <1>1 DEF resettle
  <2>2. recomputeBase(m) \in Machine
    BY GateIsBase DEF recomputeBase, Machine, Base, EState
  <2>3. Settled(recomputeBase(m))
    BY DEF recomputeBase, Machine, Settled
  <2> QED BY <2>1, <2>2, <2>3
<1>2. CASE m.state \notin Base
  BY <1>2 DEF resettle, Settled
<1> QED BY <1>1, <1>2

\* Falling back to the base state settles the machine at it.
LEMMA RecomputeSettles ==
  ASSUME NEW m \in Machine
  PROVE  recomputeBase(m) \in Machine /\ Settled(recomputeBase(m))
BY GateIsBase DEF recomputeBase, Machine, Base, EState, Settled

\* Configuring takes a machine to a settled one.
LEMMA ConfigureSettles ==
  ASSUME NEW m \in Machine, NEW mode \in Mode, NEW fallback \in Fallback
  PROVE  /\ configure(m, mode, fallback) \in Machine
         /\ Settled(configure(m, mode, fallback))
<1>1. [m EXCEPT !.mode = mode, !.fallback = fallback] \in Machine BY DEF Machine
<1> QED BY <1>1, ResettleSettles DEF configure

\* A poll takes a machine to a settled one.
LEMMA EnvSettles ==
  ASSUME NEW m \in Machine, NEW env \in SEnvSignal
  PROVE  onEnv(m, env) \in Machine /\ Settled(onEnv(m, env))
<1>1. [m EXCEPT !.env = env] \in Machine BY DEF Machine
<1> QED BY <1>1, ResettleSettles DEF onEnv

\* Every event of an utterance takes a settled machine to a settled machine.
LEMMA EventsSettle ==
  ASSUME NEW m \in Machine, Settled(m)
  PROVE  /\ onPttStart(m) \in Machine /\ Settled(onPttStart(m))
         /\ onPttStop(m) \in Machine /\ Settled(onPttStop(m))
         /\ onWakeDetected(m) \in Machine /\ Settled(onWakeDetected(m))
         /\ onSpeechEnd(m) \in Machine /\ Settled(onSpeechEnd(m))
         /\ onListenTimeout(m) \in Machine /\ Settled(onListenTimeout(m))
         /\ onTranscribeDone(m) \in Machine /\ Settled(onTranscribeDone(m))
<1>1. onPttStart(m) \in Machine /\ Settled(onPttStart(m))
  BY DEF onPttStart, Machine, Settled, Base, EState, ActivatedBy, baseGate
<1>2. onPttStop(m) \in Machine /\ Settled(onPttStop(m))
  BY DEF onPttStop, Machine, Settled, Base, EState, baseGate
<1>3. onWakeDetected(m) \in Machine /\ Settled(onWakeDetected(m))
  BY DEF onWakeDetected, Machine, Settled, Base, EState, ActivatedBy, baseGate
<1>4. onSpeechEnd(m) \in Machine /\ Settled(onSpeechEnd(m))
  BY DEF onSpeechEnd, Machine, Settled, Base, EState, baseGate
<1>5. onListenTimeout(m) \in Machine /\ Settled(onListenTimeout(m))
  BY RecomputeSettles DEF onListenTimeout
<1>6. onTranscribeDone(m) \in Machine /\ Settled(onTranscribeDone(m))
  BY RecomputeSettles DEF onTranscribeDone
<1> QED BY <1>1, <1>2, <1>3, <1>4, <1>5, <1>6

\* The freshly constructed machine is one, though not a settled one: it is
\* configured before its first event.
LEMMA NewMachineIsMachine == NewMachine \in Machine
BY DEF NewMachine, Machine, NoCompositor, Mode, Fallback, SEnvSignal, EState, ActivatedBy
=============================================================================
