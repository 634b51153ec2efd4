------------------------------- MODULE PlanRun -------------------------------
(***************************************************************************)
(* What running a plan promises (Executor.hpp:108-117): its commands run   *)
(* in order, each at most once, and none after the first that fails or     *)
(* may not run.  VoiceCommand implements this specification.               *)
(***************************************************************************)
EXTENDS Sequences

VARIABLES
  todo,    \* the commands not run yet
  done,    \* the commands that have run, oldest first, and whether each succeeded
  state    \* "running", or "over"

vars == <<todo, done, state>>

Init == todo = <<>> /\ done = <<>> /\ state = "over"

Receive == /\ state = "over"
           /\ state' = "running"
           /\ todo' \in Seq({todo'[i] : i \in DOMAIN todo'})
           /\ done' = <<>>

\* A command runs; only if it succeeded may another one.
Run == /\ state = "running"
       /\ todo # <<>>
       /\ todo' = Tail(todo)
       /\ \E ok \in BOOLEAN :
            /\ done' = Append(done, [step |-> Head(todo), ok |-> ok])
            /\ state' = IF ok THEN "running" ELSE "over"

\* Nothing is left, or the next command may not run.
End == /\ state = "running"
       /\ state' = "over"
       /\ UNCHANGED <<todo, done>>

\* What is left of a plan that is over is dropped, never run.
Drop == /\ state = "over"
        /\ todo' = <<>>
        /\ done' = <<>>
        /\ UNCHANGED state

Next == Receive \/ Run \/ End \/ Drop

Spec == Init /\ [][Next]_vars
=============================================================================
