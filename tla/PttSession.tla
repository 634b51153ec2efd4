----------------------------- MODULE PttSession -----------------------------
(***************************************************************************)
(* What the daemon promises the person holding the push-to-talk key: a     *)
(* press opens a window, an open window may answer, and a window closes    *)
(* only once it has answered (README.md:201-209).  It does close, held key *)
(* or not.  VoiceDaemon implements this specification.                     *)
(***************************************************************************)
EXTENDS Naturals

CONSTANT Once    \* whether a window may answer no more than once

VARIABLES
  phase,   \* is a push-to-talk window open?
  told     \* answers of the window last opened (2 stands for more)

vars == <<phase, told>>

SessionTypeOK == phase \in {"idle", "open"} /\ told \in 0 .. 2

Answers == IF Once THEN 0 .. 1 ELSE 0 .. 2

Init == phase = "idle" /\ told = 0

\* The start of the window may already have been heard: it can answer at once.
Press == /\ phase = "idle"
         /\ phase' = "open"
         /\ told' \in Answers

Answer == /\ phase = "open"
          /\ told' \in {n \in Answers : n > told}
          /\ UNCHANGED phase

Close == /\ phase = "open"
         /\ phase' = "idle"
         /\ told' \in {n \in Answers : n >= told /\ n >= 1}

Next == Press \/ Answer \/ Close

WindowsClose == phase = "open" ~> phase = "idle"

Spec == Init /\ [][Next]_vars /\ WindowsClose
=============================================================================
