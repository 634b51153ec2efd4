---------------------------- MODULE MCVoiceDaemon ----------------------------
(***************************************************************************)
(* Environments for the instances of VoiceDaemon that TLC checks.          *)
(***************************************************************************)
EXTENDS VoiceDaemon

Status(headset, keyboard) == [compositorAvailable |-> TRUE,
                              headsetPresent      |-> headset,
                              atKeyboard          |-> keyboard]

AtDesk   == Status(FALSE, TRUE)    \* headset off, hands on the keyboard
Donned   == Status(TRUE, FALSE)    \* headset on, away from the keyboard
Typing   == Status(TRUE, TRUE)     \* headset on, hands on the keyboard

HeadsetOnly == {Typing}
ComingAndGoing == {AtDesk, Typing, Donned}
=============================================================================
