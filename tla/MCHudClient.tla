---------------------------- MODULE MCHudClient -----------------------------
(***************************************************************************)
(* Instance of HudClient for TLC: a service that restarts twice and drops  *)
(* panels while up to four signals go unread.                              *)
(***************************************************************************)
EXTENDS HudClient
=============================================================================
