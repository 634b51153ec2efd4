------------------------ MODULE MCActivationMachine ------------------------
(***************************************************************************)
(* Instance of ActivationMachine: every mode, fallback and environment     *)
(* signal, so the run is exhaustive for this component.                    *)
(***************************************************************************)
EXTENDS ActivationMachine

MCEnvs == SEnvSignal
=============================================================================
