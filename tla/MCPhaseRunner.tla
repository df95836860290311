---------------------------- MODULE MCPhaseRunner ----------------------------
(***************************************************************************)
(* PhaseRunner for TLC.  The bounds are in phase.cfg.                      *)
(***************************************************************************)
EXTENDS PhaseRunner

(* The operator may ask for the provider that is not the configured one.  *)
OtherProvider == Providers \ {Configured}
=============================================================================
