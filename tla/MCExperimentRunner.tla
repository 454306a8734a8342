------------------------ MODULE MCExperimentRunner ------------------------
(* A small instance: one smoke step, one measured phase. *)
EXTENDS ExperimentRunner
MCPhases == <<"C2T2">>
MCSmokeSteps == <<"smoke_plan">>
=============================================================================
