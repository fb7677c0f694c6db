------------------------------ MODULE MCIntake ------------------------------
(* Shared by the configurations that need no definition of their own.      *)
EXTENDS AnomalyIntake
=============================================================================
