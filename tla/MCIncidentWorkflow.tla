----------------------- MODULE MCIncidentWorkflow -----------------------
(* The specialists are interchangeable.                                    *)
EXTENDS IncidentWorkflow, TLC

Symmetry == Permutations(Roles)
=============================================================================
