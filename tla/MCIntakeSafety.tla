--------------------------- MODULE MCIntakeSafety ---------------------------
(* Two anomalies, two producers that may enqueue the same one at the same  *)
(* time, a queue that can be full and a dedup memory that forgets.         *)
EXTENDS AnomalyIntake, TLC

Symmetry == Permutations(Keys) \cup Permutations(Producers)
=============================================================================
