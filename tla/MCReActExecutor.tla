--------------------------- MODULE MCReActExecutor ---------------------------
(* Two families with a compatible tool each, one for each investigation: a *)
(* specialist investigates its own task while it helps another domain.      *)
EXTENDS ReActExecutor

CONSTANTS j1, metric_history, network_path, get_metrics, get_logs

MCKindsOf == [j \in Jobs |-> {IF j = j1 THEN metric_history ELSE network_path}]
MCToolsOf == [k \in Kinds |-> IF k = metric_history THEN {get_metrics} ELSE {get_logs}]
=============================================================================
