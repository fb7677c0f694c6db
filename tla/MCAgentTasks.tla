---------------------------- MODULE MCAgentTasks ----------------------------
(* Three tasks, a query of two, and two concurrent completion requests.    *)
EXTENDS AgentTasks
=============================================================================
