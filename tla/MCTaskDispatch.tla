--------------------------- MODULE MCTaskDispatch ---------------------------
(* One task of s1, whose peers are the other specialists.                  *)
EXTENDS TaskDispatch

CONSTANTS t1, s1
MCOwner == [t \in Tasks |-> s1]
=============================================================================
