--------------------------- MODULE MCAuthorization ---------------------------
(* Authorization for TLC: concurrent calls for a task on one requirement.  *)
EXTENDS Authorization

MCRelevant == [t \in Task |-> {"n"}]
MCScope == [t \in Task |-> {"a"}]
=============================================================================
