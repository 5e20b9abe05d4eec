-------------------------- MODULE MCWriteExecution --------------------------
(* Small instances of WriteExecution for TLC. *)
EXTENDS WriteExecution, TLC

Symmetry == Permutations(Proc) \cup Permutations(Plan) \cup Permutations(Approval)
              \cup Permutations(Content)
=============================================================================
