---- MODULE MCStrictWrite ----
(* Two strict writes of one target among other programs. *)
EXTENDS StrictWrite, TLC

Symmetry == Permutations(Writer) \cup Permutations(File)
====
