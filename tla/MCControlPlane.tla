--------------------------- MODULE MCControlPlane ---------------------------
(* ControlPlane for TLC: cases show the content of the canonical files,    *)
(* write plans and questions do not depend on it.                          *)
EXTENDS ControlPlane, TLC

MCView == [x \in Subject |-> [c \in Store |-> IF x \in Case THEN c ELSE "fixed"]]
(* No server is stopped by a changed config.yaml: the more permissive case. *)
AllTheSame == [g \in Config |-> "same"]
Interchangeable == UNION {Permutations(S) : S \in {Server, Nonce, Config, Store}}
=============================================================================
