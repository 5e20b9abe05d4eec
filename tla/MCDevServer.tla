---- MODULE MCDevServer ----
(* Three commands, of which two run at a time; one birth time, so that a   *)
(* pid that is used again looks the same.  One command repeats the role    *)
(* that a source has, one replaces it, and one adds a role of another.     *)
EXTENDS DevServer, TLC

CONSTANTS c1, c2, c3, declared, other

MCMode == c1 :> {"serve", "prd"} @@ c2 :> {"prd", "status", "sources"}
          @@ c3 :> {"serve", "status", "sources"}
MCAssigns == c1 :> [source |-> 1, role |-> declared]
             @@ c2 :> [source |-> 2, role |-> declared]
             @@ c3 :> [source |-> 1, role |-> other]
MCConfigured == 1 :> other @@ 2 :> None
====
