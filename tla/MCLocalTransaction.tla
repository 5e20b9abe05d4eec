------------------------- MODULE MCLocalTransaction -------------------------
(* Small instances of LocalTransaction for TLC. *)
EXTENDS LocalTransaction, TLC

(* The journal's lock file sorts between the lock files of the two targets. *)
MCLockKey == [l \in Lock |-> CASE l = JournalLock -> 1 [] l = 1 -> 2 [] OTHER -> 0]

Symmetry == Permutations(Proc)
=============================================================================
