----------------------------- MODULE MCSyncRun -----------------------------
(* Small instances of SyncRun for TLC. *)
EXTENDS SyncRun, TLC

(* The first file asserts a node.  One version of it contradicts the third *)
(* file, one version of the second file contradicts the first: either      *)
(* declaration alone, or both about one subject.                           *)
MCAsserting == {1}
MCDeclares == {<<1, "c2">>, <<2, "c1">>}
MCSubject == [e \in MCDeclares |-> 1]
MCRefers == <<1, "c2">> :> {3} @@ <<2, "c1">> :> {1}

(* Nothing is declared. *)
MCNothing == {}
MCNowhere == <<>>

Symmetry == Permutations(Proc)
=============================================================================
