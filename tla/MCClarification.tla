--------------------------- MODULE MCClarification ---------------------------
(* Clarification for TLC: two prompts of one codex session.  Alice       *)
(* asks; after an edit of the policy bob may review, after another he may  *)
(* no longer.                                                              *)
EXTENDS Clarification

MCHost == [cv \in Conv |-> "s1"]
MCSlot == [cv \in Conv |-> IF cv = "p1" THEN 1 ELSE 2]
MCAsked == {<<[id |-> "q1", required |-> TRUE]>>}
Low == [added |-> {"n"}, reasons |-> {}, against |-> {}]
Risky == [added |-> {}, reasons |-> {"destructive"}, against |-> {}]
MCContent == {Low, Risky}
MCBoot == {Low}
Pol(l, ap, al) == [local |-> l, contributors |-> {"alice", "bob"}, approvers |-> ap, alias |-> al]
Before == Pol("alice", {"bob"}, [a \in Actor |-> IF a = "alice" THEN {"alice", "team"} ELSE {"bob"}])
After == Pol("bob", {"bob"}, [a \in Actor |-> IF a = "alice" THEN {"alice"} ELSE {"bob", "team"}])
Revoked == [After EXCEPT !.approvers = {}]
MCAuthority == {Before, After, Revoked}
MCEdit == {<<Before, After>>, <<After, Revoked>>}
=============================================================================
