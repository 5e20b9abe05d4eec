------------------------ MODULE Authorization_proofs ------------------------
(***************************************************************************)
(* Proofs about Authorization, for any number of calls, tasks and tokens.  *)
(***************************************************************************)
EXTENDS Authorization, FiniteSetTheorems, TLAPS

CallType == [pc : Pc, task : Task \cup {None}, version : Nat, at : Nat,
             files : FilesType \cup {None}, token : Token \cup {None},
             grant : GrantType \cup {None}, paths : SUBSET Path, reqs : SUBSET Node]
CommitType == [token : Token, task : Task, grant : GrantType, before : GraphType,
               paths : SUBSET Path, reqs : SUBSET Node]

(* What a call knows at each of its steps. *)
CallState(c) ==
  /\ call[c].pc # "idle" => call[c].task \in Task
  /\ call[c].pc \in {"evaluated", "authenticated", "snapshot", "verified", "commit"}
       => call[c].files \in FilesType
  /\ call[c].pc = "commit" => /\ lock = c /\ call[c].token \in Token
                              /\ call[c].grant \in GrantType

TypeInv == TypeOK /\ \A c \in Caller : CallState(c)

-----------------------------------------------------------------------------
(* The parts of the type invariant as the actions use them. *)
LEMMA FilesParts ==
  TypeOK => /\ graph \in GraphType /\ evidence \in EvidenceType
            /\ policy \in Nat /\ blocked \in SUBSET Node
BY DEF TypeOK, Files, FilesType

LEMMA IdleType == Idle \in CallType /\ Idle.pc = "idle"
BY AuthorizationAssumption DEF Idle, CallType, Pc

(* No operation of the issuer invents a grant. *)
LEMMA GrantsType ==
  ASSUME TypeOK
  PROVE  /\ Evicted \in [Token -> GrantType \cup {None}]
         /\ \A k : Without(k) \in [Token -> GrantType \cup {None}]
         /\ \A k, now : AfterVerify(k, now) \in [Token -> GrantType \cup {None}]
BY DEF TypeOK, Evicted, Without, AfterVerify

(* A step of one call: the others keep what they know when the lock does   *)
(* not change hands.                                                       *)
LEMMA OneCall ==
  ASSUME TypeInv, NEW c \in Caller, NEW r \in CallType,
         call' = [call EXCEPT ![c] = r],
         r.pc # "idle" => r.task \in Task,
         r.pc \in {"evaluated", "authenticated", "snapshot", "verified", "commit"}
           => r.files \in FilesType,
         r.pc = "commit" => lock' = c /\ r.token \in Token /\ r.grant \in GrantType,
         lock' = lock \/ lock = None \/ lock = c
  PROVE  call' \in [Caller -> CallType] /\ \A d \in Caller : CallState(d)'
<1>1. call \in [Caller -> CallType] /\ \A d \in Caller : CallState(d)
  BY DEF TypeInv, TypeOK, CallType
<1>2. call' \in [Caller -> CallType] /\ call'[c] = r /\ \A d \in Caller \ {c} : call'[d] = call[d]
  BY <1>1
<1>3. CallState(c)'
  BY <1>2 DEF CallState
<1>4. ASSUME NEW d \in Caller \ {c} PROVE CallState(d)'
  BY <1>1, <1>2, AuthorizationAssumption DEF CallState
<1> QED BY <1>2, <1>3, <1>4

(* A step of one call that goes on with what it knows, or with less. *)
LEMMA OneCallGoesOn ==
  ASSUME TypeInv, NEW c \in Caller, NEW pc \in Pc \ {"idle", "commit"},
         call[c].pc # "idle",
         pc \in {"evaluated", "authenticated", "snapshot", "verified"}
           => call[c].files \in FilesType,
         Goto(c, pc), lock' = lock
  PROVE  call' \in [Caller -> CallType] /\ \A d \in Caller : CallState(d)'
<1> DEFINE r == [call[c] EXCEPT !.pc = pc]
<1>1. call[c] \in CallType /\ call[c].task \in Task
  BY DEF TypeInv, TypeOK, CallType, CallState
<1>2. r \in CallType /\ r.pc = pc /\ r.task = call[c].task /\ r.files = call[c].files
  BY <1>1 DEF CallType
<1>3. call' = [call EXCEPT ![c] = r]
  BY DEF Goto
<1> HIDE DEF r
<1> QED BY <1>1, <1>2, <1>3, OneCall

LEMMA OneCallLeaves ==
  ASSUME TypeInv, NEW c \in Caller, NEW pc \in {"revoke", "leave"},
         call[c].pc # "idle", Leaving(c, pc), lock' = lock \/ lock = None \/ lock = c
  PROVE  call' \in [Caller -> CallType] /\ \A d \in Caller : CallState(d)'
<1> DEFINE r == [Idle EXCEPT !.pc = pc, !.task = call[c].task, !.token = call[c].token]
<1>1. call[c] \in CallType /\ call[c].task \in Task
  BY DEF TypeInv, TypeOK, CallType, CallState
<1>2. r \in CallType /\ r.pc = pc /\ r.task = call[c].task
  BY <1>1, IdleType DEF CallType, Pc
<1>3. call' = [call EXCEPT ![c] = r]
  BY DEF Leaving
<1> HIDE DEF r
<1> QED BY <1>1, <1>2, <1>3, OneCall

LEMMA OneCallHolds ==
  ASSUME TypeInv, NEW c \in Caller, NEW pc \in {"minted", "returned"},
         NEW k \in Token \cup {None},
         call[c].pc # "idle", Holding(c, pc, k), lock' = lock
  PROVE  call' \in [Caller -> CallType] /\ \A d \in Caller : CallState(d)'
<1> DEFINE r == [Idle EXCEPT !.pc = pc, !.task = call[c].task,
                             !.version = call[c].version, !.token = k]
<1>1. call[c] \in CallType /\ call[c].task \in Task
  BY DEF TypeInv, TypeOK, CallType, CallState
<1>2. r \in CallType /\ r.pc = pc /\ r.task = call[c].task
  BY <1>1, IdleType DEF CallType, Pc
<1>3. call' = [call EXCEPT ![c] = r]
  BY DEF Holding
<1> HIDE DEF r
<1> QED BY <1>1, <1>2, <1>3, OneCall

LEMMA OneCallEnds ==
  ASSUME TypeInv, NEW c \in Caller, End(c), lock' = lock
  PROVE  call' \in [Caller -> CallType] /\ \A d \in Caller : CallState(d)'
BY IdleType, OneCall DEF End

-----------------------------------------------------------------------------
(* The type invariant. *)
LEMMA TypeInit == Init => TypeInv
<1> SUFFICES ASSUME Init PROVE TypeInv
  OBVIOUS
<1>1. call \in [Caller -> CallType] /\ \A c \in Caller : CallState(c)
  BY IdleType DEF Init, CallState
<1>2. Files \in FilesType /\ clock \in Nat /\ changes \in Nat
  BY AuthorizationAssumption DEF Init, Files, FilesType, GraphType, EvidenceType
<1>3. grants \in [Token -> GrantType \cup {None}] /\ issued \in 0 .. MaxTokens /\ lock = None
  BY AuthorizationAssumption DEF Init
<1>4. tasks \in [Task -> Nat \cup {None}] /\ tokens \in [Task -> Token \cup {None}]
  BY DEF Init
<1>5. commits \in Seq(CommitType)
  BY DEF Init
<1> QED BY <1>1, <1>2, <1>3, <1>4, <1>5 DEF TypeInv, TypeOK, CallType, CommitType

(* TypeInv' from its parts. *)
LEMMA TypeParts ==
  ASSUME clock' \in Nat, Files' \in FilesType, changes' \in Nat,
         grants' \in [Token -> GrantType \cup {None}], issued' \in 0 .. MaxTokens,
         lock' \in Caller \cup {None},
         tasks' \in [Task -> Nat \cup {None}], tokens' \in [Task -> Token \cup {None}],
         call' \in [Caller -> CallType], \A c \in Caller : CallState(c)',
         commits' \in Seq(CommitType)
  PROVE  TypeInv'
BY DEF TypeInv, TypeOK, CallType, CommitType

(* The steps of a call. *)
LEMMA TypeStep == ASSUME TypeInv, NEW c \in Caller, Step(c) PROVE TypeInv'
<1> USE AuthorizationAssumption
<1>t. /\ clock \in Nat /\ changes \in Nat /\ Files \in FilesType
      /\ grants \in [Token -> GrantType \cup {None}] /\ issued \in 0 .. MaxTokens
      /\ lock \in Caller \cup {None}
      /\ tasks \in [Task -> Nat \cup {None}] /\ tokens \in [Task -> Token \cup {None}]
      /\ call \in [Caller -> CallType] /\ commits \in Seq(CommitType)
      /\ CallState(c) /\ TypeOK /\ call[c] \in CallType
  BY DEF TypeInv, TypeOK, CallType, CommitType
<1>f. files' = files => Files' \in FilesType /\ changes' \in Nat
  BY <1>t DEF files, Files
<1>g. /\ Evicted \in [Token -> GrantType \cup {None}]
      /\ \A k : Without(k) \in [Token -> GrantType \cup {None}]
      /\ \A k, now : AfterVerify(k, now) \in [Token -> GrantType \cup {None}]
  BY <1>t, GrantsType
<1>1. CASE Evaluate(c)
  <2>1. ASSUME call' = [call EXCEPT ![c].pc = "evaluated", ![c].files = Files], lock' = lock,
               call[c].pc = "envelope"
        PROVE  call' \in [Caller -> CallType] /\ \A d \in Caller : CallState(d)'
    <3> DEFINE r == [call[c] EXCEPT !.pc = "evaluated", !.files = Files]
    <3>1. r \in CallType /\ r.pc = "evaluated" /\ r.files = Files /\ r.task = call[c].task
      BY <1>t DEF CallType, Pc
    <3>2. call' = [call EXCEPT ![c] = r] /\ call[c].task \in Task
      BY <2>1, <1>t DEF CallState, CallType
    <3> HIDE DEF r
    <3> QED BY <3>1, <3>2, <2>1, <1>t, OneCall
  <2>2. call' \in [Caller -> CallType] /\ \A d \in Caller : CallState(d)'
    BY <1>1, <2>1, OneCallEnds DEF Evaluate, issuer
  <2> QED BY <1>1, <2>2, <1>t, <1>f, TypeParts DEF Evaluate, issuer, host
<1>2. CASE EvaluateRefused(c)
  <2>1. call' \in [Caller -> CallType] /\ \A d \in Caller : CallState(d)'
    BY <1>2, OneCallHolds DEF EvaluateRefused, issuer
  <2> QED BY <1>2, <2>1, <1>t, <1>f, TypeParts DEF EvaluateRefused, issuer, host
<1>3. CASE Authenticate(c)
  <2>1. call' \in [Caller -> CallType] /\ \A d \in Caller : CallState(d)'
    BY <1>3, <1>t, OneCallGoesOn, OneCallEnds DEF Authenticate, issuer, CallState, Pc
  <2> QED BY <1>3, <2>1, <1>t, <1>f, TypeParts DEF Authenticate, issuer, host
<1>4. CASE Issue(c)
  <2>1. issued + 1 \in Token /\ issued' \in 0 .. MaxTokens
    BY <1>4, <1>t DEF Issue, Token
  <2>2. Grant(c) \in GrantType
    BY <1>4, <1>t, FilesParts DEF Issue, Grant, GrantType, CallState
  <2>3. grants' \in [Token -> GrantType \cup {None}]
    BY <1>4, <1>g, <2>1, <2>2 DEF Issue
  <2>4. call' \in [Caller -> CallType] /\ \A d \in Caller : CallState(d)'
    BY <1>4, <2>1, OneCallHolds DEF Issue
  <2> QED BY <1>4, <2>1, <2>3, <2>4, <1>t, <1>f, TypeParts DEF Issue, host
<1>5. CASE IssueRefused(c)
  <2>1. call' \in [Caller -> CallType] /\ \A d \in Caller : CallState(d)'
    BY <1>5, OneCallEnds DEF IssueRefused
  <2> QED BY <1>5, <2>1, <1>t, <1>f, <1>g, TypeParts DEF IssueRefused, host
<1>6. CASE ReturnToken(c)
  <2>1. call' \in [Caller -> CallType] /\ \A d \in Caller : CallState(d)'
    BY <1>6, OneCallGoesOn DEF ReturnToken, issuer, Pc
  <2> QED BY <1>6, <2>1, <1>t, <1>f, TypeParts DEF ReturnToken, issuer, host
<1>7. CASE PreflightCancelled(c)
  <2>1. call' \in [Caller -> CallType] /\ \A d \in Caller : CallState(d)'
    BY <1>7, OneCallEnds DEF PreflightCancelled
  <2> QED BY <1>7, <2>1, <1>t, <1>f, <1>g, TypeParts DEF PreflightCancelled, host
<1>8. CASE Keep(c)
  <2>1. call' \in [Caller -> CallType] /\ \A d \in Caller : CallState(d)'
    BY <1>8, OneCallEnds DEF Keep, issuer
  <2>2. tasks' \in [Task -> Nat \cup {None}] /\ tokens' \in [Task -> Token \cup {None}]
    BY <1>8, <1>t DEF Keep, CallType
  <2> QED BY <1>8, <2>1, <2>2, <1>t, <1>f, TypeParts DEF Keep, issuer
<1>9. CASE PostSnapshot(c)
  <2> DEFINE r == [call[c] EXCEPT !.pc = "snapshot", !.files = Files]
  <2>1. r \in CallType /\ r.pc = "snapshot" /\ r.files = Files /\ r.task = call[c].task
    BY <1>t DEF CallType, Pc
  <2>2. call' = [call EXCEPT ![c] = r] /\ call[c].task \in Task /\ lock' = lock
    BY <1>9, <1>t DEF PostSnapshot, CallState, issuer, CallType
  <2> HIDE DEF r
  <2>3. call' \in [Caller -> CallType] /\ \A d \in Caller : CallState(d)'
    BY <2>1, <2>2, <1>t, OneCall
  <2> QED BY <1>9, <2>3, <1>t, <1>f, TypeParts DEF PostSnapshot, issuer, host
<1>10. CASE PostVerify(c)
  <2>1. ASSUME call' = [call EXCEPT ![c].pc = "verified", ![c].at = clock], lock' = lock,
               call[c].pc = "snapshot"
        PROVE  call' \in [Caller -> CallType] /\ \A d \in Caller : CallState(d)'
    <3> DEFINE r == [call[c] EXCEPT !.pc = "verified", !.at = clock]
    <3>1. r \in CallType /\ r.pc = "verified" /\ r.files = call[c].files /\ r.task = call[c].task
      BY <1>t DEF CallType, Pc
    <3>2. call' = [call EXCEPT ![c] = r] /\ call[c].task \in Task /\ call[c].files \in FilesType
      BY <2>1, <1>t DEF CallState, CallType
    <3> HIDE DEF r
    <3> QED BY <3>1, <3>2, <2>1, OneCall
  <2>2. call' \in [Caller -> CallType] /\ \A d \in Caller : CallState(d)'
    BY <1>10, <2>1, OneCallLeaves DEF PostVerify
  <2> QED BY <1>10, <2>2, <1>t, <1>f, <1>g, TypeParts DEF PostVerify, host
<1>11. CASE PostConsume(c)
  <2> DEFINE r == [call[c] EXCEPT !.pc = "commit", !.grant = grants[call[c].token]]
  <2>1. call[c].token \in Token /\ grants[call[c].token] \in GrantType
    BY <1>11, <1>t DEF PostConsume, CallVerified, Verified
  <2>2. r \in CallType /\ r.pc = "commit" /\ r.files = call[c].files /\ r.task = call[c].task
        /\ r.token = call[c].token /\ r.grant = grants[call[c].token]
    BY <2>1, <1>t DEF CallType, Pc
  <2>3. call' = [call EXCEPT ![c] = r] /\ call[c].task \in Task /\ call[c].files \in FilesType
        /\ lock' = c /\ lock = None
    BY <1>11, <1>t DEF PostConsume, CallState, CallType
  <2> HIDE DEF r
  <2>4. call' \in [Caller -> CallType] /\ \A d \in Caller : CallState(d)'
    BY <2>1, <2>2, <2>3, OneCall
  <2> QED BY <1>11, <2>3, <2>4, <1>t, <1>f, <1>g, TypeParts DEF PostConsume, host
<1>12. CASE PostRejected(c)
  <2>1. call' \in [Caller -> CallType] /\ \A d \in Caller : CallState(d)'
    BY <1>12, OneCallLeaves DEF PostRejected
  <2> QED BY <1>12, <2>1, <1>t, <1>f, <1>g, TypeParts DEF PostRejected, host
<1>13. CASE PostCommit(c)
  <2>1. call' \in [Caller -> CallType] /\ \A d \in Caller : CallState(d)'
    BY <1>13, OneCallLeaves DEF PostCommit
  <2>2. Commit(c) \in CommitType
    BY <1>13, <1>t, FilesParts DEF PostCommit, Commit, CommitType, CallType, CallState
  <2>3. graph \in GraphType /\ call[c].reqs \subseteq Node
    BY <1>t, FilesParts DEF CallType
  <2>4. \A v \in Nat, l \in SUBSET Node : [graph EXCEPT !.version = v, !.linked = l] \in GraphType
    BY <2>3 DEF GraphType
  <2>5. graph' \in GraphType
    <3>1. graph.version + 1 \in Nat /\ graph.linked \cup call[c].reqs \in SUBSET Node
      BY <2>3 DEF GraphType
    <3>2. graph' = [graph EXCEPT !.version = graph.version + 1,
                                 !.linked = graph.linked \cup call[c].reqs]
      BY <1>13 DEF PostCommit
    <3> QED BY <3>1, <3>2, <2>4
  <2>6. Files' \in FilesType
    BY <1>13, <2>5, <1>t, FilesParts DEF PostCommit, Files, FilesType
  <2>7. commits' \in Seq(CommitType)
    BY <1>13, <2>2, <1>t DEF PostCommit
  <2> QED BY <1>13, <2>1, <2>6, <2>7, <1>t, TypeParts DEF PostCommit, host
<1>14. CASE PostFails(c)
  <2>1. call' \in [Caller -> CallType] /\ \A d \in Caller : CallState(d)'
    BY <1>14, OneCallLeaves DEF PostFails
  <2> QED BY <1>14, <2>1, <1>t, <1>f, TypeParts DEF PostFails, host
<1>15. CASE PostRevoke(c)
  <2>1. call' \in [Caller -> CallType] /\ \A d \in Caller : CallState(d)'
    BY <1>15, OneCallLeaves DEF PostRevoke
  <2> QED BY <1>15, <2>1, <1>t, <1>f, <1>g, TypeParts DEF PostRevoke, host
<1>16. CASE Leave(c)
  <2>1. call' \in [Caller -> CallType] /\ \A d \in Caller : CallState(d)'
    BY <1>16, OneCallEnds DEF Leave
  <2>2. tasks' \in [Task -> Nat \cup {None}] /\ tokens' \in [Task -> Token \cup {None}]
    BY <1>16, <1>t DEF Leave
  <2> QED BY <1>16, <2>1, <2>2, <1>t, <1>f, <1>g, TypeParts DEF Leave
<1> QED BY <1>1, <1>2, <1>3, <1>4, <1>5, <1>6, <1>7, <1>8, <1>9, <1>10, <1>11, <1>12, <1>13,
           <1>14, <1>15, <1>16 DEF Step

(* The start of a call. *)
LEMMA TypeStart == ASSUME TypeInv, NEW c \in Caller, Start(c) PROVE TypeInv'
<1>t. /\ clock \in Nat /\ changes \in Nat /\ Files \in FilesType
      /\ grants \in [Token -> GrantType \cup {None}] /\ issued \in 0 .. MaxTokens
      /\ lock \in Caller \cup {None}
      /\ tasks \in [Task -> Nat \cup {None}] /\ tokens \in [Task -> Token \cup {None}]
      /\ call \in [Caller -> CallType] /\ commits \in Seq(CommitType)
      /\ TypeOK /\ \A d \in Caller : CallState(d)
  BY DEF TypeInv, TypeOK, CallType, CommitType
<1>f. files' = files => Files' \in FilesType /\ changes' \in Nat
  BY <1>t DEF files, Files
<1>p. PICK t \in Task :
        \/ BeforeTask(c, t) \/ BeforeMutation(c, t) \/ AbandonTask(c, t)
        \/ \E paths \in SUBSET Path, reqs \in SUBSET Node : AfterTask(c, t, paths, reqs)
  BY DEF Start
<1>1. CASE BeforeTask(c, t)
  <2> DEFINE r == [Idle EXCEPT !.pc = "envelope", !.task = t,
                               !.version = graph.version, !.at = clock]
  <2>1. r \in CallType /\ r.pc = "envelope" /\ r.task = t
    BY <1>t, FilesParts, IdleType DEF CallType, GraphType, Pc
  <2>2. call' = [call EXCEPT ![c] = r] /\ lock' = lock
    BY <1>1 DEF BeforeTask, issuer
  <2> HIDE DEF r
  <2>3. call' \in [Caller -> CallType] /\ \A d \in Caller : CallState(d)'
    BY <2>1, <2>2, OneCall
  <2> QED BY <1>1, <2>3, <1>t, <1>f, TypeParts DEF BeforeTask, issuer, host
<1>2. CASE BeforeMutation(c, t)
  <2>1. call' \in [Caller -> CallType] /\ \A d \in Caller : CallState(d)'
    BY <1>2, <1>t DEF BeforeMutation, CallState
  <2> QED BY <1>2, <2>1, <1>t, <1>f, GrantsType, TypeParts DEF BeforeMutation, host
<1>3. CASE AbandonTask(c, t)
  <2> DEFINE r == [Idle EXCEPT !.pc = "leave", !.task = t, !.token = tokens[t]]
  <2>1. r \in CallType /\ r.pc = "leave" /\ r.task = t
    BY <1>t, IdleType DEF CallType, Pc
  <2>2. call' = [call EXCEPT ![c] = r] /\ lock' = lock
    BY <1>3 DEF AbandonTask, issuer
  <2> HIDE DEF r
  <2>3. call' \in [Caller -> CallType] /\ \A d \in Caller : CallState(d)'
    BY <2>1, <2>2, OneCall
  <2> QED BY <1>3, <2>3, <1>t, <1>f, TypeParts DEF AbandonTask, issuer, host
<1>4. ASSUME NEW paths \in SUBSET Path, NEW reqs \in SUBSET Node, AfterTask(c, t, paths, reqs)
      PROVE  TypeInv'
  <2> DEFINE r == Submission(t, paths, reqs)
  <2>1. tasks[t] \in Nat /\ tokens[t] \in Token
    BY <1>4, <1>t DEF AfterTask, Authorizable
  <2>2. r \in CallType /\ r.pc = "submitted" /\ r.task = t
    BY <2>1, <1>t, IdleType DEF Submission, CallType, Pc
  <2>3. call' = [call EXCEPT ![c] = r] /\ lock' = lock
    BY <1>4 DEF AfterTask, issuer
  <2> HIDE DEF r
  <2>4. call' \in [Caller -> CallType] /\ \A d \in Caller : CallState(d)'
    BY <2>2, <2>3, OneCall
  <2> QED BY <1>4, <2>4, <1>t, <1>f, TypeParts DEF AfterTask, issuer, host
<1> QED BY <1>p, <1>1, <1>2, <1>3, <1>4

(* Steps of the rest of the system, which change files and clock only. *)
Rest == \/ Tick \/ OtherChange \/ HandEdit \/ EditPolicy
        \/ \E t \in Task : Capture(t)
        \/ \E n \in Node : MoveCase(n)

LEMMA RestSteps == Rest => UNCHANGED <<issuer, host, call, commits>>
BY DEF Rest, Tick, Other, OtherChange, HandEdit, EditPolicy, Capture, MoveCase

LEMMA TypeRest == ASSUME TypeInv, Rest PROVE TypeInv'
<1>t. /\ clock \in Nat /\ changes \in Nat /\ Files \in FilesType
      /\ grants \in [Token -> GrantType \cup {None}] /\ issued \in 0 .. MaxTokens
      /\ lock \in Caller \cup {None}
      /\ tasks \in [Task -> Nat \cup {None}] /\ tokens \in [Task -> Token \cup {None}]
      /\ call \in [Caller -> CallType] /\ commits \in Seq(CommitType)
      /\ \A c \in Caller : CallState(c)
      /\ graph \in GraphType /\ evidence \in EvidenceType /\ policy \in Nat
      /\ blocked \in SUBSET Node
  BY FilesParts DEF TypeInv, TypeOK, CallType, CommitType
<1>u. /\ UNCHANGED <<grants, issued, lock, tasks, tokens, call, commits>>
      /\ \A c \in Caller : CallState(c)'
  BY <1>t, RestSteps DEF issuer, host, CallState
<1>1. clock' \in Nat /\ changes' \in Nat
  BY <1>t DEF Rest, Tick, Other, OtherChange, HandEdit, EditPolicy, Capture, MoveCase, files
<1>2. graph' \in GraphType
  BY <1>t DEF Rest, Tick, OtherChange, HandEdit, EditPolicy, Capture, MoveCase, files, GraphType
<1>3. evidence' \in EvidenceType
  BY <1>t DEF Rest, Tick, OtherChange, HandEdit, EditPolicy, Capture, MoveCase, files, EvidenceType
<1>4. policy' \in Nat /\ blocked' \in SUBSET Node
  BY <1>t DEF Rest, Tick, OtherChange, HandEdit, EditPolicy, Capture, MoveCase, files
<1>5. Files' \in FilesType
  BY <1>2, <1>3, <1>4 DEF Files, FilesType
<1> QED BY <1>t, <1>u, <1>1, <1>5, TypeParts

LEMMA TypeRestart == ASSUME TypeInv, Restart PROVE TypeInv'
<1>t. /\ clock \in Nat /\ changes \in Nat /\ Files \in FilesType
      /\ issued \in 0 .. MaxTokens /\ commits \in Seq(CommitType)
  BY DEF TypeInv, TypeOK, CommitType
<1>1. call' \in [Caller -> CallType] /\ \A c \in Caller : CallState(c)'
  BY IdleType DEF Restart, CallState
<1>2. Files' \in FilesType /\ changes' \in Nat
  BY <1>t DEF Restart, files, Files
<1> QED BY <1>1, <1>2, <1>t, TypeParts DEF Restart

LEMMA Cases ==
  Next => (\E c \in Caller : Start(c) \/ Step(c)) \/ Restart \/ Rest
BY DEF Next, Rest

LEMMA TypeNext == TypeInv /\ [Next]_vars => TypeInv'
<1> SUFFICES ASSUME TypeInv, [Next]_vars PROVE TypeInv'
  OBVIOUS
<1>1. CASE Next
  BY <1>1, Cases, TypeStart, TypeStep, TypeRestart, TypeRest
<1>2. CASE UNCHANGED vars
  BY <1>2 DEF vars, files, issuer, host, TypeInv, TypeOK, CallState, Files
<1> QED BY <1>1, <1>2

(* Type correctness of the issuer, the host's tables, the calls and the    *)
(* record of the commits, with what each call knows at its step.           *)
THEOREM TypeCorrect == Spec => []TypeOK
<1>1. TypeInv => TypeOK
  BY DEF TypeInv
<1> QED BY <1>1, TypeInit, TypeNext, PTL DEF Spec

-----------------------------------------------------------------------------
(* How a step may change the grants: all but issue only take some away. *)
Shrinks == issued' = issued /\ \A k \in Token : grants'[k] = grants[k] \/ grants'[k] = None
Mints == /\ issued' = issued + 1
         /\ \A k \in Token \ {issued'} : grants'[k] = grants[k] \/ grants'[k] = None

LEMMA Removal ==
  /\ \A k \in Token : Evicted[k] = grants[k] \/ Evicted[k] = None
  /\ \A j, k \in Token : Without(j)[k] = grants[k] \/ Without(j)[k] = None
  /\ \A k \in Token : Without(None)[k] = grants[k] \/ Without(None)[k] = None
  /\ \A j, now : \A k \in Token : AfterVerify(j, now)[k] = grants[k]
                                  \/ AfterVerify(j, now)[k] = None
BY DEF Evicted, Without, AfterVerify

LEMMA StepGrants ==
  ASSUME TypeInv, NEW c \in Caller, Step(c)
  PROVE  Shrinks \/ (Issue(c) /\ Mints)
<1>t. /\ grants \in [Token -> GrantType \cup {None}] /\ issued \in 0 .. MaxTokens
      /\ call[c].token \in Token \cup {None}
  BY DEF TypeInv, TypeOK, CallType
<1>1. ASSUME UNCHANGED issuer PROVE Shrinks
  BY <1>1 DEF issuer, Shrinks
<1>2. CASE Issue(c)
  <2>1. issued' \in Token
    BY <1>2, <1>t, AuthorizationAssumption DEF Issue, Token
  <2> QED BY <1>2, <2>1, <1>t, Removal, GrantsType DEF Issue, Mints, TypeInv
<1>3. CASE IssueRefused(c)
  BY <1>3, Removal DEF IssueRefused, Shrinks
<1>4. CASE PreflightCancelled(c)
  BY <1>4, <1>t, Removal DEF PreflightCancelled, Shrinks
<1>5. CASE PostVerify(c)
  BY <1>5, Removal DEF PostVerify, Shrinks
<1>6. CASE PostConsume(c)
  BY <1>6, <1>t, Removal DEF PostConsume, Shrinks
<1>7. CASE PostRejected(c)
  BY <1>7, Removal DEF PostRejected, Shrinks
<1>8. CASE PostRevoke(c)
  BY <1>8, <1>t, Removal DEF PostRevoke, Shrinks
<1>9. CASE Leave(c)
  BY <1>9, <1>t, Removal DEF Leave, Shrinks
<1>10. CASE PostCommit(c) \/ PostFails(c)
  BY <1>10 DEF PostCommit, PostFails, Shrinks
<1>11. CASE Evaluate(c) \/ EvaluateRefused(c) \/ Authenticate(c) \/ ReturnToken(c) \/ Keep(c)
            \/ PostSnapshot(c)
  BY <1>11, <1>1 DEF Evaluate, EvaluateRefused, Authenticate, ReturnToken, Keep, PostSnapshot
<1> QED BY <1>2, <1>3, <1>4, <1>5, <1>6, <1>7, <1>8, <1>9, <1>10, <1>11 DEF Step

LEMMA StartGrants ==
  ASSUME NEW c \in Caller, Start(c)
  PROVE  Shrinks
BY Removal DEF Start, BeforeTask, BeforeMutation, AbandonTask, AfterTask, issuer, Shrinks

LEMMA NextGrants ==
  ASSUME TypeInv, [Next]_vars
  PROVE  Shrinks \/ (Mints /\ \E c \in Caller : Issue(c))
<1>t. /\ grants \in [Token -> GrantType \cup {None}]
  BY DEF TypeInv, TypeOK
<1>1. CASE UNCHANGED vars
  BY <1>1 DEF vars, issuer, Shrinks
<1>2. CASE Restart
  BY <1>2, <1>t DEF Restart, Shrinks
<1>3. CASE Rest
  BY <1>3, RestSteps DEF issuer, Shrinks
<1> QED BY <1>1, <1>2, <1>3, StartGrants, StepGrants, Cases

(* A token that was consumed, revoked or evicted is never valid again,     *)
(* whatever calls, failures and restarts follow.                           *)
THEOREM NoResurrectionCorrect == Spec => NoResurrection
<1>1. ASSUME TypeInv, [Next]_vars
      PROVE  [\A k \in Token : k <= issued /\ grants[k] = None => grants'[k] = None]_vars
  <2>1. issued \in Nat /\ Token \subseteq Nat
    BY <1>1, AuthorizationAssumption DEF TypeInv, TypeOK, Token
  <2> QED BY <1>1, <2>1, NextGrants DEF Shrinks, Mints
<1> QED BY <1>1, TypeInit, TypeNext, PTL DEF Spec, NoResurrection

-----------------------------------------------------------------------------
LEMMA LiveFinite ==
  ASSUME NEW g PROVE IsFiniteSet(Live(g)) /\ Cardinality(Live(g)) \in Nat
<1>1. IsFiniteSet(Token)
  BY FS_Interval, AuthorizationAssumption DEF Token
<1>2. Live(g) \subseteq Token
  BY DEF Live
<1> QED BY <1>1, <1>2, FS_Subset, FS_CardinalityType

LEMMA AddOne ==
  ASSUME NEW S, IsFiniteSet(S), NEW x
  PROVE  IsFiniteSet(S \cup {x}) /\ Cardinality(S \cup {x}) <= Cardinality(S) + 1
<1>1. /\ IsFiniteSet(S \cup {x})
      /\ Cardinality(S \cup {x}) = IF x \in S THEN Cardinality(S) ELSE Cardinality(S) + 1
  BY FS_AddElement
<1>2. Cardinality(S) \in Nat
  BY FS_CardinalityType
<1> QED BY <1>1, <1>2

(* The issuer never holds more grants than max_live_grants: issue counts   *)
(* after the eviction and adds one under the same lock.                    *)
THEOREM BoundedCorrect == Spec => []Bounded
<1>1. Init => Bounded
  <2> SUFFICES ASSUME Init PROVE Bounded
    OBVIOUS
  <2>1. Live(grants) = {}
    BY DEF Init, Live
  <2> QED BY <2>1, FS_EmptySet, AuthorizationAssumption DEF Bounded
<1>2. ASSUME TypeInv, Bounded, [Next]_vars PROVE Bounded'
  <2>1. CASE Shrinks
    <3>1. Live(grants') \subseteq Live(grants)
      BY <2>1 DEF Shrinks, Live
    <3>2. Cardinality(Live(grants')) <= Cardinality(Live(grants))
      BY <3>1, LiveFinite, FS_Subset
    <3> QED BY <3>2, <1>2, LiveFinite, AuthorizationAssumption DEF Bounded
  <2>2. ASSUME NEW c \in Caller, Issue(c) PROVE Bounded'
    <3>1. Live(grants') \subseteq Live(Evicted) \cup {issued + 1}
      BY <2>2, <1>2, GrantsType DEF Issue, Live, TypeInv
    <3>2. /\ IsFiniteSet(Live(Evicted) \cup {issued + 1})
          /\ Cardinality(Live(Evicted) \cup {issued + 1}) <= Cardinality(Live(Evicted)) + 1
      BY LiveFinite, AddOne
    <3>3. Cardinality(Live(grants')) <= Cardinality(Live(Evicted) \cup {issued + 1})
      BY <3>1, <3>2, FS_Subset
    <3>4. Cardinality(Live(Evicted)) < MaxLive
      BY <2>2 DEF Issue, Room
    <3>5. Cardinality(Live(Evicted) \cup {issued + 1}) \in Nat
      BY <3>2, FS_CardinalityType
    <3> QED BY <3>2, <3>3, <3>4, <3>5, LiveFinite, AuthorizationAssumption DEF Bounded
  <2> QED BY <1>2, <2>1, <2>2, NextGrants
<1> QED BY <1>1, <1>2, TypeInit, TypeNext, PTL DEF Spec

-----------------------------------------------------------------------------
(* CommitAuthorized is not inductive.  It needs what a call that holds the *)
(* issuer's lock knows of the grant it has consumed, and that every token  *)
(* seen so far was issued.                                                 *)
Consumed(c) ==
  call[c].pc = "commit" =>
    /\ call[c].token <= issued /\ grants[call[c].token] = None
    /\ call[c].grant.task = call[c].task /\ call[c].grant.graph = call[c].files.graph
    /\ call[c].paths \subseteq Scope[call[c].task]
    /\ \A i \in DOMAIN commits : commits[i].token # call[c].token

KnownTokens ==
  /\ \A k \in Token : grants[k] # None => k <= issued
  /\ \A i \in DOMAIN commits : commits[i].token <= issued

CommitInv == /\ TypeInv /\ KnownTokens /\ \A c \in Caller : Consumed(c)
             /\ CommitAuthorized

(* A call is about to commit only because it consumed its grant, and until *)
(* it commits or fails nothing in it changes.                              *)
LEMMA StepCalls ==
  ASSUME TypeInv, NEW c \in Caller, Step(c), NEW d \in Caller, call'[d].pc = "commit"
  PROVE  call'[d] = call[d] \/ (d = c /\ PostConsume(c))
<1>t. call \in [Caller -> CallType] /\ call[c] \in CallType
  BY DEF TypeInv, TypeOK, CallType
<1>1. CASE d # c
  BY <1>1, <1>t DEF Step, Evaluate, EvaluateRefused, Authenticate, Issue, IssueRefused, ReturnToken,
     PreflightCancelled, Keep, PostSnapshot, PostVerify, PostConsume, PostRejected, PostCommit,
     PostFails, PostRevoke, Leave, Goto, End, Holding, Leaving
<1>2. CASE d = c
  <2>1. ASSUME NEW pc, pc # "commit", Goto(c, pc) PROVE call'[c].pc # "commit"
    BY <2>1, <1>t DEF Goto, CallType
  <2>2. ASSUME NEW pc, pc # "commit", Leaving(c, pc) PROVE call'[c].pc # "commit"
    BY <2>2, <1>t, IdleType DEF Leaving, CallType
  <2>3. ASSUME NEW pc, NEW k, pc # "commit", Holding(c, pc, k) PROVE call'[c].pc # "commit"
    BY <2>3, <1>t, IdleType DEF Holding, CallType
  <2>4. ASSUME End(c) PROVE call'[c].pc # "commit"
    BY <2>4, <1>t, IdleType DEF End
  <2>5. CASE Evaluate(c)
    BY <2>5, <2>4, <1>t, <1>2 DEF Evaluate, CallType
  <2>6. CASE PostSnapshot(c)
    BY <2>6, <1>t, <1>2 DEF PostSnapshot, CallType
  <2>7. CASE PostVerify(c)
    BY <2>7, <2>2, <1>t, <1>2 DEF PostVerify, CallType
  <2>8. CASE EvaluateRefused(c) \/ Authenticate(c) \/ Issue(c) \/ IssueRefused(c)
             \/ ReturnToken(c) \/ PreflightCancelled(c) \/ Keep(c)
    BY <2>8, <2>1, <2>3, <2>4, <1>2 DEF EvaluateRefused, Authenticate, Issue, IssueRefused,
       ReturnToken, PreflightCancelled, Keep
  <2>9. CASE PostRejected(c) \/ PostCommit(c) \/ PostFails(c) \/ PostRevoke(c) \/ Leave(c)
    BY <2>9, <2>2, <2>4, <1>2 DEF PostRejected, PostCommit, PostFails, PostRevoke, Leave
  <2> QED BY <1>2, <2>5, <2>6, <2>7, <2>8, <2>9 DEF Step
<1> QED BY <1>1, <1>2

LEMMA NextCalls ==
  ASSUME TypeInv, [Next]_vars, NEW d \in Caller, call'[d].pc = "commit"
  PROVE  call'[d] = call[d] \/ PostConsume(d)
<1>t. call \in [Caller -> CallType]
  BY DEF TypeInv, TypeOK, CallType
<1>1. CASE UNCHANGED vars
  BY <1>1 DEF vars
<1>2. CASE Restart
  BY <1>2, IdleType DEF Restart
<1>3. CASE Rest
  BY <1>3, RestSteps
<1>4. ASSUME NEW c \in Caller, Start(c) PROVE call'[d] = call[d]
  <2>1. ASSUME NEW r, r.pc # "commit", call' = [call EXCEPT ![c] = r] PROVE call'[d] = call[d]
    BY <2>1, <1>t
  <2>2. ASSUME NEW t \in Task, BeforeTask(c, t) PROVE call'[d] = call[d]
    <3> DEFINE r == [Idle EXCEPT !.pc = "envelope", !.task = t,
                                 !.version = graph.version, !.at = clock]
    <3>1. r.pc # "commit"
      BY IdleType DEF CallType
    <3> HIDE DEF r
    <3> QED BY <2>1, <2>2, <3>1 DEF BeforeTask, r
  <2>3. ASSUME NEW t \in Task, AbandonTask(c, t) PROVE call'[d] = call[d]
    <3> DEFINE r == [Idle EXCEPT !.pc = "leave", !.task = t, !.token = tokens[t]]
    <3>1. r.pc # "commit"
      BY IdleType DEF CallType
    <3> HIDE DEF r
    <3> QED BY <2>1, <2>3, <3>1 DEF AbandonTask, r
  <2>4. ASSUME NEW t \in Task, NEW paths, NEW reqs, AfterTask(c, t, paths, reqs)
        PROVE  call'[d] = call[d]
    <3>1. Submission(t, paths, reqs).pc # "commit"
      BY IdleType DEF CallType, Submission
    <3> QED BY <2>1, <2>4, <3>1 DEF AfterTask
  <2>5. ASSUME NEW t \in Task, BeforeMutation(c, t) PROVE call'[d] = call[d]
    BY <2>5 DEF BeforeMutation
  <2> QED BY <1>4, <2>2, <2>3, <2>4, <2>5 DEF Start
<1> QED BY <1>1, <1>2, <1>3, <1>4, StepCalls, Cases

(* Only the commit of a task writes the record of commits. *)
LEMMA NextCommits ==
  ASSUME [Next]_vars
  PROVE  commits' = commits \/ \E c \in Caller : PostCommit(c)
<1>1. CASE UNCHANGED vars
  BY <1>1 DEF vars
<1>2. CASE Restart
  BY <1>2 DEF Restart
<1>3. CASE Rest
  BY <1>3, RestSteps
<1>4. ASSUME NEW c \in Caller, Start(c) PROVE commits' = commits
  BY <1>4 DEF Start, BeforeTask, BeforeMutation, AbandonTask, AfterTask
<1>5. ASSUME NEW c \in Caller, Step(c) PROVE commits' = commits \/ PostCommit(c)
  BY <1>5 DEF Step, Evaluate, EvaluateRefused, Authenticate, Issue, IssueRefused, ReturnToken,
     PreflightCancelled, Keep, PostSnapshot, PostVerify, PostConsume, PostRejected,
     PostFails, PostRevoke, Leave
<1> QED BY <1>1, <1>2, <1>3, <1>4, <1>5, Cases

LEMMA CommitInit == Init => CommitInv
<1> SUFFICES ASSUME Init PROVE CommitInv
  OBVIOUS
<1>1. DOMAIN commits = {}
  BY DEF Init
<1>2. KnownTokens /\ \A c \in Caller : Consumed(c)
  BY <1>1, IdleType DEF Init, KnownTokens, Consumed
<1> QED BY <1>1, <1>2, TypeInit DEF CommitInv, CommitAuthorized

LEMMA CommitNext == CommitInv /\ [Next]_vars => CommitInv'
<1> SUFFICES ASSUME CommitInv, [Next]_vars PROVE CommitInv'
  OBVIOUS
<1>t. /\ grants \in [Token -> GrantType \cup {None}] /\ issued \in Nat /\ Token \subseteq Nat
      /\ call \in [Caller -> CallType] /\ commits \in Seq(CommitType)
      /\ \A c \in Caller : CallState(c)
  BY AuthorizationAssumption DEF CommitInv, TypeInv, TypeOK, CallType, CommitType, Token
<1>i. TypeInv /\ TypeInv'
  BY TypeNext DEF CommitInv
(* A token that is known and not valid stays so. *)
<1>g. /\ issued <= issued' /\ issued' \in Nat
      /\ \A k \in Token : k <= issued /\ grants[k] = None => grants'[k] = None
      /\ \A k \in Token : grants'[k] # None => k <= issued'
  <2>1. \A k \in Token : grants[k] # None => k <= issued
    BY DEF CommitInv, KnownTokens
  <2> QED BY <1>i, <1>t, <2>1, NextGrants DEF Shrinks, Mints
<1>c. /\ \A i \in DOMAIN commits : commits[i] \in CommitType
      /\ \A i \in DOMAIN commits : commits[i].token \in Token /\ commits[i].token <= issued
                                   /\ grants[commits[i].token] = None
  <2>1. \A i \in DOMAIN commits : commits[i] \in CommitType
    BY <1>t
  <2>2. \A i \in DOMAIN commits : commits[i].token \in Token
    BY <2>1 DEF CommitType
  <2> QED BY <2>1, <2>2 DEF CommitInv, KnownTokens, CommitAuthorized
<1>1. CASE commits' = commits
  <2>1. KnownTokens'
    <3>1. \A i \in DOMAIN commits' : commits'[i].token <= issued'
      <4>1. ASSUME NEW i \in DOMAIN commits PROVE commits[i].token <= issued'
        <5>1. commits[i].token \in Nat /\ commits[i].token <= issued
          BY <1>c, <1>t
        <5> QED BY <5>1, <1>g, <1>t
      <4> QED BY <4>1, <1>1
    <3> QED BY <3>1, <1>g DEF KnownTokens
  <2>2. CommitAuthorized'
    BY <1>1, <1>g, <1>c DEF CommitInv, CommitAuthorized
  <2>3. ASSUME NEW c \in Caller, call'[c].pc = "commit" PROVE Consumed(c)'
    <3>1. CASE call'[c] = call[c]
      <4>1. call[c].token \in Token /\ Consumed(c) /\ call[c].pc = "commit"
        BY <2>3, <3>1, <1>t DEF CommitInv, CallState
      <4>2. call[c].token <= issued /\ grants[call[c].token] = None
        BY <4>1 DEF Consumed
      <4>3. call[c].token <= issued' /\ grants'[call[c].token] = None
        <5>1. call[c].token \in Nat
          BY <4>1, <1>t
        <5>2. call[c].token <= issued'
          BY <5>1, <4>2, <1>g, <1>t
        <5> QED BY <5>2, <4>1, <4>2, <1>g
      <4> QED BY <4>1, <4>3, <3>1, <1>1 DEF Consumed
    <3>2. CASE PostConsume(c)
      <4>1. /\ call[c].token \in Token /\ grants[call[c].token] # None
            /\ grants[call[c].token].task = call[c].task
            /\ grants[call[c].token].graph = call[c].files.graph
            /\ call[c].paths \subseteq Scope[call[c].task]
        BY <3>2 DEF PostConsume, CallVerified, Verified
      <4>2. call[c] \in CallType
        BY <1>t
      <4>3. call'[c] = [call[c] EXCEPT !.pc = "commit", !.grant = grants[call[c].token]]
        BY <3>2, <1>t DEF PostConsume
      <4>4. /\ call'[c].token = call[c].token /\ call'[c].grant = grants[call[c].token]
            /\ call'[c].task = call[c].task /\ call'[c].files = call[c].files
            /\ call'[c].paths = call[c].paths
        BY <4>2, <4>3 DEF CallType
      <4>5. grants'[call[c].token] = None /\ issued' = issued /\ call[c].token <= issued
        BY <3>2, <4>1, <1>t DEF PostConsume, Without, CommitInv, KnownTokens
      <4>6. \A i \in DOMAIN commits : commits[i].token # call[c].token
        BY <4>1, <1>c
      <4> QED BY <4>1, <4>4, <4>5, <4>6, <1>1 DEF Consumed
    <3> QED BY <2>3, <3>1, <3>2, <1>i, NextCalls
  <2>4. \A c \in Caller : Consumed(c)'
    BY <2>3 DEF Consumed
  <2> QED BY <1>i, <2>1, <2>2, <2>4 DEF CommitInv
<1>2. ASSUME NEW c \in Caller, PostCommit(c) PROVE CommitInv'
  <2>1. /\ call[c].pc = "commit" /\ lock = c /\ grants' = grants /\ issued' = issued
        /\ call[c].reqs \subseteq Relevant[call[c].task] /\ graph = call[c].files.graph
        /\ commits' = Append(commits, Commit(c))
    BY <1>2 DEF PostCommit, Supported, Preimages
  <2>2. /\ Consumed(c) /\ call[c].token \in Token
        /\ call[c].token <= issued /\ grants[call[c].token] = None
        /\ call[c].grant.task = call[c].task /\ call[c].grant.graph = call[c].files.graph
        /\ call[c].paths \subseteq Scope[call[c].task]
        /\ \A i \in DOMAIN commits : commits[i].token # call[c].token
    BY <2>1, <1>t DEF CommitInv, CallState, Consumed
  <2> DEFINE n == Len(commits)  x == Commit(c)
  <2>3. /\ x.token = call[c].token /\ x.task = call[c].task /\ x.grant = call[c].grant
        /\ x.before = graph /\ x.paths = call[c].paths /\ x.reqs = call[c].reqs
    BY DEF Commit
  <2> HIDE DEF x
  <2>4. /\ n \in Nat /\ DOMAIN commits = 1 .. n /\ DOMAIN commits' = 1 .. n + 1
        /\ \A i \in 1 .. n : commits'[i] = commits[i]
        /\ commits'[n + 1] = x
    BY <2>1, <1>t DEF x
  <2> HIDE DEF n
  <2>5. KnownTokens'
    BY <2>1, <2>2, <2>3, <2>4, <1>c, <1>t DEF CommitInv, KnownTokens
  <2>6. ASSUME NEW i \in DOMAIN commits'
        PROVE  LET y == commits'[i] IN
               /\ y.grant.task = y.task /\ y.before = y.grant.graph
               /\ y.paths \subseteq Scope[y.task] /\ y.reqs \subseteq Relevant[y.task]
               /\ grants'[y.token] = None
    <3>1. CASE i = n + 1
      BY <3>1, <2>1, <2>2, <2>3, <2>4
    <3>2. CASE i \in 1 .. n
      BY <3>2, <2>1, <2>4 DEF CommitInv, CommitAuthorized
    <3> QED BY <2>4, <2>6, <3>1, <3>2
  <2>7. ASSUME NEW i \in DOMAIN commits', NEW j \in DOMAIN commits',
               commits'[i].token = commits'[j].token
        PROVE  i = j
    <3>1. \A k, l \in 1 .. n : commits[k].token = commits[l].token => k = l
      BY <2>4 DEF CommitInv, CommitAuthorized
    <3>2. \A k \in 1 .. n : commits[k].token # x.token
      BY <2>2, <2>3, <2>4
    <3> QED BY <2>4, <2>7, <3>1, <3>2
  <2>8. CommitAuthorized'
    BY <2>6, <2>7 DEF CommitAuthorized
  <2>9. ASSUME NEW d \in Caller PROVE Consumed(d)'
    <3>1. lock' = None /\ CallState(d)'
      BY <1>2, <1>i DEF PostCommit, TypeInv
    <3> QED BY <3>1, AuthorizationAssumption DEF CallState, Consumed
  <2> QED BY <1>i, <2>5, <2>8, <2>9 DEF CommitInv
<1> QED BY <1>1, <1>2, NextCommits

(* A finished task changes the graph only under a grant issued to it for   *)
(* exactly that graph and within its scope, and each grant serves once:    *)
(* for any number of concurrent calls, tasks, restarts and foreign edits.  *)
THEOREM CommitAuthorizedCorrect == Spec => []CommitAuthorized
<1>1. CommitInv => CommitAuthorized
  BY DEF CommitInv
<1> QED BY <1>1, CommitInit, CommitNext, PTL DEF Spec

=============================================================================
