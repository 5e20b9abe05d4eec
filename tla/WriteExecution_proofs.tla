------------------------ MODULE WriteExecution_proofs ------------------------
(***************************************************************************)
(* Machine-checked proofs about WriteExecution, for every set of           *)
(* processes, plans, approvals and contents and for every bound.           *)
(***************************************************************************)
EXTENDS WriteExecution, TLAPS

(* Past the claim: the process owns its pair. *)
Owning == {"fetch", "call", "reply", "verify", "commit"}
Called == {"reply", "verify", "commit"}

(* A pair past its claim is owned by one process and has no receipt. *)
Ownership ==
  \A p \in Proc : pc[p] \in Owning =>
    /\ job[p] \in claimed
    /\ receipt[job[p]].status = "none"
    /\ \A q \in Proc \ {p} : pc[q] \in Owning => job[q] # job[p]

(* Without a claim nothing was sent and nothing is recorded. *)
Unclaimed == \A a \in Approval : a \notin claimed =>
               calls[a] = 0 /\ a \notin inflight /\ receipt[a].status = "none"

(* The owner of a pair knows whether its mutation was sent. *)
CallState ==
  /\ \A p \in Proc : pc[p] \in {"fetch", "call"} => calls[job[p]] = 0 /\ job[p] \notin inflight
  /\ \A p \in Proc : pc[p] \in Called => calls[job[p]] = 1
  /\ \A a \in Approval : calls[a] <= 1

CallInv == TypeOK /\ Ownership /\ Unclaimed /\ CallState /\ RejectedUntouched

(* What the executor knows of the versions of the provider object. *)
Versions ==
  /\ \A w \in Plan : plan[w] # None => plan[w].before <= Len(remote)
  /\ \A p \in Proc : pc[p] \in {"verify", "commit"} => seen[p] # PlanOf(job[p]).before
  /\ \A p \in Proc : pc[p] = "commit" =>
       /\ seen[p] \in PlanOf(job[p]).before + 1 .. Len(remote)
       /\ remote[seen[p]] = PlanOf(job[p]).after

SuccessInv == CallInv /\ Versions /\ SuccessWasVerified /\ OneResolution

-----------------------------------------------------------------------------
(* Type correctness.                                                       *)

LEMMA TypeInit == Init => TypeOK
<1> SUFFICES ASSUME Init PROVE TypeOK
  OBVIOUS
<1>1. PICK c \in Content : remote = <<c>>
  BY DEF Init
<1>2. remote \in Seq(Content) /\ Len(remote) \in Version
  BY <1>1, TimeAssumption DEF Version
<1> QED
  BY <1>2, TimeAssumption, NoneAssumption
     DEF Init, TypeOK, Time, Version, Status, NoReceipt, Executing, PlanOf

(* A process that finishes forgets its job; the others are untouched. *)
LEMMA FinishType ==
  ASSUME TypeOK, NEW p \in Proc, Finish(p)
  PROVE  /\ pc' \in [Proc -> {"idle", "preview"} \cup Executing]
         /\ job' \in [Proc -> Approval \cup {None}]
         /\ seen' \in [Proc -> 0 .. MaxVersion]
         /\ pc'[p] = "idle" /\ job'[p] = None
         /\ \A q \in Proc \ {p} : pc'[q] = pc[q] /\ job'[q] = job[q] /\ seen'[q] = seen[q]
         /\ \A q \in Proc : /\ pc'[q] \in Executing <=> job'[q] # None
                            /\ job'[q] # None => approval[job'[q]] # None
  BY TimeAssumption, NoneAssumption DEF Finish, Goto, TypeOK, Executing

LEMMA TypeStep == TypeOK /\ [Next]_vars => TypeOK'
<1> SUFFICES ASSUME TypeOK, [Next]_vars PROVE TypeOK'
  OBVIOUS
<1> USE TimeAssumption, NoneAssumption
<1>1. CASE Tick
  BY <1>1 DEF Tick, TypeOK, Time, PlanOf, provider, ledgers
<1>2. CASE ThirdPartyEdit
  BY <1>2 DEF ThirdPartyEdit, TypeOK, Current, Version, PlanOf, ledgers
<1>3. CASE ResolveLocally
  BY <1>3 DEF ResolveLocally, TypeOK, PlanOf, provider
<1>4. ASSUME NEW a \in Approval, ProviderDrop(a) PROVE TypeOK'
  BY <1>4 DEF ProviderDrop, TypeOK, PlanOf, ledgers
<1>5. ASSUME NEW a \in Approval, ProviderApply(a) PROVE TypeOK'
  <2>1. PlanOf(a).after \in Content
    BY <1>5 DEF ProviderApply, TypeOK, PlanOf, PlanRecord, ApprovalRecord
  <2>2. remote' \in Seq(Content) /\ Len(remote') \in Version
    BY <1>5, <2>1 DEF ProviderApply, TypeOK, Current, Version
  <2> QED
    BY <1>5, <2>2 DEF ProviderApply, TypeOK, PlanOf, ledgers
<1>6. ASSUME NEW w \in Plan, NEW a \in Approval, Approve(w, a) PROVE TypeOK'
  <2> DEFINE e == [plan |-> w, at |-> clock,
                   until |-> IF clock + ApprovalTTL < plan[w].expires THEN clock + ApprovalTTL
                                                                      ELSE plan[w].expires]
  <2>0. /\ approval' = [approval EXCEPT ![a] = e] /\ plan[w] # None
        /\ clock + ApprovalTTL \in Nat /\ plan[w].expires \in Nat
    BY <1>6, TimeAssumption DEF Approve, TypeOK, PlanRecord, Time
  <2>1. e \in ApprovalRecord /\ e.plan = w
    BY <2>0 DEF TypeOK, ApprovalRecord
  <2> HIDE DEF e
  <2>2. /\ approval' \in [Approval -> ApprovalRecord \cup {None}]
        /\ \A b \in Approval : approval'[b] # None => PlanOf(b)' # None
        /\ \A b \in Approval : approval[b] # None => approval'[b] # None
    BY <1>6, <2>0, <2>1, NoneAssumption DEF Approve, TypeOK, PlanOf, provider
  <2> QED
    BY <1>6, <2>2 DEF Approve, TypeOK, provider
<1>7. ASSUME NEW p \in Proc, StartPreview(p) \/ PreviewFails(p) PROVE TypeOK'
  <2>1. CASE StartPreview(p)
    BY <2>1 DEF StartPreview, Goto, TypeOK, PlanOf, Executing, provider, ledgers
  <2>2. CASE PreviewFails(p)
    BY <2>2 DEF PreviewFails, Goto, TypeOK, PlanOf, Executing, provider, ledgers
  <2> QED
    BY <1>7, <2>1, <2>2
<1>8. ASSUME NEW p \in Proc, CreatePreview(p) PROVE TypeOK'
  <2>1. PICK w \in Plan, c \in Content :
          /\ plan[w] = None
          /\ plan' = [plan EXCEPT ![w] = [before |-> Current, after |-> c, created |-> clock,
                                          expires |-> clock + PlanTTL]]
    BY <1>8 DEF CreatePreview
  <2>2. plan' \in [Plan -> PlanRecord \cup {None}]
    BY <2>1 DEF TypeOK, PlanRecord, Current, Version, Time
  <2>3. \A a \in Approval : approval[a] # None => PlanOf(a)' # None
    BY <1>8, <2>1 DEF CreatePreview, TypeOK, PlanOf, ApprovalRecord
  <2> QED
    BY <1>8, <2>2, <2>3 DEF CreatePreview, Goto, TypeOK, PlanOf, Executing, provider
<1>9. ASSUME NEW p \in Proc, NEW a \in Approval, StartExecute(p, a) PROVE TypeOK'
  BY <1>9 DEF StartExecute, Goto, TypeOK, PlanOf, Executing, provider, ledgers
<1>10. ASSUME NEW p \in Proc, Execute(p) PROVE TypeOK'
  <2>1. CASE Claim(p)
    BY <2>1 DEF Claim, Goto, TypeOK, PlanOf, Executing, provider
  <2>2. CASE AlreadyClaimed(p) \/ VerifyFails(p) \/ CommitRefused(p)
    <3>1. Finish(p) /\ UNCHANGED <<clock, provider, ledgers, calls>>
      BY <2>2 DEF AlreadyClaimed, VerifyFails, CommitRefused
    <3> QED
      BY <3>1, FinishType DEF TypeOK, PlanOf, provider, ledgers
  <2>3. CASE FetchUnchanged(p) \/ Verify(p)
    <3>1. CASE FetchUnchanged(p)
      BY <3>1 DEF FetchUnchanged, Goto, TypeOK, PlanOf, Executing, provider, ledgers
    <3>2. CASE Verify(p)
      BY <3>2 DEF Verify, Goto, TypeOK, PlanOf, Executing, provider, ledgers
    <3> QED
      BY <2>3, <3>1, <3>2
  <2>4. CASE FetchChanged(p) \/ FetchFails(p) \/ CallFails(p)
    <3>1. PICK s \in Status : Complete(p, s) /\ job[p] # None
      BY <2>4 DEF FetchChanged, FetchFails, CallFails, Status, TypeOK, Executing
    <3>2. receipt' \in [Approval -> [status : Status, version : 0 .. MaxVersion]]
      BY <3>1 DEF Complete, TypeOK
    <3> QED
      BY <3>1, <3>2, FinishType DEF Complete, TypeOK, PlanOf, provider
  <2>5. CASE CallProvider(p)
    BY <2>5 DEF CallProvider, Goto, TypeOK, PlanOf, Executing, ledgers
  <2>6. CASE ProviderReply(p)
    BY <2>6 DEF ProviderReply, Goto, TypeOK, PlanOf, Executing, Version, provider, ledgers
  <2>7. CASE CommitSuccess(p)
    BY <2>7 DEF CommitSuccess, Finish, Goto, TypeOK, PlanOf, Executing, Status, provider
  <2> QED
    BY <1>10, <2>1, <2>2, <2>3, <2>4, <2>5, <2>6, <2>7 DEF Execute
<1>11. ASSUME NEW p \in Proc, Abort(p) PROVE TypeOK'
  BY <1>11 DEF Abort, Finish, Goto, TypeOK, PlanOf, Executing, provider, ledgers
<1>12. CASE UNCHANGED vars
  BY <1>12 DEF vars, TypeOK, PlanOf
<1> QED
  BY <1>1, <1>2, <1>3, <1>4, <1>5, <1>6, <1>7, <1>8, <1>9, <1>10, <1>11, <1>12 DEF Next

(* Every ledger, clock and program counter keeps its type, and nothing is  *)
(* claimed, sent or executed that was not approved, in every instance of   *)
(* the external-write workflow.                                            *)
THEOREM TypeCorrect == Spec => []TypeOK
<1> QED
  BY TypeInit, TypeStep, PTL DEF Spec

-----------------------------------------------------------------------------
(* Claims, calls and receipts.                                             *)

LEMMA CallInit == Init => CallInv
<1> SUFFICES ASSUME Init PROVE CallInv
  OBVIOUS
<1>1. TypeOK
  BY TypeInit
<1> QED
  BY <1>1 DEF Init, CallInv, Ownership, Unclaimed, CallState, RejectedUntouched, Owning, Called,
              NoReceipt

(* A process that ends its execution frees its pair. *)
LEMMA CallFinish ==
  ASSUME CallInv, TypeOK', NEW p \in Proc, Finish(p), UNCHANGED <<inflight, claimed, receipt, calls>>
  PROVE  CallInv'
<1>1. /\ pc'[p] = "idle"
      /\ \A q \in Proc \ {p} : pc'[q] = pc[q] /\ job'[q] = job[q]
  BY FinishType DEF CallInv
<1> QED
  BY <1>1 DEF CallInv, Ownership, Unclaimed, CallState, RejectedUntouched, Owning, Called

(* The owner of a pair records a receipt; a rejection only before the call. *)
LEMMA CallComplete ==
  ASSUME CallInv, TypeOK', NEW p \in Proc, NEW s \in Status, Finish(p),
         pc[p] \in Owning, s = "rejected" => pc[p] = "fetch",
         NEW v, receipt' = [receipt EXCEPT ![job[p]] = [status |-> s, version |-> v]],
         UNCHANGED <<inflight, claimed, calls>>
  PROVE  CallInv'
<1>1. /\ pc'[p] = "idle"
      /\ \A q \in Proc \ {p} : pc'[q] = pc[q] /\ job'[q] = job[q]
  BY FinishType DEF CallInv
<1>2. job[p] \in Approval /\ job[p] \in claimed
  BY DEF CallInv, Ownership, TypeOK
<1>3. receipt'[job[p]].status = s /\ \A a \in Approval \ {job[p]} : receipt'[a] = receipt[a]
  BY <1>2 DEF CallInv, TypeOK
<1>4. Ownership'
  <2> SUFFICES ASSUME NEW q \in Proc, pc'[q] \in Owning
               PROVE  /\ job'[q] \in claimed'
                      /\ receipt'[job'[q]].status = "none"
                      /\ \A r \in Proc \ {q} : pc'[r] \in Owning => job'[r] # job'[q]
    BY DEF Ownership
  <2>1. q # p /\ pc'[q] = pc[q] /\ job'[q] = job[q] /\ job[q] # job[p] /\ job[q] \in Approval
    BY <1>1 DEF CallInv, Ownership, Owning, TypeOK
  <2> QED
    BY <1>1, <1>3, <2>1 DEF CallInv, Ownership, Owning
<1>5. Unclaimed'
  BY <1>2, <1>3 DEF CallInv, Unclaimed
<1>6. CallState'
  BY <1>1 DEF CallInv, CallState, Called, Owning
<1>7. RejectedUntouched'
  BY <1>2, <1>3 DEF CallInv, RejectedUntouched, CallState
<1> QED
  BY <1>4, <1>5, <1>6, <1>7 DEF CallInv

LEMMA CallStep == CallInv /\ [Next]_vars => CallInv'
<1> SUFFICES ASSUME CallInv, [Next]_vars PROVE CallInv'
  OBVIOUS
<1>0. TypeOK /\ TypeOK'
  BY TypeStep DEF CallInv
<1> USE <1>0 DEF CallInv
<1>1. CASE UNCHANGED <<inflight, claimed, receipt, calls, pc, job>>
  BY <1>1 DEF Ownership, Unclaimed, CallState, RejectedUntouched
<1>2. CASE Tick \/ ThirdPartyEdit \/ ResolveLocally
  BY <1>1, <1>2 DEF Tick, ThirdPartyEdit, ResolveLocally, provider, ledgers
<1>3. ASSUME NEW a \in Approval, ProviderApply(a) \/ ProviderDrop(a) PROVE CallInv'
  BY <1>3 DEF ProviderApply, ProviderDrop, ledgers, Ownership, Unclaimed, CallState,
              RejectedUntouched
<1>4. ASSUME NEW w \in Plan, NEW a \in Approval, Approve(w, a) PROVE CallInv'
  BY <1>1, <1>4 DEF Approve, provider
<1>5. ASSUME NEW p \in Proc, StartPreview(p) \/ PreviewFails(p) \/ CreatePreview(p) PROVE CallInv'
  <2>1. /\ pc'[p] \notin Owning
        /\ \A q \in Proc \ {p} : pc'[q] = pc[q]
        /\ UNCHANGED <<inflight, claimed, receipt, calls, job>>
    BY <1>5 DEF StartPreview, PreviewFails, CreatePreview, Goto, TypeOK, Owning, provider, ledgers
  <2> QED
    BY <2>1 DEF Ownership, Unclaimed, CallState, RejectedUntouched, Owning, Called
<1>6. ASSUME NEW p \in Proc, NEW a \in Approval, StartExecute(p, a) PROVE CallInv'
  <2>1. /\ pc'[p] \notin Owning
        /\ \A q \in Proc \ {p} : pc'[q] = pc[q] /\ job'[q] = job[q]
        /\ UNCHANGED <<inflight, claimed, receipt, calls>>
    BY <1>6 DEF StartExecute, Goto, TypeOK, Owning, provider, ledgers
  <2> QED
    BY <2>1 DEF Ownership, Unclaimed, CallState, RejectedUntouched, Owning, Called
<1>7. ASSUME NEW p \in Proc, Claim(p) PROVE CallInv'
  <2>1. /\ pc'[p] = "fetch" /\ job[p] \in Approval /\ job[p] \notin claimed
        /\ \A q \in Proc \ {p} : pc'[q] = pc[q]
        /\ claimed' = claimed \cup {job[p]}
        /\ UNCHANGED <<inflight, receipt, calls, job>>
    BY <1>7 DEF Claim, Goto, TypeOK, Executing, provider
  <2>2. receipt[job[p]].status = "none" /\ calls[job[p]] = 0 /\ job[p] \notin inflight
    BY <2>1 DEF Unclaimed
  <2>3. \A q \in Proc \ {p} : pc[q] \in Owning => job[q] # job[p]
    BY <2>1 DEF Ownership
  <2>4. Ownership'
    BY <2>1, <2>2, <2>3 DEF Ownership, Owning
  <2> QED
    BY <2>1, <2>2, <2>4 DEF Unclaimed, CallState, RejectedUntouched, Called
<1>8. ASSUME NEW p \in Proc, FetchUnchanged(p) \/ Verify(p) \/ ProviderReply(p) PROVE CallInv'
  <2>1. /\ pc[p] \in Owning /\ pc'[p] \in Owning
        /\ pc'[p] \in Called => pc[p] \in Called
        /\ pc'[p] \in {"fetch", "call"} => pc[p] \in {"fetch", "call"}
        /\ \A q \in Proc \ {p} : pc'[q] = pc[q]
        /\ UNCHANGED <<inflight, claimed, receipt, calls, job>>
    BY <1>8 DEF FetchUnchanged, Verify, ProviderReply, Goto, TypeOK, Owning, Called, provider,
                ledgers
  <2> QED
    BY <2>1 DEF Ownership, Unclaimed, CallState, RejectedUntouched
<1>9. ASSUME NEW p \in Proc, FetchChanged(p) PROVE CallInv'
  BY <1>9, CallComplete DEF FetchChanged, Complete, Status, Owning, provider
<1>10. ASSUME NEW p \in Proc, FetchFails(p) \/ CallFails(p) PROVE CallInv'
  <2>1. PICK s \in {"permission_denied", "provider_failure"} : Complete(p, s) /\ pc[p] \in Owning
    BY <1>10 DEF FetchFails, CallFails, Owning
  <2> QED
    BY <2>1, CallComplete DEF Complete, Status, provider
<1>11. ASSUME NEW p \in Proc, CallProvider(p) PROVE CallInv'
  <2>1. /\ pc[p] = "call" /\ pc'[p] = "reply" /\ job[p] \in Approval
        /\ \A q \in Proc \ {p} : pc'[q] = pc[q]
        /\ inflight' = inflight \cup {job[p]}
        /\ calls'[job[p]] = calls[job[p]] + 1
        /\ \A a \in Approval \ {job[p]} : calls'[a] = calls[a]
        /\ UNCHANGED <<claimed, receipt, job>>
    BY <1>11 DEF CallProvider, Goto, TypeOK, Executing, ledgers
  <2>2. calls'[job[p]] = 1 /\ job[p] \in claimed /\ receipt[job[p]].status = "none"
    BY <2>1 DEF CallState, Ownership, Owning
  <2>3. Ownership'
    BY <2>1 DEF Ownership, Owning
  <2>4. \A q \in Proc \ {p} : pc[q] \in Owning => job[q] \in Approval \ {job[p]}
    BY <2>1 DEF Ownership, Owning, TypeOK, Executing
  <2>5. CallState'
    BY <2>1, <2>2, <2>4 DEF CallState, Owning, Called
  <2> QED
    BY <2>1, <2>2, <2>3, <2>5 DEF Unclaimed, RejectedUntouched
<1>12. ASSUME NEW p \in Proc, CommitSuccess(p) PROVE CallInv'
  BY <1>12, CallComplete DEF CommitSuccess, Status, Owning, provider
<1>13. ASSUME NEW p \in Proc,
              AlreadyClaimed(p) \/ VerifyFails(p) \/ CommitRefused(p) \/ Abort(p)
       PROVE  CallInv'
  <2>1. Finish(p) /\ UNCHANGED <<inflight, claimed, receipt, calls>>
    BY <1>13 DEF AlreadyClaimed, VerifyFails, CommitRefused, Abort, provider, ledgers
  <2> QED
    BY <2>1, CallFinish
<1>14. CASE UNCHANGED vars
  BY <1>1, <1>14 DEF vars
<1> QED
  BY <1>2, <1>3, <1>4, <1>5, <1>6, <1>7, <1>8, <1>9, <1>10, <1>11, <1>12, <1>13, <1>14
     DEF Next, Execute

(* For any number of processes, plans, approvals and crashes, a provider   *)
(* mutation is attempted at most once per (plan, approval) pair and only   *)
(* under a durable claim.                                                  *)
THEOREM AtMostOneCallCorrect == Spec => []AtMostOneCall
<1>1. CallInv => AtMostOneCall
  BY DEF CallInv, AtMostOneCall, CallState, Unclaimed
<1> QED
  BY <1>1, CallInit, CallStep, PTL DEF Spec

(* A pair whose receipt says that the target had changed is never sent to  *)
(* the provider, before or after the receipt.                              *)
THEOREM RejectedUntouchedCorrect == Spec => []RejectedUntouched
<1>1. CallInv => RejectedUntouched
  BY DEF CallInv
<1> QED
  BY <1>1, CallInit, CallStep, PTL DEF Spec

-----------------------------------------------------------------------------
(* Success receipts, the provider object and the case.                     *)

(* Ledger entries, once there, do not change, and the provider object only *)
(* gains versions.                                                         *)
LEMMA HistoryStep ==
  ASSUME TypeOK, [Next]_vars
  PROVE  /\ \A w \in Plan : plan[w] # None => plan'[w] = plan[w]
         /\ \A a \in Approval : approval[a] # None => approval'[a] = approval[a]
         /\ Len(remote) <= Len(remote')
         /\ \A v \in 1 .. Len(remote) : remote'[v] = remote[v]
<1> DEFINE Grows == /\ Len(remote) <= Len(remote')
                    /\ \A v \in 1 .. Len(remote) : remote'[v] = remote[v]
<1>1. UNCHANGED remote => Grows
  BY DEF TypeOK
<1>2. ASSUME NEW c \in Content, remote' = Append(remote, c) PROVE Grows
  BY <1>2 DEF TypeOK
<1> HIDE DEF Grows
<1>3. CASE ThirdPartyEdit
  BY <1>2, <1>3 DEF ThirdPartyEdit, ledgers, Grows
<1>4. ASSUME NEW a \in Approval, ProviderApply(a) PROVE Grows /\ UNCHANGED <<plan, approval>>
  <2>1. PlanOf(a).after \in Content
    BY <1>4 DEF ProviderApply, TypeOK, PlanOf, PlanRecord, ApprovalRecord
  <2> QED
    BY <1>2, <1>4, <2>1 DEF ProviderApply, ledgers
<1>5. ASSUME NEW w \in Plan, NEW a \in Approval, Approve(w, a)
      PROVE  /\ \A b \in Approval : approval[b] # None => approval'[b] = approval[b]
             /\ UNCHANGED <<plan, remote>>
  BY <1>5 DEF Approve, TypeOK, provider
<1>6. ASSUME NEW p \in Proc, CreatePreview(p)
      PROVE  /\ \A w \in Plan : plan[w] # None => plan'[w] = plan[w]
             /\ UNCHANGED <<approval, remote>>
  BY <1>6 DEF CreatePreview, TypeOK, provider
<1>7. \/ ThirdPartyEdit
      \/ \E a \in Approval : ProviderApply(a)
      \/ \E w \in Plan, a \in Approval : Approve(w, a)
      \/ \E p \in Proc : CreatePreview(p)
      \/ UNCHANGED <<plan, approval, remote>>
  <2>1. ASSUME NEW p \in Proc, Execute(p) \/ Abort(p)
        PROVE  UNCHANGED <<plan, approval, remote>>
    BY <2>1 DEF Execute, Claim, AlreadyClaimed, FetchUnchanged, FetchChanged, FetchFails,
         CallProvider, ProviderReply, CallFails, Verify, VerifyFails, CommitSuccess,
         CommitRefused, Complete, Abort, provider, ledgers
  <2>2. ASSUME \/ Tick \/ ResolveLocally \/ \E a \in Approval : ProviderDrop(a)
               \/ \E p \in Proc : StartPreview(p) \/ PreviewFails(p)
               \/ \E p \in Proc, a \in Approval : StartExecute(p, a)
        PROVE  UNCHANGED <<plan, approval, remote>>
    BY <2>2 DEF Tick, ResolveLocally, ProviderDrop, StartPreview, PreviewFails, StartExecute,
         provider, ledgers
  <2> QED
    BY <2>1, <2>2 DEF Next, vars, provider, ledgers
<1> QED
  BY <1>1, <1>3, <1>4, <1>5, <1>6, <1>7 DEF Grows, ThirdPartyEdit, ledgers

(* The plan of an approved pair does not change either. *)
LEMMA PlanStep ==
  ASSUME TypeOK, [Next]_vars, NEW a \in Approval, approval[a] # None
  PROVE  PlanOf(a)' = PlanOf(a) /\ PlanOf(a) \in PlanRecord /\ approval[a].plan \in Plan
         /\ plan[approval[a].plan] # None
  BY HistoryStep DEF PlanOf, TypeOK, ApprovalRecord

(* Only its own steps move a process. *)
LEMMA ProcessStep ==
  ASSUME TypeOK, [Next]_vars, NEW q \in Proc
  PROVE  \/ pc'[q] = pc[q] /\ job'[q] = job[q] /\ seen'[q] = seen[q]
         \/ pc'[q] \notin {"verify", "commit"}
         \/ ProviderReply(q)
         \/ Verify(q)
<1>1. ASSUME NEW p \in Proc, Finish(p)
      PROVE  \/ pc'[q] = pc[q] /\ job'[q] = job[q] /\ seen'[q] = seen[q]
             \/ pc'[q] \notin {"verify", "commit"}
  BY <1>1, FinishType
<1>2. ASSUME NEW p \in Proc, Execute(p) \/ Abort(p)
      PROVE  \/ pc'[q] = pc[q] /\ job'[q] = job[q] /\ seen'[q] = seen[q]
             \/ pc'[q] \notin {"verify", "commit"}
             \/ ProviderReply(q)
             \/ Verify(q)
  <2>1. CASE Finish(p)
    BY <1>1, <2>1
  <2>2. CASE Claim(p) \/ FetchUnchanged(p) \/ CallProvider(p)
    BY <2>2 DEF Claim, FetchUnchanged, CallProvider, Goto, TypeOK
  <2>3. CASE ProviderReply(p) \/ Verify(p)
    BY <2>3 DEF ProviderReply, Verify, Goto, TypeOK
  <2> QED
    BY <1>2, <2>1, <2>2, <2>3 DEF Execute, Abort, AlreadyClaimed, FetchChanged, FetchFails,
       CallFails, Complete, VerifyFails, CommitSuccess, CommitRefused
<1>3. ASSUME NEW p \in Proc, StartPreview(p) \/ CreatePreview(p) \/ PreviewFails(p)
      PROVE  \/ pc'[q] = pc[q] /\ job'[q] = job[q] /\ seen'[q] = seen[q]
             \/ pc'[q] \notin {"verify", "commit"}
  BY <1>3 DEF StartPreview, CreatePreview, PreviewFails, Goto, TypeOK
<1>4. ASSUME NEW p \in Proc, NEW a \in Approval, StartExecute(p, a)
      PROVE  \/ pc'[q] = pc[q] /\ job'[q] = job[q] /\ seen'[q] = seen[q]
             \/ pc'[q] \notin {"verify", "commit"}
  BY <1>4 DEF StartExecute, Goto, TypeOK
<1>5. CASE UNCHANGED <<pc, job, seen>>
  BY <1>5
<1> QED
  BY <1>2, <1>3, <1>4, <1>5 DEF Next, vars, Tick, ThirdPartyEdit, ResolveLocally, ProviderApply,
                               ProviderDrop, Approve

LEMMA VersionsStep == CallInv /\ Versions /\ [Next]_vars => Versions'
<1> SUFFICES ASSUME CallInv, Versions, [Next]_vars PROVE Versions'
  OBVIOUS
<1>0. TypeOK /\ TypeOK'
  BY TypeStep DEF CallInv
<1>1. ASSUME NEW w \in Plan, plan'[w] # None PROVE plan'[w].before <= Len(remote')
  <2>1. CASE plan[w] # None
    <3>1. plan[w].before <= Len(remote) /\ plan'[w] = plan[w] /\ Len(remote) <= Len(remote')
      BY <1>0, <2>1, HistoryStep DEF Versions
    <3>2. plan[w] \in PlanRecord
      BY <1>0, <2>1 DEF TypeOK
    <3> QED
      BY <1>0, <3>1, <3>2 DEF TypeOK, PlanRecord, Version
  <2>2. CASE plan[w] = None
    <3>1. \E p \in Proc : CreatePreview(p)
      BY <1>1, <2>2 DEF Next, vars, Tick, ThirdPartyEdit, ResolveLocally, ProviderApply,
         ProviderDrop, Approve, StartPreview, PreviewFails, StartExecute, Execute, Claim,
         AlreadyClaimed, FetchUnchanged, FetchChanged, FetchFails, CallProvider, ProviderReply,
         CallFails, Verify, VerifyFails, CommitSuccess, CommitRefused, Complete, Abort, provider,
         ledgers
    <3>2. plan'[w].before = Len(remote) /\ remote' = remote
      BY <1>0, <1>1, <2>2, <3>1 DEF CreatePreview, TypeOK, Current, provider
    <3> QED
      BY <1>0, <3>2 DEF TypeOK
  <2> QED
    BY <2>1, <2>2
<1>2. ASSUME NEW q \in Proc, pc'[q] \in {"verify", "commit"}
      PROVE  \E a \in Approval : /\ job[q] = a /\ job'[q] = a
                                 /\ PlanOf(a)' = PlanOf(a) /\ PlanOf(a) \in PlanRecord
  <2>1. job'[q] = job[q] /\ pc[q] \in Executing
    BY <1>0, <1>2, ProcessStep DEF ProviderReply, Verify, Executing, TypeOK
  <2>2. PICK a \in Approval : job[q] = a /\ approval[a] # None
    BY <1>0, <2>1 DEF TypeOK
  <2> QED
    BY <1>0, <2>1, <2>2, PlanStep
<1>3. ASSUME NEW q \in Proc, pc'[q] \in {"verify", "commit"}
      PROVE  seen'[q] # PlanOf(job[q])'.before
  <2>1. PICK a \in Approval : /\ job[q] = a /\ job'[q] = a
                              /\ PlanOf(a)' = PlanOf(a)
    BY <1>2, <1>3
  <2>2. seen'[q] # PlanOf(a).before
    <3>1. CASE ProviderReply(q)
      BY <1>0, <2>1, <3>1 DEF ProviderReply, TypeOK
    <3>2. CASE Verify(q)
      BY <1>0, <2>1, <3>2 DEF Verify, Versions, TypeOK
    <3> QED
      BY <1>0, <1>3, <2>1, <3>1, <3>2, ProcessStep DEF Versions
  <2> QED
    BY <2>1, <2>2 DEF PlanOf
<1>4. ASSUME NEW q \in Proc, pc'[q] = "commit"
      PROVE  /\ seen'[q] \in PlanOf(job[q])'.before + 1 .. Len(remote')
             /\ remote'[seen'[q]] = PlanOf(job[q])'.after
  <2>1. PICK a \in Approval : /\ job[q] = a /\ job'[q] = a
                              /\ PlanOf(a)' = PlanOf(a) /\ PlanOf(a) \in PlanRecord
    BY <1>2, <1>4
  <2>2. /\ seen'[q] \in PlanOf(a).before + 1 .. Len(remote)
        /\ remote[seen'[q]] = PlanOf(a).after
        /\ PlanOf(a).before \in Nat
    <3>1. CASE Verify(q)
      <4>1. /\ seen'[q] = seen[q] /\ seen[q] = Len(remote) /\ seen[q] # PlanOf(a).before
            /\ remote[seen[q]] = PlanOf(a).after
        BY <2>1, <3>1 DEF Verify, Versions, Current
      <4>2. approval[a] # None
        BY <1>0, <2>1, <3>1, NoneAssumption DEF Verify, TypeOK
      <4>3. PlanOf(a).before <= Len(remote) /\ PlanOf(a).before \in Nat
        BY <1>0, <2>1, <4>2, PlanStep DEF Versions, PlanOf, PlanRecord, Version
      <4> QED
        BY <1>0, <4>1, <4>3 DEF TypeOK
    <3>2. CASE ~Verify(q)
      <4>1. pc[q] = "commit" /\ seen'[q] = seen[q]
        BY <1>0, <1>4, <3>2, ProcessStep DEF ProviderReply, Goto, TypeOK
      <4> QED
        BY <2>1, <4>1 DEF Versions, PlanRecord, Version
    <3> QED
      BY <3>1, <3>2
  <2>3. Len(remote) <= Len(remote') /\ \A v \in 1 .. Len(remote) : remote'[v] = remote[v]
    BY <1>0, HistoryStep
  <2>4. PlanOf(job[q])' = PlanOf(a)
    BY <2>1 DEF PlanOf
  <2>5. Len(remote) \in Nat /\ Len(remote') \in Nat
    BY <1>0 DEF TypeOK
  <2>6. seen'[q] \in PlanOf(a).before + 1 .. Len(remote') /\ seen'[q] \in 1 .. Len(remote)
    BY <2>2, <2>3, <2>5
  <2>7. remote'[seen'[q]] = PlanOf(a).after
    BY <2>2, <2>3, <2>6
  <2> QED
    BY <2>4, <2>6, <2>7
<1> QED
  BY <1>1, <1>3, <1>4 DEF Versions

LEMMA SuccessInit == Init => SuccessInv
<1> SUFFICES ASSUME Init PROVE SuccessInv
  OBVIOUS
<1>1. CallInv
  BY CallInit
<1> QED
  BY <1>1, NoneAssumption
     DEF Init, SuccessInv, Versions, SuccessWasVerified, OneResolution, NoReceipt

LEMMA SuccessStep == SuccessInv /\ [Next]_vars => SuccessInv'
<1> SUFFICES ASSUME SuccessInv, [Next]_vars PROVE SuccessInv'
  OBVIOUS
<1>0. CallInv /\ TypeOK /\ CallInv' /\ TypeOK' /\ Versions'
  BY CallStep, VersionsStep DEF SuccessInv, CallInv
<1>1. ASSUME NEW a \in Approval, receipt'[a] # receipt[a] \/ resolvedBy' # resolvedBy
      PROVE  \/ resolvedBy' = "local" /\ resolvedBy = None /\ receipt' = receipt
             \/ \E p \in Proc : CommitSuccess(p)
             \/ \E p \in Proc, s \in Status : /\ Complete(p, s) /\ s # "succeeded"
                                              /\ pc[p] \in Owning
  BY <1>1 DEF Next, vars, Tick, ThirdPartyEdit, ResolveLocally, ProviderApply, ProviderDrop,
         Approve, StartPreview, CreatePreview, PreviewFails, StartExecute, Execute, Claim,
         AlreadyClaimed, FetchUnchanged, FetchChanged, FetchFails, CallProvider, ProviderReply,
         CallFails, Verify, VerifyFails, CommitRefused, Abort, provider, ledgers, Status, Owning
<1>2. ASSUME NEW a \in Approval
      PROVE  /\ receipt'[a].status = "succeeded" <=> resolvedBy' = a
             /\ receipt'[a].status = "succeeded" =>
                  \/ receipt[a] = receipt'[a]
                  \/ \E p \in Proc : /\ pc[p] = "commit" /\ job[p] = a
                                     /\ receipt'[a].version = seen[p]
                                     /\ UNCHANGED <<calls, remote>>
  <2>1. CASE receipt'[a] = receipt[a] /\ resolvedBy' = resolvedBy
    BY <2>1 DEF SuccessInv, OneResolution
  <2>2. CASE resolvedBy' = "local" /\ resolvedBy = None /\ receipt' = receipt
    BY <2>2, NoneAssumption, LocalAssumption DEF SuccessInv, OneResolution
  <2>3. ASSUME NEW p \in Proc, CommitSuccess(p)
        PROVE  /\ receipt'[a].status = "succeeded" <=> resolvedBy' = a
               /\ receipt'[a].status = "succeeded" =>
                    \/ receipt[a] = receipt'[a]
                    \/ /\ pc[p] = "commit" /\ job[p] = a
                       /\ receipt'[a].version = seen[p]
                       /\ UNCHANGED <<calls, remote>>
    BY <1>0, <2>3, NoneAssumption
       DEF CommitSuccess, SuccessInv, OneResolution, TypeOK, Executing, provider
  <2>4. ASSUME NEW p \in Proc, NEW s \in Status, Complete(p, s), s # "succeeded", pc[p] \in Owning
        PROVE  /\ receipt'[a].status = "succeeded" <=> resolvedBy' = a
               /\ receipt'[a].status = "succeeded" => receipt[a] = receipt'[a]
    BY <1>0, <2>4 DEF Complete, SuccessInv, OneResolution, TypeOK, CallInv, Ownership
  <2> QED
    BY <1>1, <2>1, <2>2, <2>3, <2>4
<1>3. OneResolution'
  BY <1>2 DEF OneResolution
<1>4. SuccessWasVerified'
  <2> SUFFICES ASSUME NEW a \in Approval, receipt'[a].status = "succeeded"
               PROVE  /\ receipt'[a].version \in PlanOf(a)'.before + 1 .. Len(remote')
                      /\ remote'[receipt'[a].version] = PlanOf(a)'.after
                      /\ calls'[a] = 1
    BY DEF SuccessWasVerified, Current
  <2>1. PICK v : /\ v \in PlanOf(a).before + 1 .. Len(remote)
                 /\ remote[v] = PlanOf(a).after
                 /\ receipt'[a].version = v
                 /\ calls[a] = 1
                 /\ approval[a] # None
    <3>1. CASE receipt[a] = receipt'[a]
      <4>1. a \in claimed
        BY <1>0, <3>1 DEF CallInv, Unclaimed
      <4> QED
        BY <1>0, <3>1, <4>1 DEF SuccessInv, SuccessWasVerified, Current, TypeOK
    <3>2. ASSUME NEW p \in Proc, pc[p] = "commit", job[p] = a, receipt'[a].version = seen[p]
          PROVE  /\ seen[p] \in PlanOf(a).before + 1 .. Len(remote)
                 /\ remote[seen[p]] = PlanOf(a).after
                 /\ calls[a] = 1
                 /\ approval[a] # None
      BY <1>0, <3>2, NoneAssumption DEF SuccessInv, Versions, CallInv, CallState, Called, TypeOK
    <3> QED
      BY <1>2, <3>1, <3>2
  <2>2. PlanOf(a)' = PlanOf(a) /\ PlanOf(a).before \in Nat
    BY <1>0, <2>1, PlanStep DEF PlanRecord, Version
  <2>3. Len(remote) <= Len(remote') /\ \A u \in 1 .. Len(remote) : remote'[u] = remote[u]
    BY <1>0, HistoryStep
  <2>4. calls'[a] = 1
    <3>1. calls'[a] <= 1 /\ calls'[a] \in Nat
      BY <1>0 DEF CallInv, CallState, TypeOK
    <3>2. UNCHANGED calls \/ \E p \in Proc : CallProvider(p)
      BY DEF Next, vars, Tick, ThirdPartyEdit, ResolveLocally, ProviderApply,
         ProviderDrop, Approve, StartPreview, CreatePreview, PreviewFails, StartExecute, Execute,
         Claim, AlreadyClaimed, FetchUnchanged, FetchChanged, FetchFails, ProviderReply,
         CallFails, Verify, VerifyFails, CommitSuccess, CommitRefused, Complete, Abort
    <3>3. ASSUME NEW p \in Proc, CallProvider(p) PROVE calls'[a] >= calls[a]
      BY <1>0, <3>3 DEF CallProvider, TypeOK, Executing
    <3> QED
      BY <1>0, <2>1, <3>1, <3>2, <3>3
  <2> QED
    BY <1>0, <2>1, <2>2, <2>3, <2>4 DEF TypeOK
<1> QED
  BY <1>0, <1>3, <1>4 DEF SuccessInv

(* A success receipt names a version at which the provider object really   *)
(* held the approved content, for every behaviour of the provider.         *)
THEOREM SuccessWasVerifiedCorrect == Spec => []SuccessWasVerified
<1>1. SuccessInv => SuccessWasVerified
  BY DEF SuccessInv
<1> QED
  BY <1>1, SuccessInit, SuccessStep, PTL DEF Spec

(* The case and the receipt ledger agree on which write resolved the case. *)
THEOREM OneResolutionCorrect == Spec => []OneResolution
<1>1. SuccessInv => OneResolution
  BY DEF SuccessInv
<1> QED
  BY <1>1, SuccessInit, SuccessStep, PTL DEF Spec
=============================================================================
