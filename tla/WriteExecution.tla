---------------------------- MODULE WriteExecution ----------------------------
(***************************************************************************)
(* External writes: mutations/planner.py, mutations/approval.py,           *)
(* mutations/executor.py, mutations/committer.py, the receipt ledger of    *)
(* storage/jsonl/receipt_store.py and the gateway of cli/writes.py.        *)
(*                                                                         *)
(* Contributors preview a change of one provider object that belongs to    *)
(* one reconciliation case, reviewers approve previews, and several        *)
(* processes execute approved plans while the object changes under them,   *)
(* the provider answers late or wrongly, and processes die.  Each ledger   *)
(* write and the commit of a success is one step: LocalTransaction shows   *)
(* that the local store is atomic.                                         *)
(***************************************************************************)
EXTENDS Integers, Sequences, FiniteSets

CONSTANTS Proc,         \* processes: CLI commands and MCP servers
          Plan,         \* write plan ids
          Approval,     \* approval ids
          Content,      \* contents of the provider object
          MaxVersion,   \* bound: versions the provider object goes through
          MaxTime,      \* bound: clock
          PlanTTL,      \* _DEFAULT_EXPIRY
          ApprovalTTL,  \* expires_in of approve_plan
          None          \* absence of a plan, an approval, a job, a resolution

ASSUME TimeAssumption == /\ MaxVersion \in Nat \ {0}
                         /\ MaxTime \in Nat
                         /\ PlanTTL \in Nat \ {0}
                         /\ ApprovalTTL \in Nat \ {0}
ASSUME NoneAssumption == None \notin Plan \cup Approval \cup Content \cup {"local"}
ASSUME LocalAssumption == "local" \notin Approval

VARIABLES
  clock,       \* wall clock
  remote,      \* contents the provider object went through; its length is the current version
  inflight,    \* SUBSET Approval: mutations sent to the provider, neither applied nor refused
  plan,        \* [Plan -> plan record or None]: the plan ledger
  approval,    \* [Approval -> approval record or None]: the approval ledger
  claimed,     \* SUBSET Approval: claims of the receipt ledger
  receipt,     \* [Approval -> status and resulting version]: its terminal receipts
  resolvedBy,  \* None while the case is NEEDS_HUMAN, then what resolved it
  pc,          \* [Proc -> ...]
  job,         \* [Proc -> Approval \cup {None}]: the approval being executed
  seen,        \* [Proc -> version the provider said the mutation produced]
  calls        \* [Approval -> Nat]: provider mutations attempted, a history

vars == <<clock, remote, inflight, plan, approval, claimed, receipt, resolvedBy,
          pc, job, seen, calls>>
provider == <<remote, inflight>>
ledgers == <<plan, approval, claimed, receipt, resolvedBy>>

Version == 1 .. MaxVersion
Time == 0 .. MaxTime
Status == {"none", "succeeded", "rejected", "permission_denied", "provider_failure"}

Current == Len(remote)
PlanOf(a) == plan[approval[a].plan]
NoReceipt == [status |-> "none", version |-> 0]

Init == /\ clock = 0
        /\ remote \in {<<c>> : c \in Content}
        /\ inflight = {}
        /\ plan = [w \in Plan |-> None]
        /\ approval = [a \in Approval |-> None]
        /\ claimed = {}
        /\ receipt = [a \in Approval |-> NoReceipt]
        /\ resolvedBy = None
        /\ pc = [p \in Proc |-> "idle"]
        /\ job = [p \in Proc |-> None]
        /\ seen = [p \in Proc |-> 0]
        /\ calls = [a \in Approval |-> 0]

Goto(p, label) == pc' = [pc EXCEPT ![p] = label]

(* Mutant: the job is not forgotten. *)
FinishKeepsJob(p) == Goto(p, "idle") /\ UNCHANGED <<job, seen>>

(* The execution returns a receipt or raises ExecutionUnavailable. *)
Finish(p) == /\ Goto(p, "idle")
             /\ job' = [job EXCEPT ![p] = None]
             /\ seen' = [seen EXCEPT ![p] = 0]

-----------------------------------------------------------------------------
(* The world around the executor.                                          *)

Tick == /\ clock < MaxTime
        /\ clock' = clock + 1
        /\ UNCHANGED <<provider, ledgers, pc, job, seen, calls>>

(* Someone else edits the provider object. *)
ThirdPartyEdit == /\ Current < MaxVersion
                  /\ \E c \in Content : remote' = Append(remote, c)
                  /\ UNCHANGED <<clock, inflight, ledgers, pc, job, seen, calls>>

(* The provider applies a mutation it received, at any later time and      *)
(* whatever the current version: nothing obliges it to honour the          *)
(* before_version among the arguments.                                     *)
ProviderApply(a) == /\ a \in inflight /\ Current < MaxVersion
                    /\ remote' = Append(remote, PlanOf(a).after)
                    /\ inflight' = inflight \ {a}
                    /\ UNCHANGED <<clock, ledgers, pc, job, seen, calls>>

(* The provider refuses a mutation, or never received it. *)
ProviderDrop(a) == /\ a \in inflight
                   /\ inflight' = inflight \ {a}
                   /\ UNCHANGED <<clock, remote, ledgers, pc, job, seen, calls>>

(* The case is resolved by a local decision (reconcile/local_resolution). *)
ResolveLocally == /\ resolvedBy = None
                  /\ resolvedBy' = "local"
                  /\ UNCHANGED <<clock, provider, plan, approval, claimed, receipt,
                                 pc, job, seen, calls>>

-----------------------------------------------------------------------------
(* Preview and approval.                                                   *)

(* create_preview reads the case, then waits for the provider object. *)
StartPreview(p) == /\ pc[p] = "idle" /\ resolvedBy = None
                   /\ Goto(p, "preview")
                   /\ UNCHANGED <<clock, provider, ledgers, job, seen, calls>>

(* build_write_plan on the fetched object and the case read before the     *)
(* fetch; the plan is put into the ledger.                                 *)
CreatePreview(p) ==
  /\ pc[p] = "preview"
  /\ \E w \in Plan, c \in Content :
       /\ plan[w] = None
       /\ c # remote[Current]
       /\ plan' = [plan EXCEPT ![w] = [before |-> Current, after |-> c, created |-> clock,
                                       expires |-> clock + PlanTTL]]
  /\ Goto(p, "idle")
  /\ UNCHANGED <<clock, provider, approval, claimed, receipt, resolvedBy, job, seen, calls>>

PreviewFails(p) == /\ pc[p] = "preview"
                   /\ Goto(p, "idle")
                   /\ UNCHANGED <<clock, provider, ledgers, job, seen, calls>>

(* WriteWorkflow.approve: the reviewer confirms an unexpired plan. *)
Approve(w, a) ==
  /\ plan[w] # None /\ approval[a] = None
  /\ clock < plan[w].expires
  /\ approval' = [approval EXCEPT ![a] =
       [plan |-> w, at |-> clock,
        until |-> IF clock + ApprovalTTL < plan[w].expires THEN clock + ApprovalTTL
                                                           ELSE plan[w].expires]]
  /\ UNCHANGED <<clock, provider, plan, claimed, receipt, resolvedBy, pc, job, seen, calls>>

-----------------------------------------------------------------------------
(* WriteExecutor.execute.                                                  *)

(* _validated_inputs, no receipt yet, and now, which is read once here,    *)
(* within both windows.                                                    *)
StartExecute(p, a) ==
  /\ pc[p] = "idle" /\ approval[a] # None
  /\ receipt[a].status = "none"
  /\ clock < PlanOf(a).expires /\ clock < approval[a].until
  /\ Goto(p, "claim")
  /\ job' = [job EXCEPT ![p] = a]
  /\ UNCHANGED <<clock, provider, ledgers, seen, calls>>

(* Mutant: an existing claim of the pair does not stop the execution. *)
ClaimAgain(p) ==
  /\ pc[p] = "claim"
  /\ claimed' = claimed \cup {job[p]}
  /\ Goto(p, "fetch")
  /\ UNCHANGED <<clock, provider, plan, approval, receipt, resolvedBy, job, seen, calls>>

(* JsonlReceiptStore.claim: the first claim of the pair wins. *)
Claim(p) ==
  /\ pc[p] = "claim" /\ job[p] \notin claimed
  /\ claimed' = claimed \cup {job[p]}
  /\ Goto(p, "fetch")
  /\ UNCHANGED <<clock, provider, plan, approval, receipt, resolvedBy, job, seen, calls>>

(* The pair was claimed: its receipt is returned, or the call is refused. *)
AlreadyClaimed(p) ==
  /\ pc[p] = "claim" /\ job[p] \in claimed
  /\ Finish(p)
  /\ UNCHANGED <<clock, provider, ledgers, calls>>

(* JsonlReceiptStore.complete with a failure receipt. *)
Complete(p, status) ==
  /\ receipt[job[p]].status = "none"
  /\ receipt' = [receipt EXCEPT ![job[p]] = [status |-> status, version |-> 0]]
  /\ Finish(p)
  /\ UNCHANGED <<clock, provider, plan, approval, claimed, resolvedBy, calls>>

(* The refetched target still is the approved one.  A version names one    *)
(* content, so the comparison of the contents adds nothing here.           *)
TargetUnchanged(a) == Current = PlanOf(a).before

FetchUnchanged(p) ==
  /\ pc[p] = "fetch" /\ TargetUnchanged(job[p])
  /\ Goto(p, "call")
  /\ UNCHANGED <<clock, provider, ledgers, job, seen, calls>>

FetchChanged(p) == pc[p] = "fetch" /\ ~TargetUnchanged(job[p]) /\ Complete(p, "rejected")

FetchFails(p) == /\ pc[p] = "fetch"
                 /\ \E s \in {"permission_denied", "provider_failure"} : Complete(p, s)

(* The mutation leaves for the provider. *)
CallProvider(p) ==
  /\ pc[p] = "call"
  /\ inflight' = inflight \cup {job[p]}
  /\ calls' = [calls EXCEPT ![job[p]] = @ + 1]
  /\ Goto(p, "reply")
  /\ UNCHANGED <<clock, remote, ledgers, job, seen>>

(* The provider reports a resulting version, truthfully or not; one equal  *)
(* to the version before is an error.                                      *)
ProviderReply(p) ==
  /\ pc[p] = "reply"
  /\ \E v \in Version : /\ v # PlanOf(job[p]).before
                        /\ seen' = [seen EXCEPT ![p] = v]
  /\ Goto(p, "verify")
  /\ UNCHANGED <<clock, provider, ledgers, job, calls>>

(* The call is refused, fails or times out: it may still take effect. *)
CallFails(p) == /\ pc[p] = "reply"
                /\ \E s \in {"permission_denied", "provider_failure"} : Complete(p, s)

(* Mutant: the version the provider reports is taken on trust. *)
TrustReply(p) ==
  /\ pc[p] = "verify"
  /\ Goto(p, "commit")
  /\ UNCHANGED <<clock, provider, ledgers, job, seen, calls>>

(* The target is fetched again and holds exactly what was approved, at the *)
(* version the provider reported.                                          *)
Verify(p) ==
  /\ pc[p] = "verify"
  /\ Current = seen[p] /\ remote[Current] = PlanOf(job[p]).after
  /\ Goto(p, "commit")
  /\ UNCHANGED <<clock, provider, ledgers, job, seen, calls>>

(* Mutant: a failed verification is recorded like a changed target. *)
VerifyRejects(p) == pc[p] = "verify" /\ Complete(p, "rejected")

(* A failed verification raises and leaves the claim incomplete. *)
VerifyFails(p) ==
  /\ pc[p] = "verify"
  /\ Finish(p)
  /\ UNCHANGED <<clock, provider, ledgers, calls>>

(* Mutant: the status of the case is not looked at again. *)
CommitAnyway(p) ==
  /\ pc[p] = "commit"
  /\ job[p] \in claimed /\ receipt[job[p]].status = "none"
  /\ receipt' = [receipt EXCEPT ![job[p]] = [status |-> "succeeded", version |-> seen[p]]]
  /\ resolvedBy' = job[p]
  /\ Finish(p)
  /\ UNCHANGED <<clock, provider, plan, approval, claimed, calls>>

(* LocalWriteCommitter: graph, history, evidence, case and receipt in one  *)
(* transaction, if the case still waits for a human.                       *)
CommitSuccess(p) ==
  /\ pc[p] = "commit" /\ resolvedBy = None
  /\ job[p] \in claimed /\ receipt[job[p]].status = "none"
  /\ receipt' = [receipt EXCEPT ![job[p]] = [status |-> "succeeded", version |-> seen[p]]]
  /\ resolvedBy' = job[p]
  /\ Finish(p)
  /\ UNCHANGED <<clock, provider, plan, approval, claimed, calls>>

CommitRefused(p) ==
  /\ pc[p] = "commit" /\ resolvedBy # None
  /\ Finish(p)
  /\ UNCHANGED <<clock, provider, ledgers, calls>>

(* The process dies, is cancelled, or a ledger operation raises. *)
Abort(p) == /\ pc[p] # "idle"
            /\ Finish(p)
            /\ UNCHANGED <<clock, provider, ledgers, calls>>

Execute(p) == \/ Claim(p) \/ AlreadyClaimed(p)
              \/ FetchUnchanged(p) \/ FetchChanged(p) \/ FetchFails(p)
              \/ CallProvider(p) \/ ProviderReply(p) \/ CallFails(p)
              \/ Verify(p) \/ VerifyFails(p) \/ CommitSuccess(p) \/ CommitRefused(p)

Next == \/ Tick \/ ThirdPartyEdit \/ ResolveLocally
        \/ \E a \in Approval : ProviderApply(a) \/ ProviderDrop(a)
        \/ \E w \in Plan, a \in Approval : Approve(w, a)
        \/ \E p \in Proc : \/ StartPreview(p) \/ CreatePreview(p) \/ PreviewFails(p)
                           \/ \E a \in Approval : StartExecute(p, a)
                           \/ Execute(p) \/ Abort(p)

Spec == Init /\ [][Next]_vars

-----------------------------------------------------------------------------
(* Properties                                                              *)

PlanRecord == [before : Version, after : Content, created : Time, expires : Nat]
ApprovalRecord == [plan : Plan, at : Time, until : Nat]
Executing == {"claim", "fetch", "call", "reply", "verify", "commit"}

(* Types; an approval names a plan of the ledger, what is claimed or sent  *)
(* was approved, and a process has a job exactly while it executes one of  *)
(* the approvals.                                                          *)
TypeOK ==
  /\ clock \in Time
  /\ remote \in Seq(Content) /\ Len(remote) \in Version
  /\ inflight \subseteq Approval
  /\ plan \in [Plan -> PlanRecord \cup {None}]
  /\ approval \in [Approval -> ApprovalRecord \cup {None}]
  /\ \A a \in Approval : approval[a] # None => PlanOf(a) # None
  /\ claimed \subseteq Approval
  /\ \A a \in inflight \cup claimed : approval[a] # None
  /\ receipt \in [Approval -> [status : Status, version : 0 .. MaxVersion]]
  /\ resolvedBy \in Approval \cup {None, "local"}
  /\ pc \in [Proc -> {"idle", "preview"} \cup Executing]
  /\ job \in [Proc -> Approval \cup {None}]
  /\ \A p \in Proc : /\ pc[p] \in Executing <=> job[p] # None
                     /\ job[p] # None => approval[job[p]] # None
  /\ seen \in [Proc -> 0 .. MaxVersion]
  /\ calls \in [Approval -> Nat]

(* A provider mutation is attempted at most once for a (plan, approval)    *)
(* pair, and only under a durable claim, whoever executes the pair and     *)
(* wherever an execution dies.                                             *)
AtMostOneCall == \A a \in Approval : calls[a] <= IF a \in claimed THEN 1 ELSE 0

(* A receipt that rejects a changed target means that no mutation was, or  *)
(* ever will be, sent for its pair.                                        *)
RejectedUntouched == \A a \in Approval : receipt[a].status = "rejected"
                                          => calls[a] = 0 /\ a \notin inflight

(* A success receipt names a version, later than the previewed one, at     *)
(* which the object really held the approved content, even if the provider *)
(* lies about the version it produced.                                     *)
SuccessWasVerified ==
  \A a \in Approval : receipt[a].status = "succeeded" =>
    LET v == receipt[a].version
    IN /\ v \in PlanOf(a).before + 1 .. Current
       /\ remote[v] = PlanOf(a).after
       /\ calls[a] = 1

(* The case and the receipt ledger agree: the case is resolved by an       *)
(* external write exactly when that write has the success receipt, so at   *)
(* most one of the competing plans of a case ever succeeds.                *)
OneResolution == \A a \in Approval : receipt[a].status = "succeeded" <=> resolvedBy = a
=============================================================================
