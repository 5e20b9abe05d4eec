---------------------------- MODULE Authorization ----------------------------
(***************************************************************************)
(* intent_workflow/authorization.py, preflight.py and post_task.py, and    *)
(* integrations/agent_host/base.py: a preflight of the graph grants a task *)
(* a capability, mutations show it, and the record of the finished task    *)
(* consumes it.                                                            *)
(*                                                                         *)
(* The grants and the host's tasks live in one process, whose concurrent   *)
(* calls are Caller; other processes change the project's files.  A        *)
(* transaction on the files, and an operation of the issuer under its      *)
(* lock, is one step; consume keeps the lock while the commit it           *)
(* authorizes runs.  A token is the number of its issue.                   *)
(***************************************************************************)
EXTENDS Integers, FiniteSets, Sequences

CONSTANTS Caller,      \* concurrent calls of the host adapter
          Task, Node, Path,
          Relevant,    \* [Task -> SUBSET Node], {}: no semantic impact
          Scope,       \* [Task -> SUBSET Path]
          Captured,    \* tasks whose commit and test run are evidence from the start
          TTL,         \* _DEFAULT_TTL
          MaxLive,     \* _MAX_LIVE_GRANTS
          MaxTasks,    \* _MAX_LIVE_TASKS
          None,
          MaxClock, MaxTokens, MaxChanges,  \* bounds: clock, tokens, changes by others
          MaxCommits   \* bound: tasks recorded

Token == 1 .. MaxTokens

ASSUME AuthorizationAssumption ==
  /\ TTL \in Nat /\ MaxLive \in Nat /\ MaxTasks \in Nat
  /\ MaxClock \in Nat /\ MaxTokens \in Nat /\ MaxChanges \in Nat /\ MaxCommits \in Nat
  /\ Relevant \in [Task -> SUBSET Node] /\ Scope \in [Task -> SUBSET Path]
  /\ Captured \subseteq Task
  /\ None \notin Caller /\ None \notin Token

VARIABLES
  clock,
  graph,      \* graph.yaml: [version, edits (by hand), linked (requirements)]
  evidence,   \* evidence.jsonl: [length, current (tasks with commit and test run)]
  policy,     \* config, policy, repository and binding files: how often changed
  blocked,    \* nodes under an open reconciliation case
  changes,    \* changes made by others so far
  grants,     \* AuthorizationIssuer._grants: [Token -> grant or None]
  issued,     \* tokens issued in the lifetime of the project
  lock,       \* the issuer's lock while consume holds it: Caller or None
  tasks,      \* IntentAgentHostAdapter._tasks: [Task -> graph version or None]
  tokens,     \* IntentAgentHostAdapter._tokens: [Task -> token or None]
  call,       \* [Caller -> call in progress]
  commits     \* what post-task records changed (history)

files == <<graph, evidence, policy, blocked, changes>>
issuer == <<grants, issued, lock>>
host == <<tasks, tokens>>
vars == <<clock, files, issuer, host, call, commits>>

Files == [graph |-> graph, evidence |-> evidence, policy |-> policy, blocked |-> blocked]
Idle == [pc |-> "idle", task |-> None, version |-> 0, at |-> 0, files |-> None, token |-> None,
         grant |-> None, paths |-> {}, reqs |-> {}]
Goto(c, pc) == call' = [call EXCEPT ![c].pc = pc]
End(c) == call' = [call EXCEPT ![c] = Idle]
(* What a call still needs once it has its token, or only has to revoke it. *)
Holding(c, pc, k) == call' = [call EXCEPT ![c] = [Idle EXCEPT !.pc = pc, !.task = call[c].task,
                                                  !.version = call[c].version, !.token = k]]
Leaving(c, pc) == call' = [call EXCEPT ![c] = [Idle EXCEPT !.pc = pc, !.task = call[c].task,
                                               !.token = call[c].token]]

Init ==
  /\ clock = 0 /\ graph = [version |-> 1, edits |-> 0, linked |-> {}]
  /\ evidence = [length |-> 0, current |-> Captured] /\ policy = 0 /\ blocked = {} /\ changes = 0
  /\ grants = [k \in Token |-> None] /\ issued = 0 /\ lock = None
  /\ tasks = [t \in Task |-> None] /\ tokens = [t \in Task |-> None]
  /\ call = [c \in Caller |-> Idle] /\ commits = <<>>

(***************************************************************************)
(* The issuer.                                                             *)
(***************************************************************************)
Live(g) == {k \in Token : g[k] # None}
(* _evict_expired *)
Evicted == [k \in Token |-> IF grants[k] # None /\ clock < grants[k].expires THEN grants[k]
                            ELSE None]
(* revoke, and the pop in consume *)
Without(k) == [j \in Token |-> IF j = k THEN None ELSE grants[j]]

(* verify: every binding of the grant, for files that were read before.    *)
Verified(k, t, version, g, paths, now) ==
  /\ k \in Token /\ grants[k] # None
  /\ now < grants[k].expires /\ grants[k].task = t
  /\ version = grants[k].graph.version /\ g = grants[k].graph
  /\ paths \subseteq Scope[t] /\ (paths = {} => Scope[t] = {})
(* verify drops a grant that it finds expired. *)
AfterVerify(k, now) == IF k \in Token /\ grants[k] # None /\ now >= grants[k].expires
                       THEN Without(k) ELSE grants

(***************************************************************************)
(* IntentAgentHostAdapter.before_task, and MCP preflight behind it.        *)
(***************************************************************************)
BeforeTask(c, t) ==
  /\ call[c].pc = "idle"
  /\ call' = [call EXCEPT ![c] = [Idle EXCEPT !.pc = "envelope", !.task = t,
                                              !.version = graph.version, !.at = clock]]
  /\ UNCHANGED <<clock, files, issuer, host, commits>>

(* _validate_references, _blocking_cases: what the task touches is under   *)
(* an open case.                                                           *)
Blocking(t) == Relevant[t] \cap blocked

(* PreflightService._evaluate, up to its result: aligned work needs        *)
(* relevant nodes without a case.                                          *)
Evaluate(c) ==
  LET t == call[c].task IN
  /\ call[c].pc = "envelope"
  /\ IF graph.version = call[c].version /\ Blocking(t) = {}
     THEN call' = [call EXCEPT ![c].pc = "evaluated", ![c].files = Files]
     ELSE End(c)
  /\ UNCHANGED <<clock, files, issuer, host, commits>>

(* An ambiguous or conflicting task is kept by the host without a token.   *)
EvaluateRefused(c) ==
  /\ call[c].pc = "envelope" /\ graph.version = call[c].version
  /\ Holding(c, "returned", None)
  /\ UNCHANGED <<clock, files, issuer, host, commits>>

(* _authenticate_snapshot *)
Authenticate(c) ==
  /\ call[c].pc = "evaluated"
  /\ IF call[c].files = Files THEN Goto(c, "authenticated") ELSE End(c)
  /\ UNCHANGED <<clock, files, issuer, host, commits>>

(* MCP preflight's own transaction compares configuration and graph once   *)
(* more; AuthorizationIssuer.issue.                                        *)
Unchanged(c) == /\ graph = call[c].files.graph /\ policy = call[c].files.policy
                /\ clock - call[c].at <= TTL
(* Mutant: a grant without an end. *)
GrantForever(c) == [task |-> call[c].task, graph |-> graph, expires |-> None]
Grant(c) == [task |-> call[c].task, graph |-> graph, expires |-> clock + TTL]
(* Mutant: one grant too many. *)
RoomForOne(g) == Cardinality(Live(g)) <= MaxLive
Room(g) == Cardinality(Live(g)) < MaxLive

Issue(c) ==
  /\ call[c].pc = "authenticated" /\ lock = None
  /\ Unchanged(c) /\ Room(Evicted) /\ issued < MaxTokens
  /\ issued' = issued + 1
  /\ grants' = [Evicted EXCEPT ![issued + 1] = Grant(c)]
  /\ Holding(c, "minted", issued + 1)
  /\ UNCHANGED <<clock, files, lock, host, commits>>

IssueRefused(c) ==
  /\ call[c].pc = "authenticated" /\ lock = None
  /\ ~Unchanged(c) \/ ~Room(Evicted) \/ issued = MaxTokens
  /\ grants' = IF Unchanged(c) THEN Evicted ELSE grants
  /\ End(c)
  /\ UNCHANGED <<clock, files, issued, lock, host, commits>>

ReturnToken(c) ==
  /\ call[c].pc = "minted" /\ Goto(c, "returned")
  /\ UNCHANGED <<clock, files, issuer, host, commits>>

(* A token that was minted and not returned is revoked. *)
PreflightCancelled(c) ==
  /\ call[c].pc = "minted" /\ lock = None
  /\ grants' = Without(call[c].token) /\ End(c)
  /\ UNCHANGED <<clock, files, issued, lock, host, commits>>

(* before_task keeps task and token, while there is room for the task. *)
Keep(c) ==
  LET t == call[c].task
      room == Cardinality({u \in Task : tasks[u] # None}) < MaxTasks \/ tasks[t] # None
  IN  /\ call[c].pc = "returned"
      /\ tasks' = IF room THEN [tasks EXCEPT ![t] = call[c].version] ELSE tasks
      /\ tokens' = IF room /\ call[c].token # None THEN [tokens EXCEPT ![t] = call[c].token]
                   ELSE tokens
      /\ End(c)
      /\ UNCHANGED <<clock, files, issuer, commits>>

(* before_mutation and MCP authorization_verify; only a grant found        *)
(* expired changes anything.                                               *)
Authorizable(t) == tasks[t] # None /\ tokens[t] # None
BeforeMutation(c, t) ==
  /\ call[c].pc = "idle" /\ lock = None
  /\ Authorizable(t) /\ tasks[t] = graph.version
  /\ grants' = AfterVerify(tokens[t], clock)
  /\ UNCHANGED <<clock, files, issued, lock, host, call, commits>>

(***************************************************************************)
(* after_task and PostTaskService.evaluate                                 *)
(***************************************************************************)
(* PostTaskSubmission, with the token it is submitted under. *)
Submission(t, paths, reqs) ==
  [Idle EXCEPT !.pc = "submitted", !.task = t, !.version = tasks[t], !.token = tokens[t],
               !.at = clock, !.paths = paths, !.reqs = reqs]

AfterTask(c, t, paths, reqs) ==
  /\ call[c].pc = "idle" /\ Authorizable(t)
  /\ paths # {} /\ reqs # {}
  /\ call' = [call EXCEPT ![c] = Submission(t, paths, reqs)]
  /\ UNCHANGED <<clock, files, issuer, host, commits>>

(* A result that is not completed, does not match or lacks evidence. *)
AbandonTask(c, t) ==
  /\ call[c].pc = "idle" /\ tasks[t] # None
  /\ call' = [call EXCEPT ![c] = [Idle EXCEPT !.pc = "leave", !.task = t, !.token = tokens[t]]]
  /\ UNCHANGED <<clock, files, issuer, host, commits>>

PostSnapshot(c) ==
  /\ call[c].pc = "submitted"
  /\ call' = [call EXCEPT ![c].pc = "snapshot", ![c].files = Files]
  /\ UNCHANGED <<clock, files, issuer, host, commits>>

CallVerified(c) == Verified(call[c].token, call[c].task, call[c].version, call[c].files.graph,
                            call[c].paths, call[c].at)

PostVerify(c) ==
  /\ call[c].pc = "snapshot" /\ lock = None
  /\ grants' = AfterVerify(call[c].token, call[c].at)
  /\ IF CallVerified(c) THEN call' = [call EXCEPT ![c].pc = "verified", ![c].at = clock]
     ELSE Leaving(c, "revoke")
  /\ UNCHANGED <<clock, files, issued, lock, host, commits>>

(* consume: verified again, popped, and the lock kept for the action. *)
PostConsume(c) ==
  /\ call[c].pc = "verified" /\ lock = None /\ CallVerified(c)
  /\ grants' = Without(call[c].token) /\ lock' = c
  /\ call' = [call EXCEPT ![c].pc = "commit", ![c].grant = grants[call[c].token]]
  /\ UNCHANGED <<clock, files, issued, host, commits>>

PostRejected(c) ==
  /\ call[c].pc = "verified" /\ lock = None /\ ~CallVerified(c)
  /\ grants' = AfterVerify(call[c].token, call[c].at)
  /\ Leaving(c, "revoke")
  /\ UNCHANGED <<clock, files, issued, lock, host, commits>>

(* _commit: the requirements are relevant to the grant and the snapshot    *)
(* holds current evidence of the commit and its tests.                     *)
Supported(c) == /\ call[c].reqs \subseteq Relevant[call[c].task]
                /\ call[c].task \in call[c].files.evidence.current
(* Mutant: the hand edits of the graph are not compared. *)
SameVersion(c) == /\ graph.version = call[c].files.graph.version
                  /\ evidence = call[c].files.evidence /\ policy = call[c].files.policy
(* LocalChangeSetExecutor.apply with the preimages of the snapshot. *)
Preimages(c) == /\ graph = call[c].files.graph
                /\ evidence = call[c].files.evidence /\ policy = call[c].files.policy

Commit(c) == [token |-> call[c].token, task |-> call[c].task, grant |-> call[c].grant,
              before |-> graph, paths |-> call[c].paths, reqs |-> call[c].reqs]

PostCommit(c) ==
  /\ call[c].pc = "commit" /\ lock = c /\ Supported(c)
  /\ ~(call[c].reqs \subseteq call[c].files.graph.linked) /\ Preimages(c)
  /\ Len(commits) < MaxCommits
  /\ graph' = [graph EXCEPT !.version = @ + 1, !.linked = @ \cup call[c].reqs]
  /\ commits' = Append(commits, Commit(c))
  /\ lock' = None /\ Leaving(c, "revoke")
  /\ UNCHANGED <<clock, evidence, policy, blocked, changes, grants, issued, host>>

(* Mutant: a grant whose commit failed is given back. *)
PostFailsRestoring(c) ==
  /\ call[c].pc = "commit" /\ lock = c
  /\ grants' = [grants EXCEPT ![call[c].token] = call[c].grant]
  /\ lock' = None /\ Leaving(c, "leave")
  /\ UNCHANGED <<clock, files, issued, host, commits>>
(* Mutant: the lock survives a failure. *)
PostFailsLocked(c) ==
  /\ call[c].pc = "commit" /\ lock = c
  /\ Leaving(c, "revoke")
  /\ UNCHANGED <<clock, files, issuer, host, commits>>

(* The commit is refused, fails or is cancelled and rolled back; or there  *)
(* is nothing left to link, and the task is recorded without a change.     *)
PostFails(c) ==
  /\ call[c].pc = "commit" /\ lock = c
  /\ lock' = None /\ Leaving(c, "revoke")
  /\ UNCHANGED <<clock, files, grants, issued, host, commits>>

(* evaluate revokes the token, whatever happened. *)
PostRevoke(c) ==
  /\ call[c].pc = "revoke" /\ lock = None
  /\ grants' = Without(call[c].token) /\ Leaving(c, "leave")
  /\ UNCHANGED <<clock, files, issued, lock, host, commits>>

(* after_task forgets the task and revokes its token once more. *)
Leave(c) ==
  /\ call[c].pc = "leave" /\ lock = None
  /\ grants' = IF call[c].token = None THEN grants ELSE Without(call[c].token)
  /\ tasks' = [tasks EXCEPT ![call[c].task] = None]
  /\ tokens' = [tokens EXCEPT ![call[c].task] = None]
  /\ End(c)
  /\ UNCHANGED <<clock, files, issued, lock, commits>>

(* Process death: grants and tasks are gone, the files are not. *)
Restart ==
  /\ grants' = [k \in Token |-> None] /\ lock' = None
  /\ tasks' = [t \in Task |-> None] /\ tokens' = [t \in Task |-> None]
  /\ call' = [c \in Caller |-> Idle]
  /\ UNCHANGED <<clock, files, issued, commits>>

(***************************************************************************)
(* The rest of the system.                                                 *)
(***************************************************************************)
Tick == /\ clock < MaxClock /\ clock' = clock + 1
        /\ UNCHANGED <<files, issuer, host, call, commits>>
Other == /\ changes < MaxChanges /\ changes' = changes + 1
         /\ UNCHANGED <<clock, issuer, host, call, commits>>
OtherChange == /\ graph' = [graph EXCEPT !.version = @ + 1]
               /\ Other /\ UNCHANGED <<evidence, policy, blocked>>
HandEdit == /\ graph' = [graph EXCEPT !.edits = @ + 1]
            /\ Other /\ UNCHANGED <<evidence, policy, blocked>>
(* Commit and test results of a task are captured, or superseded. *)
Capture(t) == /\ evidence' = [length |-> evidence.length + 1,
                              current |-> IF t \in evidence.current THEN evidence.current \ {t}
                                          ELSE evidence.current \cup {t}]
              /\ Other /\ UNCHANGED <<graph, policy, blocked>>
EditPolicy == /\ policy' = policy + 1
              /\ Other /\ UNCHANGED <<graph, evidence, blocked>>
MoveCase(n) == /\ blocked' = IF n \in blocked THEN blocked \ {n} ELSE blocked \cup {n}
               /\ Other /\ UNCHANGED <<graph, evidence, policy>>

Step(c) ==
  \/ Evaluate(c) \/ EvaluateRefused(c) \/ Authenticate(c) \/ Issue(c) \/ IssueRefused(c)
  \/ ReturnToken(c) \/ PreflightCancelled(c) \/ Keep(c)
  \/ PostSnapshot(c) \/ PostVerify(c) \/ PostConsume(c) \/ PostRejected(c)
  \/ PostCommit(c) \/ PostFails(c) \/ PostRevoke(c) \/ Leave(c)

Start(c) == \E t \in Task :
  \/ BeforeTask(c, t) \/ BeforeMutation(c, t) \/ AbandonTask(c, t)
  \/ \E paths \in SUBSET Path, reqs \in SUBSET Node : AfterTask(c, t, paths, reqs)

Next ==
  \/ \E c \in Caller : Start(c) \/ Step(c)
  \/ Restart \/ Tick \/ OtherChange \/ HandEdit \/ EditPolicy
  \/ \E t \in Task : Capture(t)
  \/ \E n \in Node : MoveCase(n)

Spec == Init /\ [][Next]_vars
(* A call that was started goes on: nothing in it waits for a human. *)
FairSpec == Spec /\ \A c \in Caller : WF_vars(Step(c))

(***************************************************************************)
(* Properties                                                              *)
(***************************************************************************)
GraphType == [version : Nat, edits : Nat, linked : SUBSET Node]
EvidenceType == [length : Nat, current : SUBSET Task]
FilesType == [graph : GraphType, evidence : EvidenceType, policy : Nat, blocked : SUBSET Node]
GrantType == [task : Task, graph : GraphType, expires : Nat]
Pc == {"idle", "envelope", "evaluated", "authenticated", "minted", "returned",
       "submitted", "snapshot", "verified", "commit", "revoke", "leave"}

(* Types of the state. *)
TypeOK ==
  /\ clock \in Nat /\ Files \in FilesType /\ changes \in Nat
  /\ grants \in [Token -> GrantType \cup {None}] /\ issued \in 0 .. MaxTokens
  /\ lock \in Caller \cup {None}
  /\ tasks \in [Task -> Nat \cup {None}] /\ tokens \in [Task -> Token \cup {None}]
  /\ call \in [Caller -> [pc : Pc, task : Task \cup {None}, version : Nat, at : Nat,
                          files : FilesType \cup {None}, token : Token \cup {None},
                          grant : GrantType \cup {None}, paths : SUBSET Path,
                          reqs : SUBSET Node]]
  /\ commits \in Seq([token : Token, task : Task, grant : GrantType, before : GraphType,
                      paths : SUBSET Path, reqs : SUBSET Node])

(* The issuer never holds more grants than it has room for, however calls  *)
(* interleave.                                                             *)
Bounded == Cardinality(Live(grants)) <= MaxLive

(* A finished task changes the graph only with a grant that was issued to  *)
(* it for exactly the graph it changes, within the scope and the           *)
(* requirements that preflight saw; and every grant at most once, although *)
(* snapshot, verification, consumption and commit are separate steps and   *)
(* others change the files between them.                                   *)
CommitAuthorized ==
  /\ \A i \in DOMAIN commits :
       LET x == commits[i] IN
       /\ x.grant.task = x.task /\ x.before = x.grant.graph
       /\ x.paths \subseteq Scope[x.task] /\ x.reqs \subseteq Relevant[x.task]
       /\ grants[x.token] = None
  /\ \A i, j \in DOMAIN commits : commits[i].token = commits[j].token => i = j

(* A token that was consumed, revoked or expired is never good again, also *)
(* when the commit it was consumed for failed.                             *)
NoResurrection ==
  [][\A k \in Token : k <= issued /\ grants[k] = None => grants'[k] = None]_vars

(* No call waits forever for the issuer's lock. *)
EveryCallEnds == \A c \in Caller : call[c].pc # "idle" ~> call[c].pc = "idle"
=============================================================================
