# Intent Engineering: a TLA+ verification project

This directory models the parts of `src/intent_engineering` whose correctness depends on the order in
which things happen: the local store and its crash recovery, the execution of approved external
writes, the synchronisation of a project with its sources, the human decisions of the control
plane, the clarification of prompts into confirmed changes of the graph, the capabilities that
authorize an implementation, the strict atomic write, and the life of the local server. TLC checks
the models on small instances; TLAPS proves the main safety results for every instance.

Run a model with `tlc -config LocalTransaction_atomic.cfg MCLocalTransaction` and check proofs with
`tlapm LocalTransaction_proofs.tla`. `PROJECT.json` lists components, runs, mutants, the map from
definitions to source lines, findings, hazards and theorems.

## 1. The system

Intent Engineering keeps a project's intent in a `.intent` directory: a YAML graph, and JSONL ledgers
of evidence, history, reconciliation cases, write plans, approvals, receipts, proposals and WebAuthn
records. Command-line processes, an MCP server and a local control plane open the same directory
concurrently; there is no daemon that serialises them. What coordinates them is file locks, a journal,
compare-and-set, and append-only ledgers.

| Component | State | Operations | Interacts through | Hard behaviour |
| --- | --- | --- | --- | --- |
| Local transactions (`storage/transaction.py`, `_atomic.py`, `secure.py`) | canonical files, journal, lock files | `transaction`, `coordinated`, `snapshot`, `recover` | every store | crashes between file writes, lock order, nested failures, errors after commit |
| Strict atomic write (`storage/secure.py`) | one directory | `atomic_write(reject_target_races=True)` | configuration, policy, locator, drift report | other programs that replace the target, cancellation and errors in the middle of a rollback |
| Stores (`storage/jsonl`, `storage/yaml`) | one file each | put, associate, claim, complete, compare-and-set | coordinator or own lock | torn appends, stores outside the lock protocol |
| External writes (`mutations`, `cli/writes.py`) | plan, approval and receipt ledgers | preview, approve, execute | MCP provider, case ledger, graph | ambiguous provider outcomes, retries, competing plans |
| Synchronisation (`sync`, `capture/markdown`) | checkpoint, evidence ledger | `run` | connectors, reasoner, detectors, graph, cases | concurrent runs, files that change, death between steps |
| Graph application (`core/graph`, `storage/executor.py`) | graph version and contents, history | apply | local transactions | stale baselines |
| Drift detection (`reconcile/detectors.py`, `evidence_detection.py`) | none | detect | sync | ordering of evidence |
| Case lifecycle (`reconcile/service.py`, `local_resolution.py`) | case ledger | transition, resolve | graph, writes | a local resolution racing an external write |
| WebAuthn authority (`control_plane/webauthn_*`) | credentials, challenges | issue, register, verify | control plane | single use, counters, expiry |
| Control plane (`control_plane/service.py`, `web.py`) | pending answers | preview, decide | WebAuthn, proposals, cases, plans | payloads that change between preview and decision |
| Proposals and clarification (`intent_workflow/clarification.py`, `proposal_store.py`, `bootstrap.py`, `conversation.py`) | conversation evidence, proposal ledger, review cases | route, classify, open, answer, propose, confirm, activate | graph, cases, MCP server, control plane | one ledger for several sessions, agents and humans; authority that changes under a session |
| Authorization (`intent_workflow/authorization.py`, `preflight.py`, `post_task.py`) | grants in memory, tasks of the host adapter | preflight, issue, verify, consume, revoke | graph, evidence, agent hosts | a check and its use in different calls, expiry, capacity, locks held across a commit |
| Local server (`cli/dev.py`) | lease, locator, configuration | `intent dev`, `--prd`, `--status`, `sources add` | control plane, secure files | dead servers, pids and ports used again, two writers of the configuration |
| Capture (`capture/github`, `mcp`, `git`) | generation state, rate limits | discover, fetch, finalize | sync | pagination, partial failure |
| MCP server, agent hosts, other commands | none of their own | front ends | all of the above | |
| Extraction, context, validation, policy, rendering | none | pure functions | a snapshot | |

What makes each part correct:

* local transactions: all or nothing at every instant, durable once acknowledged, no deadlock;
* external writes: at most one provider call per approval, receipts that tell the truth, one resolution
  per case;
* synchronisation: no file the cursor has passed is lost, a conflict in consumed evidence has its case,
  one case per fingerprint, progress by retries;
* human decisions: a signature is used once, for the content that was shown, on the state of the project
  it was shown for, and is not burnt by a request that fails;
* intent workflow: the proposal ledger always decodes; a decision and the change it decided are one; an
  answer is what a person said; a risky change is reviewed by somebody independent;
* authorization: a grant is used once, for the task, paths and graph it was made for, and no call
  waits forever;
* strict write: the target is never a half-written file, and a failure that is reported as plain has
  been undone;
* local server: a server that serves can be found, "not running" is true when it is said, no command
  undoes what another configured, and none waits forever.

## 2. Modules

| Module | Models | Uses |
| --- | --- | --- |
| `AtomicStore` | what the local store promises | |
| `LocalTransaction` | `storage/transaction.py` with `_atomic.py` and the file operations of `secure.py` | refines `AtomicStore` |
| `LocalTransaction_proofs` | theorems, the refinement of `AtomicStore` among them | `LocalTransaction`, `AtomicStore` |
| `WriteExecution` | `mutations/*`, `receipt_store.py`, `cli/writes.py` | |
| `WriteExecution_proofs` | theorems | `WriteExecution` |
| `SyncRun` | `sync/orchestrator.py`, the Markdown connector, checkpoints, `associate` | |
| `ControlPlane` | `control_plane/service.py`, `webauthn_service.py`, `webauthn_store.py` | |
| `ControlPlane_proofs` | theorems | `ControlPlane` |
| `SyncRun_proofs` | theorems | `SyncRun` |
| `IntentLedger` | `proposal_store.py`: the ledger and what its reader accepts | |
| `Clarification` | `clarification.py`, `bootstrap.py`, `conversation.py`, and the MCP tools and hooks that call them | `IntentLedger` |
| `Clarification_proofs` | theorems | `Clarification` |
| `Authorization` | `authorization.py`, `preflight.py`, `post_task.py`, `agent_host/base.py` | |
| `Authorization_proofs` | theorems | `Authorization` |
| `StrictWrite` | the strict atomic write of `secure.py` | |
| `StrictWrite_proofs` | theorems | `StrictWrite` |
| `DevServer` | `cli/dev.py`, `cli/intent_workflow.py` (`sources add`) | |
| `DevServer_proofs` | theorems | `DevServer` |
| `MC...` | instances for TLC | the module of that name |

The modules are layered by atomicity. `LocalTransaction` shows that a transaction or a coordinated
append is one atomic step for everybody else; `WriteExecution`, `SyncRun`, `ControlPlane`,
`Clarification` and `Authorization` take each such operation as one action. `StrictWrite` does the same
for the files outside the journal: `DevServer` takes the write of the configuration as one step, and
lets that of the locator fail in every way `StrictWrite` shows to be possible. Definitions called "Mutant" in a comment are faulty variants of the definition that
follows, used only to show that a property can fail.

### LocalTransaction

A file is the set of records in it, each record named by the operation that wrote it, plus possibly a
torn one; that is enough to tell "all", "none" and "some" of an operation apart. The journal is a state
(`none`, `prepared`, `committed`) and preimages, and is replaced atomically, as
`SecureFile.atomic_write` does by rename. A process takes the journal lock and every target lock in the
order of `(device, inode, name)`, recovers a journal it finds, and then runs one of the operations:
`Prepare`/`WriteTarget`/`CommitJournal`/`UnlinkJournal` for a transaction, `CoordinatedAppend` for a
store write inside `coordinated()`, `ReadSnapshot`, or, for a store that takes its own lock only,
`LockStore`/`PutAlone`. `NestedFailure` is a nested scope whose exception the body swallows.
`BodyFails` is any error before the commit point, a torn append included; `Abandon` is the death of the
process anywhere, and also a `BaseException` without `rollback_base_exceptions` and an error during
recovery or rollback, which leave the disk as it is in the same way. The constant `Faults` adds errors after the commit point
and torn appends outside a transaction; `Kinds` says which operations occur.

Not modelled: read-only extras and their budgets, journals that name a legacy subset of the targets,
and the content checks of a journal.

### WriteExecution

The provider object is the sequence of contents it went through; its length is its version. One case is
contended for by several plans and approvals. `StartExecute` is the validation with the clock read
once; `Claim` the durable claim; then refetch, mutation, verification and the success commit, with
every failure receipt the code writes. The provider is external: it may apply a mutation late or never,
at any version, and may report any version. A process may die at every step. Roles, aliases, hashes
and argument binding are not modelled: they decide whether a plan or approval is accepted, and the
model's ledgers hold accepted ones only.

### SyncRun

Several processes sync the same files with one connector. `source` gives each file's content and
modification time, `Edit` changes, touches, deletes or restores one. The steps are the store operations
of `SyncOrchestrator.run` in their order: checkpoint, ledger, discovery, then fetch and associate for
each file, graph, cases, checkpoint by compare-and-set. A version of a file is its content, because the
connector hashes it, and an evidence id is file and content, but the record also holds the modification
time, and that is what `Conflicting` compares. Discovery reads all files at one instant; a file that
changes while discovery walks the tree is covered by the check at fetch.
`commits` stands for `committed_at`, which makes every checkpoint different. `todo` is the set of
files still to fetch, taken in the order of their locators; the evidence not consumed yet is the rest of
the ledger behind the consumed prefix, which is the same as a search by id because ids are unique.

What files say is given by constants: the files that assert a node (`Asserting`), and the versions that
declare a contradiction (`Declares`) with the node it is about and the files they refer to (each a side
of its own, by an author of its own). What the code makes of it depends on the state. A node is added
only when its subject is absent (`Unmapped`), and two versions of an asserting file in one delta are an
invalid change set (`DuplicateSubject`). A declaration counts when its subject is in the graph, each of
its references matches exactly one record of the delta (`Resolves`) and two of its sides are not
superseded there (`Conflicts`); one observation for a subject is kept (`OnePer`); a node without a case
gives an observation of the assurance service (`Gap`). An `Observation` is what the fingerprint hashes.
`OnePer` chooses by a fixed order as the code does, but not by the order of hashes. Left out are the
detectors that compare the order of their sides, edges between nodes, and access rules.

`batches` is a history of what each commit consumed together. `ConsumedDriftHasCase` asks that the
conflicts which this evidence shows together have cases. It does not say that every declaration leads to a
case, which is not so: a declaration whose run failed is looked at again with what the retry captured,
and when the file it refers to has been edited meanwhile, the reference is ambiguous and the declaration
is consumed without a case, as is one whose references were consumed before it.

### ControlPlane

Several servers work on one project; each takes one request at a time and works through its steps
(`pc`): `_authority()` captures the parent state (`Capture`), the material is read from the live files
(`ComputePreview`, `CheckOptions`), the parent is compared again (`ShowPreview`, `MatchOptions`), a
challenge is issued (`IssueChallenge`, `IssueEnrolment`), or one transaction verifies and applies
(`Register`, `ApplyDecision`). Between any two steps another server, the command line or an editor may
change the files (`Edit`), also back to an earlier content, the clock may pass an expiry, and the
request may fail (`Fail`) or its server be restarted.

Digests stand for what they hash: the payload of a preview holds the parent state and the material
shown. The parent is every canonical and authority file but the challenge ledger; the number of
decisions stands for the contents of the ledgers a decision appends to, since they only grow. `Config` is
the contents of the authority files, of which `Settings` gives `config.yaml`, the only one a server
compares with what it started from. Material is read in one step: a mixture of two contents of the files
would differ from every content read under the transaction's locks and be refused there. The payload a
browser presents is one that was shown to it. A response names the challenge it answers, may be
delivered to any server any number of times, and carries any counter, because authenticators are
restored and copied. What a decision writes is one effect: its subject is closed (a plan stays open: it
may be approved again) and the decision recorded.
`Edit` changes contents and closes subjects but never shortens a ledger: somebody who restores an old
ledger by hand also restores what it had not yet decided.

Not modelled: `onboard_preview`, the texts of `status` and `inbox`, the HTTP layer, and the cryptography of
WebAuthn (a response cannot be forged).

### IntentLedger and Clarification

`IntentLedger` is the chronology of `proposal_store.py` as operators: the transition rules of
a session (`_valid_clarification_transition`) and the frame-by-frame reader (`Decodable`), with the
conditions across frames: a `proposed` event and its proposal are adjacent, a decision and the `closed`
event belong together, no proposal or decision occurs twice. Digests of contents are the contents
themselves; a session, an event and a conversation turn are identified by their place.

`Clarification` is everything that writes that ledger. `RoutePrompt` is the hook that records a prompt,
`AdvisoryPreflight` the agent's classification of it with what follows from it, `ClarificationOpen`,
`Answer`, `AnswerEvidence` and `Propose` the MCP tools, `Confirm` and `RequireReview` the confirmation
service, and the `Boot...` actions the bootstrap service, whose calls read the ledger twice before
their transaction and are split there. Every operation decodes the whole ledger first (`Sound`) and
compares the authority files with those its process loaded (`Authentic`). Refused calls change nothing
and are no steps. `MoveCase`, `OtherChange`, `EditAuthority` and `LoadAuthority` are the rest of the
project. `Propose`, `Confirm` and the bootstrap append their frames without the reader's checks, which is
why `LedgerDecodes` says something.

Worth knowing, and visible in the model: when a second prompt of a session is recorded before the
first one is classified, the first can never be classified any more (`NextInConnector`); a change of the graph, or
a contradicted answer, leaves an open session that can neither be proposed nor closed, and while
it is open no prompt of another codex session is routed.

### Authorization

One server with several concurrent calls; each is a record that goes through its steps (`pc`), and
everything in the process but the files is lost at `Restart`. A preflight reads the files, compares them
again and issues a grant; `before_task` keeps task and token; `before_mutation` verifies; `after_task`
submits the result, which is verified, consumed and committed in three steps. `consume` holds the
issuer's lock while the commit runs, so `lock` is a variable and every operation of the issuer waits
for it. The files are records that count what happened to them, with a hand edit of the graph (same
version, other contents) apart from a change by the program. Other processes change each file at any
point. A token is the number of its issue.

The lock order is the issuer's lock before the file locks. `consume` compares the expiry with a time taken
before any lock, so a commit that waits for the files can be applied after its grant expired; no
property claims otherwise. A case opened between the two looks of the preflight is not noticed by it. A
call of `after_task` whose result is malformed, and a `before_task` refused for lack of room, leave
their grant live until it expires.

### StrictWrite

A directory maps names to inodes. Writers use `target` and names of their own (`tmp`, and the
quarantine names of the rollback); other programs replace the target by rename, remove it or make a hard
link to it. One step is one directory operation or one look at the directory (`_entry_is_safe`). `Cancel`
strikes at the stages at which `_strict_fault` stands and before the installation; I/O errors may also
strike between the truncation and the sync of a scrub, in the rollback, and at the close of a
descriptor. Others do not write into an inode that is in place: the code identifies a file by inode and
size and cannot see that.

### DevServer

A command is one operating-system process with a pid, a birth time and perhaps a port, all of which are
used again. `Look`, `ProbeProcess`, `ProbeInstance` and `ProbeStatus` are the authentication of the
locator, without the lease and again with it, one step for each look at the process and each request;
`ReportServer` is the message after it, when the server may be gone, so nothing is claimed of a server
that is named. `TryLease` and `Wait` are the wait for a starting server; `Stale`, `KeepConfig`,
`Configure`, `Load`, `Listen` and `Publish` the start; `Stop`, `StopHangs` and `RemoveLocator` the end.
`Kill` strikes anywhere. `Publish` may fail with the locator absent, present or unreadable. `Snapshot` and
`AddRole` are `intent sources add`. The configuration maps a source (connector and scope) to its role: both
writers add the role of a source or replace it (`Updated`), and write nothing when it is there already.
A thread that hangs after its command gave the lease back (`StopHangs`) may still answer; "serving" means
a command before its shutdown.

## 3. Runs

| Run | Checks | Bounds and why they are enough |
| --- | --- | --- |
| `transaction_atomic` | `TypeOK`, `AllOrNothing`, `ImplementsAtomicStore` | 2 processes, 2 files, 2 operations each: a crash, a recovery by the other process that crashes too, and a further operation on top |
| `transaction_faults` | `AckedDurable`, `EveryOperationEnds` | 2 processes, 2 files, 1 operation each, every kind and fault; liveness without symmetry |
| `writes` | `TypeOK`, `AtMostOneCall`, `RejectedUntouched`, `SuccessWasVerified`, `OneResolution` | 2 processes, 2 plans, 2 approvals, 3 versions: two approvals of one plan or of competing plans, one foreign edit and one mutation |
| `sync` | `TypeOK`, `LedgerUnique`, `CursorCovered`, `ConsumedDriftHasCase`, `OneCasePerFingerprint`, `ConsumptionGrows` | 2 processes, 3 files in every initial state, 2 contents, 1 edit; one file asserts a node, one of its versions contradicts the third file and a version of the second file contradicts it: one conflict, two about one subject, a reference that becomes ambiguous or is superseded; runs without limit |
| `sync_prefix` | violates `ConsumptionIsPrefix` | 2 processes, 2 files, 1 edit; nothing is declared |
| `decisions` | `OneDecisionPerState`, `ConsumedWithEffect`, `CountersIncrease`, `DecidedOnce`, `AppliedAsShown` | 2 servers, a case and a plan, 2 nonces, 2 contents and 2 edits (a change and a change back), counters 0 and 1: two decisions in flight, each of which may see the other's effect |
| `answers` | `TypeOK`, `ConsumedWithEffect` | 2 servers, 1 question, 1 held answer per server, 2 authenticators of which one enrols, 2 authority contents, a clock of 2 and a lifetime of 2, so that an answer, a preview and a challenge expire at different moments |
| `clarification` | `LedgerDecodes`, `DecidedApplied`, `AnswersGrounded`, `AdvisoryExclusive`, `ReviewedIndependently` | 2 people, 2 prompts of one session (one recorded by the host), 6 turns, 2 sessions, 1 bootstrap proposal, a low-risk and a risky content, two edits of the authority files: two sessions interleave up to a confirmation or a review, under a policy that first makes the reviewer dependent and then revokes him |
| `bootstrap_race` | violates `LedgerDecodes` | 2 clients that submit the same bootstrap proposal |
| `authorization` | `TypeOK`, `Bounded`, `CommitAuthorized`, `NoResurrection`, `EveryCallEnds` | 2 concurrent calls, 1 task, 2 tokens, room for 1 grant, lifetime 1, 1 change by others, 1 commit: a second grant while the first is used, expires or is evicted; the bounds keep the liveness check feasible and the proofs remove them for safety |
| `strict_write` | `TargetComplete`, `FailedClean`, `CancelledClean` | 2 writers, 2 foreign files, 2 faults and 2 edits: a fault in the rollback of a fault, and a race on top of either |
| `dev` | `Locatable`, `NotRunningTrue`, `RolesKept`, `EveryCommandEnds` | 3 commands of different kinds, 2 pids, 1 birth time, 2 ports: a pid and a port of a dead server belong to another command; roles that are added, replaced and there already |

`CHECK_DEADLOCK FALSE` is used where processes may have used up their operations, plans, approvals,
nonces, turns or writes, or have ended.
`SyncRun` and `Authorization` never stop and are checked for deadlock. Symmetry is used for safety only.

Further configurations are kept that document behaviour of the code outside these runs. TLC reports
the violation described when they are run by hand:

| Configuration | Property | What it shows |
| --- | --- | --- |
| `LocalTransaction_postcommit.cfg` | `AllOrNothing` | An error of the journal's unlink, or of the directory sync after its commit, makes `transaction()` restore the preimages although the journal on disk says `committed`. A crash during that restore leaves some files new and some old, and recovery deletes the journal. |
| `LocalTransaction_approvals.cfg` | `ApprovalsKept` | The approval ledger is a target of the coordinator but is written under its own lock only. An approval acknowledged while a dead transaction's journal is still there is undone by the recovery. |
| `LocalTransaction_torn.cfg` | `NoTornRecord` | An append outside a transaction can leave part of a line, after which the ledger cannot be read. It fails closed but does not heal. |
| `SyncRun_replay.cfg` | `EventuallyConsumed` | If a run dies after associating a record and the file is touched or restored, every retry fails with `ConflictingEvidenceId`. If the file asserts a new node and is edited before the retry, the retry finds two versions, its change set adds the node twice, and so it is with every later one. |
| `Clarification_browser.cfg` | `PreviewKept` | The control plane records answers through the connector `conversation:agent`, sessions are opened in `conversation:codex`: `answer` refuses what `preview_answer` accepted, because the answer does not follow the question in its own connector. |

Fairness. `LocalTransaction` and `SyncRun` assume weak fairness of a process's own next step: an
operation that started is scheduled, a blocking `flock` returns once the lock is free, and syncs are run
again (the scheduled job of the docs). Nothing is assumed of failures: `EveryOperationEnds` holds
without assuming that crashes stop, and `EventuallyConsumed` is claimed only for behaviours in which
runs are not killed for ever. `Authorization` and `DevServer` assume weak fairness of the next step of
each call or process that was started; nobody has to start one, and nothing is assumed of restarts, kills
or the clock. A flock is not waited for in `DevServer` (it is tried), and the issuer's lock is
released by a step that fairness covers. `WriteExecution`, `ControlPlane`, `Clarification` and
`StrictWrite` have no fairness: an incomplete claim waits for manual recovery by design, a human need
not decide or answer, and a strict write is a finite sequence of steps.

## 4. Findings

* **Checkpoint that is not a prefix** (`sync_prefix`). A run that read the ledger before another run
  extended it can commit a checkpoint that skips the other run's evidence; every later run refuses it.
* **Bootstrap proposal stored twice** (`bootstrap_race`). `_propose` searches the ledger and takes its
  preimage in two reads. When an identical submission commits between them, the comparison in the
  transaction succeeds and the proposal is appended again; the reader then refuses the whole ledger.

The configurations of the table above show further limits of the code.

## 5. Proofs

All theorems are for arbitrary constants under the named assumptions of the modules (positive bounds,
an injective lock order, sentinels that are not values; in `DevServer` also that "no locator" and
"unreadable locator" are no locators, and that the words of a report are no commands).

* `LocalTransaction_proofs`. `TypeCorrect`; `AckedDurableCorrect`. `AckedDurable` is not inductive: it
  needs to know that a process past the locking phase holds every lock (so that only one is), that
  the journal can be prepared while nobody is in a transaction only with preimages that already hold every
  acknowledged record, and that the in-memory preimages of a running transaction hold them too.
  `AllOrNothingCorrect` and `Refinement` are for instances without errors after the commit point, torn
  appends outside transactions and stores outside the protocol, which are the cases the further configurations of section 3 refute. The refinement mapping takes the store to be what recovery would leave behind
  (`Logical`): the preimages while the journal is prepared, the files otherwise. The commit of an
  operation is then the single step that replaces the journal.
* `WriteExecution_proofs`. `TypeCorrect`, `AtMostOneCallCorrect`, `RejectedUntouchedCorrect`,
  `SuccessWasVerifiedCorrect`, `OneResolutionCorrect`. The invariant says that an executing process
  past its claim is the only one with its approval, that nothing was called for an approval that is
  unclaimed or still to be called, and that the verified version stays in the object's history.
* `ControlPlane_proofs`. `TypeCorrect` and the five safety properties, for any number of servers,
  subjects, nonces and authenticators. `TypeInv` adds what each step of a request knows (`JobState`) and
  that the held answers are finite. `DecisionInv` adds `History`, which says of the i-th decision that its payload was
  previewed when there were i - 1 decisions, that its challenge is spent, its subject closed and its
  counter in the credential ledger; and `NoneBurnt`: every spent challenge belongs to a decision.
  `OneDecisionPerState` follows because equal parents have equal numbers of decisions, `CountersIncrease`
  because a counter is accepted only above all of the ledger, `DecidedOnce` because a closed subject
  never opens again.

* `SyncRun_proofs`. `TypeCorrect` and the five safety properties of `sync`, for any number of
  processes, files and contents. None is inductive: a checkpoint is written from what a run captured
  many steps earlier. `SyncInv` says of a checkpoint that it is `Covered` (its cursor was consumed, the
  consumed is in the ledger, what it asserts is in the graph), of the stored one and of the one each run started
  from, and of each run what it has `Captured`: every file of its manifest is still to fetch, in its
  hands, or seen; from detection on the graph holds what its evidence asserts, and at the checkpoint
  the conflicts of its evidence are `Cased`. What a batch shows does not change later (`CasedStays`),
  because evidence that other runs append is not in it and supersedes nothing in it. Because ledgers only grow, a step of one
  run keeps all of that for the others (`OthersKeep`), and each action has to establish it for its own
  run only. Note that `ConsumptionIsPrefix`, which `sync_prefix` refutes, is not needed.
* `Authorization_proofs`. `TypeCorrect`, `NoResurrectionCorrect`, `BoundedCorrect` and
  `CommitAuthorizedCorrect`, for any number of calls, tasks and tokens. `TypeInv` adds what each step of
  a call knows, above all that a call in its commit holds the lock. `CommitAuthorized` needs two more
  facts: that the token of every live grant and every commit was issued before (`KnownTokens`), so
  that a new one is fresh;
  and that a call in its commit holds a grant that matches its files and that nobody else can use any
  more (`Consumed`).

* `StrictWrite_proofs`. `TypeCorrect`, `TargetCompleteCorrect`, `FailedCleanCorrect` and
  `CancelledCleanCorrect`, for any number of concurrent writes, foreign files, faults and edits. The
  invariant has four parts. `Struct`: an inode has at most one name besides the hard link that others
  keep (renames and exchanges move names and never copy them), which turns every count of links into a
  question about that one link, so that nothing has to be finite. `Own`: what is under the private names of a write at each
  of its steps, whatever others do. `Undisturbed`: what a write that was not raced and met no
  I/O error finds under the shared names as well; this is what makes a rollback provable after a
  cancellation. Last, while no write is in doubt there is a set of complete inodes (`Restorable`) that
  contains the target and is closed under "what a member displaced and may put back". The target alone
  is not inductive: a rollback puts back an inode that has not been the target for many steps,
  possibly the file of a writer that is itself rolled back. A lemma for each action shows what it does to its
  own write; what it does to the others is shown once (`OthersOwn`, `OthersUndisturbed`,
  `KeepRestorable`).
* `DevServer_proofs`. `TypeCorrect`, `LocatableCorrect`, `OneServerCorrect`,
  `NotRunningTrueCorrect` and `RolesKeptCorrect`, for any number of commands, pids, birth times and ports. The invariant says
  that a command holds the lease from its recheck of the locator to the removal of its own (`Holding`),
  and that the locator of a serving command is its own. `OneServer` is stated only here: it is what
  `Locatable` needs, and holds although a server thread that hangs keeps listening after its command is gone.

* `Clarification_proofs`. `TypeCorrect`, `DecidedAppliedCorrect`, `AnswersGroundedCorrect`,
  `AdvisoryExclusiveCorrect`, the action property `ReviewedIndependentlyCorrect`, and
  `LedgerDecodesCorrect`, for any number of people, prompts, sessions, policies and bootstrap clients.
  None of the invariants is inductive, because the ledger states each fact in several frames and every
  operation trusts the latest of them. `Inv` adds, next to the types:
  * `Coherent`: the latest event of a session (the only one that operations look at) carries its status,
    its proposal and its decision; they are in the ledger as frames, and no frame of a
    proposal or decision is there without them; sessions whose opening material is equal are one;
  * `HistoryAgrees`: the i-th changeset and the decision of the proposal made at version i - 1 are the
    same, and a risky one has its review case resolved. That only one decision can be made per version
    follows from it, and so does that nothing is applied twice;
  * `CallsFine`: a bootstrap call between two of its reads proposes and decides for no session;
  * `EvidenceFine`: no turn is recorded twice; every answer of a session is a turn of its own; and all
    material of a session that an advisory hook opened is in the turns that follow its prompt;
  * `HostsDiffer`: of the sessions under way that advisory hooks opened, no two are of one codex session.

  `LedgerDecodes` needs more: the operations that append without the reader's checks must establish what the
  checks would have asked for. `DecodesInv` adds that a proposal a bootstrap call did not find in the
  ledger is still not there when the call appends it. That takes the hypothesis `OneProposer` (one process
  proposes bootstrap intent; any number activates it); without it the theorem is false, as
  `bootstrap_race` shows. Both invariants were first checked by TLC on the instance of `clarification`.
  A lemma for each operation shows what it writes (`OpenStep`, `AnswerStep`, `ProposeFacts`,
  `ConfirmFacts`, `BootApplyFacts`), and the lemmas about one more frame of the ledger (`Grown...`,
  `Coherent...`) show what that does to everybody else's sessions.

Two details of the model carry these proofs. A turn that is recorded again changes nothing (`Record`,
and `Recorded` for the questions of a session), which is what keeps turns distinct. And the identifiers of the questions of one opening differ
(`clarification.py:548`), which `ClarificationAssumption` states; it also states that an agent asks
at least one question and that `None` is no proposal and no decision.

Model-checked only: liveness, which is out of the prover's reach (`EveryOperationEnds`,
`EveryCallEnds`, `EveryCommandEnds`). Every safety property of a passing run is stated by a theorem,
`LedgerDecodes` under the hypothesis above. `ConsumptionIsPrefix` and the properties
of the further configurations are violated and have none. That the values the bounds of a configuration cut off
(lengths of ledgers, numbers of edits) do not matter is shown by the theorems only, which hold for every
bound.

## 6. Not modelled, and the plan

1. A sync of several connectors with partial failure and the generation lifecycle of the GitHub and MCP
   connectors. `SyncRun` has one connector; a second one shares graph, cases and the detection step.
   That model has to include the conditional requests of `capture/github/client.py` (`get_pages`), where
   the ETag of an endpoint's first page stands for all of its pages.
2. Case lifecycle (the transition relation of `reconcile/service.py` and its approvals); the structural
   rules of a `ChangeSet`; the order rules of drift detection as operators checked against a reference
   definition. Today the cases appear where they are opened, block or are resolved, and only declared conflicts
   and the gaps of a node are detected.
3. Local transactions with read-only extras, legacy journals and history; the legacy migration of the stores.
4. `onboard_preview` and the status views of the control plane.

Left out for good: argument parsing, rendering, HTTP and process transport, and the pure functions of
extraction, context, validation and policy, which have no state of their own.
