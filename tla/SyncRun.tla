------------------------------- MODULE SyncRun -------------------------------
(***************************************************************************)
(* sync/orchestrator.py: SyncOrchestrator.run for one connector, the       *)
(* Markdown connector of capture/markdown, with the evidence ledger, the   *)
(* checkpoint store, the graph and the case ledger it updates.             *)
(*                                                                         *)
(* Several processes may sync the same project while its files are edited. *)
(* A run reads the checkpoint and the ledger, discovers the changed files, *)
(* fetches each and associates it as evidence, maps the new evidence to    *)
(* the graph, opens cases for the drift it shows, and advances the         *)
(* checkpoint by compare-and-set.  Each store operation is one step:       *)
(* LocalTransaction shows that the local store is atomic.  A file is named *)
(* by its place in the order of locators; a version of it is its content   *)
(* (the connector hashes it), so restoring a content restores a version.   *)
(*                                                                         *)
(* A file may assert an intent node, and a version may declare drift about *)
(* a node: a contradiction between itself and other files, which it names  *)
(* by their "source:" references.  Declarations of the detectors that also *)
(* compare the order of their sides are left out.                          *)
(***************************************************************************)
EXTENDS Integers, Sequences, SequencesExt

CONSTANTS Proc,       \* processes that run a sync
          NFiles,     \* number of Markdown files
          Contents,   \* contents a file can have
          Absent,     \* no such file
          Asserting,  \* files whose front matter asserts an intent node
          Declares,   \* evidence whose front matter declares drift,
          Subject,    \* [Declares -> the file that asserts the node it is about]
          Refers,     \* [Declares -> the files it refers to]
          MaxEdits    \* bound: edits of the files

File == 1 .. NFiles
Evidence == File \X Contents

ASSUME BoundsAssumption == NFiles \in Nat \ {0} /\ MaxEdits \in Nat
ASSUME DriftAssumption ==
  /\ Asserting \subseteq File /\ Declares \subseteq Evidence
  /\ Subject \in [Declares -> File] /\ Refers \in [Declares -> SUBSET File]
  /\ \A e \in Declares : e[1] \notin Refers[e]
ASSUME AbsentAssumption == Absent \notin Contents

VARIABLES
  source,      \* [File -> content and modification time]
  edits,       \* edits made so far; the clock of modification times
  ledger,      \* Seq(Evidence): the connector's evidence ledger
  observedAt,  \* [Evidence -> modification time recorded with it]
  checkpoint,  \* cursor (a manifest of the files), consumed evidence ids, and
               \* commits so far (for committed_at, which differs in each)
  graph,       \* version and intent nodes, each the evidence that asserted it
  cases,       \* Seq(Observation): the case ledger, one fingerprint per case
  batches,     \* history: what each commit of the checkpoint consumed, and what before
  pc,
  prior,       \* [Proc -> checkpoint the run started from]
  manifest,    \* [Proc -> [File -> content]]: what discovery saw
  todo,        \* [Proc -> SUBSET File]: discovered files still to fetch
  raw,         \* [Proc -> fetched evidence and modification time]
  delta,       \* [Proc -> Seq(Evidence)]: evidence to reason about
  base         \* [Proc -> what a graph or case change is based on]

vars == <<source, edits, ledger, observedAt, checkpoint, graph, cases, batches,
          pc, prior, manifest, todo, raw, delta, base>>
files == <<source, edits>>
evidence == <<ledger, observedAt>>
committed == <<checkpoint, batches>>
local == <<prior, manifest, todo, raw, delta, base>>

Manifest == [File -> Contents \cup {Absent}]
NoFiles == [f \in File |-> Absent]
NoCheckpoint == [cursor |-> NoFiles, consumed |-> <<>>, commits |-> 0]
NoRaw == [id |-> <<>>, time |-> 0]
NoBase == [version |-> 0, ledger |-> 0, cases |-> 0]

Init == /\ source \in [File -> [content : Contents \cup {Absent}, time : {0}]]
        /\ edits = 0
        /\ ledger = <<>>
        /\ observedAt = [e \in Evidence |-> 0]
        /\ checkpoint = NoCheckpoint
        /\ graph = [version |-> 0, nodes |-> {}]
        /\ cases = <<>>
        /\ batches = {}
        /\ pc = [p \in Proc |-> "idle"]
        /\ prior = [p \in Proc |-> NoCheckpoint]
        /\ manifest = [p \in Proc |-> NoFiles]
        /\ todo = [p \in Proc |-> {}]
        /\ raw = [p \in Proc |-> NoRaw]
        /\ delta = [p \in Proc |-> <<>>]
        /\ base = [p \in Proc |-> NoBase]

Goto(p, label) == pc' = [pc EXCEPT ![p] = label]

(* The run is over: its local state is gone. *)
Leave(p) == /\ Goto(p, "idle")
            /\ prior' = [prior EXCEPT ![p] = NoCheckpoint]
            /\ manifest' = [manifest EXCEPT ![p] = NoFiles]
            /\ todo' = [todo EXCEPT ![p] = {}]
            /\ raw' = [raw EXCEPT ![p] = NoRaw]
            /\ delta' = [delta EXCEPT ![p] = <<>>]
            /\ base' = [base EXCEPT ![p] = NoBase]

-----------------------------------------------------------------------------
(* A file is written, touched or deleted. *)
Edit == /\ edits < MaxEdits
        /\ \E f \in File, c \in Contents \cup {Absent} :
             source' = [source EXCEPT ![f] = [content |-> c, time |-> edits + 1]]
        /\ edits' = edits + 1
        /\ UNCHANGED <<evidence, committed, graph, cases, pc, local>>

-----------------------------------------------------------------------------
(* Capture.                                                                *)

ReadCheckpoint(p) ==
  /\ pc[p] = "idle"
  /\ prior' = [prior EXCEPT ![p] = checkpoint]
  /\ Goto(p, "ledger")
  /\ UNCHANGED <<files, evidence, committed, graph, cases, manifest, todo, raw, delta, base>>

(* is_exact_consumed_prefix, then the evidence not consumed yet: the ids of *)
(* the ledger are unique, so behind its exact prefix that is the rest.     *)
ReadLedger(p) ==
  /\ pc[p] = "ledger"
  /\ IsPrefix(prior[p].consumed, ledger)
  /\ delta' = [delta EXCEPT ![p] = SubSeq(ledger, Len(prior[p].consumed) + 1, Len(ledger))]
  /\ Goto(p, "discover")
  /\ UNCHANGED <<files, evidence, committed, graph, cases, prior, manifest, todo, raw, base>>

(* "checkpoint consumption association is invalid". *)
ConsumptionInvalid(p) ==
  /\ pc[p] = "ledger"
  /\ ~IsPrefix(prior[p].consumed, ledger)
  /\ Leave(p)
  /\ UNCHANGED <<files, evidence, committed, graph, cases>>

(* Mutant: deleted files are discovered too. *)
DiscoverDeleted(p) ==
  /\ pc[p] = "discover"
  /\ manifest' = [manifest EXCEPT ![p] = [f \in File |-> source[f].content]]
  /\ todo' = [todo EXCEPT ![p] = {f \in File : source[f].content # prior[p].cursor[f]}]
  /\ Goto(p, "fetch")
  /\ UNCHANGED <<files, evidence, committed, graph, cases, prior, raw, delta, base>>

(* MarkdownConnector.discover: the files whose content is not the one of   *)
(* the prior manifest, fetched in the order of their locators.             *)
Discover(p) ==
  /\ pc[p] = "discover"
  /\ manifest' = [manifest EXCEPT ![p] = [f \in File |-> source[f].content]]
  /\ todo' = [todo EXCEPT ![p] =
       {f \in File : source[f].content \notin {Absent, prior[p].cursor[f]}}]
  /\ Goto(p, "fetch")
  /\ UNCHANGED <<files, evidence, committed, graph, cases, prior, raw, delta, base>>

IsFirst(f, fs) == f \in fs /\ \A g \in fs : f <= g

(* MarkdownConnector.fetch: the file must still have the discovered        *)
(* content; the evidence records its current modification time.            *)
Fetch(p) ==
  /\ pc[p] = "fetch"
  /\ \E f \in File :
       /\ IsFirst(f, todo[p]) /\ source[f].content = manifest[p][f]
       /\ raw' = [raw EXCEPT ![p] = [id |-> <<f, source[f].content>>, time |-> source[f].time]]
       /\ todo' = [todo EXCEPT ![p] = @ \ {f}]
  /\ Goto(p, "associate")
  /\ UNCHANGED <<files, evidence, committed, graph, cases, prior, manifest, delta, base>>

(* Mutant: a file that cannot be fetched is skipped. *)
SkipFile(p) ==
  /\ pc[p] = "fetch"
  /\ \E f \in File : IsFirst(f, todo[p]) /\ todo' = [todo EXCEPT ![p] = @ \ {f}]
  /\ UNCHANGED <<files, evidence, committed, graph, cases, pc, prior, manifest, raw, delta, base>>

(* "Markdown object changed before fetch", which fails the run. *)
FetchFails(p) ==
  /\ pc[p] = "fetch"
  /\ \E f \in File : IsFirst(f, todo[p]) /\ source[f].content # manifest[p][f]
  /\ Leave(p)
  /\ UNCHANGED <<files, evidence, committed, graph, cases>>

(* JsonlEvidenceStore.associate: a record with a known id must be the      *)
(* known record, modification time included.                               *)
Conflicting(r) == r.id \in ToSet(ledger) /\ observedAt[r.id] # r.time

(* Mutant: only the run's own view of the ledger is checked for duplicates. *)
AssociateAgain(p) ==
  /\ pc[p] = "associate" /\ ~Conflicting(raw[p])
  /\ LET e == raw[p].id
     IN /\ IF e \in ToSet(prior[p].consumed) \cup ToSet(delta[p])
           THEN UNCHANGED <<evidence, delta>>
           ELSE /\ ledger' = Append(ledger, e)
                /\ observedAt' = [observedAt EXCEPT ![e] = raw[p].time]
                /\ delta' = [delta EXCEPT ![p] = Append(@, e)]
  /\ raw' = [raw EXCEPT ![p] = NoRaw]
  /\ Goto(p, "fetch")
  /\ UNCHANGED <<files, committed, graph, cases, prior, manifest, todo, base>>

Associate(p) ==
  /\ pc[p] = "associate" /\ ~Conflicting(raw[p])
  /\ LET e == raw[p].id
     IN /\ IF e \in ToSet(ledger)
           THEN UNCHANGED evidence
           ELSE /\ ledger' = Append(ledger, e)
                /\ observedAt' = [observedAt EXCEPT ![e] = raw[p].time]
        /\ delta' = [delta EXCEPT ![p] =
             IF e \in ToSet(prior[p].consumed) \cup ToSet(@) THEN @ ELSE Append(@, e)]
  /\ raw' = [raw EXCEPT ![p] = NoRaw]
  /\ Goto(p, "fetch")
  /\ UNCHANGED <<files, committed, graph, cases, prior, manifest, todo, base>>

(* ConflictingEvidenceId fails the connector's run. *)
AssociateFails(p) ==
  /\ pc[p] = "associate" /\ Conflicting(raw[p])
  /\ Leave(p)
  /\ UNCHANGED <<files, evidence, committed, graph, cases>>

-----------------------------------------------------------------------------
(* Reasoning and detection.                                                *)

Subjects == {e[1] : e \in graph.nodes}

(* extract_assertions and map_to_graph: only absent subjects become nodes. *)
Unmapped(p) == {e \in ToSet(delta[p]) : e[1] \in Asserting \ Subjects}
OnePerSubject(es) == \A d, e \in es : d[1] = e[1] => d = e

(* _apply_reasoning: the new evidence is mapped on the graph as it is now. *)
LoadGraph(p) ==
  /\ pc[p] = "fetch" /\ todo[p] = {} /\ OnePerSubject(Unmapped(p))
  /\ base' = [base EXCEPT ![p] = [NoBase EXCEPT !.version = graph.version]]
  /\ Goto(p, IF Unmapped(p) = {} THEN "detect" ELSE "reason")
  /\ UNCHANGED <<files, evidence, committed, graph, cases, prior, manifest, todo, raw, delta>>

(* Two versions of a file whose node is not in the graph yet: the change   *)
(* set would add it twice and is invalid.                                  *)
DuplicateSubject(p) ==
  /\ pc[p] = "fetch" /\ todo[p] = {} /\ ~OnePerSubject(Unmapped(p))
  /\ Leave(p)
  /\ UNCHANGED <<files, evidence, committed, graph, cases>>

(* LocalChangeSetExecutor.apply: a stale baseline version is refused. *)
ApplyReasoning(p) ==
  /\ pc[p] = "reason" /\ graph.version = base[p].version
  /\ graph' = [version |-> graph.version + 1, nodes |-> graph.nodes \cup Unmapped(p)]
  /\ Goto(p, "detect")
  /\ UNCHANGED <<files, evidence, committed, cases, local>>

ReasoningStale(p) ==
  /\ pc[p] = "reason" /\ graph.version # base[p].version
  /\ Leave(p)
  /\ UNCHANGED <<files, evidence, committed, graph, cases>>

(* detect_evidence_drift on the records es of a delta, with the subjects   *)
(* fs in the graph.  A reference must match exactly one record, and only   *)
(* sides that no later record of es supersedes can contradict each other.  *)
Superseded(e, es) == \E i, j \in DOMAIN ledger :
                       i < j /\ ledger[i] = e /\ ledger[j] \in es /\ ledger[j][1] = e[1]
Resolves(e, es) == \A f \in Refers[e] : \E d \in es : {x \in es : x[1] = f} = {d}
Sides(e, es) == {d \in es : (d = e \/ d[1] \in Refers[e]) /\ ~Superseded(d, es)}
Conflict(e, es) == [subject |-> Subject[e], by |-> "conflicting_sources", refs |-> Sides(e, es)]
Conflicts(es, fs) ==
  {Conflict(e, es) : e \in {e \in es \cap Declares :
     Subject[e] \in fs /\ Resolves(e, es) /\ \E c, d \in Sides(e, es) : c # d}}

(* select_drift_observations: one for a subject, by a fixed order. *)
OnePer(obs) == {CHOOSE o \in obs : o.subject = f : f \in {o.subject : o \in obs}}

(* AssuranceService: a node that has no requirement, or whose evidence is  *)
(* superseded in the whole ledger, when its subject has no case.           *)
Gap(e) == [subject |-> e[1], refs |-> {e},
           by |-> IF Superseded(e, ToSet(ledger)) THEN "stale_source_evidence"
                  ELSE "intent_without_requirement"]

Observed(p) ==
  LET declared == OnePer(Conflicts(ToSet(delta[p]), Subjects))
      known == {o.subject : o \in declared \cup ToSet(cases)}
  IN declared \cup {Gap(e) : e \in {e \in graph.nodes : e[1] \notin known}}
(* A known fingerprint is skipped. *)
NewCases(p) == Observed(p) \ ToSet(cases)

(* _combined_snapshot and _apply_detected_cases up to the change set. *)
Detect(p) ==
  /\ pc[p] = "detect"
  /\ base' = [base EXCEPT ![p] = [version |-> graph.version, ledger |-> Len(ledger),
                                  cases |-> Len(cases)]]
  /\ Goto(p, IF NewCases(p) = {} THEN "checkpoint" ELSE "cases")
  /\ UNCHANGED <<files, evidence, committed, graph, cases, prior, manifest, todo, raw, delta>>

(* Each store only grows or bumps its version: equal sizes and versions    *)
(* are equal preimages.                                                    *)
SnapshotCurrent(p) ==
  base[p] = [version |-> graph.version, ledger |-> Len(ledger), cases |-> Len(cases)]

(* Mutant: the change set is applied whatever changed since the snapshot. *)
OpenCasesBlindly(p) ==
  /\ pc[p] = "cases"
  /\ cases' = cases \o SetToSeq(Observed(p))
  /\ graph' = [graph EXCEPT !.version = @ + 1]
  /\ Goto(p, "checkpoint")
  /\ UNCHANGED <<files, evidence, committed, local>>

(* The cases and the graph version are committed in one transaction bound  *)
(* to the preimages of graph, evidence and cases.                          *)
OpenCases(p) ==
  /\ pc[p] = "cases" /\ SnapshotCurrent(p)
  /\ cases' = cases \o SetToSeq(NewCases(p))
  /\ graph' = [graph EXCEPT !.version = @ + 1]
  /\ Goto(p, "checkpoint")
  /\ UNCHANGED <<files, evidence, committed, local>>

(* Mutant: a run whose case transaction failed still counts as successful. *)
DetectionIgnored(p) ==
  /\ pc[p] = "cases" /\ ~SnapshotCurrent(p)
  /\ Goto(p, "checkpoint")
  /\ UNCHANGED <<files, evidence, committed, graph, cases, local>>

DetectionStale(p) ==
  /\ pc[p] = "cases" /\ ~SnapshotCurrent(p)
  /\ Leave(p)
  /\ UNCHANGED <<files, evidence, committed, graph, cases>>

-----------------------------------------------------------------------------
(* The checkpoint.                                                         *)

Advanced(p) == prior[p].commits = 0 \/ manifest[p] # prior[p].cursor \/ delta[p] # <<>>

NextCheckpoint(p) == [cursor |-> manifest[p], consumed |-> prior[p].consumed \o delta[p],
                      commits |-> checkpoint.commits + 1]

Batch(p) == [new |-> ToSet(delta[p]), old |-> ToSet(prior[p].consumed)]

(* Mutant: the checkpoint is overwritten instead of compared and set. *)
OverwriteCheckpoint(p) ==
  /\ pc[p] = "checkpoint" /\ Advanced(p)
  /\ checkpoint' = NextCheckpoint(p) /\ batches' = batches \cup {Batch(p)}
  /\ Leave(p)
  /\ UNCHANGED <<files, evidence, graph, cases>>

(* checkpoint_after_discovery and compare_and_set. *)
AdvanceCheckpoint(p) ==
  /\ pc[p] = "checkpoint" /\ Advanced(p) /\ checkpoint = prior[p]
  /\ checkpoint' = NextCheckpoint(p) /\ batches' = batches \cup {Batch(p)}
  /\ Leave(p)
  /\ UNCHANGED <<files, evidence, graph, cases>>

StaleCheckpoint(p) ==
  /\ pc[p] = "checkpoint" /\ Advanced(p) /\ checkpoint # prior[p]
  /\ Leave(p)
  /\ UNCHANGED <<files, evidence, committed, graph, cases>>

(* The run found nothing new: the checkpoint is not written. *)
NothingNew(p) ==
  /\ pc[p] = "checkpoint" /\ ~Advanced(p)
  /\ Leave(p)
  /\ UNCHANGED <<files, evidence, committed, graph, cases>>

(* The process dies, is cancelled, or any other error ends the run. *)
Abort(p) == /\ pc[p] # "idle"
            /\ Leave(p)
            /\ UNCHANGED <<files, evidence, committed, graph, cases>>

Step(p) == \/ ReadCheckpoint(p) \/ ReadLedger(p) \/ ConsumptionInvalid(p) \/ Discover(p)
           \/ Fetch(p) \/ FetchFails(p) \/ Associate(p) \/ AssociateFails(p)
           \/ LoadGraph(p) \/ DuplicateSubject(p) \/ ApplyReasoning(p) \/ ReasoningStale(p)
           \/ Detect(p) \/ OpenCases(p) \/ DetectionStale(p)
           \/ AdvanceCheckpoint(p) \/ StaleCheckpoint(p) \/ NothingNew(p)

Next == Edit \/ \E p \in Proc : Step(p) \/ Abort(p)

(* Syncs are run again and again, and a run in progress is scheduled. *)
Fairness == \A p \in Proc : WF_vars(Step(p))

Spec == Init /\ [][Next]_vars /\ Fairness

-----------------------------------------------------------------------------
(* Properties                                                              *)

PCs == {"idle", "ledger", "discover", "fetch", "associate", "reason", "detect", "cases",
        "checkpoint"}
Checkpoint == [cursor : Manifest, consumed : Seq(Evidence), commits : Nat]
Base == [version : Nat, ledger : Nat, cases : Nat]
Detectors == {"conflicting_sources", "intent_without_requirement", "stale_source_evidence"}
Observation == [subject : File, by : Detectors, refs : SUBSET Evidence]

(* Types. *)
TypeOK ==
  /\ source \in [File -> [content : Contents \cup {Absent}, time : 0 .. MaxEdits]]
  /\ edits \in 0 .. MaxEdits
  /\ ledger \in Seq(Evidence)
  /\ observedAt \in [Evidence -> 0 .. MaxEdits]
  /\ checkpoint \in Checkpoint
  /\ graph \in [version : Nat, nodes : SUBSET Evidence]
  /\ cases \in Seq(Observation)
  /\ batches \subseteq [new : SUBSET Evidence, old : SUBSET Evidence]
  /\ pc \in [Proc -> PCs]
  /\ prior \in [Proc -> Checkpoint]
  /\ manifest \in [Proc -> Manifest]
  /\ todo \in [Proc -> SUBSET File]
  /\ raw \in [Proc -> [id : Evidence, time : 0 .. MaxEdits] \cup {NoRaw}]
  /\ delta \in [Proc -> Seq(Evidence)]
  /\ base \in [Proc -> Base]

(* The ledger holds each evidence once, so its order gives every evidence  *)
(* one sequence number, however the runs interleave.                       *)
LedgerUnique == IsInjective(ledger)

(* The cursor never runs ahead of the evidence: every file content it      *)
(* claims is in the ledger and consumed, so no edit is skipped by a run    *)
(* that failed part-way.                                                   *)
CursorCovered == \A f \in File : checkpoint.cursor[f] # Absent =>
                   <<f, checkpoint.cursor[f]>> \in ToSet(checkpoint.consumed) \cap ToSet(ledger)

(* What a commit consumes has its cases: when the evidence it consumes     *)
(* together shows a conflict about a subject that this or older evidence   *)
(* asserts, a case about that subject is open whose sides are of this      *)
(* evidence.  A run that dies or loses a race between detection and        *)
(* checkpoint leaves its evidence to be looked at again.                   *)
ConsumedDriftHasCase ==
  \A b \in batches :
    LET asserted == {e[1] : e \in b.new \cup b.old} \cap Asserting
    IN \A o \in Conflicts(b.new, asserted) :
         \E k \in ToSet(cases) : k.subject = o.subject /\ k.by = o.by /\ k.refs \subseteq b.new

(* Runs that observe the same drift concurrently open one case for it. *)
OneCasePerFingerprint == IsInjective(cases)

(* A run never undoes what another run consumed. *)
ConsumptionGrows == [][IsPrefix(checkpoint.consumed, checkpoint'.consumed)]_checkpoint

(* Consumption is exactly an ordered prefix of the connector's ledger, as  *)
(* every run demands of the checkpoint it starts from.                     *)
ConsumptionIsPrefix == IsPrefix(checkpoint.consumed, ledger)

(* A run dies or is cancelled where its code would have gone on. *)
Killed == \E p \in Proc : Abort(p) /\ ~Step(p)

(* Unless runs are killed forever, evidence that a failed run left in the  *)
(* ledger is replayed and consumed by a later one, whatever has become of  *)
(* the file it came from.                                                  *)
EventuallyConsumed ==
  \/ []<><<Killed>>_vars
  \/ \A e \in Evidence : e \in ToSet(ledger) ~> e \in ToSet(checkpoint.consumed)
=============================================================================
