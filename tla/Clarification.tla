---------------------------- MODULE Clarification ----------------------------
(***************************************************************************)
(* intent_workflow/clarification.py, bootstrap.py and conversation.py, and *)
(* the integrations that call them: how a prompt becomes a clarification   *)
(* session, its answers a proposal, and a confirmed proposal a change of   *)
(* the graph.                                                              *)
(*                                                                         *)
(* Processes share the project's files.  An operation of the coordinator   *)
(* or of the confirmation service is one transaction that checks the       *)
(* authority files it was built with (LocalTransaction shows that it is    *)
(* atomic and that one which fails leaves no trace), so it is one step; a  *)
(* bootstrap proposal reads the files before its transaction and takes     *)
(* several.  A refused call changes nothing and is not a step.             *)
(***************************************************************************)
EXTENDS IntentLedger

CONSTANTS Actor,        \* people: local actors of the project
          Conv,         \* codex conversation references: one per submitted prompt
          HostOf,       \* [Conv -> codex session]
          SlotOf,       \* [Conv -> turn within that session]
          HostConv,     \* those whose turns the host itself records
          Asked,        \* lists of questions an agent may ask: [id, required]
          Reply,        \* texts of answers
          Content,      \* what a proposal changes: [added, reasons, against]
          BootContent,  \* the same for bootstrap proposals
          Authority,    \* configuration and policy: [local, contributors, approvers, alias]
          AnswerConnector, \* connector of the coordinator that records answers
          Client,       \* processes that run the bootstrap service
          Proposer,     \* those of them that propose
          Time,         \* timestamps callers supply
          StartTime,    \* those of prompts, openings, host turns and bootstrap calls
          Edit,         \* edits of the authority files: pairs of Authority
          EditFrom,     \* bound: the length of the ledger from which they happen
          MaxTurns, MaxSessions,  \* bounds: turns recorded, sessions opened
          MaxBoot,      \* bound: bootstrap proposals
          OtherAt       \* bound: the versions at which others change the graph

Agent == "agent:codex"
Codex == "conversation:codex"

QuestionId == UNION {{asked[k].id : k \in DOMAIN asked} : asked \in Asked}
(* TaskEnvelope, IntentProposal (of a bootstrap: session 0) and             *)
(* ProposalDecision, which is also what a changeset of a decision holds.    *)
Task == [actor : Actor \cup {Agent}, conv : Conv, request : Nat, version : Nat]
Proposal == [session : Nat, task : Task \cup {None}, by : Actor, at : Nat, baseline : Nat,
             content : Content \cup BootContent, evidence : SUBSET Nat]
Decision == [proposal : Proposal, actor : Actor, at : Nat,
             selected : SUBSET UNION {c.added : c \in Content \cup BootContent},
             reviewed : BOOLEAN]

ASSUME ClarificationAssumption ==
  /\ Agent \notin Actor /\ Proposer \subseteq Client
  /\ None \notin Proposal \cup Decision
  /\ Asked \subseteq Seq([id : QuestionId, required : BOOLEAN]) \ {<<>>}
  /\ \A asked \in Asked : \A j, k \in DOMAIN asked : asked[j].id = asked[k].id => j = k
  /\ Time \subseteq Nat /\ StartTime \subseteq Time
  /\ MaxTurns \in Nat /\ MaxSessions \in Nat /\ MaxBoot \in Nat /\ EditFrom \in Nat /\ OtherAt \subseteq Nat
  /\ Edit \subseteq Authority \X Authority
  /\ \A a \in Authority : a.local \in Actor /\ a.local \in a.alias[a.local]

VARIABLES
  turns,      \* evidence.jsonl: the conversation turns, over all connectors
  ledger,     \* intent_proposals.jsonl
  history,    \* changesets applied to the graph; its length is the version
  cases,      \* [case -> status], review and preflight cases
  authority,  \* config.yaml, the policy and the connector bindings
  held,       \* the authority the serving process has loaded
  boot        \* [Client -> bootstrap call in progress]

vars == <<turns, ledger, history, cases, authority, held, boot>>

version == Len(history)
Local == held.local
Aliases(a) == held.alias[a]
(* MCP _clarification_authority, control plane _principals. *)
Principals == {Agent} \cup Aliases(Local)

Idle == [pc |-> "idle", proposal |-> None, version |-> 0, turns |-> 0, ledger |-> 0,
         decision |-> None]

(***************************************************************************)
(* Conversation evidence.                                                  *)
(***************************************************************************)
(* JsonlEvidenceStore.associate: a turn follows the last one of its        *)
(* conversation in the same connector.                                     *)
Predecessor(ts, i) == Last({j \in 1 .. i - 1 : ts[j].conn = ts[i].conn /\ ts[j].conv = ts[i].conv})
Places(ts, t) == {i \in DOMAIN ts : ts[i] = t}
(* ConversationCapture.record_turn: recording a turn again changes nothing. *)
Record(ts, t) == IF Places(ts, t) = {} THEN Append(ts, t) ELSE ts
(* The turns of a list are recorded one after the other.  One that was     *)
(* recorded before its predecessor in the list was breaks their chain (see *)
(* MayOpen), so the first n are known: at most one n is right.             *)
Recorded(ts, new) ==
  {ts \o SubSeq(new, n + 1, Len(new)) :
     n \in {m \in 0 .. Len(new) : \A k \in DOMAIN new : Places(ts, new[k]) # {} <=> k <= m}}
Place(ts, t) == CHOOSE i \in Places(ts, t) : TRUE
Turn(conn, conv, role, author, kind, body, at, acl) ==
  [conn |-> conn, conv |-> conv, role |-> role, author |-> author, kind |-> kind,
   body |-> body, at |-> at, acl |-> acl]
IsText(t) == t.kind # "classification"
(* refs_allowed *)
Readable(ts, refs, who) == \A i \in refs : i \in DOMAIN ts /\ ts[i].acl \cap who # {}

(* validate_conversation_ingestion: i is the first turn of its             *)
(* conversation and, the texts in later aside, the only text of its role.  *)
SoleText(i, role, author, acl, later) ==
  /\ turns[i].conn = Codex /\ turns[i].role = role /\ turns[i].author = author
  /\ turns[i].acl = acl /\ IsText(turns[i]) /\ Predecessor(turns, i) = 0
  /\ {j \in DOMAIN turns : /\ turns[j].conn = Codex /\ turns[j].conv = turns[i].conv
                           /\ turns[j].role = role /\ IsText(turns[j])} = {i} \cup later

AgentTexts == {i \in DOMAIN turns : turns[i].conn = Codex /\ turns[i].role = "agent" /\ IsText(turns[i])}
(* Another prompt was recorded for the same turn of the codex session. *)
HostTurnChanged(cv, texts) == \E i \in texts :
  turns[i].conv # cv /\ HostOf[turns[i].conv] = HostOf[cv] /\ SlotOf[turns[i].conv] = SlotOf[cv]

Sessions == {Session(ledger, id) : id \in SessionIds(ledger)}
Active == {s \in Sessions : s.status \in {"open", "proposed"}}
ActiveIn(h) == {s \in Active : HostOf[s.task.conv] = h}

(* The authority files are those the process has loaded. *)
Authentic == held = authority
Sound == Decodable(ledger)

Init == /\ turns = <<>> /\ ledger = <<>> /\ history = <<>> /\ cases = [c \in {} |-> "none"]
        /\ authority \in Authority /\ held = authority
        /\ boot = [c \in Client |-> Idle]

(* inspect_onboarding: there is a baseline. *)
Onboarded == version > 0

(***************************************************************************)
(* AdvisoryPromptRouter.route: the hook of a codex session records the     *)
(* prompt, unless a clarification of another session is under way.         *)
(***************************************************************************)
RoutePrompt(cv, at) ==
  LET prompt == Turn(Codex, cv, "agent", Agent, "prompt", None, at, Aliases(Local))
      first == {i \in AgentTexts : Predecessor(turns, i) = 0}
  IN  /\ Authentic /\ Onboarded /\ Len(turns) < MaxTurns
      /\ {i \in first : turns[i].conv = cv} = {} /\ ~HostTurnChanged(cv, first)
      /\ Cardinality(ActiveIn(HostOf[cv])) <= 1
      /\ Active # {} => ActiveIn(HostOf[cv]) # {}
      /\ turns' = Record(turns, prompt)
      /\ UNCHANGED <<ledger, history, cases, authority, held, boot>>

(***************************************************************************)
(* ClarificationCoordinator._open: the questions are recorded as turns of  *)
(* the conversation and must follow the classification without a gap.      *)
(***************************************************************************)
(* TaskEnvelope: the task is bound to its request and to the graph. *)
Envelope(actor, r) ==
  [actor |-> actor, conv |-> turns[r].conv, request |-> r, version |-> version]

QuestionTurns(cv, asked, at) ==
  [k \in DOMAIN asked |-> Turn(Codex, cv, "agent", Agent, "question", asked[k].id, at, Principals)]

Opening(ts, task, c, asked, at) ==
  LET placed == QuestionTurns(task.conv, asked, at) IN
  [id |-> Len(ledger) + 1, task |-> task, request |-> task.request, classification |-> c, openedBy |-> Agent,
   openedAt |-> at, baseline |-> task.version, status |-> "open",
   questions |-> [k \in DOMAIN asked |->
                    [id |-> asked[k].id, required |-> asked[k].required, author |-> Agent,
                     at |-> at, evidence |-> Place(ts, placed[k]),
                     previous |-> Predecessor(ts, Place(ts, placed[k]))]],
   answers |-> <<>>, conflicts |-> <<>>]

Event(type, s, actor, at, previous, p, d) ==
  [kind |-> "event", type |-> type, session |-> s, actor |-> actor, at |-> at,
   previous |-> previous, proposal |-> p, decision |-> d]

OpenedEvent(ts, task, c, asked, at) ==
  Event("opened", Opening(ts, task, c, asked, at), Agent, at, 0, None, None)

(* Opening a session again, in every detail, changes nothing. *)
MayOpen(ts, task, c, asked, at) ==
  LET s == Opening(ts, task, c, asked, at)
  IN  /\ task.version = version /\ Cardinality(Sessions) < MaxSessions
      /\ ts[task.request].author = task.actor
      /\ ts[task.request].role = IF task.actor = Agent THEN "agent" ELSE "human"
      /\ ts[c].role = "agent" /\ Predecessor(ts, c) = task.request
      /\ Readable(ts, {task.request, c}, Principals)
      /\ s.questions[1].previous = c
      /\ \A k \in 2 .. Len(s.questions) : s.questions[k].previous = s.questions[k - 1].evidence
      /\ SessionWith(ledger, s) = 0
      /\ ValidTransition(ledger, OpenedEvent(ts, task, c, asked, at))

With(k, st) == [x \in DOMAIN cases \cup {k} |-> IF x = k THEN st ELSE cases[x]]

(***************************************************************************)
(* MCP advisory_preflight: in one transaction the agent's classification   *)
(* of a recorded prompt is itself recorded (once: a repeated call must     *)
(* classify alike), checked by PreflightService, and acted upon.           *)
(***************************************************************************)
QuestionsIn(cv) == UNION {{s.questions[k].evidence : k \in DOMAIN s.questions} :
                          s \in {z \in Sessions : z.task.conv = cv}}
Followers(r) == {i \in DOMAIN turns : /\ turns[i].conn = Codex /\ turns[i].role = "agent"
                                      /\ turns[i].conv = turns[r].conv
                                      /\ Predecessor(turns, i) = r}
(* The place of a classification after that of its request (_validate_turns). *)
NextInConnector(ts, r, c) == \A j \in r + 1 .. c - 1 : ts[j].conn # Codex

(* _active_advisory_clarification: the codex session has no clarification  *)
(* under way but that of this prompt.                                      *)
FewActive(cv, r) == Cardinality(ActiveIn(HostOf[cv])) <= 1  \* Mutant
NoOtherActive(cv, r) ==
  /\ Cardinality(ActiveIn(HostOf[cv])) <= 1
  /\ \A s \in ActiveIn(HostOf[cv]) : s.task.conv = cv /\ s.request = r

(* _advisory_content: the turn that records the agent's classification. *)
AdvisoryTurn(cv, r, label, asked) ==
  Turn(Codex, cv, "agent", Agent, "classification",
       [label |-> label, version |-> version, asked |-> asked], turns[r].at, turns[r].acl)

AdvisoryPreflight(cv, r, label, asked) ==
  LET class == AdvisoryTurn(cv, r, label, asked)
      classified == Record(turns, class)
      c == Place(classified, class)
      task == Envelope(Agent, r)
  IN  /\ Authentic
      /\ turns[r].conv = cv /\ SoleText(r, "agent", Agent, Aliases(Local), QuestionsIn(cv))
      /\ ~HostTurnChanged(cv, AgentTexts)
      /\ NoOtherActive(cv, r)
      /\ Followers(r) \subseteq {c}
      /\ NextInConnector(classified, r, c)
      /\ \/ /\ label = "clear"
            /\ turns' = classified /\ UNCHANGED <<ledger, cases>>
         \/ /\ label = "conflicting"
            /\ turns' = classified
            /\ [kind |-> "preflight", about |-> c] \notin DOMAIN cases
            /\ cases' = With([kind |-> "preflight", about |-> c], "waiting")
            /\ UNCHANGED ledger
         \/ /\ label = "ambiguous"
            /\ \E all \in Recorded(classified, QuestionTurns(cv, asked, turns[r].at)) :
                 /\ MayOpen(all, task, c, asked, turns[r].at)
                 /\ turns' = all
                 /\ ledger' = Append(ledger, OpenedEvent(all, task, c, asked, turns[r].at))
            /\ UNCHANGED cases
      /\ Len(turns') <= MaxTurns
      /\ UNCHANGED <<history, authority, held, boot>>

(* MCP clarification_open: for a task of the local actor, on turns the     *)
(* host recorded; nothing here asks for other sessions.                    *)
ClarificationOpen(r, c, asked, at) ==
  LET task == Envelope(Local, r) IN
  /\ Authentic /\ turns[r].author = Local /\ turns[c].role = "agent"
  /\ \E all \in Recorded(turns, QuestionTurns(turns[r].conv, asked, at)) :
       /\ MayOpen(all, task, c, asked, at)
       /\ turns' = all /\ Len(all) <= MaxTurns
       /\ ledger' = Append(ledger, OpenedEvent(all, task, c, asked, at))
  /\ UNCHANGED <<history, cases, authority, held, boot>>

(* External: a host that records what its user said, and its own           *)
(* classification of it, as turns of the codex connector.                  *)
HostTurn(cv, at) ==
  /\ cv \in HostConv /\ Onboarded /\ Len(turns) < MaxTurns
  /\ turns' = Append(turns, Turn(Codex, cv, "human", Local, "prompt", None, at, Aliases(Local)))
  /\ Places(turns, turns'[Len(turns')]) = {}
  /\ UNCHANGED <<ledger, history, cases, authority, held, boot>>

HostClassifies(r) ==
  /\ Len(turns) < MaxTurns /\ turns[r].role = "human" /\ turns[r].conn = Codex
  /\ turns' = Append(turns, Turn(Codex, turns[r].conv, "agent", Agent, "classification",
                                 None, turns[r].at, turns[r].acl))
  /\ Places(turns, turns'[Len(turns')]) = {}
  /\ UNCHANGED <<ledger, history, cases, authority, held, boot>>

(***************************************************************************)
(* Answers.  answer records the text itself, through the connector of the  *)
(* coordinator it is called on; preview_answer accepts the same call       *)
(* without recording it; answer_evidence takes a turn the host recorded.   *)
(***************************************************************************)
QuestionsOf(s) == {s.questions[k].id : k \in DOMAIN s.questions}
ReplyTurn(conn, s, reply, at) ==
  Turn(conn, s.task.conv, "human", Local, "answer", reply, at, Principals)

PreviewAnswer(s, q, at) ==
  /\ Authentic
  /\ q \in QuestionsOf(s) /\ s.status = "open" /\ at >= TailAt(s)
  /\ version = s.baseline

(* One more answer (or, to an answered question, one more conflict). *)
AnswerEvent(s, q, at, i, previous) ==
  LET a == [question |-> q, actor |-> Local, at |-> at, evidence |-> i, previous |-> previous]
      given == AnswerTo(s, q)
      x == [question |-> q, actor |-> Local, at |-> at, evidence |-> i, previous |-> previous,
            original |-> (CHOOSE g \in given : TRUE).evidence]
      latest == LatestEvent(ledger, s.id)
  IN  IF given = {}
      THEN Event("answered", [s EXCEPT !.answers = Append(@, a)], Local, at, latest, None, None)
      ELSE Event("conflicted", [s EXCEPT !.conflicts = Append(@, x)], Local, at, latest,
                 None, None)

UsedBy(s) == {s.answers[i].evidence : i \in DOMAIN s.answers}
             \cup {s.conflicts[i].evidence : i \in DOMAIN s.conflicts}

(* What answer accepts and changes the ledger for. *)
AnswerAccepted(conn, s, q, reply, at) ==
  LET t == ReplyTurn(conn, s, reply, at)
      all == Record(turns, t)
      i == Place(all, t)
  IN  /\ PreviewAnswer(s, q, at)
      /\ i \notin UsedBy(s)
      /\ Predecessor(all, i) = TailEvidence(s)
      /\ ValidTransition(ledger, AnswerEvent(s, q, at, i, Predecessor(all, i)))

Answer(conn, s, q, reply, at) ==
  LET t == ReplyTurn(conn, s, reply, at)
      all == Record(turns, t)
      i == Place(all, t)
  IN  /\ AnswerAccepted(conn, s, q, reply, at)
      /\ turns' = all /\ Len(all) <= MaxTurns
      /\ ledger' = Append(ledger, AnswerEvent(s, q, at, i, Predecessor(all, i)))
      /\ UNCHANGED <<history, cases, authority, held, boot>>

(* Mutant: a turn that already answers another question is taken again. *)
AnswerEvidenceAgain(s, q, i) ==
  LET e == AnswerEvent(s, q, turns[i].at, i, TailEvidence(s)) IN
  /\ Authentic
  /\ q \in QuestionsOf(s) /\ s.status = "open"
  /\ SoleText(i, "human", Local, Aliases(Local), {})
  /\ version = s.baseline
  /\ HostOf[turns[i].conv] = HostOf[s.task.conv] /\ turns[i].conv # s.task.conv
  /\ turns[i].at >= TailAt(s)
  /\ ValidTransition(ledger, e)
  /\ ledger' = Append(ledger, e)
  /\ UNCHANGED <<turns, history, cases, authority, held, boot>>

AnswerEvidence(s, q, i) ==
  LET e == AnswerEvent(s, q, turns[i].at, i, TailEvidence(s)) IN
  /\ Authentic
  /\ q \in QuestionsOf(s) /\ s.status = "open"
  /\ SoleText(i, "human", Local, Aliases(Local), {})
  /\ version = s.baseline
  /\ HostOf[turns[i].conv] = HostOf[s.task.conv] /\ turns[i].conv # s.task.conv
  /\ i \notin UsedBy(s) /\ turns[i].at >= TailAt(s)
  /\ ValidTransition(ledger, e)
  /\ ledger' = Append(ledger, e)
  /\ UNCHANGED <<turns, history, cases, authority, held, boot>>

(***************************************************************************)
(* ClarificationCoordinator._propose: the event and the proposal are       *)
(* appended together, past the checks of append_clarification.             *)
(***************************************************************************)
EvidenceOf(s) == {s.request, s.classification} \cup {s.questions[k].evidence : k \in DOMAIN s.questions}
                 \cup {s.answers[k].evidence : k \in DOMAIN s.answers}

ProposalOf(s, content, at) ==
  [session |-> s.id, task |-> s.task, by |-> Local, at |-> at, baseline |-> s.baseline,
   content |-> content, evidence |-> EvidenceOf(s)]

ProposalFrame(p) == [kind |-> "proposal", proposal |-> p]
DecisionFrame(d) == [kind |-> "decision", decision |-> d]

(* The event and the proposal, one after the other. *)
ProposedFrames(s, p, at) ==
  <<Event("proposed", [s EXCEPT !.status = "proposed"], Local, at,
          LatestEvent(ledger, s.id), p, None), ProposalFrame(p)>>

(* Mutant: answers that were contradicted are proposed all the same. *)
MayProposeContradicted(s, at) ==
  /\ s.status = "open" /\ s.answers # <<>>
  /\ RequiredOf(s) \subseteq AnsweredOf(s)
  /\ Final(s.answers).actor = Local /\ at >= Final(s.answers).at
  /\ version = s.baseline
  /\ Readable(turns, EvidenceOf(s), Principals)

MayPropose(s, at) ==
  /\ s.status = "open" /\ s.conflicts = <<>> /\ s.answers # <<>>
  /\ RequiredOf(s) \subseteq AnsweredOf(s)
  /\ Final(s.answers).actor = Local /\ at >= Final(s.answers).at
  /\ version = s.baseline
  /\ Readable(turns, EvidenceOf(s), Principals)

(* MCP clarification_propose *)
Propose(s, content, at) ==
  /\ Authentic /\ MayPropose(s, at)
  /\ ledger' = ledger \o ProposedFrames(s, ProposalOf(s, content, at), at)
  /\ UNCHANGED <<turns, history, cases, authority, held, boot>>

(***************************************************************************)
(* ProposalConfirmationService._confirm                                    *)
(***************************************************************************)
(* _risk *)
HighRisk(p) == p.content.reasons # {} \/ p.content.against # {}
(* _activation: what is applied, bound to the decision. *)
ActivationOf(p, actor, at, selected, reviewed) ==
  [proposal |-> p, actor |-> actor, at |-> at, selected |-> selected, reviewed |-> reviewed]
(* _decision *)
DecisionOf(p, actor, at, selected, reviewed) ==
  [proposal |-> p, actor |-> actor, at |-> at, selected |-> selected, reviewed |-> reviewed]

ReviewCase(p) == [kind |-> "review", about |-> p]
AuthorAliases(p) == UNION {Aliases(a) : a \in {p.by} \cup p.content.against}
Independent(p) == Aliases(Local) \cap AuthorAliases(p) = {}

(* Mutants: the graph has moved on; the authority files have. *)
ConfirmableLater(p, selected, at) ==
  /\ Authentic
  /\ p.session # 0 /\ DecisionsFor(ledger, p) = {}
  /\ selected \subseteq p.content.added /\ (p.content.added # {} => selected # {})
  /\ Readable(turns, p.evidence, Aliases(Local)) /\ at >= p.at
ConfirmableAsLoaded(p, selected, at) ==
  /\ p.session # 0 /\ DecisionsFor(ledger, p) = {}
  /\ selected \subseteq p.content.added /\ (p.content.added # {} => selected # {})
  /\ Readable(turns, p.evidence, Aliases(Local)) /\ at >= p.at
  /\ version = p.baseline

(* Confirmation binding, for previews and confirmations alike. *)
Confirmable(p, selected, at) ==
  /\ Authentic
  /\ p.session # 0 /\ DecisionsFor(ledger, p) = {}
  /\ selected \subseteq p.content.added /\ (p.content.added # {} => selected # {})
  /\ Readable(turns, p.evidence, Aliases(Local)) /\ at >= p.at
  /\ version = p.baseline

(* _authenticate_confirmation_snapshot: the review case, when there is     *)
(* one, must still be as it was created.                                   *)
MayConfirm(p) ==
  /\ p.by \in held.contributors
  /\ IF HighRisk(p)
     THEN /\ Local \in held.approvers /\ Independent(p)
          /\ ReviewCase(p) \in DOMAIN cases => cases[ReviewCase(p)] = "waiting"
     ELSE Local \in held.contributors

Closing(p, d) ==
  LET s == Session(ledger, p.session)
  IN  Event("closed", [s EXCEPT !.status = "closed"], d.actor, d.at,
            LatestEvent(ledger, p.session), p, d)

(* _authenticate_applied, before the transaction ends: the decision, the   *)
(* closing event, the last changeset and the case are those of this call.  *)
Applied(l, h, cs, p, d) ==
  /\ DecisionsFor(l, p) = {d}
  /\ l[LatestEvent(l, p.session)] = Final(l)
  /\ {i \in EventsOf(l, p.session) : l[i].type = "closed"} = {Len(l)}
  /\ Final(l).proposal = p /\ Final(l).decision = d
  /\ Final(h) = ActivationOf(p, d.actor, d.at, d.selected, d.reviewed)
  /\ d.reviewed => cs[ReviewCase(p)] = "resolved"

Confirm(p, selected, at) ==
  LET d == DecisionOf(p, Local, at, selected, HighRisk(p)) IN
  /\ Confirmable(p, selected, at) /\ MayConfirm(p)
  /\ Session(ledger, p.session).status = "proposed"
  /\ history' = Append(history, ActivationOf(p, Local, at, selected, HighRisk(p)))
  /\ ledger' = ledger \o <<DecisionFrame(d), Closing(p, d)>>
  /\ cases' = IF HighRisk(p) THEN With(ReviewCase(p), "resolved") ELSE cases
  /\ Applied(ledger', history', cases', p, d)
  /\ UNCHANGED <<turns, authority, held, boot>>

(* A confirmation by someone who may not approve opens the review case and *)
(* answers review_required.                                                *)
RequireReview(p, selected, at) ==
  /\ Confirmable(p, selected, at) /\ HighRisk(p) /\ Local \notin held.approvers
  /\ ReviewCase(p) \notin DOMAIN cases
  /\ cases' = With(ReviewCase(p), "waiting")
  /\ UNCHANGED <<turns, ledger, history, authority, held, boot>>

(***************************************************************************)
(* BootstrapService.  A call reads graph and evidence, then the list of    *)
(* proposals, then the bytes of the ledger, and appends in a transaction   *)
(* that compares graph, evidence and those bytes.                          *)
(***************************************************************************)
BootProposal(content, at) ==
  [session |-> 0, task |-> None, by |-> Local, at |-> at, baseline |-> version,
   content |-> content, evidence |-> {}]

BootPropose(c, content, at) ==
  /\ c \in Proposer /\ boot[c].pc = "idle" /\ Cardinality({p \in Proposals(ledger) : p.session = 0}) < MaxBoot
  /\ boot' = [boot EXCEPT ![c] = [Idle EXCEPT !.pc = "validated",
                                              !.proposal = BootProposal(content, at),
                                              !.version = version, !.turns = Len(turns)]]
  /\ UNCHANGED <<turns, ledger, history, cases, authority, held>>

BootList(c) ==
  /\ boot[c].pc = "validated"
  /\ boot' = [boot EXCEPT ![c] = IF Sound /\ boot[c].proposal \notin Proposals(ledger)
                                 THEN [@ EXCEPT !.pc = "listed"] ELSE Idle]
  /\ UNCHANGED <<turns, ledger, history, cases, authority, held>>

BootBytes(c) ==
  /\ boot[c].pc = "listed"
  /\ boot' = [boot EXCEPT ![c] = IF Sound THEN [@ EXCEPT !.pc = "read", !.ledger = Len(ledger)]
                                 ELSE Idle]
  /\ UNCHANGED <<turns, ledger, history, cases, authority, held>>

(* The files are append-only: their lengths stand for their bytes. *)
BootAppend(c) ==
  /\ boot[c].pc = "read"
  /\ boot' = [boot EXCEPT ![c] = Idle]
  /\ ledger' = IF /\ version = boot[c].version /\ Len(turns) = boot[c].turns
                  /\ Len(ledger) = boot[c].ledger
               THEN Append(ledger, ProposalFrame(boot[c].proposal)) ELSE ledger
  /\ UNCHANGED <<turns, history, cases, authority, held>>

(* _activation_changeset, _decision: no review. *)
BootDecision(p, selected, at) == DecisionOf(p, Local, at, selected, FALSE)
BootActivation(d) == ActivationOf(d.proposal, d.actor, d.at, d.selected, FALSE)

(* _activate: decision_for and the version of the graph, then the bytes of *)
(* the ledger, then LocalChangeSetExecutor.apply.                          *)
BootActivate(c, p, selected, at) ==
  /\ boot[c].pc = "idle"
  /\ p.session = 0 /\ ~HighRisk(p) /\ at >= p.at
  /\ selected # {} /\ selected \subseteq p.content.added
  /\ DecisionsFor(ledger, p) = {} /\ version = p.baseline
  /\ boot' = [boot EXCEPT ![c] = [Idle EXCEPT !.pc = "checked", !.proposal = p,
                                              !.decision = BootDecision(p, selected, at)]]
  /\ UNCHANGED <<turns, ledger, history, cases, authority, held>>

BootActivateBytes(c) ==
  /\ boot[c].pc = "checked"
  /\ boot' = [boot EXCEPT ![c] = IF Sound THEN [@ EXCEPT !.pc = "apply", !.ledger = Len(ledger)]
                                 ELSE Idle]
  /\ UNCHANGED <<turns, ledger, history, cases, authority, held>>

BootApply(c) ==
  LET d == boot[c].decision
      fresh == version = d.proposal.baseline /\ Len(ledger) = boot[c].ledger
  IN  /\ boot[c].pc = "apply"
      /\ boot' = [boot EXCEPT ![c] = Idle]
      /\ ledger' = IF fresh THEN Append(ledger, DecisionFrame(d)) ELSE ledger
      /\ history' = IF fresh THEN Append(history, BootActivation(d)) ELSE history
      /\ UNCHANGED <<turns, cases, authority, held>>

(***************************************************************************)
(* The rest of the system.                                                 *)
(***************************************************************************)
(* A human moves a case on without confirming the proposal. *)
MoveCase(k) == /\ cases[k] = "waiting" /\ cases' = With(k, "moved")
               /\ UNCHANGED <<turns, ledger, history, authority, held, boot>>
(* Synchronisation, resolutions and write-back change the graph too. *)
OtherChange == /\ version \in OtherAt
               /\ history' = Append(history, None)
               /\ UNCHANGED <<turns, ledger, cases, authority, held, boot>>
EditAuthority(a) == /\ Len(ledger) >= EditFrom /\ <<authority, a>> \in Edit /\ authority' = a
                    /\ UNCHANGED <<turns, ledger, history, cases, held, boot>>
LoadAuthority == /\ held # authority /\ held' = authority
                 /\ UNCHANGED <<turns, ledger, history, cases, authority, boot>>

(* Operations on the ledger; each decodes all of it first and refuses to   *)
(* act on one that the reader does not accept.                             *)
Workflow ==
  \/ \E cv \in Conv, at \in StartTime : RoutePrompt(cv, at)
  \/ \E r \in DOMAIN turns :
       \/ \E label \in {"clear", "conflicting"} : AdvisoryPreflight(turns[r].conv, r, label, <<>>)
       \/ \E asked \in Asked : AdvisoryPreflight(turns[r].conv, r, "ambiguous", asked)
  \/ \E r, c \in DOMAIN turns, asked \in Asked, at \in StartTime :
       ClarificationOpen(r, c, asked, at)
  \/ \E s \in Sessions :
       \/ \E q \in QuestionsOf(s), conn \in AnswerConnector, reply \in Reply, at \in Time :
            Answer(conn, s, q, reply, at)
       \/ \E q \in QuestionsOf(s), i \in DOMAIN turns : AnswerEvidence(s, q, i)
       \/ \E content \in Content, at \in Time : Propose(s, content, at)
  \/ \E p \in Proposals(ledger) : \E selected \in SUBSET p.content.added, at \in Time :
       \/ Confirm(p, selected, at) \/ RequireReview(p, selected, at)
       \/ at \in StartTime /\ \E c \in Client : BootActivate(c, p, selected, at)

Next ==
  \/ Sound /\ Workflow
  \/ \E c \in Client : \/ \E content \in BootContent, at \in StartTime : BootPropose(c, content, at)
                       \/ BootList(c) \/ BootBytes(c) \/ BootAppend(c)
                       \/ BootActivateBytes(c) \/ BootApply(c)
  \/ \E cv \in Conv, at \in StartTime : HostTurn(cv, at)
  \/ \E r \in DOMAIN turns : HostClassifies(r)
  \/ \E k \in DOMAIN cases : MoveCase(k)
  \/ OtherChange
  \/ \E a \in Authority : EditAuthority(a)
  \/ LoadAuthority

Spec == Init /\ [][Next]_vars

(***************************************************************************)
(* Properties                                                              *)
(***************************************************************************)
(* The reader never refuses what the writers wrote, whatever the order in  *)
(* which sessions, proposals and decisions interleave: proposals and       *)
(* confirmations append their frames without the reader's checks.          *)
LedgerDecodes == Decodable(ledger)

(* A decision and the change it decided are one: a decided proposal was    *)
(* applied exactly once, to the version it was proposed for and with the   *)
(* selection that was decided; nothing is applied undecided; and the       *)
(* session of a clarification is closed exactly when it is decided.        *)
DecidedApplied ==
  /\ \A p \in Proposals(ledger), i \in DOMAIN history :
       history[i] # None /\ history[i].proposal = p =>
         /\ i = p.baseline + 1
         /\ \E d \in DecisionsFor(ledger, p) :
              /\ history[i] = ActivationOf(p, d.actor, d.at, d.selected, d.reviewed)
              /\ d.reviewed = (HighRisk(p) /\ cases[ReviewCase(p)] = "resolved")
  /\ \A d \in Decisions(ledger) : /\ d.proposal.baseline < version
                                  /\ history[d.proposal.baseline + 1] # None
                                  /\ history[d.proposal.baseline + 1].proposal = d.proposal
  /\ {s.id : s \in {z \in Sessions : z.status = "closed"}}
       = {d.proposal.session : d \in Decisions(ledger)} \ {0}

(* A change that weakens or contradicts existing intent is applied only by *)
(* an approver who is no alias of its author or of the authors it          *)
(* contradicts, under the policy in force when it is applied, not the one  *)
(* the process had loaded.                                                 *)
ReviewedIndependently ==
  [][\A d \in Decisions(ledger') \ Decisions(ledger) : d.reviewed =>
       /\ d.actor = authority.local /\ d.actor \in authority.approvers
       /\ \A a \in {d.proposal.by} \cup d.proposal.content.against :
            authority.alias[d.actor] \cap authority.alias[a] = {}]_vars

(* An answer is what a person said: its evidence is a human turn of its    *)
(* author at its time, in the codex session of the clarification, and no   *)
(* turn serves twice, as two answers or as an answer and its own           *)
(* contradiction; and a proposal rests on an answer to every required      *)
(* question that nobody contradicted.                                      *)
AnswersGrounded ==
  \A s \in Sessions :
    LET said == s.answers \o s.conflicts IN
    /\ \A k \in DOMAIN said :
         LET t == turns[said[k].evidence] IN
         /\ t.role = "human" /\ t.author = said[k].actor /\ t.at = said[k].at
         /\ t.at >= s.openedAt /\ HostOf[t.conv] = HostOf[s.task.conv]
         /\ \A j \in DOMAIN said : said[j].evidence = said[k].evidence => j = k
    /\ s.status # "open" => s.conflicts = <<>> /\ RequiredOf(s) \subseteq AnsweredOf(s)

(* Advisory hooks open at most one clarification per prompt, and none in a *)
(* codex session that has another one under way.                           *)
AdvisoryExclusive ==
  LET advisory == {s \in Sessions : s.task.actor = Agent} IN
  \A m, n \in advisory : m # n =>
    /\ m.request # n.request
    /\ "closed" \notin {m.status, n.status} => HostOf[m.task.conv] # HostOf[n.task.conv]

(* An answer that preview_answer accepts, answer accepts in the same       *)
(* state: the browser shows its user the record it is going to append.     *)
PreviewKept ==
  \A conn \in AnswerConnector, s \in Sessions :
    \A q \in QuestionsOf(s), reply \in Reply, at \in Time :
      PreviewAnswer(s, q, at) /\ AnswerTo(s, q) = {} => AnswerAccepted(conn, s, q, reply, at)
=============================================================================
