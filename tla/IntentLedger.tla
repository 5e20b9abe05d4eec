----------------------------- MODULE IntentLedger -----------------------------
(***************************************************************************)
(* intent_workflow/proposal_store.py: the ledger that holds clarification  *)
(* events, proposals and decisions in one chronology, and what its reader  *)
(* accepts.  Every operation of the store first decodes the whole ledger:  *)
(* one frame the reader refuses makes all of it unavailable.               *)
(*                                                                         *)
(* A frame is a record with a field kind.  A proposal and a decision are   *)
(* identified by a digest of their contents, so here the contents are the  *)
(* identity; an event is identified by its place in the ledger (0: none),  *)
(* a conversation turn by its place in the evidence.                       *)
(***************************************************************************)
EXTENDS Integers, Sequences, FiniteSets

CONSTANT None

Events(l) == {i \in DOMAIN l : l[i].kind = "event"}
Upto(l, n) == SubSeq(l, 1, n)

(* The parts of a session that no event changes: a session is identified   *)
(* by a digest of them, here by the place of the event that opened it.     *)
Material(s) == [task |-> s.task, request |-> s.request, classification |-> s.classification,
                openedBy |-> s.openedBy, openedAt |-> s.openedAt, baseline |-> s.baseline,
                questions |-> s.questions]

SessionIds(l) == {l[i].session.id : i \in Events(l)}
EventsOf(l, id) == {i \in Events(l) : l[i].session.id = id}
Last(S) == IF S = {} THEN 0 ELSE CHOOSE i \in S : \A j \in S : j <= i
LatestEvent(l, id) == Last(EventsOf(l, id))
Session(l, id) == l[LatestEvent(l, id)].session

Proposals(l) == {l[i].proposal : i \in {j \in DOMAIN l : l[j].kind = "proposal"}}
Decisions(l) == {l[i].decision : i \in {j \in DOMAIN l : l[j].kind = "decision"}}
DecisionsFor(l, p) == {d \in Decisions(l) : d.proposal = p}

Final(s) == s[Len(s)]
Front(s) == SubSeq(s, 1, Len(s) - 1)
(* The evidence the next answer of a session must follow, and its time.    *)
TailEvidence(s) == IF s.conflicts # <<>> THEN Final(s.conflicts).evidence
                   ELSE IF s.answers # <<>> THEN Final(s.answers).evidence
                   ELSE Final(s.questions).evidence
TailAt(s) == IF s.conflicts # <<>> THEN Final(s.conflicts).at
             ELSE IF s.answers # <<>> THEN Final(s.answers).at
             ELSE Final(s.questions).at
RequiredOf(s) == {s.questions[i].id : i \in {j \in DOMAIN s.questions : s.questions[j].required}}
AnsweredOf(s) == {s.answers[i].question : i \in DOMAIN s.answers}
AnswerTo(s, q) == {s.answers[i] : i \in {j \in DOMAIN s.answers : s.answers[j].question = q}}

(***************************************************************************)
(* _valid_clarification_transition                                         *)
(***************************************************************************)
ValidOpened(e) ==
  LET s == e.session IN
  /\ e.type = "opened" /\ e.previous = 0 /\ s.answers = <<>> /\ s.status = "open"
  /\ e.actor = s.openedBy /\ e.at = s.openedAt
  /\ \A k \in DOMAIN s.questions :
       /\ s.questions[k].author = s.openedBy
       /\ s.questions[k].previous = IF k = 1 THEN s.classification
                                    ELSE s.questions[k - 1].evidence
       /\ s.questions[k].at >= IF k = 1 THEN s.openedAt ELSE s.questions[k - 1].at

ValidAnswered(old, e) ==
  LET s == e.session IN
  /\ old.status = "open" /\ s.status = "open" /\ s.conflicts = old.conflicts
  /\ Len(s.answers) = Len(old.answers) + 1 /\ Front(s.answers) = old.answers
  /\ Final(s.answers).actor = e.actor /\ Final(s.answers).at = e.at
  /\ Final(s.answers).previous = TailEvidence(old)

ValidConflicted(old, e) ==
  LET s == e.session IN
  /\ old.status = "open" /\ s.status = "open" /\ s.answers = old.answers
  /\ Len(s.conflicts) = Len(old.conflicts) + 1 /\ Front(s.conflicts) = old.conflicts
  /\ Final(s.conflicts).actor = e.actor /\ Final(s.conflicts).at = e.at
  /\ Final(s.conflicts).previous = TailEvidence(old)
  /\ \E a \in AnswerTo(old, Final(s.conflicts).question) :
       Final(s.conflicts).original = a.evidence

ValidProposed(old, e) ==
  LET s == e.session IN
  /\ old.status = "open" /\ s.status = "proposed" /\ s.answers = old.answers
  /\ s.conflicts = <<>> /\ RequiredOf(s) \subseteq AnsweredOf(s)
  /\ e.proposal # None /\ s.answers # <<>> /\ e.actor = Final(s.answers).actor

ValidClosed(old, e) ==
  LET s == e.session IN
  /\ old.status = "proposed" /\ s.status = "closed"
  /\ s.answers = old.answers /\ s.conflicts = old.conflicts
  /\ e.proposal # None /\ e.decision # None

ValidTransition(l, e) ==
  LET before == LatestEvent(l, e.session.id)
  IN  IF before = 0 THEN ValidOpened(e)
      ELSE /\ e.previous = before /\ e.at >= l[before].at /\ e.at >= e.session.openedAt
           /\ Material(e.session) = Material(l[before].session)
           /\ \/ e.type = "answered" /\ ValidAnswered(l[before].session, e)
              \/ e.type = "conflicted" /\ ValidConflicted(l[before].session, e)
              \/ e.type = "proposed" /\ ValidProposed(l[before].session, e)
              \/ e.type = "closed" /\ ValidClosed(l[before].session, e)

(***************************************************************************)
(* _decode_unlocked, frame by frame: l is what precedes the frame.         *)
(***************************************************************************)
(* A proposed event is followed at once by the proposal it names. *)
Pending(l) == IF l # <<>> /\ Final(l).kind = "event" /\ Final(l).type = "proposed"
              THEN Final(l).proposal ELSE None

ReadableEvent(l, e) ==
  /\ Pending(l) = None
  /\ ValidTransition(l, e)
  /\ e.type = "closed" =>
       /\ e.proposal \in Proposals(l) /\ e.proposal.session = e.session.id
       /\ e.decision \in DecisionsFor(l, e.proposal)
       /\ e.decision.actor = e.actor /\ e.decision.at = e.at

ReadableProposal(l, p) ==
  /\ Pending(l) # None => p = Pending(l)
  /\ p \notin Proposals(l)
  /\ p.session # 0 =>
       /\ p.session \in SessionIds(l)
       /\ Session(l, p.session).status = "proposed"
       /\ Session(l, p.session).task = p.task /\ Session(l, p.session).baseline = p.baseline
       /\ l[LatestEvent(l, p.session)].proposal = p

ReadableDecision(l, d) ==
  /\ Pending(l) = None
  /\ d.proposal \in Proposals(l) /\ DecisionsFor(l, d.proposal) = {}
  /\ d.proposal.session # 0 => Session(l, d.proposal.session).status = "proposed"

ReadableFrame(l, f) == \/ f.kind = "event" /\ ReadableEvent(l, f)
                       \/ f.kind = "proposal" /\ ReadableProposal(l, f.proposal)
                       \/ f.kind = "decision" /\ ReadableDecision(l, f.decision)

Decodable(l) ==
  /\ \A i \in DOMAIN l : ReadableFrame(Upto(l, i - 1), l[i])
  /\ Pending(l) = None
  /\ \A p \in Proposals(l) :
       p.session # 0 /\ DecisionsFor(l, p) # {} =>
         LET e == l[LatestEvent(l, p.session)]
         IN  e.session.status = "closed" /\ e.proposal = p /\ e.decision \in DecisionsFor(l, p)

(* The session with this material, when it was opened before (0: it was    *)
(* not): append_clarification leaves an event alone that is already there. *)
SessionWith(l, s) == Last({i \in Events(l) : /\ l[i].type = "opened"
                                             /\ Material(l[i].session) = Material(s)})
=============================================================================
