------------------------- MODULE Clarification_proofs -------------------------
(***************************************************************************)
(* Proofs about Clarification, for any number of people, prompts, sessions *)
(* and bootstrap clients.                                                  *)
(***************************************************************************)
EXTENDS Clarification, SequenceTheorems, WellFoundedInduction, TLAPS

(* The records of the ledger. *)
Question == [id : QuestionId, required : BOOLEAN, author : {Agent}, at : Nat,
             evidence : Nat, previous : Nat]
AnswerRecord == [question : QuestionId, actor : Actor, at : Nat, evidence : Nat, previous : Nat]
Conflict == [question : QuestionId, actor : Actor, at : Nat, evidence : Nat, previous : Nat,
             original : Nat]
SessionRecord ==
  [id : Nat, task : Task, request : Nat, classification : Nat, openedBy : {Agent}, openedAt : Nat,
   baseline : Nat, status : {"open", "proposed", "closed"}, questions : Seq(Question),
   answers : Seq(AnswerRecord), conflicts : Seq(Conflict)]
EventFrame ==
  [kind : {"event"}, type : {"opened", "answered", "conflicted", "proposed", "closed"},
   session : SessionRecord, actor : Actor \cup {Agent}, at : Nat, previous : Nat,
   proposal : Proposal \cup {None}, decision : Decision \cup {None}]
Frame == EventFrame \cup [kind : {"proposal"}, proposal : Proposal]
                    \cup [kind : {"decision"}, decision : Decision]

(* The latest event of a session. *)
Latest(l, id) == l[LatestEvent(l, id)]

Acl == UNION {{a.alias[a.local], {Agent} \cup a.alias[a.local]} : a \in Authority}
Body == {None} \cup QuestionId \cup Reply
        \cup [label : {"clear", "conflicting", "ambiguous"}, version : Nat, asked : Asked \cup {<<>>}]
TurnRecord ==
  [conn : {Codex} \cup AnswerConnector, conv : Conv, role : {"agent", "human"},
   author : Actor \cup {Agent}, kind : {"prompt", "question", "answer", "classification"},
   body : Body, at : Nat, acl : Acl]
Call == [pc : {"idle", "validated", "listed", "read", "checked", "apply"},
         proposal : Proposal \cup {None}, version : Nat, turns : Nat, ledger : Nat,
         decision : Decision \cup {None}]
Case == [kind : {"preflight"}, about : Nat] \cup [kind : {"review"}, about : Proposal]

TypeInv ==
  /\ turns \in Seq(TurnRecord)
  /\ ledger \in Seq(Frame)
  /\ history \in Seq(Decision \cup {None})
  /\ DOMAIN cases \subseteq Case /\ cases \in [DOMAIN cases -> {"waiting", "moved", "resolved"}]
  /\ authority \in Authority /\ held \in Authority
  /\ boot \in [Client -> Call]

(* What holds of the latest event of a session, by itself. *)
Fine(e) ==
  LET s == e.session IN
  /\ e.at >= s.openedAt
  /\ s.status = "open" /\ s.answers # <<>> /\ s.conflicts = <<>> => e.at = Final(s.answers).at
  /\ s.status # "open" => /\ s.conflicts = <<>> /\ RequiredOf(s) \subseteq AnsweredOf(s)
                          /\ e.proposal \in Proposal /\ e.proposal.session = s.id
  /\ s.status = "proposed" => e.at = e.proposal.at
  /\ s.status = "closed" => e.decision \in Decision /\ e.decision.proposal = e.proposal

(* The ledger: sessions, their proposals and their decisions agree. *)
SessionsFine(l) == \A id \in SessionIds(l) : id \in 1 .. Len(l) /\ Fine(Latest(l, id))
SessionsDiffer(l) ==
  /\ \A id \in SessionIds(l) : \E i \in Events(l) :
       l[i].type = "opened" /\ Material(l[i].session) = Material(Session(l, id))
  /\ \A a, b \in SessionIds(l) : Material(Session(l, a)) = Material(Session(l, b)) => a = b
ProposalsNamed(l) ==
  /\ \A p \in Proposals(l) : p.session # 0 =>
       /\ p.session \in SessionIds(l) /\ Latest(l, p.session).proposal = p
       /\ Session(l, p.session).status # "open"
  /\ \A id \in SessionIds(l) : Session(l, id).status # "open" => Latest(l, id).proposal \in Proposals(l)
DecisionsNamed(l) ==
  /\ \A d \in Decisions(l) :
       /\ d.proposal \in Proposals(l)
       /\ d.proposal.session # 0 => Session(l, d.proposal.session).status = "closed"
  /\ \A id \in SessionIds(l) : Session(l, id).status = "closed" => Latest(l, id).decision \in Decisions(l)
Coherent(l) == SessionsFine(l) /\ SessionsDiffer(l) /\ ProposalsNamed(l) /\ DecisionsNamed(l)

(* The graph: decisions and changesets are the same, place by place. *)
Reviewed(d, cs) ==
  /\ d.reviewed = HighRisk(d.proposal)
  /\ HighRisk(d.proposal) =>
       ReviewCase(d.proposal) \in DOMAIN cs /\ cs[ReviewCase(d.proposal)] = "resolved"
HistoryAgrees(l, h, cs) ==
  /\ \A d \in Decisions(l) : /\ d.proposal.baseline < Len(h) /\ h[d.proposal.baseline + 1] = d
                             /\ Reviewed(d, cs)
  /\ \A i \in DOMAIN h : h[i] # None => h[i] \in Decisions(l) /\ i = h[i].proposal.baseline + 1

(* Bootstrap calls: what they propose and decide belongs to no session. *)
CallFine(l, b) ==
  /\ b.pc \in {"validated", "listed", "read"} => b.proposal \in Proposal /\ b.proposal.session = 0
  /\ b.pc \in {"checked", "apply"} =>
       /\ b.decision \in Decision /\ b.decision.proposal \in Proposals(l)
       /\ b.decision.proposal.session = 0
       /\ ~b.decision.reviewed /\ ~HighRisk(b.decision.proposal)
CallsFine == \A c \in Client : CallFine(ledger, boot[c])

(* The evidence: no turn is recorded twice, and what was said is a turn. *)
Distinct(ts) == \A i, j \in DOMAIN ts : ts[i] = ts[j] => i = j
Said(ts, s, a) ==
  /\ a.evidence \in DOMAIN ts
  /\ LET t == ts[a.evidence]
     IN  /\ t.role = "human" /\ t.author = a.actor /\ t.at = a.at
         /\ t.at >= s.openedAt /\ HostOf[t.conv] = HostOf[s.task.conv]
Grounded(ts, s) ==
  /\ \A k \in DOMAIN s.answers : Said(ts, s, s.answers[k])
  /\ \A k \in DOMAIN s.conflicts : Said(ts, s, s.conflicts[k])
  /\ \A j, k \in DOMAIN s.answers : s.answers[j].evidence = s.answers[k].evidence => j = k
  /\ \A j, k \in DOMAIN s.conflicts : s.conflicts[j].evidence = s.conflicts[k].evidence => j = k
  /\ \A j \in DOMAIN s.answers, k \in DOMAIN s.conflicts :
       s.answers[j].evidence # s.conflicts[k].evidence
(* A session that an advisory hook opened: all of its material is in the   *)
(* turns that follow its prompt.                                           *)
Asks(ts, s, asked, acl) ==
  LET cv == ts[s.request].conv IN
  /\ s.task = [actor |-> Agent, conv |-> cv, request |-> s.request, version |-> s.baseline]
  /\ s.openedAt = ts[s.request].at
  /\ ts[s.classification] = Turn(Codex, cv, "agent", Agent, "classification",
       [label |-> "ambiguous", version |-> s.baseline, asked |-> asked],
       ts[s.request].at, ts[s.request].acl)
  /\ Predecessor(ts, s.classification) = s.request
  /\ s.questions = [k \in DOMAIN asked |->
       [id |-> asked[k].id, required |-> asked[k].required, author |-> Agent, at |-> s.openedAt,
        evidence |-> s.questions[k].evidence, previous |-> Predecessor(ts, s.questions[k].evidence)]]
  /\ s.questions[1].previous = s.classification
  /\ \A k \in DOMAIN asked :
       /\ s.questions[k].evidence \in DOMAIN ts
       /\ ts[s.questions[k].evidence] =
            Turn(Codex, cv, "agent", Agent, "question", asked[k].id, s.openedAt, acl)
Advised(ts, s) ==
  /\ s.request \in DOMAIN ts /\ s.classification \in DOMAIN ts
  /\ \E asked \in Asked, acl \in Acl : Asks(ts, s, asked, acl)
EvidenceFine(ts, l) ==
  /\ Distinct(ts)
  /\ \A id \in SessionIds(l) : /\ Grounded(ts, Session(l, id))
                               /\ Session(l, id).task.actor = Agent => Advised(ts, Session(l, id))
HostsDiffer(l) ==
  \A a, b \in SessionIds(l) :
    LET m == Session(l, a)
        n == Session(l, b)
    IN  a # b /\ m.task.actor = Agent /\ n.task.actor = Agent /\ "closed" \notin {m.status, n.status}
          => HostOf[m.task.conv] # HostOf[n.task.conv]

Inv == /\ TypeInv /\ Coherent(ledger) /\ HistoryAgrees(ledger, history, cases) /\ CallsFine
       /\ EvidenceFine(turns, ledger) /\ HostsDiffer(ledger)

(* With a single proposer, what it has not found in the ledger stays out. *)
OneProposer == \A c, d \in Proposer : c = d
NotListed == \A c \in Client : boot[c].pc \in {"listed", "read"} => boot[c].proposal \notin Proposals(ledger)
NotProposing == \A c \in Client \ Proposer : boot[c].pc \notin {"validated", "listed", "read"}
DecodesInv == Decodable(ledger) /\ NotListed /\ NotProposing

-----------------------------------------------------------------------------
(* A bounded set of numbers has a largest one: what Last chooses. *)
LEMMA LastIsMax ==
  ASSUME NEW n \in Nat, NEW S \in SUBSET (1 .. n), S # {}
  PROVE  Last(S) \in S /\ \A j \in S : j <= Last(S)
<1> DEFINE T == {n - i : i \in S}
<1>1. T \subseteq Nat /\ T # {}
  OBVIOUS
<1>2. PICK x \in T : \A y \in T : ~(<<y, x>> \in OpToRel(<, Nat))
  BY <1>1, NatLessThanWellFounded, WFMin
<1>3. PICK m \in S : x = n - m
  OBVIOUS
<1>4. \A j \in S : j <= m
  <2>1. SUFFICES ASSUME NEW j \in S, j > m PROVE FALSE
    OBVIOUS
  <2>2. n - j \in T /\ n - j \in Nat /\ x \in Nat /\ n - j < x
    BY <1>1, <1>3, <2>1
  <2>3. <<n - j, x>> \in OpToRel(<, Nat)
    BY <2>2 DEF OpToRel
  <2> QED BY <1>2, <2>2, <2>3
<1> HIDE DEF T
<1>5. Last(S) = CHOOSE i \in S : \A j \in S : j <= i
  BY DEF Last
<1> QED BY <1>3, <1>4, <1>5

LEMMA LastIs ==
  ASSUME NEW n \in Nat, NEW S \in SUBSET (1 .. n), NEW m \in S, \A j \in S : j <= m
  PROVE  Last(S) = m
<1>1. Last(S) \in S /\ m <= Last(S)
  BY LastIsMax
<1>2. Last(S) \in 1 .. n /\ m \in 1 .. n
  BY <1>1
<1>3. Last(S) <= m
  BY <1>1
<1> QED BY <1>1, <1>2, <1>3

LEMMA LastOfNone == Last({}) = 0
BY DEF Last

-----------------------------------------------------------------------------
(* What one more frame changes in the ledger. *)
LEMMA FrameKinds ==
  ASSUME NEW f \in Frame
  PROVE  /\ f.kind = "event" => f \in EventFrame
         /\ f.kind = "proposal" => f.proposal \in Proposal
         /\ f.kind = "decision" => f.decision \in Decision
         /\ f.kind \in {"event", "proposal", "decision"}
<1>1. f \in EventFrame => f.kind = "event"
  BY DEF EventFrame
<1>2. f \in [kind : {"proposal"}, proposal : Proposal] => f.kind = "proposal" /\ f.proposal \in Proposal
  OBVIOUS
<1>3. f \in [kind : {"decision"}, decision : Decision] => f.kind = "decision" /\ f.decision \in Decision
  OBVIOUS
<1> HIDE DEF EventFrame, Proposal, Decision
<1> QED BY <1>1, <1>2, <1>3 DEF Frame

LEMMA OneMore ==
  ASSUME NEW l \in Seq(Frame), NEW f \in Frame
  PROVE  /\ Append(l, f) \in Seq(Frame) /\ Len(Append(l, f)) = Len(l) + 1 /\ Len(l) \in Nat
         /\ DOMAIN l = 1 .. Len(l) /\ DOMAIN Append(l, f) = 1 .. Len(l) + 1
         /\ Append(l, f)[Len(l) + 1] = f
         /\ \A i \in 1 .. Len(l) : Append(l, f)[i] = l[i]
         /\ \A i \in DOMAIN l : l[i] \in Frame
BY AppendProperties, LenProperties, ElementOfSeq

LEMMA LatestIn ==
  ASSUME NEW l \in Seq(Frame), NEW id
  PROVE  /\ id \in SessionIds(l) <=> EventsOf(l, id) # {}
         /\ id \notin SessionIds(l) => LatestEvent(l, id) = 0
         /\ id \in SessionIds(l) => /\ LatestEvent(l, id) \in 1 .. Len(l)
                                    /\ Latest(l, id) \in EventFrame
                                    /\ Latest(l, id).kind = "event"
                                    /\ Latest(l, id).session.id = id
                                    /\ \A j \in EventsOf(l, id) : j <= LatestEvent(l, id)
<1>1. Len(l) \in Nat /\ DOMAIN l = 1 .. Len(l) /\ \A i \in DOMAIN l : l[i] \in Frame
  BY LenProperties, ElementOfSeq
<1>2. EventsOf(l, id) \in SUBSET (1 .. Len(l))
  BY <1>1 DEF EventsOf, Events
<1>3. id \in SessionIds(l) <=> EventsOf(l, id) # {}
  BY DEF SessionIds, EventsOf
<1>4. ASSUME id \in SessionIds(l)
      PROVE  LatestEvent(l, id) \in EventsOf(l, id) /\ \A j \in EventsOf(l, id) : j <= LatestEvent(l, id)
  BY <1>1, <1>2, <1>3, <1>4, LastIsMax DEF LatestEvent
<1>5. ASSUME id \in SessionIds(l)
      PROVE  l[LatestEvent(l, id)] \in EventFrame /\ l[LatestEvent(l, id)].session.id = id
             /\ l[LatestEvent(l, id)].kind = "event"
  BY <1>1, <1>2, <1>4, <1>5, FrameKinds DEF EventsOf, Events
<1>6. id \notin SessionIds(l) => LatestEvent(l, id) = 0
  BY <1>3, LastOfNone DEF LatestEvent
<1> QED BY <1>2, <1>3, <1>4, <1>5, <1>6 DEF Latest

LEMMA MoreEvents ==
  ASSUME NEW l \in Seq(Frame), NEW e \in EventFrame
  PROVE  /\ SessionIds(Append(l, e)) = SessionIds(l) \cup {e.session.id}
         /\ LatestEvent(Append(l, e), e.session.id) = Len(l) + 1
         /\ Latest(Append(l, e), e.session.id) = e
         /\ \A id : id # e.session.id => LatestEvent(Append(l, e), id) = LatestEvent(l, id)
         /\ \A id \in SessionIds(l) : id # e.session.id => Latest(Append(l, e), id) = Latest(l, id)
         /\ Proposals(Append(l, e)) = Proposals(l)
         /\ Decisions(Append(l, e)) = Decisions(l)
<1> DEFINE m == Append(l, e)
<1>1. e \in Frame /\ e.kind = "event"
  BY DEF Frame, EventFrame
<1>2. /\ m \in Seq(Frame) /\ Len(l) \in Nat
      /\ DOMAIN l = 1 .. Len(l) /\ DOMAIN m = 1 .. Len(l) + 1
      /\ m[Len(l) + 1] = e /\ \A i \in 1 .. Len(l) : m[i] = l[i]
  BY <1>1, OneMore
<1> HIDE DEF m
<1>3. Events(m) = Events(l) \cup {Len(l) + 1}
  BY <1>1, <1>2 DEF Events
<1>4. \A i \in Events(l) : m[i] = l[i]
  BY <1>2 DEF Events
<1>5. SessionIds(m) = SessionIds(l) \cup {e.session.id}
  BY <1>2, <1>3, <1>4 DEF SessionIds
<1>6. \A id : id # e.session.id => EventsOf(m, id) = EventsOf(l, id)
  BY <1>2, <1>3, <1>4 DEF EventsOf
<1>7. LatestEvent(m, e.session.id) = Len(l) + 1
  <2>1. EventsOf(m, e.session.id) \in SUBSET (1 .. Len(l) + 1)
    BY <1>2 DEF EventsOf, Events
  <2>2. Len(l) + 1 \in EventsOf(m, e.session.id)
    BY <1>2, <1>3 DEF EventsOf
  <2> QED BY <1>2, <2>1, <2>2, LastIs DEF LatestEvent
<1>8. \A id : id # e.session.id => LatestEvent(m, id) = LatestEvent(l, id)
  BY <1>6 DEF LatestEvent
<1>9. \A id \in SessionIds(l) : id # e.session.id => Latest(m, id) = Latest(l, id)
  BY <1>2, <1>8, LatestIn DEF Latest
<1>10. Proposals(m) = Proposals(l) /\ Decisions(m) = Decisions(l)
  BY <1>1, <1>2 DEF Proposals, Decisions
<1> QED BY <1>2, <1>5, <1>7, <1>8, <1>9, <1>10 DEF m, Latest

LEMMA MoreOthers ==
  ASSUME NEW l \in Seq(Frame), NEW f \in Frame, f.kind # "event"
  PROVE  /\ SessionIds(Append(l, f)) = SessionIds(l)
         /\ \A id : LatestEvent(Append(l, f), id) = LatestEvent(l, id)
         /\ \A id \in SessionIds(l) : Latest(Append(l, f), id) = Latest(l, id)
         /\ f.kind = "proposal" => /\ Proposals(Append(l, f)) = Proposals(l) \cup {f.proposal}
                                   /\ Decisions(Append(l, f)) = Decisions(l)
         /\ f.kind = "decision" => /\ Proposals(Append(l, f)) = Proposals(l)
                                   /\ Decisions(Append(l, f)) = Decisions(l) \cup {f.decision}
<1> DEFINE m == Append(l, f)
<1>2. /\ m \in Seq(Frame) /\ Len(l) \in Nat
      /\ DOMAIN l = 1 .. Len(l) /\ DOMAIN m = 1 .. Len(l) + 1
      /\ m[Len(l) + 1] = f /\ \A i \in 1 .. Len(l) : m[i] = l[i]
  BY OneMore
<1> HIDE DEF m
<1>3. Events(m) = Events(l)
  BY <1>2 DEF Events
<1>4. \A i \in Events(l) : m[i] = l[i]
  BY <1>2 DEF Events
<1>5. SessionIds(m) = SessionIds(l)
  BY <1>2, <1>3, <1>4 DEF SessionIds
<1>6. \A id : EventsOf(m, id) = EventsOf(l, id)
  BY <1>2, <1>3, <1>4 DEF EventsOf
<1>8. \A id : LatestEvent(m, id) = LatestEvent(l, id)
  BY <1>6 DEF LatestEvent
<1>9. \A id \in SessionIds(l) : Latest(m, id) = Latest(l, id)
  BY <1>2, <1>8, LatestIn DEF Latest
<1>10. CASE f.kind = "proposal"
  BY <1>2, <1>5, <1>8, <1>9, <1>10 DEF Proposals, Decisions, m
<1>11. CASE f.kind = "decision"
  BY <1>2, <1>5, <1>8, <1>9, <1>11 DEF Proposals, Decisions, m
<1> QED BY <1>5, <1>8, <1>9, <1>10, <1>11 DEF m
-----------------------------------------------------------------------------
(* Evidence that grows. *)
Longer(ts, us) == Len(ts) <= Len(us) /\ \A i \in 1 .. Len(ts) : us[i] = ts[i]

LEMMA PredecessorIn ==
  ASSUME NEW ts \in Seq(TurnRecord), NEW i \in DOMAIN ts
  PROVE  /\ Predecessor(ts, i) \in 0 .. i - 1
         /\ Predecessor(ts, i) # 0 => /\ ts[Predecessor(ts, i)].conn = ts[i].conn
                                      /\ ts[Predecessor(ts, i)].conv = ts[i].conv
         /\ \A j \in 1 .. i - 1 : ts[j].conn = ts[i].conn /\ ts[j].conv = ts[i].conv
                                    => j <= Predecessor(ts, i)
<1> DEFINE S == {j \in 1 .. i - 1 : ts[j].conn = ts[i].conn /\ ts[j].conv = ts[i].conv}
<1>1. DOMAIN ts = 1 .. Len(ts) /\ Len(ts) \in Nat
  BY LenProperties
<1>2. i \in 1 .. Len(ts) /\ i - 1 \in Nat /\ S \in SUBSET (1 .. i - 1)
  BY <1>1
<1>3. Predecessor(ts, i) = Last(S)
  BY DEF Predecessor
<1>4. CASE S = {}
  <2>1. Predecessor(ts, i) = 0
    BY <1>3, <1>4, LastOfNone
  <2> QED BY <1>2, <1>4, <2>1
<1>5. CASE S # {}
  <2>1. Last(S) \in S /\ \A j \in S : j <= Last(S)
    BY <1>2, <1>5, LastIsMax
  <2> QED BY <1>2, <1>3, <2>1
<1> QED BY <1>4, <1>5

LEMMA PredecessorKept ==
  ASSUME NEW ts \in Seq(TurnRecord), NEW us \in Seq(TurnRecord), Longer(ts, us), NEW i \in DOMAIN ts
  PROVE  i \in DOMAIN us /\ us[i] = ts[i] /\ Predecessor(us, i) = Predecessor(ts, i)
<1>1. /\ DOMAIN ts = 1 .. Len(ts) /\ Len(ts) \in Nat /\ DOMAIN us = 1 .. Len(us) /\ Len(us) \in Nat
      /\ Len(ts) <= Len(us) /\ \A j \in 1 .. Len(ts) : us[j] = ts[j]
  BY LenProperties DEF Longer
<1>2. i \in DOMAIN us /\ us[i] = ts[i] /\ \A j \in 1 .. i - 1 : us[j] = ts[j]
  BY <1>1
<1>3. {j \in 1 .. i - 1 : us[j].conn = us[i].conn /\ us[j].conv = us[i].conv}
        = {j \in 1 .. i - 1 : ts[j].conn = ts[i].conn /\ ts[j].conv = ts[i].conv}
  BY <1>2
<1> QED BY <1>2, <1>3 DEF Predecessor

(* A turn is followed by at most one of its conversation. *)
LEMMA OneFollows ==
  ASSUME NEW ts \in Seq(TurnRecord), NEW i \in DOMAIN ts, NEW j \in DOMAIN ts,
         ts[i].conn = ts[j].conn, ts[i].conv = ts[j].conv, Predecessor(ts, i) = Predecessor(ts, j)
  PROVE  i = j
<1>1. i \in Nat /\ j \in Nat /\ i >= 1 /\ j >= 1
  BY LenProperties
<1>2. Predecessor(ts, i) \in 0 .. i - 1 /\ Predecessor(ts, j) \in 0 .. j - 1
  BY PredecessorIn
<1>3. ~(i < j)
  <2>1. i < j => i <= Predecessor(ts, j)
    BY <1>1, PredecessorIn
  <2> QED BY <1>1, <1>2, <2>1
<1>4. ~(j < i)
  <2>1. j < i => j <= Predecessor(ts, i)
    BY <1>1, PredecessorIn
  <2> QED BY <1>1, <1>2, <2>1
<1> QED BY <1>1, <1>3, <1>4

LEMMA PlaceIn ==
  ASSUME NEW ts, NEW t, Places(ts, t) # {}
  PROVE  Place(ts, t) \in DOMAIN ts /\ ts[Place(ts, t)] = t
BY DEF Place, Places

LEMMA LongerBy ==
  ASSUME NEW ts \in Seq(TurnRecord), NEW t \in TurnRecord
  PROVE  /\ Append(ts, t) \in Seq(TurnRecord) /\ Longer(ts, Append(ts, t))
         /\ Places(ts, t) = {} /\ Distinct(ts) => Distinct(Append(ts, t))
         /\ Places(Append(ts, t), t) # {}
<1> DEFINE us == Append(ts, t)
<1>1. /\ us \in Seq(TurnRecord) /\ Len(us) = Len(ts) + 1 /\ Len(ts) \in Nat
      /\ DOMAIN ts = 1 .. Len(ts) /\ DOMAIN us = 1 .. Len(ts) + 1
      /\ us[Len(ts) + 1] = t /\ \A i \in 1 .. Len(ts) : us[i] = ts[i]
  BY AppendProperties, LenProperties
<1> HIDE DEF us
<1>2. Longer(ts, us)
  BY <1>1 DEF Longer
<1>3. ASSUME Places(ts, t) = {}, Distinct(ts) PROVE Distinct(us)
  <2>1. \A i \in DOMAIN ts : ts[i] # t
    BY <1>3 DEF Places
  <2>2. SUFFICES ASSUME NEW i \in DOMAIN us, NEW j \in DOMAIN us, us[i] = us[j] PROVE i = j
    BY DEF Distinct
  <2>3. CASE i \in DOMAIN ts /\ j \in DOMAIN ts
    BY <1>1, <1>3, <2>2, <2>3 DEF Distinct
  <2>4. CASE i \notin DOMAIN ts
    BY <1>1, <2>1, <2>2, <2>4
  <2>5. CASE j \notin DOMAIN ts
    BY <1>1, <2>1, <2>2, <2>5
  <2> QED BY <2>3, <2>4, <2>5
<1>4. Places(us, t) # {}
  <2>1. Len(ts) + 1 \in Places(us, t)
    BY <1>1 DEF Places
  <2> QED BY <2>1
<1> QED BY <1>1, <1>2, <1>3, <1>4 DEF us

LEMMA LongerTwice ==
  ASSUME NEW ts \in Seq(TurnRecord), NEW us \in Seq(TurnRecord), NEW vs \in Seq(TurnRecord),
         Longer(ts, us), Longer(us, vs)
  PROVE  Longer(ts, vs)
<1>1. Len(ts) \in Nat /\ Len(us) \in Nat /\ Len(vs) \in Nat
  BY LenProperties
<1> QED BY <1>1 DEF Longer

LEMMA RecordGrows ==
  ASSUME NEW ts \in Seq(TurnRecord), NEW t \in TurnRecord
  PROVE  /\ Record(ts, t) \in Seq(TurnRecord) /\ Longer(ts, Record(ts, t))
         /\ Distinct(ts) => Distinct(Record(ts, t))
         /\ Places(Record(ts, t), t) # {}
<1>1. CASE Places(ts, t) = {}
  BY <1>1, LongerBy DEF Record
<1>2. CASE Places(ts, t) # {}
  <2>1. Longer(ts, ts)
    BY LenProperties DEF Longer
  <2> QED BY <1>2, <2>1 DEF Record
<1> QED BY <1>1, <1>2

LEMMA RecordedGrows ==
  ASSUME NEW ts \in Seq(TurnRecord), NEW new \in Seq(TurnRecord), NEW all \in Recorded(ts, new)
  PROVE  /\ all \in Seq(TurnRecord) /\ Longer(ts, all)
         /\ \A k \in DOMAIN new : Places(all, new[k]) # {}
         /\ Distinct(ts) /\ Distinct(new) => Distinct(all)
<1>1. PICK n \in 0 .. Len(new) :
        /\ \A k \in DOMAIN new : Places(ts, new[k]) # {} <=> k <= n
        /\ all = ts \o SubSeq(new, n + 1, Len(new))
  BY DEF Recorded
<1> DEFINE rest == SubSeq(new, n + 1, Len(new))
<1>2. /\ Len(ts) \in Nat /\ Len(new) \in Nat /\ n \in Nat /\ n <= Len(new)
      /\ DOMAIN ts = 1 .. Len(ts) /\ DOMAIN new = 1 .. Len(new)
  BY LenProperties
<1>3. /\ rest \in Seq(TurnRecord) /\ Len(rest) = Len(new) - n
      /\ \A k \in 1 .. Len(new) - n : rest[k] = new[n + k]
  <2>1. n + 1 \in Int /\ Len(new) \in Int /\ \A i \in n + 1 .. Len(new) : new[i] \in TurnRecord
    BY <1>2, ElementOfSeq
  <2>2. /\ rest \in Seq(TurnRecord)
        /\ Len(rest) = IF n + 1 <= Len(new) THEN Len(new) - (n + 1) + 1 ELSE 0
        /\ \A k \in 1 .. Len(new) - (n + 1) + 1 : rest[k] = new[n + 1 + k - 1]
    BY <2>1, SubSeqProperties
  <2> HIDE DEF rest
  <2>3. Len(rest) = Len(new) - n
    <3>1. Len(rest) = IF n + 1 <= Len(new) THEN Len(new) - (n + 1) + 1 ELSE 0
      BY <2>2
    <3>2. n \in Int /\ Len(new) \in Int /\ (n < Len(new) \/ n = Len(new))
      <4>1. n \in Int /\ Len(new) \in Int /\ n <= Len(new)
        BY <1>2
      <4> QED BY <4>1
    <3>3. CASE n < Len(new)
      <4>1. Len(rest) = Len(new) - (n + 1) + 1
        BY <3>1, <3>2, <3>3
      <4> QED BY <3>2, <4>1
    <3>4. CASE n = Len(new)
      <4>1. Len(rest) = 0
        BY <3>1, <3>2, <3>4
      <4> QED BY <3>2, <3>4, <4>1
    <3> QED BY <3>2, <3>3, <3>4
  <2>4. ASSUME NEW k \in 1 .. Len(new) - n PROVE rest[k] = new[n + k]
    <3>1. k \in 1 .. Len(new) - (n + 1) + 1 /\ n + 1 + k - 1 = n + k
      BY <1>2
    <3> QED BY <2>2, <3>1
  <2> QED BY <2>2, <2>3, <2>4
<1> HIDE DEF rest
<1>4. /\ all \in Seq(TurnRecord) /\ Len(all) = Len(ts) + Len(new) - n
      /\ \A i \in 1 .. Len(ts) : all[i] = ts[i]
      /\ \A k \in 1 .. Len(new) - n : all[Len(ts) + k] = new[n + k]
  <2>1. all = ts \o rest
    BY <1>1 DEF rest
  <2>2. /\ all \in Seq(TurnRecord) /\ Len(all) = Len(ts) + Len(rest)
        /\ \A i \in 1 .. Len(ts) + Len(rest) :
             all[i] = IF i <= Len(ts) THEN ts[i] ELSE rest[i - Len(ts)]
    BY <1>3, <2>1, ConcatProperties
  <2>3. \A k \in 1 .. Len(new) - n : Len(ts) + k \in 1 .. Len(ts) + Len(rest) /\ ~(Len(ts) + k <= Len(ts))
                                     /\ Len(ts) + k - Len(ts) = k
    BY <1>2, <1>3
  <2>4. \A i \in 1 .. Len(ts) : i \in 1 .. Len(ts) + Len(rest) /\ i <= Len(ts)
    BY <1>2, <1>3
  <2>5. \A i \in 1 .. Len(ts) : all[i] = ts[i]
    BY <2>2, <2>4
  <2>6. \A k \in 1 .. Len(new) - n : all[Len(ts) + k] = new[n + k]
    BY <1>3, <2>2, <2>3
  <2>7. Len(all) = Len(ts) + Len(new) - n
    BY <1>2, <1>3, <2>2
  <2> QED BY <2>2, <2>5, <2>6, <2>7
<1>5. Longer(ts, all) /\ DOMAIN all = 1 .. Len(all)
  BY <1>2, <1>4, LenProperties DEF Longer
<1>6. ASSUME NEW k \in DOMAIN new PROVE Places(all, new[k]) # {}
  <2>1. CASE k <= n
    <3>1. PICK i \in DOMAIN ts : ts[i] = new[k]
      BY <1>1, <2>1 DEF Places
    <3>2. i \in DOMAIN all /\ all[i] = new[k]
      BY <1>2, <1>4, <1>5, <3>1
    <3> QED BY <3>2 DEF Places
  <2>2. CASE ~(k <= n)
    <3>1. k - n \in 1 .. Len(new) - n /\ n + (k - n) = k /\ Len(ts) + (k - n) \in 1 .. Len(all)
      BY <1>2, <1>4, <2>2
    <3>2. Len(ts) + (k - n) \in DOMAIN all /\ all[Len(ts) + (k - n)] = new[k]
      BY <1>4, <1>5, <3>1
    <3> QED BY <3>2 DEF Places
  <2> QED BY <2>1, <2>2
<1>7. ASSUME Distinct(ts), Distinct(new) PROVE Distinct(all)
  <2>1. ASSUME NEW i \in DOMAIN ts, NEW k \in DOMAIN new, k > n PROVE ts[i] # new[k]
    <3>1. ~(k <= n)
      BY <1>2, <2>1
    <3>2. Places(ts, new[k]) = {}
      BY <1>1, <3>1
    <3> QED BY <3>2 DEF Places
  <2>2. \A i \in DOMAIN all : \/ i \in DOMAIN ts /\ all[i] = ts[i]
                              \/ /\ i - Len(ts) + n \in DOMAIN new /\ i - Len(ts) + n > n
                                 /\ all[i] = new[i - Len(ts) + n]
    <3>1. SUFFICES ASSUME NEW i \in 1 .. Len(all), i > Len(ts)
                   PROVE  /\ i - Len(ts) + n \in 1 .. Len(new) /\ i - Len(ts) + n > n
                          /\ all[i] = new[i - Len(ts) + n]
      BY <1>2, <1>4, <1>5
    <3>2. i - Len(ts) \in 1 .. Len(new) - n /\ Len(ts) + (i - Len(ts)) = i /\ n + (i - Len(ts)) = i - Len(ts) + n
      BY <1>2, <1>4, <3>1
    <3>3. all[Len(ts) + (i - Len(ts))] = new[n + (i - Len(ts))]
      BY <1>4, <3>2
    <3>4. all[i] = new[i - Len(ts) + n]
      BY <3>2, <3>3
    <3>5. i - Len(ts) + n \in 1 .. Len(new) /\ i - Len(ts) + n > n
      BY <1>2, <1>4, <3>1
    <3> QED BY <3>4, <3>5
  <2>3. SUFFICES ASSUME NEW i \in DOMAIN all, NEW j \in DOMAIN all, all[i] = all[j] PROVE i = j
    BY DEF Distinct
  <2>4. i \in Nat /\ j \in Nat
    BY <1>5
  <2>5. CASE i \in DOMAIN ts /\ j \in DOMAIN ts
    BY <1>2, <1>4, <1>7, <2>3, <2>5 DEF Distinct
  <2>6. CASE i \in DOMAIN ts /\ j \notin DOMAIN ts
    BY <1>2, <1>4, <2>1, <2>2, <2>3, <2>6
  <2>7. CASE i \notin DOMAIN ts /\ j \in DOMAIN ts
    BY <1>2, <1>4, <2>1, <2>2, <2>3, <2>7
  <2>8. CASE i \notin DOMAIN ts /\ j \notin DOMAIN ts
    <3>1. i - Len(ts) + n = j - Len(ts) + n
      BY <1>7, <2>2, <2>3, <2>8 DEF Distinct
    <3> QED BY <1>2, <2>4, <3>1
  <2> QED BY <2>5, <2>6, <2>7, <2>8
<1> QED BY <1>4, <1>5, <1>6, <1>7
-----------------------------------------------------------------------------
(* What an operation changes in the ledger: the latest event of one        *)
(* session, proposals and decisions; or no event at all.                   *)
Grown(l, m, e, P, D) ==
  /\ m \in Seq(Frame) /\ Longer(l, m)
  /\ SessionIds(m) = SessionIds(l) \cup {e.session.id}
  /\ Latest(m, e.session.id) = e
  /\ \A id \in SessionIds(l) : id # e.session.id => Latest(m, id) = Latest(l, id)
  /\ Proposals(m) = Proposals(l) \cup P /\ Decisions(m) = Decisions(l) \cup D
Quiet(l, m, P, D) ==
  /\ m \in Seq(Frame) /\ Longer(l, m)
  /\ SessionIds(m) = SessionIds(l)
  /\ \A id \in SessionIds(l) : Latest(m, id) = Latest(l, id)
  /\ Proposals(m) = Proposals(l) \cup P /\ Decisions(m) = Decisions(l) \cup D

LEMMA OtherFrames ==
  /\ \A p \in Proposal : ProposalFrame(p) \in Frame /\ ProposalFrame(p).kind = "proposal"
                         /\ ProposalFrame(p).proposal = p
  /\ \A d \in Decision : DecisionFrame(d) \in Frame /\ DecisionFrame(d).kind = "decision"
                         /\ DecisionFrame(d).decision = d
<1>1. ASSUME NEW p \in Proposal
      PROVE  ProposalFrame(p) \in [kind : {"proposal"}, proposal : Proposal]
  BY DEF ProposalFrame
<1>2. ASSUME NEW d \in Decision
      PROVE  DecisionFrame(d) \in [kind : {"decision"}, decision : Decision]
  BY DEF DecisionFrame
<1>3. \A p : ProposalFrame(p).kind = "proposal" /\ ProposalFrame(p).proposal = p
  BY DEF ProposalFrame
<1>4. \A d : DecisionFrame(d).kind = "decision" /\ DecisionFrame(d).decision = d
  BY DEF DecisionFrame
<1> QED BY <1>1, <1>2, <1>3, <1>4 DEF Frame

LEMMA TwoMore ==
  ASSUME NEW l \in Seq(Frame), NEW f \in Frame, NEW g \in Frame
  PROVE  l \o <<f, g>> = Append(Append(l, f), g)
<1> DEFINE m == l \o <<f, g>>
           n == Append(Append(l, f), g)
<1>1. /\ Len(<<f, g>>) = 2 /\ <<f, g>>[1] = f /\ <<f, g>>[2] = g /\ <<f, g>> \in Seq(Frame)
  OBVIOUS
<1>2. /\ m \in Seq(Frame) /\ Len(l) \in Nat /\ Len(m) = Len(l) + 2
      /\ \A i \in 1 .. Len(l) + 2 : m[i] = IF i <= Len(l) THEN l[i] ELSE <<f, g>>[i - Len(l)]
  BY <1>1, ConcatProperties, LenProperties
<1>3. /\ n \in Seq(Frame) /\ Len(n) = Len(l) + 1 + 1
      /\ n[Len(l) + 1 + 1] = g /\ n[Len(l) + 1] = f /\ \A i \in 1 .. Len(l) : n[i] = l[i]
  <2>1. /\ Append(l, f) \in Seq(Frame) /\ Len(Append(l, f)) = Len(l) + 1
        /\ Append(l, f)[Len(l) + 1] = f /\ \A i \in 1 .. Len(l) : Append(l, f)[i] = l[i]
    BY OneMore
  <2>2. /\ n \in Seq(Frame) /\ Len(n) = Len(Append(l, f)) + 1 /\ n[Len(Append(l, f)) + 1] = g
        /\ \A i \in 1 .. Len(Append(l, f)) : n[i] = Append(l, f)[i]
    BY <2>1, OneMore
  <2> HIDE DEF n
  <2>3. Len(l) + 1 \in 1 .. Len(l) + 1 /\ \A i \in 1 .. Len(l) : i \in 1 .. Len(l) + 1
    BY <1>2
  <2> QED BY <2>1, <2>2, <2>3
<1> HIDE DEF m, n
<1>4. ASSUME NEW i \in 1 .. Len(l) + 2 PROVE m[i] = n[i]
  <2>1. CASE i <= Len(l)
    BY <1>2, <1>3, <2>1
  <2>2. CASE i = Len(l) + 1
    <3>1. i - Len(l) = 1 /\ ~(i <= Len(l))
      BY <1>2, <2>2
    <3> QED BY <1>1, <1>2, <1>3, <2>2, <3>1
  <2>3. CASE i = Len(l) + 2
    <3>1. i - Len(l) = 2 /\ ~(i <= Len(l)) /\ i = Len(l) + 1 + 1
      BY <1>2, <2>3
    <3>2. m[i] = g
      BY <1>1, <1>2, <3>1
    <3> QED BY <1>3, <3>1, <3>2
  <2> QED BY <1>2, <2>1, <2>2, <2>3
<1>5. Len(m) = Len(n)
  BY <1>2, <1>3
<1>6. m = n
  BY <1>2, <1>3, <1>4, <1>5, SeqEqual
<1> QED BY <1>6 DEF m, n

LEMMA OneLonger ==
  ASSUME NEW l \in Seq(Frame), NEW f \in Frame
  PROVE  Longer(l, Append(l, f))
BY OneMore DEF Longer

LEMMA TwoLonger ==
  ASSUME NEW l \in Seq(Frame), NEW f \in Frame, NEW g \in Frame
  PROVE  Longer(l, Append(Append(l, f), g)) /\ Append(Append(l, f), g) \in Seq(Frame)
<1>1. /\ Append(l, f) \in Seq(Frame) /\ Longer(l, Append(l, f)) /\ Len(l) \in Nat
      /\ Len(Append(l, f)) = Len(l) + 1
  BY OneMore, OneLonger
<1>2. /\ Append(Append(l, f), g) \in Seq(Frame) /\ Longer(Append(l, f), Append(Append(l, f), g))
      /\ Len(Append(Append(l, f), g)) = Len(l) + 1 + 1
  BY <1>1, OneMore, OneLonger
<1> QED BY <1>1, <1>2 DEF Longer

LEMMA GrownByEvent ==
  ASSUME NEW l \in Seq(Frame), NEW e \in EventFrame
  PROVE  Grown(l, Append(l, e), e, {}, {})
<1>1. e \in Frame
  BY DEF Frame
<1> QED BY <1>1, OneMore, OneLonger, MoreEvents DEF Grown

LEMMA GrownByProposal ==
  ASSUME NEW l \in Seq(Frame), NEW e \in EventFrame, NEW p \in Proposal
  PROVE  Grown(l, Append(Append(l, e), ProposalFrame(p)), e, {p}, {})
<1> DEFINE k == Append(l, e)
           m == Append(k, ProposalFrame(p))
<1>1. /\ e \in Frame /\ ProposalFrame(p) \in Frame /\ ProposalFrame(p).kind = "proposal"
      /\ ProposalFrame(p).proposal = p
  BY OtherFrames DEF Frame
<1>2. Grown(l, k, e, {}, {}) /\ Longer(l, m) /\ m \in Seq(Frame)
  BY <1>1, GrownByEvent, TwoLonger
<1>3. k \in Seq(Frame)
  BY <1>2 DEF Grown
<1> HIDE DEF k
<1>4. /\ SessionIds(m) = SessionIds(k) /\ \A id \in SessionIds(k) : Latest(m, id) = Latest(k, id)
      /\ Proposals(m) = Proposals(k) \cup {p} /\ Decisions(m) = Decisions(k)
  BY <1>1, <1>3, MoreOthers
<1> HIDE DEF m
<1>5. Grown(l, m, e, {p}, {})
  BY <1>2, <1>4 DEF Grown
<1> QED BY <1>5 DEF m, k

LEMMA GrownByDecision ==
  ASSUME NEW l \in Seq(Frame), NEW e \in EventFrame, NEW d \in Decision
  PROVE  Grown(l, Append(Append(l, DecisionFrame(d)), e), e, {}, {d})
<1> DEFINE k == Append(l, DecisionFrame(d))
           m == Append(k, e)
<1>1. /\ e \in Frame /\ DecisionFrame(d) \in Frame /\ DecisionFrame(d).kind = "decision"
      /\ DecisionFrame(d).decision = d
  BY OtherFrames DEF Frame
<1>2. /\ k \in Seq(Frame) /\ SessionIds(k) = SessionIds(l)
      /\ \A id \in SessionIds(l) : Latest(k, id) = Latest(l, id)
      /\ Proposals(k) = Proposals(l) /\ Decisions(k) = Decisions(l) \cup {d}
      /\ Longer(l, m) /\ m \in Seq(Frame)
  BY <1>1, OneMore, MoreOthers, TwoLonger
<1> HIDE DEF k
<1>3. Grown(k, m, e, {}, {})
  BY <1>2, GrownByEvent
<1> HIDE DEF m
<1>4. Grown(l, m, e, {}, {d})
  BY <1>2, <1>3 DEF Grown
<1> QED BY <1>4 DEF m, k

LEMMA QuietProposal ==
  ASSUME NEW l \in Seq(Frame), NEW p \in Proposal
  PROVE  Quiet(l, Append(l, ProposalFrame(p)), {p}, {})
<1>1. /\ ProposalFrame(p) \in Frame /\ ProposalFrame(p).kind = "proposal"
      /\ ProposalFrame(p).proposal = p
  BY OtherFrames
<1> QED BY <1>1, OneMore, OneLonger, MoreOthers DEF Quiet

LEMMA QuietDecision ==
  ASSUME NEW l \in Seq(Frame), NEW d \in Decision
  PROVE  Quiet(l, Append(l, DecisionFrame(d)), {}, {d})
<1>1. /\ DecisionFrame(d) \in Frame /\ DecisionFrame(d).kind = "decision"
      /\ DecisionFrame(d).decision = d
  BY OtherFrames
<1> QED BY <1>1, OneMore, OneLonger, MoreOthers DEF Quiet
-----------------------------------------------------------------------------
(* The ledger stays coherent. *)
LEMMA SessionIsLatest == \A l, id : Session(l, id) = Latest(l, id).session
BY DEF Session, Latest

LEMMA OpenedStays ==
  ASSUME NEW l \in Seq(Frame), NEW m \in Seq(Frame), Longer(l, m), NEW i \in Events(l)
  PROVE  i \in Events(m) /\ m[i] = l[i]
<1>1. /\ DOMAIN l = 1 .. Len(l) /\ DOMAIN m = 1 .. Len(m) /\ Len(l) \in Nat /\ Len(m) \in Nat
      /\ Len(l) <= Len(m) /\ \A j \in 1 .. Len(l) : m[j] = l[j]
  BY LenProperties DEF Longer
<1> QED BY <1>1 DEF Events

LEMMA DifferKept ==
  ASSUME NEW l \in Seq(Frame), NEW m \in Seq(Frame), Longer(l, m), SessionsDiffer(l),
         SessionIds(m) = SessionIds(l),
         \A id \in SessionIds(l) : Material(Session(m, id)) = Material(Session(l, id))
  PROVE  SessionsDiffer(m)
<1>1. ASSUME NEW id \in SessionIds(m)
      PROVE  \E i \in Events(m) : m[i].type = "opened" /\ Material(m[i].session) = Material(Session(m, id))
  <2>1. PICK i \in Events(l) : l[i].type = "opened" /\ Material(l[i].session) = Material(Session(l, id))
    BY DEF SessionsDiffer
  <2> QED BY <2>1, OpenedStays
<1>2. \A a, b \in SessionIds(m) : Material(Session(m, a)) = Material(Session(m, b)) => a = b
  BY DEF SessionsDiffer
<1> QED BY <1>1, <1>2 DEF SessionsDiffer

LEMMA FineKept ==
  ASSUME NEW l \in Seq(Frame), NEW m \in Seq(Frame), Longer(l, m), SessionsFine(l), NEW e,
         e.session.id \in 1 .. Len(m), Fine(e), Latest(m, e.session.id) = e,
         SessionIds(m) = SessionIds(l) \cup {e.session.id},
         \A id \in SessionIds(l) : id # e.session.id => Latest(m, id) = Latest(l, id)
  PROVE  SessionsFine(m)
<1>1. Len(l) \in Nat /\ Len(m) \in Nat /\ Len(l) <= Len(m)
  BY LenProperties DEF Longer
<1>2. \A id \in SessionIds(l) : id \in 1 .. Len(m)
  BY <1>1 DEF SessionsFine
<1> QED BY <1>2 DEF SessionsFine

(* append_clarification of an opened event. *)
LEMMA CoherentOpened ==
  ASSUME NEW l \in Seq(Frame), Coherent(l), NEW e \in EventFrame, NEW m, Grown(l, m, e, {}, {}),
         m = Append(l, e), e.type = "opened", e.session.id = Len(l) + 1, e.session.status = "open",
         Fine(e), SessionWith(l, e.session) = 0
  PROVE  Coherent(m)
<1> DEFINE id == Len(l) + 1
<1>1. /\ m \in Seq(Frame) /\ Longer(l, m) /\ Latest(m, id) = e
      /\ SessionIds(m) = SessionIds(l) \cup {id}
      /\ \A x \in SessionIds(l) : x # id => Latest(m, x) = Latest(l, x)
      /\ Proposals(m) = Proposals(l) /\ Decisions(m) = Decisions(l)
  BY DEF Grown
<1>2. Len(l) \in Nat /\ Len(m) = Len(l) + 1 /\ m[id] = e /\ id \in Events(m) /\ id \in 1 .. Len(m)
  <2>1. e \in Frame /\ e.kind = "event"
    BY DEF Frame, EventFrame
  <2>2. /\ Len(l) \in Nat /\ Len(m) = Len(l) + 1 /\ m[id] = e /\ DOMAIN m = 1 .. Len(l) + 1
    BY <2>1, OneMore
  <2> QED BY <2>1, <2>2 DEF Events
<1>3. id \notin SessionIds(l)
  <2>1. \A x \in SessionIds(l) : x \in 1 .. Len(l)
    BY DEF Coherent, SessionsFine
  <2> QED BY <1>2, <2>1
<1>4. SessionsFine(m)
  <2>1. SessionsFine(l)
    BY DEF Coherent
  <2> QED BY <1>1, <1>2, <2>1, FineKept
<1> HIDE DEF id
<1>5. \A x \in SessionIds(l) : Latest(m, x) = Latest(l, x) /\ Session(m, x) = Session(l, x)
  BY <1>1, <1>3, SessionIsLatest
<1>6. \A x \in SessionIds(l) : Material(Session(l, x)) # Material(e.session)
  <2>1. SUFFICES ASSUME NEW x \in SessionIds(l), Material(Session(l, x)) = Material(e.session) PROVE FALSE
    OBVIOUS
  <2> DEFINE S == {i \in Events(l) : l[i].type = "opened" /\ Material(l[i].session) = Material(e.session)}
  <2>2. S # {}
    BY <2>1 DEF Coherent, SessionsDiffer
  <2>3. S \in SUBSET (1 .. Len(l))
    BY LenProperties DEF Events
  <2>4. Last(S) \in S
    BY <1>2, <2>2, <2>3, LastIsMax
  <2>5. Last(S) = 0
    BY DEF SessionWith
  <2> QED BY <2>3, <2>4, <2>5
<1>7. SessionsDiffer(m)
  <2>1. Session(m, id) = e.session
    BY <1>1, SessionIsLatest
  <2>2. ASSUME NEW x \in SessionIds(m)
        PROVE  \E i \in Events(m) : m[i].type = "opened" /\ Material(m[i].session) = Material(Session(m, x))
    <3>1. CASE x \in SessionIds(l)
      <4>1. PICK i \in Events(l) : l[i].type = "opened" /\ Material(l[i].session) = Material(Session(l, x))
        BY <3>1 DEF Coherent, SessionsDiffer
      <4> QED BY <1>1, <1>5, <3>1, <4>1, OpenedStays
    <3>2. CASE x = id
      BY <1>2, <2>1, <3>2
    <3> QED BY <1>1, <3>1, <3>2
  <2>3. ASSUME NEW a \in SessionIds(m), NEW b \in SessionIds(m),
               Material(Session(m, a)) = Material(Session(m, b))
        PROVE  a = b
    <3>1. CASE a \in SessionIds(l) /\ b \in SessionIds(l)
      BY <1>5, <2>3, <3>1 DEF Coherent, SessionsDiffer
    <3>2. CASE a = id /\ b \in SessionIds(l)
      BY <1>5, <1>6, <2>1, <2>3, <3>2
    <3>3. CASE a \in SessionIds(l) /\ b = id
      BY <1>5, <1>6, <2>1, <2>3, <3>3
    <3> QED BY <1>1, <3>1, <3>2, <3>3
  <2> QED BY <2>2, <2>3 DEF SessionsDiffer
<1>8. Session(m, id).status = "open"
  BY <1>1, SessionIsLatest
<1>9. ProposalsNamed(m)
  <2>1. ProposalsNamed(l)
    BY DEF Coherent
  <2> QED BY <1>1, <1>5, <1>8, <2>1 DEF ProposalsNamed
<1>10. DecisionsNamed(m)
  <2>1. DecisionsNamed(l) /\ ProposalsNamed(l)
    BY DEF Coherent
  <2>2. \A d \in Decisions(l) : d.proposal.session # 0 => d.proposal.session \in SessionIds(l)
    BY <2>1 DEF DecisionsNamed, ProposalsNamed
  <2> QED BY <1>1, <1>5, <1>8, <2>1, <2>2 DEF DecisionsNamed
<1> QED BY <1>4, <1>7, <1>9, <1>10 DEF Coherent

(* ... of an answered or conflicted one. *)
LEMMA CoherentAnswered ==
  ASSUME NEW l \in Seq(Frame), Coherent(l), NEW e \in EventFrame, NEW m, Grown(l, m, e, {}, {}),
         e.session.id \in SessionIds(l), Session(l, e.session.id).status = "open",
         e.session.status = "open", Material(e.session) = Material(Session(l, e.session.id)), Fine(e)
  PROVE  Coherent(m)
<1> DEFINE id == e.session.id
<1>1. /\ m \in Seq(Frame) /\ Longer(l, m) /\ Latest(m, id) = e
      /\ SessionIds(m) = SessionIds(l)
      /\ \A x \in SessionIds(l) : x # id => Latest(m, x) = Latest(l, x)
      /\ Proposals(m) = Proposals(l) /\ Decisions(m) = Decisions(l)
  BY DEF Grown
<1>2. id \in 1 .. Len(m)
  BY LenProperties, <1>1 DEF Longer, Coherent, SessionsFine
<1>3. SessionsFine(m)
  <2>1. SessionsFine(l)
    BY DEF Coherent
  <2> QED BY <1>1, <1>2, <2>1, FineKept
<1> HIDE DEF id
<1>4. Session(m, id) = e.session
  BY <1>1, SessionIsLatest
<1>5. \A x \in SessionIds(l) : x # id => Session(m, x) = Session(l, x)
  BY <1>1, SessionIsLatest
<1>6. SessionsDiffer(m)
  <2>1. SessionsDiffer(l)
    BY DEF Coherent
  <2>2. \A x \in SessionIds(l) : Material(Session(m, x)) = Material(Session(l, x))
    BY <1>4, <1>5 DEF id
  <2> QED BY <1>1, <2>1, <2>2, DifferKept
<1>7. Session(m, id).status = "open" /\ Session(l, id).status = "open"
  BY <1>4 DEF id
<1>8. ProposalsNamed(l) /\ DecisionsNamed(l)
  BY DEF Coherent
<1>9. \A p \in Proposals(l) : p.session # 0 => p.session \in SessionIds(l) /\ p.session # id
  BY <1>7, <1>8 DEF ProposalsNamed
<1>10. ProposalsNamed(m)
  BY <1>1, <1>5, <1>7, <1>8, <1>9 DEF ProposalsNamed
<1>11. DecisionsNamed(m)
  <2>1. \A d \in Decisions(l) : d.proposal.session # 0 => d.proposal.session \in SessionIds(l) /\ d.proposal.session # id
    BY <1>8, <1>9 DEF DecisionsNamed
  <2> QED BY <1>1, <1>5, <1>7, <1>8, <2>1 DEF DecisionsNamed
<1> QED BY <1>3, <1>6, <1>10, <1>11 DEF Coherent

(* The proposal of a session, with its event. *)
LEMMA CoherentProposed ==
  ASSUME NEW l \in Seq(Frame), Coherent(l), NEW e \in EventFrame, NEW p \in Proposal,
         NEW m, Grown(l, m, e, {p}, {}),
         e.session.id \in SessionIds(l), Session(l, e.session.id).status = "open",
         e.session.status = "proposed", Material(e.session) = Material(Session(l, e.session.id)), Fine(e),
         e.proposal = p
  PROVE  Coherent(m)
<1> DEFINE id == e.session.id
<1>1. /\ m \in Seq(Frame) /\ Longer(l, m) /\ Latest(m, id) = e
      /\ SessionIds(m) = SessionIds(l)
      /\ \A x \in SessionIds(l) : x # id => Latest(m, x) = Latest(l, x)
      /\ Proposals(m) = Proposals(l) \cup {p} /\ Decisions(m) = Decisions(l)
  BY DEF Grown
<1>2. id \in 1 .. Len(m) /\ p.session = id
  BY LenProperties, <1>1 DEF Longer, Coherent, SessionsFine, Fine
<1>3. SessionsFine(m)
  <2>1. SessionsFine(l)
    BY DEF Coherent
  <2> QED BY <1>1, <1>2, <2>1, FineKept
<1> HIDE DEF id
<1>4. Session(m, id) = e.session /\ id \in SessionIds(l)
  BY <1>1, SessionIsLatest DEF id
<1>5. \A x \in SessionIds(l) : x # id => Session(m, x) = Session(l, x)
  BY <1>1, SessionIsLatest
<1>6. SessionsDiffer(m)
  <2>1. SessionsDiffer(l)
    BY DEF Coherent
  <2>2. \A x \in SessionIds(l) : Material(Session(m, x)) = Material(Session(l, x))
    BY <1>4, <1>5 DEF id
  <2> QED BY <1>1, <2>1, <2>2, DifferKept
<1>7. Session(m, id).status = "proposed" /\ Session(l, id).status = "open"
  BY <1>4 DEF id
<1>8. ProposalsNamed(l) /\ DecisionsNamed(l)
  BY DEF Coherent
<1>9. \A q \in Proposals(l) : q.session # 0 => q.session \in SessionIds(l) /\ q.session # id
  BY <1>7, <1>8 DEF ProposalsNamed
<1>10. ProposalsNamed(m)
  <2>1. ASSUME NEW q \in Proposals(m), q.session # 0
        PROVE  q.session \in SessionIds(m) /\ Latest(m, q.session).proposal = q
               /\ Session(m, q.session).status # "open"
    <3>1. CASE q = p
      BY <1>1, <1>2, <1>4, <1>7, <3>1
    <3>2. CASE q \in Proposals(l)
      BY <1>1, <1>5, <1>8, <1>9, <2>1, <3>2 DEF ProposalsNamed
    <3> QED BY <1>1, <3>1, <3>2
  <2>2. ASSUME NEW x \in SessionIds(m), Session(m, x).status # "open"
        PROVE  Latest(m, x).proposal \in Proposals(m)
    BY <1>1, <1>5, <1>8, <2>2 DEF ProposalsNamed
  <2> QED BY <2>1, <2>2 DEF ProposalsNamed
<1>11. DecisionsNamed(m)
  <2>1. \A d \in Decisions(l) : d.proposal.session # 0 => d.proposal.session \in SessionIds(l) /\ d.proposal.session # id
    BY <1>8, <1>9 DEF DecisionsNamed
  <2> QED BY <1>1, <1>5, <1>7, <1>8, <2>1 DEF DecisionsNamed
<1> QED BY <1>3, <1>6, <1>10, <1>11 DEF Coherent

(* Its decision, with the event that closes it. *)
LEMMA CoherentClosed ==
  ASSUME NEW l \in Seq(Frame), Coherent(l), NEW e \in EventFrame, NEW d \in Decision,
         NEW m, Grown(l, m, e, {}, {d}), d.proposal \in Proposals(l),
         e.session.id \in SessionIds(l), Session(l, e.session.id).status = "proposed",
         e.session.status = "closed", Material(e.session) = Material(Session(l, e.session.id)), Fine(e),
         e.proposal = d.proposal, e.decision = d
  PROVE  Coherent(m)
<1> DEFINE id == e.session.id
<1>1. /\ m \in Seq(Frame) /\ Longer(l, m) /\ Latest(m, id) = e
      /\ SessionIds(m) = SessionIds(l)
      /\ \A x \in SessionIds(l) : x # id => Latest(m, x) = Latest(l, x)
      /\ Proposals(m) = Proposals(l) /\ Decisions(m) = Decisions(l) \cup {d}
  BY DEF Grown
<1>2. id \in 1 .. Len(m) /\ d.proposal.session = id
  BY LenProperties, <1>1 DEF Longer, Coherent, SessionsFine, Fine
<1>3. SessionsFine(m)
  <2>1. SessionsFine(l)
    BY DEF Coherent
  <2> QED BY <1>1, <1>2, <2>1, FineKept
<1> HIDE DEF id
<1>4. Session(m, id) = e.session /\ id \in SessionIds(l)
  BY <1>1, SessionIsLatest DEF id
<1>5. \A x \in SessionIds(l) : x # id => Session(m, x) = Session(l, x)
  BY <1>1, SessionIsLatest
<1>6. SessionsDiffer(m)
  <2>1. SessionsDiffer(l)
    BY DEF Coherent
  <2>2. \A x \in SessionIds(l) : Material(Session(m, x)) = Material(Session(l, x))
    BY <1>4, <1>5 DEF id
  <2> QED BY <1>1, <2>1, <2>2, DifferKept
<1>7. Session(m, id).status = "closed" /\ Session(l, id).status = "proposed"
  BY <1>4 DEF id
<1>8. ProposalsNamed(l) /\ DecisionsNamed(l)
  BY DEF Coherent
<1>9. \A q \in Proposals(l) : q.session = id => q = d.proposal
  <2>1. id # 0
    BY <1>2
  <2> QED BY <1>2, <1>8, <2>1 DEF ProposalsNamed
<1>10. ProposalsNamed(m)
  <2>1. ASSUME NEW q \in Proposals(m), q.session # 0
        PROVE  q.session \in SessionIds(m) /\ Latest(m, q.session).proposal = q
               /\ Session(m, q.session).status # "open"
    <3>1. CASE q.session = id
      BY <1>1, <1>4, <1>7, <1>9, <2>1, <3>1
    <3>2. CASE q.session # id
      BY <1>1, <1>5, <1>8, <2>1, <3>2 DEF ProposalsNamed
    <3> QED BY <3>1, <3>2
  <2>2. ASSUME NEW x \in SessionIds(m), Session(m, x).status # "open"
        PROVE  Latest(m, x).proposal \in Proposals(m)
    BY <1>1, <1>5, <1>8, <2>2 DEF ProposalsNamed
  <2> QED BY <2>1, <2>2 DEF ProposalsNamed
<1>11. DecisionsNamed(m)
  <2>1. ASSUME NEW x \in Decisions(m)
        PROVE  /\ x.proposal \in Proposals(m)
               /\ x.proposal.session # 0 => Session(m, x.proposal.session).status = "closed"
    <3>1. CASE x = d
      BY <1>1, <1>2, <1>7, <3>1
    <3>2. CASE x \in Decisions(l) /\ x.proposal.session = id
      BY <1>1, <1>7, <1>8, <3>2 DEF DecisionsNamed
    <3>3. CASE x \in Decisions(l) /\ x.proposal.session # id
      BY <1>1, <1>5, <1>8, <3>3 DEF DecisionsNamed, ProposalsNamed
    <3> QED BY <1>1, <3>1, <3>2, <3>3
  <2>2. ASSUME NEW x \in SessionIds(m), Session(m, x).status = "closed"
        PROVE  Latest(m, x).decision \in Decisions(m)
    BY <1>1, <1>5, <1>8, <2>2 DEF DecisionsNamed
  <2> QED BY <2>1, <2>2 DEF DecisionsNamed
<1> QED BY <1>3, <1>6, <1>10, <1>11 DEF Coherent

(* Proposals and decisions of bootstrap calls. *)
LEMMA CoherentQuiet ==
  ASSUME NEW l \in Seq(Frame), Coherent(l), NEW m, NEW P, NEW D, Quiet(l, m, P, D),
         \A p \in P : p.session = 0,
         \A d \in D : d.proposal \in Proposals(l) /\ d.proposal.session = 0
  PROVE  Coherent(m)
<1>1. /\ m \in Seq(Frame) /\ Longer(l, m) /\ SessionIds(m) = SessionIds(l)
      /\ \A x \in SessionIds(l) : Latest(m, x) = Latest(l, x) /\ Session(m, x) = Session(l, x)
      /\ Proposals(m) = Proposals(l) \cup P /\ Decisions(m) = Decisions(l) \cup D
  BY SessionIsLatest DEF Quiet
<1>2. SessionsFine(m)
  <2>1. Len(l) \in Nat /\ Len(m) \in Nat /\ Len(l) <= Len(m)
    BY <1>1, LenProperties DEF Longer
  <2>2. \A x \in SessionIds(m) : x \in 1 .. Len(m)
    BY <1>1, <2>1 DEF Coherent, SessionsFine
  <2> QED BY <1>1, <2>2 DEF Coherent, SessionsFine
<1>3. SessionsDiffer(m)
  <2>1. SessionsDiffer(l)
    BY DEF Coherent
  <2> QED BY <1>1, <2>1, DifferKept
<1>4. ProposalsNamed(l) /\ DecisionsNamed(l)
  BY DEF Coherent
<1>5. ProposalsNamed(m)
  BY <1>1, <1>4 DEF ProposalsNamed
<1>6. DecisionsNamed(m)
  <2>1. \A d \in Decisions(l) : d.proposal.session # 0 => d.proposal.session \in SessionIds(l)
    BY <1>4 DEF DecisionsNamed, ProposalsNamed
  <2> QED BY <1>1, <1>4, <2>1 DEF DecisionsNamed
<1> QED BY <1>2, <1>3, <1>5, <1>6 DEF Coherent
-----------------------------------------------------------------------------
(* What the operations write. *)
LEMMA LocalType ==
  ASSUME held \in Authority
  PROVE  Local \in Actor /\ Aliases(Local) \in Acl /\ Principals \in Acl
<1>1. Local \in Actor
  BY ClarificationAssumption DEF Local
<1>2. Aliases(Local) = held.alias[held.local] /\ Principals = {Agent} \cup held.alias[held.local]
  BY DEF Aliases, Local, Principals
<1> QED BY <1>1, <1>2 DEF Acl

LEMMA AskedType ==
  ASSUME NEW asked \in Asked
  PROVE  /\ Len(asked) \in Nat \ {0} /\ DOMAIN asked = 1 .. Len(asked) /\ 1 \in DOMAIN asked
         /\ \A k \in DOMAIN asked : asked[k].id \in QuestionId /\ asked[k].required \in BOOLEAN
         /\ \A j, k \in DOMAIN asked : asked[j].id = asked[k].id => j = k
<1>1. asked \in Seq([id : QuestionId, required : BOOLEAN]) /\ asked # <<>>
  BY ClarificationAssumption
<1>2. Len(asked) \in Nat \ {0} /\ DOMAIN asked = 1 .. Len(asked)
  BY <1>1, LenProperties, EmptySeq
<1>3. \A k \in DOMAIN asked : asked[k] \in [id : QuestionId, required : BOOLEAN]
  BY <1>1, <1>2, ElementOfSeq
<1>4. \A j, k \in DOMAIN asked : asked[j].id = asked[k].id => j = k
  BY ClarificationAssumption
<1> QED BY <1>2, <1>3, <1>4

LEMMA TurnType ==
  ASSUME NEW conn \in {Codex} \cup AnswerConnector, NEW cv \in Conv, NEW role \in {"agent", "human"},
         NEW author \in Actor \cup {Agent},
         NEW kind \in {"prompt", "question", "answer", "classification"}, NEW body \in Body,
         NEW at \in Nat, NEW acl \in Acl
  PROVE  Turn(conn, cv, role, author, kind, body, at, acl) \in TurnRecord
BY DEF Turn, TurnRecord

LEMMA QuestionTurnsType ==
  ASSUME held \in Authority, NEW cv \in Conv, NEW asked \in Asked, NEW at \in Nat
  PROVE  /\ QuestionTurns(cv, asked, at) \in Seq(TurnRecord)
         /\ DOMAIN QuestionTurns(cv, asked, at) = DOMAIN asked
         /\ Distinct(QuestionTurns(cv, asked, at))
         /\ \A k \in DOMAIN asked : QuestionTurns(cv, asked, at)[k] =
              Turn(Codex, cv, "agent", Agent, "question", asked[k].id, at, Principals)
<1> DEFINE qs == QuestionTurns(cv, asked, at)
<1>1. qs = [k \in DOMAIN asked |-> Turn(Codex, cv, "agent", Agent, "question", asked[k].id, at, Principals)]
  BY DEF QuestionTurns
<1> HIDE DEF qs
<1>2. Principals \in Acl
  BY LocalType
<1>3. ASSUME NEW k \in DOMAIN asked
      PROVE  Turn(Codex, cv, "agent", Agent, "question", asked[k].id, at, Principals) \in TurnRecord
  <2>1. asked[k].id \in Body
    BY AskedType DEF Body
  <2> QED BY <1>2, <2>1, TurnType
<1>4. DOMAIN qs = DOMAIN asked /\ \A k \in DOMAIN asked : qs[k] =
              Turn(Codex, cv, "agent", Agent, "question", asked[k].id, at, Principals)
  BY <1>1
<1>5. Len(asked) \in Nat /\ qs \in [1 .. Len(asked) -> TurnRecord]
  BY <1>1, <1>3, AskedType
<1>6. qs \in Seq(TurnRecord)
  BY <1>5, SeqDef
<1>7. \A k \in DOMAIN asked : qs[k].body = asked[k].id
  BY <1>4 DEF Turn
<1>8. Distinct(qs)
  BY <1>4, <1>7, AskedType DEF Distinct
<1> QED BY <1>4, <1>6, <1>8 DEF qs

(* The session that an opening starts, and its event. *)
LEMMA OpeningType ==
  ASSUME TypeInv, NEW ts \in Seq(TurnRecord), NEW task \in Task, NEW c \in DOMAIN ts,
         NEW asked \in Asked, NEW at \in Nat,
         \A k \in DOMAIN asked : Places(ts, QuestionTurns(task.conv, asked, at)[k]) # {}
  PROVE  /\ Opening(ts, task, c, asked, at) \in SessionRecord
         /\ OpenedEvent(ts, task, c, asked, at) \in EventFrame
         /\ \A k \in DOMAIN asked :
              Place(ts, QuestionTurns(task.conv, asked, at)[k]) \in DOMAIN ts
<1> DEFINE placed == QuestionTurns(task.conv, asked, at)
           ev(k) == Place(ts, placed[k])
           qs == [k \in DOMAIN asked |->
                    [id |-> asked[k].id, required |-> asked[k].required, author |-> Agent,
                     at |-> at, evidence |-> ev(k), previous |-> Predecessor(ts, ev(k))]]
<1>1. DOMAIN ts = 1 .. Len(ts) /\ Len(ts) \in Nat /\ Len(ledger) \in Nat /\ c \in Nat
  BY LenProperties DEF TypeInv
<1>2. \A k \in DOMAIN asked : ev(k) \in DOMAIN ts
  BY PlaceIn
<1>3. \A k \in DOMAIN asked : ev(k) \in Nat /\ Predecessor(ts, ev(k)) \in Nat
  <2>1. ASSUME NEW k \in DOMAIN asked PROVE ev(k) \in Nat /\ Predecessor(ts, ev(k)) \in Nat
    <3>1. ev(k) \in DOMAIN ts /\ ev(k) \in 1 .. Len(ts)
      BY <1>1, <1>2
    <3> HIDE DEF ev
    <3>2. Predecessor(ts, ev(k)) \in 0 .. ev(k) - 1
      BY <3>1, PredecessorIn
    <3> QED BY <1>1, <3>1, <3>2
  <2> QED BY <2>1
<1> HIDE DEF ev
<1>4. qs \in [1 .. Len(asked) -> Question]
  BY <1>3, AskedType DEF Question
<1>5. qs \in Seq(Question)
  BY <1>4, AskedType, SeqDef
<1>6. Opening(ts, task, c, asked, at) =
        [id |-> Len(ledger) + 1, task |-> task, request |-> task.request, classification |-> c,
         openedBy |-> Agent, openedAt |-> at, baseline |-> task.version, status |-> "open",
         questions |-> qs, answers |-> <<>>, conflicts |-> <<>>]
  BY DEF Opening, ev
<1> HIDE DEF qs
<1>7. task.request \in Nat /\ task.version \in Nat /\ Len(ledger) + 1 \in Nat
  BY <1>1 DEF Task
<1>8. <<>> \in Seq(AnswerRecord) /\ <<>> \in Seq(Conflict)
  BY EmptySeq
<1> HIDE DEF placed
<1>9. Opening(ts, task, c, asked, at) \in SessionRecord
  BY <1>1, <1>5, <1>6, <1>7, <1>8 DEF SessionRecord
<1>10. OpenedEvent(ts, task, c, asked, at) \in EventFrame
  BY <1>9 DEF OpenedEvent, Event, EventFrame
<1> QED BY <1>2, <1>9, <1>10 DEF ev, placed

LEMMA OpeningFacts ==
  ASSUME NEW ts, NEW task, NEW c, NEW asked, NEW at, NEW s, NEW e,
         s = Opening(ts, task, c, asked, at), e = OpenedEvent(ts, task, c, asked, at)
  PROVE  /\ e.session = s /\ e.type = "opened" /\ e.at = at /\ e.kind = "event"
         /\ s.id = Len(ledger) + 1 /\ s.status = "open" /\ s.answers = <<>> /\ s.conflicts = <<>>
         /\ s.openedAt = at /\ s.openedBy = Agent /\ s.task = task /\ s.request = task.request
         /\ s.classification = c /\ s.baseline = task.version
         /\ s.questions = [k \in DOMAIN asked |->
              [id |-> asked[k].id, required |-> asked[k].required, author |-> Agent, at |-> at,
               evidence |-> Place(ts, QuestionTurns(task.conv, asked, at)[k]),
               previous |-> Predecessor(ts, Place(ts, QuestionTurns(task.conv, asked, at)[k]))]]
<1>1. e.session = s /\ e.type = "opened" /\ e.at = at /\ e.kind = "event"
  BY DEF OpenedEvent, Event
<1> QED BY <1>1 DEF Opening

LEMMA CoherentOpening ==
  ASSUME TypeInv, Coherent(ledger), NEW ts \in Seq(TurnRecord), NEW task \in Task, NEW c \in DOMAIN ts,
         NEW asked \in Asked, NEW at \in Nat,
         \A k \in DOMAIN asked : Places(ts, QuestionTurns(task.conv, asked, at)[k]) # {},
         MayOpen(ts, task, c, asked, at)
  PROVE  Coherent(Append(ledger, OpenedEvent(ts, task, c, asked, at)))
<1> DEFINE e == OpenedEvent(ts, task, c, asked, at)
           s == Opening(ts, task, c, asked, at)
<1>1. e \in EventFrame
  BY OpeningType
<1>2. SessionWith(ledger, s) = 0
  BY DEF MayOpen
<1>0. s = Opening(ts, task, c, asked, at) /\ e = OpenedEvent(ts, task, c, asked, at)
  OBVIOUS
<1> HIDE DEF e, s
<1>3. /\ e.session = s /\ e.type = "opened" /\ e.at = at
      /\ s.id = Len(ledger) + 1 /\ s.status = "open" /\ s.answers = <<>> /\ s.openedAt = at
  <2>1. e.session = s /\ e.type = "opened" /\ e.at = at
    BY <1>0 DEF OpenedEvent, Event
  <2> QED BY <1>0, <2>1 DEF Opening
<1>4. Fine(e)
  BY <1>3 DEF Fine
<1>5. ledger \in Seq(Frame) /\ Grown(ledger, Append(ledger, e), e, {}, {})
  BY <1>1, GrownByEvent DEF TypeInv
<1>6. Coherent(Append(ledger, e))
  BY <1>1, <1>2, <1>3, <1>4, <1>5, CoherentOpened
<1> QED BY <1>6 DEF e

LEMMA SessionIn ==
  ASSUME TypeInv, NEW s \in Sessions
  PROVE  /\ s \in SessionRecord /\ s.id \in SessionIds(ledger)
         /\ s = Session(ledger, s.id) /\ s = Latest(ledger, s.id).session
         /\ LatestEvent(ledger, s.id) \in 1 .. Len(ledger)
         /\ Latest(ledger, s.id) \in EventFrame
<1>1. PICK id \in SessionIds(ledger) : s = Session(ledger, id)
  BY DEF Sessions
<1>2. /\ LatestEvent(ledger, id) \in 1 .. Len(ledger) /\ Latest(ledger, id) \in EventFrame
      /\ Latest(ledger, id).session.id = id
  BY LatestIn DEF TypeInv
<1>3. s = Latest(ledger, id).session
  BY <1>1, SessionIsLatest
<1>4. s \in SessionRecord
  BY <1>2, <1>3 DEF EventFrame
<1> QED BY <1>1, <1>2, <1>3, <1>4
(* An answer or a conflict. *)
Adds(e, s, at, i) ==
  \/ \E a \in AnswerRecord : /\ a.actor = Local /\ a.at = at /\ a.evidence = i
                             /\ e.session.answers = Append(s.answers, a)
                             /\ e.session.conflicts = s.conflicts
  \/ \E x \in Conflict : /\ x.actor = Local /\ x.at = at /\ x.evidence = i
                         /\ e.session.answers = s.answers
                         /\ e.session.conflicts = Append(s.conflicts, x)
LEMMA AnswerType ==
  ASSUME TypeInv, NEW s \in Sessions, NEW q \in QuestionsOf(s), NEW at \in Nat, NEW i \in Nat,
         NEW prev \in Nat, NEW e, e = AnswerEvent(s, q, at, i, prev)
  PROVE  /\ e \in EventFrame /\ e.type \in {"answered", "conflicted"} /\ e.at = at
         /\ e.session.id = s.id /\ e.session.status = s.status /\ Material(e.session) = Material(s)
         /\ e.session.openedAt = s.openedAt /\ e.session.task = s.task
         /\ Adds(e, s, at, i)
<1> DEFINE a == [question |-> q, actor |-> Local, at |-> at, evidence |-> i, previous |-> prev]
           given == AnswerTo(s, q)
           x == [question |-> q, actor |-> Local, at |-> at, evidence |-> i, previous |-> prev,
                 original |-> (CHOOSE g \in given : TRUE).evidence]
           latest == LatestEvent(ledger, s.id)
<1>1. s \in SessionRecord /\ latest \in Nat /\ Local \in Actor
  <2>1. latest \in 1 .. Len(ledger) /\ Len(ledger) \in Nat
    BY SessionIn, LenProperties DEF TypeInv
  <2> QED BY <2>1, SessionIn, LocalType DEF TypeInv
<1>2. q \in QuestionId
  <2>1. PICK k \in DOMAIN s.questions : q = s.questions[k].id
    BY DEF QuestionsOf
  <2>2. s.questions \in Seq(Question)
    BY <1>1 DEF SessionRecord
  <2>3. s.questions[k] \in Question
    BY <2>1, <2>2, LenProperties, ElementOfSeq
  <2> QED BY <2>1, <2>3 DEF Question
<1>3. s.answers \in Seq(AnswerRecord) /\ s.conflicts \in Seq(Conflict)
  BY <1>1 DEF SessionRecord
<1> HIDE DEF latest
<1>4. CASE given = {}
  <2>1. e = Event("answered", [s EXCEPT !.answers = Append(@, a)], Local, at, latest, None, None)
    BY <1>4 DEF AnswerEvent, latest
  <2>2. a \in AnswerRecord /\ a.actor = Local /\ a.at = at /\ a.evidence = i
    BY <1>1, <1>2 DEF AnswerRecord
  <2> HIDE DEF a, given
  <2>3. Append(s.answers, a) \in Seq(AnswerRecord)
    BY <1>3, <2>2, AppendProperties
  <2> DEFINE t == [s EXCEPT !.answers = Append(@, a)]
  <2>4. /\ t \in SessionRecord /\ t.answers = Append(s.answers, a) /\ t.conflicts = s.conflicts
        /\ t.id = s.id /\ t.status = s.status /\ t.openedAt = s.openedAt /\ t.task = s.task
        /\ t.request = s.request /\ t.classification = s.classification /\ t.openedBy = s.openedBy
        /\ t.baseline = s.baseline /\ t.questions = s.questions
    BY <1>1, <2>3 DEF SessionRecord
  <2> HIDE DEF t
  <2>5. e = Event("answered", t, Local, at, latest, None, None)
    BY <2>1 DEF t
  <2>6. e \in EventFrame /\ e.type = "answered" /\ e.at = at /\ e.session = t
    BY <1>1, <2>4, <2>5 DEF Event, EventFrame
  <2>7. Material(t) = Material(s)
    BY <2>4 DEF Material
  <2>8. Adds(e, s, at, i)
    BY <2>2, <2>4, <2>6 DEF Adds
  <2> QED BY <2>4, <2>6, <2>7, <2>8
<1>5. CASE given # {}
  <2>1. e = Event("conflicted", [s EXCEPT !.conflicts = Append(@, x)], Local, at, latest, None, None)
    BY <1>5 DEF AnswerEvent, latest
  <2>2. x \in Conflict /\ x.actor = Local /\ x.at = at /\ x.evidence = i
    <3>1. (CHOOSE g \in given : TRUE) \in given
      BY <1>5
    <3>2. \A g \in given : g \in AnswerRecord
      <4>1. \A k \in DOMAIN s.answers : s.answers[k] \in AnswerRecord
        BY <1>3, LenProperties, ElementOfSeq
      <4> QED BY <4>1 DEF AnswerTo
    <3>3. (CHOOSE g \in given : TRUE).evidence \in Nat
      BY <3>1, <3>2 DEF AnswerRecord
    <3> HIDE DEF given
    <3> QED BY <1>1, <1>2, <3>3 DEF Conflict
  <2> HIDE DEF x, given
  <2>3. Append(s.conflicts, x) \in Seq(Conflict)
    BY <1>3, <2>2, AppendProperties
  <2> DEFINE t == [s EXCEPT !.conflicts = Append(@, x)]
  <2>4. /\ t \in SessionRecord /\ t.conflicts = Append(s.conflicts, x) /\ t.answers = s.answers
        /\ t.id = s.id /\ t.status = s.status /\ t.openedAt = s.openedAt /\ t.task = s.task
        /\ t.request = s.request /\ t.classification = s.classification /\ t.openedBy = s.openedBy
        /\ t.baseline = s.baseline /\ t.questions = s.questions
    BY <1>1, <2>3 DEF SessionRecord
  <2> HIDE DEF t
  <2>5. e = Event("conflicted", t, Local, at, latest, None, None)
    BY <2>1 DEF t
  <2>6. e \in EventFrame /\ e.type = "conflicted" /\ e.at = at /\ e.session = t
    BY <1>1, <2>4, <2>5 DEF Event, EventFrame
  <2>7. Material(t) = Material(s)
    BY <2>4 DEF Material
  <2>8. Adds(e, s, at, i)
    BY <2>2, <2>4, <2>6 DEF Adds
  <2> QED BY <2>4, <2>6, <2>7, <2>8
<1> QED BY <1>4, <1>5

LEMMA FinalOfAppend ==
  ASSUME NEW S, NEW w \in Seq(S), NEW x \in S
  PROVE  Final(Append(w, x)) = x /\ Append(w, x) # <<>>
<1>1. Len(Append(w, x)) = Len(w) + 1 /\ Append(w, x)[Len(w) + 1] = x /\ Len(w) \in Nat
  BY AppendProperties, LenProperties
<1>2. Len(<<>>) = 0
  BY EmptySeq
<1> QED BY <1>1, <1>2 DEF Final

LEMMA CoherentAnswer ==
  ASSUME TypeInv, Coherent(ledger), NEW s \in Sessions, NEW q \in QuestionsOf(s), NEW at \in Nat,
         NEW i \in Nat, NEW prev \in Nat, NEW e, e = AnswerEvent(s, q, at, i, prev),
         s.status = "open", ValidTransition(ledger, e)
  PROVE  Coherent(Append(ledger, e)) /\ e.at >= s.openedAt
<1>1. /\ e \in EventFrame /\ e.at = at
      /\ e.session.id = s.id /\ e.session.status = "open" /\ Material(e.session) = Material(s)
      /\ e.session.openedAt = s.openedAt
  BY AnswerType
<1>2. /\ s \in SessionRecord /\ s.id \in SessionIds(ledger) /\ s = Session(ledger, s.id)
      /\ LatestEvent(ledger, s.id) \in 1 .. Len(ledger)
  BY SessionIn
<1>3. e.at >= s.openedAt
  <2>1. LatestEvent(ledger, e.session.id) # 0
    BY <1>1, <1>2
  <2>2. e.at >= e.session.openedAt
    BY <2>1 DEF ValidTransition
  <2> QED BY <1>1, <2>2
<1>4. e.session.answers # <<>> /\ e.session.conflicts = <<>> => e.at = Final(e.session.answers).at
  <2>1. s.answers \in Seq(AnswerRecord) /\ s.conflicts \in Seq(Conflict)
    BY <1>2 DEF SessionRecord
  <2>2. CASE \E a \in AnswerRecord : a.at = at /\ e.session.answers = Append(s.answers, a)
    BY <1>1, <2>1, <2>2, FinalOfAppend
  <2>3. CASE \E x \in Conflict : e.session.conflicts = Append(s.conflicts, x)
    BY <2>1, <2>3, FinalOfAppend
  <2>4. Adds(e, s, at, i)
    BY AnswerType
  <2> QED BY <2>2, <2>3, <2>4 DEF Adds
<1>5. Fine(e)
  BY <1>1, <1>3, <1>4 DEF Fine
<1>6. ledger \in Seq(Frame) /\ Grown(ledger, Append(ledger, e), e, {}, {})
  BY <1>1, GrownByEvent DEF TypeInv
<1>7. Coherent(Append(ledger, e))
  BY <1>1, <1>2, <1>5, <1>6, CoherentAnswered
<1> QED BY <1>3, <1>7

(* The proposal of a session. *)
LEMMA ProposalType ==
  ASSUME TypeInv, NEW s \in Sessions, NEW content \in Content, NEW at \in Nat, NEW p, NEW e,
         p = ProposalOf(s, content, at),
         e = Event("proposed", [s EXCEPT !.status = "proposed"], Local, at,
                   LatestEvent(ledger, s.id), p, None)
  PROVE  /\ p \in Proposal /\ p.session = s.id /\ p.at = at /\ p.task = s.task /\ p.baseline = s.baseline
         /\ e \in EventFrame /\ e.type = "proposed" /\ e.at = at /\ e.proposal = p /\ e.actor = Local
         /\ e.previous = LatestEvent(ledger, s.id)
         /\ e.session.id = s.id /\ e.session.status = "proposed" /\ Material(e.session) = Material(s)
         /\ e.session.openedAt = s.openedAt /\ e.session.task = s.task /\ e.session.baseline = s.baseline
         /\ e.session.answers = s.answers /\ e.session.conflicts = s.conflicts
         /\ e.session.questions = s.questions
<1> DEFINE latest == LatestEvent(ledger, s.id)
           t == [s EXCEPT !.status = "proposed"]
<1>1. s \in SessionRecord /\ latest \in Nat /\ Local \in Actor
  <2>1. latest \in 1 .. Len(ledger) /\ Len(ledger) \in Nat
    BY SessionIn, LenProperties DEF TypeInv
  <2> QED BY <2>1, SessionIn, LocalType DEF TypeInv
<1>2. EvidenceOf(s) \in SUBSET Nat
  <2>1. /\ s.request \in Nat /\ s.classification \in Nat
        /\ s.questions \in Seq(Question) /\ s.answers \in Seq(AnswerRecord)
    BY <1>1 DEF SessionRecord
  <2>2. \A k \in DOMAIN s.questions : s.questions[k] \in Question
    BY <2>1, LenProperties, ElementOfSeq
  <2>3. \A k \in DOMAIN s.answers : s.answers[k] \in AnswerRecord
    BY <2>1, LenProperties, ElementOfSeq
  <2>4. \A k \in DOMAIN s.questions : s.questions[k].evidence \in Nat
    BY <2>2 DEF Question
  <2>5. \A k \in DOMAIN s.answers : s.answers[k].evidence \in Nat
    BY <2>3 DEF AnswerRecord
  <2> QED BY <2>1, <2>4, <2>5 DEF EvidenceOf
<1>3. s.id \in Nat /\ s.task \in Task /\ s.baseline \in Nat
  BY <1>1 DEF SessionRecord
<1>4. p \in Proposal /\ p.session = s.id /\ p.at = at /\ p.task = s.task /\ p.baseline = s.baseline
  BY <1>1, <1>2, <1>3 DEF ProposalOf, Proposal
<1>5. /\ t \in SessionRecord /\ t.conflicts = s.conflicts /\ t.answers = s.answers
      /\ t.id = s.id /\ t.status = "proposed" /\ t.openedAt = s.openedAt /\ t.task = s.task
      /\ t.request = s.request /\ t.classification = s.classification /\ t.openedBy = s.openedBy
      /\ t.baseline = s.baseline /\ t.questions = s.questions
  BY <1>1 DEF SessionRecord
<1> HIDE DEF t, latest
<1>6. e = Event("proposed", t, Local, at, latest, p, None)
  BY DEF t, latest
<1>7. /\ e \in EventFrame /\ e.type = "proposed" /\ e.at = at /\ e.proposal = p /\ e.session = t
      /\ e.actor = Local /\ e.previous = latest
  BY <1>1, <1>4, <1>5, <1>6 DEF Event, EventFrame
<1>8. Material(t) = Material(s)
  BY <1>5 DEF Material
<1> QED BY <1>4, <1>5, <1>7, <1>8 DEF latest

LEMMA CoherentProposal ==
  ASSUME TypeInv, Coherent(ledger), NEW s \in Sessions, NEW content \in Content, NEW at \in Nat,
         MayPropose(s, at), NEW p, NEW e, p = ProposalOf(s, content, at),
         e = Event("proposed", [s EXCEPT !.status = "proposed"], Local, at,
                   LatestEvent(ledger, s.id), p, None)
  PROVE  /\ Coherent(Append(Append(ledger, e), ProposalFrame(p)))
         /\ Grown(ledger, Append(Append(ledger, e), ProposalFrame(p)), e, {p}, {})
         /\ e.at >= Latest(ledger, s.id).at /\ e.at >= s.openedAt
<1>1. /\ p \in Proposal /\ p.session = s.id /\ p.at = at
      /\ e \in EventFrame /\ e.at = at /\ e.proposal = p
      /\ e.session.id = s.id /\ e.session.status = "proposed" /\ Material(e.session) = Material(s)
      /\ e.session.openedAt = s.openedAt
      /\ e.session.answers = s.answers /\ e.session.conflicts = s.conflicts
      /\ e.session.questions = s.questions
  BY ProposalType
<1>2. /\ s \in SessionRecord /\ s.id \in SessionIds(ledger) /\ s = Session(ledger, s.id)
      /\ s = Latest(ledger, s.id).session /\ Latest(ledger, s.id) \in EventFrame
  BY SessionIn
<1>3. /\ s.status = "open" /\ s.conflicts = <<>> /\ s.answers # <<>>
      /\ RequiredOf(s) \subseteq AnsweredOf(s) /\ at >= Final(s.answers).at
  BY DEF MayPropose
<1>4. Latest(ledger, s.id).at = Final(s.answers).at /\ Latest(ledger, s.id).at >= s.openedAt
  <2>1. Fine(Latest(ledger, s.id))
    BY <1>2 DEF Coherent, SessionsFine
  <2> QED BY <1>2, <1>3, <2>1 DEF Fine
<1>5. at >= Latest(ledger, s.id).at /\ at >= s.openedAt
  <2>1. Latest(ledger, s.id).at \in Nat /\ s.openedAt \in Nat
    BY <1>2 DEF EventFrame, SessionRecord
  <2>2. at >= Latest(ledger, s.id).at
    BY <1>3, <1>4
  <2> QED BY <1>4, <2>1, <2>2
<1>6. Fine(e)
  <2>1. RequiredOf(e.session) = RequiredOf(s) /\ AnsweredOf(e.session) = AnsweredOf(s)
    BY <1>1 DEF RequiredOf, AnsweredOf
  <2> QED BY <1>1, <1>3, <1>5, <2>1 DEF Fine
<1>7. /\ ledger \in Seq(Frame)
      /\ Grown(ledger, Append(Append(ledger, e), ProposalFrame(p)), e, {p}, {})
  BY <1>1, GrownByProposal DEF TypeInv
<1>8. Coherent(Append(Append(ledger, e), ProposalFrame(p)))
  BY <1>1, <1>2, <1>3, <1>6, <1>7, CoherentProposed
<1> QED BY <1>1, <1>5, <1>7, <1>8
(* A decision. *)
LEMMA LedgerTypes ==
  ASSUME TypeInv
  PROVE  Proposals(ledger) \subseteq Proposal /\ Decisions(ledger) \subseteq Decision
<1>1. \A i \in DOMAIN ledger : ledger[i] \in Frame
  BY LenProperties, ElementOfSeq DEF TypeInv
<1> QED BY <1>1, FrameKinds DEF Proposals, Decisions

Selects(p, selected) == selected \subseteq p.content.added

LEMMA DecisionType ==
  ASSUME NEW p \in Proposal, NEW actor \in Actor, NEW at \in Nat, NEW selected, Selects(p, selected),
         NEW reviewed \in BOOLEAN
  PROVE  /\ DecisionOf(p, actor, at, selected, reviewed) \in Decision
         /\ DecisionOf(p, actor, at, selected, reviewed).proposal = p
         /\ DecisionOf(p, actor, at, selected, reviewed).actor = actor
         /\ DecisionOf(p, actor, at, selected, reviewed).at = at
         /\ DecisionOf(p, actor, at, selected, reviewed).reviewed = reviewed
         /\ ActivationOf(p, actor, at, selected, reviewed) = DecisionOf(p, actor, at, selected, reviewed)
<1>1. p.content \in Content \cup BootContent
  BY DEF Proposal
<1>2. selected \in SUBSET UNION {c.added : c \in Content \cup BootContent}
  BY <1>1 DEF Selects
<1> QED BY <1>2 DEF DecisionOf, ActivationOf, Decision

LEMMA ClosingType ==
  ASSUME TypeInv, NEW p \in Proposal, NEW d \in Decision, p.session \in SessionIds(ledger),
         NEW e, e = Closing(p, d), NEW s, s = Session(ledger, p.session)
  PROVE  /\ s \in SessionRecord /\ s.id = p.session /\ s = Latest(ledger, p.session).session
         /\ LatestEvent(ledger, p.session) \in 1 .. Len(ledger)
         /\ e \in EventFrame /\ e.type = "closed" /\ e.at = d.at /\ e.proposal = p /\ e.decision = d
         /\ e.actor = d.actor /\ e.previous = LatestEvent(ledger, p.session)
         /\ e.session.id = s.id /\ e.session.status = "closed" /\ Material(e.session) = Material(s)
         /\ e.session.openedAt = s.openedAt /\ e.session.task = s.task
         /\ e.session.answers = s.answers /\ e.session.conflicts = s.conflicts
         /\ e.session.questions = s.questions
<1> DEFINE latest == LatestEvent(ledger, p.session)
           t == [s EXCEPT !.status = "closed"]
<1>1. s \in Sessions /\ s = Latest(ledger, p.session).session
  BY SessionIsLatest DEF Sessions
<1>2. s \in SessionRecord /\ s.id = p.session /\ latest \in Nat /\ latest \in 1 .. Len(ledger)
  <2>1. /\ latest \in 1 .. Len(ledger) /\ Latest(ledger, p.session).session.id = p.session
        /\ Len(ledger) \in Nat
    BY LatestIn, LenProperties DEF TypeInv
  <2> QED BY <1>1, <2>1, SessionIn
<1>3. d.actor \in Actor /\ d.at \in Nat
  BY DEF Decision
<1>4. /\ t \in SessionRecord /\ t.conflicts = s.conflicts /\ t.answers = s.answers
      /\ t.id = s.id /\ t.status = "closed" /\ t.openedAt = s.openedAt /\ t.task = s.task
      /\ t.request = s.request /\ t.classification = s.classification /\ t.openedBy = s.openedBy
      /\ t.baseline = s.baseline /\ t.questions = s.questions
  BY <1>2 DEF SessionRecord
<1> HIDE DEF t, latest
<1>5. e = Event("closed", t, d.actor, d.at, latest, p, d)
  BY DEF t, latest, Closing
<1>6. /\ e \in EventFrame /\ e.type = "closed" /\ e.at = d.at /\ e.proposal = p /\ e.session = t
      /\ e.decision = d /\ e.actor = d.actor /\ e.previous = latest
  BY <1>2, <1>3, <1>4, <1>5 DEF Event, EventFrame
<1>7. Material(t) = Material(s)
  BY <1>4 DEF Material
<1> QED BY <1>1, <1>2, <1>4, <1>6, <1>7 DEF latest

LEMMA CoherentDecision ==
  ASSUME TypeInv, Coherent(ledger), NEW p \in Proposals(ledger), NEW d \in Decision,
         d.proposal = p, d.at >= p.at, p.session # 0, Session(ledger, p.session).status = "proposed",
         NEW e, e = Closing(p, d)
  PROVE  /\ Coherent(Append(Append(ledger, DecisionFrame(d)), e))
         /\ Grown(ledger, Append(Append(ledger, DecisionFrame(d)), e), e, {}, {d})
         /\ e.at >= Latest(ledger, p.session).at /\ e.at >= e.session.openedAt
<1> DEFINE s == Session(ledger, p.session)
<1>1. p \in Proposal /\ d.at \in Nat /\ p.at \in Nat
  <2>1. p \in Proposal
    BY LedgerTypes
  <2> QED BY <2>1 DEF Proposal, Decision
<1>2. p.session \in SessionIds(ledger) /\ Latest(ledger, p.session).proposal = p
  BY DEF Coherent, ProposalsNamed
<1>3. s = Session(ledger, p.session) /\ s.status = "proposed"
  OBVIOUS
<1> HIDE DEF s
<1>4. /\ s \in SessionRecord /\ s.id = p.session /\ s = Latest(ledger, p.session).session
      /\ LatestEvent(ledger, p.session) \in 1 .. Len(ledger)
      /\ e \in EventFrame /\ e.type = "closed" /\ e.at = d.at /\ e.proposal = p /\ e.decision = d
      /\ e.session.id = s.id /\ e.session.status = "closed" /\ Material(e.session) = Material(s)
      /\ e.session.openedAt = s.openedAt
      /\ e.session.answers = s.answers /\ e.session.conflicts = s.conflicts
      /\ e.session.questions = s.questions
  BY <1>1, <1>2, <1>3, ClosingType
<1>5. /\ s.conflicts = <<>> /\ RequiredOf(s) \subseteq AnsweredOf(s)
      /\ Latest(ledger, p.session).at = p.at /\ Latest(ledger, p.session).at >= s.openedAt
  <2>1. Fine(Latest(ledger, p.session))
    BY <1>2 DEF Coherent, SessionsFine
  <2>2. s.status # "open"
    BY <1>3
  <2> QED BY <1>2, <1>3, <1>4, <2>1, <2>2 DEF Fine
<1>6. e.at >= Latest(ledger, p.session).at /\ e.at >= e.session.openedAt
  <2>1. s.openedAt \in Nat
    BY <1>4 DEF SessionRecord
  <2> QED BY <1>1, <1>4, <1>5, <2>1
<1>7. Fine(e)
  <2>1. RequiredOf(e.session) = RequiredOf(s) /\ AnsweredOf(e.session) = AnsweredOf(s)
    BY <1>4 DEF RequiredOf, AnsweredOf
  <2> QED BY <1>1, <1>4, <1>5, <1>6, <2>1 DEF Fine
<1>8. /\ ledger \in Seq(Frame)
      /\ Grown(ledger, Append(Append(ledger, DecisionFrame(d)), e), e, {}, {d})
  BY <1>4, GrownByDecision DEF TypeInv
<1>9. Coherent(Append(Append(ledger, DecisionFrame(d)), e))
  <2>1. /\ d.proposal \in Proposals(ledger) /\ e.session.id \in SessionIds(ledger)
        /\ Session(ledger, e.session.id) = s /\ e.proposal = d.proposal /\ e.decision = d
        /\ Session(ledger, e.session.id).status = "proposed"
        /\ Material(e.session) = Material(Session(ledger, e.session.id))
    BY <1>2, <1>3, <1>4
  <2>2. e \in EventFrame /\ e.session.status = "closed"
    BY <1>4
  <2> QED BY ONLY <1>7, <1>8, <2>1, <2>2, Coherent(ledger), d \in Decision, CoherentClosed
<1> QED BY <1>6, <1>8, <1>9

-----------------------------------------------------------------------------
(* Decisions and changesets stay the same. *)
CasesKept(cs, ds) == \A k \in DOMAIN cs : cs[k] = "resolved" => k \in DOMAIN ds /\ ds[k] = "resolved"

LEMMA ReviewedKept ==
  ASSUME NEW d, NEW cs, NEW ds, CasesKept(cs, ds), Reviewed(d, cs)
  PROVE  Reviewed(d, ds)
BY DEF Reviewed, CasesKept

LEMMA HistoryKept ==
  ASSUME NEW l, NEW m, NEW h \in Seq(Decision \cup {None}), NEW g, NEW cs, NEW ds,
         HistoryAgrees(l, h, cs), Decisions(m) = Decisions(l), Decisions(l) \subseteq Decision,
         CasesKept(cs, ds), g = h \/ g = Append(h, None)
  PROVE  HistoryAgrees(m, g, ds)
<1>1. /\ Len(h) \in Nat /\ DOMAIN h = 1 .. Len(h)
      /\ Len(Append(h, None)) = Len(h) + 1 /\ Append(h, None)[Len(h) + 1] = None
      /\ \A i \in 1 .. Len(h) : Append(h, None)[i] = h[i]
      /\ DOMAIN Append(h, None) = 1 .. Len(h) + 1
  <2>1. None \in Decision \cup {None}
    OBVIOUS
  <2> QED BY <2>1, AppendProperties, LenProperties
<1>2. /\ Len(g) \in Nat /\ Len(g) >= Len(h) /\ \A i \in 1 .. Len(h) : g[i] = h[i]
      /\ \A i \in DOMAIN g : g[i] # None => i \in DOMAIN h
  BY <1>1
<1>3. ASSUME NEW d \in Decisions(l)
      PROVE  d.proposal.baseline < Len(g) /\ g[d.proposal.baseline + 1] = d /\ Reviewed(d, ds)
  <2>1. d.proposal.baseline < Len(h) /\ h[d.proposal.baseline + 1] = d /\ Reviewed(d, cs)
    BY DEF HistoryAgrees
  <2>2. d.proposal.baseline \in Nat
    BY DEF Decision, Proposal
  <2> QED BY <1>1, <1>2, <2>1, <2>2, ReviewedKept
<1>4. ASSUME NEW i \in DOMAIN g, g[i] # None
      PROVE  g[i] \in Decisions(l) /\ i = g[i].proposal.baseline + 1
  <2>1. i \in DOMAIN h /\ g[i] = h[i]
    BY <1>1, <1>2, <1>4
  <2> QED BY <1>4, <2>1 DEF HistoryAgrees
<1> QED BY <1>3, <1>4 DEF HistoryAgrees

LEMMA HistoryDecided ==
  ASSUME NEW l, NEW m, NEW h \in Seq(Decision \cup {None}), NEW d \in Decision, NEW cs, NEW ds,
         HistoryAgrees(l, h, cs), Decisions(m) = Decisions(l) \cup {d}, Decisions(l) \subseteq Decision,
         CasesKept(cs, ds), Reviewed(d, ds), Len(h) = d.proposal.baseline
  PROVE  HistoryAgrees(m, Append(h, d), ds)
<1> DEFINE g == Append(h, d)
<1>1. /\ Len(h) \in Nat /\ DOMAIN h = 1 .. Len(h)
      /\ Len(g) = Len(h) + 1 /\ g[Len(h) + 1] = d
      /\ \A i \in 1 .. Len(h) : g[i] = h[i]
      /\ DOMAIN g = 1 .. Len(h) + 1
  BY AppendProperties, LenProperties
<1> HIDE DEF g
<1>2. ASSUME NEW x \in Decisions(m)
      PROVE  x.proposal.baseline < Len(g) /\ g[x.proposal.baseline + 1] = x /\ Reviewed(x, ds)
  <2>1. CASE x = d
    BY <1>1, <2>1
  <2>2. CASE x \in Decisions(l)
    <3>1. x.proposal.baseline < Len(h) /\ h[x.proposal.baseline + 1] = x /\ Reviewed(x, cs)
      BY <2>2 DEF HistoryAgrees
    <3>2. x.proposal.baseline \in Nat
      BY <2>2 DEF Decision, Proposal
    <3> QED BY <1>1, <3>1, <3>2, ReviewedKept
  <2> QED BY <2>1, <2>2
<1>3. ASSUME NEW i \in DOMAIN g, g[i] # None
      PROVE  g[i] \in Decisions(m) /\ i = g[i].proposal.baseline + 1
  <2>1. CASE i \in DOMAIN h
    BY <1>1, <1>3, <2>1 DEF HistoryAgrees
  <2>2. CASE i = Len(h) + 1
    BY <1>1, <2>2
  <2> QED BY <1>1, <2>1, <2>2
<1> QED BY <1>2, <1>3 DEF HistoryAgrees, g

LEMMA CallKept ==
  ASSUME NEW l, NEW m, Proposals(l) \subseteq Proposals(m), NEW b, CallFine(l, b)
  PROVE  CallFine(m, b)
BY DEF CallFine
-----------------------------------------------------------------------------
(* Evidence stays what it was. *)
LEMMA SaidKept ==
  ASSUME NEW ts \in Seq(TurnRecord), NEW us \in Seq(TurnRecord), Longer(ts, us), NEW s, NEW a, Said(ts, s, a)
  PROVE  Said(us, s, a)
<1>1. a.evidence \in DOMAIN ts
  BY DEF Said
<1>2. a.evidence \in DOMAIN us /\ us[a.evidence] = ts[a.evidence]
  BY <1>1, PredecessorKept
<1> QED BY <1>2 DEF Said

LEMMA GroundedKept ==
  ASSUME NEW ts \in Seq(TurnRecord), NEW us \in Seq(TurnRecord), Longer(ts, us), NEW s, Grounded(ts, s)
  PROVE  Grounded(us, s)
<1>1. \A a : Said(ts, s, a) => Said(us, s, a)
  BY SaidKept
<1> QED BY <1>1 DEF Grounded

LEMMA GroundedSame ==
  ASSUME NEW ts, NEW s, NEW t, Grounded(ts, s), t.answers = s.answers, t.conflicts = s.conflicts,
         t.openedAt = s.openedAt, t.task = s.task
  PROVE  Grounded(ts, t)
<1>1. \A a : Said(ts, s, a) => Said(ts, t, a)
  BY DEF Said
<1> QED BY <1>1 DEF Grounded

(* One more thing said, with evidence of its own. *)
LEMMA GroundedAdds ==
  ASSUME NEW ts, NEW s \in SessionRecord, Grounded(ts, s), NEW e, NEW at, NEW i, Adds(e, s, at, i),
         e.session.openedAt = s.openedAt, e.session.task = s.task, i \notin UsedBy(s),
         \A a : a.actor = Local /\ a.at = at /\ a.evidence = i => Said(ts, s, a)
  PROVE  Grounded(ts, e.session)
<1> DEFINE t == e.session
<1>1. \A a : Said(ts, s, a) => Said(ts, t, a)
  BY DEF Said
<1>2. /\ s.answers \in Seq(AnswerRecord) /\ s.conflicts \in Seq(Conflict)
      /\ DOMAIN s.answers = 1 .. Len(s.answers) /\ DOMAIN s.conflicts = 1 .. Len(s.conflicts)
      /\ Len(s.answers) \in Nat /\ Len(s.conflicts) \in Nat
  <2>1. s.answers \in Seq(AnswerRecord) /\ s.conflicts \in Seq(Conflict)
    BY DEF SessionRecord
  <2> QED BY <2>1, LenProperties
<1>3. /\ \A k \in DOMAIN s.answers : s.answers[k].evidence # i
      /\ \A k \in DOMAIN s.conflicts : s.conflicts[k].evidence # i
  BY DEF UsedBy
<1> HIDE DEF t
<1>4. /\ \A k \in DOMAIN s.answers : Said(ts, t, s.answers[k])
      /\ \A k \in DOMAIN s.conflicts : Said(ts, t, s.conflicts[k])
      /\ \A j, k \in DOMAIN s.answers : s.answers[j].evidence = s.answers[k].evidence => j = k
      /\ \A j, k \in DOMAIN s.conflicts : s.conflicts[j].evidence = s.conflicts[k].evidence => j = k
      /\ \A j \in DOMAIN s.answers, k \in DOMAIN s.conflicts :
           s.answers[j].evidence # s.conflicts[k].evidence
  BY <1>1 DEF Grounded
<1>5. ASSUME NEW a \in AnswerRecord, a.actor = Local, a.at = at, a.evidence = i,
             t.answers = Append(s.answers, a), t.conflicts = s.conflicts
      PROVE  Grounded(ts, t)
  <2>1. /\ DOMAIN t.answers = 1 .. Len(s.answers) + 1 /\ t.answers[Len(s.answers) + 1] = a
        /\ \A k \in 1 .. Len(s.answers) : t.answers[k] = s.answers[k]
    BY <1>2, <1>5, AppendProperties, LenProperties
  <2>2. Said(ts, t, a)
    BY <1>1, <1>5
  <2>3. \A k \in DOMAIN t.answers : \/ k \in DOMAIN s.answers /\ t.answers[k] = s.answers[k]
                                    \/ k = Len(s.answers) + 1 /\ t.answers[k] = a
    BY <1>2, <2>1
  <2>4. \A k \in DOMAIN t.answers : Said(ts, t, t.answers[k])
    BY <1>4, <2>2, <2>3
  <2>5. \A j, k \in DOMAIN t.answers : t.answers[j].evidence = t.answers[k].evidence => j = k
    BY <1>3, <1>4, <1>5, <2>3
  <2>6. \A j \in DOMAIN t.answers, k \in DOMAIN t.conflicts :
           t.answers[j].evidence # t.conflicts[k].evidence
    BY <1>3, <1>4, <1>5, <2>3
  <2> QED BY <1>4, <1>5, <2>4, <2>5, <2>6 DEF Grounded
<1>6. ASSUME NEW x \in Conflict, x.actor = Local, x.at = at, x.evidence = i,
             t.answers = s.answers, t.conflicts = Append(s.conflicts, x)
      PROVE  Grounded(ts, t)
  <2>1. /\ DOMAIN t.conflicts = 1 .. Len(s.conflicts) + 1 /\ t.conflicts[Len(s.conflicts) + 1] = x
        /\ \A k \in 1 .. Len(s.conflicts) : t.conflicts[k] = s.conflicts[k]
    BY <1>2, <1>6, AppendProperties, LenProperties
  <2>2. Said(ts, t, x)
    BY <1>1, <1>6
  <2>3. \A k \in DOMAIN t.conflicts : \/ k \in DOMAIN s.conflicts /\ t.conflicts[k] = s.conflicts[k]
                                      \/ k = Len(s.conflicts) + 1 /\ t.conflicts[k] = x
    BY <1>2, <2>1
  <2>4. \A k \in DOMAIN t.conflicts : Said(ts, t, t.conflicts[k])
    BY <1>4, <2>2, <2>3
  <2>5. \A j, k \in DOMAIN t.conflicts : t.conflicts[j].evidence = t.conflicts[k].evidence => j = k
    BY <1>3, <1>4, <1>6, <2>3
  <2>6. \A j \in DOMAIN t.answers, k \in DOMAIN t.conflicts :
           t.answers[j].evidence # t.conflicts[k].evidence
    BY <1>3, <1>4, <1>6, <2>3
  <2> QED BY <1>4, <1>6, <2>4, <2>5, <2>6 DEF Grounded
<1> QED BY <1>5, <1>6 DEF Adds, t

LEMMA AdvisedKept ==
  ASSUME NEW ts \in Seq(TurnRecord), NEW us \in Seq(TurnRecord), Longer(ts, us), NEW s, Advised(ts, s)
  PROVE  Advised(us, s)
<1>1. s.request \in DOMAIN ts /\ s.classification \in DOMAIN ts
  BY DEF Advised
<1>2. PICK asked \in Asked, acl \in Acl : Asks(ts, s, asked, acl)
  BY DEF Advised
<1>3. /\ s.request \in DOMAIN us /\ s.classification \in DOMAIN us
      /\ us[s.request] = ts[s.request] /\ us[s.classification] = ts[s.classification]
      /\ Predecessor(us, s.classification) = Predecessor(ts, s.classification)
  BY <1>1, PredecessorKept
<1>4. \A k \in DOMAIN asked : s.questions[k].evidence \in DOMAIN ts
  BY <1>2 DEF Asks
<1>5. \A k \in DOMAIN asked : /\ s.questions[k].evidence \in DOMAIN us
                              /\ us[s.questions[k].evidence] = ts[s.questions[k].evidence]
                              /\ Predecessor(us, s.questions[k].evidence)
                                   = Predecessor(ts, s.questions[k].evidence)
  BY <1>4, PredecessorKept
<1>6. Asks(us, s, asked, acl)
  <2>1. /\ s.task = [actor |-> Agent, conv |-> us[s.request].conv, request |-> s.request, version |-> s.baseline]
        /\ s.openedAt = us[s.request].at
        /\ us[s.classification] = Turn(Codex, us[s.request].conv, "agent", Agent, "classification",
             [label |-> "ambiguous", version |-> s.baseline, asked |-> asked],
             us[s.request].at, us[s.request].acl)
        /\ Predecessor(us, s.classification) = s.request
        /\ s.questions[1].previous = s.classification
    BY <1>2, <1>3 DEF Asks
  <2>2. s.questions = [k \in DOMAIN asked |->
       [id |-> asked[k].id, required |-> asked[k].required, author |-> Agent, at |-> s.openedAt,
        evidence |-> s.questions[k].evidence, previous |-> Predecessor(us, s.questions[k].evidence)]]
    BY <1>2, <1>5 DEF Asks
  <2>3. \A k \in DOMAIN asked :
       /\ s.questions[k].evidence \in DOMAIN us
       /\ us[s.questions[k].evidence] =
            Turn(Codex, us[s.request].conv, "agent", Agent, "question", asked[k].id, s.openedAt, acl)
    BY <1>2, <1>3, <1>5 DEF Asks
  <2> QED BY <2>1, <2>2, <2>3 DEF Asks
<1> QED BY <1>3, <1>6 DEF Advised

LEMMA MaterialParts ==
  ASSUME NEW s, NEW t, Material(s) = Material(t)
  PROVE  /\ s.task = t.task /\ s.request = t.request /\ s.classification = t.classification
         /\ s.openedBy = t.openedBy /\ s.openedAt = t.openedAt /\ s.baseline = t.baseline
         /\ s.questions = t.questions
<1>1. /\ Material(s).task = Material(t).task /\ Material(s).request = Material(t).request
      /\ Material(s).classification = Material(t).classification
      /\ Material(s).openedBy = Material(t).openedBy /\ Material(s).openedAt = Material(t).openedAt
      /\ Material(s).baseline = Material(t).baseline /\ Material(s).questions = Material(t).questions
  OBVIOUS
<1> QED BY <1>1 DEF Material

LEMMA AdvisedSame ==
  ASSUME NEW ts, NEW s, NEW t, Advised(ts, s), Material(s) = Material(t)
  PROVE  Advised(ts, t)
<1>1. /\ s.task = t.task /\ s.request = t.request /\ s.classification = t.classification
      /\ s.openedAt = t.openedAt /\ s.baseline = t.baseline /\ s.questions = t.questions
  BY MaterialParts
<1>2. PICK asked \in Asked, acl \in Acl : Asks(ts, s, asked, acl)
  BY DEF Advised
<1>3. Asks(ts, t, asked, acl)
  BY <1>1, <1>2 DEF Asks
<1>4. t.request \in DOMAIN ts /\ t.classification \in DOMAIN ts
  BY <1>1 DEF Advised
<1> QED BY <1>3, <1>4 DEF Advised
(* All of an advisory session's material is in the evidence of its prompt: *)
(* two of the same prompt are the same.                                    *)
LEMMA AdvisedUnique ==
  ASSUME NEW ts \in Seq(TurnRecord), Distinct(ts), NEW m, NEW n, Advised(ts, m), Advised(ts, n),
         m.request = n.request, m.openedBy = n.openedBy
  PROVE  Material(m) = Material(n)
<1> DEFINE r == m.request
           cv == ts[r].conv
<1>1. r \in DOMAIN ts /\ m.classification \in DOMAIN ts /\ n.classification \in DOMAIN ts
  BY DEF Advised
<1>2. PICK am \in Asked, lm \in Acl : Asks(ts, m, am, lm)
  BY DEF Advised
<1>3. PICK an \in Asked, ln \in Acl : Asks(ts, n, an, ln)
  BY DEF Advised
<1>4. /\ m.task = [actor |-> Agent, conv |-> cv, request |-> r, version |-> m.baseline]
      /\ m.openedAt = ts[r].at
      /\ ts[m.classification] = Turn(Codex, cv, "agent", Agent, "classification",
           [label |-> "ambiguous", version |-> m.baseline, asked |-> am], ts[r].at, ts[r].acl)
      /\ Predecessor(ts, m.classification) = r
      /\ m.questions[1].previous = m.classification
  BY <1>2 DEF Asks
<1>5. /\ n.task = [actor |-> Agent, conv |-> cv, request |-> r, version |-> n.baseline]
      /\ n.openedAt = ts[r].at
      /\ ts[n.classification] = Turn(Codex, cv, "agent", Agent, "classification",
           [label |-> "ambiguous", version |-> n.baseline, asked |-> an], ts[r].at, ts[r].acl)
      /\ Predecessor(ts, n.classification) = r
      /\ n.questions[1].previous = n.classification
  BY <1>3 DEF Asks
<1>6. \A k \in DOMAIN am :
        /\ m.questions[k].previous = Predecessor(ts, m.questions[k].evidence)
        /\ m.questions[k].evidence \in DOMAIN ts
        /\ ts[m.questions[k].evidence] =
             Turn(Codex, cv, "agent", Agent, "question", am[k].id, m.openedAt, lm)
  <2>1. m.questions = [k \in DOMAIN am |->
          [id |-> am[k].id, required |-> am[k].required, author |-> Agent, at |-> m.openedAt,
           evidence |-> m.questions[k].evidence, previous |-> Predecessor(ts, m.questions[k].evidence)]]
    BY <1>2 DEF Asks
  <2>2. \A k \in DOMAIN am : m.questions[k].previous = Predecessor(ts, m.questions[k].evidence)
    BY <2>1
  <2> QED BY <1>2, <2>2 DEF Asks
<1>7. \A k \in DOMAIN an :
        /\ n.questions[k].previous = Predecessor(ts, n.questions[k].evidence)
        /\ n.questions[k].evidence \in DOMAIN ts
        /\ ts[n.questions[k].evidence] =
             Turn(Codex, cv, "agent", Agent, "question", an[k].id, n.openedAt, ln)
  <2>1. n.questions = [k \in DOMAIN an |->
          [id |-> an[k].id, required |-> an[k].required, author |-> Agent, at |-> n.openedAt,
           evidence |-> n.questions[k].evidence, previous |-> Predecessor(ts, n.questions[k].evidence)]]
    BY <1>3 DEF Asks
  <2>2. \A k \in DOMAIN an : n.questions[k].previous = Predecessor(ts, n.questions[k].evidence)
    BY <2>1
  <2> QED BY <1>3, <2>2 DEF Asks
<1> DEFINE Q(asked, at, ev) ==
             [k \in DOMAIN asked |->
                [id |-> asked[k].id, required |-> asked[k].required, author |-> Agent, at |-> at,
                 evidence |-> ev[k].evidence, previous |-> Predecessor(ts, ev[k].evidence)]]
<1>8. m.questions = Q(am, m.openedAt, m.questions) /\ n.questions = Q(an, n.openedAt, n.questions)
  BY <1>2, <1>3 DEF Asks
<1> HIDE DEF r, cv, Q
<1>9. m.classification = n.classification
  <2>1. /\ ts[m.classification].conn = Codex /\ ts[n.classification].conn = Codex
        /\ ts[m.classification].conv = cv /\ ts[n.classification].conv = cv
    BY <1>4, <1>5 DEF Turn
  <2> QED BY <1>1, <1>4, <1>5, <2>1, OneFollows
<1>10. m.baseline = n.baseline /\ am = an
  <2>1. /\ ts[m.classification].body = [label |-> "ambiguous", version |-> m.baseline, asked |-> am]
        /\ ts[n.classification].body = [label |-> "ambiguous", version |-> n.baseline, asked |-> an]
    BY <1>4, <1>5 DEF Turn
  <2> QED BY <1>9, <2>1
<1>11. m.task = n.task /\ m.openedAt = n.openedAt
  BY <1>4, <1>5, <1>10
<1>12. lm = ln
  <2>1. 1 \in DOMAIN am /\ 1 \in DOMAIN an
    BY AskedType
  <2>2. /\ Predecessor(ts, m.questions[1].evidence) = m.classification
        /\ Predecessor(ts, n.questions[1].evidence) = n.classification
    <3>1. /\ m.questions[1].previous = Predecessor(ts, m.questions[1].evidence)
          /\ n.questions[1].previous = Predecessor(ts, n.questions[1].evidence)
      BY <1>6, <1>7, <2>1
    <3> QED BY <1>4, <1>5, <3>1
  <2>3. /\ m.questions[1].evidence \in DOMAIN ts /\ n.questions[1].evidence \in DOMAIN ts
        /\ ts[m.questions[1].evidence] = Turn(Codex, cv, "agent", Agent, "question", am[1].id, m.openedAt, lm)
        /\ ts[n.questions[1].evidence] = Turn(Codex, cv, "agent", Agent, "question", an[1].id, n.openedAt, ln)
    BY <1>6, <1>7, <2>1
  <2>4. /\ ts[m.questions[1].evidence].conn = Codex /\ ts[m.questions[1].evidence].conv = cv
        /\ ts[m.questions[1].evidence].acl = lm
        /\ ts[n.questions[1].evidence].conn = Codex /\ ts[n.questions[1].evidence].conv = cv
        /\ ts[n.questions[1].evidence].acl = ln
    BY <2>3 DEF Turn
  <2>5. m.questions[1].evidence = n.questions[1].evidence
    BY <1>9, <2>2, <2>3, <2>4, OneFollows
  <2> QED BY <2>4, <2>5
<1>13. \A k \in DOMAIN am : m.questions[k].evidence = n.questions[k].evidence
  <2>1. SUFFICES ASSUME NEW k \in DOMAIN am PROVE m.questions[k].evidence = n.questions[k].evidence
    OBVIOUS
  <2>2. /\ m.questions[k].evidence \in DOMAIN ts /\ n.questions[k].evidence \in DOMAIN ts
        /\ ts[m.questions[k].evidence] = ts[n.questions[k].evidence]
    BY <1>6, <1>7, <1>10, <1>11, <1>12
  <2> QED BY <2>2 DEF Distinct
<1>14. Q(am, m.openedAt, m.questions) = Q(an, n.openedAt, n.questions)
  BY <1>10, <1>11, <1>13 DEF Q
<1>15. m.questions = n.questions
  BY <1>8, <1>14
<1> QED BY <1>9, <1>10, <1>11, <1>15 DEF Material

LEMMA EvidenceGrown ==
  ASSUME NEW ts \in Seq(TurnRecord), NEW us \in Seq(TurnRecord), Longer(ts, us), Distinct(us),
         NEW l, NEW m, NEW e, NEW P, NEW D, EvidenceFine(ts, l), Grown(l, m, e, P, D),
         Grounded(us, e.session), e.session.task.actor = Agent => Advised(us, e.session)
  PROVE  EvidenceFine(us, m)
<1>1. SUFFICES ASSUME NEW id \in SessionIds(m)
               PROVE  /\ Grounded(us, Session(m, id))
                      /\ Session(m, id).task.actor = Agent => Advised(us, Session(m, id))
  BY DEF EvidenceFine
<1>2. CASE id = e.session.id
  <2>1. Session(m, id) = e.session
    BY <1>2, SessionIsLatest DEF Grown
  <2> QED BY <2>1
<1>3. CASE id \in SessionIds(l) /\ id # e.session.id
  <2>1. Session(m, id) = Session(l, id)
    BY <1>3, SessionIsLatest DEF Grown
  <2>2. /\ Grounded(ts, Session(l, id))
        /\ Session(l, id).task.actor = Agent => Advised(ts, Session(l, id))
    BY <1>3 DEF EvidenceFine
  <2> QED BY <2>1, <2>2, GroundedKept, AdvisedKept
<1> QED BY <1>2, <1>3 DEF Grown

LEMMA EvidenceQuiet ==
  ASSUME NEW ts \in Seq(TurnRecord), NEW us \in Seq(TurnRecord), Longer(ts, us), Distinct(us),
         NEW l, NEW m, NEW P, NEW D, EvidenceFine(ts, l), Quiet(l, m, P, D) \/ m = l
  PROVE  EvidenceFine(us, m)
<1>1. SUFFICES ASSUME NEW id \in SessionIds(m)
               PROVE  /\ Grounded(us, Session(m, id))
                      /\ Session(m, id).task.actor = Agent => Advised(us, Session(m, id))
  BY DEF EvidenceFine
<1>2. id \in SessionIds(l) /\ Session(m, id) = Session(l, id)
  BY SessionIsLatest DEF Quiet
<1>3. /\ Grounded(ts, Session(l, id))
      /\ Session(l, id).task.actor = Agent => Advised(ts, Session(l, id))
  BY <1>2 DEF EvidenceFine
<1> QED BY <1>2, <1>3, GroundedKept, AdvisedKept

(* An event of a session that was under way. *)
LEMMA HostsKept ==
  ASSUME NEW l, NEW m, NEW e, NEW P, NEW D, Grown(l, m, e, P, D), HostsDiffer(l),
         e.session.id \in SessionIds(l), e.session.task = Session(l, e.session.id).task,
         Session(l, e.session.id).status # "closed"
  PROVE  HostsDiffer(m)
<1>1. SessionIds(m) = SessionIds(l)
  BY DEF Grown
<1>2. \A x \in SessionIds(l) : /\ Session(m, x).task = Session(l, x).task
                               /\ Session(m, x).status # "closed" => Session(l, x).status # "closed"
  <2>1. Session(m, e.session.id) = e.session
    BY SessionIsLatest DEF Grown
  <2>2. \A x \in SessionIds(l) : x # e.session.id => Session(m, x) = Session(l, x)
    BY SessionIsLatest DEF Grown
  <2> QED BY <2>1, <2>2
<1>3. SUFFICES ASSUME NEW a \in SessionIds(l), NEW b \in SessionIds(l), a # b,
                      Session(m, a).task.actor = Agent, Session(m, b).task.actor = Agent,
                      "closed" \notin {Session(m, a).status, Session(m, b).status}
               PROVE  HostOf[Session(m, a).task.conv] # HostOf[Session(m, b).task.conv]
  BY <1>1 DEF HostsDiffer
<1>4. /\ Session(l, a).task = Session(m, a).task /\ Session(l, b).task = Session(m, b).task
      /\ "closed" \notin {Session(l, a).status, Session(l, b).status}
  BY <1>2, <1>3
<1> QED BY <1>3, <1>4 DEF HostsDiffer

LEMMA HostsQuiet ==
  ASSUME NEW l, NEW m, NEW P, NEW D, Quiet(l, m, P, D), HostsDiffer(l)
  PROVE  HostsDiffer(m)
<1>1. SessionIds(m) = SessionIds(l) /\ \A x \in SessionIds(l) : Session(m, x) = Session(l, x)
  BY SessionIsLatest DEF Quiet
<1> QED BY <1>1 DEF HostsDiffer

(* A session that opens: the others of its codex session are of the same   *)
(* prompt, and those advisory hooks opened are not.                        *)
LEMMA HostsOpened ==
  ASSUME NEW l, NEW m, NEW e, Grown(l, m, e, {}, {}), HostsDiffer(l),
         e.session.id \notin SessionIds(l),
         e.session.task.actor = Agent =>
           \A x \in SessionIds(l) :
             Session(l, x).task.actor = Agent /\ Session(l, x).status # "closed"
               => HostOf[Session(l, x).task.conv] # HostOf[e.session.task.conv]
  PROVE  HostsDiffer(m)
<1> DEFINE id == e.session.id
<1>1. SessionIds(m) = SessionIds(l) \cup {id} /\ Session(m, id) = e.session
      /\ \A x \in SessionIds(l) : Session(m, x) = Session(l, x)
  BY SessionIsLatest DEF Grown
<1> HIDE DEF id
<1>2. SUFFICES ASSUME NEW a \in SessionIds(m), NEW b \in SessionIds(m), a # b,
                      Session(m, a).task.actor = Agent, Session(m, b).task.actor = Agent,
                      Session(m, a).status # "closed", Session(m, b).status # "closed"
               PROVE  HostOf[Session(m, a).task.conv] # HostOf[Session(m, b).task.conv]
  BY DEF HostsDiffer
<1>3. CASE a \in SessionIds(l) /\ b \in SessionIds(l)
  BY <1>1, <1>2, <1>3 DEF HostsDiffer
<1>4. CASE a = id /\ b \in SessionIds(l)
  BY <1>1, <1>2, <1>4
<1>5. CASE a \in SessionIds(l) /\ b = id
  BY <1>1, <1>2, <1>5
<1> QED BY <1>1, <1>2, <1>3, <1>4, <1>5
-----------------------------------------------------------------------------
(* The steps.  Most of them leave the ledger alone. *)
Statuses == {"waiting", "moved", "resolved"}

LEMMA WithCases ==
  ASSUME TypeInv, NEW k \in Case, NEW st \in Statuses,
         k \in DOMAIN cases => cases[k] # "resolved" \/ st = "resolved"
  PROVE  /\ DOMAIN With(k, st) \subseteq Case /\ With(k, st) \in [DOMAIN With(k, st) -> Statuses]
         /\ CasesKept(cases, With(k, st)) /\ k \in DOMAIN With(k, st) /\ With(k, st)[k] = st
<1>1. DOMAIN cases \subseteq Case /\ \A x \in DOMAIN cases : cases[x] \in Statuses
  BY DEF TypeInv, Statuses
<1> DEFINE w == With(k, st)
<1>2. DOMAIN w = DOMAIN cases \cup {k} /\ w[k] = st
  BY DEF With
<1>3. w = [x \in DOMAIN cases \cup {k} |-> IF x = k THEN st ELSE cases[x]]
  BY DEF With
<1>4. \A x \in DOMAIN cases : x # k => w[x] = cases[x]
  BY <1>3
<1>5. w \in [DOMAIN cases \cup {k} -> Statuses]
  BY <1>1, <1>3
<1> HIDE DEF w
<1>6. CasesKept(cases, w)
  BY <1>2, <1>4 DEF CasesKept
<1> QED BY <1>1, <1>2, <1>5, <1>6 DEF w

LEMMA CasesSame == CasesKept(cases, cases)
BY DEF CasesKept

LEMMA QuietStep ==
  ASSUME Inv, turns' \in Seq(TurnRecord), Longer(turns, turns'), Distinct(turns'), ledger' = ledger,
         history' = history \/ history' = Append(history, None),
         DOMAIN cases' \subseteq Case, cases' \in [DOMAIN cases' -> Statuses], CasesKept(cases, cases'),
         authority' \in Authority, held' \in Authority, boot' \in [Client -> Call],
         \A c \in Client : CallFine(ledger, boot'[c])
  PROVE  Inv'
<1>1. /\ TypeInv /\ Coherent(ledger) /\ HistoryAgrees(ledger, history, cases)
      /\ EvidenceFine(turns, ledger) /\ HostsDiffer(ledger)
  BY DEF Inv
<1>2. turns \in Seq(TurnRecord) /\ ledger \in Seq(Frame) /\ history \in Seq(Decision \cup {None})
  BY <1>1 DEF TypeInv
<1>3. history' \in Seq(Decision \cup {None})
  <2>1. None \in Decision \cup {None}
    OBVIOUS
  <2>2. Append(history, None) \in Seq(Decision \cup {None})
    BY <1>2, <2>1, AppendProperties
  <2> QED BY <1>2, <2>2
<1>4. TypeInv'
  BY <1>2, <1>3 DEF TypeInv, Statuses
<1>5. HistoryAgrees(ledger', history', cases')
  BY <1>1, <1>2, LedgerTypes, HistoryKept
<1>6. EvidenceFine(turns', ledger')
  BY <1>1, <1>2, EvidenceQuiet
<1>7. Coherent(ledger)' /\ HistoryAgrees(ledger, history, cases)' /\ EvidenceFine(turns, ledger)'
      /\ HostsDiffer(ledger)' /\ CallsFine'
  BY <1>1, <1>5, <1>6 DEF CallsFine
<1> QED BY <1>4, <1>7 DEF Inv

(* An operation leaves the calls of the bootstrap service alone, and the   *)
(* authority files.                                                        *)
LEMMA CallsKept ==
  ASSUME Inv, boot' = boot, Proposals(ledger) \subseteq Proposals(ledger')
  PROVE  CallsFine'
<1>1. \A c \in Client : CallFine(ledger, boot[c])
  BY DEF Inv, CallsFine
<1>2. \A c \in Client : CallFine(ledger', boot[c])
  BY <1>1, CallKept
<1> QED BY <1>2 DEF CallsFine

LEMMA LongerSelf ==
  ASSUME NEW S, NEW w \in Seq(S)
  PROVE  Longer(w, w)
BY LenProperties DEF Longer

(* What a quiet step that touches only turns, or only cases, has to show. *)
LEMMA TurnsStep ==
  ASSUME Inv, turns' \in Seq(TurnRecord), Longer(turns, turns'), Distinct(turns'),
         UNCHANGED <<ledger, history, cases, authority, held, boot>>
  PROVE  Inv'
<1>1. TypeInv /\ \A c \in Client : CallFine(ledger, boot[c])
  BY DEF Inv, CallsFine
<1>2. /\ DOMAIN cases' \subseteq Case /\ cases' \in [DOMAIN cases' -> Statuses] /\ CasesKept(cases, cases')
      /\ authority' \in Authority /\ held' \in Authority /\ boot' \in [Client -> Call]
  BY <1>1, CasesSame DEF TypeInv, Statuses
<1> QED BY <1>1, <1>2, QuietStep

LEMMA CasesStep ==
  ASSUME Inv, turns' \in Seq(TurnRecord), Longer(turns, turns'), Distinct(turns'),
         NEW k \in Case, NEW st \in Statuses,
         k \in DOMAIN cases => cases[k] # "resolved" \/ st = "resolved",
         cases' = With(k, st), UNCHANGED <<ledger, history, authority, held, boot>>
  PROVE  Inv'
<1>1. TypeInv /\ \A c \in Client : CallFine(ledger, boot[c])
  BY DEF Inv, CallsFine
<1>2. DOMAIN cases' \subseteq Case /\ cases' \in [DOMAIN cases' -> Statuses] /\ CasesKept(cases, cases')
  BY <1>1, WithCases
<1>3. authority' \in Authority /\ held' \in Authority /\ boot' \in [Client -> Call]
  BY <1>1 DEF TypeInv
<1> QED BY <1>1, <1>2, <1>3, QuietStep

LEMMA TurnsNow ==
  ASSUME Inv
  PROVE  turns \in Seq(TurnRecord) /\ Distinct(turns) /\ Longer(turns, turns)
         /\ DOMAIN turns = 1 .. Len(turns) /\ Len(turns) \in Nat
         /\ held \in Authority /\ version \in Nat
         /\ \A i \in DOMAIN turns : /\ turns[i] \in TurnRecord /\ turns[i].conv \in Conv
                                    /\ turns[i].at \in Nat /\ turns[i].acl \in Acl
<1>1. TypeInv /\ EvidenceFine(turns, ledger)
  BY DEF Inv
<1>2. turns \in Seq(TurnRecord) /\ held \in Authority /\ history \in Seq(Decision \cup {None})
  BY <1>1 DEF TypeInv
<1>3. DOMAIN turns = 1 .. Len(turns) /\ Len(turns) \in Nat /\ version \in Nat
  BY <1>2, LenProperties DEF version
<1>4. \A i \in DOMAIN turns : turns[i] \in TurnRecord
  BY <1>2, <1>3, ElementOfSeq
<1>5. \A t \in TurnRecord : t.conv \in Conv /\ t.at \in Nat /\ t.acl \in Acl
  BY DEF TurnRecord
<1>6. Distinct(turns) /\ Longer(turns, turns)
  BY <1>1, <1>2, LongerSelf DEF EvidenceFine
<1> QED BY <1>2, <1>3, <1>4, <1>5, <1>6

LEMMA RoutePromptKeeps ==
  ASSUME Inv, NEW cv \in Conv, NEW at \in StartTime, RoutePrompt(cv, at)
  PROVE  Inv'
<1> DEFINE prompt == Turn(Codex, cv, "agent", Agent, "prompt", None, at, Aliases(Local))
<1>1. turns' = Record(turns, prompt) /\ UNCHANGED <<ledger, history, cases, authority, held, boot>>
  BY DEF RoutePrompt
<1>2. at \in Nat
  BY ClarificationAssumption
<1>3. prompt \in TurnRecord
  <2>1. Aliases(Local) \in Acl /\ None \in Body
    BY LocalType, TurnsNow DEF Body
  <2> QED BY <1>2, <2>1, TurnType
<1> HIDE DEF prompt
<1>4. turns' \in Seq(TurnRecord) /\ Longer(turns, turns') /\ Distinct(turns')
  BY <1>1, <1>3, TurnsNow, RecordGrows
<1> QED BY <1>1, <1>4, TurnsStep

LEMMA HostTurnKeeps ==
  ASSUME Inv, NEW cv \in Conv, NEW at \in StartTime, HostTurn(cv, at)
  PROVE  Inv'
<1> DEFINE t == Turn(Codex, cv, "human", Local, "prompt", None, at, Aliases(Local))
<1>1. /\ turns' = Append(turns, t) /\ Places(turns, turns'[Len(turns')]) = {}
      /\ UNCHANGED <<ledger, history, cases, authority, held, boot>>
  BY DEF HostTurn
<1>2. at \in Nat
  BY ClarificationAssumption
<1>3. t \in TurnRecord
  <2>1. Aliases(Local) \in Acl /\ None \in Body /\ Local \in Actor
    BY LocalType, TurnsNow DEF Body
  <2> QED BY <1>2, <2>1, TurnType
<1> HIDE DEF t
<1>4. turns'[Len(turns')] = t
  BY <1>1, <1>3, TurnsNow, AppendProperties
<1>5. turns' \in Seq(TurnRecord) /\ Longer(turns, turns') /\ Distinct(turns')
  BY <1>1, <1>3, <1>4, TurnsNow, LongerBy
<1> QED BY <1>1, <1>5, TurnsStep

LEMMA HostClassifiesKeeps ==
  ASSUME Inv, NEW r \in DOMAIN turns, HostClassifies(r)
  PROVE  Inv'
<1> DEFINE t == Turn(Codex, turns[r].conv, "agent", Agent, "classification", None, turns[r].at, turns[r].acl)
<1>1. /\ turns' = Append(turns, t) /\ Places(turns, turns'[Len(turns')]) = {}
      /\ UNCHANGED <<ledger, history, cases, authority, held, boot>>
  BY DEF HostClassifies
<1>2. t \in TurnRecord
  <2>1. turns[r].conv \in Conv /\ turns[r].at \in Nat /\ turns[r].acl \in Acl /\ None \in Body
    BY TurnsNow DEF Body
  <2> QED BY <2>1, TurnType
<1> HIDE DEF t
<1>3. turns'[Len(turns')] = t
  BY <1>1, <1>2, TurnsNow, AppendProperties
<1>4. turns' \in Seq(TurnRecord) /\ Longer(turns, turns') /\ Distinct(turns')
  BY <1>1, <1>2, <1>3, TurnsNow, LongerBy
<1> QED BY <1>1, <1>4, TurnsStep
(* A session opens. *)
LEMMA OpenStep ==
  ASSUME Inv, NEW task \in Task, NEW asked \in Asked, NEW at \in Nat,
         NEW ts \in Seq(TurnRecord), Longer(turns, ts), Distinct(ts), NEW c \in DOMAIN ts,
         NEW all \in Recorded(ts, QuestionTurns(task.conv, asked, at)),
         MayOpen(all, task, c, asked, at),
         turns' = all, ledger' = Append(ledger, OpenedEvent(all, task, c, asked, at)),
         UNCHANGED <<history, cases, authority, held, boot>>,
         task.actor = Agent =>
           /\ Advised(all, Opening(all, task, c, asked, at))
           /\ \A s \in Sessions : s.status # "closed" /\ HostOf[s.task.conv] = HostOf[task.conv]
                                    => s.request = task.request
  PROVE  Inv'
<1> DEFINE e == OpenedEvent(all, task, c, asked, at)
           s == Opening(all, task, c, asked, at)
           id == Len(ledger) + 1
<1>1. /\ TypeInv /\ Coherent(ledger) /\ HistoryAgrees(ledger, history, cases)
      /\ EvidenceFine(turns, ledger) /\ HostsDiffer(ledger)
      /\ turns \in Seq(TurnRecord) /\ ledger \in Seq(Frame) /\ held \in Authority
      /\ history \in Seq(Decision \cup {None})
  BY DEF Inv, TypeInv
<1>2. task.conv \in Conv
  BY DEF Task
<1>3. /\ all \in Seq(TurnRecord) /\ Longer(ts, all) /\ Distinct(all)
      /\ \A k \in DOMAIN asked : Places(all, QuestionTurns(task.conv, asked, at)[k]) # {}
  <2>1. /\ QuestionTurns(task.conv, asked, at) \in Seq(TurnRecord)
        /\ DOMAIN QuestionTurns(task.conv, asked, at) = DOMAIN asked
        /\ Distinct(QuestionTurns(task.conv, asked, at))
    BY <1>1, <1>2, QuestionTurnsType
  <2> QED BY <2>1, RecordedGrows
<1>4. Longer(turns, all)
  BY <1>1, <1>3, LongerTwice
<1>5. c \in DOMAIN all
  BY <1>3, PredecessorKept
<1>6. e \in EventFrame /\ s \in SessionRecord
  BY <1>1, <1>3, <1>5, OpeningType
<1>7. Coherent(ledger')
  BY <1>1, <1>3, <1>5, CoherentOpening
<1>8. s = Opening(all, task, c, asked, at) /\ e = OpenedEvent(all, task, c, asked, at)
  OBVIOUS
<1>9. ledger' = Append(ledger, e) /\ (task.actor = Agent => Advised(all, s))
  OBVIOUS
<1> HIDE DEF e, s
<1>10. /\ e.session = s /\ s.id = id /\ s.status = "open" /\ s.answers = <<>> /\ s.conflicts = <<>>
       /\ s.openedBy = Agent /\ s.task = task /\ s.request = task.request
  <2>1. e.session = s
    BY <1>8 DEF OpenedEvent, Event
  <2> QED BY <1>8, <2>1 DEF Opening
<1>11. Grown(ledger, ledger', e, {}, {}) /\ ledger' \in Seq(Frame)
  BY <1>1, <1>6, <1>9, GrownByEvent DEF Grown
<1>12. id \notin SessionIds(ledger)
  <2>1. Len(ledger) \in Nat /\ \A x \in SessionIds(ledger) : x \in 1 .. Len(ledger)
    BY <1>1, LenProperties DEF Coherent, SessionsFine
  <2> QED BY <2>1
<1>13. Grounded(all, s)
  BY <1>10 DEF Grounded
<1>14. EvidenceFine(turns', ledger')
  <2>1. e.session.task.actor = Agent => Advised(all, e.session)
    BY <1>9, <1>10
  <2> QED BY <1>1, <1>3, <1>4, <1>10, <1>11, <1>13, <2>1, EvidenceGrown
<1>15. HostsDiffer(ledger')
  <2>1. ASSUME task.actor = Agent, NEW x \in SessionIds(ledger), Session(ledger, x).task.actor = Agent,
               Session(ledger, x).status # "closed", HostOf[Session(ledger, x).task.conv] = HostOf[task.conv]
        PROVE  FALSE
    <3> DEFINE n == Session(ledger, x)
    <3>1. n \in Sessions
      BY DEF Sessions
    <3>2. n.request = task.request
      BY <2>1, <3>1
    <3>3. Advised(all, n)
      BY <1>1, <1>3, <1>4, <2>1, AdvisedKept DEF EvidenceFine
    <3>4. n.openedBy = Agent
      <4>1. n \in SessionRecord
        BY <1>1, <3>1, SessionIn
      <4> QED BY <4>1 DEF SessionRecord
    <3>5. x # id
      BY <1>12
    <3>6. Session(ledger', x) = n /\ Session(ledger', id) = s
      BY <1>10, <1>11, <3>5, SessionIsLatest DEF Grown
    <3> HIDE DEF n, id
    <3>7. Material(n) = Material(s)
      BY <1>3, <1>9, <1>10, <2>1, <3>2, <3>3, <3>4, AdvisedUnique
    <3>8. x \in SessionIds(ledger') /\ id \in SessionIds(ledger')
      BY <1>10, <1>11 DEF Grown
    <3>9. x = id
      BY <1>7, <3>6, <3>7, <3>8 DEF Coherent, SessionsDiffer
    <3> QED BY <3>5, <3>9
  <2>2. e.session.id \notin SessionIds(ledger) /\ e.session.task = task
    BY <1>10, <1>12
  <2> QED BY <1>1, <1>11, <2>1, <2>2, HostsOpened
<1>16. Proposals(ledger') = Proposals(ledger) /\ Decisions(ledger') = Decisions(ledger)
  BY <1>11 DEF Grown
<1>17. HistoryAgrees(ledger', history', cases')
  <2>1. CasesKept(cases, cases') /\ Decisions(ledger) \subseteq Decision
    BY <1>1, CasesSame, LedgerTypes
  <2> QED BY <1>1, <1>16, <2>1, HistoryKept
<1>18. CallsFine'
  BY <1>16, CallsKept
<1>19. TypeInv'
  BY <1>1, <1>3, <1>11 DEF TypeInv
<1>20. Coherent(ledger)' /\ HistoryAgrees(ledger, history, cases)' /\ EvidenceFine(turns, ledger)'
       /\ HostsDiffer(ledger)'
  BY <1>7, <1>14, <1>15, <1>17
<1> QED BY <1>18, <1>19, <1>20 DEF Inv

LEMMA EnvelopeType ==
  ASSUME Inv, NEW r \in DOMAIN turns, NEW actor \in Actor \cup {Agent}
  PROVE  /\ Envelope(actor, r) \in Task /\ Envelope(actor, r).actor = actor
         /\ Envelope(actor, r).conv = turns[r].conv /\ Envelope(actor, r).request = r
         /\ Envelope(actor, r).version = version
<1>1. turns[r].conv \in Conv /\ r \in Nat /\ version \in Nat
  BY TurnsNow
<1> QED BY <1>1 DEF Envelope, Task

LEMMA ClarificationOpenKeeps ==
  ASSUME Inv, NEW r \in DOMAIN turns, NEW c \in DOMAIN turns, NEW asked \in Asked, NEW at \in StartTime,
         ClarificationOpen(r, c, asked, at)
  PROVE  Inv'
<1> DEFINE task == Envelope(Local, r)
<1>1. Local \in Actor /\ Local # Agent
  BY TurnsNow, LocalType, ClarificationAssumption
<1>2. task \in Task /\ task.actor = Local /\ task.conv = turns[r].conv
  BY <1>1, EnvelopeType
<1>3. at \in Nat
  BY ClarificationAssumption
<1>4. PICK all \in Recorded(turns, QuestionTurns(turns[r].conv, asked, at)) :
        /\ MayOpen(all, task, c, asked, at) /\ turns' = all
        /\ ledger' = Append(ledger, OpenedEvent(all, task, c, asked, at))
  BY DEF ClarificationOpen
<1>5. UNCHANGED <<history, cases, authority, held, boot>>
  BY DEF ClarificationOpen
<1> HIDE DEF task
<1>6. all \in Recorded(turns, QuestionTurns(task.conv, asked, at))
  BY <1>2, <1>4
<1>7. turns \in Seq(TurnRecord) /\ Longer(turns, turns) /\ Distinct(turns)
  BY TurnsNow
<1> QED BY <1>1, <1>2, <1>3, <1>4, <1>5, <1>6, <1>7, OpenStep

LEMMA AdvisoryPreflightKeeps ==
  ASSUME Inv, NEW r \in DOMAIN turns, NEW label \in {"clear", "conflicting", "ambiguous"},
         NEW asked \in Asked \cup {<<>>}, label = "ambiguous" => asked \in Asked,
         AdvisoryPreflight(turns[r].conv, r, label, asked)
  PROVE  Inv'
<1> DEFINE cv == turns[r].conv
           class == AdvisoryTurn(cv, r, label, asked)
           classified == Record(turns, class)
           c == Place(classified, class)
           task == Envelope(Agent, r)
<1>1. /\ NoOtherActive(cv, r)
      /\ \/ /\ label = "clear"
            /\ turns' = classified /\ UNCHANGED <<ledger, cases>>
         \/ /\ label = "conflicting"
            /\ turns' = classified
            /\ [kind |-> "preflight", about |-> c] \notin DOMAIN cases
            /\ cases' = With([kind |-> "preflight", about |-> c], "waiting")
            /\ UNCHANGED ledger
         \/ /\ label = "ambiguous"
            /\ \E all \in Recorded(classified, QuestionTurns(cv, asked, turns[r].at)) :
                 /\ MayOpen(all, task, c, asked, turns[r].at)
                 /\ turns' = all
                 /\ ledger' = Append(ledger, OpenedEvent(all, task, c, asked, turns[r].at))
            /\ UNCHANGED cases
      /\ UNCHANGED <<history, authority, held, boot>>
  BY DEF AdvisoryPreflight
<1>2. /\ cv \in Conv /\ turns[r].at \in Nat /\ turns[r].acl \in Acl /\ turns \in Seq(TurnRecord)
      /\ Distinct(turns) /\ version \in Nat /\ TypeInv
  BY TurnsNow DEF Inv
<1>3. class = Turn(Codex, cv, "agent", Agent, "classification",
                   [label |-> label, version |-> version, asked |-> asked], turns[r].at, turns[r].acl)
  BY DEF AdvisoryTurn
<1>4. class \in TurnRecord
  <2>1. [label |-> label, version |-> version, asked |-> asked] \in Body
    BY <1>2 DEF Body
  <2> HIDE DEF class, cv
  <2> QED BY <1>2, <1>3, <2>1, TurnType
<1> HIDE DEF class
<1>5. classified \in Seq(TurnRecord) /\ Longer(turns, classified) /\ Distinct(classified)
      /\ Places(classified, class) # {}
  BY <1>2, <1>4, RecordGrows
<1>6. c \in DOMAIN classified /\ classified[c] = class /\ c \in Nat
  BY <1>5, PlaceIn, LenProperties
<1>7. task \in Task /\ task.actor = Agent /\ task.conv = cv /\ task.request = r /\ task.version = version
      /\ task = [actor |-> Agent, conv |-> cv, request |-> r, version |-> version]
  BY EnvelopeType DEF Envelope
<1> HIDE DEF classified, c, task
<1>8. CASE label = "clear"
  <2>1. turns' = classified /\ UNCHANGED <<ledger, history, cases, authority, held, boot>>
    BY <1>1, <1>8
  <2> QED BY <1>5, <2>1, TurnsStep
<1>9. CASE label = "conflicting"
  <2> DEFINE k == [kind |-> "preflight", about |-> c]
  <2>1. /\ turns' = classified /\ k \notin DOMAIN cases /\ cases' = With(k, "waiting")
        /\ UNCHANGED <<ledger, history, authority, held, boot>>
    BY <1>1, <1>9
  <2>2. k \in Case
    BY <1>6 DEF Case
  <2> HIDE DEF k
  <2> QED BY <1>5, <2>1, <2>2, CasesStep DEF Statuses
<1>10. CASE label = "ambiguous"
  <2>1. UNCHANGED <<history, cases, authority, held, boot>> /\ asked \in Asked
    BY <1>1, <1>10
  <2>2. PICK all \in Recorded(classified, QuestionTurns(cv, asked, turns[r].at)) :
          /\ MayOpen(all, task, c, asked, turns[r].at)
          /\ turns' = all
          /\ ledger' = Append(ledger, OpenedEvent(all, task, c, asked, turns[r].at))
    BY <1>1, <1>10
  <2> DEFINE s == Opening(all, task, c, asked, turns[r].at)
             at == turns[r].at
  <2>3. /\ all \in Seq(TurnRecord) /\ Longer(classified, all) /\ held \in Authority
        /\ \A k \in DOMAIN asked : Places(all, QuestionTurns(cv, asked, at)[k]) # {}
        /\ \A k \in DOMAIN asked : QuestionTurns(cv, asked, at)[k] =
              Turn(Codex, cv, "agent", Agent, "question", asked[k].id, at, Principals)
    <3>1. held \in Authority
      BY TurnsNow
    <3>2. /\ QuestionTurns(cv, asked, at) \in Seq(TurnRecord)
          /\ DOMAIN QuestionTurns(cv, asked, at) = DOMAIN asked
          /\ \A k \in DOMAIN asked : QuestionTurns(cv, asked, at)[k] =
              Turn(Codex, cv, "agent", Agent, "question", asked[k].id, at, Principals)
      BY <1>2, <2>1, <3>1, QuestionTurnsType
    <3> QED BY <1>5, <2>2, <3>1, <3>2, RecordedGrows
  <2>4. Longer(turns, all)
    BY <1>2, <1>5, <2>3, LongerTwice
  <2>5. /\ r \in DOMAIN all /\ all[r] = turns[r] /\ c \in DOMAIN all /\ all[c] = class
    BY <1>2, <1>5, <1>6, <2>3, <2>4, PredecessorKept
  <2>6. Predecessor(all, c) = r /\ s.questions[1].previous = c
    BY <1>7, <2>2 DEF MayOpen
  <2>7. s = Opening(all, task, c, asked, at)
    OBVIOUS
  <2> HIDE DEF s, at
  <2>8. /\ s.openedAt = at /\ s.task = task /\ s.request = r /\ s.classification = c
        /\ s.baseline = version
        /\ s.questions = [k \in DOMAIN asked |->
              [id |-> asked[k].id, required |-> asked[k].required, author |-> Agent, at |-> at,
               evidence |-> Place(all, QuestionTurns(cv, asked, at)[k]),
               previous |-> Predecessor(all, Place(all, QuestionTurns(cv, asked, at)[k]))]]
    BY <1>7, <2>7 DEF Opening
  <2>9. \A k \in DOMAIN asked :
          /\ s.questions[k].evidence = Place(all, QuestionTurns(cv, asked, at)[k])
          /\ s.questions[k].evidence \in DOMAIN all
          /\ all[s.questions[k].evidence] =
               Turn(Codex, cv, "agent", Agent, "question", asked[k].id, at, Principals)
    <3>1. SUFFICES ASSUME NEW k \in DOMAIN asked
                   PROVE  /\ s.questions[k].evidence = Place(all, QuestionTurns(cv, asked, at)[k])
                          /\ s.questions[k].evidence \in DOMAIN all
                          /\ all[s.questions[k].evidence] =
                               Turn(Codex, cv, "agent", Agent, "question", asked[k].id, at, Principals)
      OBVIOUS
    <3>2. s.questions[k].evidence = Place(all, QuestionTurns(cv, asked, at)[k])
      BY <2>8
    <3>3. /\ Place(all, QuestionTurns(cv, asked, at)[k]) \in DOMAIN all
          /\ all[Place(all, QuestionTurns(cv, asked, at)[k])] = QuestionTurns(cv, asked, at)[k]
      BY <2>3, PlaceIn
    <3> QED BY <2>3, <3>2, <3>3
  <2>10. s.questions = [k \in DOMAIN asked |->
           [id |-> asked[k].id, required |-> asked[k].required, author |-> Agent, at |-> s.openedAt,
            evidence |-> s.questions[k].evidence, previous |-> Predecessor(all, s.questions[k].evidence)]]
    BY <2>8, <2>9
  <2>11. all[c] = Turn(Codex, cv, "agent", Agent, "classification",
                       [label |-> "ambiguous", version |-> s.baseline, asked |-> asked], at, all[r].acl)
    BY <1>3, <1>10, <2>5, <2>8 DEF at
  <2>12. all[r].conv = cv /\ all[r].at = at
    BY <2>5 DEF at
  <2>13. Asks(all, s, asked, Principals)
    BY <1>7, <2>6, <2>8, <2>9, <2>10, <2>11, <2>12 DEF Asks
  <2>14. Advised(all, s)
    <3>1. Principals \in Acl
      BY <2>3, LocalType
    <3> QED BY <2>1, <2>5, <2>8, <2>13, <3>1 DEF Advised
  <2>15. \A n \in Sessions : n.status # "closed" /\ HostOf[n.task.conv] = HostOf[task.conv]
                              => n.request = task.request
    <3>1. SUFFICES ASSUME NEW n \in Sessions, n.status # "closed", HostOf[n.task.conv] = HostOf[cv]
                   PROVE  n.request = r
      BY <1>7
    <3>2. n.status \in {"open", "proposed", "closed"}
      BY <1>2, SessionIn DEF SessionRecord
    <3>3. n \in ActiveIn(HostOf[cv])
      BY <3>1, <3>2 DEF ActiveIn, Active
    <3> QED BY <1>1, <3>3 DEF NoOtherActive
  <2>16. Advised(all, Opening(all, task, c, asked, turns[r].at))
    BY <2>7, <2>14 DEF at
  <2>17. all \in Recorded(classified, QuestionTurns(task.conv, asked, turns[r].at))
    BY <1>7, <2>2
  <2> QED BY <1>2, <1>5, <1>6, <1>7, <2>1, <2>2, <2>15, <2>16, <2>17, OpenStep
<1> QED BY <1>8, <1>9, <1>10
(* An answer. *)
LEMMA AnswerStep ==
  ASSUME Inv, NEW s \in Sessions, NEW q \in QuestionsOf(s), NEW at \in Nat, NEW prev \in Nat,
         NEW ts \in Seq(TurnRecord), Longer(turns, ts), Distinct(ts), NEW i \in DOMAIN ts,
         ts[i].role = "human", ts[i].author = Local, ts[i].at = at,
         HostOf[ts[i].conv] = HostOf[s.task.conv],
         NEW e, e = AnswerEvent(s, q, at, i, prev), s.status = "open", i \notin UsedBy(s),
         ValidTransition(ledger, e),
         turns' = ts, ledger' = Append(ledger, e), UNCHANGED <<history, cases, authority, held, boot>>
  PROVE  Inv'
<1>1. /\ TypeInv /\ Coherent(ledger) /\ HistoryAgrees(ledger, history, cases)
      /\ EvidenceFine(turns, ledger) /\ HostsDiffer(ledger)
      /\ turns \in Seq(TurnRecord) /\ ledger \in Seq(Frame) /\ history \in Seq(Decision \cup {None})
  BY DEF Inv, TypeInv
<1>2. i \in Nat
  BY LenProperties
<1>3. /\ e \in EventFrame /\ e.at = at /\ e.session.id = s.id /\ Material(e.session) = Material(s)
      /\ e.session.openedAt = s.openedAt /\ e.session.task = s.task /\ Adds(e, s, at, i)
  <2>1. TypeInv /\ i \in Nat /\ e = AnswerEvent(s, q, at, i, prev)
    BY <1>1, <1>2
  <2> QED BY ONLY <2>1, s \in Sessions, q \in QuestionsOf(s), at \in Nat, prev \in Nat, AnswerType
<1>4. Coherent(ledger') /\ at >= s.openedAt
  BY <1>1, <1>2, <1>3, CoherentAnswer
<1>5. s \in SessionRecord /\ s.id \in SessionIds(ledger) /\ s = Session(ledger, s.id)
  BY <1>1, SessionIn
<1>6. Grown(ledger, ledger', e, {}, {}) /\ ledger' \in Seq(Frame)
  BY <1>1, <1>3, GrownByEvent DEF Grown
<1>7. Grounded(ts, e.session)
  <2>1. Grounded(ts, s)
    BY <1>1, <1>5, GroundedKept DEF EvidenceFine
  <2>2. \A a : a.actor = Local /\ a.at = at /\ a.evidence = i => Said(ts, s, a)
    BY <1>4 DEF Said
  <2> QED BY <1>3, <1>5, <2>1, <2>2, GroundedAdds
<1>8. e.session.task.actor = Agent => Advised(ts, e.session)
  <2>1. ASSUME s.task.actor = Agent PROVE Advised(ts, e.session)
    <3>1. Advised(ts, s)
      BY <1>1, <1>5, <2>1, AdvisedKept DEF EvidenceFine
    <3> QED BY <1>3, <3>1, AdvisedSame
  <2> QED BY <1>3, <2>1
<1>9. EvidenceFine(turns', ledger')
  BY <1>1, <1>6, <1>7, <1>8, EvidenceGrown
<1>10. HostsDiffer(ledger')
  <2>1. /\ e.session.id \in SessionIds(ledger) /\ e.session.task = Session(ledger, e.session.id).task
        /\ Session(ledger, e.session.id).status # "closed"
    BY <1>3, <1>5
  <2> QED BY <1>1, <1>6, <2>1, HostsKept
<1>11. Proposals(ledger') = Proposals(ledger) /\ Decisions(ledger') = Decisions(ledger)
  BY <1>6 DEF Grown
<1>12. HistoryAgrees(ledger', history', cases')
  <2>1. CasesKept(cases, cases') /\ Decisions(ledger) \subseteq Decision
    BY <1>1, CasesSame, LedgerTypes
  <2> QED BY <1>1, <1>11, <2>1, HistoryKept
<1>13. CallsFine'
  BY <1>11, CallsKept
<1>14. TypeInv'
  BY <1>1, <1>6 DEF TypeInv
<1>15. Coherent(ledger)' /\ HistoryAgrees(ledger, history, cases)' /\ EvidenceFine(turns, ledger)'
       /\ HostsDiffer(ledger)'
  BY <1>4, <1>9, <1>10, <1>12
<1> QED BY <1>13, <1>14, <1>15 DEF Inv

LEMMA AnswerKeeps ==
  ASSUME Inv, NEW s \in Sessions, NEW q \in QuestionsOf(s), NEW conn \in AnswerConnector,
         NEW reply \in Reply, NEW at \in Time, Answer(conn, s, q, reply, at)
  PROVE  Inv'
<1> DEFINE t == ReplyTurn(conn, s, reply, at)
           all == Record(turns, t)
           i == Place(all, t)
           e == AnswerEvent(s, q, at, i, Predecessor(all, i))
<1>1. /\ s.status = "open" /\ i \notin UsedBy(s) /\ ValidTransition(ledger, e)
      /\ turns' = all /\ ledger' = Append(ledger, e)
      /\ UNCHANGED <<history, cases, authority, held, boot>>
  BY DEF Answer, AnswerAccepted, PreviewAnswer
<1>2. at \in Nat
  BY ClarificationAssumption
<1>3. TypeInv /\ turns \in Seq(TurnRecord) /\ Distinct(turns) /\ held \in Authority
  BY TurnsNow DEF Inv
<1>4. s.task.conv \in Conv
  <2>1. s \in SessionRecord
    BY <1>3, SessionIn
  <2>2. s.task \in Task
    BY <2>1 DEF SessionRecord
  <2> QED BY <2>2 DEF Task
<1>5. t = Turn(conn, s.task.conv, "human", Local, "answer", reply, at, Principals)
  BY DEF ReplyTurn
<1> HIDE DEF t
<1>6. t \in TurnRecord /\ t.role = "human" /\ t.author = Local /\ t.at = at /\ t.conv = s.task.conv
  <2>1. Local \in Actor /\ Principals \in Acl /\ reply \in Body
    BY <1>3, LocalType DEF Body
  <2>2. t \in TurnRecord
    BY <1>2, <1>4, <1>5, <2>1, TurnType
  <2> QED BY <1>5, <2>2 DEF Turn
<1>7. all \in Seq(TurnRecord) /\ Longer(turns, all) /\ Distinct(all) /\ Places(all, t) # {}
  BY <1>3, <1>6, RecordGrows
<1> HIDE DEF all
<1>8. i \in DOMAIN all /\ all[i] = t
  BY <1>7, PlaceIn
<1> HIDE DEF i
<1>9. Predecessor(all, i) \in Nat
  BY <1>7, <1>8, PredecessorIn, LenProperties
<1>10. e = AnswerEvent(s, q, at, i, Predecessor(all, i))
  OBVIOUS
<1> HIDE DEF e
<1> QED BY <1>1, <1>2, <1>6, <1>7, <1>8, <1>9, <1>10, AnswerStep

LEMMA AnswerEvidenceKeeps ==
  ASSUME Inv, NEW s \in Sessions, NEW q \in QuestionsOf(s), NEW i \in DOMAIN turns, AnswerEvidence(s, q, i)
  PROVE  Inv'
<1> DEFINE e == AnswerEvent(s, q, turns[i].at, i, TailEvidence(s))
<1>1. /\ s.status = "open" /\ i \notin UsedBy(s) /\ ValidTransition(ledger, e)
      /\ turns[i].role = "human" /\ turns[i].author = Local
      /\ HostOf[turns[i].conv] = HostOf[s.task.conv]
      /\ turns' = turns /\ ledger' = Append(ledger, e)
      /\ UNCHANGED <<history, cases, authority, held, boot>>
  BY DEF AnswerEvidence, SoleText
<1>2. turns \in Seq(TurnRecord) /\ Distinct(turns) /\ Longer(turns, turns) /\ turns[i].at \in Nat
  BY TurnsNow
<1>3. TailEvidence(s) \in Nat
  <2>1. s \in SessionRecord
    BY SessionIn DEF Inv
  <2>2. s.questions \in Seq(Question) /\ s.answers \in Seq(AnswerRecord) /\ s.conflicts \in Seq(Conflict)
    BY <2>1 DEF SessionRecord
  <2>3. s.questions # <<>>
    <3>1. PICK k \in DOMAIN s.questions : q = s.questions[k].id
      BY DEF QuestionsOf
    <3> QED BY <3>1
  <2>4. Final(s.questions) \in Question
    BY <2>2, <2>3, EmptySeq, LenProperties, ElementOfSeq DEF Final
  <2>5. s.answers # <<>> => Final(s.answers) \in AnswerRecord
    BY <2>2, EmptySeq, LenProperties, ElementOfSeq DEF Final
  <2>6. s.conflicts # <<>> => Final(s.conflicts) \in Conflict
    BY <2>2, EmptySeq, LenProperties, ElementOfSeq DEF Final
  <2>7. /\ Final(s.questions).evidence \in Nat
        /\ s.answers # <<>> => Final(s.answers).evidence \in Nat
        /\ s.conflicts # <<>> => Final(s.conflicts).evidence \in Nat
    BY <2>4, <2>5, <2>6 DEF Question, AnswerRecord, Conflict
  <2> QED BY <2>7 DEF TailEvidence
<1>4. e = AnswerEvent(s, q, turns[i].at, i, TailEvidence(s))
  OBVIOUS
<1> HIDE DEF e
<1> QED BY <1>1, <1>2, <1>3, <1>4, AnswerStep
(* A proposal. *)
ProposedEvent(s, p, at) ==
  Event("proposed", [s EXCEPT !.status = "proposed"], Local, at, LatestEvent(ledger, s.id), p, None)

LEMMA ProposeFacts ==
  ASSUME Inv, NEW s \in Sessions, NEW content \in Content, NEW at \in Time, Propose(s, content, at)
  PROVE  LET p == ProposalOf(s, content, at)
             e == ProposedEvent(s, p, at) IN
         /\ MayPropose(s, at) /\ UNCHANGED <<turns, history, cases, authority, held, boot>>
         /\ p \in Proposal /\ p.session = s.id /\ p.task = s.task /\ p.baseline = s.baseline
         /\ e \in EventFrame /\ e.type = "proposed" /\ e.proposal = p /\ e.actor = Local
         /\ e.previous = LatestEvent(ledger, s.id)
         /\ e.session.id = s.id /\ e.session.status = "proposed" /\ Material(e.session) = Material(s)
         /\ e.session.openedAt = s.openedAt /\ e.session.task = s.task
         /\ e.session.baseline = s.baseline /\ e.session.answers = s.answers
         /\ e.session.conflicts = s.conflicts /\ e.session.questions = s.questions
         /\ ledger' = Append(Append(ledger, e), ProposalFrame(p))
         /\ Coherent(ledger') /\ Grown(ledger, ledger', e, {p}, {})
         /\ e.at >= Latest(ledger, s.id).at /\ e.at >= s.openedAt
<1> DEFINE p == ProposalOf(s, content, at)
           e == ProposedEvent(s, p, at)
<1>1. /\ MayPropose(s, at) /\ ledger' = ledger \o <<e, ProposalFrame(p)>>
      /\ UNCHANGED <<turns, history, cases, authority, held, boot>>
  BY DEF Propose, ProposedFrames, ProposedEvent
<1>2. TypeInv /\ Coherent(ledger) /\ ledger \in Seq(Frame)
  BY DEF Inv, TypeInv
<1>3. at \in Nat
  BY ClarificationAssumption
<1>4. p = ProposalOf(s, content, at)
      /\ e = Event("proposed", [s EXCEPT !.status = "proposed"], Local, at,
                   LatestEvent(ledger, s.id), p, None)
  BY DEF ProposedEvent
<1> HIDE DEF p, e
<1>5. /\ p \in Proposal /\ p.session = s.id /\ p.task = s.task /\ p.baseline = s.baseline
      /\ e \in EventFrame /\ e.type = "proposed" /\ e.proposal = p /\ e.actor = Local
      /\ e.previous = LatestEvent(ledger, s.id)
      /\ e.session.id = s.id /\ e.session.status = "proposed" /\ Material(e.session) = Material(s)
      /\ e.session.openedAt = s.openedAt /\ e.session.task = s.task
      /\ e.session.baseline = s.baseline /\ e.session.answers = s.answers
      /\ e.session.conflicts = s.conflicts /\ e.session.questions = s.questions
  BY <1>2, <1>3, <1>4, ProposalType
<1>6. ledger' = Append(Append(ledger, e), ProposalFrame(p))
  <2>1. e \in Frame /\ ProposalFrame(p) \in Frame
    BY <1>5, OtherFrames DEF Frame
  <2> QED BY <1>1, <1>2, <2>1, TwoMore
<1>7. /\ Coherent(ledger') /\ Grown(ledger, ledger', e, {p}, {})
      /\ e.at >= Latest(ledger, s.id).at /\ e.at >= s.openedAt
  BY <1>1, <1>2, <1>3, <1>4, <1>6, CoherentProposal
<1> QED BY <1>1, <1>5, <1>6, <1>7 DEF p, e

LEMMA ProposeKeeps ==
  ASSUME Inv, NEW s \in Sessions, NEW content \in Content, NEW at \in Time, Propose(s, content, at)
  PROVE  Inv'
<1> DEFINE p == ProposalOf(s, content, at)
           e == ProposedEvent(s, p, at)
<1>1. /\ MayPropose(s, at) /\ UNCHANGED <<turns, history, cases, authority, held, boot>>
      /\ p \in Proposal /\ e \in EventFrame /\ e.session.id = s.id
      /\ Material(e.session) = Material(s)
      /\ e.session.openedAt = s.openedAt /\ e.session.task = s.task
      /\ e.session.answers = s.answers /\ e.session.conflicts = s.conflicts
      /\ Coherent(ledger') /\ Grown(ledger, ledger', e, {p}, {})
  BY ProposeFacts
<1> HIDE DEF p, e
<1>2. /\ TypeInv /\ Coherent(ledger) /\ HistoryAgrees(ledger, history, cases)
      /\ EvidenceFine(turns, ledger) /\ HostsDiffer(ledger)
      /\ turns \in Seq(TurnRecord) /\ ledger \in Seq(Frame) /\ history \in Seq(Decision \cup {None})
  BY DEF Inv, TypeInv
<1>3. s.status = "open" /\ s.id \in SessionIds(ledger) /\ s = Session(ledger, s.id)
  BY <1>1, <1>2, SessionIn DEF MayPropose
<1>4. EvidenceFine(turns', ledger')
  <2>1. Grounded(turns, e.session)
    BY <1>1, <1>2, <1>3, GroundedSame DEF EvidenceFine
  <2>2. ASSUME s.task.actor = Agent PROVE Advised(turns, e.session)
    <3>1. Advised(turns, s)
      BY <1>2, <1>3, <2>2 DEF EvidenceFine
    <3> QED BY <1>1, <3>1, AdvisedSame
  <2>3. Distinct(turns) /\ Longer(turns, turns)
    BY TurnsNow
  <2> QED BY <1>1, <1>2, <2>1, <2>2, <2>3, EvidenceGrown
<1>5. HostsDiffer(ledger')
  <2>1. /\ e.session.id \in SessionIds(ledger) /\ e.session.task = Session(ledger, e.session.id).task
        /\ Session(ledger, e.session.id).status # "closed"
    BY <1>1, <1>3
  <2> QED BY <1>1, <1>2, <2>1, HostsKept
<1>6. /\ Proposals(ledger') = Proposals(ledger) \cup {p} /\ Decisions(ledger') = Decisions(ledger)
       /\ ledger' \in Seq(Frame)
  BY <1>1 DEF Grown
<1>7. HistoryAgrees(ledger', history', cases')
  <2>1. CasesKept(cases, cases') /\ Decisions(ledger) \subseteq Decision
    BY <1>1, <1>2, CasesSame, LedgerTypes
  <2> QED BY <1>1, <1>2, <1>6, <2>1, HistoryKept
<1>8. CallsFine'
  BY <1>1, <1>6, CallsKept
<1>9. TypeInv'
  BY <1>1, <1>2, <1>6 DEF TypeInv
<1>10. Coherent(ledger)' /\ HistoryAgrees(ledger, history, cases)' /\ EvidenceFine(turns, ledger)'
       /\ HostsDiffer(ledger)'
  BY <1>1, <1>4, <1>5, <1>7
<1> QED BY <1>8, <1>9, <1>10 DEF Inv

(* A confirmation: the decision, the changeset and the closing event. *)
Decided(p, selected, at) == DecisionOf(p, Local, at, selected, HighRisk(p))

Confirmation(p, d, at) ==
  LET e == Closing(p, d) IN
  /\ p \in Proposal /\ d \in Decision /\ d.proposal = p /\ d.actor = Local /\ d.at = at
  /\ d.reviewed = HighRisk(p) /\ p.session # 0 /\ Session(ledger, p.session).status = "proposed"
  /\ p.session \in SessionIds(ledger) /\ DecisionsFor(ledger, p) = {} /\ at >= p.at
  /\ version = p.baseline /\ history' = Append(history, d) /\ e \in EventFrame
  /\ ledger' = Append(Append(ledger, DecisionFrame(d)), e)
  /\ Coherent(ledger') /\ Grown(ledger, ledger', e, {}, {d})
  /\ e.at >= Latest(ledger, p.session).at /\ e.at >= e.session.openedAt

LEMMA ConfirmFacts ==
  ASSUME Inv, NEW p \in Proposals(ledger), NEW selected, Selects(p, selected), NEW at \in Time,
         Confirm(p, selected, at)
  PROVE  Confirmation(p, Decided(p, selected, at), at)
<1> DEFINE d == Decided(p, selected, at)
           e == Closing(p, d)
<1>0. d = DecisionOf(p, Local, at, selected, HighRisk(p)) /\ e = Closing(p, d)
  BY DEF Decided
<1>1. /\ Confirmable(p, selected, at) /\ Session(ledger, p.session).status = "proposed"
      /\ history' = Append(history, ActivationOf(p, Local, at, selected, HighRisk(p)))
      /\ ledger' = ledger \o <<DecisionFrame(d), e>>
  BY DEF Confirm, Decided
<1> HIDE DEF d, e
<1>2. p.session # 0 /\ DecisionsFor(ledger, p) = {} /\ at >= p.at /\ version = p.baseline
  BY <1>1 DEF Confirmable
<1>3. TypeInv /\ Coherent(ledger) /\ ledger \in Seq(Frame) /\ held \in Authority
  BY DEF Inv, TypeInv
<1>4. p \in Proposal /\ Local \in Actor /\ at \in Nat /\ HighRisk(p) \in BOOLEAN
  BY <1>3, LedgerTypes, LocalType, ClarificationAssumption DEF HighRisk
<1>5. /\ d \in Decision /\ d.proposal = p /\ d.actor = Local /\ d.at = at /\ d.reviewed = HighRisk(p)
      /\ ActivationOf(p, Local, at, selected, HighRisk(p)) = d
  BY <1>0, <1>4, DecisionType
<1>6. p.session \in SessionIds(ledger)
  BY <1>2, <1>3 DEF Coherent, ProposalsNamed
<1>7. e \in EventFrame
  BY <1>0, <1>3, <1>4, <1>5, <1>6, ClosingType
<1>8. ledger' = Append(Append(ledger, DecisionFrame(d)), e)
  <2>1. e \in Frame /\ DecisionFrame(d) \in Frame
    BY <1>5, <1>7, OtherFrames DEF Frame
  <2> QED BY <1>1, <1>3, <2>1, TwoMore
<1>9. /\ Coherent(ledger') /\ Grown(ledger, ledger', e, {}, {d})
      /\ e.at >= Latest(ledger, p.session).at /\ e.at >= e.session.openedAt
  BY <1>0, <1>1, <1>2, <1>3, <1>5, <1>8, CoherentDecision
<1> QED BY <1>1, <1>2, <1>4, <1>5, <1>6, <1>7, <1>8, <1>9 DEF Confirmation, d, e

LEMMA ConfirmKeeps ==
  ASSUME Inv, NEW p \in Proposals(ledger), NEW selected, Selects(p, selected), NEW at \in Time,
         Confirm(p, selected, at)
  PROVE  Inv'
<1> DEFINE d == Decided(p, selected, at)
           e == Closing(p, d)
<1>1. /\ cases' = IF HighRisk(p) THEN With(ReviewCase(p), "resolved") ELSE cases
      /\ UNCHANGED <<turns, authority, held, boot>>
  BY DEF Confirm
<1>2. e = Closing(p, d)
  OBVIOUS
<1>3. /\ p \in Proposal /\ d \in Decision /\ d.proposal = p
      /\ d.reviewed = HighRisk(p) /\ p.session \in SessionIds(ledger)
      /\ Session(ledger, p.session).status = "proposed"
      /\ version = p.baseline /\ history' = Append(history, d) /\ e \in EventFrame
      /\ Coherent(ledger') /\ Grown(ledger, ledger', e, {}, {d})
  BY ConfirmFacts DEF Confirmation
<1> HIDE DEF d, e
<1>4. /\ TypeInv /\ Coherent(ledger) /\ HistoryAgrees(ledger, history, cases)
      /\ EvidenceFine(turns, ledger) /\ HostsDiffer(ledger)
      /\ turns \in Seq(TurnRecord) /\ ledger \in Seq(Frame) /\ history \in Seq(Decision \cup {None})
  BY DEF Inv, TypeInv
<1> DEFINE s == Session(ledger, p.session)
<1>5. s = Session(ledger, p.session) /\ s.status = "proposed"
  BY <1>3
<1> HIDE DEF s
<1>6. /\ s.id = p.session
      /\ e.session.id = s.id /\ Material(e.session) = Material(s)
      /\ e.session.openedAt = s.openedAt /\ e.session.task = s.task
      /\ e.session.answers = s.answers /\ e.session.conflicts = s.conflicts
  BY <1>2, <1>3, <1>4, <1>5, ClosingType
<1>7. EvidenceFine(turns', ledger')
  <2>1. Grounded(turns, e.session)
    BY <1>3, <1>4, <1>5, <1>6, GroundedSame DEF EvidenceFine
  <2>2. ASSUME s.task.actor = Agent PROVE Advised(turns, e.session)
    <3>1. Advised(turns, s)
      BY <1>3, <1>4, <1>5, <2>2 DEF EvidenceFine
    <3> QED BY <1>6, <3>1, AdvisedSame
  <2>3. Distinct(turns) /\ Longer(turns, turns)
    BY TurnsNow
  <2> QED BY <1>1, <1>3, <1>4, <1>6, <2>1, <2>2, <2>3, EvidenceGrown
<1>8. HostsDiffer(ledger')
  <2>1. /\ e.session.id \in SessionIds(ledger) /\ e.session.task = Session(ledger, e.session.id).task
        /\ Session(ledger, e.session.id).status # "closed"
    BY <1>3, <1>5, <1>6
  <2> QED BY <1>3, <1>4, <2>1, HostsKept
<1>9. /\ Proposals(ledger') = Proposals(ledger) /\ Decisions(ledger') = Decisions(ledger) \cup {d}
      /\ ledger' \in Seq(Frame)
  BY <1>3 DEF Grown
<1>10. /\ DOMAIN cases' \subseteq Case /\ cases' \in [DOMAIN cases' -> Statuses]
       /\ CasesKept(cases, cases')
       /\ HighRisk(p) => ReviewCase(p) \in DOMAIN cases' /\ cases'[ReviewCase(p)] = "resolved"
  <2>1. CASE HighRisk(p)
    <3>1. ReviewCase(p) \in Case /\ "resolved" \in Statuses
      BY <1>3 DEF ReviewCase, Case, Statuses
    <3>2. cases' = With(ReviewCase(p), "resolved")
      BY <1>1, <2>1
    <3> QED BY <1>4, <3>1, <3>2, WithCases
  <2>2. CASE ~HighRisk(p)
    BY <1>1, <1>4, <2>2, CasesSame DEF TypeInv, Statuses
  <2> QED BY <2>1, <2>2
<1>11. HistoryAgrees(ledger', history', cases')
  <2>1. Reviewed(d, cases')
    BY <1>3, <1>10 DEF Reviewed
  <2>2. Len(history) = d.proposal.baseline /\ Decisions(ledger) \subseteq Decision
    BY <1>3, <1>4, LedgerTypes DEF version
  <2> QED BY <1>3, <1>4, <1>9, <1>10, <2>1, <2>2, HistoryDecided
<1>12. CallsFine'
  BY <1>1, <1>9, CallsKept
<1>13. TypeInv'
  <2>1. history' \in Seq(Decision \cup {None})
    BY <1>3, <1>4, AppendProperties
  <2> QED BY <1>1, <1>4, <1>9, <1>10, <2>1 DEF TypeInv, Statuses
<1>14. Coherent(ledger)' /\ HistoryAgrees(ledger, history, cases)' /\ EvidenceFine(turns, ledger)'
       /\ HostsDiffer(ledger)'
  BY <1>3, <1>7, <1>8, <1>11
<1> QED BY <1>12, <1>13, <1>14 DEF Inv

LEMMA RequireReviewKeeps ==
  ASSUME Inv, NEW p \in Proposals(ledger), NEW selected, NEW at, RequireReview(p, selected, at)
  PROVE  Inv'
<1>1. /\ ReviewCase(p) \notin DOMAIN cases /\ cases' = With(ReviewCase(p), "waiting")
      /\ UNCHANGED <<turns, ledger, history, authority, held, boot>>
  BY DEF RequireReview
<1>2. p \in Proposal
  BY LedgerTypes DEF Inv
<1>3. ReviewCase(p) \in Case /\ "waiting" \in Statuses
  BY <1>2 DEF ReviewCase, Case, Statuses
<1>4. turns' \in Seq(TurnRecord) /\ Longer(turns, turns') /\ Distinct(turns')
  BY <1>1, TurnsNow
<1> QED BY <1>1, <1>3, <1>4, CasesStep

LEMMA MoveCaseKeeps ==
  ASSUME Inv, NEW k \in DOMAIN cases, MoveCase(k)
  PROVE  Inv'
<1>1. /\ cases[k] = "waiting" /\ cases' = With(k, "moved")
      /\ UNCHANGED <<turns, ledger, history, authority, held, boot>>
  BY DEF MoveCase
<1>2. k \in Case /\ "moved" \in Statuses /\ cases[k] # "resolved"
  BY <1>1 DEF Inv, TypeInv, Statuses
<1>3. turns' \in Seq(TurnRecord) /\ Longer(turns, turns') /\ Distinct(turns')
  BY <1>1, TurnsNow
<1> QED BY <1>1, <1>2, <1>3, CasesStep

(* Changes of the graph and of the authority, and stuttering. *)
LEMMA OthersKeep ==
  ASSUME Inv, OtherChange \/ (\E a \in Authority : EditAuthority(a)) \/ LoadAuthority \/ UNCHANGED vars
  PROVE  Inv'
<1>1. /\ UNCHANGED <<turns, ledger, cases, boot>>
      /\ history' = history \/ history' = Append(history, None)
      /\ authority' \in Authority /\ held' \in Authority
  BY DEF OtherChange, EditAuthority, LoadAuthority, vars, Inv, TypeInv
<1>2. /\ DOMAIN cases' \subseteq Case /\ cases' \in [DOMAIN cases' -> Statuses] /\ CasesKept(cases, cases')
      /\ boot' \in [Client -> Call] /\ \A c \in Client : CallFine(ledger, boot'[c])
  BY <1>1, CasesSame DEF Inv, TypeInv, CallsFine, Statuses
<1>3. turns' \in Seq(TurnRecord) /\ Longer(turns, turns') /\ Distinct(turns')
  BY <1>1, TurnsNow
<1> QED BY <1>1, <1>2, <1>3, QuietStep
-----------------------------------------------------------------------------
(* Bootstrap calls. *)
LEMMA CallStep ==
  ASSUME Inv, NEW c \in Client, NEW b \in Call, CallFine(ledger, b), boot' = [boot EXCEPT ![c] = b],
         UNCHANGED <<turns, ledger, history, cases, authority, held>>
  PROVE  Inv'
<1>1. TypeInv /\ boot \in [Client -> Call] /\ \A x \in Client : CallFine(ledger, boot[x])
  BY DEF Inv, TypeInv, CallsFine
<1>2. boot' \in [Client -> Call] /\ \A x \in Client : CallFine(ledger, boot'[x])
  BY <1>1
<1>3. turns' \in Seq(TurnRecord) /\ Longer(turns, turns') /\ Distinct(turns')
  BY TurnsNow
<1>4. /\ DOMAIN cases' \subseteq Case /\ cases' \in [DOMAIN cases' -> Statuses] /\ CasesKept(cases, cases')
      /\ authority' \in Authority /\ held' \in Authority
  BY <1>1, CasesSame DEF TypeInv, Statuses
<1> QED BY <1>2, <1>3, <1>4, QuietStep

LEMMA IdleFine == Idle \in Call /\ Idle.pc = "idle" /\ \A l : CallFine(l, Idle)
BY DEF Idle, Call, CallFine

LEMMA CallNow ==
  ASSUME Inv, NEW c \in Client
  PROVE  /\ boot[c] \in Call /\ CallFine(ledger, boot[c]) /\ Len(ledger) \in Nat
         /\ version \in Nat /\ Len(turns) \in Nat
         /\ boot \in [Client -> Call]
BY LenProperties DEF Inv, TypeInv, CallsFine, version

LEMMA BootProposeKeeps ==
  ASSUME Inv, NEW c \in Client, NEW content \in BootContent, NEW at \in StartTime, BootPropose(c, content, at)
  PROVE  Inv'
<1> DEFINE b == [Idle EXCEPT !.pc = "validated", !.proposal = BootProposal(content, at),
                             !.version = version, !.turns = Len(turns)]
<1>1. boot' = [boot EXCEPT ![c] = b] /\ UNCHANGED <<turns, ledger, history, cases, authority, held>>
  BY DEF BootPropose
<1>2. BootProposal(content, at) \in Proposal /\ BootProposal(content, at).session = 0
  <2>1. Local \in Actor /\ at \in Nat /\ version \in Nat
    BY CallNow, TurnsNow, LocalType, ClarificationAssumption
  <2> QED BY <2>1 DEF BootProposal, Proposal
<1>3. b \in Call /\ b.pc = "validated" /\ b.proposal = BootProposal(content, at)
  BY <1>2, CallNow DEF Idle, Call
<1> HIDE DEF b
<1>4. CallFine(ledger, b)
  BY <1>2, <1>3 DEF CallFine
<1> QED BY <1>1, <1>3, <1>4, CallStep

LEMMA BootListKeeps ==
  ASSUME Inv, NEW c \in Client, BootList(c)
  PROVE  Inv'
<1> DEFINE b == [boot[c] EXCEPT !.pc = "listed"]
<1>1. /\ boot[c].pc = "validated"
      /\ boot' = [boot EXCEPT ![c] = b] \/ boot' = [boot EXCEPT ![c] = Idle]
      /\ UNCHANGED <<turns, ledger, history, cases, authority, held>>
  BY CallNow DEF BootList
<1>2. b \in Call /\ b.pc = "listed" /\ b.proposal = boot[c].proposal
  BY CallNow DEF Call
<1> HIDE DEF b
<1>3. CallFine(ledger, b)
  BY <1>1, <1>2, CallNow DEF CallFine
<1> QED BY <1>1, <1>2, <1>3, IdleFine, CallStep

LEMMA BootBytesKeeps ==
  ASSUME Inv, NEW c \in Client, BootBytes(c)
  PROVE  Inv'
<1> DEFINE b == [boot[c] EXCEPT !.pc = "read", !.ledger = Len(ledger)]
<1>1. /\ boot[c].pc = "listed"
      /\ boot' = [boot EXCEPT ![c] = b] \/ boot' = [boot EXCEPT ![c] = Idle]
      /\ UNCHANGED <<turns, ledger, history, cases, authority, held>>
  BY CallNow DEF BootBytes
<1>2. b \in Call /\ b.pc = "read" /\ b.proposal = boot[c].proposal
  BY CallNow DEF Call
<1> HIDE DEF b
<1>3. CallFine(ledger, b)
  BY <1>1, <1>2, CallNow DEF CallFine
<1> QED BY <1>1, <1>2, <1>3, IdleFine, CallStep

LEMMA BootActivateKeeps ==
  ASSUME Inv, NEW c \in Client, NEW p \in Proposals(ledger), NEW selected, Selects(p, selected),
         NEW at \in StartTime, BootActivate(c, p, selected, at)
  PROVE  Inv'
<1> DEFINE b == [Idle EXCEPT !.pc = "checked", !.proposal = p, !.decision = BootDecision(p, selected, at)]
<1>1. /\ p.session = 0 /\ ~HighRisk(p)
      /\ boot' = [boot EXCEPT ![c] = b] /\ UNCHANGED <<turns, ledger, history, cases, authority, held>>
  BY DEF BootActivate
<1>2. p \in Proposal /\ Local \in Actor /\ at \in Nat
  BY LedgerTypes, TurnsNow, LocalType, ClarificationAssumption DEF Inv
<1>3. /\ BootDecision(p, selected, at) \in Decision /\ BootDecision(p, selected, at).proposal = p
      /\ BootDecision(p, selected, at).reviewed = FALSE
  <2>1. BootDecision(p, selected, at) = DecisionOf(p, Local, at, selected, FALSE) /\ FALSE \in BOOLEAN
    BY DEF BootDecision
  <2>2. DecisionOf(p, Local, at, selected, FALSE).reviewed = FALSE
    BY DEF DecisionOf
  <2>3. selected \in SUBSET UNION {x.added : x \in Content \cup BootContent}
    <3>1. p.content \in Content \cup BootContent
      BY <1>2 DEF Proposal
    <3> QED BY <3>1 DEF Selects
  <2>4. DecisionOf(p, Local, at, selected, FALSE) \in Decision
    BY <1>2, <2>3 DEF DecisionOf, Decision
  <2>5. DecisionOf(p, Local, at, selected, FALSE).proposal = p
    BY DEF DecisionOf
  <2> QED BY <2>1, <2>2, <2>4, <2>5
<1>4. b \in Call /\ b.pc = "checked" /\ b.decision = BootDecision(p, selected, at)
  BY <1>2, <1>3 DEF Idle, Call
<1> HIDE DEF b
<1>5. CallFine(ledger, b)
  BY <1>1, <1>3, <1>4 DEF CallFine
<1> QED BY <1>1, <1>4, <1>5, CallStep

LEMMA BootActivateBytesKeeps ==
  ASSUME Inv, NEW c \in Client, BootActivateBytes(c)
  PROVE  Inv'
<1> DEFINE b == [boot[c] EXCEPT !.pc = "apply", !.ledger = Len(ledger)]
<1>1. /\ boot[c].pc = "checked"
      /\ boot' = [boot EXCEPT ![c] = b] \/ boot' = [boot EXCEPT ![c] = Idle]
      /\ UNCHANGED <<turns, ledger, history, cases, authority, held>>
  BY CallNow DEF BootActivateBytes
<1>2. b \in Call /\ b.pc = "apply" /\ b.decision = boot[c].decision
  BY CallNow DEF Call
<1> HIDE DEF b
<1>3. CallFine(ledger, b)
  BY <1>1, <1>2, CallNow DEF CallFine
<1> QED BY <1>1, <1>2, <1>3, IdleFine, CallStep

(* A call that appends to the ledger. *)
Sessionless(l, P, D) ==
  /\ \A p \in P : p.session = 0
  /\ \A d \in D : d.proposal \in Proposals(l) /\ d.proposal.session = 0

LEMMA BootFrameStep ==
  ASSUME Inv, NEW c \in Client, boot' = [boot EXCEPT ![c] = Idle],
         UNCHANGED <<turns, authority, held, cases>>,
         NEW P, NEW D, Quiet(ledger, ledger', P, D), Sessionless(ledger, P, D),
         history' \in Seq(Decision \cup {None}), HistoryAgrees(ledger', history', cases')
  PROVE  Inv'
<1>1. /\ TypeInv /\ Coherent(ledger) /\ EvidenceFine(turns, ledger) /\ HostsDiffer(ledger)
      /\ turns \in Seq(TurnRecord) /\ ledger \in Seq(Frame)
      /\ boot \in [Client -> Call] /\ \A x \in Client : CallFine(ledger, boot[x])
  BY DEF Inv, TypeInv, CallsFine
<1>2. ledger' \in Seq(Frame) /\ Proposals(ledger) \subseteq Proposals(ledger')
  BY DEF Quiet
<1>3. Coherent(ledger')
  <2>1. /\ \A p \in P : p.session = 0
        /\ \A d \in D : d.proposal \in Proposals(ledger) /\ d.proposal.session = 0
    BY DEF Sessionless
  <2> QED BY <1>1, <2>1, CoherentQuiet
<1>4. EvidenceFine(turns', ledger')
  BY <1>1, TurnsNow, EvidenceQuiet
<1>5. HostsDiffer(ledger')
  BY <1>1, HostsQuiet
<1>6. boot' \in [Client -> Call] /\ \A x \in Client : CallFine(ledger', boot'[x])
  BY <1>1, <1>2, IdleFine, CallKept
<1>7. TypeInv'
  BY <1>1, <1>2, <1>6 DEF TypeInv
<1>8. Coherent(ledger)' /\ HistoryAgrees(ledger, history, cases)' /\ EvidenceFine(turns, ledger)'
      /\ HostsDiffer(ledger)' /\ CallsFine'
  BY <1>3, <1>4, <1>5, <1>6 DEF CallsFine
<1> QED BY <1>7, <1>8 DEF Inv

LEMMA BootAppendKeeps ==
  ASSUME Inv, NEW c \in Client, BootAppend(c)
  PROVE  Inv'
<1>1. /\ boot[c].pc = "read" /\ boot' = [boot EXCEPT ![c] = Idle]
      /\ UNCHANGED <<turns, history, cases, authority, held>>
      /\ ledger' = ledger \/ ledger' = Append(ledger, ProposalFrame(boot[c].proposal))
  BY DEF BootAppend
<1>2. CASE ledger' = ledger
  BY <1>1, <1>2, IdleFine, CallStep
<1>3. CASE ledger' = Append(ledger, ProposalFrame(boot[c].proposal))
  <2> DEFINE p == boot[c].proposal
  <2>1. p \in Proposal /\ p.session = 0
    BY <1>1, CallNow DEF CallFine
  <2>2. TypeInv /\ ledger \in Seq(Frame) /\ HistoryAgrees(ledger, history, cases)
        /\ history \in Seq(Decision \cup {None})
    BY DEF Inv, TypeInv
  <2>3. Quiet(ledger, ledger', {p}, {})
    BY <1>3, <2>1, <2>2, QuietProposal
  <2>4. HistoryAgrees(ledger', history', cases')
    <3>1. Decisions(ledger') = Decisions(ledger)
      BY <2>3 DEF Quiet
    <3> QED BY <1>1, <2>2, <3>1, CasesSame, LedgerTypes, HistoryKept
  <2> HIDE DEF p
  <2>5. Sessionless(ledger, {p}, {})
    BY <2>1 DEF Sessionless
  <2>6. history' \in Seq(Decision \cup {None}) /\ UNCHANGED <<turns, authority, held, cases>>
    BY <1>1, <2>2
  <2> QED BY <1>1, <2>3, <2>4, <2>5, <2>6, BootFrameStep
<1> QED BY <1>1, <1>2, <1>3

LEMMA BootApplyFacts ==
  ASSUME Inv, NEW c \in Client, BootApply(c)
  PROVE  /\ boot' = [boot EXCEPT ![c] = Idle] /\ UNCHANGED <<turns, cases, authority, held>>
         /\ boot[c].pc = "apply"
         /\ boot[c].decision \in Decision /\ ~boot[c].decision.reviewed
         /\ ~HighRisk(boot[c].decision.proposal)
         /\ boot[c].decision.proposal \in Proposals(ledger) /\ boot[c].decision.proposal.session = 0
         /\ \/ UNCHANGED <<ledger, history>>
            \/ /\ version = boot[c].decision.proposal.baseline
               /\ ledger' = Append(ledger, DecisionFrame(boot[c].decision))
               /\ history' = Append(history, boot[c].decision)
<1> DEFINE d == boot[c].decision
<1>1. /\ boot[c].pc = "apply" /\ boot' = [boot EXCEPT ![c] = Idle]
      /\ UNCHANGED <<turns, cases, authority, held>>
      /\ \/ UNCHANGED <<ledger, history>>
         \/ /\ version = d.proposal.baseline
            /\ ledger' = Append(ledger, DecisionFrame(d))
            /\ history' = Append(history, BootActivation(d))
  BY DEF BootApply
<1>2. /\ d \in Decision /\ ~d.reviewed /\ ~HighRisk(d.proposal)
      /\ d.proposal \in Proposals(ledger) /\ d.proposal.session = 0
  BY <1>1, CallNow DEF CallFine
<1> HIDE DEF d
<1>3. BootActivation(d) = d
  BY <1>2 DEF BootActivation, ActivationOf, Decision
<1> QED BY <1>1, <1>2, <1>3 DEF d

LEMMA BootApplyKeeps ==
  ASSUME Inv, NEW c \in Client, BootApply(c)
  PROVE  Inv'
<1> DEFINE d == boot[c].decision
<1>1. /\ boot' = [boot EXCEPT ![c] = Idle] /\ UNCHANGED <<turns, cases, authority, held>>
      /\ d \in Decision /\ ~d.reviewed /\ ~HighRisk(d.proposal)
      /\ d.proposal \in Proposals(ledger) /\ d.proposal.session = 0
      /\ \/ UNCHANGED <<ledger, history>>
         \/ /\ version = d.proposal.baseline
            /\ ledger' = Append(ledger, DecisionFrame(d))
            /\ history' = Append(history, d)
  BY BootApplyFacts
<1> HIDE DEF d
<1>2. CASE UNCHANGED <<ledger, history>>
  BY <1>1, <1>2, IdleFine, CallStep
<1>3. CASE /\ version = d.proposal.baseline
           /\ ledger' = Append(ledger, DecisionFrame(d))
           /\ history' = Append(history, d)
  <2>1. TypeInv /\ ledger \in Seq(Frame) /\ HistoryAgrees(ledger, history, cases)
        /\ history \in Seq(Decision \cup {None})
    BY DEF Inv, TypeInv
  <2>2. Quiet(ledger, ledger', {}, {d})
    BY <1>1, <1>3, <2>1, QuietDecision
  <2>3. history' \in Seq(Decision \cup {None})
    BY <1>1, <1>3, <2>1, AppendProperties
  <2>4. HistoryAgrees(ledger', history', cases')
    <3>1. Decisions(ledger') = Decisions(ledger) \cup {d} /\ Decisions(ledger) \subseteq Decision
      BY <2>1, <2>2, LedgerTypes DEF Quiet
    <3>2. Reviewed(d, cases')
      <4>1. d.reviewed \in BOOLEAN /\ HighRisk(d.proposal) \in BOOLEAN
        BY <1>1 DEF Decision, HighRisk
      <4>2. d.reviewed = HighRisk(d.proposal)
        BY <1>1, <4>1
      <4> QED BY <1>1, <4>2 DEF Reviewed
    <3>3. Len(history) = d.proposal.baseline /\ CasesKept(cases, cases')
      BY <1>1, <1>3, CasesSame DEF version
    <3> QED BY <1>1, <1>3, <2>1, <3>1, <3>2, <3>3, HistoryDecided
  <2>5. Sessionless(ledger, {}, {d})
    BY <1>1 DEF Sessionless
  <2> QED BY <1>1, <2>2, <2>3, <2>4, <2>5, BootFrameStep
<1> QED BY <1>1, <1>2, <1>3
-----------------------------------------------------------------------------
(* The invariant. *)
LEMMA InitInv == Init => Inv
<1> SUFFICES ASSUME Init PROVE Inv
  OBVIOUS
<1>1. /\ turns = <<>> /\ ledger = <<>> /\ history = <<>> /\ cases = [c \in {} |-> "none"]
      /\ authority \in Authority /\ held = authority /\ boot = [c \in Client |-> Idle]
  BY DEF Init
<1>2. DOMAIN turns = {} /\ DOMAIN ledger = {} /\ DOMAIN history = {} /\ DOMAIN cases = {}
  BY <1>1
<1>3. SessionIds(ledger) = {} /\ Proposals(ledger) = {} /\ Decisions(ledger) = {}
  BY <1>2 DEF SessionIds, Events, Proposals, Decisions
<1>4. TypeInv
  <2>1. cases \in [DOMAIN cases -> {"waiting", "moved", "resolved"}]
    BY <1>1, <1>2
  <2> QED BY <1>1, <1>2, <2>1, EmptySeq, IdleFine DEF TypeInv
<1>5. Coherent(ledger)
  BY <1>3 DEF Coherent, SessionsFine, SessionsDiffer, ProposalsNamed, DecisionsNamed
<1>6. HistoryAgrees(ledger, history, cases)
  BY <1>2, <1>3 DEF HistoryAgrees
<1>7. CallsFine
  BY <1>1, IdleFine DEF CallsFine
<1>8. EvidenceFine(turns, ledger) /\ HostsDiffer(ledger)
  BY <1>2, <1>3 DEF EvidenceFine, HostsDiffer, Distinct
<1> QED BY <1>4, <1>5, <1>6, <1>7, <1>8 DEF Inv

LEMMA WorkflowKeeps ==
  ASSUME Inv, Workflow
  PROVE  Inv'
<1>1. CASE \E cv \in Conv, at \in StartTime : RoutePrompt(cv, at)
  BY <1>1, RoutePromptKeeps
<1>2. CASE \E r \in DOMAIN turns : \E label \in {"clear", "conflicting"} :
             AdvisoryPreflight(turns[r].conv, r, label, <<>>)
  <2>1. PICK r \in DOMAIN turns, label \in {"clear", "conflicting"} :
          AdvisoryPreflight(turns[r].conv, r, label, <<>>)
    BY <1>2
  <2>2. /\ label \in {"clear", "conflicting", "ambiguous"} /\ <<>> \in Asked \cup {<<>>}
        /\ label # "ambiguous"
    OBVIOUS
  <2> QED BY <2>1, <2>2, AdvisoryPreflightKeeps
<1>3. CASE \E r \in DOMAIN turns : \E asked \in Asked :
             AdvisoryPreflight(turns[r].conv, r, "ambiguous", asked)
  <2>1. PICK r \in DOMAIN turns, asked \in Asked :
          AdvisoryPreflight(turns[r].conv, r, "ambiguous", asked)
    BY <1>3
  <2>2. "ambiguous" \in {"clear", "conflicting", "ambiguous"} /\ asked \in Asked \cup {<<>>}
    OBVIOUS
  <2> QED BY <2>1, <2>2, AdvisoryPreflightKeeps
<1>4. CASE \E r, c \in DOMAIN turns, asked \in Asked, at \in StartTime : ClarificationOpen(r, c, asked, at)
  BY <1>4, ClarificationOpenKeeps
<1>5. CASE \E s \in Sessions : \E q \in QuestionsOf(s), conn \in AnswerConnector, reply \in Reply, at \in Time :
             Answer(conn, s, q, reply, at)
  BY <1>5, AnswerKeeps
<1>6. CASE \E s \in Sessions : \E q \in QuestionsOf(s), i \in DOMAIN turns : AnswerEvidence(s, q, i)
  BY <1>6, AnswerEvidenceKeeps
<1>7. CASE \E s \in Sessions : \E content \in Content, at \in Time : Propose(s, content, at)
  BY <1>7, ProposeKeeps
<1>8. CASE \E p \in Proposals(ledger) : \E selected \in SUBSET p.content.added, at \in Time :
             \/ Confirm(p, selected, at) \/ RequireReview(p, selected, at)
             \/ at \in StartTime /\ \E c \in Client : BootActivate(c, p, selected, at)
  <2>1. PICK p \in Proposals(ledger) : \E selected \in SUBSET p.content.added, at \in Time :
             \/ Confirm(p, selected, at) \/ RequireReview(p, selected, at)
             \/ at \in StartTime /\ \E c \in Client : BootActivate(c, p, selected, at)
    BY <1>8
  <2>2. PICK selected \in SUBSET p.content.added, at \in Time :
             \/ Confirm(p, selected, at) \/ RequireReview(p, selected, at)
             \/ at \in StartTime /\ \E c \in Client : BootActivate(c, p, selected, at)
    BY <2>1
  <2>3. Selects(p, selected)
    BY DEF Selects
  <2> QED BY <2>2, <2>3, ConfirmKeeps, RequireReviewKeeps, BootActivateKeeps
<1> QED BY <1>1, <1>2, <1>3, <1>4, <1>5, <1>6, <1>7, <1>8 DEF Workflow

LEMMA NextInv ==
  ASSUME Inv, [Next]_vars
  PROVE  Inv'
<1>1. CASE Workflow
  BY <1>1, WorkflowKeeps
<1>2. CASE \E c \in Client : \/ \E content \in BootContent, at \in StartTime : BootPropose(c, content, at)
                             \/ BootList(c) \/ BootBytes(c) \/ BootAppend(c)
                             \/ BootActivateBytes(c) \/ BootApply(c)
  BY <1>2, BootProposeKeeps, BootListKeeps, BootBytesKeeps, BootAppendKeeps, BootActivateBytesKeeps,
     BootApplyKeeps
<1>3. CASE \E cv \in Conv, at \in StartTime : HostTurn(cv, at)
  BY <1>3, HostTurnKeeps
<1>4. CASE \E r \in DOMAIN turns : HostClassifies(r)
  BY <1>4, HostClassifiesKeeps
<1>5. CASE \E k \in DOMAIN cases : MoveCase(k)
  BY <1>5, MoveCaseKeeps
<1>6. CASE OtherChange \/ (\E a \in Authority : EditAuthority(a)) \/ LoadAuthority \/ UNCHANGED vars
  BY <1>6, OthersKeep
<1> QED BY <1>1, <1>2, <1>3, <1>4, <1>5, <1>6 DEF Next

(* Everything the theorems below rest on: types; that the events, proposals *)
(* and decisions of the ledger name each other; that decisions and          *)
(* changesets are the same, place by place; what the pending bootstrap      *)
(* calls hold; and that what was said, and asked, is evidence.              *)
LEMMA InvCorrect == Spec => []Inv
<1>1. Inv /\ [Next]_vars => Inv'
  BY NextInv
<1> QED BY InitInv, <1>1, PTL DEF Spec

(* In every reachable state the ledger holds well-formed events, proposals *)
(* and decisions, the evidence well-formed turns, and the calls in         *)
(* progress of BootstrapService well-formed requests.                      *)
THEOREM TypeCorrect == Spec => []TypeInv
<1>1. Inv => TypeInv
  BY DEF Inv
<1> QED BY InvCorrect, <1>1, PTL
-----------------------------------------------------------------------------
(* Decisions and changes. *)
LEMMA AppliedAsDecided ==
  ASSUME Inv, NEW i \in DOMAIN history, history[i] # None
  PROVE  LET d == history[i]
             p == d.proposal IN
         /\ i = p.baseline + 1 /\ d \in DecisionsFor(ledger, p)
         /\ d = ActivationOf(p, d.actor, d.at, d.selected, d.reviewed)
         /\ d.reviewed = (HighRisk(p) /\ cases[ReviewCase(p)] = "resolved")
<1> DEFINE d == history[i]
<1>1. HistoryAgrees(ledger, history, cases) /\ TypeInv
  BY DEF Inv
<1>2. d \in Decisions(ledger) /\ i = d.proposal.baseline + 1
  BY <1>1 DEF HistoryAgrees
<1> HIDE DEF d
<1>3. d \in Decision /\ Reviewed(d, cases)
  BY <1>1, <1>2, LedgerTypes DEF HistoryAgrees
<1>4. d = ActivationOf(d.proposal, d.actor, d.at, d.selected, d.reviewed)
  BY <1>3 DEF ActivationOf, Decision
<1>5. d.reviewed = (HighRisk(d.proposal) /\ cases[ReviewCase(d.proposal)] = "resolved")
  <2>1. d.reviewed = HighRisk(d.proposal) /\ HighRisk(d.proposal) \in BOOLEAN
    BY <1>3 DEF Reviewed, HighRisk
  <2>2. HighRisk(d.proposal) => cases[ReviewCase(d.proposal)] = "resolved"
    BY <1>3 DEF Reviewed
  <2> QED BY <2>1, <2>2
<1>6. d \in DecisionsFor(ledger, d.proposal)
  BY <1>2 DEF DecisionsFor
<1> QED BY <1>2, <1>4, <1>5, <1>6 DEF d

LEMMA ClosedIsDecided ==
  ASSUME Inv
  PROVE  {s.id : s \in {z \in Sessions : z.status = "closed"}}
           = {d.proposal.session : d \in Decisions(ledger)} \ {0}
<1>1. TypeInv /\ ledger \in Seq(Frame) /\ SessionsFine(ledger) /\ ProposalsNamed(ledger)
      /\ DecisionsNamed(ledger)
  BY DEF Inv, TypeInv, Coherent
<1>2. ASSUME NEW s \in Sessions, s.status = "closed"
      PROVE  s.id # 0 /\ \E d \in Decisions(ledger) : d.proposal.session = s.id
  <2>1. /\ s.id \in SessionIds(ledger) /\ s = Session(ledger, s.id)
        /\ s = Latest(ledger, s.id).session
    BY <1>1, SessionIn
  <2>2. s.id \in 1 .. Len(ledger) /\ Fine(Latest(ledger, s.id))
    BY <1>1, <2>1 DEF SessionsFine
  <2>3. Latest(ledger, s.id).decision \in Decisions(ledger)
    BY <1>1, <1>2, <2>1 DEF DecisionsNamed
  <2>4. Latest(ledger, s.id).decision.proposal.session = s.id
    BY <1>2, <2>1, <2>2 DEF Fine
  <2> QED BY <2>2, <2>3, <2>4
<1>3. ASSUME NEW d \in Decisions(ledger), d.proposal.session # 0
      PROVE  \E s \in Sessions : s.status = "closed" /\ s.id = d.proposal.session
  <2>1. d.proposal \in Proposals(ledger)
        /\ Session(ledger, d.proposal.session).status = "closed"
    BY <1>1, <1>3 DEF DecisionsNamed
  <2>2. d.proposal.session \in SessionIds(ledger)
    BY <1>1, <1>3, <2>1 DEF ProposalsNamed
  <2>3. Session(ledger, d.proposal.session).id = d.proposal.session
    BY <1>1, <2>2, LatestIn, SessionIsLatest
  <2> QED BY <2>1, <2>2, <2>3 DEF Sessions
<1> QED BY <1>2, <1>3

(* A decision and the change it decided are one, however clarifications,   *)
(* confirmations and the calls of BootstrapService interleave: a decided   *)
(* proposal was applied exactly once, at the version it was made for; what *)
(* was applied was decided; a session is closed exactly when its proposal  *)
(* is decided.                                                             *)
THEOREM DecidedAppliedCorrect == Spec => []DecidedApplied
<1>1. ASSUME Inv PROVE DecidedApplied
  <2>1. \A p \in Proposals(ledger), i \in DOMAIN history :
          history[i] # None /\ history[i].proposal = p =>
            /\ i = p.baseline + 1
            /\ \E d \in DecisionsFor(ledger, p) :
                 /\ history[i] = ActivationOf(p, d.actor, d.at, d.selected, d.reviewed)
                 /\ d.reviewed = (HighRisk(p) /\ cases[ReviewCase(p)] = "resolved")
    BY <1>1, AppliedAsDecided
  <2>2. \A d \in Decisions(ledger) : /\ d.proposal.baseline < version
                                     /\ history[d.proposal.baseline + 1] # None
                                     /\ history[d.proposal.baseline + 1].proposal = d.proposal
    <3>1. HistoryAgrees(ledger, history, cases) /\ Decisions(ledger) \subseteq Decision
      BY <1>1, LedgerTypes DEF Inv
    <3>2. None \notin Decision
      BY ClarificationAssumption
    <3> QED BY <3>1, <3>2 DEF HistoryAgrees, version
  <2> QED BY <1>1, <2>1, <2>2, ClosedIsDecided DEF DecidedApplied
<1> QED BY InvCorrect, <1>1, PTL
-----------------------------------------------------------------------------
(* Answers and prompts. *)
LEMMA SaidParts ==
  ASSUME NEW s \in SessionRecord, NEW k \in DOMAIN (s.answers \o s.conflicts)
  PROVE  LET n == Len(s.answers)
             said == s.answers \o s.conflicts IN
         /\ n \in Nat /\ k \in Nat
         /\ \/ k \in DOMAIN s.answers /\ k <= n /\ said[k] = s.answers[k]
            \/ k - n \in DOMAIN s.conflicts /\ k > n /\ said[k] = s.conflicts[k - n]
<1> DEFINE S == AnswerRecord \cup Conflict
           a == s.answers
           x == s.conflicts
<1>1. a \in Seq(S) /\ x \in Seq(S)
  <2>1. a \in Seq(AnswerRecord) /\ x \in Seq(Conflict)
    BY DEF SessionRecord
  <2> QED BY <2>1
<1> HIDE DEF S, a, x
<1>2. /\ a \o x \in Seq(S) /\ Len(a \o x) = Len(a) + Len(x) /\ Len(a) \in Nat /\ Len(x) \in Nat
      /\ \A i \in 1 .. Len(a) + Len(x) : (a \o x)[i] = IF i <= Len(a) THEN a[i] ELSE x[i - Len(a)]
      /\ DOMAIN a = 1 .. Len(a) /\ DOMAIN x = 1 .. Len(x) /\ DOMAIN (a \o x) = 1 .. Len(a \o x)
  BY <1>1, ConcatProperties, LenProperties
<1>3. k \in 1 .. Len(a) + Len(x)
  BY <1>2 DEF a, x
<1>4. CASE k <= Len(a)
  BY <1>2, <1>3, <1>4 DEF a, x
<1>5. CASE ~(k <= Len(a))
  <2>1. k - Len(a) \in 1 .. Len(x) /\ k > Len(a)
    BY <1>2, <1>3, <1>5
  <2> QED BY <1>2, <1>3, <1>5, <2>1 DEF a, x
<1> QED BY <1>4, <1>5

LEMMA GroundedSaid ==
  ASSUME NEW ts, NEW s \in SessionRecord, Grounded(ts, s), NEW k \in DOMAIN (s.answers \o s.conflicts)
  PROVE  LET said == s.answers \o s.conflicts IN
         /\ Said(ts, s, said[k])
         /\ \A j \in DOMAIN said : said[j].evidence = said[k].evidence => j = k
<1> DEFINE said == s.answers \o s.conflicts
           n == Len(s.answers)
<1>1. \A j \in DOMAIN said :
        /\ n \in Nat /\ j \in Nat
        /\ \/ j \in DOMAIN s.answers /\ j <= n /\ said[j] = s.answers[j]
           \/ j - n \in DOMAIN s.conflicts /\ j > n /\ said[j] = s.conflicts[j - n]
  BY SaidParts
<1> HIDE DEF said, n
<1>2. k \in DOMAIN said
  BY DEF said
<1>3. Said(ts, s, said[k])
  BY <1>1, <1>2 DEF Grounded
<1>4. ASSUME NEW j \in DOMAIN said, said[j].evidence = said[k].evidence PROVE j = k
  <2>1. CASE j <= n /\ k <= n
    <3>1. j \in DOMAIN s.answers /\ k \in DOMAIN s.answers
          /\ s.answers[j].evidence = s.answers[k].evidence
      BY <1>1, <1>2, <1>4, <2>1
    <3> QED BY <3>1 DEF Grounded
  <2>2. CASE j > n /\ k > n
    <3>1. j - n \in DOMAIN s.conflicts /\ k - n \in DOMAIN s.conflicts
          /\ s.conflicts[j - n].evidence = s.conflicts[k - n].evidence
          /\ n \in Nat /\ j \in Nat /\ k \in Nat
      BY <1>1, <1>2, <1>4, <2>2
    <3>2. j - n = k - n
      BY <3>1 DEF Grounded
    <3> QED BY <3>1, <3>2
  <2>3. CASE j <= n /\ k > n
    <3>1. j \in DOMAIN s.answers /\ k - n \in DOMAIN s.conflicts
          /\ s.answers[j].evidence = s.conflicts[k - n].evidence
      BY <1>1, <1>2, <1>4, <2>3
    <3> QED BY <3>1 DEF Grounded
  <2>4. CASE j > n /\ k <= n
    <3>1. j - n \in DOMAIN s.conflicts /\ k \in DOMAIN s.answers
          /\ s.answers[k].evidence = s.conflicts[j - n].evidence
      BY <1>1, <1>2, <1>4, <2>4
    <3> QED BY <3>1 DEF Grounded
  <2> QED BY <1>1, <1>2, <1>4, <2>1, <2>2, <2>3, <2>4
<1> QED BY <1>3, <1>4 DEF said

(* What a clarification records as answered was said: by a person, in a    *)
(* turn of the codex session, after it was opened; no turn serves twice;   *)
(* and a proposal rests on an answer to every required question and on no  *)
(* answer that was contradicted.                                           *)
THEOREM AnswersGroundedCorrect == Spec => []AnswersGrounded
<1>1. ASSUME Inv PROVE AnswersGrounded
  <2>1. SUFFICES ASSUME NEW s \in Sessions
                 PROVE  LET said == s.answers \o s.conflicts IN
                        /\ \A k \in DOMAIN said :
                             LET t == turns[said[k].evidence] IN
                             /\ t.role = "human" /\ t.author = said[k].actor /\ t.at = said[k].at
                             /\ t.at >= s.openedAt /\ HostOf[t.conv] = HostOf[s.task.conv]
                             /\ \A j \in DOMAIN said : said[j].evidence = said[k].evidence => j = k
                        /\ s.status # "open" =>
                             s.conflicts = <<>> /\ RequiredOf(s) \subseteq AnsweredOf(s)
    BY DEF AnswersGrounded
  <2>2. /\ s \in SessionRecord /\ s.id \in SessionIds(ledger) /\ s = Session(ledger, s.id)
        /\ s = Latest(ledger, s.id).session
    BY <1>1, SessionIn DEF Inv
  <2>3. Grounded(turns, s)
    BY <1>1, <2>2 DEF Inv, EvidenceFine
  <2>4. Fine(Latest(ledger, s.id))
    BY <1>1, <2>2 DEF Inv, Coherent, SessionsFine
  <2>5. s.status # "open" => s.conflicts = <<>> /\ RequiredOf(s) \subseteq AnsweredOf(s)
    BY <2>2, <2>4 DEF Fine
  <2> DEFINE said == s.answers \o s.conflicts
  <2>6. \A k \in DOMAIN said : /\ Said(turns, s, said[k])
                               /\ \A j \in DOMAIN said : said[j].evidence = said[k].evidence => j = k
    BY <2>2, <2>3, GroundedSaid
  <2> HIDE DEF said
  <2>7. \A k \in DOMAIN said :
          LET t == turns[said[k].evidence] IN
          /\ t.role = "human" /\ t.author = said[k].actor /\ t.at = said[k].at
          /\ t.at >= s.openedAt /\ HostOf[t.conv] = HostOf[s.task.conv]
          /\ \A j \in DOMAIN said : said[j].evidence = said[k].evidence => j = k
    BY <2>6 DEF Said
  <2> QED BY <2>5, <2>7 DEF said
<1> QED BY InvCorrect, <1>1, PTL

(* The advisory hooks of the codex sessions, which run in processes of     *)
(* their own, open one clarification for a prompt at most, and never two   *)
(* at once in a codex session.                                             *)
THEOREM AdvisoryExclusiveCorrect == Spec => []AdvisoryExclusive
<1>1. ASSUME Inv PROVE AdvisoryExclusive
  <2>1. SUFFICES ASSUME NEW m \in Sessions, NEW n \in Sessions, m.task.actor = Agent,
                        n.task.actor = Agent, m # n
                 PROVE  /\ m.request # n.request
                        /\ "closed" \notin {m.status, n.status} =>
                             HostOf[m.task.conv] # HostOf[n.task.conv]
    BY DEF AdvisoryExclusive
  <2>2. /\ m \in SessionRecord /\ m.id \in SessionIds(ledger) /\ m = Session(ledger, m.id)
        /\ n \in SessionRecord /\ n.id \in SessionIds(ledger) /\ n = Session(ledger, n.id)
    BY <1>1, SessionIn DEF Inv
  <2>3. m.id # n.id
    BY <2>1, <2>2
  <2>4. /\ Distinct(turns) /\ turns \in Seq(TurnRecord) /\ Advised(turns, m) /\ Advised(turns, n)
        /\ SessionsDiffer(ledger) /\ HostsDiffer(ledger)
    BY <1>1, <2>1, <2>2 DEF Inv, TypeInv, Coherent, EvidenceFine
  <2>5. m.openedBy = n.openedBy
    BY <2>2 DEF SessionRecord
  <2>6. m.request # n.request
    <3>1. Material(m) # Material(n)
      BY <2>2, <2>3, <2>4 DEF SessionsDiffer
    <3> QED BY <2>4, <2>5, <3>1, AdvisedUnique
  <2>7. "closed" \notin {m.status, n.status} => HostOf[m.task.conv] # HostOf[n.task.conv]
    BY <2>1, <2>2, <2>3, <2>4 DEF HostsDiffer
  <2> QED BY <2>6, <2>7
<1> QED BY InvCorrect, <1>1, PTL
-----------------------------------------------------------------------------
(* What a step does to the ledger: nothing, one event that its reader      *)
(* checks, or the frames of a proposal, a confirmation or a bootstrap call.*)
Checked(e) ==
  /\ e.kind = "event" /\ e.type \in {"opened", "answered", "conflicted"}
  /\ ValidTransition(ledger, e) /\ ledger' = Append(ledger, e) /\ UNCHANGED boot

LEMMA OpeningChecked ==
  ASSUME NEW ts, NEW task, NEW c, NEW asked, NEW at, MayOpen(ts, task, c, asked, at),
         ledger' = Append(ledger, OpenedEvent(ts, task, c, asked, at)), UNCHANGED boot
  PROVE  Checked(OpenedEvent(ts, task, c, asked, at))
<1>1. ValidTransition(ledger, OpenedEvent(ts, task, c, asked, at))
  BY DEF MayOpen
<1>2. OpenedEvent(ts, task, c, asked, at).kind = "event"
      /\ OpenedEvent(ts, task, c, asked, at).type = "opened"
  BY DEF OpenedEvent, Event
<1> QED BY <1>1, <1>2 DEF Checked

LEMMA AnswerChecked ==
  ASSUME NEW s, NEW q, NEW at, NEW i, NEW previous,
         ValidTransition(ledger, AnswerEvent(s, q, at, i, previous)),
         ledger' = Append(ledger, AnswerEvent(s, q, at, i, previous)), UNCHANGED boot
  PROVE  Checked(AnswerEvent(s, q, at, i, previous))
<1>1. AnswerEvent(s, q, at, i, previous).kind = "event"
      /\ AnswerEvent(s, q, at, i, previous).type \in {"answered", "conflicted"}
  BY DEF AnswerEvent, Event
<1> QED BY <1>1 DEF Checked

LedgerChange ==
  \/ UNCHANGED ledger
  \/ \E e : Checked(e)
  \/ \E s \in Sessions, content \in Content, at \in Time : Propose(s, content, at)
  \/ \E p \in Proposals(ledger), at \in Time : \E selected :
       Selects(p, selected) /\ Confirm(p, selected, at)
  \/ \E c \in Client : BootAppend(c) \/ BootApply(c)

LEMMA LedgerStep ==
  ASSUME [Next]_vars
  PROVE  LedgerChange
<1>1. ASSUME NEW r \in DOMAIN turns, NEW label, NEW asked, AdvisoryPreflight(turns[r].conv, r, label, asked)
      PROVE  LedgerChange
  <2>1. UNCHANGED ledger \/
        \E ts, task, c, at : /\ MayOpen(ts, task, c, asked, at)
                             /\ ledger' = Append(ledger, OpenedEvent(ts, task, c, asked, at))
    BY <1>1 DEF AdvisoryPreflight
  <2>2. UNCHANGED boot
    BY <1>1 DEF AdvisoryPreflight
  <2> QED BY <2>1, <2>2, OpeningChecked DEF LedgerChange
<1>2. ASSUME NEW r, NEW c, NEW asked, NEW at, ClarificationOpen(r, c, asked, at)
      PROVE  LedgerChange
  <2>1. \E ts, task : /\ MayOpen(ts, task, c, asked, at)
                      /\ ledger' = Append(ledger, OpenedEvent(ts, task, c, asked, at))
    BY <1>2 DEF ClarificationOpen
  <2>2. UNCHANGED boot
    BY <1>2 DEF ClarificationOpen
  <2> QED BY <2>1, <2>2, OpeningChecked DEF LedgerChange
<1>3. ASSUME NEW s, NEW q, NEW conn, NEW reply, NEW at, Answer(conn, s, q, reply, at)
      PROVE  LedgerChange
  <2>1. \E i, previous : /\ ValidTransition(ledger, AnswerEvent(s, q, at, i, previous))
                         /\ ledger' = Append(ledger, AnswerEvent(s, q, at, i, previous))
    BY <1>3 DEF Answer, AnswerAccepted
  <2>2. UNCHANGED boot
    BY <1>3 DEF Answer
  <2> QED BY <2>1, <2>2, AnswerChecked DEF LedgerChange
<1>4. ASSUME NEW s, NEW q, NEW i, AnswerEvidence(s, q, i)
      PROVE  LedgerChange
  <2>1. \E at, previous : /\ ValidTransition(ledger, AnswerEvent(s, q, at, i, previous))
                          /\ ledger' = Append(ledger, AnswerEvent(s, q, at, i, previous))
    BY <1>4 DEF AnswerEvidence
  <2>2. UNCHANGED boot
    BY <1>4 DEF AnswerEvidence
  <2> QED BY <2>1, <2>2, AnswerChecked DEF LedgerChange
<1>5. ASSUME NEW p \in Proposals(ledger), NEW selected \in SUBSET p.content.added, NEW at \in Time,
             \/ Confirm(p, selected, at) \/ RequireReview(p, selected, at)
             \/ \E c \in Client : BootActivate(c, p, selected, at)
      PROVE  LedgerChange
  <2>1. Selects(p, selected)
    BY DEF Selects
  <2>2. RequireReview(p, selected, at) \/ (\E c \in Client : BootActivate(c, p, selected, at))
          => UNCHANGED ledger
    BY DEF RequireReview, BootActivate
  <2> QED BY <1>5, <2>1, <2>2 DEF LedgerChange
<1>6. CASE Workflow
  <2>1. CASE \E cv \in Conv, at \in StartTime : RoutePrompt(cv, at)
    BY <2>1 DEF RoutePrompt, LedgerChange
  <2>2. CASE \E r \in DOMAIN turns :
               \/ \E label \in {"clear", "conflicting"} : AdvisoryPreflight(turns[r].conv, r, label, <<>>)
               \/ \E asked \in Asked : AdvisoryPreflight(turns[r].conv, r, "ambiguous", asked)
    BY <1>1, <2>2
  <2>3. CASE \E r, c \in DOMAIN turns, asked \in Asked, at \in StartTime :
               ClarificationOpen(r, c, asked, at)
    BY <1>2, <2>3
  <2>4. CASE \E s \in Sessions :
               \/ \E q \in QuestionsOf(s), conn \in AnswerConnector, reply \in Reply, at \in Time :
                    Answer(conn, s, q, reply, at)
               \/ \E q \in QuestionsOf(s), i \in DOMAIN turns : AnswerEvidence(s, q, i)
               \/ \E content \in Content, at \in Time : Propose(s, content, at)
    BY <1>3, <1>4, <2>4 DEF LedgerChange
  <2>5. CASE \E p \in Proposals(ledger) : \E selected \in SUBSET p.content.added, at \in Time :
               \/ Confirm(p, selected, at) \/ RequireReview(p, selected, at)
               \/ at \in StartTime /\ \E c \in Client : BootActivate(c, p, selected, at)
    BY <1>5, <2>5
  <2> QED BY <1>6, <2>1, <2>2, <2>3, <2>4, <2>5 DEF Workflow
<1>7. CASE \E c \in Client : \/ \E content \in BootContent, at \in StartTime : BootPropose(c, content, at)
                             \/ BootList(c) \/ BootBytes(c) \/ BootAppend(c)
                             \/ BootActivateBytes(c) \/ BootApply(c)
  BY <1>7 DEF BootPropose, BootList, BootBytes, BootActivateBytes, LedgerChange
<1>8. CASE \/ \E cv \in Conv, at \in StartTime : HostTurn(cv, at)
           \/ \E r \in DOMAIN turns : HostClassifies(r)
           \/ \E k \in DOMAIN cases : MoveCase(k)
  BY <1>8 DEF HostTurn, HostClassifies, MoveCase, LedgerChange
<1>9. CASE OtherChange \/ (\E a \in Authority : EditAuthority(a)) \/ LoadAuthority \/ UNCHANGED vars
  BY <1>9 DEF OtherChange, EditAuthority, LoadAuthority, vars, LedgerChange
<1> QED BY <1>6, <1>7, <1>8, <1>9 DEF Next

LEMMA CheckedEvent ==
  ASSUME Inv, Inv', NEW e, Checked(e)
  PROVE  e \in EventFrame /\ ledger \in Seq(Frame)
<1>1. ledger \in Seq(Frame) /\ ledger' \in Seq(Frame)
  BY DEF Inv, TypeInv
<1>2. ledger' = Append(ledger, e) /\ e.kind = "event"
  BY DEF Checked
<1> DEFINE S == Frame \cup {e}
<1>3. ledger \in Seq(S) /\ e \in S
  BY <1>1
<1>4. Len(ledger') = Len(ledger) + 1 /\ ledger'[Len(ledger) + 1] = e /\ Len(ledger) \in Nat
  BY <1>2, <1>3, AppendProperties, LenProperties
<1>5. e \in Frame
  BY <1>1, <1>4, LenProperties, ElementOfSeq
<1> QED BY <1>1, <1>2, <1>5, FrameKinds
-----------------------------------------------------------------------------
(* Who decides. *)
LEMMA ConfirmedIndependently ==
  ASSUME Inv, NEW p \in Proposals(ledger), NEW selected, Selects(p, selected), NEW at \in Time,
         Confirm(p, selected, at)
  PROVE  LET d == Decided(p, selected, at) IN d.reviewed =>
         /\ d.actor = authority.local /\ d.actor \in authority.approvers
         /\ \A a \in {d.proposal.by} \cup d.proposal.content.against :
              authority.alias[d.actor] \cap authority.alias[a] = {}
<1> DEFINE d == Decided(p, selected, at)
           e == Closing(p, d)
<1>1. /\ d \in Decision /\ d.proposal = p /\ d.actor = Local /\ d.reviewed = HighRisk(p)
      /\ Grown(ledger, ledger', e, {}, {d})
  BY ConfirmFacts DEF Confirmation
<1>9. ASSUME d.reviewed PROVE HighRisk(p)
  BY <1>9, <1>1
<1> SUFFICES ASSUME HighRisk(p)
             PROVE  /\ d.actor = authority.local /\ d.actor \in authority.approvers
                    /\ \A a \in {d.proposal.by} \cup d.proposal.content.against :
                         authority.alias[d.actor] \cap authority.alias[a] = {}
  BY <1>9
<1> HIDE DEF d
<1>2. held = authority /\ MayConfirm(p)
  BY DEF Confirm, Confirmable, Authentic
<1>3. Local \in held.approvers /\ Independent(p)
  BY <1>2 DEF MayConfirm
<1>4. \A a \in {p.by} \cup p.content.against : Aliases(Local) \cap Aliases(a) = {}
  BY <1>3 DEF Independent, AuthorAliases
<1>5. Local = authority.local /\ \A a : Aliases(a) = authority.alias[a]
  BY <1>2 DEF Local, Aliases
<1> QED BY <1>1, <1>2, <1>3, <1>4, <1>5 DEF d

(* A change that weakens or contradicts existing intent is decided only by *)
(* an approver who is no alias of its author or of the authors it          *)
(* contradicts, under the policy in the files at that moment: no other     *)
(* step of any process, and no call of BootstrapService, decides one.      *)
THEOREM ReviewedIndependentlyCorrect == Spec => ReviewedIndependently
<1>1. ASSUME Inv, [Next]_vars
      PROVE  \A d \in Decisions(ledger') \ Decisions(ledger) : d.reviewed =>
               /\ d.actor = authority.local /\ d.actor \in authority.approvers
               /\ \A a \in {d.proposal.by} \cup d.proposal.content.against :
                    authority.alias[d.actor] \cap authority.alias[a] = {}
  <2>1. SUFFICES ASSUME NEW d \in Decisions(ledger') \ Decisions(ledger), d.reviewed
                 PROVE  /\ d.actor = authority.local /\ d.actor \in authority.approvers
                        /\ \A a \in {d.proposal.by} \cup d.proposal.content.against :
                             authority.alias[d.actor] \cap authority.alias[a] = {}
    OBVIOUS
  <2>2. CASE UNCHANGED ledger
    BY <2>1, <2>2
  <2>3. CASE \E e : Checked(e)
    <3>1. PICK e : Checked(e)
      BY <2>3
    <3>2. e \in EventFrame /\ ledger \in Seq(Frame) /\ ledger' = Append(ledger, e)
      BY <1>1, <3>1, NextInv, CheckedEvent DEF Checked
    <3>3. Decisions(ledger') = Decisions(ledger)
      BY <3>2, MoreEvents
    <3> QED BY <2>1, <3>3
  <2>4. CASE \E s \in Sessions, content \in Content, at \in Time : Propose(s, content, at)
    <3>1. PICK s \in Sessions, content \in Content, at \in Time : Propose(s, content, at)
      BY <2>4
    <3>2. \E e, p : Grown(ledger, ledger', e, {p}, {})
      BY <1>1, <3>1, ProposeFacts
    <3> QED BY <2>1, <3>2 DEF Grown
  <2>5. CASE \E p \in Proposals(ledger), at \in Time : \E selected :
               Selects(p, selected) /\ Confirm(p, selected, at)
    <3> PICK p \in Proposals(ledger), at \in Time :
          \E selected : Selects(p, selected) /\ Confirm(p, selected, at)
      BY <2>5
    <3>1. PICK selected : Selects(p, selected) /\ Confirm(p, selected, at)
      OBVIOUS
    <3>2. Grown(ledger, ledger', Closing(p, Decided(p, selected, at)), {}, {Decided(p, selected, at)})
      BY <1>1, <3>1, ConfirmFacts DEF Confirmation
    <3>3. d = Decided(p, selected, at)
      BY <2>1, <3>2 DEF Grown
    <3> QED BY <1>1, <2>1, <3>1, <3>3, ConfirmedIndependently
  <2>6. CASE \E c \in Client : BootAppend(c) \/ BootApply(c)
    <3>1. PICK c \in Client : BootAppend(c) \/ BootApply(c)
      BY <2>6
    <3>2. ledger \in Seq(Frame)
      BY <1>1 DEF Inv, TypeInv
    <3>3. CASE BootAppend(c)
      <4>1. boot[c].proposal \in Proposal
        BY <1>1, <3>3, CallNow DEF BootAppend, CallFine
      <4>2. Decisions(ledger') = Decisions(ledger)
        BY <3>2, <3>3, <4>1, QuietProposal DEF BootAppend, Quiet
      <4> QED BY <2>1, <4>2
    <3>4. CASE BootApply(c)
      <4>1. boot[c].decision \in Decision /\ ~boot[c].decision.reviewed
            /\ (ledger' = ledger \/ ledger' = Append(ledger, DecisionFrame(boot[c].decision)))
        BY <1>1, <3>4, BootApplyFacts
      <4>2. Decisions(ledger') \subseteq Decisions(ledger) \cup {boot[c].decision}
        BY <3>2, <4>1, QuietDecision DEF Quiet
      <4> QED BY <2>1, <4>1, <4>2
    <3> QED BY <3>1, <3>3, <3>4
  <2> QED BY <1>1, <2>2, <2>3, <2>4, <2>5, <2>6, LedgerStep DEF LedgerChange
<1> QED BY InvCorrect, <1>1, PTL DEF Spec, ReviewedIndependently
-----------------------------------------------------------------------------
(* The reader, frame by frame. *)
FramesReadable(l) == \A i \in DOMAIN l : ReadableFrame(Upto(l, i - 1), l[i])

LEMMA UptoKept ==
  ASSUME NEW l \in Seq(Frame), NEW f \in Frame, NEW n \in 0 .. Len(l)
  PROVE  Upto(Append(l, f), n) = Upto(l, n)
<1> DEFINE m == Append(l, f)
<1>1. /\ Len(l) \in Nat /\ n \in Int /\ n \in Nat /\ 1 \in Int
      /\ \A i \in 1 .. n : m[i] = l[i] /\ l[i] \in Frame
  BY OneMore
<1> HIDE DEF m
<1>2. /\ SubSeq(l, 1, n) \in Seq(Frame) /\ Len(SubSeq(l, 1, n)) = IF 1 <= n THEN n - 1 + 1 ELSE 0
      /\ \A i \in 1 .. n - 1 + 1 : SubSeq(l, 1, n)[i] = l[1 + i - 1]
  BY <1>1, SubSeqProperties
<1>3. /\ SubSeq(m, 1, n) \in Seq(Frame) /\ Len(SubSeq(m, 1, n)) = IF 1 <= n THEN n - 1 + 1 ELSE 0
      /\ \A i \in 1 .. n - 1 + 1 : SubSeq(m, 1, n)[i] = m[1 + i - 1]
  BY <1>1, SubSeqProperties
<1>4. \A i \in 1 .. n : i \in 1 .. n - 1 + 1 /\ 1 + i - 1 = i
  BY <1>1
<1>5. Len(SubSeq(l, 1, n)) = n /\ Len(SubSeq(m, 1, n)) = n
  BY <1>1, <1>2, <1>3
<1>6. \A i \in 1 .. n : SubSeq(m, 1, n)[i] = SubSeq(l, 1, n)[i]
  BY <1>1, <1>2, <1>3, <1>4
<1>7. SubSeq(m, 1, n) = SubSeq(l, 1, n)
  BY <1>2, <1>3, <1>5, <1>6, SeqEqual
<1> QED BY <1>7 DEF Upto, m

LEMMA ReadableMore ==
  ASSUME NEW l \in Seq(Frame), NEW f \in Frame, FramesReadable(l), ReadableFrame(l, f)
  PROVE  FramesReadable(Append(l, f))
<1> DEFINE m == Append(l, f)
<1>1. /\ Len(l) \in Nat /\ DOMAIN l = 1 .. Len(l) /\ DOMAIN m = 1 .. Len(l) + 1
      /\ m[Len(l) + 1] = f /\ \A i \in 1 .. Len(l) : m[i] = l[i]
  BY OneMore
<1>2. \A n \in 0 .. Len(l) : Upto(m, n) = Upto(l, n)
  BY UptoKept
<1>3. Upto(l, Len(l)) = l
  BY SubSeqFull DEF Upto
<1> HIDE DEF m
<1>4. ASSUME NEW i \in DOMAIN m PROVE ReadableFrame(Upto(m, i - 1), m[i])
  <2>1. CASE i \in 1 .. Len(l)
    <3>1. i - 1 \in 0 .. Len(l)
      BY <1>1, <2>1
    <3>2. Upto(m, i - 1) = Upto(l, i - 1) /\ m[i] = l[i] /\ i \in DOMAIN l
      BY <1>1, <1>2, <2>1, <3>1
    <3> QED BY <3>2 DEF FramesReadable
  <2>2. CASE i = Len(l) + 1
    <3>1. i - 1 = Len(l) /\ Len(l) \in 0 .. Len(l)
      BY <1>1, <2>2
    <3>2. Upto(m, i - 1) = l /\ m[i] = f
      BY <1>1, <1>2, <1>3, <2>2, <3>1
    <3> QED BY <3>2
  <2> QED BY <1>1, <2>1, <2>2
<1> QED BY <1>4 DEF FramesReadable, m

LEMMA PendingAfter ==
  ASSUME NEW l \in Seq(Frame), NEW f \in Frame
  PROVE  /\ f.kind = "event" /\ f.type = "proposed" => Pending(Append(l, f)) = f.proposal
         /\ ~(f.kind = "event" /\ f.type = "proposed") => Pending(Append(l, f)) = None
<1>1. Final(Append(l, f)) = f /\ Append(l, f) # <<>>
  BY FinalOfAppend
<1> QED BY <1>1 DEF Pending

(* The decided proposals of a coherent ledger are closed. *)
LEMMA CoherentCloses ==
  ASSUME NEW l \in Seq(Frame), Coherent(l), NEW p \in Proposals(l), p.session # 0, DecisionsFor(l, p) # {}
  PROVE  LET e == l[LatestEvent(l, p.session)]
         IN  e.session.status = "closed" /\ e.proposal = p /\ e.decision \in DecisionsFor(l, p)
<1> DEFINE e == Latest(l, p.session)
<1>1. PICK d \in Decisions(l) : d.proposal = p
  BY DEF DecisionsFor
<1>2. p.session \in SessionIds(l) /\ e.proposal = p /\ e.session = Session(l, p.session)
  BY SessionIsLatest DEF Coherent, ProposalsNamed
<1>3. Session(l, p.session).status = "closed"
  BY <1>1 DEF Coherent, DecisionsNamed
<1>4. e.decision \in Decisions(l)
  BY <1>2, <1>3 DEF Coherent, DecisionsNamed
<1>5. Fine(e)
  BY <1>2 DEF Coherent, SessionsFine
<1> HIDE DEF e
<1>6. e.decision.proposal = p
  BY <1>2, <1>3, <1>5 DEF Fine
<1> QED BY <1>2, <1>3, <1>4, <1>6 DEF e, Latest, DecisionsFor

LEMMA DecodableFrames ==
  ASSUME NEW l \in Seq(Frame), Coherent(l), FramesReadable(l), Pending(l) = None
  PROVE  Decodable(l)
BY CoherentCloses DEF Decodable, FramesReadable

(* One more frame, of an event, a proposal or a decision. *)
LEMMA EventDecodes ==
  ASSUME Inv, Inv', Decodable(ledger), NEW e, Checked(e)
  PROVE  FramesReadable(ledger') /\ Pending(ledger') = None
<1>1. /\ e \in EventFrame /\ ledger \in Seq(Frame) /\ ledger' = Append(ledger, e)
      /\ e.kind = "event" /\ e.type \in {"opened", "answered", "conflicted"}
      /\ ValidTransition(ledger, e)
  BY CheckedEvent DEF Checked
<1>2. e \in Frame
  BY <1>1 DEF Frame
<1>3. FramesReadable(ledger) /\ Pending(ledger) = None
  BY DEF Decodable, FramesReadable
<1>4. ReadableFrame(ledger, e)
  BY <1>1, <1>3 DEF ReadableFrame, ReadableEvent
<1> QED BY <1>1, <1>2, <1>3, <1>4, ReadableMore, PendingAfter

LEMMA ProposedReadable ==
  ASSUME Inv, NEW s \in Sessions, NEW content \in Content, NEW at \in Time, Propose(s, content, at)
  PROVE  LET p == ProposalOf(s, content, at)
             e == ProposedEvent(s, p, at) IN
         /\ ValidTransition(ledger, e)
         /\ p \notin Proposals(ledger) /\ p.session # 0
         /\ Session(Append(ledger, e), s.id) = e.session /\ s.id \in SessionIds(Append(ledger, e))
         /\ Append(ledger, e)[LatestEvent(Append(ledger, e), s.id)] = e
         /\ Proposals(Append(ledger, e)) = Proposals(ledger)
<1> DEFINE p == ProposalOf(s, content, at)
           e == ProposedEvent(s, p, at)
<1>1. /\ MayPropose(s, at)
      /\ p \in Proposal /\ p.session = s.id
      /\ e \in EventFrame /\ e.type = "proposed" /\ e.proposal = p /\ e.actor = Local
      /\ e.previous = LatestEvent(ledger, s.id)
      /\ e.session.id = s.id /\ e.session.status = "proposed" /\ Material(e.session) = Material(s)
      /\ e.session.openedAt = s.openedAt /\ e.session.answers = s.answers
      /\ e.session.conflicts = s.conflicts /\ e.session.questions = s.questions
      /\ Grown(ledger, ledger', e, {p}, {})
      /\ e.at >= Latest(ledger, s.id).at /\ e.at >= s.openedAt
  BY ProposeFacts
<1> HIDE DEF p, e
<1>2. ledger \in Seq(Frame) /\ Coherent(ledger)
  BY DEF Inv, TypeInv
<1>3. /\ s.id \in SessionIds(ledger) /\ s = Session(ledger, s.id) /\ s = Latest(ledger, s.id).session
      /\ LatestEvent(ledger, s.id) \in 1 .. Len(ledger)
  BY SessionIn DEF Inv
<1>4. /\ s.status = "open" /\ s.conflicts = <<>> /\ s.answers # <<>>
      /\ RequiredOf(s) \subseteq AnsweredOf(s) /\ Final(s.answers).actor = Local
  BY <1>1 DEF MayPropose
<1>5. ValidProposed(s, e)
  <2>1. RequiredOf(e.session) = RequiredOf(s) /\ AnsweredOf(e.session) = AnsweredOf(s)
    BY <1>1 DEF RequiredOf, AnsweredOf
  <2>2. p # None
    BY <1>1, ClarificationAssumption
  <2> QED BY <1>1, <1>4, <2>1, <2>2 DEF ValidProposed
<1>6. ValidTransition(ledger, e)
  <2>1. LatestEvent(ledger, e.session.id) # 0
    BY <1>1, <1>3
  <2> QED BY <1>1, <1>3, <1>5, <2>1 DEF ValidTransition, Latest
<1>7. p.session # 0
  BY <1>1, <1>2, <1>3 DEF Coherent, SessionsFine
<1>8. p \notin Proposals(ledger)
  <2>1. ASSUME p \in Proposals(ledger) PROVE FALSE
    <3>1. Session(ledger, p.session).status # "open"
      BY <1>2, <1>7, <2>1 DEF Coherent, ProposalsNamed
    <3> QED BY <1>1, <1>3, <1>4, <3>1
  <2> QED BY <2>1
<1>9. /\ s.id \in SessionIds(Append(ledger, e)) /\ Latest(Append(ledger, e), s.id) = e
      /\ Proposals(Append(ledger, e)) = Proposals(ledger)
  BY <1>1, <1>2, MoreEvents
<1>10. Session(Append(ledger, e), s.id) = e.session
  BY <1>9, SessionIsLatest
<1> QED BY <1>6, <1>7, <1>8, <1>9, <1>10 DEF p, e, Latest

LEMMA ProposalDecodes ==
  ASSUME Inv, Decodable(ledger), NEW s \in Sessions, NEW content \in Content, NEW at \in Time,
         Propose(s, content, at)
  PROVE  FramesReadable(ledger') /\ Pending(ledger') = None
<1> DEFINE p == ProposalOf(s, content, at)
           e == ProposedEvent(s, p, at)
           m == Append(ledger, e)
<1>1. /\ p \in Proposal /\ p.session = s.id /\ p.task = s.task /\ p.baseline = s.baseline
      /\ e \in EventFrame /\ e.type = "proposed" /\ e.proposal = p
      /\ e.session.status = "proposed" /\ e.session.task = s.task /\ e.session.baseline = s.baseline
      /\ ledger' = Append(m, ProposalFrame(p))
  BY ProposeFacts
<1>2. /\ ValidTransition(ledger, e) /\ p \notin Proposals(ledger)
      /\ Session(m, s.id) = e.session /\ s.id \in SessionIds(m)
      /\ m[LatestEvent(m, s.id)] = e /\ Proposals(m) = Proposals(ledger)
  BY ProposedReadable
<1> HIDE DEF p, e
<1>3. ledger \in Seq(Frame) /\ FramesReadable(ledger) /\ Pending(ledger) = None
  BY DEF Inv, TypeInv, Decodable, FramesReadable
<1>4. e \in Frame /\ e.kind = "event"
  BY <1>1 DEF Frame, EventFrame
<1>5. ReadableFrame(ledger, e)
  BY <1>1, <1>2, <1>3, <1>4 DEF ReadableFrame, ReadableEvent
<1>6. m \in Seq(Frame) /\ FramesReadable(m) /\ Pending(m) = p
  BY <1>1, <1>3, <1>4, <1>5, OneMore, ReadableMore, PendingAfter
<1> HIDE DEF m
<1>7. /\ ProposalFrame(p) \in Frame /\ ProposalFrame(p).kind = "proposal"
      /\ ProposalFrame(p).proposal = p
  BY <1>1, OtherFrames
<1>8. ReadableProposal(m, p)
  BY <1>1, <1>2, <1>6 DEF ReadableProposal
<1>9. ReadableFrame(m, ProposalFrame(p))
  BY <1>7, <1>8 DEF ReadableFrame
<1> QED BY <1>1, <1>6, <1>7, <1>9, ReadableMore, PendingAfter

LEMMA ConfirmedReadable ==
  ASSUME Inv, NEW p \in Proposals(ledger), NEW selected, Selects(p, selected), NEW at \in Time,
         Confirm(p, selected, at)
  PROVE  LET d == Decided(p, selected, at)
             e == Closing(p, d)
             m == Append(ledger, DecisionFrame(d)) IN
         /\ ReadableDecision(ledger, d) \/ Pending(ledger) # None
         /\ ReadableEvent(m, e) \/ Pending(m) # None
<1> DEFINE d == Decided(p, selected, at)
           e == Closing(p, d)
           m == Append(ledger, DecisionFrame(d))
           s == Session(ledger, p.session)
<1>1. /\ p \in Proposal /\ d \in Decision /\ d.proposal = p
      /\ p.session # 0 /\ Session(ledger, p.session).status = "proposed"
      /\ p.session \in SessionIds(ledger) /\ DecisionsFor(ledger, p) = {}
      /\ Grown(ledger, ledger', e, {}, {d})
      /\ e.at >= Latest(ledger, p.session).at /\ e.at >= e.session.openedAt
  <2>1. Confirmation(p, d, at)
    BY ConfirmFacts
  <2> HIDE DEF d
  <2> QED BY <2>1 DEF Confirmation
<1>2. e = Closing(p, d) /\ s = Session(ledger, p.session) /\ s.status = "proposed"
  BY <1>1
<1>3. TypeInv /\ ledger \in Seq(Frame)
  BY DEF Inv, TypeInv
<1>4. /\ DecisionFrame(d) \in Frame /\ DecisionFrame(d).kind = "decision"
      /\ DecisionFrame(d).decision = d
  BY <1>1, OtherFrames
<1>5. /\ SessionIds(m) = SessionIds(ledger) /\ Proposals(m) = Proposals(ledger)
      /\ LatestEvent(m, p.session) = LatestEvent(ledger, p.session)
      /\ Latest(m, p.session) = Latest(ledger, p.session)
      /\ Decisions(m) = Decisions(ledger) \cup {d}
  BY <1>1, <1>3, <1>4, MoreOthers
<1> HIDE DEF d, e, m, s
<1>6. /\ s.id = p.session /\ s = Latest(ledger, p.session).session
      /\ LatestEvent(ledger, p.session) \in 1 .. Len(ledger)
      /\ e \in EventFrame /\ e.type = "closed" /\ e.at = d.at /\ e.proposal = p /\ e.decision = d
      /\ e.actor = d.actor /\ e.previous = LatestEvent(ledger, p.session)
      /\ e.session.id = s.id /\ e.session.status = "closed" /\ Material(e.session) = Material(s)
      /\ e.session.answers = s.answers /\ e.session.conflicts = s.conflicts
  BY <1>1, <1>2, <1>3, ClosingType
<1>7. ReadableDecision(ledger, d) \/ Pending(ledger) # None
  BY <1>1 DEF ReadableDecision
<1>8. ValidClosed(s, e)
  <2>1. p # None /\ d # None
    BY <1>1, ClarificationAssumption
  <2> QED BY <1>2, <1>6, <2>1 DEF ValidClosed
<1>9. ValidTransition(m, e)
  <2>1. LatestEvent(m, e.session.id) # 0 /\ LatestEvent(m, e.session.id) = LatestEvent(ledger, p.session)
    BY <1>5, <1>6
  <2>2. m[LatestEvent(m, e.session.id)] = Latest(ledger, p.session)
    BY <1>5, <1>6 DEF Latest
  <2> QED BY <1>1, <1>6, <1>8, <2>1, <2>2 DEF ValidTransition
<1>10. d \in DecisionsFor(m, p)
  BY <1>1, <1>5 DEF DecisionsFor
<1>11. ReadableEvent(m, e) \/ Pending(m) # None
  BY <1>5, <1>6, <1>9, <1>10 DEF ReadableEvent
<1> QED BY <1>7, <1>11 DEF d, e, m

LEMMA ConfirmationDecodes ==
  ASSUME Inv, Decodable(ledger), NEW p \in Proposals(ledger), NEW selected, Selects(p, selected),
         NEW at \in Time, Confirm(p, selected, at)
  PROVE  FramesReadable(ledger') /\ Pending(ledger') = None
<1> DEFINE d == Decided(p, selected, at)
           e == Closing(p, d)
           m == Append(ledger, DecisionFrame(d))
<1>1. /\ p \in Proposal /\ p.session \in SessionIds(ledger) /\ d \in Decision /\ d.proposal = p
      /\ version = p.baseline /\ history' = Append(history, d)
      /\ e \in EventFrame /\ ledger' = Append(m, e) /\ Grown(ledger, ledger', e, {}, {d})
  <2>1. Confirmation(p, d, at)
    BY ConfirmFacts
  <2> HIDE DEF d
  <2> QED BY <2>1 DEF Confirmation
<1>2. /\ ReadableDecision(ledger, d) \/ Pending(ledger) # None
      /\ ReadableEvent(m, e) \/ Pending(m) # None
  BY ConfirmedReadable
<1>3. e = Closing(p, d)
  OBVIOUS
<1> HIDE DEF d, e
<1>4. ledger \in Seq(Frame) /\ FramesReadable(ledger) /\ Pending(ledger) = None /\ TypeInv
  BY DEF Inv, TypeInv, Decodable, FramesReadable
<1>5. /\ DecisionFrame(d) \in Frame /\ DecisionFrame(d).kind = "decision"
      /\ DecisionFrame(d).decision = d
  BY <1>1, OtherFrames
<1>6. ReadableFrame(ledger, DecisionFrame(d))
  BY <1>2, <1>4, <1>5 DEF ReadableFrame
<1>7. m \in Seq(Frame) /\ FramesReadable(m) /\ Pending(m) = None
  BY <1>4, <1>5, <1>6, OneMore, ReadableMore, PendingAfter
<1> HIDE DEF m
<1>8. e \in Frame /\ e.kind = "event"
  BY <1>1 DEF Frame, EventFrame
<1>9. e.type = "closed"
  <2>1. \E s : s = Session(ledger, p.session)
    OBVIOUS
  <2> QED BY <1>1, <1>3, <1>4, <2>1, ClosingType
<1>10. ReadableFrame(m, e)
  BY <1>2, <1>7, <1>8 DEF ReadableFrame
<1> QED BY <1>1, <1>7, <1>8, <1>9, <1>10, ReadableMore, PendingAfter

LEMMA BootAppendDecodes ==
  ASSUME Inv, Decodable(ledger), NotListed, NEW c \in Client, BootAppend(c)
  PROVE  FramesReadable(ledger') /\ Pending(ledger') = None
<1> DEFINE p == boot[c].proposal
<1>1. /\ ledger \in Seq(Frame) /\ FramesReadable(ledger) /\ Pending(ledger) = None
  BY DEF Inv, TypeInv, Decodable, FramesReadable
<1>2. /\ boot[c].pc = "read"
      /\ ledger' = ledger \/ ledger' = Append(ledger, ProposalFrame(p))
  BY DEF BootAppend
<1>3. p \in Proposal /\ p.session = 0 /\ p \notin Proposals(ledger)
  BY <1>2, CallNow DEF CallFine, NotListed
<1> HIDE DEF p
<1>4. /\ ProposalFrame(p) \in Frame /\ ProposalFrame(p).kind = "proposal"
      /\ ProposalFrame(p).proposal = p
  BY <1>3, OtherFrames
<1>5. ReadableFrame(ledger, ProposalFrame(p))
  BY <1>1, <1>3, <1>4 DEF ReadableFrame, ReadableProposal
<1> QED BY <1>1, <1>2, <1>4, <1>5, ReadableMore, PendingAfter

LEMMA BootApplyDecodes ==
  ASSUME Inv, Decodable(ledger), NEW c \in Client, BootApply(c)
  PROVE  FramesReadable(ledger') /\ Pending(ledger') = None
<1> DEFINE d == boot[c].decision
<1>1. /\ ledger \in Seq(Frame) /\ FramesReadable(ledger) /\ Pending(ledger) = None
      /\ HistoryAgrees(ledger, history, cases)
  BY DEF Inv, TypeInv, Decodable, FramesReadable
<1>2. /\ d \in Decision /\ d.proposal \in Proposals(ledger) /\ d.proposal.session = 0
      /\ \/ ledger' = ledger
         \/ version = d.proposal.baseline /\ ledger' = Append(ledger, DecisionFrame(d))
  BY BootApplyFacts
<1> HIDE DEF d
<1>3. CASE ledger' = ledger
  BY <1>1, <1>3
<1>4. CASE version = d.proposal.baseline /\ ledger' = Append(ledger, DecisionFrame(d))
  <2>1. DecisionsFor(ledger, d.proposal) = {}
    <3>1. SUFFICES ASSUME NEW x \in Decisions(ledger), x.proposal = d.proposal PROVE FALSE
      BY DEF DecisionsFor
    <3>2. d.proposal.baseline < Len(history)
      BY <1>1, <3>1 DEF HistoryAgrees
    <3>3. Len(history) \in Nat /\ d.proposal.baseline = Len(history)
      BY <1>4, CallNow DEF version
    <3> QED BY <3>2, <3>3
  <2>2. /\ DecisionFrame(d) \in Frame /\ DecisionFrame(d).kind = "decision"
        /\ DecisionFrame(d).decision = d
    BY <1>2, OtherFrames
  <2>3. ReadableFrame(ledger, DecisionFrame(d))
    BY <1>1, <1>2, <2>1, <2>2 DEF ReadableFrame, ReadableDecision
  <2> QED BY <1>1, <1>4, <2>2, <2>3, ReadableMore, PendingAfter
<1> QED BY <1>2, <1>3, <1>4

LEMMA LedgerStaysDecodable ==
  ASSUME Inv, DecodesInv, [Next]_vars
  PROVE  Decodable(ledger')
<1>1. Inv' /\ Decodable(ledger) /\ NotListed
  BY NextInv DEF DecodesInv
<1>2. ledger' \in Seq(Frame) /\ Coherent(ledger')
  BY <1>1 DEF Inv, TypeInv
<1>3. CASE UNCHANGED ledger
  BY <1>1, <1>3
<1>4. CASE ~UNCHANGED ledger
  <2>1. FramesReadable(ledger') /\ Pending(ledger') = None
    BY <1>1, <1>4, LedgerStep, EventDecodes, ProposalDecodes, ConfirmationDecodes, BootAppendDecodes,
       BootApplyDecodes DEF LedgerChange
  <2> QED BY <1>2, <2>1, DecodableFrames
<1> QED BY <1>3, <1>4
-----------------------------------------------------------------------------
(* What the bootstrap proposers have not found stays out of the ledger. *)
Moves(c, b) ==
  \/ b.pc \in {"idle", "checked", "apply"}
  \/ b.pc = "validated" /\ c \in Proposer
  \/ b.pc = "listed" /\ boot[c].pc = "validated" /\ b.proposal \notin Proposals(ledger)
  \/ b.pc = "read" /\ boot[c].pc = "listed" /\ b.proposal = boot[c].proposal

LEMMA BootStep ==
  ASSUME Inv, [Next]_vars
  PROVE  boot' = boot \/ \E c \in Client : \E b : boot' = [boot EXCEPT ![c] = b] /\ Moves(c, b)
<1>1. ASSUME NEW c \in Client, NEW content \in BootContent, NEW at \in StartTime, BootPropose(c, content, at)
      PROVE  \E b : boot' = [boot EXCEPT ![c] = b] /\ Moves(c, b)
  <2> DEFINE b == [Idle EXCEPT !.pc = "validated", !.proposal = BootProposal(content, at),
                               !.version = version, !.turns = Len(turns)]
  <2>1. b.pc = "validated"
    BY DEF Idle
  <2>2. boot' = [boot EXCEPT ![c] = b] /\ c \in Proposer
    BY <1>1 DEF BootPropose
  <2> HIDE DEF b
  <2> QED BY <2>1, <2>2 DEF Moves
<1>2. ASSUME NEW c \in Client, boot' = [boot EXCEPT ![c] = Idle]
      PROVE  \E b : boot' = [boot EXCEPT ![c] = b] /\ Moves(c, b)
  BY <1>2, IdleFine DEF Moves
<1>3. ASSUME NEW c \in Client, BootList(c)
      PROVE  \E b : boot' = [boot EXCEPT ![c] = b] /\ Moves(c, b)
  <2> DEFINE b == [boot[c] EXCEPT !.pc = "listed"]
  <2>1. b.pc = "listed" /\ b.proposal = boot[c].proposal
    BY CallNow DEF Call
  <2>2. /\ boot[c].pc = "validated"
        /\ \/ boot' = [boot EXCEPT ![c] = Idle]
           \/ boot' = [boot EXCEPT ![c] = b] /\ boot[c].proposal \notin Proposals(ledger)
    BY <1>3, CallNow DEF BootList
  <2> HIDE DEF b
  <2> QED BY <1>2, <2>1, <2>2 DEF Moves
<1>4. ASSUME NEW c \in Client, BootBytes(c)
      PROVE  \E b : boot' = [boot EXCEPT ![c] = b] /\ Moves(c, b)
  <2> DEFINE b == [boot[c] EXCEPT !.pc = "read", !.ledger = Len(ledger)]
  <2>1. b.pc = "read" /\ b.proposal = boot[c].proposal
    BY CallNow DEF Call
  <2>2. boot[c].pc = "listed"
        /\ (boot' = [boot EXCEPT ![c] = Idle] \/ boot' = [boot EXCEPT ![c] = b])
    BY <1>4, CallNow DEF BootBytes
  <2> HIDE DEF b
  <2> QED BY <1>2, <2>1, <2>2 DEF Moves
<1>5. ASSUME NEW c \in Client, NEW p, NEW selected, NEW at, BootActivate(c, p, selected, at)
      PROVE  \E b : boot' = [boot EXCEPT ![c] = b] /\ Moves(c, b)
  <2> DEFINE b == [Idle EXCEPT !.pc = "checked", !.proposal = p, !.decision = BootDecision(p, selected, at)]
  <2>1. b.pc = "checked"
    BY DEF Idle
  <2>2. boot' = [boot EXCEPT ![c] = b]
    BY <1>5 DEF BootActivate
  <2> HIDE DEF b
  <2> QED BY <2>1, <2>2 DEF Moves
<1>6. ASSUME NEW c \in Client, BootActivateBytes(c)
      PROVE  \E b : boot' = [boot EXCEPT ![c] = b] /\ Moves(c, b)
  <2> DEFINE b == [boot[c] EXCEPT !.pc = "apply", !.ledger = Len(ledger)]
  <2>1. b.pc = "apply"
    BY CallNow DEF Call
  <2>2. boot' = [boot EXCEPT ![c] = Idle] \/ boot' = [boot EXCEPT ![c] = b]
    BY <1>6, CallNow DEF BootActivateBytes
  <2> HIDE DEF b
  <2> QED BY <1>2, <2>1, <2>2 DEF Moves
<1>7. CASE \E c \in Client : \/ \E content \in BootContent, at \in StartTime : BootPropose(c, content, at)
                             \/ BootList(c) \/ BootBytes(c) \/ BootAppend(c)
                             \/ BootActivateBytes(c) \/ BootApply(c)
  <2>1. PICK c \in Client : \/ \E content \in BootContent, at \in StartTime : BootPropose(c, content, at)
                            \/ BootList(c) \/ BootBytes(c) \/ BootAppend(c)
                            \/ BootActivateBytes(c) \/ BootApply(c)
    BY <1>7
  <2>2. BootAppend(c) \/ BootApply(c) => boot' = [boot EXCEPT ![c] = Idle]
    BY DEF BootAppend, BootApply
  <2> QED BY <1>1, <1>2, <1>3, <1>4, <1>6, <2>1, <2>2
<1>8. CASE Workflow
  <2>1. CASE \E cv \in Conv, at \in StartTime : RoutePrompt(cv, at)
    BY <2>1 DEF RoutePrompt
  <2>2. CASE \E r \in DOMAIN turns :
               \/ \E label \in {"clear", "conflicting"} : AdvisoryPreflight(turns[r].conv, r, label, <<>>)
               \/ \E asked \in Asked : AdvisoryPreflight(turns[r].conv, r, "ambiguous", asked)
    BY <2>2 DEF AdvisoryPreflight
  <2>3. CASE \E r, c \in DOMAIN turns, asked \in Asked, at \in StartTime :
               ClarificationOpen(r, c, asked, at)
    BY <2>3 DEF ClarificationOpen
  <2>4. CASE \E s \in Sessions :
               \/ \E q \in QuestionsOf(s), conn \in AnswerConnector, reply \in Reply, at \in Time :
                    Answer(conn, s, q, reply, at)
               \/ \E q \in QuestionsOf(s), i \in DOMAIN turns : AnswerEvidence(s, q, i)
               \/ \E content \in Content, at \in Time : Propose(s, content, at)
    BY <2>4 DEF Answer, AnswerEvidence, Propose
  <2>5. CASE \E p \in Proposals(ledger) : \E selected \in SUBSET p.content.added, at \in Time :
               \/ Confirm(p, selected, at) \/ RequireReview(p, selected, at)
               \/ at \in StartTime /\ \E c \in Client : BootActivate(c, p, selected, at)
    <3>1. PICK p, selected, at : \/ Confirm(p, selected, at) \/ RequireReview(p, selected, at)
                                 \/ \E c \in Client : BootActivate(c, p, selected, at)
      BY <2>5
    <3> QED BY <1>5, <3>1 DEF Confirm, RequireReview
  <2> QED BY <1>8, <2>1, <2>2, <2>3, <2>4, <2>5 DEF Workflow
<1>9. CASE \/ \E cv \in Conv, at \in StartTime : HostTurn(cv, at)
           \/ \E r \in DOMAIN turns : HostClassifies(r)
           \/ \E k \in DOMAIN cases : MoveCase(k)
  BY <1>9 DEF HostTurn, HostClassifies, MoveCase
<1>10. CASE OtherChange \/ (\E a \in Authority : EditAuthority(a)) \/ LoadAuthority \/ UNCHANGED vars
  BY <1>10 DEF OtherChange, EditAuthority, LoadAuthority, vars
<1> QED BY <1>7, <1>8, <1>9, <1>10 DEF Next

LEMMA ProposalsStep ==
  ASSUME Inv, [Next]_vars
  PROVE  \/ Proposals(ledger') = Proposals(ledger)
         \/ \E p : p.session # 0 /\ Proposals(ledger') = Proposals(ledger) \cup {p}
         \/ \E d \in Client : boot[d].pc = "read" /\ boot' = [boot EXCEPT ![d] = Idle]
<1>1. ledger \in Seq(Frame)
  BY DEF Inv, TypeInv
<1>2. CASE UNCHANGED ledger
  BY <1>2
<1>3. CASE \E e : Checked(e)
  <2>1. PICK e : Checked(e)
    BY <1>3
  <2>2. e \in EventFrame /\ ledger' = Append(ledger, e)
    BY <2>1, NextInv, CheckedEvent DEF Checked
  <2> QED BY <1>1, <2>2, MoreEvents
<1>4. CASE \E s \in Sessions, content \in Content, at \in Time : Propose(s, content, at)
  <2>1. PICK s \in Sessions, content \in Content, at \in Time : Propose(s, content, at)
    BY <1>4
  <2> DEFINE p == ProposalOf(s, content, at)
  <2>2. Grown(ledger, ledger', ProposedEvent(s, p, at), {p}, {})
    BY <2>1, ProposeFacts
  <2>3. p.session # 0
    BY <2>1, ProposedReadable
  <2> HIDE DEF p
  <2> QED BY <2>2, <2>3 DEF Grown
<1>5. CASE \E p \in Proposals(ledger), at \in Time : \E selected :
             Selects(p, selected) /\ Confirm(p, selected, at)
  <2> PICK p \in Proposals(ledger), at \in Time :
        \E selected : Selects(p, selected) /\ Confirm(p, selected, at)
    BY <1>5
  <2>1. PICK selected : Selects(p, selected) /\ Confirm(p, selected, at)
    OBVIOUS
  <2>2. Confirmation(p, Decided(p, selected, at), at)
    BY <2>1, ConfirmFacts
  <2> QED BY <2>2 DEF Confirmation, Grown
<1>6. CASE \E c \in Client : BootAppend(c)
  BY <1>6 DEF BootAppend
<1>7. CASE \E c \in Client : BootApply(c)
  <2>1. PICK c \in Client : BootApply(c)
    BY <1>7
  <2>2. boot[c].decision \in Decision
        /\ (ledger' = ledger \/ ledger' = Append(ledger, DecisionFrame(boot[c].decision)))
    BY <2>1, BootApplyFacts
  <2> QED BY <1>1, <2>2, QuietDecision DEF Quiet
<1> QED BY <1>2, <1>3, <1>4, <1>5, <1>6, <1>7, LedgerStep DEF LedgerChange

LEMMA ListedStays ==
  ASSUME OneProposer, Inv, DecodesInv, [Next]_vars
  PROVE  NotListed' /\ NotProposing'
<1>1. /\ boot \in [Client -> Call] /\ NotListed /\ NotProposing
  BY DEF Inv, TypeInv, DecodesInv
<1>2. ASSUME NEW c \in Client
      PROVE  boot'[c] = boot[c] \/ Moves(c, boot'[c])
  <2>1. CASE boot' = boot
    BY <2>1
  <2>2. CASE \E d \in Client : \E b : boot' = [boot EXCEPT ![d] = b] /\ Moves(d, b)
    BY <1>1, <2>2
  <2> QED BY <2>1, <2>2, BootStep
<1>3. NotProposing'
  <2>1. SUFFICES ASSUME NEW c \in Client \ Proposer
                 PROVE  boot'[c].pc \notin {"validated", "listed", "read"}
    BY DEF NotProposing
  <2>2. boot[c].pc \notin {"validated", "listed", "read"}
    BY <1>1 DEF NotProposing
  <2> QED BY <1>2, <2>2 DEF Moves
<1>4. NotListed'
  <2>1. SUFFICES ASSUME NEW c \in Client, boot'[c].pc \in {"listed", "read"}
                 PROVE  boot'[c].proposal \notin Proposals(ledger')
    BY DEF NotListed
  <2>2. boot'[c].proposal \notin Proposals(ledger)
    BY <1>1, <1>2, <2>1 DEF NotListed, Moves
  <2>3. boot'[c].proposal.session = 0
    <3>1. CallFine(ledger', boot'[c])
      BY NextInv DEF Inv, CallsFine
    <3> QED BY <2>1, <3>1 DEF CallFine
  <2>4. CASE \E p : p.session # 0 /\ Proposals(ledger') = Proposals(ledger) \cup {p}
    BY <2>2, <2>3, <2>4
  <2>5. ASSUME NEW d \in Client, boot[d].pc = "read", boot' = [boot EXCEPT ![d] = Idle]
        PROVE  FALSE
    <3>1. c # d /\ boot[c].pc \in {"listed", "read"}
      BY <1>1, <2>1, <2>5, IdleFine
    <3>2. c \in Proposer /\ d \in Proposer
      BY <1>1, <2>5, <3>1 DEF NotProposing
    <3> QED BY <3>1, <3>2 DEF OneProposer
  <2> QED BY <2>2, <2>4, <2>5, ProposalsStep
<1> QED BY <1>3, <1>4

LEMMA DecodesInit == Init => DecodesInv
<1> SUFFICES ASSUME Init PROVE DecodesInv
  OBVIOUS
<1>1. ledger = <<>> /\ boot = [c \in Client |-> Idle]
  BY DEF Init
<1>2. Decodable(<<>>)
  BY DEF Decodable, Pending, Proposals
<1>3. \A c \in Client : boot[c].pc = "idle"
  BY <1>1, IdleFine
<1> QED BY <1>1, <1>2, <1>3 DEF DecodesInv, NotListed, NotProposing

(* The reader of intent_proposals.jsonl never refuses what the writers     *)
(* wrote, in whatever order sessions, proposals and decisions follow each  *)
(* other, though proposals and confirmations append without its checks: as *)
(* long as one process proposes bootstrap intent.  With two the same       *)
(* proposal can be listed by neither and appended by both.                 *)
THEOREM LedgerDecodesCorrect ==
  ASSUME OneProposer
  PROVE  Spec => []LedgerDecodes
<1>1. ASSUME Inv, DecodesInv, [Next]_vars PROVE DecodesInv'
  BY <1>1, LedgerStaysDecodable, ListedStays DEF DecodesInv
<1>2. DecodesInv => LedgerDecodes
  BY DEF DecodesInv, LedgerDecodes
<1> QED BY InvCorrect, DecodesInit, <1>1, <1>2, PTL DEF Spec

=============================================================================
