----------------------------- MODULE ControlPlane -----------------------------
(***************************************************************************)
(* control_plane/service.py with webauthn_service.py and webauthn_store.py *)
(* : how a human decision (a proposal, a case, an external write plan, the *)
(* answer to a clarification) is previewed, signed and applied.            *)
(*                                                                         *)
(* A server takes one request at a time (web.py calls the service          *)
(* synchronously); several servers, the command line and the connectors    *)
(* share the project's files.  A transaction of the local store is one     *)
(* step here: LocalTransaction shows that it is atomic, and it fails       *)
(* without a trace.  Digests stand for what they hash; a response of an    *)
(* authenticator may be delivered any number of times, to any server.      *)
(***************************************************************************)
EXTENDS Integers, Sequences, FiniteSets

CONSTANTS Server,      \* control-plane processes
          Case,        \* proposals and reconciliation cases: decided once
          Plan,        \* external write plans: may be approved again
          Question,    \* clarification questions: answered once
          Nonce,       \* challenge identifiers
          Cred,        \* authenticators
          Counting,    \* those whose signature counter is not always zero
          Enrolled,    \* those enrolled before the servers start
          Config,      \* contents of the authority files
          Settings,    \* [Config -> what config.yaml says, the other files aside]
          Store,       \* contents of the other canonical files
          View,        \* [Subject -> [Store -> what a preview of it shows]]
          Lifetime,    \* _DECISION_LIFETIME and _CHALLENGE_LIFETIME
          MaxPending,  \* _MAX_PENDING_ANSWERS
          MaxTime, MaxCount, MaxEdits,  \* bounds: clock, counters, edits
          None

Subject == Case \cup Plan \cup Question
Time == 0 .. MaxTime
Count == 0 .. MaxCount
Views == UNION {{View[x][c] : c \in Store} : x \in Subject}

ASSUME BoundsAssumption == /\ MaxTime \in Nat /\ MaxCount \in Nat /\ MaxEdits \in Nat
                           /\ Lifetime \in Nat \ {0} /\ MaxPending \in Nat \ {0}
ASSUME SubjectAssumption == /\ Case \cap Plan = {} /\ Question \cap (Case \cup Plan) = {}
                            /\ View \in [Subject -> [Store -> Views]]
ASSUME NoneAssumption == None \notin Subject \cup Nonce \cup Cred \cup Views

VARIABLES
  clock,
  config,       \* authority files: configuration, policy, plans, connector bindings
  store,        \* the canonical files, as far as others write them
  edits,        \* changes made to both so far
  closed,       \* cases decided and questions answered, by whomever
  decisions,    \* Seq: the decisions the control plane applied
  credentials,  \* [Cred -> SUBSET Count]: the credential ledger
  challenge,    \* [Nonce -> challenge ledger entry or None]
  preview,      \* [Nonce -> decision payload shown in a browser or None]
  responses,    \* what authenticators signed
  boot,         \* [Server -> config.yaml its Runtime was loaded with]
  pending,      \* [Server -> answers held in memory]
  pc,
  job,          \* [Server -> request in progress]
  snap          \* [Server -> parent state the request captured, or None]

vars == <<clock, config, store, edits, closed, decisions, credentials, challenge, preview,
          responses, boot, pending, pc, job, snap>>
world == <<config, store, edits, closed>>
outside == <<clock, responses>>
durable == <<decisions, credentials, challenge>>

NoJob == [op |-> "none", subject |-> None, nonce |-> None, view |-> None, at |-> 0,
          cred |-> None, count |-> 0, held |-> FALSE]

(* _parent_digest: every canonical and authority file except the challenge *)
(* ledger.  The ledger of decisions is append-only: its length stands for  *)
(* its contents.                                                           *)
Parent == [config |-> config, store |-> store, closed |-> closed,
           decisions |-> Len(decisions), credentials |-> credentials]

Init == /\ clock = 0 /\ config \in Config /\ store \in Store /\ edits = 0
        /\ closed = {} /\ decisions = <<>>
        /\ credentials = [c \in Cred |-> IF c \in Enrolled THEN {0} ELSE {}]
        /\ challenge = [n \in Nonce |-> None]
        /\ preview = [n \in Nonce |-> None]
        /\ responses = {}
        /\ boot = [s \in Server |-> Settings[config]]
        /\ pending = [s \in Server |-> {}]
        /\ pc = [s \in Server |-> "idle"]
        /\ job = [s \in Server |-> NoJob]
        /\ snap = [s \in Server |-> None]

(* secrets.token_bytes: an identifier never drawn before. *)
Fresh(n) == challenge[n] = None /\ preview[n] = None

(* Mutant: whether the subject was decided is not looked up again. *)
StillOpen(x) == TRUE

(* decision_for, ReconciliationStatus.NEEDS_HUMAN, question unanswered. *)
Open(x) == x \notin closed

(* _baseline_material, _clarification_material, _case_material and         *)
(* _plan_material: what is shown, read from the live files.                *)
Material(x) == View[x][store]

Answer(q, t) == [question |-> q, at |-> t]

(* _purge_pending_answers *)
Purged(s) == {a \in pending[s] : clock < a.at + Lifetime}

Goto(s, label) == pc' = [pc EXCEPT ![s] = label]

Done(s) == /\ Goto(s, "idle")
           /\ job' = [job EXCEPT ![s] = NoJob]
           /\ snap' = [snap EXCEPT ![s] = None]

-----------------------------------------------------------------------------
(* The other users of the project, and the people at the browser.          *)

Tick == /\ clock < MaxTime
        /\ clock' = clock + 1
        /\ UNCHANGED <<world, durable, preview, responses, boot, pending, pc, job, snap>>

(* A file is edited by hand, or a sync, a restore or the command line      *)
(* changes the canonical files; a content may come back.                   *)
Edit == /\ edits < MaxEdits
        /\ edits' = edits + 1
        /\ \/ config' \in Config \ {config} /\ UNCHANGED <<store, closed>>
           \/ store' \in Store \ {store} /\ UNCHANGED <<config, closed>>
           \/ /\ \E x \in (Case \cup Question) \ closed : closed' = closed \cup {x}
              /\ UNCHANGED <<config, store>>
        /\ UNCHANGED <<outside, durable, preview, boot, pending, pc, job, snap>>

(* The browser has an authenticator sign the options of a ceremony; a      *)
(* restored or copied authenticator may report any counter.                *)
Sign(n, c) ==
  /\ challenge[n] # None /\ \A r \in responses : r.nonce # n
  /\ challenge[n].kind = "authentication" => credentials[c] # {}
  /\ \E k \in IF c \in Counting THEN Count ELSE {0} :
       responses' = responses \cup {[nonce |-> n, cred |-> c, count |-> k]}
  /\ UNCHANGED <<clock, world, durable, preview, boot, pending, pc, job, snap>>

(* The server is stopped and started: its memory is gone. *)
Restart(s) ==
  /\ Done(s)
  /\ boot' = [boot EXCEPT ![s] = Settings[config]]
  /\ pending' = [pending EXCEPT ![s] = {}]
  /\ UNCHANGED <<outside, world, durable, preview>>

-----------------------------------------------------------------------------
(* Requests: _authority() captures the parent state, and refuses a         *)
(* config.yaml other than the one the Runtime was loaded with.             *)

Capture(s, request, label) ==
  /\ pc[s] = "idle" /\ Settings[config] = boot[s]
  /\ Goto(s, label)
  /\ job' = [job EXCEPT ![s] = request]
  /\ snap' = [snap EXCEPT ![s] = Parent]
  /\ pending' = [pending EXCEPT ![s] = IF request.op \in {"enrol", "register"} THEN @ ELSE Purged(s)]
  /\ UNCHANGED <<outside, world, durable, preview, boot>>

(* status, inbox, discard_answer_preview; a request _authority() refuses. *)
Forget(s) ==
  /\ pc[s] = "idle"
  /\ \E gone \in {{}} \cup {{a} : a \in pending[s]} :
       pending' = [pending EXCEPT ![s] = Purged(s) \ gone]
  /\ UNCHANGED <<outside, world, durable, preview, boot, pc, job, snap>>

(* Mutant: verify() commits the consumption before the decision is applied. *)
FailAfterVerify(s) ==
  /\ pc[s] # "idle"
  /\ challenge' = [n \in Nonce |-> IF pc[s] = "commit" /\ job[s].op = "apply" /\ n = job[s].nonce
                                   THEN [challenge[n] EXCEPT !.used = TRUE] ELSE challenge[n]]
  /\ Done(s)
  /\ UNCHANGED <<outside, world, decisions, credentials, preview, boot, pending>>

(* A request fails: the caller learns nothing, a transaction is rolled     *)
(* back, and an answer this request put into memory is dropped.            *)
Fail(s) ==
  /\ pc[s] # "idle"
  /\ pending' = [pending EXCEPT ![s] =
       IF job[s].held THEN @ \ {Answer(job[s].subject, job[s].at)} ELSE @]
  /\ Done(s)
  /\ UNCHANGED <<outside, world, durable, preview, boot>>

-----------------------------------------------------------------------------
(* proposal_preview and answer_preview.                                    *)

BeginPreview(s) ==
  \/ \E x \in Case \cup Plan : Capture(s, [NoJob EXCEPT !.op = "preview", !.subject = x], "compute")
  \/ \E q \in Question :
       Capture(s, [NoJob EXCEPT !.op = "preview", !.subject = q, !.at = clock], "hold")

(* Mutant: the limit on held answers is checked against the wrong bound. *)
HoldOneMore(s) ==
  /\ pc[s] = "hold" /\ config = snap[s].config /\ Open(job[s].subject)
  /\ LET a == Answer(job[s].subject, job[s].at) IN
       /\ Cardinality(pending[s]) <= MaxPending
       /\ pending' = [pending EXCEPT ![s] = @ \cup {a}]
       /\ job' = [job EXCEPT ![s].held = a \notin pending[s]]
  /\ Goto(s, "compute")
  /\ UNCHANGED <<outside, world, durable, preview, boot, snap>>

(* preview_answer, then the answer is held in memory up to the limit. *)
HoldAnswer(s) ==
  /\ pc[s] = "hold" /\ config = snap[s].config /\ Open(job[s].subject)
  /\ LET a == Answer(job[s].subject, job[s].at) IN
       /\ a \in pending[s] \/ Cardinality(pending[s]) < MaxPending
       /\ pending' = [pending EXCEPT ![s] = @ \cup {a}]
       /\ job' = [job EXCEPT ![s].held = a \notin pending[s]]
  /\ Goto(s, "compute")
  /\ UNCHANGED <<outside, world, durable, preview, boot, snap>>

(* _payload: the material is read from the live files, without a lock. *)
ComputePreview(s) ==
  /\ pc[s] = "compute" /\ job[s].op = "preview" /\ Open(job[s].subject)
  /\ job' = [job EXCEPT ![s].view = Material(job[s].subject),
                        ![s].at = IF job[s].subject \in Question THEN @ ELSE clock]
  /\ Goto(s, "match")
  /\ UNCHANGED <<outside, world, durable, preview, boot, pending, snap>>

(* _authority_matches, and the preview goes to the browser. *)
ShowPreview(s) ==
  /\ pc[s] = "match" /\ job[s].op = "preview" /\ Parent = snap[s]
  /\ \E n \in Nonce :
       /\ Fresh(n)
       /\ preview' = [preview EXCEPT ![n] =
            [subject |-> job[s].subject, parent |-> snap[s], view |-> job[s].view,
             issued |-> job[s].at]]
  /\ Done(s)
  /\ UNCHANGED <<outside, world, durable, boot, pending>>

-----------------------------------------------------------------------------
(* decision_options.                                                       *)

(* _answer_material *)
AnswerHeld(s, p) == p.subject \in Question => Answer(p.subject, p.issued) \in pending[s]

(* Mutant: the parent state is not part of the signed payload. *)
ExpectedContent(s, p, parent) ==
  /\ Open(p.subject)
  /\ p.view = Material(p.subject)
  /\ AnswerHeld(s, p)

(* Mutant: an unchanged parent state is taken for an unchanged preview. *)
ExpectedParent(s, p, parent) ==
  /\ p.parent = parent
  /\ Open(p.subject)
  /\ AnswerHeld(s, p)

(* _expected_payload: the payload reconstructed from the given parent      *)
(* state and the live files is the one that was shown.                     *)
Expected(s, p, parent) ==
  /\ p.parent = parent
  /\ Open(p.subject)
  /\ p.view = Material(p.subject)
  /\ AnswerHeld(s, p)

(* _validate_decision_call *)
Current(p) == p.issued <= clock /\ clock < p.issued + Lifetime

BeginOptions(s) ==
  \E n \in Nonce : /\ preview[n] # None
                   /\ Capture(s, [NoJob EXCEPT !.op = "options", !.nonce = n], "compute")

CheckOptions(s) ==
  /\ pc[s] = "compute" /\ job[s].op = "options"
  /\ Expected(s, preview[job[s].nonce], snap[s])
  /\ Goto(s, "match")
  /\ UNCHANGED <<outside, world, durable, preview, boot, pending, job, snap>>

MatchOptions(s) ==
  /\ pc[s] = "match" /\ job[s].op = "options" /\ Parent = snap[s]
  /\ Goto(s, "issue")
  /\ UNCHANGED <<outside, world, durable, preview, boot, pending, job, snap>>

Issued(kind) == [kind |-> kind, issued |-> clock, used |-> FALSE]

(* authentication_options: the challenge is issued at most once. *)
IssueChallenge(s) ==
  LET n == job[s].nonce IN
  /\ pc[s] = "issue" /\ Current(preview[n])
  /\ \E c \in Cred : credentials[c] # {}
  /\ challenge[n] = None
  /\ challenge' = [challenge EXCEPT ![n] = Issued("authentication")]
  /\ Done(s)
  /\ UNCHANGED <<outside, world, decisions, credentials, preview, boot, pending>>

-----------------------------------------------------------------------------
(* register and apply_decision.                                            *)

BeginEnrolment(s) == Capture(s, [NoJob EXCEPT !.op = "enrol"], "commit")

(* registration_options *)
IssueEnrolment(s) ==
  /\ pc[s] = "commit" /\ job[s].op = "enrol" /\ config = snap[s].config
  /\ \E n \in Nonce : /\ Fresh(n)
                      /\ challenge' = [challenge EXCEPT ![n] = Issued("registration")]
  /\ Done(s)
  /\ UNCHANGED <<outside, world, decisions, credentials, preview, boot, pending>>

BeginResponse(s) ==
  \E r \in responses :
    Capture(s, [NoJob EXCEPT !.op = IF preview[r.nonce] = None THEN "register" ELSE "apply",
                             !.nonce = r.nonce, !.cred = r.cred, !.count = r.count], "commit")

(* WebAuthnChallengeStore.consume *)
Consumable(n, kind) ==
  /\ challenge[n] # None /\ challenge[n].kind = kind /\ ~challenge[n].used
  /\ challenge[n].issued <= clock /\ clock < challenge[n].issued + Lifetime

Consume(n) == challenge' = [challenge EXCEPT ![n].used = TRUE]

(* WebAuthnCredentialStore.put *)
PutCredential(c, k) == credentials' = [credentials EXCEPT ![c] = @ \cup {k}]

(* WebAuthnService._register *)
Enrol(n, c, k) ==
  /\ Consumable(n, "registration") /\ Consume(n)
  /\ credentials[c] = {} /\ PutCredential(c, k)

Register(s) ==
  /\ pc[s] = "commit" /\ job[s].op = "register" /\ config = snap[s].config
  /\ Enrol(job[s].nonce, job[s].cred, job[s].count)
  /\ Done(s)
  /\ UNCHANGED <<outside, world, decisions, preview, boot, pending>>

(* Mutant: a counter may stand still. *)
CounterNotLower(c, k) ==
  /\ credentials[c] # {}
  /\ \A old \in credentials[c] : old <= k

(* _current_credentials: the counter of the response is above the latest   *)
(* one of the ledger, or the authenticator has none.                       *)
CounterAccepted(c, k) ==
  /\ credentials[c] # {}
  /\ \/ \A old \in credentials[c] : old < k
     \/ k = 0 /\ credentials[c] = {0}

(* WebAuthnService._verify *)
Verify(n, c, k) ==
  /\ Current(preview[n])
  /\ Consumable(n, "authentication") /\ Consume(n)
  /\ CounterAccepted(c, k) /\ PutCredential(c, k)

(* _dispatch: the effect on the canonical files. *)
Dispatch(n, c, k) ==
  LET x == preview[n].subject IN
  /\ decisions' = Append(decisions, [nonce |-> n, view |-> Material(x), cred |-> c, count |-> k])
  /\ closed' = closed \cup ({x} \ Plan)

(* _apply_decision: one transaction. *)
ApplyDecision(s) ==
  /\ pc[s] = "commit" /\ job[s].op = "apply" /\ config = snap[s].config
  /\ Expected(s, preview[job[s].nonce], Parent)
  /\ Verify(job[s].nonce, job[s].cred, job[s].count)
  /\ Dispatch(job[s].nonce, job[s].cred, job[s].count)
  /\ Goto(s, "pop")
  /\ UNCHANGED <<outside, config, store, edits, preview, boot, pending, job, snap>>

(* After the commit the answer leaves the server's memory. *)
PopAnswer(s) ==
  /\ pc[s] = "pop"
  /\ LET p == preview[job[s].nonce] IN
       pending' = [pending EXCEPT ![s] = @ \ {Answer(p.subject, p.issued)}]
  /\ Done(s)
  /\ UNCHANGED <<outside, world, durable, preview, boot>>

-----------------------------------------------------------------------------
Request(s) == \/ BeginPreview(s) \/ BeginOptions(s) \/ BeginEnrolment(s) \/ BeginResponse(s)
              \/ Forget(s)
Handle(s) == \/ HoldAnswer(s) \/ ComputePreview(s) \/ ShowPreview(s)
             \/ CheckOptions(s) \/ MatchOptions(s) \/ IssueChallenge(s)
             \/ IssueEnrolment(s) \/ Register(s) \/ ApplyDecision(s) \/ PopAnswer(s)
             \/ Fail(s)

Next == \/ Tick \/ Edit
        \/ \E n \in Nonce, c \in Cred : Sign(n, c)
        \/ \E s \in Server : Request(s) \/ Handle(s) \/ Restart(s)

Spec == Init /\ [][Next]_vars

-----------------------------------------------------------------------------
ParentState == [config : Config, store : Store, closed : SUBSET Subject, decisions : Nat,
                credentials : [Cred -> SUBSET Count]]
Payload == [subject : Subject, parent : ParentState, view : Views, issued : Time]
ChallengeRecord == [kind : {"registration", "authentication"}, issued : Time, used : BOOLEAN]
Decision == [nonce : Nonce, view : Views, cred : Cred, count : Count]
Job == [op : {"none", "preview", "options", "enrol", "register", "apply"},
        subject : Subject \cup {None}, nonce : Nonce \cup {None}, view : Views \cup {None},
        at : Time, cred : Cred \cup {None}, count : Count, held : BOOLEAN]

ASSUME RecordAssumption == None \notin ChallengeRecord \cup Payload \cup ParentState

(* Types; a server never holds more answers than _MAX_PENDING_ANSWERS, and *)
(* an authentication challenge is issued only for a payload that was shown. *)
TypeOK ==
  /\ clock \in Time /\ config \in Config /\ store \in Store /\ edits \in 0 .. MaxEdits
  /\ closed \subseteq Case \cup Question
  /\ decisions \in Seq(Decision)
  /\ credentials \in [Cred -> SUBSET Count]
  /\ challenge \in [Nonce -> ChallengeRecord \cup {None}]
  /\ preview \in [Nonce -> Payload \cup {None}]
  /\ responses \subseteq [nonce : Nonce, cred : Cred, count : Count]
  /\ boot \in [Server -> {Settings[g] : g \in Config}]
  /\ pending \in [Server -> SUBSET [question : Question, at : Time]]
  /\ \A s \in Server : Cardinality(pending[s]) <= MaxPending
  /\ pc \in [Server -> {"idle", "hold", "compute", "match", "issue", "commit", "pop"}]
  /\ job \in [Server -> Job]
  /\ snap \in [Server -> ParentState \cup {None}]
  /\ \A n \in Nonce : challenge[n] # None /\ challenge[n].kind = "authentication"
                        => preview[n] # None

(* Of all decisions that were previewed on one state of the project, at    *)
(* most one takes effect: every other one has to be shown again first,     *)
(* whoever signed it, however often its response is delivered.             *)
OneDecisionPerState ==
  \A i, j \in 1 .. Len(decisions) :
    preview[decisions[i].nonce].parent = preview[decisions[j].nonce].parent => i = j

(* A challenge is consumed exactly when the one decision it was issued for *)
(* took effect: a failed, repeated or interrupted request neither burns it *)
(* nor uses it twice.                                                      *)
ConsumedWithEffect ==
  \A n \in Nonce :
    /\ (challenge[n] # None /\ challenge[n].kind = "authentication" /\ challenge[n].used)
         <=> \E i \in 1 .. Len(decisions) : decisions[i].nonce = n
    /\ \A i, j \in 1 .. Len(decisions) : decisions[i].nonce = n /\ decisions[j].nonce = n => i = j

(* The counters accepted from an authenticator increase from decision to   *)
(* decision, unless it has no counter.                                     *)
CountersIncrease ==
  \A i, j \in 1 .. Len(decisions) :
    i < j /\ decisions[i].cred = decisions[j].cred
      => \/ decisions[i].count < decisions[j].count
         \/ decisions[i].count = 0 /\ decisions[j].count = 0

(* No case, proposal or question is decided twice, not by two servers and  *)
(* not from two previews.                                                  *)
DecidedOnce ==
  \A i, j \in 1 .. Len(decisions) :
    LET x == preview[decisions[i].nonce].subject
        y == preview[decisions[j].nonce].subject
    IN x = y /\ x \notin Plan => i = j

(* A decision is applied to the content its preview showed, even if the    *)
(* files changed and changed back while the preview was computed.          *)
AppliedAsShown ==
  \A i \in 1 .. Len(decisions) : decisions[i].view = preview[decisions[i].nonce].view
=============================================================================
