-------------------------- MODULE ControlPlane_proofs --------------------------
(***************************************************************************)
(* Proofs about ControlPlane, for any number of servers, subjects,         *)
(* challenges and authenticators.                                          *)
(***************************************************************************)
EXTENDS ControlPlane, FiniteSetTheorems, TLAPS

(* What a request in progress has established. *)
JobState ==
  \A s \in Server :
    /\ pc[s] # "idle" => snap[s] \in ParentState
    /\ pc[s] = "hold" => job[s].op = "preview" /\ job[s].subject \in Question
    /\ pc[s] = "issue" => job[s].op = "options"
    /\ pc[s] = "pop" => job[s].op = "apply"
    /\ job[s].op = "preview" => job[s].subject \in Subject
    /\ pc[s] = "match" /\ job[s].op = "preview" => job[s].view \in Views
    /\ job[s].op \in {"options", "register", "apply"} => job[s].nonce \in Nonce
    /\ job[s].op \in {"options", "apply"} => preview[job[s].nonce] # None
    /\ job[s].op \in {"register", "apply"} => job[s].cred \in Cred

Finite == \A s \in Server : IsFiniteSet(pending[s])

TypeInv == TypeOK /\ JobState /\ Finite

LEMMA TypeInit == Init => TypeInv
<1> SUFFICES ASSUME Init PROVE TypeInv
  OBVIOUS
<1>1. NoJob \in Job /\ NoJob.op = "none" /\ 0 \in Time /\ 0 \in Count
  BY BoundsAssumption DEF NoJob, Job, Time, Count
<1>2. IsFiniteSet({}) /\ Cardinality({}) = 0
  BY FS_EmptySet
<1>3. TypeOK
  BY <1>1, <1>2, BoundsAssumption DEF Init, TypeOK
<1>4. JobState /\ Finite
  BY <1>1, <1>2 DEF Init, JobState, Finite
<1> QED
  BY <1>3, <1>4 DEF TypeInv

LEMMA ParentType == TypeOK => Parent \in ParentState
  BY DEF TypeOK, Parent, ParentState, Subject

(* A request ends. *)
LEMMA DoneType ==
  ASSUME TypeInv, NEW s \in Server, Done(s)
  PROVE  /\ pc' \in [Server -> {"idle", "hold", "compute", "match", "issue", "commit", "pop"}]
         /\ job' \in [Server -> Job]
         /\ snap' \in [Server -> ParentState \cup {None}]
         /\ pc'[s] = "idle" /\ job'[s].op = "none"
         /\ \A r \in Server : r # s => pc'[r] = pc[r] /\ job'[r] = job[r] /\ snap'[r] = snap[r]
<1>1. NoJob \in Job /\ NoJob.op = "none"
  BY BoundsAssumption DEF NoJob, Job, Time, Count
<1> QED
  BY <1>1 DEF Done, Goto, TypeInv, TypeOK

LEMMA DoneJobs ==
  ASSUME TypeInv, NEW s \in Server, Done(s),
         \A n \in Nonce : preview[n] # None => preview'[n] = preview[n]
  PROVE  JobState'
<1>1. \A r \in Server : r # s => pc'[r] = pc[r] /\ job'[r] = job[r] /\ snap'[r] = snap[r]
  BY DoneType
<1>2. pc'[s] = "idle" /\ job'[s].op = "none"
  BY DoneType
<1> QED
  BY <1>1, <1>2 DEF TypeInv, JobState

(* A set of held answers that does not grow stays within the limit. *)
LEMMA FewerAnswers ==
  ASSUME TypeInv, NEW s \in Server, NEW held \in SUBSET pending[s],
         pending' = [pending EXCEPT ![s] = held]
  PROVE  /\ pending' \in [Server -> SUBSET [question : Question, at : Time]]
         /\ \A r \in Server : Cardinality(pending'[r]) <= MaxPending
         /\ Finite'
<1>1. IsFiniteSet(held) /\ Cardinality(held) <= Cardinality(pending[s])
  BY FS_Subset DEF TypeInv, Finite
<1>2. Cardinality(held) \in Nat /\ Cardinality(pending[s]) \in Nat
  BY <1>1, FS_CardinalityType DEF TypeInv, Finite
<1>3. Cardinality(held) <= MaxPending
  BY <1>1, <1>2, BoundsAssumption DEF TypeInv, TypeOK
<1>4. \A r \in Server : pending'[r] = IF r = s THEN held ELSE pending[r]
  BY DEF TypeInv, TypeOK
<1> QED
  BY <1>1, <1>3, <1>4 DEF TypeInv, TypeOK, Finite

LEMMA CaptureType ==
  ASSUME TypeInv, NEW s \in Server, NEW request \in Job, NEW label,
         label \in {"hold", "compute", "commit"},
         Capture(s, request, label),
         label = "hold" => request.op = "preview" /\ request.subject \in Question,
         request.op = "preview" => request.subject \in Subject,
         request.op \in {"options", "register", "apply"} => request.nonce \in Nonce,
         request.op \in {"options", "apply"} => preview[request.nonce] # None,
         request.op \in {"register", "apply"} => request.cred \in Cred
  PROVE  TypeInv'
<1>1. Purged(s) \in SUBSET pending[s]
  BY DEF Purged
<1>2. /\ pending' \in [Server -> SUBSET [question : Question, at : Time]]
      /\ \A r \in Server : Cardinality(pending'[r]) <= MaxPending
      /\ Finite'
  BY <1>1, FewerAnswers DEF Capture
<1>3. Parent \in ParentState
  BY ParentType DEF TypeInv
<1>4. /\ pc' \in [Server -> {"idle", "hold", "compute", "match", "issue", "commit", "pop"}]
      /\ job' \in [Server -> Job]
      /\ snap' \in [Server -> ParentState \cup {None}]
      /\ pc'[s] = label /\ job'[s] = request /\ snap'[s] \in ParentState
      /\ \A r \in Server : r # s => pc'[r] = pc[r] /\ job'[r] = job[r] /\ snap'[r] = snap[r]
  BY <1>3 DEF Capture, Goto, TypeInv, TypeOK
<1>5. TypeOK'
  BY <1>2, <1>4 DEF Capture, TypeInv, TypeOK, outside, world, durable
<1>6. JobState'
  BY <1>4 DEF Capture, TypeInv, JobState
<1> QED
  BY <1>2, <1>5, <1>6 DEF TypeInv

(* A step that leaves the requests in progress and the answers alone. *)
LEMMA QuietType ==
  ASSUME TypeInv, UNCHANGED <<pc, job, snap, preview, boot, pending>>
  PROVE  /\ JobState' /\ Finite'
         /\ pc' \in [Server -> {"idle", "hold", "compute", "match", "issue", "commit", "pop"}]
         /\ job' \in [Server -> Job] /\ snap' \in [Server -> ParentState \cup {None}]
         /\ preview' \in [Nonce -> Payload \cup {None}] /\ boot' \in [Server -> {Settings[g] : g \in Config}]
         /\ pending' \in [Server -> SUBSET [question : Question, at : Time]]
         /\ \A s \in Server : Cardinality(pending'[s]) <= MaxPending
<1>1. JobState' /\ Finite'
  BY DEF TypeInv, JobState, Finite
<1> QED
  BY <1>1 DEF TypeInv, TypeOK

(* The two ledgers of a ceremony. *)
LEMMA ConsumeType ==
  ASSUME TypeInv, NEW n \in Nonce, NEW kind, Consumable(n, kind), Consume(n)
  PROVE  /\ challenge' \in [Nonce -> ChallengeRecord \cup {None}]
         /\ \A m \in Nonce : challenge'[m] # None =>
              challenge[m] # None /\ challenge'[m].kind = challenge[m].kind
         /\ \A m \in Nonce : m # n => challenge'[m] = challenge[m]
         /\ challenge'[n] # None /\ challenge'[n].used /\ challenge'[n].kind = kind
<1>1. challenge[n] \in ChallengeRecord
  BY DEF TypeInv, TypeOK, Consumable
<1>2. \A m \in Nonce : challenge'[m] = IF m = n THEN [challenge[n] EXCEPT !.used = TRUE]
                                                ELSE challenge[m]
  BY DEF TypeInv, TypeOK, Consume
<1>3. [challenge[n] EXCEPT !.used = TRUE] \in ChallengeRecord
  BY <1>1 DEF ChallengeRecord
<1>4. None \notin ChallengeRecord
  BY RecordAssumption
<1> QED
  BY <1>1, <1>2, <1>3, <1>4 DEF ChallengeRecord, Consumable, Consume, TypeInv, TypeOK

LEMMA RequestType ==
  ASSUME TypeInv, NEW s \in Server, Request(s)
  PROVE  TypeInv'
<1>0. NoJob \in Job /\ 0 \in Time /\ 0 \in Count /\ clock \in Time
  BY BoundsAssumption DEF NoJob, Job, Time, Count, TypeInv, TypeOK
<1>1. CASE BeginPreview(s)
  <2>1. ASSUME NEW x \in Case \cup Plan,
               Capture(s, [NoJob EXCEPT !.op = "preview", !.subject = x], "compute")
        PROVE  TypeInv'
    <3> DEFINE j == [NoJob EXCEPT !.op = "preview", !.subject = x]
    <3>1. j \in Job /\ j.op = "preview" /\ j.subject \in Subject
      BY <1>0, <2>1 DEF NoJob, Job, Subject
    <3> QED
      BY <2>1, <3>1, CaptureType
  <2>2. ASSUME NEW q \in Question,
               Capture(s, [NoJob EXCEPT !.op = "preview", !.subject = q, !.at = clock], "hold")
        PROVE  TypeInv'
    <3> DEFINE j == [NoJob EXCEPT !.op = "preview", !.subject = q, !.at = clock]
    <3>1. j \in Job /\ j.op = "preview" /\ j.subject \in Question /\ j.subject \in Subject
      BY <1>0, <2>2 DEF NoJob, Job, Subject
    <3> QED
      BY <2>2, <3>1, CaptureType
  <2> QED
    BY <1>1, <2>1, <2>2 DEF BeginPreview
<1>2. CASE BeginOptions(s)
  <2>1. PICK n \in Nonce : /\ preview[n] # None
                           /\ Capture(s, [NoJob EXCEPT !.op = "options", !.nonce = n], "compute")
    BY <1>2 DEF BeginOptions
  <2> DEFINE j == [NoJob EXCEPT !.op = "options", !.nonce = n]
  <2>2. j \in Job /\ j.op = "options" /\ j.nonce = n
    BY <1>0 DEF NoJob, Job
  <2> QED
    BY <2>1, <2>2, CaptureType
<1>3. CASE BeginEnrolment(s)
  <2> DEFINE j == [NoJob EXCEPT !.op = "enrol"]
  <2>1. j \in Job /\ j.op = "enrol"
    BY <1>0 DEF NoJob, Job
  <2> QED
    BY <1>3, <2>1, CaptureType DEF BeginEnrolment
<1>4. CASE BeginResponse(s)
  <2>1. PICK r \in responses :
          Capture(s, [NoJob EXCEPT !.op = IF preview[r.nonce] = None THEN "register" ELSE "apply",
                                   !.nonce = r.nonce, !.cred = r.cred, !.count = r.count], "commit")
    BY <1>4 DEF BeginResponse
  <2>2. r.nonce \in Nonce /\ r.cred \in Cred /\ r.count \in Count
    BY DEF TypeInv, TypeOK
  <2> DEFINE j == [NoJob EXCEPT !.op = IF preview[r.nonce] = None THEN "register" ELSE "apply",
                                !.nonce = r.nonce, !.cred = r.cred, !.count = r.count]
  <2>3. /\ j \in Job /\ j.op \in {"register", "apply"} /\ j.nonce = r.nonce /\ j.cred = r.cred
        /\ j.op = "apply" => preview[r.nonce] # None
    BY <1>0, <2>2 DEF NoJob, Job
  <2> HIDE DEF j
  <2>4. Capture(s, j, "commit")
    BY <2>1 DEF j
  <2> QED
    BY <2>2, <2>3, <2>4, CaptureType
<1>5. CASE Forget(s)
  <2>1. PICK gone \in SUBSET pending[s] : pending' = [pending EXCEPT ![s] = Purged(s) \ gone]
    BY <1>5 DEF Forget
  <2>2. Purged(s) \ gone \in SUBSET pending[s]
    BY DEF Purged
  <2>3. /\ pending' \in [Server -> SUBSET [question : Question, at : Time]]
        /\ \A r \in Server : Cardinality(pending'[r]) <= MaxPending
        /\ Finite'
    BY <2>1, <2>2, FewerAnswers
  <2>4. TypeOK' /\ JobState'
    BY <1>5, <2>3 DEF Forget, TypeInv, TypeOK, JobState, outside, world, durable
  <2> QED
    BY <2>3, <2>4 DEF TypeInv
<1> QED
  BY <1>1, <1>2, <1>3, <1>4, <1>5 DEF Request

LEMMA FinishType ==
  ASSUME TypeInv, NEW s \in Server, Fail(s) \/ PopAnswer(s) \/ Restart(s)
  PROVE  TypeInv'
<1>1. /\ Done(s) /\ preview' = preview /\ boot' \in [Server -> {Settings[g] : g \in Config}]
      /\ UNCHANGED <<outside, world, durable>>
      /\ \E held \in SUBSET pending[s] : pending' = [pending EXCEPT ![s] = held]
  <2>1. CASE Fail(s)
    BY <2>1 DEF Fail, TypeInv, TypeOK
  <2>2. CASE PopAnswer(s)
    BY <2>2 DEF PopAnswer, TypeInv, TypeOK
  <2>3. CASE Restart(s)
    BY <2>3 DEF Restart, TypeInv, TypeOK
  <2> QED
    BY <2>1, <2>2, <2>3
<1>2. PICK held \in SUBSET pending[s] : pending' = [pending EXCEPT ![s] = held]
  BY <1>1
<1>3. /\ pending' \in [Server -> SUBSET [question : Question, at : Time]]
      /\ \A r \in Server : Cardinality(pending'[r]) <= MaxPending
      /\ Finite'
  BY <1>2, FewerAnswers
<1>4. JobState'
  BY <1>1, DoneJobs
<1>5. /\ pc' \in [Server -> {"idle", "hold", "compute", "match", "issue", "commit", "pop"}]
      /\ job' \in [Server -> Job] /\ snap' \in [Server -> ParentState \cup {None}]
  BY <1>1, DoneType
<1>6. TypeOK'
  BY <1>1, <1>3, <1>5 DEF TypeInv, TypeOK, outside, world, durable
<1> QED
  BY <1>3, <1>4, <1>6 DEF TypeInv

LEMMA PreviewType ==
  ASSUME TypeInv, NEW s \in Server, HoldAnswer(s) \/ ComputePreview(s) \/ ShowPreview(s)
  PROVE  TypeInv'
<1>0. job[s] \in Job
  BY DEF TypeInv, TypeOK
<1>1. CASE HoldAnswer(s)
  <2> DEFINE a == Answer(job[s].subject, job[s].at)
  <2>1. a \in [question : Question, at : Time]
    BY <1>0, <1>1 DEF HoldAnswer, TypeInv, JobState, Answer, Job
  <2>2. IsFiniteSet(pending[s]) /\ Cardinality(pending[s]) \in Nat
        /\ Cardinality(pending[s]) <= MaxPending
    BY FS_CardinalityType DEF TypeInv, TypeOK, Finite
  <2>3. /\ a \in pending[s] \/ Cardinality(pending[s]) < MaxPending
        /\ pending' = [pending EXCEPT ![s] = @ \cup {a}]
        /\ job' = [job EXCEPT ![s].held = a \notin pending[s]]
    BY <1>1 DEF HoldAnswer
  <2> HIDE DEF a
  <2>4. IsFiniteSet(pending[s] \cup {a}) /\ Cardinality(pending[s] \cup {a}) <= MaxPending
    <3>1. CASE a \in pending[s]
      <4>1. pending[s] \cup {a} = pending[s]
        BY <3>1
      <4> QED
        BY <2>2, <4>1
    <3>2. CASE a \notin pending[s]
      <4>1. IsFiniteSet(pending[s] \cup {a})
            /\ Cardinality(pending[s] \cup {a}) = Cardinality(pending[s]) + 1
        BY <2>2, <3>2, FS_AddElement
      <4> QED
        BY <2>2, <2>3, <3>2, <4>1, BoundsAssumption
    <3> QED
      BY <3>1, <3>2
  <2>5. \A r \in Server : pending'[r] = IF r = s THEN pending[s] \cup {a} ELSE pending[r]
    BY <2>3 DEF TypeInv, TypeOK
  <2>6. pending' \in [Server -> SUBSET [question : Question, at : Time]]
    BY <2>1, <2>3 DEF TypeInv, TypeOK
  <2>7. (\A r \in Server : Cardinality(pending'[r]) <= MaxPending) /\ Finite'
    BY <2>4, <2>5 DEF TypeInv, TypeOK, Finite
  <2>8. /\ job' \in [Server -> Job]
        /\ job'[s].op = job[s].op /\ job'[s].subject = job[s].subject
        /\ \A r \in Server : r # s => job'[r] = job[r]
    BY <1>0, <2>3 DEF TypeInv, TypeOK, Job
  <2>9. /\ pc' \in [Server -> {"idle", "hold", "compute", "match", "issue", "commit", "pop"}]
        /\ pc'[s] = "compute" /\ \A r \in Server : r # s => pc'[r] = pc[r]
    BY <1>1 DEF HoldAnswer, Goto, TypeInv, TypeOK
  <2>10. UNCHANGED <<outside, world, durable, preview, boot, snap>> /\ pc[s] = "hold"
    BY <1>1 DEF HoldAnswer
  <2>11. TypeOK'
    BY <2>6, <2>7, <2>8, <2>9, <2>10 DEF TypeInv, TypeOK, outside, world, durable
  <2>12. JobState'
    BY <2>8, <2>9, <2>10 DEF TypeInv, JobState
  <2> QED
    BY <2>7, <2>11, <2>12 DEF TypeInv
<1>2. CASE ComputePreview(s)
  <2>1. job[s].subject \in Subject /\ Material(job[s].subject) \in Views /\ clock \in Time
    BY <1>2, SubjectAssumption DEF ComputePreview, Material, TypeInv, TypeOK, JobState
  <2>2. /\ job' \in [Server -> Job]
        /\ job'[s].op = "preview" /\ job'[s].subject = job[s].subject /\ job'[s].view \in Views
        /\ \A r \in Server : r # s => job'[r] = job[r]
    BY <1>0, <1>2, <2>1 DEF ComputePreview, TypeInv, TypeOK, Job
  <2>3. /\ pc' \in [Server -> {"idle", "hold", "compute", "match", "issue", "commit", "pop"}]
        /\ pc'[s] = "match" /\ pc[s] = "compute" /\ \A r \in Server : r # s => pc'[r] = pc[r]
    BY <1>2 DEF ComputePreview, Goto, TypeInv, TypeOK
  <2>4. UNCHANGED <<outside, world, durable, preview, boot, pending, snap>>
    BY <1>2 DEF ComputePreview
  <2>5. TypeOK'
    BY <2>2, <2>3, <2>4 DEF TypeInv, TypeOK, outside, world, durable
  <2>6. JobState' /\ Finite'
    BY <2>1, <2>2, <2>3, <2>4 DEF TypeInv, JobState, Finite
  <2> QED
    BY <2>5, <2>6 DEF TypeInv
<1>3. CASE ShowPreview(s)
  <2> DEFINE p == [subject |-> job[s].subject, parent |-> snap[s], view |-> job[s].view,
                   issued |-> job[s].at]
  <2>1. p \in Payload
    BY <1>0, <1>3 DEF ShowPreview, TypeInv, JobState, Payload, Job
  <2>2. PICK n \in Nonce : Fresh(n) /\ preview' = [preview EXCEPT ![n] = p]
    BY <1>3 DEF ShowPreview
  <2> HIDE DEF p
  <2>3. /\ preview' \in [Nonce -> Payload \cup {None}]
        /\ \A m \in Nonce : preview[m] # None => preview'[m] = preview[m]
    BY <2>1, <2>2 DEF TypeInv, TypeOK, Fresh
  <2>4. Done(s) /\ UNCHANGED <<outside, world, durable, boot, pending>>
    BY <1>3 DEF ShowPreview
  <2>5. JobState'
    BY <2>3, <2>4, DoneJobs
  <2>6. /\ pc' \in [Server -> {"idle", "hold", "compute", "match", "issue", "commit", "pop"}]
        /\ job' \in [Server -> Job] /\ snap' \in [Server -> ParentState \cup {None}]
    BY <2>4, DoneType
  <2>7. \A m \in Nonce : challenge'[m] # None /\ challenge'[m].kind = "authentication"
                            => preview'[m] # None
    BY <2>3, <2>4 DEF TypeInv, TypeOK, durable
  <2>8. TypeOK'
    BY <2>3, <2>4, <2>6, <2>7 DEF TypeInv, TypeOK, outside, world, durable
  <2>9. Finite'
    BY <2>4 DEF TypeInv, Finite
  <2> QED
    BY <2>5, <2>8, <2>9 DEF TypeInv
<1> QED
  BY <1>1, <1>2, <1>3

LEMMA OptionsType ==
  ASSUME TypeInv, NEW s \in Server,
         CheckOptions(s) \/ MatchOptions(s) \/ IssueChallenge(s) \/ IssueEnrolment(s)
  PROVE  TypeInv'
<1>1. CASE CheckOptions(s) \/ MatchOptions(s)
  <2>1. /\ pc' \in [Server -> {"idle", "hold", "compute", "match", "issue", "commit", "pop"}]
        /\ pc[s] # "idle" /\ job[s].op = "options" /\ pc'[s] \in {"match", "issue"}
        /\ \A r \in Server : r # s => pc'[r] = pc[r]
    BY <1>1 DEF CheckOptions, MatchOptions, Goto, TypeInv, TypeOK
  <2>2. UNCHANGED <<outside, world, durable, preview, boot, pending, job, snap>>
    BY <1>1 DEF CheckOptions, MatchOptions
  <2>3. TypeOK'
    BY <2>1, <2>2 DEF TypeInv, TypeOK, outside, world, durable
  <2>4. JobState' /\ Finite'
    BY <2>1, <2>2 DEF TypeInv, JobState, Finite
  <2> QED
    BY <2>3, <2>4 DEF TypeInv
<1>2. CASE IssueChallenge(s) \/ IssueEnrolment(s)
  <2>1. /\ Done(s) /\ UNCHANGED <<outside, world, decisions, credentials, preview, boot, pending>>
        /\ \E n \in Nonce, kind \in {"registration", "authentication"} :
             /\ challenge[n] = None
             /\ kind = "authentication" => preview[n] # None
             /\ challenge' = [challenge EXCEPT ![n] = Issued(kind)]
    <3>1. CASE IssueChallenge(s)
      BY <3>1 DEF IssueChallenge, TypeInv, JobState
    <3>2. CASE IssueEnrolment(s)
      BY <3>2 DEF IssueEnrolment, Fresh
    <3> QED
      BY <1>2, <3>1, <3>2
  <2>2. PICK n \in Nonce, kind \in {"registration", "authentication"} :
             /\ challenge[n] = None
             /\ kind = "authentication" => preview[n] # None
             /\ challenge' = [challenge EXCEPT ![n] = Issued(kind)]
    BY <2>1
  <2>3. Issued(kind) \in ChallengeRecord /\ Issued(kind).kind = kind
    BY DEF Issued, ChallengeRecord, TypeInv, TypeOK
  <2>4. challenge' \in [Nonce -> ChallengeRecord \cup {None}]
        /\ \A m \in Nonce : challenge'[m] # None /\ challenge'[m].kind = "authentication"
                            => preview'[m] # None
    BY <2>1, <2>2, <2>3 DEF TypeInv, TypeOK
  <2>5. /\ pc' \in [Server -> {"idle", "hold", "compute", "match", "issue", "commit", "pop"}]
        /\ job' \in [Server -> Job] /\ snap' \in [Server -> ParentState \cup {None}]
    BY <2>1, DoneType
  <2>6. TypeOK'
    BY <2>1, <2>4, <2>5 DEF TypeInv, TypeOK, outside, world
  <2>7. JobState'
    BY <2>1, DoneJobs
  <2>8. Finite'
    BY <2>1 DEF TypeInv, Finite
  <2> QED
    BY <2>6, <2>7, <2>8 DEF TypeInv
<1> QED
  BY <1>1, <1>2

LEMMA RegisterType ==
  ASSUME TypeInv, NEW s \in Server, Register(s)
  PROVE  TypeInv'
<1>1. job[s] \in Job /\ job[s].nonce \in Nonce /\ job[s].cred \in Cred /\ job[s].count \in Count
  BY DEF Register, TypeInv, TypeOK, JobState, Job
<1>2. /\ Done(s) /\ UNCHANGED <<outside, world, decisions, preview, boot, pending>>
      /\ Consumable(job[s].nonce, "registration") /\ Consume(job[s].nonce)
      /\ credentials' = [credentials EXCEPT ![job[s].cred] = @ \cup {job[s].count}]
  BY DEF Register, Enrol, PutCredential
<1>3. /\ challenge' \in [Nonce -> ChallengeRecord \cup {None}]
      /\ \A m \in Nonce : challenge'[m] # None =>
           challenge[m] # None /\ challenge'[m].kind = challenge[m].kind
  BY <1>1, <1>2, ConsumeType
<1>4. credentials' \in [Cred -> SUBSET Count]
  BY <1>1, <1>2 DEF TypeInv, TypeOK
<1>5. /\ pc' \in [Server -> {"idle", "hold", "compute", "match", "issue", "commit", "pop"}]
      /\ job' \in [Server -> Job] /\ snap' \in [Server -> ParentState \cup {None}]
  BY <1>2, DoneType
<1>6. TypeOK'
  BY <1>2, <1>3, <1>4, <1>5 DEF TypeInv, TypeOK, outside, world
<1>7. JobState'
  BY <1>2, DoneJobs
<1>8. Finite'
  BY <1>2 DEF TypeInv, Finite
<1> QED
  BY <1>6, <1>7, <1>8 DEF TypeInv

(* What the transaction of apply_decision does to the shared state. *)
Applied(n, c, k) ==
    /\ preview[n] \in Payload
    /\ preview[n].parent = Parent /\ Open(preview[n].subject)
    /\ preview[n].view = Material(preview[n].subject)
    /\ Material(preview[n].subject) \in Views
    /\ Consumable(n, "authentication") /\ Consume(n)
    /\ CounterAccepted(c, k)
    /\ credentials' = [credentials EXCEPT ![c] = @ \cup {k}]
    /\ decisions' = Append(decisions, [nonce |-> n, view |-> Material(preview[n].subject),
                                       cred |-> c, count |-> k])
    /\ closed' = closed \cup ({preview[n].subject} \ Plan)
    /\ UNCHANGED <<outside, config, store, edits, preview, boot, pending, job, snap>>

LEMMA ApplyShape ==
  ASSUME TypeInv, NEW s \in Server, ApplyDecision(s)
  PROVE  \E n \in Nonce, c \in Cred, k \in Count : Applied(n, c, k)
<1>1. /\ job[s] \in Job /\ job[s].nonce \in Nonce /\ job[s].cred \in Cred /\ job[s].count \in Count
      /\ preview[job[s].nonce] # None
  BY DEF ApplyDecision, TypeInv, TypeOK, JobState, Job
<1>2. preview[job[s].nonce] \in Payload
  BY <1>1 DEF TypeInv, TypeOK
<1>3. Material(preview[job[s].nonce].subject) \in Views
  BY <1>2, SubjectAssumption DEF Payload, Material, TypeInv, TypeOK
<1>4. /\ Expected(s, preview[job[s].nonce], Parent)
      /\ Consumable(job[s].nonce, "authentication") /\ Consume(job[s].nonce)
      /\ CounterAccepted(job[s].cred, job[s].count)
      /\ credentials' = [credentials EXCEPT ![job[s].cred] = @ \cup {job[s].count}]
      /\ decisions' = Append(decisions,
           [nonce |-> job[s].nonce, view |-> Material(preview[job[s].nonce].subject),
            cred |-> job[s].cred, count |-> job[s].count])
      /\ closed' = closed \cup ({preview[job[s].nonce].subject} \ Plan)
      /\ UNCHANGED <<outside, config, store, edits, preview, boot, pending, job, snap>>
  BY DEF ApplyDecision, Verify, PutCredential, Dispatch
<1>5. Applied(job[s].nonce, job[s].cred, job[s].count)
  BY <1>2, <1>3, <1>4 DEF Expected, Applied
<1> QED
  BY <1>1, <1>5

LEMMA ApplyType ==
  ASSUME TypeInv, NEW s \in Server, ApplyDecision(s)
  PROVE  TypeInv'
<1>0. PICK n \in Nonce, c \in Cred, k \in Count : Applied(n, c, k)
  BY ApplyShape
<1>1. /\ preview[n] \in Payload
      /\ Material(preview[n].subject) \in Views
      /\ Consumable(n, "authentication") /\ Consume(n)
      /\ credentials' = [credentials EXCEPT ![c] = @ \cup {k}]
      /\ decisions' = Append(decisions, [nonce |-> n, view |-> Material(preview[n].subject),
                                         cred |-> c, count |-> k])
      /\ closed' = closed \cup ({preview[n].subject} \ Plan)
      /\ UNCHANGED <<outside, config, store, edits, preview, boot, pending, job, snap>>
  BY <1>0 DEF Applied
<1>2. /\ challenge' \in [Nonce -> ChallengeRecord \cup {None}]
      /\ \A m \in Nonce : challenge'[m] # None =>
           challenge[m] # None /\ challenge'[m].kind = challenge[m].kind
  BY <1>1, ConsumeType
<1>3. credentials' \in [Cred -> SUBSET Count]
  BY <1>1 DEF TypeInv, TypeOK
<1>4. decisions' \in Seq(Decision)
  <2>1. [nonce |-> n, view |-> Material(preview[n].subject), cred |-> c, count |-> k] \in Decision
    BY <1>1 DEF Decision
  <2> QED
    BY <1>1, <2>1 DEF TypeInv, TypeOK
<1>5. closed' \subseteq Case \cup Question
  BY <1>1 DEF TypeInv, TypeOK, Payload, Subject
<1>6. /\ pc' \in [Server -> {"idle", "hold", "compute", "match", "issue", "commit", "pop"}]
      /\ pc[s] = "commit" /\ job[s].op = "apply" /\ pc'[s] = "pop"
      /\ \A r \in Server : r # s => pc'[r] = pc[r]
  BY DEF ApplyDecision, Goto, TypeInv, TypeOK
<1>7. TypeOK'
  BY <1>1, <1>2, <1>3, <1>4, <1>5, <1>6 DEF TypeInv, TypeOK, outside
<1>8. JobState' /\ Finite'
  BY <1>1, <1>6 DEF TypeInv, JobState, Finite
<1> QED
  BY <1>7, <1>8 DEF TypeInv

LEMMA EnvironmentType ==
  ASSUME TypeInv, Tick \/ Edit \/ (\E n \in Nonce, c \in Cred : Sign(n, c)) \/ UNCHANGED vars
  PROVE  TypeInv'
<1>1. UNCHANGED <<durable, pc, job, snap, preview, boot, pending>>
  BY DEF Tick, Edit, Sign, vars, durable
<1>2. /\ JobState' /\ Finite'
      /\ pc' \in [Server -> {"idle", "hold", "compute", "match", "issue", "commit", "pop"}]
      /\ job' \in [Server -> Job] /\ snap' \in [Server -> ParentState \cup {None}]
      /\ preview' \in [Nonce -> Payload \cup {None}] /\ boot' \in [Server -> {Settings[g] : g \in Config}]
      /\ pending' \in [Server -> SUBSET [question : Question, at : Time]]
      /\ \A s \in Server : Cardinality(pending'[s]) <= MaxPending
  BY <1>1, QuietType
<1>3. clock' \in Time /\ config' \in Config /\ store' \in Store /\ edits' \in 0 .. MaxEdits
      /\ closed' \subseteq Case \cup Question
  <2>1. CASE Tick
    BY <2>1, BoundsAssumption DEF Tick, TypeInv, TypeOK, Time, world
  <2>2. CASE Edit
    BY <2>2, BoundsAssumption DEF Edit, TypeInv, TypeOK, outside
  <2>3. CASE (\E n \in Nonce, c \in Cred : Sign(n, c)) \/ UNCHANGED vars
    BY <2>3 DEF Sign, TypeInv, TypeOK, world, vars
  <2> QED
    BY <2>1, <2>2, <2>3
<1>4. responses' \subseteq [nonce : Nonce, cred : Cred, count : Count]
  <2>1. ASSUME NEW n \in Nonce, NEW c \in Cred, Sign(n, c)
        PROVE  responses' \subseteq [nonce : Nonce, cred : Cred, count : Count]
    <3>1. PICK k \in Count : responses' = responses \cup {[nonce |-> n, cred |-> c, count |-> k]}
      BY <2>1, BoundsAssumption DEF Sign, Count
    <3> QED
      BY <3>1 DEF TypeInv, TypeOK
  <2>2. CASE Tick \/ Edit \/ UNCHANGED vars
    BY <2>2 DEF Tick, Edit, outside, vars, TypeInv, TypeOK
  <2> QED
    BY <2>1, <2>2
<1>5. TypeOK'
  BY <1>1, <1>2, <1>3, <1>4 DEF TypeInv, TypeOK, durable
<1> QED
  BY <1>2, <1>5 DEF TypeInv

LEMMA TypeStep == TypeInv /\ [Next]_vars => TypeInv'
<1> SUFFICES ASSUME TypeInv, [Next]_vars PROVE TypeInv'
  OBVIOUS
<1>1. ASSUME NEW s \in Server, Handle(s) PROVE TypeInv'
  BY <1>1, PreviewType, OptionsType, RegisterType, ApplyType, FinishType DEF Handle
<1> QED
  BY <1>1, RequestType, FinishType, EnvironmentType DEF Next

(* Every ledger and every request in progress keeps its type, no server    *)
(* holds more private answers than _MAX_PENDING_ANSWERS, and no challenge  *)
(* is issued for a payload nobody was shown.                               *)
THEOREM TypeCorrect == Spec => []TypeOK
<1>1. TypeInv => TypeOK
  BY DEF TypeInv
<1> QED
  BY <1>1, TypeInit, TypeStep, PTL DEF Spec


-----------------------------------------------------------------------------
(* The decisions.                                                          *)

Spent(n) == challenge[n] # None /\ challenge[n].kind = "authentication" /\ challenge[n].used

(* The i-th decision was previewed when i - 1 had been applied, consumed   *)
(* its own challenge, and left its mark on the ledgers.                    *)
Recorded(i) ==
  LET d == decisions[i] IN
    /\ preview[d.nonce] # None
    /\ preview[d.nonce].parent.decisions = i - 1
    /\ preview[d.nonce].view = d.view
    /\ Spent(d.nonce)
    /\ d.count \in credentials[d.cred]
    /\ preview[d.nonce].subject \notin Plan => preview[d.nonce].subject \in closed

History == \A i \in 1 .. Len(decisions) : Recorded(i)
NoneBurnt == \A n \in Nonce : Spent(n) => \E i \in 1 .. Len(decisions) : decisions[i].nonce = n

DecisionInv == TypeInv /\ History /\ NoneBurnt /\ CountersIncrease /\ DecidedOnce

LEMMA DecisionInit == Init => DecisionInv
<1> SUFFICES ASSUME Init PROVE DecisionInv
  OBVIOUS
<1>1. TypeInv
  BY TypeInit
<1>2. Len(decisions) = 0 /\ \A n \in Nonce : challenge[n] = None
  BY DEF Init
<1>3. 1 .. Len(decisions) = {}
  BY <1>2
<1> QED
  BY <1>1, <1>2, <1>3 DEF DecisionInv, History, NoneBurnt, Spent, CountersIncrease, DecidedOnce

(* Every step other than the transaction of apply_decision leaves the      *)
(* decisions alone, and what they rest on.                                 *)
LEMMA OtherSteps ==
  ASSUME TypeInv, [Next]_vars, \A s \in Server : ~ApplyDecision(s)
  PROVE  /\ decisions' = decisions
         /\ \A n \in Nonce : preview[n] # None => preview'[n] = preview[n]
         /\ closed \subseteq closed'
         /\ \A c \in Cred : credentials[c] \subseteq credentials'[c]
         /\ \A n \in Nonce : Spent(n)' <=> Spent(n)
<1> DEFINE Goal == /\ decisions' = decisions
                   /\ \A n \in Nonce : preview[n] # None => preview'[n] = preview[n]
                   /\ closed \subseteq closed'
                   /\ \A c \in Cred : credentials[c] \subseteq credentials'[c]
                   /\ \A n \in Nonce : Spent(n)' <=> Spent(n)
<1>1. ASSUME UNCHANGED <<durable, preview>>, closed \subseteq closed' PROVE Goal
  BY <1>1 DEF durable, Spent
<1>2. CASE Tick \/ Edit \/ (\E n \in Nonce, c \in Cred : Sign(n, c)) \/ UNCHANGED vars
  BY <1>1, <1>2 DEF Tick, Edit, Sign, vars, world, durable
<1>3. ASSUME NEW s \in Server, Request(s) \/ Restart(s) PROVE Goal
  BY <1>1, <1>3 DEF Request, Restart, BeginPreview, BeginOptions, BeginEnrolment, BeginResponse,
     Forget, Capture, world
<1>4. ASSUME NEW s \in Server,
             \/ HoldAnswer(s) \/ ComputePreview(s) \/ CheckOptions(s) \/ MatchOptions(s)
             \/ PopAnswer(s) \/ Fail(s)
      PROVE  Goal
  BY <1>1, <1>4 DEF HoldAnswer, ComputePreview, CheckOptions, MatchOptions, PopAnswer, Fail, world
<1>5. ASSUME NEW s \in Server, ShowPreview(s) PROVE Goal
  <2>1. \A n \in Nonce : preview[n] # None => preview'[n] = preview[n]
    BY <1>5 DEF ShowPreview, Fresh, TypeInv, TypeOK
  <2> QED
    BY <1>5, <2>1 DEF ShowPreview, Spent, durable, world
<1>6. ASSUME NEW s \in Server, IssueChallenge(s) \/ IssueEnrolment(s) PROVE Goal
  <2>1. /\ UNCHANGED <<world, decisions, credentials, preview>>
        /\ \E n \in Nonce, kind \in {"registration", "authentication"} :
             challenge[n] = None /\ challenge' = [challenge EXCEPT ![n] = Issued(kind)]
    <3>1. CASE IssueChallenge(s)
      BY <3>1 DEF IssueChallenge, TypeInv, JobState
    <3>2. CASE IssueEnrolment(s)
      BY <3>2 DEF IssueEnrolment, Fresh
    <3> QED
      BY <1>6, <3>1, <3>2
  <2>2. PICK n \in Nonce, kind \in {"registration", "authentication"} :
             challenge[n] = None /\ challenge' = [challenge EXCEPT ![n] = Issued(kind)]
    BY <2>1
  <2>3. challenge'[n] = Issued(kind) /\ Issued(kind).used = FALSE
        /\ \A m \in Nonce : m # n => challenge'[m] = challenge[m]
    BY <2>2 DEF TypeInv, TypeOK, Issued
  <2>4. \A m \in Nonce : Spent(m)' <=> Spent(m)
    BY <2>2, <2>3 DEF Spent
  <2> QED
    BY <2>1, <2>4 DEF world
<1>7. ASSUME NEW s \in Server, Register(s) PROVE Goal
  <2>1. job[s].nonce \in Nonce /\ job[s].cred \in Cred
    BY <1>7 DEF Register, TypeInv, JobState
  <2>2. /\ UNCHANGED <<world, decisions, preview>> /\ credentials[job[s].cred] = {}
        /\ Consumable(job[s].nonce, "registration") /\ Consume(job[s].nonce)
        /\ credentials' = [credentials EXCEPT ![job[s].cred] = @ \cup {job[s].count}]
    BY <1>7 DEF Register, Enrol, PutCredential
  <2>3. /\ \A m \in Nonce : m # job[s].nonce => challenge'[m] = challenge[m]
        /\ challenge'[job[s].nonce].kind = "registration"
        /\ challenge[job[s].nonce].kind = "registration"
    BY <2>1, <2>2, ConsumeType DEF Consumable
  <2>4. \A m \in Nonce : Spent(m)' <=> Spent(m)
    BY <2>3 DEF Spent
  <2>5. \A c \in Cred : credentials[c] \subseteq credentials'[c]
    BY <2>2 DEF TypeInv, TypeOK
  <2> QED
    BY <2>2, <2>4, <2>5 DEF world
<1> QED
  BY <1>2, <1>3, <1>4, <1>5, <1>6, <1>7 DEF Next, Handle

(* One more decision. *)
LEMMA ApplyStep ==
  ASSUME DecisionInv, NEW s \in Server, ApplyDecision(s)
  PROVE  DecisionInv'
<1>0. TypeInv /\ TypeInv'
  BY ApplyType DEF DecisionInv
<1>p. PICK n \in Nonce, c \in Cred, k \in Count : Applied(n, c, k)
  BY <1>0, ApplyShape
<1>1. /\ preview[n] \in Payload
      /\ preview[n].parent = Parent /\ Open(preview[n].subject)
      /\ preview[n].view = Material(preview[n].subject)
      /\ Consumable(n, "authentication") /\ Consume(n)
      /\ CounterAccepted(c, k)
      /\ credentials' = [credentials EXCEPT ![c] = @ \cup {k}]
      /\ decisions' = Append(decisions, [nonce |-> n, view |-> Material(preview[n].subject),
                                         cred |-> c, count |-> k])
      /\ closed' = closed \cup ({preview[n].subject} \ Plan)
      /\ UNCHANGED <<outside, config, store, edits, preview, boot, pending, job, snap>>
  BY <1>p DEF Applied
<1>2. Len(decisions) \in Nat /\ Len(decisions') = Len(decisions) + 1
      /\ \A i \in 1 .. Len(decisions) : decisions'[i] = decisions[i] /\ decisions[i] \in Decision
  BY <1>0, <1>1 DEF TypeInv, TypeOK
<1>3. LET d == decisions'[Len(decisions')] IN
        d.nonce = n /\ d.view = preview[n].view /\ d.cred = c /\ d.count = k
  BY <1>0, <1>1, <1>2 DEF TypeInv, TypeOK
<1>4. /\ Spent(n)' /\ ~Spent(n)
      /\ \A m \in Nonce : m # n => (Spent(m)' <=> Spent(m))
  BY <1>0, <1>1, ConsumeType DEF Spent, Consumable
<1>5. \A e \in Cred : credentials'[e] = IF e = c THEN credentials[e] \cup {k} ELSE credentials[e]
  BY <1>0, <1>1 DEF TypeInv, TypeOK
<1>6. \A i \in 1 .. Len(decisions) : decisions[i].nonce \in Nonce /\ decisions[i].cred \in Cred
                                     /\ decisions[i].count \in Count
  BY <1>2 DEF Decision
<1>7. ASSUME NEW i \in 1 .. Len(decisions') PROVE Recorded(i)'
  <2>1. CASE i \in 1 .. Len(decisions)
    <3>1. Recorded(i)
      BY <2>1 DEF DecisionInv, History
    <3>2. decisions'[i] = decisions[i] /\ decisions[i].nonce \in Nonce /\ decisions[i].cred \in Cred
      BY <1>2, <1>6, <2>1
    <3>3. Spent(decisions[i].nonce)'
      BY <1>4, <3>1, <3>2 DEF Recorded
    <3> QED
      BY <1>1, <1>5, <3>1, <3>2, <3>3 DEF Recorded, Spent
  <2>2. CASE i = Len(decisions')
    <3>1. Parent.decisions = Len(decisions) /\ preview[n] # None
      BY <1>1, RecordAssumption DEF Parent
    <3>2. preview[n].parent.decisions = i - 1
      BY <1>1, <1>2, <2>2, <3>1
    <3>3. k \in credentials'[c]
      BY <1>5
    <3>4. preview[n].subject \notin Plan => preview[n].subject \in closed'
      BY <1>1
    <3> QED
      BY <1>1, <1>3, <1>4, <2>2, <3>1, <3>2, <3>3, <3>4 DEF Recorded, Spent
  <2> QED
    BY <1>2, <2>1, <2>2
<1>8. History'
  BY <1>7 DEF History
<1>9. NoneBurnt'
  <2> SUFFICES ASSUME NEW m \in Nonce, Spent(m)'
               PROVE  \E i \in 1 .. Len(decisions') : decisions'[i].nonce = m
    BY DEF NoneBurnt
  <2>1. CASE m = n
    BY <1>2, <1>3, <2>1
  <2>2. CASE m # n
    <3>1. PICK i \in 1 .. Len(decisions) : decisions[i].nonce = m
      BY <1>4, <2>2 DEF DecisionInv, NoneBurnt
    <3> QED
      BY <1>2, <3>1
  <2> QED
    BY <2>1, <2>2
<1>10. CountersIncrease'
  <2> SUFFICES ASSUME NEW i \in 1 .. Len(decisions'), NEW j \in 1 .. Len(decisions'),
                      i < j, decisions'[i].cred = decisions'[j].cred
               PROVE  \/ decisions'[i].count < decisions'[j].count
                      \/ decisions'[i].count = 0 /\ decisions'[j].count = 0
    BY DEF CountersIncrease
  <2>1. i \in 1 .. Len(decisions) /\ decisions'[i] = decisions[i]
    BY <1>2
  <2>2. CASE j \in 1 .. Len(decisions)
    BY <1>2, <2>1, <2>2 DEF DecisionInv, CountersIncrease
  <2>3. CASE j = Len(decisions')
    <3>1. decisions'[j].count = k /\ decisions[i].cred = c
      BY <1>3, <2>1, <2>3
    <3>2. decisions[i].count \in credentials[c]
      BY <2>1, <3>1 DEF DecisionInv, History, Recorded
    <3> QED
      BY <1>1, <2>1, <3>1, <3>2 DEF CounterAccepted
  <2> QED
    BY <1>2, <2>2, <2>3
<1>11. DecidedOnce'
  <2>1. ASSUME NEW i \in 1 .. Len(decisions), preview[decisions[i].nonce].subject \notin Plan
        PROVE  preview[decisions[i].nonce].subject # preview[n].subject
    BY <1>1, <2>1 DEF DecisionInv, History, Recorded, Open
  <2> SUFFICES ASSUME NEW i \in 1 .. Len(decisions'), NEW j \in 1 .. Len(decisions'),
                      preview[decisions'[i].nonce].subject = preview[decisions'[j].nonce].subject,
                      preview[decisions'[i].nonce].subject \notin Plan
               PROVE  i = j
    BY <1>1 DEF DecidedOnce
  <2>2. CASE i \in 1 .. Len(decisions) /\ j \in 1 .. Len(decisions)
    BY <1>2, <2>2 DEF DecisionInv, DecidedOnce
  <2>3. CASE i = Len(decisions') /\ j \in 1 .. Len(decisions)
    BY <1>2, <1>3, <2>1, <2>3
  <2>4. CASE j = Len(decisions') /\ i \in 1 .. Len(decisions)
    BY <1>2, <1>3, <2>1, <2>4
  <2> QED
    BY <1>2, <2>2, <2>3, <2>4
<1> QED
  BY <1>0, <1>8, <1>9, <1>10, <1>11 DEF DecisionInv

LEMMA DecisionStep == DecisionInv /\ [Next]_vars => DecisionInv'
<1> SUFFICES ASSUME DecisionInv, [Next]_vars PROVE DecisionInv'
  OBVIOUS
<1>1. CASE \E s \in Server : ApplyDecision(s)
  BY <1>1, ApplyStep
<1>2. CASE \A s \in Server : ~ApplyDecision(s)
  <2>0. TypeInv /\ TypeInv'
    BY TypeStep DEF DecisionInv
  <2>1. /\ decisions' = decisions
        /\ \A n \in Nonce : preview[n] # None => preview'[n] = preview[n]
        /\ closed \subseteq closed'
        /\ \A c \in Cred : credentials[c] \subseteq credentials'[c]
        /\ \A n \in Nonce : Spent(n)' <=> Spent(n)
    BY <1>2, <2>0, OtherSteps
  <2>2. \A i \in 1 .. Len(decisions) :
          /\ decisions[i].nonce \in Nonce /\ decisions[i].cred \in Cred
          /\ preview'[decisions[i].nonce] = preview[decisions[i].nonce]
          /\ preview[decisions[i].nonce] # None
    <3>1. \A i \in 1 .. Len(decisions) : decisions[i] \in Decision
      BY <2>0 DEF TypeInv, TypeOK
    <3> QED
      BY <2>1, <3>1 DEF DecisionInv, History, Recorded, Decision
  <2>3. ASSUME NEW i \in 1 .. Len(decisions) PROVE Recorded(i)'
    <3>1. Recorded(i)
      BY DEF DecisionInv, History
    <3>2. Spent(decisions[i].nonce)'
      BY <2>1, <2>2, <3>1 DEF Recorded
    <3> QED
      BY <2>1, <2>2, <3>1, <3>2 DEF Recorded, Spent
  <2>4. History'
    BY <2>1, <2>3 DEF History
  <2>5. NoneBurnt'
    BY <2>1 DEF DecisionInv, NoneBurnt
  <2>6. CountersIncrease'
    BY <2>1 DEF DecisionInv, CountersIncrease
  <2>7. DecidedOnce'
    BY <2>1, <2>2 DEF DecisionInv, DecidedOnce
  <2> QED
    BY <2>0, <2>4, <2>5, <2>6, <2>7 DEF DecisionInv
<1> QED
  BY <1>1, <1>2

LEMMA DecisionInvariant == Spec => []DecisionInv
<1> QED
  BY DecisionInit, DecisionStep, PTL DEF Spec

(* However many servers share a project and however often a signed         *)
(* response is delivered, of the decisions previewed on one state at most  *)
(* one is applied.                                                         *)
THEOREM OneDecisionPerStateCorrect == Spec => []OneDecisionPerState
<1>1. DecisionInv => OneDecisionPerState
  <2> SUFFICES ASSUME DecisionInv, NEW i \in 1 .. Len(decisions), NEW j \in 1 .. Len(decisions),
                      preview[decisions[i].nonce].parent = preview[decisions[j].nonce].parent
               PROVE  i = j
    BY DEF OneDecisionPerState
  <2>1. Recorded(i) /\ Recorded(j)
    BY DEF DecisionInv, History
  <2>2. i - 1 = j - 1
    BY <2>1 DEF Recorded
  <2> QED
    BY <2>2
<1> QED
  BY <1>1, DecisionInvariant, PTL

(* A challenge is consumed exactly with the one decision it was issued for. *)
THEOREM ConsumedWithEffectCorrect == Spec => []ConsumedWithEffect
<1>1. DecisionInv => ConsumedWithEffect
  <2> SUFFICES ASSUME DecisionInv, NEW n \in Nonce
               PROVE  /\ Spent(n) <=> \E i \in 1 .. Len(decisions) : decisions[i].nonce = n
                      /\ \A i, j \in 1 .. Len(decisions) :
                           decisions[i].nonce = n /\ decisions[j].nonce = n => i = j
    BY DEF ConsumedWithEffect, Spent
  <2>1. \A i \in 1 .. Len(decisions) :
          Spent(decisions[i].nonce) /\ preview[decisions[i].nonce].parent.decisions = i - 1
    BY DEF DecisionInv, History, Recorded
  <2>2. \A i, j \in 1 .. Len(decisions) : i - 1 = j - 1 => i = j
    OBVIOUS
  <2>3. \A i, j \in 1 .. Len(decisions) : decisions[i].nonce = n /\ decisions[j].nonce = n => i = j
    BY <2>1, <2>2
  <2> QED
    BY <2>1, <2>3 DEF DecisionInv, NoneBurnt
<1> QED
  BY <1>1, DecisionInvariant, PTL

(* The counters accepted from an authenticator increase. *)
THEOREM CountersIncreaseCorrect == Spec => []CountersIncrease
<1>1. DecisionInv => CountersIncrease
  BY DEF DecisionInv
<1> QED
  BY <1>1, DecisionInvariant, PTL

(* No case, proposal or question is decided twice. *)
THEOREM DecidedOnceCorrect == Spec => []DecidedOnce
<1>1. DecisionInv => DecidedOnce
  BY DEF DecisionInv
<1> QED
  BY <1>1, DecisionInvariant, PTL

(* A decision is applied to the content its preview showed. *)
THEOREM AppliedAsShownCorrect == Spec => []AppliedAsShown
<1>1. DecisionInv => AppliedAsShown
  BY DEF DecisionInv, History, Recorded, AppliedAsShown
<1> QED
  BY <1>1, DecisionInvariant, PTL
=============================================================================
