--------------------------- MODULE SyncRun_proofs ---------------------------
(***************************************************************************)
(* Proofs about SyncRun, for any number of processes, files and contents.  *)
(***************************************************************************)
EXTENDS SyncRun, SequenceTheorems, FiniteSetTheorems, TLAPS

-----------------------------------------------------------------------------
(* Sequences and the sets of their elements.                               *)

LEMMA SetOf ==
  ASSUME NEW S, NEW s \in Seq(S)
  PROVE  /\ ToSet(s) \subseteq S
         /\ \A i \in 1 .. Len(s) : s[i] \in ToSet(s)
         /\ \A e \in ToSet(s) : \E i \in 1 .. Len(s) : s[i] = e
BY LenProperties DEF ToSet

LEMMA AppendSet ==
  ASSUME NEW S, NEW s \in Seq(S), NEW e \in S
  PROVE  /\ ToSet(Append(s, e)) = ToSet(s) \cup {e}
         /\ IsInjective(s) /\ e \notin ToSet(s) => IsInjective(Append(s, e))
<1> DEFINE t == Append(s, e)  n == Len(s)
<1>1. /\ n \in Nat /\ DOMAIN s = 1 .. n /\ DOMAIN t = 1 .. n + 1
      /\ \A i \in 1 .. n : t[i] = s[i]
      /\ t[n + 1] = e
  BY AppendProperties, LenProperties
<1> HIDE DEF t, n
<1>2. \A i \in 1 .. n + 1 : i \in 1 .. n \/ i = n + 1
  BY <1>1
<1>3. ToSet(t) = ToSet(s) \cup {e}
  BY <1>1, <1>2 DEF ToSet
<1>4. IsInjective(s) /\ e \notin ToSet(s) => IsInjective(t)
  BY <1>1, <1>2 DEF ToSet, IsInjective
<1> QED BY <1>3, <1>4 DEF t

LEMMA ConcatSet ==
  ASSUME NEW S, NEW s \in Seq(S), NEW t \in Seq(S)
  PROVE  /\ ToSet(s \o t) = ToSet(s) \cup ToSet(t)
         /\ (IsInjective(s) /\ IsInjective(t) /\ ToSet(s) \cap ToSet(t) = {})
              => IsInjective(s \o t)
<1> DEFINE u == s \o t  m == Len(s)  n == Len(t)
<1>1. /\ m \in Nat /\ n \in Nat /\ DOMAIN s = 1 .. m /\ DOMAIN t = 1 .. n
      /\ DOMAIN u = 1 .. m + n
      /\ \A i \in 1 .. m : u[i] = s[i]
      /\ \A i \in 1 .. n : u[m + i] = t[i]
  BY ConcatProperties, LenProperties
<1> HIDE DEF u, m, n
<1>2. /\ \A i \in 1 .. m + n : i \in 1 .. m \/ \E j \in 1 .. n : i = m + j
      /\ \A i \in 1 .. m : i \in 1 .. m + n
      /\ \A i \in 1 .. n : m + i \in 1 .. m + n
  <2>1. ASSUME NEW i \in 1 .. m + n, i \notin 1 .. m PROVE i - m \in 1 .. n /\ i = m + (i - m)
    BY <1>1, <2>1
  <2> QED BY <1>1, <2>1
<1>3. ToSet(u) \subseteq ToSet(s) \cup ToSet(t)
  <2>1. ASSUME NEW i \in 1 .. m + n PROVE u[i] \in ToSet(s) \cup ToSet(t)
    <3>1. CASE i \in 1 .. m
      BY <3>1, <1>1 DEF ToSet
    <3>2. CASE i \notin 1 .. m
      <4>1. PICK j \in 1 .. n : i = m + j
        BY <3>2, <2>1, <1>2
      <4> QED BY <4>1, <1>1 DEF ToSet
    <3> QED BY <3>1, <3>2
  <2> QED BY <2>1, <1>1 DEF ToSet
<1>4. ToSet(s) \cup ToSet(t) \subseteq ToSet(u)
  <2>1. \A i \in 1 .. m : s[i] \in ToSet(u)
    BY <1>1, <1>2 DEF ToSet
  <2>2. \A i \in 1 .. n : t[i] \in ToSet(u)
    BY <1>1, <1>2 DEF ToSet
  <2> QED BY <1>1, <2>1, <2>2 DEF ToSet
<1>5. ASSUME IsInjective(s), IsInjective(t), ToSet(s) \cap ToSet(t) = {} PROVE IsInjective(u)
  <2>1. ASSUME NEW i \in 1 .. m + n, NEW j \in 1 .. m + n, u[i] = u[j] PROVE i = j
    <3>1. \A k \in 1 .. m : u[k] \in ToSet(s)
      BY <1>1 DEF ToSet
    <3>2. \A k \in 1 .. n : u[m + k] \in ToSet(t)
      BY <1>1 DEF ToSet
    <3>3. CASE i \in 1 .. m /\ j \in 1 .. m
      BY <3>3, <2>1, <1>1, <1>5 DEF IsInjective
    <3>4. CASE i \in 1 .. m /\ j \notin 1 .. m
      BY <3>4, <2>1, <1>2, <1>5, <3>1, <3>2
    <3>5. CASE i \notin 1 .. m /\ j \in 1 .. m
      BY <3>5, <2>1, <1>2, <1>5, <3>1, <3>2
    <3>6. CASE i \notin 1 .. m /\ j \notin 1 .. m
      <4>1. PICK k \in 1 .. n, l \in 1 .. n : i = m + k /\ j = m + l
        BY <3>6, <1>2
      <4>2. t[k] = t[l]
        BY <4>1, <2>1, <1>1
      <4> QED BY <4>1, <4>2, <1>1, <1>5 DEF IsInjective
    <3> QED BY <3>3, <3>4, <3>5, <3>6
  <2> QED BY <2>1, <1>1 DEF IsInjective
<1> QED BY <1>3, <1>4, <1>5 DEF u

LEMMA SubSeqSet ==
  ASSUME NEW S, NEW s \in Seq(S), NEW m \in Nat \ {0}
  PROVE  /\ SubSeq(s, m, Len(s)) \in Seq(S)
         /\ ToSet(SubSeq(s, m, Len(s))) \subseteq ToSet(s)
<1> DEFINE t == SubSeq(s, m, Len(s))
<1>1. /\ Len(s) \in Nat /\ DOMAIN s = 1 .. Len(s)
      /\ \A i \in 1 .. Len(s) : s[i] \in S
  BY LenProperties
<1>2. /\ t \in Seq(S) /\ Len(t) = IF m <= Len(s) THEN Len(s) - m + 1 ELSE 0
      /\ \A i \in 1 .. Len(s) - m + 1 : t[i] = s[m + i - 1]
  BY <1>1, SubSeqProperties
<1> HIDE DEF t
<1>3. DOMAIN t = 1 .. Len(t)
  BY <1>2, LenProperties
<1>4. ASSUME NEW i \in DOMAIN t PROVE t[i] \in ToSet(s)
  <2>1. i \in 1 .. Len(s) - m + 1 /\ m + i - 1 \in 1 .. Len(s)
    BY <1>1, <1>2, <1>3
  <2>2. t[i] = s[m + i - 1]
    BY <2>1, <1>2
  <2> QED BY <2>1, <2>2, <1>1 DEF ToSet
<1> QED BY <1>2, <1>4 DEF t, ToSet

LEMMA PrefixSet ==
  ASSUME NEW S, NEW s \in Seq(S), NEW t \in Seq(S), IsPrefix(s, t)
  PROVE  ToSet(s) \subseteq ToSet(t)
<1>1. /\ Len(s) \in Nat /\ Len(t) \in Nat /\ DOMAIN s = 1 .. Len(s) /\ DOMAIN t = 1 .. Len(t)
      /\ Len(s) <= Len(t) /\ \A i \in 1 .. Len(t) : t[i] \in S /\ \A j \in 1 .. Len(s) : s[j] \in S
  BY LenProperties DEF IsPrefix
<1>2. \A i \in 1 .. Len(s) : SubSeq(s, 1, Len(s))[i] = s[i]
  BY <1>1, SubSeqFull
<1>3. \A i \in 1 .. Len(s) : SubSeq(t, 1, Len(s))[i] = t[i]
  <2>1. /\ \A i \in 1 .. Len(s) : t[i] \in S
        /\ 1 \in Int /\ Len(s) \in Int /\ Len(s) - 1 + 1 = Len(s)
    BY <1>1
  <2>2. \A i \in 1 .. Len(s) : SubSeq(t, 1, Len(s))[i] = t[1 + i - 1]
    BY <2>1, SubSeqProperties
  <2> QED BY <2>2, <1>1
<1>4. \A i \in 1 .. Len(s) : s[i] = t[i] /\ i \in 1 .. Len(t)
  BY <1>1, <1>2, <1>3 DEF IsPrefix
<1> QED BY <1>1, <1>4 DEF ToSet

LEMMA PrefixConcat ==
  ASSUME NEW S, NEW s \in Seq(S), NEW t \in Seq(S)
  PROVE  IsPrefix(s, s \o t)
<1>1. /\ Len(s) \in Nat /\ Len(t) \in Nat /\ Len(s \o t) = Len(s) + Len(t) /\ s \o t \in Seq(S)
  BY ConcatProperties, LenProperties
<1>2. SubSeq(s \o t, 1, Len(s)) = SubSeq(s, 1, Len(s))
  <2>1. CASE s = <<>>
    <3>1. Len(s) = 0
      BY <2>1
    <3> QED BY <3>1, SubSeqEmpty
  <2>2. CASE s # <<>>
    <3>1. 1 \in 1 .. Len(s) /\ Len(s) \in 1 .. Len(s)
      BY <2>2, <1>1, EmptySeq
    <3> QED BY <3>1, SubSeqOfConcat1
  <2> QED BY <2>1, <2>2
<1> QED BY <1>1, <1>2 DEF IsPrefix

(* SetToSeq lists a finite set, each element once. *)
LEMMA ListSet ==
  ASSUME NEW S, IsFiniteSet(S)
  PROVE  /\ SetToSeq(S) \in Seq(S) /\ IsInjective(SetToSeq(S)) /\ ToSet(SetToSeq(S)) = S
<1> DEFINE n == Cardinality(S)  l == SetToSeq(S)
<1>1. n \in Nat /\ ExistsBijection(1 .. n, S)
  BY FS_CardinalityType
<1>2. \E f \in [1 .. n -> S] : IsInjective(f)
  BY <1>1 DEF ExistsBijection, Bijection, Injection
<1>3. l \in [1 .. n -> S] /\ IsInjective(l)
  BY <1>2 DEF SetToSeq
<1>4. l \in Seq(S)
  BY <1>1, <1>3, SeqDef
<1>5. l \in Injection(1 .. n, S)
  BY <1>3 DEF Injection
<1>6. IsFiniteSet(1 .. n) /\ Cardinality(1 .. n) = n
  BY <1>1, FS_Interval
<1>7. l \in Surjection(1 .. n, S)
  BY <1>1, <1>5, <1>6, FS_Injection
<1> QED BY <1>3, <1>4, <1>7 DEF Surjection, ToSet

LEMMA ToSetFinite == ASSUME NEW S, NEW s \in Seq(S) PROVE IsFiniteSet(ToSet(s))
<1>1. s \in Surjection(1 .. Len(s), ToSet(s))
  BY LenProperties DEF Surjection, ToSet
<1>2. IsFiniteSet(1 .. Len(s))
  BY LenProperties, FS_Interval
<1> QED BY <1>1, <1>2, FS_Surjection

LEMMA ImageFinite ==
  ASSUME NEW S, IsFiniteSet(S), NEW T, NEW f \in [S -> T]
  PROVE  IsFiniteSet({f[x] : x \in S})
<1>1. f \in Surjection(S, {f[x] : x \in S})
  BY DEF Surjection
<1> QED BY <1>1, FS_Surjection

-----------------------------------------------------------------------------
(* The type invariant, with what makes a fetched record an evidence and    *)
(* what the sequence of new cases can be listed from.                      *)
Raw == [id : Evidence, time : 0 .. MaxEdits]

Fetchable(p) ==
  /\ \A f \in todo[p] : manifest[p][f] # Absent
  /\ pc[p] = "associate" => raw[p] \in Raw

TypeInv == TypeOK /\ IsFiniteSet(graph.nodes) /\ \A p \in Proc : Fetchable(p)

Shared == <<source, edits, ledger, observedAt, checkpoint, graph, cases, batches>>

SharedOK ==
  /\ source \in [File -> [content : Contents \cup {Absent}, time : 0 .. MaxEdits]]
  /\ edits \in 0 .. MaxEdits
  /\ ledger \in Seq(Evidence)
  /\ observedAt \in [Evidence -> 0 .. MaxEdits]
  /\ checkpoint \in Checkpoint
  /\ graph \in [version : Nat, nodes : SUBSET Evidence] /\ IsFiniteSet(graph.nodes)
  /\ cases \in Seq(Observation)
  /\ batches \subseteq [new : SUBSET Evidence, old : SUBSET Evidence]

LocalOK ==
  /\ pc \in [Proc -> PCs]
  /\ prior \in [Proc -> Checkpoint]
  /\ manifest \in [Proc -> Manifest]
  /\ todo \in [Proc -> SUBSET File]
  /\ raw \in [Proc -> Raw \cup {NoRaw}]
  /\ delta \in [Proc -> Seq(Evidence)]
  /\ base \in [Proc -> Base]
  /\ \A p \in Proc : Fetchable(p)

LEMMA TypeSplit == /\ TypeInv <=> SharedOK /\ LocalOK
                   /\ TypeInv' <=> SharedOK' /\ LocalOK'
BY DEF TypeInv, TypeOK, SharedOK, LocalOK, Raw

LEMMA Nothing ==
  /\ NoFiles \in Manifest /\ NoCheckpoint \in Checkpoint /\ NoBase \in Base
  /\ \A f \in File : NoFiles[f] = Absent
  /\ NoCheckpoint.cursor = NoFiles /\ NoCheckpoint.consumed = <<>>
BY DEF NoFiles, NoCheckpoint, NoBase, Manifest, Checkpoint, Base

LEMMA TypeInit == Init => TypeInv
<1> SUFFICES ASSUME Init PROVE TypeInv
  OBVIOUS
<1>1. SharedOK
  BY Nothing, BoundsAssumption, FS_EmptySet DEF Init, SharedOK
<1>2. LocalOK
  BY Nothing DEF Init, LocalOK, Fetchable, PCs
<1> QED BY <1>1, <1>2, TypeSplit

LEMMA SharedSame == ASSUME SharedOK, UNCHANGED Shared PROVE SharedOK'
BY DEF SharedOK, Shared

LEMMA LocalSame ==
  ASSUME LocalOK, UNCHANGED <<pc, local>> PROVE LocalOK'
BY DEF LocalOK, local, Fetchable

LEMMA TypeLeave == ASSUME LocalOK, NEW p \in Proc, Leave(p) PROVE LocalOK'
<1>1. /\ pc' \in [Proc -> PCs] /\ prior' \in [Proc -> Checkpoint]
      /\ manifest' \in [Proc -> Manifest] /\ todo' \in [Proc -> SUBSET File]
      /\ raw' \in [Proc -> Raw \cup {NoRaw}] /\ delta' \in [Proc -> Seq(Evidence)]
      /\ base' \in [Proc -> Base]
  BY Nothing DEF LocalOK, Leave, Goto, PCs
<1>2. \A q \in Proc : Fetchable(q)'
  BY DEF LocalOK, Leave, Goto, Fetchable
<1> QED BY <1>1, <1>2 DEF LocalOK

(* A step of p that leaves what is to be fetched alone and does not end at *)
(* the association.                                                        *)
LEMMA TypeGoto ==
  ASSUME LocalOK, NEW p \in Proc, NEW label \in PCs \ {"associate"},
         Goto(p, label), UNCHANGED <<manifest, todo, raw>>,
         prior' \in [Proc -> Checkpoint], delta' \in [Proc -> Seq(Evidence)],
         base' \in [Proc -> Base]
  PROVE  LocalOK'
<1>1. pc' \in [Proc -> PCs]
  BY DEF LocalOK, Goto
<1>2. \A q \in Proc : Fetchable(q)'
  BY DEF LocalOK, Goto, Fetchable
<1> QED BY <1>1, <1>2 DEF LocalOK

(* select_drift_observations keeps one candidate for every subject. *)
LEMMA OnePerChooses ==
  ASSUME NEW obs
  PROVE  /\ OnePer(obs) \subseteq obs
         /\ \A o \in obs : \E d \in OnePer(obs) : d.subject = o.subject
<1>1. \A f : (\E o \in obs : o.subject = f) =>
               /\ (CHOOSE o \in obs : o.subject = f) \in obs
               /\ (CHOOSE o \in obs : o.subject = f).subject = f
  OBVIOUS
<1> QED BY <1>1 DEF OnePer

LEMMA NewCasesTyped ==
  ASSUME TypeInv, NEW p \in Proc
  PROVE  NewCases(p) \subseteq Observation /\ IsFiniteSet(NewCases(p))
<1> DEFINE es == ToSet(delta[p])
           obs == Conflicts(es, Subjects)
           gaps == {Gap(e) : e \in graph.nodes}
<1>1. /\ es \subseteq Evidence /\ IsFiniteSet(es)
      /\ graph.nodes \subseteq Evidence /\ IsFiniteSet(graph.nodes)
  BY SetOf, ToSetFinite DEF TypeInv, TypeOK
<1> HIDE DEF es
<1>2. \A e \in Declares : Conflict(e, es) \in Observation
  BY <1>1, DriftAssumption DEF Conflict, Sides, Observation, Detectors
<1>3. obs \subseteq Observation /\ IsFiniteSet(obs)
  <2> DEFINE found == [e \in es \cap Declares |-> Conflict(e, es)]
  <2>1. found \in [es \cap Declares -> Observation]
    BY <1>2
  <2>2. IsFiniteSet({found[e] : e \in es \cap Declares})
    <3>1. IsFiniteSet(es \cap Declares)
      BY <1>1, FS_Subset
    <3> HIDE DEF found
    <3> QED BY <2>1, <3>1, ImageFinite
  <2>3. obs \subseteq {found[e] : e \in es \cap Declares}
    BY DEF Conflicts
  <2>4. IsFiniteSet(obs)
    BY <2>2, <2>3, FS_Subset
  <2>5. obs \subseteq Observation
    BY <1>2 DEF Conflicts
  <2> QED BY <2>4, <2>5
<1>4. gaps \subseteq Observation /\ IsFiniteSet(gaps)
  <2> DEFINE gap == [e \in graph.nodes |-> Gap(e)]
  <2>1. \A e \in Evidence : Gap(e) \in Observation
    BY DEF Gap, Observation, Detectors, Evidence
  <2>2. gap \in [graph.nodes -> Observation]
    BY <1>1, <2>1
  <2>3. gaps = {gap[e] : e \in graph.nodes}
    OBVIOUS
  <2>4. IsFiniteSet({gap[e] : e \in graph.nodes})
    <3> HIDE DEF gap
    <3> QED BY <1>1, <2>2, ImageFinite
  <2> QED BY <1>1, <2>1, <2>3, <2>4
<1>5. OnePer(obs) \subseteq obs
  BY OnePerChooses
<1>6. NewCases(p) \subseteq obs \cup gaps
  BY <1>5 DEF NewCases, Observed, es
<1> HIDE DEF obs, gaps
<1>7. IsFiniteSet(obs \cup gaps) /\ obs \cup gaps \subseteq Observation
  BY <1>3, <1>4, FS_Union
<1> QED BY <1>6, <1>7, FS_Subset

(* The cases that are opened: distinct, without a case yet. *)
LEMMA NewCasesListed ==
  ASSUME TypeInv, NEW p \in Proc
  PROVE  LET new == SetToSeq(NewCases(p)) IN
         /\ new \in Seq(Observation) /\ IsInjective(new) /\ ToSet(new) = NewCases(p)
<1> DEFINE new == SetToSeq(NewCases(p))
<1>1. new \in Seq(NewCases(p)) /\ IsInjective(new) /\ ToSet(new) = NewCases(p)
  BY NewCasesTyped, ListSet
<1> HIDE DEF new
<1>2. new \in Seq(Observation)
  BY <1>1, NewCasesTyped, SeqMonotonic
<1> QED BY <1>1, <1>2 DEF new

LEMMA TypeStep ==
  ASSUME TypeInv, NEW p \in Proc, Step(p) \/ Abort(p)
  PROVE  TypeInv'
<1>t. SharedOK /\ LocalOK
  BY TypeSplit
<1>s. ASSUME SharedOK', LocalOK' PROVE TypeInv'
  BY <1>s, TypeSplit
<1>l. /\ prior[p] \in Checkpoint /\ manifest[p] \in Manifest /\ delta[p] \in Seq(Evidence)
      /\ base \in [Proc -> Base] /\ prior \in [Proc -> Checkpoint]
      /\ delta \in [Proc -> Seq(Evidence)] /\ prior[p].consumed \in Seq(Evidence)
      /\ Fetchable(p)
  BY <1>t DEF LocalOK, Checkpoint
<1>r. /\ graph.version \in Nat /\ graph.nodes \in SUBSET Evidence /\ IsFiniteSet(graph.nodes)
      /\ checkpoint \in Checkpoint /\ checkpoint.commits \in Nat
      /\ ledger \in Seq(Evidence) /\ Len(ledger) \in Nat /\ cases \in Seq(Observation)
      /\ Len(cases) \in Nat
  BY <1>t, LenProperties DEF SharedOK, Checkpoint
<1>1. CASE UNCHANGED Shared /\ Leave(p)
  BY <1>1, <1>t, <1>s, SharedSame, TypeLeave
<1>2. CASE ReadCheckpoint(p)
  <2>1. prior' \in [Proc -> Checkpoint]
    BY <1>2, <1>l, <1>r DEF ReadCheckpoint
  <2> QED BY <1>2, <2>1, <1>l, <1>t, <1>s, SharedSame, TypeGoto
          DEF ReadCheckpoint, files, evidence, committed, Shared, PCs
<1>3. CASE ReadLedger(p)
  <2>1. Len(prior[p].consumed) + 1 \in Nat \ {0}
    BY <1>l, LenProperties
  <2>2. delta' \in [Proc -> Seq(Evidence)]
    BY <1>3, <1>l, <1>r, <2>1, SubSeqSet DEF ReadLedger
  <2> QED BY <1>3, <2>2, <1>l, <1>t, <1>s, SharedSame, TypeGoto
          DEF ReadLedger, files, evidence, committed, Shared, PCs
<1>4. CASE Discover(p)
  <2>1. UNCHANGED Shared
    BY <1>4 DEF Discover, files, evidence, committed, Shared
  <2>2. [f \in File |-> source[f].content] \in Manifest
    BY <1>t DEF SharedOK, Manifest
  <2>3. manifest' \in [Proc -> Manifest] /\ todo' \in [Proc -> SUBSET File]
    BY <1>4, <2>2, <1>t DEF Discover, LocalOK
  <2>4. pc' \in [Proc -> PCs] /\ pc'[p] = "fetch"
    BY <1>4, <1>t DEF Discover, Goto, LocalOK, PCs
  <2>5. \A q \in Proc : Fetchable(q)'
    <3>1. ASSUME NEW q \in Proc, q # p PROVE Fetchable(q)'
      BY <3>1, <1>4, <1>t DEF Discover, Goto, LocalOK, Fetchable
    <3>2. Fetchable(p)'
      BY <1>4, <2>4, <1>t DEF Discover, LocalOK, Fetchable
    <3> QED BY <3>1, <3>2
  <2> QED BY <1>4, <2>1, <2>3, <2>4, <2>5, <1>t, <1>s, SharedSame DEF Discover, LocalOK
<1>5. CASE Fetch(p)
  <2>1. UNCHANGED Shared
    BY <1>5 DEF Fetch, files, evidence, committed, Shared
  <2>2. PICK f \in File :
          /\ f \in todo[p] /\ source[f].content = manifest[p][f]
          /\ raw' = [raw EXCEPT ![p] = [id |-> <<f, source[f].content>>, time |-> source[f].time]]
          /\ todo' = [todo EXCEPT ![p] = @ \ {f}]
    BY <1>5 DEF Fetch, IsFirst
  <2>3. source[f].content \in Contents /\ source[f].time \in 0 .. MaxEdits
    BY <2>2, <1>t, <1>l DEF SharedOK, LocalOK, Fetchable
  <2>4. [id |-> <<f, source[f].content>>, time |-> source[f].time] \in Raw
    BY <2>3 DEF Raw, Evidence
  <2>5. raw' \in [Proc -> Raw \cup {NoRaw}] /\ todo' \in [Proc -> SUBSET File] /\ raw'[p] \in Raw
    BY <2>2, <2>4, <1>t DEF LocalOK
  <2>6. pc' \in [Proc -> PCs]
    BY <1>5, <1>t DEF Fetch, Goto, LocalOK, PCs
  <2>7. \A q \in Proc : Fetchable(q)'
    <3>1. ASSUME NEW q \in Proc, q # p PROVE Fetchable(q)'
      BY <3>1, <1>5, <2>2, <1>t DEF Fetch, Goto, LocalOK, Fetchable
    <3>2. Fetchable(p)'
      BY <1>5, <2>2, <2>5, <1>l, <1>t DEF Fetch, LocalOK, Fetchable
    <3> QED BY <3>1, <3>2
  <2> QED BY <1>5, <2>1, <2>5, <2>6, <2>7, <1>t, <1>s, SharedSame DEF Fetch, LocalOK
<1>6. CASE Associate(p)
  <2> DEFINE e == raw[p].id
  <2>1. raw[p] \in Raw /\ e \in Evidence /\ raw[p].time \in 0 .. MaxEdits
    BY <1>6, <1>l DEF Associate, Fetchable, Raw
  <2>2. \/ ledger' = ledger /\ observedAt' = observedAt
        \/ ledger' = Append(ledger, e) /\ observedAt' = [observedAt EXCEPT ![e] = raw[p].time]
    <3>1. CASE e \in ToSet(ledger)
      <4>1. UNCHANGED evidence
        BY <3>1, <1>6 DEF Associate
      <4> QED BY <4>1 DEF evidence
    <3>2. CASE e \notin ToSet(ledger)
      BY <3>2, <1>6 DEF Associate
    <3> QED BY <3>1, <3>2
  <2>3. ledger' \in Seq(Evidence) /\ observedAt' \in [Evidence -> 0 .. MaxEdits]
    <3>1. Append(ledger, e) \in Seq(Evidence)
      BY <2>1, <1>r, AppendProperties
    <3>2. observedAt \in [Evidence -> 0 .. MaxEdits]
      BY <1>t DEF SharedOK
    <3>3. [observedAt EXCEPT ![e] = raw[p].time] \in [Evidence -> 0 .. MaxEdits]
      BY <2>1, <3>2
    <3> QED BY <2>2, <3>1, <3>2, <3>3, <1>r
  <2>4. SharedOK'
    BY <1>6, <2>3, <1>t DEF Associate, SharedOK, files, committed
  <2>5. Append(delta[p], e) \in Seq(Evidence)
    BY <2>1, <1>l, AppendProperties
  <2>6. delta' \in [Proc -> Seq(Evidence)]
    BY <1>6, <2>5, <1>l DEF Associate
  <2>7. pc' \in [Proc -> PCs] /\ raw' \in [Proc -> Raw \cup {NoRaw}]
    BY <1>6, <1>t DEF Associate, Goto, LocalOK, PCs
  <2>8. \A q \in Proc : Fetchable(q)'
    BY <1>6, <1>t DEF Associate, Goto, LocalOK, Fetchable
  <2> QED BY <1>6, <2>4, <2>6, <2>7, <2>8, <1>t, <1>s DEF Associate, LocalOK
<1>7. CASE LoadGraph(p)
  <2>1. [NoBase EXCEPT !.version = graph.version] \in Base
    BY <1>r, Nothing DEF Base
  <2>2. base' \in [Proc -> Base]
    BY <1>7, <2>1, <1>l DEF LoadGraph
  <2>3. \E label \in {"detect", "reason"} : Goto(p, label)
    BY <1>7 DEF LoadGraph
  <2>4. {"detect", "reason"} \subseteq PCs \ {"associate"}
    BY DEF PCs
  <2>5. LocalOK'
    BY <1>7, <2>2, <2>3, <2>4, <1>l, <1>t, TypeGoto DEF LoadGraph
  <2> QED BY <1>7, <2>5, <1>t, <1>s, SharedSame DEF LoadGraph, files, evidence, committed, Shared
<1>8. CASE ApplyReasoning(p)
  <2>1. LocalOK'
    BY <1>8, <1>l, <1>t, TypeGoto DEF ApplyReasoning, local, PCs
  <2>2. Unmapped(p) \subseteq Evidence /\ IsFiniteSet(Unmapped(p))
    <3>1. ToSet(delta[p]) \subseteq Evidence /\ IsFiniteSet(ToSet(delta[p]))
      BY <1>l, SetOf, ToSetFinite
    <3>2. Unmapped(p) \subseteq ToSet(delta[p])
      BY DEF Unmapped
    <3> QED BY <3>1, <3>2, FS_Subset
  <2>3. graph' \in [version : Nat, nodes : SUBSET Evidence] /\ IsFiniteSet(graph'.nodes)
    <3>1. IsFiniteSet(graph.nodes \cup Unmapped(p))
      BY <2>2, <1>r, FS_Union
    <3> QED BY <1>8, <2>2, <3>1, <1>r DEF ApplyReasoning
  <2>4. SharedOK'
    BY <1>8, <2>3, <1>t DEF ApplyReasoning, SharedOK, files, evidence, committed
  <2> QED BY <2>1, <2>4, <1>s
<1>9. CASE Detect(p)
  <2>1. base' \in [Proc -> Base]
    BY <1>9, <1>l, <1>r DEF Detect, Base
  <2>2. \E label \in {"checkpoint", "cases"} : Goto(p, label)
    BY <1>9 DEF Detect
  <2>3. {"checkpoint", "cases"} \subseteq PCs \ {"associate"}
    BY DEF PCs
  <2>4. LocalOK'
    BY <1>9, <2>1, <2>2, <2>3, <1>l, <1>t, TypeGoto DEF Detect
  <2> QED BY <1>9, <2>4, <1>t, <1>s, SharedSame DEF Detect, files, evidence, committed, Shared
<1>10. CASE OpenCases(p)
  <2>1. LocalOK'
    BY <1>10, <1>l, <1>t, TypeGoto DEF OpenCases, local, PCs
  <2>2. cases' \in Seq(Observation)
    BY <1>10, <1>r, NewCasesListed, ConcatProperties DEF OpenCases
  <2>3. graph' \in [version : Nat, nodes : SUBSET Evidence] /\ IsFiniteSet(graph'.nodes)
    <3>1. graph \in [version : Nat, nodes : SUBSET Evidence]
      BY <1>t DEF SharedOK
    <3>2. graph' = [graph EXCEPT !.version = graph.version + 1]
      BY <1>10 DEF OpenCases
    <3> QED BY <3>1, <3>2, <1>r
  <2>4. SharedOK'
    BY <1>10, <2>2, <2>3, <1>t DEF OpenCases, SharedOK, files, evidence, committed
  <2> QED BY <2>1, <2>4, <1>s
<1>11. CASE AdvanceCheckpoint(p)
  <2>1. LocalOK'
    BY <1>11, <1>t, TypeLeave DEF AdvanceCheckpoint
  <2>2. prior[p].consumed \o delta[p] \in Seq(Evidence)
    BY <1>l, ConcatProperties
  <2>3. NextCheckpoint(p) \in Checkpoint
    BY <2>2, <1>l, <1>r DEF NextCheckpoint, Checkpoint
  <2>4. Batch(p) \in [new : SUBSET Evidence, old : SUBSET Evidence]
    BY <1>l, SetOf DEF Batch
  <2>5. SharedOK'
    BY <1>11, <2>3, <2>4, <1>t DEF AdvanceCheckpoint, SharedOK, files, evidence
  <2> QED BY <2>1, <2>5, <1>s
<1> QED BY <1>1, <1>2, <1>3, <1>4, <1>5, <1>6, <1>7, <1>8, <1>9, <1>10, <1>11
        DEF Step, Abort, ConsumptionInvalid, FetchFails, AssociateFails, ReasoningStale,
            DetectionStale, StaleCheckpoint, NothingNew, DuplicateSubject, Shared, files, evidence,
            committed

LEMMA TypeNext == TypeInv /\ [Next]_vars => TypeInv'
<1> SUFFICES ASSUME TypeInv, [Next]_vars PROVE TypeInv'
  OBVIOUS
<1>1. CASE Edit
  <2>1. SharedOK /\ LocalOK
    BY TypeSplit
  <2>2. LocalOK'
    BY <1>1, <2>1, LocalSame DEF Edit
  <2>3. PICK f \in File, c \in Contents \cup {Absent} :
          source' = [source EXCEPT ![f] = [content |-> c, time |-> edits + 1]]
    BY <1>1 DEF Edit
  <2>4. edits' = edits + 1 /\ edits + 1 \in 0 .. MaxEdits
    BY <1>1, <2>1, BoundsAssumption DEF Edit, SharedOK
  <2>5. source' \in [File -> [content : Contents \cup {Absent}, time : 0 .. MaxEdits]]
    BY <2>1, <2>3, <2>4 DEF SharedOK
  <2>6. SharedOK'
    BY <1>1, <2>1, <2>4, <2>5 DEF Edit, SharedOK, evidence, committed
  <2> QED BY <2>2, <2>6, TypeSplit
<1>2. CASE UNCHANGED vars
  <2>1. UNCHANGED Shared /\ UNCHANGED <<pc, local>>
    BY <1>2 DEF vars, Shared, local
  <2> QED BY <2>1, TypeSplit, SharedSame, LocalSame
<1> QED BY <1>1, <1>2, TypeStep DEF Next

(* Type correctness of the shared stores and of every run's own state.     *)
THEOREM TypeCorrect == Spec => []TypeOK
<1>1. TypeInv => TypeOK
  BY DEF TypeInv
<1> QED BY <1>1, TypeInit, TypeNext, PTL DEF Spec

-----------------------------------------------------------------------------
(* The safety properties are not inductive: a checkpoint is written from   *)
(* what a run captured, and from what its detection saw, some steps        *)
(* earlier.  SyncInv says what that is worth by then.                      *)

(* Detection with the ledger l and the cases ks as parameters: every       *)
(* conflict that es shows about a subject in fs has its case.              *)
SupersededIn(l, e, es) == \E i, j \in DOMAIN l :
                            i < j /\ l[i] = e /\ l[j] \in es /\ l[j][1] = e[1]
SidesIn(l, e, es) == {d \in es : (d = e \/ d[1] \in Refers[e]) /\ ~SupersededIn(l, d, es)}
Cased(l, ks, es, fs) ==
  \A e \in es \cap Declares :
    Subject[e] \in fs /\ Resolves(e, es) /\ (\E c, d \in SidesIn(l, e, es) : c # d)
      => \E k \in ks : k.subject = Subject[e] /\ k.by = "conflicting_sources" /\ k.refs \subseteq es

AssertedBy(es) == {e[1] : e \in es} \cap Asserting

(* A checkpoint that is covered: what its cursor claims was consumed, what *)
(* was consumed is in the ledger, and what that asserts is in the graph.   *)
Covered(ck) ==
  /\ \A f \in File : ck.cursor[f] # Absent => <<f, ck.cursor[f]>> \in ToSet(ck.consumed)
  /\ ToSet(ck.consumed) \subseteq ToSet(ledger)
  /\ AssertedBy(ToSet(ck.consumed)) \subseteq Subjects

Seen(p) == ToSet(prior[p].consumed) \cup ToSet(delta[p])

(* What a run has captured at each of its steps. *)
Captured(p) ==
  /\ Covered(prior[p])
  /\ ToSet(delta[p]) \subseteq ToSet(ledger)
  /\ pc[p] \notin {"idle", "ledger", "discover"} =>
       \A f \in File : manifest[p][f] # Absent =>
         \/ f \in todo[p]
         \/ pc[p] = "associate" /\ raw[p].id = <<f, manifest[p][f]>>
         \/ <<f, manifest[p][f]>> \in Seen(p)
  /\ pc[p] \in {"reason", "detect", "cases", "checkpoint"} => todo[p] = {}
  /\ pc[p] \in {"detect", "cases", "checkpoint"} => AssertedBy(ToSet(delta[p])) \subseteq Subjects
  /\ pc[p] = "checkpoint" => Cased(ledger, ToSet(cases), ToSet(delta[p]), AssertedBy(Seen(p)))

Recorded == \A b \in batches : /\ b.new \subseteq ToSet(ledger)
                               /\ Cased(ledger, ToSet(cases), b.new, AssertedBy(b.new \cup b.old))

SyncInv ==
  /\ TypeInv /\ LedgerUnique /\ OneCasePerFingerprint /\ Covered(checkpoint) /\ Recorded
  /\ \A p \in Proc : Captured(p)

(* Cased is what ConsumedDriftHasCase asks. *)
LEMMA CasedMeans ==
  ASSUME NEW es, NEW fs, NEW ks
  PROVE  Cased(ledger, ks, es, fs) <=>
           \A o \in Conflicts(es, fs) :
             \E k \in ks : k.subject = o.subject /\ k.by = o.by /\ k.refs \subseteq es
<1>1. \A e : SidesIn(ledger, e, es) = Sides(e, es)
  BY DEF SidesIn, Sides, SupersededIn, Superseded
<1>2. \A e : /\ Conflict(e, es).subject = Subject[e]
             /\ Conflict(e, es).by = "conflicting_sources"
  BY DEF Conflict
<1>3. \A o : o \in Conflicts(es, fs) <=>
         \E e \in es \cap Declares : /\ o = Conflict(e, es)
                                     /\ Subject[e] \in fs /\ Resolves(e, es)
                                     /\ \E c, d \in Sides(e, es) : c # d
  BY DEF Conflicts
<1> QED BY <1>1, <1>2, <1>3 DEF Cased

(* A run that has opened what it observed has a case for every conflict.   *)
LEMMA ObservedCased ==
  ASSUME NEW p, NEW ks, Observed(p) \subseteq ks
  PROVE  Cased(ledger, ks, ToSet(delta[p]), Subjects)
<1> DEFINE es == ToSet(delta[p])  obs == Conflicts(es, Subjects)
<1>1. ASSUME NEW o \in obs
      PROVE  \E k \in ks : k.subject = o.subject /\ k.by = o.by /\ k.refs \subseteq es
  <2>1. PICK d \in OnePer(obs) : d.subject = o.subject
    BY OnePerChooses
  <2>2. d \in obs
    BY OnePerChooses
  <2>3. \A k \in obs : k.by = "conflicting_sources" /\ k.refs \subseteq es
    BY DEF Conflicts, Conflict, Sides
  <2>4. d \in ks
    BY DEF Observed
  <2> QED BY <2>1, <2>2, <2>3, <2>4
<1> QED BY <1>1, CasedMeans

(* The larger the graph, the more conflicts there are to cover. *)
LEMMA CasedFewer ==
  ASSUME NEW l, NEW ks, NEW es, NEW fs, NEW gs, gs \subseteq fs, Cased(l, ks, es, fs)
  PROVE  Cased(l, ks, es, gs)
BY DEF Cased

(* New evidence, which es does not hold, and new cases do no harm. *)
LEMMA CasedStays ==
  ASSUME NEW l \in Seq(Evidence), NEW x \in Evidence \ ToSet(l),
         NEW es, es \subseteq ToSet(l), NEW fs, NEW ks, NEW js, ks \subseteq js,
         Cased(l, ks, es, fs)
  PROVE  Cased(l, js, es, fs) /\ Cased(Append(l, x), js, es, fs)
<1>1. Cased(l, js, es, fs)
  BY DEF Cased
<1> DEFINE m == Append(l, x)  n == Len(l)
<1>2. /\ n \in Nat /\ DOMAIN l = 1 .. n /\ DOMAIN m = 1 .. n + 1
      /\ \A i \in 1 .. n : m[i] = l[i]
      /\ m[n + 1] = x
  BY AppendProperties, LenProperties
<1> HIDE DEF m, n
<1>3. x \notin es
  OBVIOUS
<1>4. \A d : SupersededIn(m, d, es) <=> SupersededIn(l, d, es)
  <2> SUFFICES ASSUME NEW d PROVE SupersededIn(m, d, es) <=> SupersededIn(l, d, es)
    OBVIOUS
  <2>1. ASSUME SupersededIn(m, d, es) PROVE SupersededIn(l, d, es)
    <3>1. PICK i \in 1 .. n + 1, j \in 1 .. n + 1 :
            i < j /\ m[i] = d /\ m[j] \in es /\ m[j][1] = d[1]
      BY <2>1, <1>2 DEF SupersededIn
    <3>2. j # n + 1
      BY <3>1, <1>2, <1>3
    <3>3. i \in 1 .. n /\ j \in 1 .. n
      BY <3>1, <3>2, <1>2
    <3> QED BY <3>1, <3>3, <1>2 DEF SupersededIn
  <2>2. ASSUME SupersededIn(l, d, es) PROVE SupersededIn(m, d, es)
    <3>1. PICK i \in 1 .. n, j \in 1 .. n :
            i < j /\ l[i] = d /\ l[j] \in es /\ l[j][1] = d[1]
      BY <2>2, <1>2 DEF SupersededIn
    <3>2. i \in 1 .. n + 1 /\ j \in 1 .. n + 1
      BY <1>2
    <3> QED BY <3>1, <3>2, <1>2 DEF SupersededIn
  <2> QED BY <2>1, <2>2
<1>5. \A e : SidesIn(m, e, es) = SidesIn(l, e, es)
  BY <1>4 DEF SidesIn
<1>6. Cased(m, js, es, fs)
  BY <1>1, <1>5 DEF Cased
<1> QED BY <1>1, <1>6 DEF m

(* Ledgers and the graph only grow, and a step touches one run only. *)
Grows ==
  /\ ledger' = ledger \/ \E x \in Evidence \ ToSet(ledger) : ledger' = Append(ledger, x)
  /\ ToSet(cases) \subseteq ToSet(cases')
  /\ graph.nodes \subseteq graph'.nodes

LEMMA GrowsMeans ==
  ASSUME TypeInv, Grows
  PROVE  /\ ToSet(ledger) \subseteq ToSet(ledger')
         /\ {e[1] : e \in graph.nodes} \subseteq {e[1] : e \in graph'.nodes}
<1>1. ledger \in Seq(Evidence)
  BY DEF TypeInv, TypeOK
<1>2. \A x \in Evidence : ToSet(Append(ledger, x)) = ToSet(ledger) \cup {x}
  BY <1>1, AppendSet
<1> QED BY <1>2 DEF Grows

LEMMA StaysCased ==
  ASSUME TypeInv, Grows, NEW es, es \subseteq ToSet(ledger), NEW fs,
         Cased(ledger, ToSet(cases), es, fs)
  PROVE  Cased(ledger', ToSet(cases'), es, fs)
<1>1. ledger \in Seq(Evidence)
  BY DEF TypeInv, TypeOK
<1>2. CASE ledger' = ledger
  BY <1>2 DEF Grows, Cased
<1>3. CASE ledger' # ledger
  <2>1. PICK x \in Evidence \ ToSet(ledger) : ledger' = Append(ledger, x)
    BY <1>3 DEF Grows
  <2>2. ToSet(cases) \subseteq ToSet(cases')
    BY DEF Grows
  <2> QED BY <2>1, <2>2, <1>1, CasedStays
<1> QED BY <1>2, <1>3

Alone(p) ==
  \A q \in Proc \ {p} :
    /\ pc'[q] = pc[q] /\ prior'[q] = prior[q] /\ manifest'[q] = manifest[q]
    /\ todo'[q] = todo[q] /\ raw'[q] = raw[q] /\ delta'[q] = delta[q]

LEMMA StaysCovered ==
  ASSUME TypeInv, Grows, NEW ck, NEW cl, cl = ck, Covered(ck)
  PROVE  /\ \A f \in File : cl.cursor[f] # Absent => <<f, cl.cursor[f]>> \in ToSet(cl.consumed)
         /\ ToSet(cl.consumed) \subseteq ToSet(ledger')
         /\ AssertedBy(ToSet(cl.consumed)) \subseteq {e[1] : e \in graph'.nodes}
BY GrowsMeans DEF Covered, Subjects

LEMMA StaysRecorded == ASSUME SyncInv, Grows, UNCHANGED batches PROVE Recorded'
<1> SUFFICES ASSUME NEW b \in batches
             PROVE  /\ b.new \subseteq ToSet(ledger')
                    /\ Cased(ledger', ToSet(cases'), b.new, AssertedBy(b.new \cup b.old))
  BY DEF Recorded
<1>1. b.new \subseteq ToSet(ledger) /\ Cased(ledger, ToSet(cases), b.new, AssertedBy(b.new \cup b.old))
  BY DEF SyncInv, Recorded
<1> QED BY <1>1, GrowsMeans, StaysCased DEF SyncInv

LEMMA OthersKeep ==
  ASSUME SyncInv, NEW p, Grows, Alone(p)
  PROVE  \A q \in Proc \ {p} : Captured(q)'
<1> SUFFICES ASSUME NEW q \in Proc \ {p} PROVE Captured(q)'
  OBVIOUS
<1>1. Captured(q) /\ TypeInv
  BY DEF SyncInv
<1>2. /\ pc'[q] = pc[q] /\ prior'[q] = prior[q] /\ manifest'[q] = manifest[q]
      /\ todo'[q] = todo[q] /\ raw'[q] = raw[q] /\ delta'[q] = delta[q]
  BY DEF Alone
<1>3. Covered(prior[q])'
  BY <1>1, <1>2, StaysCovered DEF Captured, Covered, Subjects
<1>4. Seen(q)' = Seen(q)
  BY <1>2 DEF Seen
<1>5. /\ ToSet(delta'[q]) \subseteq ToSet(ledger')
      /\ pc'[q] \in {"detect", "cases", "checkpoint"}
           => AssertedBy(ToSet(delta'[q])) \subseteq {e[1] : e \in graph'.nodes}
  BY <1>1, <1>2, GrowsMeans DEF Captured, Subjects
<1>6. pc'[q] = "checkpoint"
        => Cased(ledger', ToSet(cases'), ToSet(delta'[q]), AssertedBy(Seen(q)'))
  BY <1>1, <1>2, <1>4, StaysCased DEF Captured
<1> QED BY <1>1, <1>2, <1>3, <1>4, <1>5, <1>6 DEF Captured, Subjects

(* A run that is over knows nothing. *)
LEMMA LeaveEmpty ==
  ASSUME SyncInv, NEW p \in Proc, Leave(p)
  PROVE  Alone(p) /\ Captured(p)'
<1>1. LocalOK
  BY TypeSplit DEF SyncInv
<1>2. Alone(p)
  BY <1>1 DEF Leave, Goto, LocalOK, Alone
<1>3. /\ pc'[p] = "idle" /\ prior'[p] = NoCheckpoint /\ delta'[p] = <<>>
  BY <1>1 DEF Leave, Goto, LocalOK
<1>4. ToSet(<<>>) = {} /\ AssertedBy({}) = {}
  BY DEF ToSet, AssertedBy
<1>5. Covered(NoCheckpoint)'
  BY <1>4, Nothing DEF Covered
<1> QED BY <1>2, <1>3, <1>4, <1>5 DEF Captured, Covered

(* What the step of a run has to establish. *)
LEMMA Stitch ==
  ASSUME SyncInv, TypeInv', NEW p \in Proc, Grows, Alone(p), Captured(p)',
         LedgerUnique', OneCasePerFingerprint', Covered(checkpoint)', Recorded'
  PROVE  SyncInv'
BY OthersKeep DEF SyncInv

LEMMA SyncInit == Init => SyncInv
<1> SUFFICES ASSUME Init PROVE SyncInv
  OBVIOUS
<1>1. ToSet(<<>>) = {} /\ IsInjective(<<>>) /\ AssertedBy({}) = {}
  BY DEF ToSet, IsInjective, AssertedBy
<1>2. Covered(NoCheckpoint)
  BY <1>1, Nothing DEF Covered
<1>3. \A p \in Proc : Captured(p)
  BY <1>1, <1>2 DEF Init, Captured
<1> QED BY <1>1, <1>2, <1>3, TypeInit
    DEF Init, SyncInv, LedgerUnique, OneCasePerFingerprint, Recorded

(* A step that writes neither ledger, nor cases, nor the checkpoint. *)
LEMMA Reads ==
  ASSUME SyncInv, TypeInv', NEW p \in Proc, UNCHANGED <<ledger, cases, checkpoint, batches>>,
         graph.nodes \subseteq graph'.nodes, Alone(p), Captured(p)'
  PROVE  SyncInv'
<1>1. Grows
  BY DEF Grows
<1>2. LedgerUnique' /\ OneCasePerFingerprint'
  BY DEF SyncInv, LedgerUnique, OneCasePerFingerprint
<1>3. Covered(checkpoint)' /\ Recorded'
  BY <1>1, StaysCovered, StaysRecorded DEF SyncInv, Covered, Subjects
<1> QED BY <1>1, <1>2, <1>3, Stitch

LEMMA SyncStep ==
  ASSUME SyncInv, NEW p \in Proc, Step(p) \/ Abort(p)
  PROVE  SyncInv'
<1>t. TypeInv' /\ TypeInv /\ LocalOK
  BY TypeStep, TypeSplit DEF SyncInv
<1>l. /\ pc \in [Proc -> PCs] /\ prior \in [Proc -> Checkpoint] /\ manifest \in [Proc -> Manifest]
      /\ todo \in [Proc -> SUBSET File] /\ raw \in [Proc -> Raw \cup {NoRaw}]
      /\ delta \in [Proc -> Seq(Evidence)]
      /\ prior[p].consumed \in Seq(Evidence) /\ delta[p] \in Seq(Evidence)
  BY <1>t DEF LocalOK, Checkpoint
<1>r. ledger \in Seq(Evidence) /\ cases \in Seq(Observation)
  BY <1>t DEF TypeInv, TypeOK
<1>c. Captured(p) /\ Covered(prior[p]) /\ ToSet(delta[p]) \subseteq ToSet(ledger)
  BY DEF SyncInv, Captured
<1>1. CASE UNCHANGED Shared /\ Leave(p)
  BY <1>1, <1>t, LeaveEmpty, Reads DEF Shared
<1>2. CASE ReadCheckpoint(p)
  <2>1. UNCHANGED <<ledger, cases, checkpoint, batches, graph>> /\ Alone(p)
    BY <1>2, <1>l DEF ReadCheckpoint, Goto, evidence, committed, Alone
  <2>2. pc'[p] = "ledger" /\ prior'[p] = checkpoint /\ delta'[p] = delta[p]
    BY <1>2, <1>l DEF ReadCheckpoint, Goto
  <2>3. Covered(prior[p])'
    BY <2>1, <2>2 DEF SyncInv, Covered, Subjects
  <2>4. Captured(p)'
    BY <2>1, <2>2, <2>3, <1>c DEF Captured
  <2> QED BY <2>1, <2>4, <1>t, Reads
<1>3. CASE ReadLedger(p)
  <2>1. UNCHANGED <<ledger, cases, checkpoint, batches, graph>> /\ Alone(p)
    BY <1>3, <1>l DEF ReadLedger, Goto, evidence, committed, Alone
  <2>2. /\ pc'[p] = "discover" /\ prior'[p] = prior[p]
        /\ delta'[p] = SubSeq(ledger, Len(prior[p].consumed) + 1, Len(ledger))
    BY <1>3, <1>l DEF ReadLedger, Goto
  <2>3. Covered(prior[p])'
    BY <2>1, <2>2, <1>c DEF Covered, Subjects
  <2>4. ToSet(delta'[p]) \subseteq ToSet(ledger)
    <3>1. Len(prior[p].consumed) + 1 \in Nat \ {0}
      BY <1>l, LenProperties
    <3> QED BY <2>2, <3>1, <1>r, SubSeqSet
  <2>5. Captured(p)'
    BY <2>1, <2>2, <2>3, <2>4 DEF Captured
  <2> QED BY <2>1, <2>5, <1>t, Reads
<1>4. CASE Discover(p)
  <2>1. UNCHANGED <<ledger, cases, checkpoint, batches, graph>> /\ Alone(p)
    BY <1>4, <1>l DEF Discover, Goto, evidence, committed, Alone
  <2>2. /\ pc'[p] = "fetch" /\ prior'[p] = prior[p] /\ delta'[p] = delta[p]
        /\ manifest'[p] = [f \in File |-> source[f].content]
        /\ todo'[p] = {f \in File : source[f].content \notin {Absent, prior[p].cursor[f]}}
    BY <1>4, <1>l DEF Discover, Goto
  <2>3. Covered(prior[p])'
    BY <2>1, <2>2, <1>c DEF Covered, Subjects
  <2>4. ASSUME NEW f \in File, manifest'[p][f] # Absent
        PROVE  f \in todo'[p] \/ <<f, manifest'[p][f]>> \in Seen(p)'
    <3>1. CASE source[f].content = prior[p].cursor[f]
      BY <3>1, <2>2, <2>4, <1>c DEF Covered, Seen
    <3>2. CASE source[f].content # prior[p].cursor[f]
      BY <3>2, <2>2, <2>4
    <3> QED BY <3>1, <3>2
  <2>5. Captured(p)'
    BY <2>1, <2>2, <2>3, <2>4, <1>c DEF Captured
  <2> QED BY <2>1, <2>5, <1>t, Reads
<1>5. CASE Fetch(p)
  <2>1. UNCHANGED <<ledger, cases, checkpoint, batches, graph>> /\ Alone(p)
    BY <1>5, <1>l DEF Fetch, Goto, evidence, committed, Alone
  <2>2. PICK f \in File :
          /\ source[f].content = manifest[p][f]
          /\ raw' = [raw EXCEPT ![p] = [id |-> <<f, source[f].content>>, time |-> source[f].time]]
          /\ todo' = [todo EXCEPT ![p] = @ \ {f}]
    BY <1>5 DEF Fetch
  <2>3. /\ pc[p] = "fetch" /\ pc'[p] = "associate" /\ prior'[p] = prior[p] /\ delta'[p] = delta[p]
        /\ manifest'[p] = manifest[p] /\ todo'[p] = todo[p] \ {f}
        /\ raw'[p].id = <<f, manifest[p][f]>>
    BY <1>5, <2>2, <1>l DEF Fetch, Goto
  <2>4. Covered(prior[p])'
    BY <2>1, <2>3, <1>c DEF Covered, Subjects
  <2>5. Seen(p)' = Seen(p)
    BY <2>3 DEF Seen
  <2>6. Captured(p)'
    BY <2>1, <2>3, <2>4, <2>5, <1>c DEF Captured
  <2> QED BY <2>1, <2>6, <1>t, Reads
<1>6. CASE Associate(p)
  <2> DEFINE e == raw[p].id
  <2>1. e \in Evidence
    BY <1>6, <1>t DEF Associate, LocalOK, Fetchable, Raw
  <2>2. /\ pc[p] = "associate" /\ pc'[p] = "fetch" /\ prior'[p] = prior[p] /\ manifest'[p] = manifest[p]
        /\ todo'[p] = todo[p]
        /\ delta'[p] = IF e \in Seen(p) THEN delta[p] ELSE Append(delta[p], e)
    BY <1>6, <1>l DEF Associate, Goto, Seen
  <2>3. UNCHANGED <<cases, checkpoint, batches, graph>> /\ Alone(p)
    BY <1>6, <1>l DEF Associate, Goto, committed, Alone
  <2>4. ToSet(ledger') = ToSet(ledger) \cup {e} /\ LedgerUnique'
    <3>1. CASE e \in ToSet(ledger)
      <4>1. ledger' = ledger
        BY <3>1, <1>6 DEF Associate, evidence
      <4> QED BY <3>1, <4>1 DEF SyncInv, LedgerUnique
    <3>2. CASE e \notin ToSet(ledger)
      <4>1. ledger' = Append(ledger, e)
        BY <3>2, <1>6 DEF Associate
      <4> QED BY <3>2, <4>1, <2>1, <1>r, AppendSet DEF SyncInv, LedgerUnique
    <3> QED BY <3>1, <3>2
  <2>5. Grows
    <3>1. ledger' = ledger \/ (e \notin ToSet(ledger) /\ ledger' = Append(ledger, e))
      BY <1>6 DEF Associate, evidence
    <3> QED BY <2>1, <2>3, <3>1 DEF Grows
  <2>6. Seen(p)' = Seen(p) \cup {e} /\ ToSet(delta'[p]) \subseteq ToSet(delta[p]) \cup {e}
    <3>1. CASE e \in Seen(p)
      BY <3>1, <2>2 DEF Seen
    <3>2. CASE e \notin Seen(p)
      <4>1. ToSet(delta'[p]) = ToSet(delta[p]) \cup {e}
        BY <3>2, <2>1, <2>2, <1>l, AppendSet
      <4> QED BY <4>1, <2>2 DEF Seen
    <3> QED BY <3>1, <3>2
  <2>7. Covered(prior[p])' /\ Covered(checkpoint)'
    BY <2>2, <2>3, <2>5, <1>c, <1>t, StaysCovered DEF Covered, Subjects, SyncInv
  <2>8. Captured(p)'
    BY <2>2, <2>4, <2>6, <2>7, <1>c DEF Captured
  <2>9. OneCasePerFingerprint' /\ Recorded'
    BY <2>3, <2>5, StaysRecorded DEF SyncInv, OneCasePerFingerprint
  <2> QED BY <2>3, <2>4, <2>5, <2>7, <2>8, <2>9, <1>t, Stitch
<1>7. CASE LoadGraph(p) \/ ApplyReasoning(p) \/ Detect(p)
  <2>1. UNCHANGED <<ledger, cases, checkpoint, batches>> /\ Alone(p)
    BY <1>7, <1>l DEF LoadGraph, ApplyReasoning, Detect, Goto, evidence, committed, local, Alone
  <2>2. /\ prior'[p] = prior[p] /\ delta'[p] = delta[p] /\ manifest'[p] = manifest[p]
        /\ todo'[p] = todo[p]
    BY <1>7, <1>l DEF LoadGraph, ApplyReasoning, Detect, local
  <2>3. /\ pc[p] \in {"fetch", "reason", "detect"}
        /\ pc'[p] \in {"reason", "detect", "cases", "checkpoint"}
    BY <1>7, <1>l DEF LoadGraph, ApplyReasoning, Detect, Goto
  <2>4. todo[p] = {}
    BY <1>7, <1>c DEF LoadGraph, ApplyReasoning, Detect, Captured
  <2>5. graph.nodes \subseteq graph'.nodes /\ Subjects \subseteq Subjects'
    <3>1. graph.nodes \subseteq graph'.nodes
      BY <1>7 DEF LoadGraph, ApplyReasoning, Detect
    <3> QED BY <3>1 DEF Subjects
  <2>6. Covered(prior[p])' /\ Seen(p)' = Seen(p)
    BY <2>1, <2>2, <2>5, <1>c DEF Covered, Seen
  <2>7. pc'[p] \in {"detect", "cases", "checkpoint"} => AssertedBy(ToSet(delta[p])) \subseteq Subjects'
    <3>1. CASE LoadGraph(p)
      <4>1. pc'[p] = "detect" => Unmapped(p) = {}
        BY <3>1, <1>l DEF LoadGraph, Goto
      <4>2. pc'[p] \notin {"cases", "checkpoint"}
        BY <3>1, <1>l DEF LoadGraph, Goto
      <4>3. Unmapped(p) = {} => AssertedBy(ToSet(delta[p])) \subseteq Subjects
        BY DEF Unmapped, AssertedBy
      <4> QED BY <4>1, <4>2, <4>3, <2>5
    <3>2. CASE ApplyReasoning(p)
      <4>1. graph'.nodes = graph.nodes \cup Unmapped(p)
        BY <3>2 DEF ApplyReasoning
      <4> QED BY <4>1 DEF Unmapped, AssertedBy, Subjects
    <3>3. CASE Detect(p)
      BY <3>3, <2>5, <1>c DEF Detect, Captured
    <3> QED BY <3>1, <3>2, <3>3, <1>7
  <2>8. pc'[p] = "checkpoint"
          => Cased(ledger, ToSet(cases), ToSet(delta[p]), AssertedBy(Seen(p)))
    <3>1. CASE Detect(p)
      <4>1. pc'[p] = "checkpoint" => NewCases(p) = {}
        BY <3>1, <1>l DEF Detect, Goto
      <4>2. NewCases(p) = {} => Observed(p) \subseteq ToSet(cases)
        BY DEF NewCases
      <4>3. AssertedBy(Seen(p)) \subseteq Subjects
        BY <3>1, <1>c DEF Detect, Captured, Covered, Seen, AssertedBy
      <4> QED BY <4>1, <4>2, <4>3, ObservedCased, CasedFewer
    <3>2. CASE LoadGraph(p) \/ ApplyReasoning(p)
      BY <3>2, <1>l DEF LoadGraph, ApplyReasoning, Goto
    <3> QED BY <3>1, <3>2, <1>7
  <2>9. Captured(p)'
    BY <2>1, <2>2, <2>3, <2>4, <2>6, <2>7, <2>8, <1>c DEF Captured
  <2> QED BY <2>1, <2>5, <2>9, <1>t, Reads
<1>8. CASE OpenCases(p)
  <2> DEFINE new == SetToSeq(NewCases(p))
  <2>1. /\ UNCHANGED <<ledger, checkpoint, batches>> /\ Alone(p)
        /\ graph'.nodes = graph.nodes
    BY <1>8, <1>l, <1>t DEF OpenCases, Goto, evidence, committed, local, Alone, TypeInv, TypeOK
  <2>2. /\ prior'[p] = prior[p] /\ delta'[p] = delta[p] /\ manifest'[p] = manifest[p]
        /\ todo'[p] = todo[p] /\ pc[p] = "cases" /\ pc'[p] = "checkpoint"
    BY <1>8, <1>l DEF OpenCases, Goto, local
  <2>3. new \in Seq(Observation) /\ IsInjective(new) /\ ToSet(new) = NewCases(p)
    BY <1>t, NewCasesListed
  <2>4. cases' = cases \o new
    BY <1>8 DEF OpenCases
  <2>5. NewCases(p) \cap ToSet(cases) = {}
    BY DEF NewCases
  <2>6. ToSet(cases') = ToSet(cases) \cup NewCases(p)
    BY <2>3, <2>4, <1>r, ConcatSet
  <2>7. OneCasePerFingerprint'
    BY <2>3, <2>4, <2>5, <1>r, ConcatSet DEF SyncInv, OneCasePerFingerprint
  <2>8. Grows
    BY <2>1, <2>6 DEF Grows
  <2>9. Cased(ledger, ToSet(cases'), ToSet(delta[p]), AssertedBy(Seen(p)))
    <3>1. Observed(p) \subseteq ToSet(cases')
      BY <2>6 DEF NewCases
    <3>2. AssertedBy(Seen(p)) \subseteq Subjects
      BY <2>2, <1>c DEF Captured, Covered, Seen, AssertedBy
    <3> QED BY <3>1, <3>2, ObservedCased, CasedFewer
  <2>10. /\ Covered(prior[p])' /\ Covered(checkpoint)' /\ Seen(p)' = Seen(p)
         /\ Subjects' = Subjects
    BY <2>1, <2>2, <2>8, <1>c, <1>t, StaysCovered DEF Covered, SyncInv, Seen, Subjects
  <2>11. Captured(p)'
    BY <2>1, <2>2, <2>9, <2>10, <1>c DEF Captured
  <2>12. LedgerUnique' /\ Recorded'
    BY <2>1, <2>8, StaysRecorded DEF SyncInv, LedgerUnique
  <2> QED BY <2>1, <2>7, <2>8, <2>10, <2>11, <2>12, <1>t, Stitch
<1>9. CASE AdvanceCheckpoint(p)
  <2>1. UNCHANGED <<ledger, cases, graph>> /\ Leave(p)
    BY <1>9 DEF AdvanceCheckpoint, evidence
  <2>2. /\ checkpoint'.cursor = manifest[p]
        /\ checkpoint'.consumed = prior[p].consumed \o delta[p]
        /\ batches' = batches \cup {Batch(p)}
    BY <1>9 DEF AdvanceCheckpoint, NextCheckpoint
  <2>3. ToSet(checkpoint'.consumed) = Seen(p)
    BY <2>2, <1>l, ConcatSet DEF Seen
  <2>4. todo[p] = {} /\ pc[p] = "checkpoint"
    BY <1>9, <1>c DEF AdvanceCheckpoint, Captured
  <2>5. Covered(checkpoint)'
    <3>1. ASSUME NEW f \in File, checkpoint'.cursor[f] # Absent
          PROVE  <<f, checkpoint'.cursor[f]>> \in ToSet(checkpoint'.consumed)
      BY <3>1, <2>2, <2>3, <2>4, <1>c DEF Captured
    <3>2. Seen(p) \subseteq ToSet(ledger) /\ AssertedBy(Seen(p)) \subseteq Subjects
      BY <2>4, <1>c DEF Captured, Covered, Seen, AssertedBy
    <3> QED BY <3>1, <3>2, <2>1, <2>3 DEF Covered, Subjects
  <2>6. Grows /\ LedgerUnique' /\ OneCasePerFingerprint'
    BY <2>1 DEF Grows, SyncInv, LedgerUnique, OneCasePerFingerprint
  <2>7. Recorded'
    <3>1. /\ ToSet(delta[p]) \subseteq ToSet(ledger)
          /\ Cased(ledger, ToSet(cases), ToSet(delta[p]), AssertedBy(Seen(p)))
      BY <2>4, <1>c DEF Captured
    <3>2. /\ Batch(p).new = ToSet(delta[p])
          /\ Batch(p).new \cup Batch(p).old = Seen(p)
      BY DEF Batch, Seen
    <3> QED BY <3>1, <3>2, <2>1, <2>2 DEF Recorded, SyncInv
  <2> QED BY <2>1, <2>5, <2>6, <2>7, <1>t, LeaveEmpty, Stitch
<1> QED BY <1>1, <1>2, <1>3, <1>4, <1>5, <1>6, <1>7, <1>8, <1>9
        DEF Step, Abort, ConsumptionInvalid, FetchFails, AssociateFails, ReasoningStale,
            DetectionStale, StaleCheckpoint, NothingNew, DuplicateSubject, Shared, files, evidence,
            committed

(* Edits of the files concern no run. *)
LEMMA SyncNext == SyncInv /\ [Next]_vars => SyncInv'
<1> SUFFICES ASSUME SyncInv, [Next]_vars PROVE SyncInv'
  OBVIOUS
<1>1. CASE Edit \/ UNCHANGED vars
  <2>1. UNCHANGED <<ledger, checkpoint, graph, cases, batches, pc, prior, manifest, todo, raw, delta>>
    BY <1>1 DEF Edit, vars, evidence, committed, local
  <2>2. TypeInv'
    BY TypeNext DEF SyncInv
  <2>3. \A p \in Proc : Captured(p)'
    BY <2>1 DEF SyncInv, Captured, Covered, Seen, Subjects
  <2> QED BY <2>1, <2>2, <2>3
    DEF SyncInv, LedgerUnique, OneCasePerFingerprint, Covered, Recorded, Subjects
<1> QED BY <1>1, SyncStep DEF Next

LEMMA SyncInvariant == Spec => []SyncInv
BY SyncInit, SyncNext, PTL DEF Spec

(* Every evidence has one place in the ledger, however runs interleave.    *)
THEOREM LedgerUniqueCorrect == Spec => []LedgerUnique
<1>1. SyncInv => LedgerUnique
  BY DEF SyncInv
<1> QED BY <1>1, SyncInvariant, PTL

(* The cursor never claims a content that was not captured and consumed.   *)
THEOREM CursorCoveredCorrect == Spec => []CursorCovered
<1>1. SyncInv => CursorCovered
  BY DEF SyncInv, Covered, CursorCovered
<1> QED BY <1>1, SyncInvariant, PTL

(* The conflicts that a consumed batch of evidence shows have their cases. *)
THEOREM ConsumedDriftHasCaseCorrect == Spec => []ConsumedDriftHasCase
<1>1. SyncInv => ConsumedDriftHasCase
  BY CasedMeans DEF SyncInv, Recorded, ConsumedDriftHasCase, AssertedBy
<1> QED BY <1>1, SyncInvariant, PTL

(* Concurrent runs never open two cases for one fingerprint.               *)
THEOREM OneCaseCorrect == Spec => []OneCasePerFingerprint
<1>1. SyncInv => OneCasePerFingerprint
  BY DEF SyncInv
<1> QED BY <1>1, SyncInvariant, PTL

(* The compare-and-set of the checkpoint only ever extends what was        *)
(* consumed.                                                               *)
THEOREM ConsumptionGrowsCorrect == Spec => ConsumptionGrows
<1>1. ASSUME SyncInv, [Next]_vars
      PROVE  [IsPrefix(checkpoint.consumed, checkpoint'.consumed)]_checkpoint
  <2>1. CASE UNCHANGED checkpoint
    BY <2>1
  <2>2. ASSUME NEW p \in Proc, AdvanceCheckpoint(p)
        PROVE  IsPrefix(checkpoint.consumed, checkpoint'.consumed)
    <3>1. checkpoint = prior[p] /\ checkpoint'.consumed = prior[p].consumed \o delta[p]
      BY <2>2 DEF AdvanceCheckpoint, NextCheckpoint
    <3>2. checkpoint.consumed \in Seq(Evidence) /\ delta[p] \in Seq(Evidence)
      BY <1>1 DEF SyncInv, TypeInv, TypeOK, Checkpoint
    <3> QED BY <3>1, <3>2, PrefixConcat
  <2>3. checkpoint' = checkpoint \/ \E p \in Proc : AdvanceCheckpoint(p)
    BY <1>1 DEF Next, Edit, vars, Step, Abort, ReadCheckpoint, ReadLedger, ConsumptionInvalid,
       Discover, Fetch, FetchFails, Associate, AssociateFails, LoadGraph, DuplicateSubject,
       ApplyReasoning, ReasoningStale, Detect, OpenCases, DetectionStale, StaleCheckpoint, NothingNew,
       committed
  <2> QED BY <2>1, <2>2, <2>3
<1> QED BY <1>1, SyncInvariant, PTL DEF Spec, ConsumptionGrows
=============================================================================
