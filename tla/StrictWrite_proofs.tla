-------------------------- MODULE StrictWrite_proofs --------------------------
(***************************************************************************)
(* Proofs about StrictWrite, for any number of concurrent strict writes,   *)
(* other files, faults and edits.                                          *)
(***************************************************************************)
EXTENDS StrictWrite, FiniteSetTheorems, TLAPS

Pc == {"idle", "outer", "rollback", "touched", "giveup", "close"}
      \cup Preparing \cup Stages \cup RollingBack \cup Ended
Content == {"none", "partial", "full", "empty"}
JobType == [pc : Pc, orig : Inode \cup {None}, size : Content, ok : BOOLEAN,
            touched : BOOLEAN, scrubbed : BOOLEAN, indeterminate : BOOLEAN,
            result : Ended \cup {"none"}]

TypeOK ==
  /\ dir \in [Name -> Inode \cup {None}] /\ data \in [Inode -> Content]
  /\ job \in [Writer -> JobType]
  /\ raced \subseteq Writer /\ broken \subseteq Writer /\ faults \in Nat /\ edits \in Nat

(* An inode has at most one name besides the link that others keep, for    *)
(* renames and exchanges move names; what was never written has none.      *)
OneName ==
  \A m, n \in Name \ {Backup} : dir[m] = dir[n] /\ dir[m] # None => m = n
Unborn == \A i \in Inode, n \in Name : data[i] = "none" => dir[n] # i
(* Files are emptied only by a write that displaced and touched them. *)
Scrubbed ==
  \A i \in File : data[i] \in {"none", "full"} \/ \E v \in Writer : job[v].touched /\ Orig(v) = i

Struct == TypeOK /\ OneName /\ Unborn /\ Scrubbed

(* What is under the private names of a write, and what it has noted, at   *)
(* each of its steps, whatever others do.                                  *)
Clean(w) == \A n \in Private(w) : dir[n] \in {None, w}
OnlyTmp(w) == dir[Aside(w)] = None /\ dir[Rolled(w)] = None /\ dir[Zero(w)] = None
Untouched(w) == ~job[w].touched /\ job[w].ok
Fresh(w) ==
  /\ dir[Tmp(w)] = w /\ OnlyTmp(w) /\ dir[Backup] # w /\ Untouched(w) /\ ~job[w].indeterminate

Own(w) ==
  /\ Orig(w) # None => data[Orig(w)] # "none"
  /\ job[w].touched => Orig(w) # None /\ dir[Aside(w)] = Orig(w)
  /\ At(w, "close") => job[w].result \in Ended
  /\ At(w, "idle") => /\ data[w] = "none" /\ Orig(w) = None /\ Untouched(w)
                      /\ ~job[w].indeterminate /\ dir[Tmp(w)] = None /\ OnlyTmp(w)
  /\ job[w].pc \in {"writing", "prepared", "open", "install"} => Fresh(w)
  /\ job[w].pc \in {"prepared", "open", "install"} => data[w] = "full"
  /\ At(w, "outer") /\ ~job[w].indeterminate => Fresh(w)
  /\ job[w].pc \in {"new-installed", "new-durable"}
       => Orig(w) = None /\ Untouched(w) /\ dir[Tmp(w)] = None /\ OnlyTmp(w)
  /\ job[w].pc \in {"existing-exchanged", "existing-durable"}
       => Orig(w) # None /\ Untouched(w) /\ OnlyTmp(w)
  /\ At(w, "original-quarantined") => /\ Orig(w) # None /\ Untouched(w) /\ dir[Aside(w)] = Orig(w)
                                      /\ dir[Rolled(w)] = None /\ dir[Zero(w)] = None
  /\ job[w].pc \in {"touched", "original-scrubbed"} => job[w].touched
  /\ At(w, "rollback") /\ Orig(w) = None => Untouched(w) /\ dir[Tmp(w)] \in {None, w} /\ OnlyTmp(w)
  /\ At(w, "rollback") /\ Orig(w) # None /\ ~job[w].touched
       => /\ dir[Aside(w)] \in {None, Orig(w)} /\ dir[Rolled(w)] = None /\ dir[Zero(w)] = None
          /\ job[w].ok
  /\ job[w].pc \in {"withdraw", "withdraw-move"}
       => Orig(w) = None /\ Untouched(w) /\ data[w] = "empty" /\ dir[Tmp(w)] \in {None, w} /\ OnlyTmp(w)
  /\ At(w, "withdraw-check")
       => /\ Orig(w) = None /\ Untouched(w) /\ data[w] = "empty" /\ dir[Tmp(w)] \in {None, w}
          /\ dir[Aside(w)] = None /\ dir[Zero(w)] = None
  /\ At(w, "restore") => /\ Orig(w) # None /\ Untouched(w) /\ dir[Tmp(w)] = Orig(w) /\ OnlyTmp(w)
  /\ At(w, "retire")
       => /\ ~job[w].touched /\ dir[Aside(w)] = None /\ dir[Zero(w)] = None
          /\ Orig(w) = None => dir[Tmp(w)] \in {None, w} /\ data[w] = "empty"
          /\ Orig(w) # None => dir[Tmp(w)] = w /\ dir[Rolled(w)] = None
          /\ job[w].ok => dir[Rolled(w)] \in {None, w}
  /\ At(w, "verify") => ~job[w].touched /\ data[w] = "empty" /\ (job[w].ok => Clean(w))
  /\ At(w, "failed") \/ (At(w, "close") /\ job[w].result = "failed")
       => ~job[w].touched /\ Clean(w)

(* A write that was not raced and met no I/O error finds what it left. *)
Undisturbed(w) ==
  /\ ~job[w].indeterminate /\ job[w].pc \notin {"giveup", "indeterminate"}
  /\ At(w, "close") => job[w].result # "indeterminate"
  /\ job[w].pc \in {"open", "install", "existing-exchanged", "existing-durable",
                    "original-quarantined", "rollback", "restore", "retire", "verify"}
       /\ Orig(w) # None /\ ~job[w].touched
       => data[Orig(w)] = job[w].size /\ dir[Backup] # Orig(w)
  /\ job[w].pc \in {"open", "install"} => dir[Target] = Orig(w)
  /\ job[w].pc \in {"new-installed", "new-durable", "existing-exchanged", "existing-durable",
                    "original-quarantined", "touched", "original-scrubbed"}
       => dir[Target] = w /\ dir[Backup] # w /\ data[w] = "full"
  /\ job[w].pc \in {"existing-exchanged", "existing-durable"} => dir[Tmp(w)] = Orig(w)
  /\ job[w].touched /\ job[w].pc \in {"touched", "original-scrubbed", "rollback"}
       => dir[Backup] # Orig(w)
  /\ At(w, "original-scrubbed") => job[w].scrubbed /\ data[Orig(w)] = "empty"
  /\ job[w].pc \in {"rollback", "withdraw"} /\ Orig(w) = None => dir[Target] \in {None, w}
  /\ At(w, "rollback") /\ job[w].touched
       => job[w].scrubbed /\ data[Orig(w)] = "empty" /\ dir[Target] = w /\ data[w] = "full"
  /\ At(w, "rollback") /\ Orig(w) # None /\ ~job[w].touched
       => \/ dir[Target] = Orig(w) /\ dir[Tmp(w)] = w /\ dir[Aside(w)] = None
          \/ dir[Target] = w /\ Orig(w) \in {dir[Tmp(w)], dir[Aside(w)]}
  /\ At(w, "withdraw-move") => dir[Target] = w
  /\ At(w, "withdraw-check") => dir[Target] = None /\ dir[Rolled(w)] = w
  /\ At(w, "restore") => dir[Target] = w
  /\ job[w].pc \in {"retire", "verify"} => job[w].ok /\ dir[Target] = Orig(w)
  /\ job[w].pc \in {"rollback"} \cup RollingBack => dir[Backup] # w

(* While no write is in doubt, the target and all that a rollback may put  *)
(* back into its place are complete: a set of inodes closed under what its *)
(* writers displaced.                                                      *)
Complete(i) == \/ data[i] = "full"
               \/ i \in Writer /\ Orig(i) = None /\ job[i].pc \in {"withdraw", "withdraw-move"}
Restorable(s) ==
  /\ dir[Target] \in s \cup {None}
  /\ \A i \in s : Complete(i)
  /\ \A w \in s \cap Writer :
       ~job[w].touched /\ Orig(w) # None /\ Orig(w) \in {dir[Tmp(w)], dir[Aside(w)]} => Orig(w) \in s
Quiet == \A w \in Writer : ~Doubtful(w)

Inv ==
  /\ Struct
  /\ \A w \in Writer : Own(w)
  /\ \A w \in Writer \ (raced \cup broken) : Undisturbed(w)
  /\ Quiet => \E s \in SUBSET Inode : Restorable(s)

(* The shape of a step of one write: it moves names among its private ones *)
(* and the target, writes its own file, or empties the one it set aside.   *)
DirStep(w) ==
  /\ dir' \in [Name -> Inode \cup {None}] /\ OneName' /\ dir'[Backup] = dir[Backup]
  /\ \A u \in Writer \ {w}, n \in Name : n \in Private(u) => dir'[n] = dir[n]
  /\ \A n \in Name : \/ dir'[n] = None \/ \E m \in Name : dir'[n] = dir[m]
                     \/ dir'[n] = w /\ data'[w] # "none"
DataStep(w) ==
  /\ data' \in [Inode -> Content]
  /\ data'[w] = data[w] \/ data'[w] # "none"
  /\ \A i \in Inode \ {w} :
       \/ data'[i] = data[i]
       \/ /\ data'[i] = "empty" /\ data[i] # "none" /\ dir[Aside(w)] = i
          /\ job'[w].touched /\ job'[w].orig = i
JobStep(w) ==
  /\ job' \in [Writer -> JobType] /\ \A u \in Writer \ {w} : job'[u] = job[u]
  /\ job[w].touched => job'[w].touched /\ job'[w].orig = job[w].orig
  /\ Doubtful(w) => Doubtful(w)'
Frame(w) == DirStep(w) /\ DataStep(w) /\ JobStep(w)

-----------------------------------------------------------------------------
(* Names. *)
LEMMA SharedNames == Target \in Name /\ Backup \in Name /\ Target # Backup
BY DEF Name, Target, Backup

LEMMA PrivateNames ==
  ASSUME NEW w \in Writer
  PROVE  /\ Tmp(w) \in Name /\ Aside(w) \in Name /\ Rolled(w) \in Name /\ Zero(w) \in Name
         /\ Target \notin Private(w) /\ Backup \notin Private(w)
         /\ Tmp(w) # Aside(w) /\ Tmp(w) # Rolled(w) /\ Tmp(w) # Zero(w)
         /\ Aside(w) # Rolled(w) /\ Aside(w) # Zero(w) /\ Rolled(w) # Zero(w)
<1>1. Tmp(w) \in Private(w) /\ Aside(w) \in Private(w) /\ Rolled(w) \in Private(w) /\ Zero(w) \in Private(w)
  BY DEF Private
<1>2. Private(w) \subseteq Name
  BY DEF Name
<1>3. w # None
  BY StrictWriteAssumption
<1>4. Target \notin Private(w) /\ Backup \notin Private(w)
  BY <1>3 DEF Target, Backup, Private, Tmp, Aside, Rolled, Zero
<1>5. /\ Tmp(w) # Aside(w) /\ Tmp(w) # Rolled(w) /\ Tmp(w) # Zero(w)
      /\ Aside(w) # Rolled(w) /\ Aside(w) # Zero(w) /\ Rolled(w) # Zero(w)
  BY DEF Tmp, Aside, Rolled, Zero
<1> QED BY <1>1, <1>2, <1>4, <1>5

LEMMA OthersNames ==
  ASSUME NEW u \in Writer, NEW w \in Writer, u # w
  PROVE  \A n \in Private(u) : n \notin Private(w)
BY DEF Private, Tmp, Aside, Rolled, Zero

(* The names that a write uses, besides those of others. *)
LEMMA NamesOf ==
  ASSUME NEW w \in Writer, NEW n, n \in Private(w) \cup {Target}
  PROVE  /\ n \in Name \ {Backup}
         /\ \A u \in Writer \ {w} : n \notin Private(u)
<1>1. CASE n = Target
  BY <1>1, SharedNames, PrivateNames
<1>2. CASE n \in Private(w)
  BY <1>2, PrivateNames, OthersNames DEF Private
<1> QED BY <1>1, <1>2

(* The number of links of an inode that has a name of its own. *)
LEMMA CountOne ==
  ASSUME NEW d, NEW n \in Name \ {Backup}, NEW i, d[n] = i,
         \A m \in Name \ {Backup} : d[m] = i => m = n
  PROVE  Cardinality({m \in Name : d[m] = i}) = 1 <=> d[Backup] # i
<1>1. CASE d[Backup] # i
  <2>1. {m \in Name : d[m] = i} = {n}
    BY <1>1
  <2> QED BY <1>1, <2>1, FS_Singleton
<1>2. CASE d[Backup] = i
  <2>1. {m \in Name : d[m] = i} = {n} \cup {Backup}
    BY <1>2, SharedNames
  <2>2. IsFiniteSet({n}) /\ Cardinality({n}) = 1 /\ Backup \notin {n}
    BY FS_Singleton
  <2>3. Cardinality({n} \cup {Backup}) = 1 + 1
    BY <2>2, FS_AddElement
  <2> QED BY <1>2, <2>1, <2>3
<1> QED BY <1>1, <1>2

LEMMA CountFew ==
  ASSUME NEW d, NEW i, d[Backup] # i,
         \A m, n \in Name \ {Backup} : d[m] = i /\ d[n] = i => m = n
  PROVE  Cardinality({m \in Name : d[m] = i}) <= 1
<1>1. CASE \E n \in Name \ {Backup} : d[n] = i
  <2>1. PICK n \in Name \ {Backup} : d[n] = i
    BY <1>1
  <2>2. {m \in Name : d[m] = i} = {n}
    BY <2>1
  <2> QED BY <2>2, FS_Singleton
<1>2. CASE ~\E n \in Name \ {Backup} : d[n] = i
  <2>1. {m \in Name : d[m] = i} = {}
    BY <1>2
  <2> QED BY <2>1, FS_EmptySet
<1> QED BY <1>1, <1>2

LEMMA SafeOne ==
  ASSUME OneName, NEW n \in Name \ {Backup}, NEW i, i # None
  PROVE  /\ Safe(n, i) <=> dir[n] = i /\ dir[Backup] # i
         /\ dir[n] = i => (Links(i) = 1 <=> dir[Backup] # i)
<1>1. ASSUME dir[n] = i PROVE Links(i) = 1 <=> dir[Backup] # i
  <2>1. \A m \in Name \ {Backup} : dir[m] = i => m = n
    BY <1>1 DEF OneName
  <2> QED BY <1>1, <2>1, CountOne DEF Links
<1> QED BY <1>1 DEF Safe

-----------------------------------------------------------------------------
(* The shapes of a change of the directory. *)
LEMMA SameDir ==
  ASSUME Struct, NEW w \in Writer, UNCHANGED dir
  PROVE  DirStep(w)
BY DEF Struct, TypeOK, OneName, DirStep

LEMMA MoveDir ==
  ASSUME Struct, NEW w \in Writer, NEW a, NEW b, a # b,
         a \in Private(w) \cup {Target}, b \in Private(w) \cup {Target},
         dir' = Moved(a, b)
  PROVE  /\ DirStep(w) /\ dir'[a] = None /\ dir'[b] = dir[a]
         /\ \A n \in Name : n # a /\ n # b => dir'[n] = dir[n]
<1>1. a \in Name \ {Backup} /\ b \in Name \ {Backup}
  BY NamesOf
<1>2. dir \in [Name -> Inode \cup {None}] /\ OneName
  BY DEF Struct, TypeOK
<1>3. /\ dir' \in [Name -> Inode \cup {None}] /\ dir'[a] = None /\ dir'[b] = dir[a]
      /\ \A n \in Name : n # a /\ n # b => dir'[n] = dir[n]
  BY <1>1, <1>2 DEF Moved
<1>4. OneName'
  BY <1>1, <1>2, <1>3 DEF OneName
<1>5. \A u \in Writer \ {w}, n \in Name : n \in Private(u) => dir'[n] = dir[n]
  BY <1>3, NamesOf
<1>6. dir'[Backup] = dir[Backup]
  BY <1>1, <1>3, SharedNames
<1>7. \A n \in Name : dir'[n] = None \/ \E m \in Name : dir'[n] = dir[m]
  BY <1>1, <1>3
<1> QED BY <1>3, <1>4, <1>5, <1>6, <1>7 DEF DirStep

LEMMA ExchangeDir ==
  ASSUME Struct, NEW w \in Writer, NEW a, NEW b, a # b,
         a \in Private(w) \cup {Target}, b \in Private(w) \cup {Target},
         dir' = Exchanged(a, b)
  PROVE  /\ DirStep(w) /\ dir'[a] = dir[b] /\ dir'[b] = dir[a]
         /\ \A n \in Name : n # a /\ n # b => dir'[n] = dir[n]
<1>1. a \in Name \ {Backup} /\ b \in Name \ {Backup}
  BY NamesOf
<1>2. dir \in [Name -> Inode \cup {None}] /\ OneName
  BY DEF Struct, TypeOK
<1>3. /\ dir' \in [Name -> Inode \cup {None}] /\ dir'[a] = dir[b] /\ dir'[b] = dir[a]
      /\ \A n \in Name : n # a /\ n # b => dir'[n] = dir[n]
  BY <1>1, <1>2 DEF Exchanged
<1>4. OneName'
  BY <1>1, <1>2, <1>3 DEF OneName
<1>5. \A u \in Writer \ {w}, n \in Name : n \in Private(u) => dir'[n] = dir[n]
  BY <1>3, NamesOf
<1>6. dir'[Backup] = dir[Backup]
  BY <1>1, <1>3, SharedNames
<1>7. \A n \in Name : dir'[n] = None \/ \E m \in Name : dir'[n] = dir[m]
  BY <1>1, <1>3
<1> QED BY <1>3, <1>4, <1>5, <1>6, <1>7 DEF DirStep

(* The shapes of a change of contents. *)
LEMMA SameData == ASSUME Struct, NEW w \in Writer, UNCHANGED data PROVE DataStep(w)
BY DEF Struct, TypeOK, DataStep

LEMMA OwnData ==
  ASSUME Struct, NEW w \in Writer, NEW x \in Content \ {"none"}, data' = [data EXCEPT ![w] = x]
  PROVE  /\ DataStep(w) /\ data'[w] = x /\ \A i \in Inode \ {w} : data'[i] = data[i]
BY DEF Struct, TypeOK, DataStep, Inode

-----------------------------------------------------------------------------
(* What a step of one write leaves to the others. *)
LEMMA Parts ==
  ASSUME Inv
  PROVE  /\ Struct /\ TypeOK /\ OneName /\ Unborn
         /\ \A w \in Writer : Own(w) /\ job[w] \in JobType
BY DEF Inv, Struct, TypeOK

LEMMA StructStep ==
  ASSUME Inv, NEW w \in Writer, Frame(w),
         raced' \subseteq Writer, broken' \subseteq Writer, faults' \in Nat, edits' \in Nat
  PROVE  Struct'
<1> USE DEF Frame
<1>1. TypeOK' /\ OneName'
  BY DEF TypeOK, DirStep, DataStep, JobStep
<1>2. Unborn'
  <2> SUFFICES ASSUME NEW i \in Inode, NEW n \in Name, data'[i] = "none" PROVE dir'[n] # i
    BY DEF Unborn
  <2>1. data[i] = "none" /\ (i = w => data'[w] = "none")
    BY DEF DataStep
  <2>2. \A m \in Name : dir[m] # i
    BY <2>1, Parts DEF Unborn
  <2>3. i # None
    BY StrictWriteAssumption DEF Inode
  <2> QED BY <2>1, <2>2, <2>3 DEF DirStep
<1>3. Scrubbed'
  <2> SUFFICES ASSUME NEW i \in File, data'[i] \notin {"none", "full"}
               PROVE  \E v \in Writer : job'[v].touched /\ job'[v].orig = i
    BY DEF Scrubbed, Orig
  <2>1. i \in Inode \ {w}
    BY StrictWriteAssumption DEF Inode
  <2>2. CASE data'[i] = data[i]
    <3>1. PICK v \in Writer : job[v].touched /\ job[v].orig = i
      BY <2>2 DEF Inv, Struct, Scrubbed, Orig
    <3> QED BY <3>1 DEF JobStep
  <2>3. CASE data'[i] # data[i]
    BY <2>1, <2>3 DEF DataStep
  <2> QED BY <2>2, <2>3
<1> QED BY <1>1, <1>2, <1>3 DEF Struct

LEMMA OthersFrame ==
  ASSUME Inv, NEW w \in Writer, Frame(w), NEW u \in Writer, u # w
  PROVE  /\ job'[u] = job[u] /\ dir'[Backup] = dir[Backup]
         /\ dir'[Tmp(u)] = dir[Tmp(u)] /\ dir'[Aside(u)] = dir[Aside(u)]
         /\ dir'[Rolled(u)] = dir[Rolled(u)] /\ dir'[Zero(u)] = dir[Zero(u)]
         /\ \/ data'[u] = data[u]
            \/ data'[u] = "empty" /\ data[u] # "none" /\ dir[Aside(w)] = u
         /\ dir[Tmp(u)] = u => dir[Aside(w)] # u
         /\ dir[Target] = u => dir[Aside(w)] # u
<1>1. job'[u] = job[u] /\ dir'[Backup] = dir[Backup]
  BY DEF Frame, JobStep, DirStep
<1>2. \A n \in Private(u) : dir'[n] = dir[n]
  BY PrivateNames DEF Frame, DirStep, Private
<1>3. u \in Inode \ {w} /\ u # None
  BY StrictWriteAssumption DEF Inode
<1>4. \/ data'[u] = data[u]
      \/ data'[u] = "empty" /\ data[u] # "none" /\ dir[Aside(w)] = u
  BY <1>3 DEF Frame, DataStep
<1>5. Tmp(u) # Aside(w) /\ Target # Aside(w) /\ Tmp(u) # Backup /\ Aside(w) # Backup
  BY PrivateNames, OthersNames DEF Private
<1>6. (dir[Tmp(u)] = u => dir[Aside(w)] # u) /\ (dir[Target] = u => dir[Aside(w)] # u)
  BY <1>3, <1>5, Parts, PrivateNames, SharedNames DEF OneName
<1> QED BY <1>1, <1>2, <1>4, <1>6 DEF Private

LEMMA OthersOwn ==
  ASSUME Inv, NEW w \in Writer, Frame(w), NEW u \in Writer, u # w
  PROVE  Own(u)'
<1>1. Own(u)
  BY Parts
<1>2. job[u].orig \in Inode \cup {None}
  BY Parts DEF JobType
<1>3. job[u].orig # None => data'[job[u].orig] # "none"
  BY <1>1, <1>2 DEF Own, Orig, Frame, DataStep
<1>4. CASE data'[u] = data[u]
  BY <1>1, <1>3, <1>4, OthersFrame DEF Own, Orig, At, Fresh, OnlyTmp, Untouched, Clean, Private
<1>5. CASE data'[u] = "empty" /\ data[u] # "none" /\ dir[Tmp(u)] # u
  BY <1>1, <1>3, <1>5, OthersFrame DEF Own, Orig, At, Fresh, OnlyTmp, Untouched, Clean, Private
<1> QED BY <1>4, <1>5, OthersFrame

LEMMA OthersUndisturbed ==
  ASSUME Inv, NEW w \in Writer, Frame(w), NEW u \in Writer, u # w, u \notin raced \cup broken,
         \/ job[u].pc \in {"idle", "writing", "prepared"} \cup Ended
         \/ /\ dir'[Target] = dir[Target]
            /\ job[u].orig = w => data'[w] = data[w] \/ (data'[w] = "empty" /\ dir[Aside(w)] = w)
  PROVE  Undisturbed(u)'
<1>1. Undisturbed(u) /\ Own(u) /\ job[u].orig \in Inode \cup {None} /\ job[u] \in JobType
  BY Parts DEF Inv, JobType
<1>2. CASE job[u].pc \in {"idle", "writing", "prepared"} \cup Ended
  BY <1>1, <1>2, OthersFrame DEF Undisturbed, At, Ended, RollingBack
<1>3. CASE /\ job[u].pc \notin {"idle", "writing", "prepared"} \cup Ended
           /\ dir'[Target] = dir[Target]
           /\ job[u].orig = w => data'[w] = data[w] \/ (data'[w] = "empty" /\ dir[Aside(w)] = w)
  <2> DEFINE o == job[u].orig
  <2>1. o # None /\ (o = dir[Target] \/ o = dir[Tmp(u)] \/ o = dir[Aside(u)]) => dir[Aside(w)] # o
    <3>1. Tmp(u) # Aside(w) /\ Aside(u) # Aside(w) /\ Target # Aside(w)
      BY PrivateNames, OthersNames DEF Private
    <3>2. {Tmp(u), Aside(u), Target, Aside(w)} \subseteq Name \ {Backup}
      BY PrivateNames, SharedNames DEF Private
    <3> QED BY <3>1, <3>2, Parts DEF OneName
  <2>2. o # None => data'[o] = data[o] \/ (data'[o] = "empty" /\ dir[Aside(w)] = o)
    BY <1>1, <1>3 DEF Frame, DataStep
  <2>3. dir[Target] = u => data'[u] = data[u]
    BY OthersFrame
  <2> HIDE DEF o
  <2>4. o # None /\ ~job[u].touched
          /\ job[u].pc \in {"open", "install", "existing-exchanged", "existing-durable",
                    "original-quarantined", "rollback", "restore", "retire", "verify"}
          => o = dir[Target] \/ o = dir[Tmp(u)] \/ o = dir[Aside(u)]
    BY <1>1 DEF Undisturbed, Own, At, Orig, o
  <2>5. o # None /\ ~job[u].touched
          /\ job[u].pc \in {"open", "install", "existing-exchanged", "existing-durable",
                    "original-quarantined", "rollback", "restore", "retire", "verify"}
          => data'[o] = data[o]
    BY <2>1, <2>2, <2>4
  <2>6. data[o] = "empty" /\ o # None => data'[o] = "empty"
    BY <2>2
  <2>7. job[u].touched \/ job[u].pc = "original-scrubbed" => o # None
    BY <1>1 DEF Own, Orig, o
  <2>8. /\ job'[u] = job[u] /\ dir'[Backup] = dir[Backup] /\ dir'[Target] = dir[Target]
        /\ dir'[Tmp(u)] = dir[Tmp(u)] /\ dir'[Aside(u)] = dir[Aside(u)] /\ dir'[Rolled(u)] = dir[Rolled(u)]
    BY <1>3, OthersFrame
  <2> QED BY <1>1, <2>3, <2>5, <2>6, <2>7, <2>8 DEF Undisturbed, At, Orig, o
<1> QED BY <1>2, <1>3

LEMMA OthersQuiet ==
  ASSUME Inv, NEW w \in Writer, Frame(w), Quiet'
  PROVE  Quiet
BY DEF Frame, JobStep, Quiet, Doubtful

(* The files that rollbacks may put back stay complete: a file that stops  *)
(* being complete lies under a private name of the write that steps.       *)
LEMMA KeepRestorable ==
  ASSUME Inv, NEW w \in Writer, Frame(w), Quiet',
         dir'[Target] \in {dir[Target], None},
         \A i \in Inode : Complete(i) /\ ~Complete(i)' => \E n \in Private(w) : dir[n] = i,
         ~job'[w].touched /\ job'[w].orig # None /\ job'[w].orig \in {dir'[Tmp(w)], dir'[Aside(w)]} =>
             /\ ~job[w].touched /\ job'[w].orig = job[w].orig
             /\ job[w].orig \in {dir[Tmp(w)], dir[Aside(w)]}
             /\ Complete(Orig(w)) => Complete(Orig(w))'
  PROVE  \E s \in SUBSET Inode : Restorable(s)'
<1>1. PICK s \in SUBSET Inode : Restorable(s)
  BY OthersQuiet DEF Inv
<1>t. PICK t \in SUBSET Inode : t = {i \in s : Complete(i)'}
  OBVIOUS
<1>2. ASSUME NEW i \in s, ~Complete(i)'
      PROVE  /\ dir[Target] # i
             /\ \A u \in Writer \ {w} : dir[Tmp(u)] # i /\ dir[Aside(u)] # i
  <2>1. i \in Inode /\ i # None /\ Complete(i)
    BY <1>1, StrictWriteAssumption DEF Restorable, Inode
  <2>2. PICK n \in Private(w) : dir[n] = i
    BY <1>2, <2>1
  <2>3. n \in Name \ {Backup} /\ n # Target
    BY NamesOf, PrivateNames
  <2>4. \A u \in Writer \ {w} : n # Tmp(u) /\ n # Aside(u)
    BY OthersNames DEF Private
  <2>5. \A u \in Writer : {Tmp(u), Aside(u), Target} \subseteq Name \ {Backup}
    BY PrivateNames, SharedNames DEF Private
  <2> QED BY <2>1, <2>2, <2>3, <2>4, <2>5, Parts DEF OneName
<1>3. dir'[Target] \in t \cup {None}
  BY <1>1, <1>2, <1>t DEF Restorable
<1>4. ASSUME NEW u \in t \cap Writer, ~job'[u].touched, job'[u].orig # None,
             job'[u].orig \in {dir'[Tmp(u)], dir'[Aside(u)]}
      PROVE  job'[u].orig \in t
  <2>1. CASE u = w
    <3>1. /\ ~job[w].touched /\ job'[w].orig = job[w].orig
          /\ job[w].orig \in {dir[Tmp(w)], dir[Aside(w)]} /\ job[w].orig # None
          /\ Complete(Orig(w)) => Complete(Orig(w))'
      BY <1>4, <2>1
    <3>2. job[w].orig \in s
      BY <1>1, <1>4, <1>t, <2>1, <3>1 DEF Restorable, Orig
    <3>3. Complete(Orig(w))'
      BY <1>1, <3>1, <3>2 DEF Restorable, Orig
    <3>4. ASSUME NEW i \in s, i = job'[w].orig PROVE Complete(i)'
      BY <3>3, <3>4 DEF Complete, Orig
    <3> QED BY <1>t, <2>1, <3>1, <3>2, <3>4
  <2>2. CASE u # w
    <3>1. job'[u] = job[u] /\ dir'[Tmp(u)] = dir[Tmp(u)] /\ dir'[Aside(u)] = dir[Aside(u)]
      BY <2>2, OthersFrame
    <3>2. job[u].orig \in s
      BY <1>1, <1>4, <1>t, <3>1 DEF Restorable, Orig
    <3> QED BY <1>2, <1>4, <1>t, <2>2, <3>1, <3>2
  <2> QED BY <2>1, <2>2
<1>5. Restorable(t)'
  BY <1>3, <1>4, <1>t DEF Restorable, Orig
<1> QED BY <1>5

LEMMA NothingToRestore ==
  ASSUME dir'[Target] = None PROVE \E s \in SUBSET Inode : Restorable(s)'
<1>1. Restorable({})'
  BY DEF Restorable
<1> QED BY <1>1

LEMMA InDoubt ==
  ASSUME NEW w \in Writer, Doubtful(w)' PROVE ~Quiet'
BY DEF Quiet

(* A step of one write preserves the invariant when it keeps what it needs *)
(* itself.                                                                 *)
LEMMA StepInv ==
  ASSUME Inv, NEW w \in Writer, Frame(w), Races({w}), UNCHANGED <<broken, faults, edits>>,
         Own(w)', w \notin raced \cup broken => Undisturbed(w)',
         Quiet' => \E s \in SUBSET Inode : Restorable(s)'
  PROVE  Inv'
<1>1. raced' \subseteq Writer /\ raced \subseteq raced' /\ (w \in raced' => w \in raced)
  BY Parts DEF Races, TypeOK
<1>2. Struct'
  BY <1>1, StructStep, Parts DEF TypeOK
<1>3. \A u \in Writer : Own(u)'
  BY OthersOwn
<1>4. ASSUME NEW u \in Writer, u \notin raced' \cup broken' PROVE Undisturbed(u)'
  <2>1. CASE u = w
    BY <1>1, <1>4, <2>1
  <2>2. CASE u # w
    <3>1. u \notin raced \cup broken
      BY <1>1, <1>4
    <3>2. CASE job[u].pc \in {"idle", "writing", "prepared"} \cup Ended
      BY <2>2, <3>1, <3>2, OthersUndisturbed
    <3>3. CASE job[u].pc \notin {"idle", "writing", "prepared"} \cup Ended
      <4>1. Exposed(u) /\ u \in Writer \ {w}
        BY <2>2, <3>3 DEF Exposed
      <4>2. Shared' = Shared /\ ~(Orig(u) # None /\ data'[Orig(u)] # data[Orig(u)])
        BY <1>4, <4>1 DEF Races
      <4>3. dir'[Target] = dir[Target] /\ (job[u].orig = w => data'[w] = data[w])
        BY <4>2, StrictWriteAssumption DEF Shared, Orig
      <4> QED BY <2>2, <3>1, <4>3, OthersUndisturbed
    <3> QED BY <3>2, <3>3
  <2> QED BY <2>1, <2>2
<1> QED BY <1>2, <1>3, <1>4 DEF Inv

-----------------------------------------------------------------------------
(* The steps of a write.  From here on a write's notes are read directly.  *)
USE DEF At, Orig, Fresh, OnlyTmp, Untouched

LEMMA JobChange ==
  ASSUME Inv, NEW w \in Writer, NEW r \in JobType, job' = [job EXCEPT ![w] = r],
         job[w].touched => r.touched /\ r.orig = job[w].orig,
         Doubtful(w) => r.indeterminate \/ r.pc = "giveup" \/ ~r.ok
  PROVE  JobStep(w) /\ job'[w] = r
<1>1. job \in [Writer -> JobType]
  BY Parts DEF TypeOK
<1>2. /\ job' \in [Writer -> JobType] /\ job'[w] = r
      /\ \A u \in Writer \ {w} : job'[u] = job[u]
  BY <1>1
<1> QED BY <1>2 DEF JobStep, Doubtful

(* A step that only goes on to another place. *)
LEMMA GotoJob ==
  ASSUME Inv, NEW w \in Writer, NEW pc \in Pc, Goto(w, pc), ~At(w, "giveup")
  PROVE  /\ JobStep(w) /\ job'[w].pc = pc
         /\ job'[w].orig = job[w].orig /\ job'[w].size = job[w].size /\ job'[w].ok = job[w].ok
         /\ job'[w].touched = job[w].touched /\ job'[w].scrubbed = job[w].scrubbed
         /\ job'[w].indeterminate = job[w].indeterminate /\ job'[w].result = job[w].result
<1> DEFINE r == [job[w] EXCEPT !.pc = pc]
<1>1. job[w] \in JobType
  BY Parts
<1>2. /\ r \in JobType /\ r.pc = pc
      /\ r.orig = job[w].orig /\ r.size = job[w].size /\ r.ok = job[w].ok
      /\ r.touched = job[w].touched /\ r.scrubbed = job[w].scrubbed
      /\ r.indeterminate = job[w].indeterminate /\ r.result = job[w].result
  BY <1>1 DEF JobType
<1>3. job' = [job EXCEPT ![w] = r]
  BY DEF Goto
<1> HIDE DEF r
<1>4. Doubtful(w) => r.indeterminate \/ r.pc = "giveup" \/ ~r.ok
  BY <1>2 DEF Doubtful
<1>5. JobStep(w) /\ job'[w] = r
  BY <1>2, <1>3, <1>4, JobChange
<1> QED BY <1>2, <1>5

LEMMA FinishJob ==
  ASSUME Inv, NEW w \in Writer, NEW result \in Ended, Finish(w, result), ~At(w, "giveup")
  PROVE  /\ JobStep(w) /\ job'[w].pc = "close" /\ job'[w].result = result
         /\ job'[w].orig = job[w].orig /\ job'[w].ok = job[w].ok
         /\ job'[w].touched = job[w].touched
         /\ job'[w].indeterminate = job[w].indeterminate
<1> DEFINE r == [job[w] EXCEPT !.pc = "close", !.result = result]
<1>1. job[w] \in JobType /\ "close" \in Pc
  BY Parts DEF Pc
<1>2. /\ r \in JobType /\ r.pc = "close" /\ r.result = result
      /\ r.orig = job[w].orig /\ r.ok = job[w].ok
      /\ r.touched = job[w].touched /\ r.indeterminate = job[w].indeterminate
  BY <1>1 DEF JobType
<1>3. job' = [job EXCEPT ![w] = r]
  BY DEF Finish
<1> HIDE DEF r
<1>4. JobStep(w) /\ job'[w] = r
  BY <1>2, <1>3, JobChange DEF Doubtful
<1> QED BY <1>2, <1>4

(* A step that only looks at the directory and takes a note. *)
LEMMA LookInv ==
  ASSUME Inv, NEW w \in Writer, UNCHANGED <<dir, data>>, JobStep(w),
         job'[w].orig = job[w].orig, job[w].pc \notin {"withdraw", "withdraw-move"},
         Own(w)', w \notin raced \cup broken => Undisturbed(w)',
         Races({w}), UNCHANGED <<broken, faults, edits>>
  PROVE  Inv'
<1>1. Frame(w)
  BY SameDir, SameData, Parts DEF Frame
<1>2. ASSUME Quiet' PROVE \E s \in SUBSET Inode : Restorable(s)'
  <2>1. \A i \in Inode : Complete(i) => Complete(i)'
    BY DEF JobStep, Complete
  <2>2. ~job'[w].touched => ~job[w].touched
    BY DEF JobStep
  <2>3. Complete(Orig(w)) => Complete(Orig(w))'
    BY DEF JobStep, Complete
  <2> QED BY <1>1, <1>2, <2>1, <2>2, <2>3, KeepRestorable
<1> QED BY <1>1, <1>2, StepInv

LEMMA OpenTargetInv ==
  ASSUME Inv, NEW w \in Writer, OpenTarget(w), Races({w}), UNCHANGED <<broken, faults, edits>>
  PROVE  Inv'
<1>1. PICK pc \in {"install", "outer"} :
        Goto(w, pc) /\ (pc = "outer" => ~Safe(Target, Orig(w)))
  BY DEF OpenTarget, IfThenGoto
<1>2. At(w, "open") /\ UNCHANGED <<dir, data>> /\ Own(w) /\ pc \in Pc
  BY Parts DEF OpenTarget, Pc, Stages
<1>3. /\ JobStep(w) /\ job'[w].pc = pc /\ job'[w].orig = job[w].orig /\ job'[w].size = job[w].size
      /\ job'[w].ok = job[w].ok /\ job'[w].touched = job[w].touched
      /\ job'[w].indeterminate = job[w].indeterminate
  BY <1>1, <1>2, GotoJob
<1>4. Own(w)'
  BY <1>1, <1>2, <1>3 DEF Own
<1>5. ASSUME w \notin raced \cup broken PROVE Undisturbed(w)'
  BY <1>1, <1>2, <1>3, <1>5 DEF Undisturbed, Inv, RollingBack
<1> QED BY <1>2, <1>3, <1>4, <1>5, LookInv

LEMMA CheckNewInv ==
  ASSUME Inv, NEW w \in Writer, CheckNew(w), Races({w}), UNCHANGED <<broken, faults, edits>>
  PROVE  Inv'
<1>1. PICK pc \in {"new-durable", "rollback"} : Goto(w, pc)
  BY DEF CheckNew, IfThenGoto
<1>2. At(w, "new-installed") /\ UNCHANGED <<dir, data>> /\ Own(w) /\ pc \in Pc
  BY Parts DEF CheckNew, Pc, Stages
<1>3. /\ JobStep(w) /\ job'[w].pc = pc /\ job'[w].orig = job[w].orig /\ job'[w].size = job[w].size
      /\ job'[w].ok = job[w].ok /\ job'[w].touched = job[w].touched
      /\ job'[w].indeterminate = job[w].indeterminate
  BY <1>1, <1>2, GotoJob
<1>4. Own(w)'
  BY <1>1, <1>2, <1>3 DEF Own
<1>5. ASSUME w \notin raced \cup broken PROVE Undisturbed(w)'
  <2>1. Undisturbed(w)
    BY <1>5 DEF Inv
  <2> QED BY <1>1, <1>2, <1>3, <1>5, <2>1 DEF Undisturbed, RollingBack, Own
<1> QED BY <1>2, <1>3, <1>4, <1>5, LookInv

LEMMA CommitNewInv ==
  ASSUME Inv, NEW w \in Writer, CommitNew(w), Races({w}), UNCHANGED <<broken, faults, edits>>
  PROVE  Inv'
<1>1. At(w, "new-durable") /\ UNCHANGED <<dir, data>> /\ Own(w)
  BY Parts DEF CommitNew
<1>2. CASE Finish(w, "committed")
  <2>1. /\ JobStep(w) /\ job'[w].pc = "close" /\ job'[w].result = "committed"
        /\ job'[w].orig = job[w].orig /\ job'[w].touched = job[w].touched
        /\ job'[w].indeterminate = job[w].indeterminate
    BY <1>1, <1>2, FinishJob DEF Ended
  <2>2. Own(w)'
    BY <1>1, <2>1 DEF Own, Ended
  <2>3. ASSUME w \notin raced \cup broken PROVE Undisturbed(w)'
    <3>1. Undisturbed(w)
      BY <2>3 DEF Inv
    <3> QED BY <1>1, <2>1, <2>2, <2>3, <3>1 DEF Undisturbed, RollingBack, Own
  <2> QED BY <1>1, <2>1, <2>2, <2>3, LookInv
<1>3. CASE Goto(w, "rollback")
  <2>1. /\ JobStep(w) /\ job'[w].pc = "rollback" /\ job'[w].orig = job[w].orig
        /\ job'[w].ok = job[w].ok /\ job'[w].touched = job[w].touched
        /\ job'[w].indeterminate = job[w].indeterminate
    BY <1>1, <1>3, GotoJob DEF Pc
  <2>2. Own(w)'
    BY <1>1, <2>1 DEF Own, Ended
  <2>3. ASSUME w \notin raced \cup broken PROVE Undisturbed(w)'
    <3>1. Undisturbed(w)
      BY <2>3 DEF Inv
    <3> QED BY <1>1, <2>1, <2>2, <2>3, <3>1 DEF Undisturbed, RollingBack, Own
  <2> QED BY <1>1, <2>1, <2>2, <2>3, LookInv
<1> QED BY <1>2, <1>3 DEF CommitNew

LEMMA CheckExchangedInv ==
  ASSUME Inv, NEW w \in Writer, CheckExchanged(w), Races({w}), UNCHANGED <<broken, faults, edits>>
  PROVE  Inv'
<1>1. PICK pc \in {"existing-durable", "rollback"} : Goto(w, pc)
  BY DEF CheckExchanged, IfThenGoto
<1>2. At(w, "existing-exchanged") /\ UNCHANGED <<dir, data>> /\ Own(w) /\ pc \in Pc
  BY Parts DEF CheckExchanged, Pc, Stages
<1>3. /\ JobStep(w) /\ job'[w].pc = pc /\ job'[w].orig = job[w].orig /\ job'[w].size = job[w].size
      /\ job'[w].ok = job[w].ok /\ job'[w].touched = job[w].touched
      /\ job'[w].indeterminate = job[w].indeterminate
  BY <1>1, <1>2, GotoJob
<1>4. Own(w)'
  BY <1>1, <1>2, <1>3 DEF Own
<1>5. ASSUME w \notin raced \cup broken PROVE Undisturbed(w)'
  <2>1. Undisturbed(w)
    BY <1>5 DEF Inv
  <2> QED BY <1>1, <1>2, <1>3, <1>5, <2>1 DEF Undisturbed, RollingBack, Own
<1> QED BY <1>2, <1>3, <1>4, <1>5, LookInv

LEMMA TouchInv ==
  ASSUME Inv, NEW w \in Writer, Touch(w), Races({w}), UNCHANGED <<broken, faults, edits>>
  PROVE  Inv'
<1>1. At(w, "original-quarantined") /\ UNCHANGED <<dir, data>> /\ Own(w) /\ job[w] \in JobType
  BY Parts DEF Touch
<1>2. CASE job' = [job EXCEPT ![w].pc = "touched", ![w].touched = TRUE]
  <2> DEFINE r == [job[w] EXCEPT !.pc = "touched", !.touched = TRUE]
  <2>1. r \in JobType /\ r.pc = "touched" /\ r.touched /\ r.orig = job[w].orig
        /\ r.ok = job[w].ok /\ r.indeterminate = job[w].indeterminate
    <3>1. "touched" \in Pc
      BY DEF Pc
    <3> QED BY <1>1, <3>1 DEF JobType
  <2>2. job' = [job EXCEPT ![w] = r]
    BY <1>2
  <2> HIDE DEF r
  <2>3. JobStep(w) /\ job'[w] = r
    BY <1>1, <2>1, <2>2, JobChange DEF Doubtful
  <2>4. Own(w)'
    BY <1>1, <2>1, <2>3 DEF Own
  <2>5. ASSUME w \notin raced \cup broken PROVE Undisturbed(w)'
    BY <1>1, <2>1, <2>3, <2>5 DEF Undisturbed, Inv, RollingBack, Own
  <2> QED BY <1>1, <2>1, <2>3, <2>4, <2>5, LookInv
<1>3. CASE Goto(w, "rollback")
  <2>1. /\ JobStep(w) /\ job'[w].pc = "rollback" /\ job'[w].orig = job[w].orig
        /\ job'[w].size = job[w].size
        /\ job'[w].ok = job[w].ok /\ job'[w].touched = job[w].touched
        /\ job'[w].indeterminate = job[w].indeterminate
    BY <1>1, <1>3, GotoJob DEF Pc
  <2>2. Own(w)'
    BY <1>1, <2>1 DEF Own, Ended
  <2>3. ASSUME w \notin raced \cup broken PROVE Undisturbed(w)'
    <3>1. Undisturbed(w)
      BY <2>3 DEF Inv
    <3> QED BY <1>1, <2>1, <2>2, <2>3, <3>1 DEF Undisturbed, RollingBack, Own
  <2> QED BY <1>1, <2>1, <2>2, <2>3, LookInv
<1> QED BY <1>2, <1>3 DEF Touch

LEMMA CommitExistingInv ==
  ASSUME Inv, NEW w \in Writer, CommitExisting(w), Races({w}), UNCHANGED <<broken, faults, edits>>
  PROVE  Inv'
<1>1. At(w, "original-scrubbed") /\ UNCHANGED <<dir, data>> /\ Own(w)
  BY Parts DEF CommitExisting
<1>2. CASE Finish(w, "committed")
  <2>1. /\ JobStep(w) /\ job'[w].pc = "close" /\ job'[w].result = "committed"
        /\ job'[w].orig = job[w].orig /\ job'[w].touched = job[w].touched
        /\ job'[w].indeterminate = job[w].indeterminate
    BY <1>1, <1>2, FinishJob DEF Ended
  <2>2. Own(w)'
    BY <1>1, <2>1 DEF Own, Ended
  <2>3. ASSUME w \notin raced \cup broken PROVE Undisturbed(w)'
    <3>1. Undisturbed(w)
      BY <2>3 DEF Inv
    <3> QED BY <1>1, <2>1, <2>2, <2>3, <3>1 DEF Undisturbed, RollingBack, Own
  <2> QED BY <1>1, <2>1, <2>2, <2>3, LookInv
<1>3. CASE Goto(w, "rollback")
  <2>1. /\ JobStep(w) /\ job'[w].pc = "rollback" /\ job'[w].orig = job[w].orig
        /\ job'[w].ok = job[w].ok /\ job'[w].touched = job[w].touched
        /\ job'[w].scrubbed = job[w].scrubbed
        /\ job'[w].indeterminate = job[w].indeterminate
    BY <1>1, <1>3, GotoJob DEF Pc
  <2>2. Own(w)'
    BY <1>1, <2>1 DEF Own, Ended
  <2>3. ASSUME w \notin raced \cup broken PROVE Undisturbed(w)'
    <3>1. Undisturbed(w)
      BY <2>3 DEF Inv
    <3> QED BY <1>1, <2>1, <2>2, <2>3, <3>1 DEF Undisturbed, RollingBack, Own
  <2> QED BY <1>1, <2>1, <2>2, <2>3, LookInv
<1> QED BY <1>2, <1>3 DEF CommitExisting

LEMMA SettleTouchedInv ==
  ASSUME Inv, NEW w \in Writer, SettleTouched(w), Races({w}), UNCHANGED <<broken, faults, edits>>
  PROVE  Inv'
<1>1. At(w, "rollback") /\ job[w].touched /\ UNCHANGED <<dir, data>> /\ Own(w) /\ w # None
  BY Parts, StrictWriteAssumption DEF SettleTouched
<1>2. CASE Finish(w, "committed")
  <2>1. /\ JobStep(w) /\ job'[w].pc = "close" /\ job'[w].result = "committed"
        /\ job'[w].orig = job[w].orig /\ job'[w].touched = job[w].touched
        /\ job'[w].indeterminate = job[w].indeterminate
    BY <1>1, <1>2, FinishJob DEF Ended
  <2>2. Own(w)'
    BY <1>1, <2>1 DEF Own, Ended
  <2>3. ASSUME w \notin raced \cup broken PROVE Undisturbed(w)'
    BY <1>1, <2>1, <2>2, <2>3 DEF Undisturbed, Inv, RollingBack, Own
  <2> QED BY <1>1, <2>1, <2>2, <2>3, LookInv
<1>3. CASE Goto(w, "giveup") /\ ~(job[w].scrubbed /\ ExistingSnapshot(w))
  <2>1. /\ JobStep(w) /\ job'[w].pc = "giveup" /\ job'[w].orig = job[w].orig
        /\ job'[w].touched = job[w].touched
    BY <1>1, <1>3, GotoJob DEF Pc
  <2>2. Own(w)'
    BY <1>1, <2>1 DEF Own
  <2>3. ASSUME w \notin raced \cup broken PROVE FALSE
    <3>1. /\ job[w].scrubbed /\ dir[Aside(w)] = Orig(w) /\ data[Orig(w)] = "empty" /\ Orig(w) # None
          /\ dir[Target] = w /\ data[w] = "full" /\ dir[Backup] # w /\ dir[Backup] # Orig(w)
      BY <1>1, <2>3 DEF Inv, Undisturbed, Own
    <3>2. Safe(Aside(w), Orig(w)) /\ Safe(Target, w)
      BY <1>1, <3>1, SafeOne, Parts, PrivateNames, SharedNames DEF Private
    <3> QED BY <1>3, <3>1, <3>2 DEF ExistingSnapshot, ReportSnapshot
  <2> QED BY <1>1, <2>1, <2>2, <2>3, LookInv
<1> QED BY <1>2, <1>3 DEF SettleTouched

LEMMA VerifyInv ==
  ASSUME Inv, NEW w \in Writer, Verify(w), Races({w}), UNCHANGED <<broken, faults, edits>>
  PROVE  Inv'
<1>1. At(w, "verify") /\ UNCHANGED <<dir, data>> /\ Own(w) /\ w # None
  BY Parts, StrictWriteAssumption DEF Verify
<1>2. CASE Finish(w, "failed") /\ job[w].ok
  <2>1. /\ JobStep(w) /\ job'[w].pc = "close" /\ job'[w].result = "failed"
        /\ job'[w].orig = job[w].orig /\ job'[w].touched = job[w].touched
        /\ job'[w].indeterminate = job[w].indeterminate
    BY <1>1, <1>2, FinishJob DEF Ended
  <2>2. Own(w)'
    BY <1>1, <1>2, <2>1 DEF Own, Clean, Ended
  <2>3. ASSUME w \notin raced \cup broken PROVE Undisturbed(w)'
    <3>1. Undisturbed(w)
      BY <2>3 DEF Inv
    <3> QED BY <1>1, <2>1, <2>2, <2>3, <3>1 DEF Undisturbed, RollingBack, Own
  <2> QED BY <1>1, <2>1, <2>2, <2>3, LookInv
<1>3. CASE Goto(w, "giveup") /\ ~(job[w].ok /\ RollbackSnapshot(w))
  <2>1. /\ JobStep(w) /\ job'[w].pc = "giveup" /\ job'[w].orig = job[w].orig
        /\ job'[w].touched = job[w].touched
    BY <1>1, <1>3, GotoJob DEF Pc
  <2>2. Own(w)'
    BY <1>1, <2>1 DEF Own
  <2>3. ASSUME w \notin raced \cup broken PROVE FALSE
    <3>1. /\ job[w].ok /\ data[w] = "empty" /\ dir[Target] = Orig(w) /\ dir[Backup] # w
          /\ Orig(w) # None => data[Orig(w)] = job[w].size /\ dir[Backup] # Orig(w)
      BY <1>1, <2>3 DEF Inv, Undisturbed, Own, RollingBack
    <3>2. Orig(w) # None => Safe(Target, Orig(w))
      BY <3>1, SafeOne, Parts, SharedNames
    <3>3. Links(w) <= 1
      <4>1. \A m, n \in Name \ {Backup} : dir[m] = w /\ dir[n] = w => m = n
        BY <1>1, Parts DEF OneName
      <4> QED BY <3>1, <4>1, CountFew DEF Links
    <3> QED BY <1>3, <3>1, <3>2, <3>3 DEF RollbackSnapshot
  <2> QED BY <1>1, <2>1, <2>2, <2>3, LookInv
<1> QED BY <1>2, <1>3 DEF Verify

LEMMA CloseInv ==
  ASSUME Inv, NEW w \in Writer, Close(w), Races({w}), UNCHANGED <<broken, faults, edits>>
  PROVE  Inv'
<1>1. At(w, "close") /\ UNCHANGED <<dir, data>> /\ Own(w) /\ Goto(w, job[w].result)
  BY Parts DEF Close
<1>2. job[w].result \in Ended
  BY <1>1 DEF Own
<1>3. job[w].result \in Pc
  BY <1>2 DEF Pc
<1>4. /\ JobStep(w) /\ job'[w].pc = job[w].result /\ job'[w].orig = job[w].orig
      /\ job'[w].touched = job[w].touched /\ job'[w].indeterminate = job[w].indeterminate
  BY <1>1, <1>3, GotoJob
<1>5. Own(w)'
  BY <1>1, <1>2, <1>4 DEF Own, Ended, Clean
<1>6. ASSUME w \notin raced \cup broken PROVE Undisturbed(w)'
  <2>1. Undisturbed(w)
    BY <1>6 DEF Inv
  <2> QED BY <1>1, <1>2, <1>4, <1>6, <2>1 DEF Undisturbed, RollingBack, Own, Ended
<1> QED BY <1>1, <1>4, <1>5, <1>6, LookInv

LEMMA CreateInv ==
  ASSUME Inv, NEW w \in Writer, Create(w), Races({w}), UNCHANGED <<broken, faults, edits>>
  PROVE  Inv'
<1>1. /\ At(w, "idle") /\ Own(w) /\ Goto(w, "writing") /\ w \in Inode /\ w # None
      /\ dir' = [dir EXCEPT ![Tmp(w)] = w] /\ data' = [data EXCEPT ![w] = "partial"]
  BY Parts, StrictWriteAssumption DEF Create, Inode
<1>2. /\ JobStep(w) /\ job'[w].pc = "writing" /\ job'[w].orig = job[w].orig
      /\ job'[w].ok = job[w].ok /\ job'[w].touched = job[w].touched
      /\ job'[w].indeterminate = job[w].indeterminate
  BY <1>1, GotoJob DEF Pc, Preparing
<1>3. DataStep(w) /\ data'[w] = "partial" /\ \A i \in Inode \ {w} : data'[i] = data[i]
  BY <1>1, OwnData, Parts DEF Content
<1>4. \A n \in Name : dir[n] # w
  BY <1>1, Parts DEF Own, Unborn
<1>5. /\ dir' \in [Name -> Inode \cup {None}] /\ dir'[Tmp(w)] = w
      /\ \A n \in Name : n # Tmp(w) => dir'[n] = dir[n]
  BY <1>1, Parts, PrivateNames DEF TypeOK
<1>6. DirStep(w)
  <2>1. OneName'
    BY <1>4, <1>5, Parts DEF OneName
  <2>2. \A u \in Writer \ {w}, n \in Name : n \in Private(u) => dir'[n] = dir[n]
    BY <1>5, OthersNames DEF Private
  <2>3. dir'[Backup] = dir[Backup]
    BY <1>5, PrivateNames, SharedNames DEF Private
  <2> QED BY <1>3, <1>5, <2>1, <2>2, <2>3 DEF DirStep
<1>7. Frame(w)
  BY <1>2, <1>3, <1>6 DEF Frame
<1>8. Own(w)'
  BY <1>1, <1>2, <1>3, <1>4, <1>5, PrivateNames, SharedNames DEF Own, Private
<1>9. ASSUME w \notin raced \cup broken PROVE Undisturbed(w)'
  BY <1>1, <1>2, <1>9 DEF Undisturbed, Inv, RollingBack, Own
<1>10. ASSUME Quiet' PROVE \E s \in SUBSET Inode : Restorable(s)'
  <2>1. dir'[Target] = dir[Target]
    BY <1>5, PrivateNames, SharedNames DEF Private
  <2>2. \A i \in Inode : Complete(i) => Complete(i)'
    BY <1>1, <1>2, <1>3 DEF Complete, JobStep, Own
  <2> QED BY <1>1, <1>2, <1>7, <1>10, <2>1, <2>2, KeepRestorable DEF Own
<1> QED BY <1>7, <1>8, <1>9, <1>10, StepInv

LEMMA PrepareInv ==
  ASSUME Inv, NEW w \in Writer, Prepare(w), Races({w}), UNCHANGED <<broken, faults, edits>>
  PROVE  Inv'
<1>1. /\ At(w, "writing") /\ Own(w) /\ Goto(w, "prepared") /\ w \in Inode /\ w # None
      /\ UNCHANGED dir /\ data' = [data EXCEPT ![w] = "full"]
  BY Parts, StrictWriteAssumption DEF Prepare, Inode
<1>2. /\ JobStep(w) /\ job'[w].pc = "prepared" /\ job'[w].orig = job[w].orig
      /\ job'[w].ok = job[w].ok /\ job'[w].touched = job[w].touched
      /\ job'[w].indeterminate = job[w].indeterminate
  BY <1>1, GotoJob DEF Pc, Preparing
<1>3. DataStep(w) /\ data'[w] = "full" /\ \A i \in Inode \ {w} : data'[i] = data[i]
  BY <1>1, OwnData, Parts DEF Content
<1>4. Frame(w)
  BY <1>1, <1>2, <1>3, SameDir, Parts DEF Frame
<1>5. Own(w)'
  <2>1. Orig(w) # None => data'[Orig(w)] # "none"
    BY <1>1, <1>3, Parts DEF Own, JobType
  <2> QED BY <1>1, <1>2, <1>3, <2>1 DEF Own
<1>6. ASSUME w \notin raced \cup broken PROVE Undisturbed(w)'
  BY <1>1, <1>2, <1>6 DEF Undisturbed, Inv, RollingBack, Own
<1>7. ASSUME Quiet' PROVE \E s \in SUBSET Inode : Restorable(s)'
  <2>1. \A i \in Inode : Complete(i) => Complete(i)'
    BY <1>1, <1>2, <1>3 DEF Complete, JobStep, Own
  <2>2. job[w].orig # None => job[w].orig \in Inode
    BY Parts DEF JobType
  <2>3. job[w].orig # None /\ Complete(Orig(w)) => Complete(Orig(w))'
    BY <1>2, <1>3, <2>2 DEF Complete, JobStep
  <2> QED BY <1>1, <1>2, <1>4, <1>7, <2>1, <2>3, KeepRestorable DEF Own
<1> QED BY <1>4, <1>5, <1>6, <1>7, StepInv

LEMMA StatTargetInv ==
  ASSUME Inv, NEW w \in Writer, StatTarget(w), Races({w}), UNCHANGED <<broken, faults, edits>>
  PROVE  Inv'
<1> DEFINE i == dir[Target]
           size == IF i = None THEN "none" ELSE data[i]
           pc == IF i = None THEN "install" ELSE IF Links(i) = 1 THEN "open" ELSE "outer"
           r == [job[w] EXCEPT !.orig = i, !.size = size, !.pc = pc]
<1>1. /\ At(w, "prepared") /\ Own(w) /\ UNCHANGED <<dir, data>> /\ job' = [job EXCEPT ![w] = r]
      /\ w # None
  BY Parts, StrictWriteAssumption DEF StatTarget
<1>2. i \in Inode \cup {None} /\ size \in Content
  BY Parts, SharedNames DEF TypeOK, Content
<1>3. pc \in Pc /\ pc \in {"install", "open", "outer"} /\ (pc = "install" => i = None)
  BY DEF Pc, Stages, Preparing
<1>4. i # None => /\ data[i] # "none" /\ size = data[i]
                  /\ pc = "open" => dir[Backup] # i
  <2>1. i # None => data[i] # "none"
    BY <1>2, Parts, SharedNames DEF Unborn
  <2>2. i # None /\ Links(i) = 1 => dir[Backup] # i
    BY SafeOne, Parts, SharedNames
  <2> QED BY <2>1, <2>2
<1>5. i # w
  BY <1>1, Parts, PrivateNames, SharedNames DEF Own, OneName, Private
<1>6. dir[Target] = i
  OBVIOUS
<1> HIDE DEF i, size, pc
<1>7. /\ r \in JobType /\ r.orig = i /\ r.size = size /\ r.pc = pc /\ r.ok = job[w].ok
      /\ r.touched = job[w].touched /\ r.indeterminate = job[w].indeterminate
  BY <1>2, <1>3, Parts DEF JobType
<1> HIDE DEF r
<1>8. JobStep(w) /\ job'[w] = r
  BY <1>1, <1>7, JobChange DEF Doubtful, Own
<1>9. Frame(w)
  BY <1>1, <1>8, SameDir, SameData, Parts DEF Frame
<1>10. Own(w)'
  BY <1>1, <1>3, <1>4, <1>7, <1>8 DEF Own
<1>11. ASSUME w \notin raced \cup broken PROVE Undisturbed(w)'
  <2>1. Undisturbed(w)
    BY <1>11 DEF Inv
  <2> QED BY <1>1, <1>3, <1>4, <1>6, <1>7, <1>8, <2>1 DEF Undisturbed, RollingBack, Own
<1>12. ASSUME Quiet' PROVE \E s \in SUBSET Inode : Restorable(s)'
  <2>1. \A j \in Inode : Complete(j) => Complete(j)'
    BY <1>1, <1>8 DEF Complete, JobStep
  <2>2. ~(job'[w].orig # None /\ job'[w].orig \in {dir'[Tmp(w)], dir'[Aside(w)]})
    BY <1>1, <1>5, <1>7, <1>8 DEF Own
  <2> QED BY <1>1, <1>9, <1>12, <2>1, <2>2, KeepRestorable
<1> QED BY <1>9, <1>10, <1>11, <1>12, StepInv

(* An installation that finds the target changed is rolled back. *)
LEMMA InstallFails ==
  ASSUME Inv, NEW w \in Writer, At(w, "install"), Goto(w, "rollback"), UNCHANGED <<dir, data>>,
         Races({w}), UNCHANGED <<broken, faults, edits>>
  PROVE  Inv'
<1>1. Own(w) /\ w # None
  BY Parts, StrictWriteAssumption
<1>2. /\ JobStep(w) /\ job'[w].pc = "rollback" /\ job'[w].orig = job[w].orig
      /\ job'[w].size = job[w].size
      /\ job'[w].ok = job[w].ok /\ job'[w].touched = job[w].touched
      /\ job'[w].indeterminate = job[w].indeterminate
  BY GotoJob DEF Pc
<1>3. Own(w)'
  BY <1>1, <1>2 DEF Own
<1>4. ASSUME w \notin raced \cup broken PROVE Undisturbed(w)'
  <2>1. Undisturbed(w)
    BY <1>4 DEF Inv
  <2> QED BY <1>1, <1>2, <1>4, <2>1 DEF Undisturbed, RollingBack, Own
<1> QED BY <1>2, <1>3, <1>4, LookInv

LEMMA InstallNewInv ==
  ASSUME Inv, NEW w \in Writer, InstallNew(w), Races({w}), UNCHANGED <<broken, faults, edits>>
  PROVE  Inv'
<1>1. /\ At(w, "install") /\ Orig(w) = None /\ Own(w) /\ UNCHANGED data /\ w # None
      /\ w \in Inode
  BY Parts, StrictWriteAssumption DEF InstallNew, Inode
<1>2. CASE UNCHANGED dir /\ Goto(w, "rollback")
  BY <1>1, <1>2, InstallFails
<1>3. CASE dir' = Moved(Tmp(w), Target) /\ Goto(w, "new-installed")
  <2>1. /\ JobStep(w) /\ job'[w].pc = "new-installed" /\ job'[w].orig = job[w].orig
        /\ job'[w].ok = job[w].ok /\ job'[w].touched = job[w].touched
        /\ job'[w].indeterminate = job[w].indeterminate
    BY <1>1, <1>3, GotoJob DEF Pc, Stages
  <2>2. /\ DirStep(w) /\ dir'[Tmp(w)] = None /\ dir'[Target] = dir[Tmp(w)]
        /\ \A n \in Name : n # Tmp(w) /\ n # Target => dir'[n] = dir[n]
    BY <1>3, MoveDir, Parts, PrivateNames DEF Private
  <2>3. Frame(w)
    BY <1>1, <2>1, <2>2, SameData, Parts DEF Frame
  <2>4. /\ dir'[Aside(w)] = None /\ dir'[Rolled(w)] = None /\ dir'[Zero(w)] = None
        /\ dir'[Backup] # w /\ dir'[Target] = w /\ data'[w] = "full"
    BY <1>1, <2>2, PrivateNames, SharedNames DEF Own, Private
  <2>5. Own(w)'
    BY <1>1, <2>1, <2>2, <2>4 DEF Own
  <2>6. ASSUME w \notin raced \cup broken PROVE Undisturbed(w)'
    BY <1>1, <2>1, <2>4, <2>6 DEF Undisturbed, Inv, RollingBack, Own
  <2>7. Restorable({w})'
    BY <1>1, <2>1, <2>4 DEF Restorable, Complete
  <2> QED BY <1>1, <2>3, <2>5, <2>6, <2>7, StepInv
<1> QED BY <1>2, <1>3 DEF InstallNew

LEMMA ExchangeInv ==
  ASSUME Inv, NEW w \in Writer, Exchange(w), Races({w}), UNCHANGED <<broken, faults, edits>>
  PROVE  Inv'
<1>1. /\ At(w, "install") /\ Orig(w) # None /\ Own(w) /\ UNCHANGED data /\ w # None
      /\ w \in Inode
  BY Parts, StrictWriteAssumption DEF Exchange, Inode
<1>2. CASE UNCHANGED dir /\ Goto(w, "rollback")
  BY <1>1, <1>2, InstallFails
<1>3. CASE dir' = Exchanged(Tmp(w), Target) /\ Goto(w, "existing-exchanged")
  <2>1. /\ JobStep(w) /\ job'[w].pc = "existing-exchanged" /\ job'[w].orig = job[w].orig
        /\ job'[w].size = job[w].size
        /\ job'[w].ok = job[w].ok /\ job'[w].touched = job[w].touched
        /\ job'[w].indeterminate = job[w].indeterminate
    BY <1>1, <1>3, GotoJob DEF Pc, Stages
  <2>2. /\ DirStep(w) /\ dir'[Tmp(w)] = dir[Target] /\ dir'[Target] = dir[Tmp(w)]
        /\ \A n \in Name : n # Tmp(w) /\ n # Target => dir'[n] = dir[n]
    BY <1>3, ExchangeDir, Parts, PrivateNames DEF Private
  <2>3. Frame(w)
    BY <1>1, <2>1, <2>2, SameData, Parts DEF Frame
  <2>4. /\ dir'[Aside(w)] = None /\ dir'[Rolled(w)] = None /\ dir'[Zero(w)] = None
        /\ dir'[Backup] = dir[Backup] /\ dir'[Backup] # w /\ dir'[Target] = w /\ data'[w] = "full"
    BY <1>1, <2>2, PrivateNames, SharedNames DEF Own, Private
  <2>5. Own(w)'
    BY <1>1, <2>1, <2>2, <2>4 DEF Own
  <2>6. ASSUME w \notin raced \cup broken PROVE Undisturbed(w)'
    <3>1. Undisturbed(w)
      BY <2>6 DEF Inv
    <3> QED BY <1>1, <2>1, <2>2, <2>4, <2>6, <3>1 DEF Undisturbed, RollingBack, Own
  <2>7. ASSUME Quiet' PROVE \E s \in SUBSET Inode : Restorable(s)'
    <3>1. PICK s \in SUBSET Inode : Restorable(s)
      BY <2>3, <2>7, OthersQuiet DEF Inv
    <3>2. dir'[Target] \in (s \cup {w}) \cup {None}
      BY <2>4
    <3>3. ASSUME NEW i \in s \cup {w} PROVE Complete(i)'
      BY <1>1, <2>1, <2>4, <3>1 DEF Restorable, Complete, JobStep
    <3>4. ASSUME NEW u \in (s \cup {w}) \cap Writer, ~job'[u].touched, job'[u].orig # None,
                 job'[u].orig \in {dir'[Tmp(u)], dir'[Aside(u)]}
          PROVE  job'[u].orig \in s \cup {w}
      <4>1. CASE u = w
        BY <1>1, <2>1, <2>2, <2>4, <3>1, <3>4, <4>1 DEF Restorable
      <4>2. CASE u # w
        BY <2>3, <3>1, <3>4, <4>2, OthersFrame DEF Restorable
      <4> QED BY <4>1, <4>2
    <3>5. Restorable(s \cup {w})'
      BY <3>2, <3>3, <3>4 DEF Restorable
    <3>6. s \cup {w} \in SUBSET Inode
      BY <1>1
    <3> QED BY <3>5, <3>6
  <2> QED BY <2>3, <2>5, <2>6, <2>7, StepInv
<1> QED BY <1>2, <1>3 DEF Exchange

LEMMA SetAsideInv ==
  ASSUME Inv, NEW w \in Writer, SetAside(w), Races({w}), UNCHANGED <<broken, faults, edits>>
  PROVE  Inv'
<1>1. At(w, "existing-durable") /\ Own(w) /\ UNCHANGED data /\ w # None /\ w \in Inode
  BY Parts, StrictWriteAssumption DEF SetAside, Inode
<1>2. CASE UNCHANGED dir /\ Goto(w, "rollback")
  <2>1. /\ JobStep(w) /\ job'[w].pc = "rollback" /\ job'[w].orig = job[w].orig
        /\ job'[w].size = job[w].size
        /\ job'[w].ok = job[w].ok /\ job'[w].touched = job[w].touched
        /\ job'[w].indeterminate = job[w].indeterminate
    BY <1>1, <1>2, GotoJob DEF Pc
  <2>2. Own(w)'
    BY <1>1, <1>2, <2>1 DEF Own
  <2>3. ASSUME w \notin raced \cup broken PROVE Undisturbed(w)'
    <3>1. Undisturbed(w)
      BY <2>3 DEF Inv
    <3> QED BY <1>1, <1>2, <2>1, <2>3, <3>1 DEF Undisturbed, RollingBack, Own
  <2> QED BY <1>1, <1>2, <2>1, <2>2, <2>3, LookInv
<1>3. CASE Displaced(w) /\ dir' = Moved(Tmp(w), Aside(w)) /\ Goto(w, "original-quarantined")
  <2>1. /\ JobStep(w) /\ job'[w].pc = "original-quarantined" /\ job'[w].orig = job[w].orig
        /\ job'[w].size = job[w].size
        /\ job'[w].ok = job[w].ok /\ job'[w].touched = job[w].touched
        /\ job'[w].indeterminate = job[w].indeterminate
    BY <1>1, <1>3, GotoJob DEF Pc, Stages
  <2>2. /\ DirStep(w) /\ dir'[Tmp(w)] = None /\ dir'[Aside(w)] = dir[Tmp(w)]
        /\ \A n \in Name : n # Tmp(w) /\ n # Aside(w) => dir'[n] = dir[n]
    BY <1>3, MoveDir, Parts, PrivateNames DEF Private
  <2>3. Frame(w)
    BY <1>1, <2>1, <2>2, SameData, Parts DEF Frame
  <2>4. /\ dir'[Aside(w)] = Orig(w) /\ dir'[Rolled(w)] = None /\ dir'[Zero(w)] = None
        /\ dir'[Backup] = dir[Backup] /\ dir'[Target] = dir[Target] /\ dir[Tmp(w)] = Orig(w)
    BY <1>1, <1>3, <2>2, PrivateNames, SharedNames DEF Own, Private, Displaced, Safe
  <2>5. Own(w)'
    BY <1>1, <2>1, <2>2, <2>4 DEF Own
  <2>6. ASSUME w \notin raced \cup broken PROVE Undisturbed(w)'
    <3>1. Undisturbed(w)
      BY <2>6 DEF Inv
    <3> QED BY <1>1, <2>1, <2>2, <2>4, <2>6, <3>1 DEF Undisturbed, RollingBack, Own
  <2>7. ASSUME Quiet' PROVE \E s \in SUBSET Inode : Restorable(s)'
    <3>1. \A i \in Inode : Complete(i) => Complete(i)'
      BY <1>1, <2>1 DEF Complete, JobStep
    <3>2. Complete(Orig(w)) => Complete(Orig(w))'
      BY <1>1, <2>1 DEF Complete, JobStep
    <3> QED BY <1>1, <2>1, <2>3, <2>4, <2>7, <3>1, <3>2, KeepRestorable DEF Own
  <2> QED BY <2>3, <2>5, <2>6, <2>7, StepInv
<1> QED BY <1>2, <1>3 DEF SetAside

(* The set-aside original is emptied, here or in a scrub that breaks. *)
LEMMA ScrubData ==
  ASSUME Inv, NEW w \in Writer, At(w, "touched"), data' = [data EXCEPT ![Orig(w)] = "empty"],
         job'[w].touched, job'[w].orig = job[w].orig
  PROVE  /\ DataStep(w) /\ data'[Orig(w)] = "empty" /\ Orig(w) \in Inode
         /\ \A i \in Inode : i # Orig(w) => data'[i] = data[i]
<1>1. Own(w) /\ dir[Aside(w)] = Orig(w) /\ Orig(w) \in Inode
  BY Parts DEF Own, JobType
<1>2. data[Orig(w)] # "none"
  BY <1>1, Parts, PrivateNames DEF Unborn
<1>3. /\ data' \in [Inode -> Content] /\ data'[Orig(w)] = "empty"
      /\ \A i \in Inode : i # Orig(w) => data'[i] = data[i]
  BY <1>1, Parts DEF TypeOK, Content
<1>4. w \in Inode
  BY DEF Inode
<1> QED BY <1>1, <1>2, <1>3, <1>4 DEF DataStep

LEMMA ScrubOriginalInv ==
  ASSUME Inv, NEW w \in Writer, ScrubOriginal(w), Races({w}), UNCHANGED <<broken, faults, edits>>
  PROVE  Inv'
<1>1. /\ At(w, "touched") /\ Own(w) /\ UNCHANGED dir /\ w # None /\ w \in Inode
      /\ job[w] \in JobType /\ job[w].touched /\ Orig(w) # None /\ dir[Aside(w)] = Orig(w)
  BY Parts, StrictWriteAssumption DEF ScrubOriginal, Inode, Own
<1>2. CASE /\ data' = [data EXCEPT ![Orig(w)] = "empty"]
           /\ job' = [job EXCEPT ![w].pc = "original-scrubbed", ![w].scrubbed = TRUE]
  <2> DEFINE r == [job[w] EXCEPT !.pc = "original-scrubbed", !.scrubbed = TRUE]
  <2>1. /\ r \in JobType /\ r.pc = "original-scrubbed" /\ r.scrubbed
        /\ r.orig = job[w].orig /\ r.ok = job[w].ok /\ r.touched = job[w].touched
        /\ r.indeterminate = job[w].indeterminate
    <3>1. "original-scrubbed" \in Pc
      BY DEF Pc, Stages
    <3> QED BY <1>1, <3>1 DEF JobType
  <2>2. job' = [job EXCEPT ![w] = r]
    BY <1>2
  <2> HIDE DEF r
  <2>3. JobStep(w) /\ job'[w] = r
    BY <1>1, <2>1, <2>2, JobChange DEF Doubtful
  <2>4. /\ DataStep(w) /\ data'[Orig(w)] = "empty" /\ Orig(w) \in Inode
        /\ \A i \in Inode : i # Orig(w) => data'[i] = data[i]
    BY <1>1, <1>2, <2>1, <2>3, ScrubData
  <2>5. Frame(w)
    BY <1>1, <2>3, <2>4, SameDir, Parts DEF Frame
  <2>6. Own(w)'
    BY <1>1, <2>1, <2>3, <2>4 DEF Own
  <2>7. ASSUME w \notin raced \cup broken PROVE Undisturbed(w)'
    <3>1. Undisturbed(w) /\ dir[Target] = w
      BY <1>1, <2>7 DEF Inv, Undisturbed
    <3>2. Orig(w) # w
      BY <1>1, <3>1, Parts, PrivateNames, SharedNames DEF OneName, Private
    <3>3. data'[w] = data[w]
      BY <1>1, <2>4, <3>2
    <3> QED BY <1>1, <2>1, <2>3, <2>4, <3>1, <3>3 DEF Undisturbed, RollingBack
  <2>8. ASSUME Quiet' PROVE \E s \in SUBSET Inode : Restorable(s)'
    <3>1. \A i \in Inode : Complete(i) /\ ~Complete(i)' => i = Orig(w)
      BY <1>1, <2>3, <2>4 DEF Complete, JobStep
    <3>2. \A i \in Inode : Complete(i) /\ ~Complete(i)' => \E n \in Private(w) : dir[n] = i
      BY <1>1, <3>1 DEF Private
    <3> QED BY <1>1, <2>1, <2>3, <2>5, <2>8, <3>2, KeepRestorable
  <2> QED BY <2>5, <2>6, <2>7, <2>8, StepInv
<1>3. CASE Goto(w, "rollback") /\ UNCHANGED data /\ Links(Orig(w)) # 1
  <2>1. /\ JobStep(w) /\ job'[w].pc = "rollback" /\ job'[w].orig = job[w].orig
        /\ job'[w].touched = job[w].touched
    <3>1. Goto(w, "rollback") /\ ~At(w, "giveup") /\ "rollback" \in Pc
      BY <1>1, <1>3 DEF Pc
    <3> QED BY <3>1, GotoJob
  <2>2. Own(w)'
    BY <1>1, <1>3, <2>1 DEF Own
  <2>3. ASSUME w \notin raced \cup broken PROVE FALSE
    <3>1. dir[Backup] # Orig(w)
      BY <1>1, <2>3 DEF Inv, Undisturbed
    <3> QED BY <1>1, <1>3, <3>1, SafeOne, Parts, PrivateNames DEF Private
  <2> QED BY <1>1, <1>3, <2>1, <2>2, <2>3, LookInv
<1> QED BY <1>2, <1>3 DEF ScrubOriginal

-----------------------------------------------------------------------------
(* The steps of a rollback. *)
LEMMA WithdrawInv ==
  ASSUME Inv, NEW w \in Writer, Withdraw(w), Races({w}), UNCHANGED <<broken, faults, edits>>
  PROVE  Inv'
<1>1. /\ At(w, "rollback") /\ Orig(w) = None /\ Own(w) /\ UNCHANGED dir /\ w # None
      /\ Goto(w, "withdraw") /\ data' = [data EXCEPT ![w] = "empty"]
  BY Parts, StrictWriteAssumption DEF Withdraw, Emptied
<1>2. /\ JobStep(w) /\ job'[w].pc = "withdraw" /\ job'[w].orig = job[w].orig
      /\ job'[w].ok = job[w].ok /\ job'[w].touched = job[w].touched
      /\ job'[w].indeterminate = job[w].indeterminate
  BY <1>1, GotoJob DEF Pc, RollingBack
<1>3. DataStep(w) /\ data'[w] = "empty" /\ \A i \in Inode \ {w} : data'[i] = data[i]
  BY <1>1, OwnData, Parts DEF Content
<1>4. Frame(w)
  BY <1>1, <1>2, <1>3, SameDir, Parts DEF Frame
<1>5. Own(w)'
  BY <1>1, <1>2, <1>3 DEF Own
<1>6. ASSUME w \notin raced \cup broken PROVE Undisturbed(w)'
  BY <1>1, <1>2, <1>6 DEF Undisturbed, Inv, RollingBack, Own
<1>7. ASSUME Quiet' PROVE \E s \in SUBSET Inode : Restorable(s)'
  <2>1. \A i \in Inode : Complete(i) => Complete(i)'
    BY <1>1, <1>2, <1>3 DEF Complete, JobStep
  <2> QED BY <1>1, <1>2, <1>4, <1>7, <2>1, KeepRestorable
<1> QED BY <1>4, <1>5, <1>6, <1>7, StepInv

LEMMA WithdrawStatInv ==
  ASSUME Inv, NEW w \in Writer, WithdrawStat(w), Races({w}), UNCHANGED <<broken, faults, edits>>
  PROVE  Inv'
<1> DEFINE ok == dir[Target] \in {None, w}
           pc == IF dir[Target] = w THEN "withdraw-move" ELSE "retire"
           r == [job[w] EXCEPT !.ok = ok, !.pc = pc]
<1>1. /\ At(w, "withdraw") /\ Own(w) /\ UNCHANGED <<dir, data>> /\ w # None /\ w \in Inode
      /\ job' = [job EXCEPT ![w] = r]
  BY Parts, StrictWriteAssumption DEF WithdrawStat, Inode
<1>2. pc \in Pc /\ ok \in BOOLEAN
  BY DEF Pc, RollingBack
<1>3. /\ ok <=> dir[Target] \in {None, w}
      /\ pc = IF dir[Target] = w THEN "withdraw-move" ELSE "retire"
  OBVIOUS
<1> HIDE DEF pc, ok
<1>4. /\ r \in JobType /\ r.pc = pc /\ r.ok = ok /\ r.orig = job[w].orig
      /\ r.touched = job[w].touched /\ r.indeterminate = job[w].indeterminate
  BY <1>2, Parts DEF JobType
<1> HIDE DEF r
<1>5. JobStep(w) /\ job'[w] = r
  BY <1>1, <1>4, JobChange DEF Doubtful, Own
<1>6. Frame(w)
  BY <1>1, <1>5, SameDir, SameData, Parts DEF Frame
<1>7. Own(w)'
  BY <1>1, <1>3, <1>4, <1>5 DEF Own
<1>8. ASSUME w \notin raced \cup broken PROVE Undisturbed(w)'
  <2>1. Undisturbed(w)
    BY <1>8 DEF Inv
  <2> QED BY <1>1, <1>3, <1>4, <1>5, <1>8, <2>1 DEF Undisturbed, RollingBack, Own
<1>9. ASSUME Quiet' PROVE \E s \in SUBSET Inode : Restorable(s)'
  <2>1. ok
    BY <1>4, <1>5, <1>9 DEF Quiet, Doubtful
  <2>2. CASE dir[Target] = None
    BY <1>1, <2>2, NothingToRestore
  <2>3. CASE dir[Target] = w
    <3>1. Restorable({w})'
      BY <1>1, <1>3, <1>4, <1>5, <2>3 DEF Restorable, Complete, Own
    <3> QED BY <1>1, <3>1
  <2> QED BY <1>3, <2>1, <2>2, <2>3
<1> QED BY <1>6, <1>7, <1>8, <1>9, StepInv

LEMMA WithdrawMoveInv ==
  ASSUME Inv, NEW w \in Writer, WithdrawMove(w), Races({w}), UNCHANGED <<broken, faults, edits>>
  PROVE  Inv'
<1>1. /\ At(w, "withdraw-move") /\ Own(w) /\ UNCHANGED data /\ w # None /\ w \in Inode
      /\ job[w] \in JobType
  BY Parts, StrictWriteAssumption DEF WithdrawMove, Inode
<1>2. CASE /\ dir[Target] = None /\ UNCHANGED dir
           /\ job' = [job EXCEPT ![w].ok = FALSE, ![w].pc = "retire"]
  <2> DEFINE r == [job[w] EXCEPT !.ok = FALSE, !.pc = "retire"]
  <2>1. /\ r \in JobType /\ r.pc = "retire" /\ ~r.ok /\ r.orig = job[w].orig
        /\ r.touched = job[w].touched /\ r.indeterminate = job[w].indeterminate
    <3>1. "retire" \in Pc
      BY DEF Pc, RollingBack
    <3> QED BY <1>1, <3>1 DEF JobType
  <2>2. job' = [job EXCEPT ![w] = r]
    BY <1>2
  <2> HIDE DEF r
  <2>3. JobStep(w) /\ job'[w] = r
    BY <1>1, <2>1, <2>2, JobChange DEF Doubtful
  <2>4. Frame(w)
    BY <1>1, <1>2, <2>3, SameDir, SameData, Parts DEF Frame
  <2>5. Own(w)'
    BY <1>1, <1>2, <2>1, <2>3 DEF Own
  <2>6. w \in raced \cup broken
    BY <1>1, <1>2 DEF Undisturbed, Inv
  <2> QED BY <1>2, <2>4, <2>5, <2>6, NothingToRestore, StepInv
<1>3. CASE dir' = Moved(Target, Rolled(w)) /\ Goto(w, "withdraw-check")
  <2>1. /\ JobStep(w) /\ job'[w].pc = "withdraw-check" /\ job'[w].orig = job[w].orig
        /\ job'[w].ok = job[w].ok /\ job'[w].touched = job[w].touched
        /\ job'[w].indeterminate = job[w].indeterminate
    BY <1>1, <1>3, GotoJob DEF Pc, RollingBack
  <2>2. /\ DirStep(w) /\ dir'[Target] = None /\ dir'[Rolled(w)] = dir[Target]
        /\ \A n \in Name : n # Target /\ n # Rolled(w) => dir'[n] = dir[n]
    BY <1>3, MoveDir, Parts, PrivateNames DEF Private
  <2>3. Frame(w)
    BY <1>1, <2>1, <2>2, SameData, Parts DEF Frame
  <2>4. /\ dir'[Tmp(w)] = dir[Tmp(w)] /\ dir'[Aside(w)] = dir[Aside(w)]
        /\ dir'[Zero(w)] = dir[Zero(w)] /\ dir'[Backup] = dir[Backup]
    BY <2>2, PrivateNames, SharedNames DEF Private
  <2>5. Own(w)'
    BY <1>1, <2>1, <2>2, <2>4 DEF Own
  <2>6. ASSUME w \notin raced \cup broken PROVE Undisturbed(w)'
    <3>1. Undisturbed(w)
      BY <2>6 DEF Inv
    <3> QED BY <1>1, <2>1, <2>2, <2>4, <2>6, <3>1 DEF Undisturbed, RollingBack, Own
  <2> QED BY <2>2, <2>3, <2>5, <2>6, NothingToRestore, StepInv
<1> QED BY <1>2, <1>3 DEF WithdrawMove

LEMMA WithdrawCheckInv ==
  ASSUME Inv, NEW w \in Writer, WithdrawCheck(w), Races({w}), UNCHANGED <<broken, faults, edits>>
  PROVE  Inv'
<1> DEFINE ok == Safe(Rolled(w), w) /\ dir[Target] = None
           r == [job[w] EXCEPT !.ok = ok, !.pc = "retire"]
<1>1. /\ At(w, "withdraw-check") /\ Own(w) /\ UNCHANGED data /\ w # None /\ w \in Inode
      /\ job' = [job EXCEPT ![w] = r]
      /\ dir' = IF dir[Rolled(w)] # w /\ dir[Target] = None THEN Moved(Rolled(w), Target) ELSE dir
  BY Parts, StrictWriteAssumption DEF WithdrawCheck, Inode
<1>2. "retire" \in Pc /\ ok \in BOOLEAN
  BY DEF Pc, RollingBack
<1>3. ok <=> dir[Rolled(w)] = w /\ dir[Backup] # w /\ dir[Target] = None
  BY <1>1, SafeOne, Parts, PrivateNames DEF Private
<1> HIDE DEF ok
<1>4. /\ r \in JobType /\ r.pc = "retire" /\ r.ok = ok /\ r.orig = job[w].orig
      /\ r.touched = job[w].touched /\ r.indeterminate = job[w].indeterminate
  BY <1>2, Parts DEF JobType
<1> HIDE DEF r
<1>5. JobStep(w) /\ job'[w] = r
  BY <1>1, <1>4, JobChange DEF Doubtful, Own
<1>6. /\ DirStep(w) /\ (ok => UNCHANGED dir)
      /\ dir'[Tmp(w)] = dir[Tmp(w)] /\ dir'[Aside(w)] = dir[Aside(w)]
      /\ dir'[Zero(w)] = dir[Zero(w)] /\ dir'[Backup] = dir[Backup]
  <2>1. CASE UNCHANGED dir
    BY <2>1, SameDir, Parts
  <2>2. CASE dir' = Moved(Rolled(w), Target) /\ dir[Rolled(w)] # w
    <3>1. DirStep(w) /\ \A n \in Name : n # Rolled(w) /\ n # Target => dir'[n] = dir[n]
      BY <2>2, MoveDir, Parts, PrivateNames DEF Private
    <3> QED BY <1>3, <2>2, <3>1, PrivateNames, SharedNames DEF Private
  <2> QED BY <1>1, <2>1, <2>2
<1>7. Frame(w)
  BY <1>1, <1>5, <1>6, SameData, Parts DEF Frame
<1>8. Own(w)'
  BY <1>1, <1>3, <1>4, <1>5, <1>6 DEF Own
<1>9. ASSUME w \notin raced \cup broken PROVE Undisturbed(w)'
  <2>1. Undisturbed(w)
    BY <1>9 DEF Inv
  <2>2. ok /\ dir[Backup] # w /\ dir[Target] = None /\ ~job[w].indeterminate
    BY <1>1, <1>3, <2>1 DEF Undisturbed, RollingBack
  <2>3. Orig(w) = None /\ ~job[w].touched
    BY <1>1 DEF Own
  <2>4. job'[w].pc = "retire" /\ job'[w].ok /\ dir'[Target] = job'[w].orig /\ dir'[Backup] # w
    BY <1>4, <1>5, <1>6, <2>2, <2>3
  <2> QED BY <1>4, <1>5, <2>2, <2>3, <2>4 DEF Undisturbed
<1>10. ASSUME Quiet' PROVE \E s \in SUBSET Inode : Restorable(s)'
  <2>1. ok
    BY <1>4, <1>5, <1>10 DEF Quiet, Doubtful
  <2> QED BY <1>3, <1>6, <2>1, NothingToRestore
<1> QED BY <1>7, <1>8, <1>9, <1>10, StepInv

(* The original is back, alone under the target's name. *)
LEMMA RestoredOne ==
  ASSUME NEW w \in Writer, NEW d, Orig(w) # None,
         \A m, n \in Name \ {Backup} : d[m] = d[n] /\ d[m] # None => m = n
  PROVE  Restored(d, w) <=> d[Tmp(w)] = w /\ d[Target] = Orig(w) /\ d[Backup] # Orig(w)
<1>1. ASSUME d[Target] = Orig(w)
      PROVE  Cardinality({n \in Name : d[n] = Orig(w)}) = 1 <=> d[Backup] # Orig(w)
  <2>1. \A m \in Name \ {Backup} : d[m] = Orig(w) => m = Target
    BY <1>1, SharedNames
  <2> QED BY <1>1, <2>1, CountOne, SharedNames
<1> QED BY <1>1 DEF Restored

LEMMA RestoreInv ==
  ASSUME Inv, NEW w \in Writer, Restore(w), Races({w}), UNCHANGED <<broken, faults, edits>>
  PROVE  Inv'
<1>1. /\ At(w, "rollback") /\ Orig(w) # None /\ ~job[w].touched /\ Own(w) /\ UNCHANGED data
      /\ w # None /\ w \in Inode
      /\ dir' = IF dir[Aside(w)] = Orig(w) THEN Moved(Aside(w), Tmp(w)) ELSE dir
      /\ Goto(w, IF Restored(dir', w) THEN "retire"
                 ELSE IF dir'[Target] = w /\ dir'[Tmp(w)] = Orig(w) THEN "restore" ELSE "giveup")
  BY Parts, StrictWriteAssumption DEF Restore, Inode
<1>2. /\ DirStep(w) /\ dir'[Aside(w)] = None
      /\ dir'[Target] = dir[Target] /\ dir'[Backup] = dir[Backup]
      /\ dir'[Rolled(w)] = None /\ dir'[Zero(w)] = None
      /\ dir[Aside(w)] = Orig(w) => dir'[Tmp(w)] = Orig(w)
      /\ dir[Aside(w)] # Orig(w) => dir'[Tmp(w)] = dir[Tmp(w)]
  <2>1. CASE dir[Aside(w)] = Orig(w)
    <3>1. /\ DirStep(w) /\ dir'[Aside(w)] = None /\ dir'[Tmp(w)] = dir[Aside(w)]
          /\ \A n \in Name : n # Aside(w) /\ n # Tmp(w) => dir'[n] = dir[n]
      BY <1>1, <2>1, MoveDir, Parts, PrivateNames DEF Private
    <3> QED BY <1>1, <2>1, <3>1, PrivateNames, SharedNames DEF Private, Own
  <2>2. CASE dir[Aside(w)] # Orig(w)
    BY <1>1, <2>2, SameDir, Parts DEF Own
  <2> QED BY <2>1, <2>2
<1>3. Restored(dir', w) <=> dir'[Tmp(w)] = w /\ dir'[Target] = Orig(w) /\ dir'[Backup] # Orig(w)
  <2>1. \A m, n \in Name \ {Backup} : dir'[m] = dir'[n] /\ dir'[m] # None => m = n
    BY <1>2 DEF DirStep, OneName
  <2> QED BY <1>1, <2>1, RestoredOne
<1>4. PICK pc \in {"retire", "restore", "giveup"} :
        /\ Goto(w, pc)
        /\ pc = "retire" => dir'[Tmp(w)] = w /\ dir'[Target] = Orig(w)
        /\ pc = "restore" => dir'[Target] = w /\ dir'[Tmp(w)] = Orig(w)
        /\ pc = "giveup" => /\ ~(dir'[Target] = w /\ dir'[Tmp(w)] = Orig(w))
                            /\ ~(dir'[Tmp(w)] = w /\ dir'[Target] = Orig(w) /\ dir'[Backup] # Orig(w))
  <2> DEFINE q == IF Restored(dir', w) THEN "retire"
                  ELSE IF dir'[Target] = w /\ dir'[Tmp(w)] = Orig(w) THEN "restore" ELSE "giveup"
  <2>1. Goto(w, q) /\ q \in {"retire", "restore", "giveup"}
    BY <1>1
  <2> QED BY <1>3, <2>1
<1>5. /\ JobStep(w) /\ job'[w].pc = pc /\ job'[w].orig = job[w].orig /\ job'[w].size = job[w].size
      /\ job'[w].ok = job[w].ok /\ job'[w].touched = job[w].touched
      /\ job'[w].indeterminate = job[w].indeterminate
  <2>1. pc \in Pc
    BY DEF Pc, RollingBack
  <2> QED BY <1>1, <1>4, <2>1, GotoJob
<1>6. Frame(w)
  BY <1>1, <1>2, <1>5, SameData, Parts DEF Frame
<1>7. Own(w)'
  BY <1>1, <1>2, <1>4, <1>5 DEF Own
<1>8. ASSUME w \notin raced \cup broken PROVE Undisturbed(w)'
  <2>1. Undisturbed(w)
    BY <1>8 DEF Inv
  <2>2. pc # "giveup"
    BY <1>1, <1>2, <1>4, <2>1 DEF Undisturbed
  <2> QED BY <1>1, <1>2, <1>4, <1>5, <2>1, <2>2 DEF Undisturbed, RollingBack, Own
<1>9. ASSUME Quiet' PROVE \E s \in SUBSET Inode : Restorable(s)'
  <2>1. \A i \in Inode : Complete(i) => Complete(i)'
    BY <1>1, <1>5 DEF Complete, JobStep
  <2>2. Complete(Orig(w)) => Complete(Orig(w))'
    BY <1>1, <1>5 DEF Complete, JobStep
  <2>3. Orig(w) \in {dir'[Tmp(w)], dir'[Aside(w)]} => Orig(w) \in {dir[Tmp(w)], dir[Aside(w)]}
    BY <1>1, <1>2
  <2> QED BY <1>1, <1>2, <1>5, <1>6, <1>9, <2>1, <2>2, <2>3, KeepRestorable
<1> QED BY <1>6, <1>7, <1>8, <1>9, StepInv

LEMMA RestoreExchangeInv ==
  ASSUME Inv, NEW w \in Writer, RestoreExchange(w), Races({w}), UNCHANGED <<broken, faults, edits>>
  PROVE  Inv'
<1>1. /\ At(w, "restore") /\ Orig(w) # None /\ ~job[w].touched /\ dir[Tmp(w)] = Orig(w) /\ Own(w)
      /\ UNCHANGED data /\ w # None /\ w \in Inode
  BY Parts, StrictWriteAssumption DEF RestoreExchange, Inode, Own
<1>2. CASE dir[Target] = None /\ UNCHANGED dir /\ Goto(w, "giveup")
  <2>1. /\ JobStep(w) /\ job'[w].pc = "giveup" /\ job'[w].orig = job[w].orig
        /\ job'[w].touched = job[w].touched
    BY <1>1, <1>2, GotoJob DEF Pc
  <2>2. Own(w)'
    BY <1>1, <1>2, <2>1 DEF Own
  <2>3. w \in raced \cup broken
    BY <1>1, <1>2 DEF Undisturbed, Inv
  <2> QED BY <1>1, <1>2, <2>1, <2>2, <2>3, LookInv
<1>3. CASE /\ dir' = Exchanged(Tmp(w), Target)
           /\ Goto(w, IF Restored(dir', w) THEN "retire" ELSE "giveup")
  <2>1. /\ DirStep(w) /\ dir'[Tmp(w)] = dir[Target] /\ dir'[Target] = dir[Tmp(w)]
        /\ \A n \in Name : n # Tmp(w) /\ n # Target => dir'[n] = dir[n]
    BY <1>3, ExchangeDir, Parts, PrivateNames DEF Private
  <2>2. /\ dir'[Aside(w)] = None /\ dir'[Rolled(w)] = None /\ dir'[Zero(w)] = None
        /\ dir'[Backup] = dir[Backup]
    BY <1>1, <2>1, PrivateNames, SharedNames DEF Own, Private
  <2>3. Restored(dir', w) <=> dir'[Tmp(w)] = w /\ dir'[Target] = Orig(w) /\ dir'[Backup] # Orig(w)
    <3>1. \A m, n \in Name \ {Backup} : dir'[m] = dir'[n] /\ dir'[m] # None => m = n
      BY <2>1 DEF DirStep, OneName
    <3> QED BY <1>1, <3>1, RestoredOne
  <2>4. PICK pc \in {"retire", "giveup"} :
          /\ Goto(w, pc)
          /\ pc = "retire" => dir[Target] = w
          /\ pc = "giveup" => ~(dir[Target] = w /\ dir[Backup] # Orig(w))
    <3>1. CASE Restored(dir', w)
      BY <1>3, <2>1, <2>3, <3>1
    <3>2. CASE ~Restored(dir', w)
      BY <1>1, <1>3, <2>1, <2>2, <2>3, <3>2
    <3> QED BY <3>1, <3>2
  <2>5. /\ JobStep(w) /\ job'[w].pc = pc /\ job'[w].orig = job[w].orig /\ job'[w].size = job[w].size
        /\ job'[w].ok = job[w].ok /\ job'[w].touched = job[w].touched
        /\ job'[w].indeterminate = job[w].indeterminate
    <3>1. pc \in Pc
      BY DEF Pc, RollingBack
    <3> QED BY <1>1, <2>4, <3>1, GotoJob
  <2>6. Frame(w)
    BY <1>1, <2>1, <2>5, SameData, Parts DEF Frame
  <2>7. Own(w)'
    BY <1>1, <2>1, <2>2, <2>4, <2>5 DEF Own
  <2>8. ASSUME w \notin raced \cup broken PROVE Undisturbed(w)'
    <3>1. Undisturbed(w) /\ dir[Target] = w /\ dir[Backup] # Orig(w)
      BY <1>1, <2>8 DEF Inv, Undisturbed
    <3>2. pc = "retire"
      BY <2>4, <3>1
    <3> QED BY <1>1, <2>1, <2>2, <2>5, <3>1, <3>2 DEF Undisturbed, RollingBack, Own
  <2>9. ASSUME Quiet' PROVE \E s \in SUBSET Inode : Restorable(s)'
    <3>1. PICK s \in SUBSET Inode : Restorable(s)
      BY <2>6, <2>9, OthersQuiet DEF Inv
    <3>2. dir[Target] = w
      BY <2>4, <2>5, <2>9 DEF Quiet, Doubtful
    <3>3. w \in s /\ Orig(w) \in s
      BY <1>1, <3>1, <3>2 DEF Restorable
    <3>4. ASSUME NEW i \in s PROVE Complete(i)'
      BY <1>1, <2>5, <3>1 DEF Restorable, Complete, JobStep
    <3>5. ASSUME NEW u \in s \cap Writer, ~job'[u].touched, job'[u].orig # None,
                 job'[u].orig \in {dir'[Tmp(u)], dir'[Aside(u)]}
          PROVE  job'[u].orig \in s
      <4>1. CASE u = w
        BY <2>5, <3>3, <4>1
      <4>2. CASE u # w
        BY <2>6, <3>1, <3>5, <4>2, OthersFrame DEF Restorable
      <4> QED BY <4>1, <4>2
    <3>6. Restorable(s)'
      BY <1>1, <2>1, <3>3, <3>4, <3>5 DEF Restorable
    <3> QED BY <3>6
  <2> QED BY <2>6, <2>7, <2>8, <2>9, StepInv
<1> QED BY <1>2, <1>3 DEF RestoreExchange, IfThenGoto

LEMMA RetireDir ==
  ASSUME Inv, NEW w \in Writer, dir' = Retired(w)
  PROVE  /\ DirStep(w)
         /\ dir[Tmp(w)] = w => dir'[Tmp(w)] = None /\ dir'[Zero(w)] = w
         /\ dir[Tmp(w)] # w => dir'[Tmp(w)] = dir[Tmp(w)] /\ dir'[Zero(w)] = dir[Zero(w)]
         /\ dir'[Aside(w)] = dir[Aside(w)] /\ dir'[Rolled(w)] = dir[Rolled(w)]
         /\ dir'[Target] = dir[Target] /\ dir'[Backup] = dir[Backup]
<1>1. CASE dir[Tmp(w)] = w
  <2>1. /\ DirStep(w) /\ dir'[Tmp(w)] = None /\ dir'[Zero(w)] = dir[Tmp(w)]
        /\ \A n \in Name : n # Tmp(w) /\ n # Zero(w) => dir'[n] = dir[n]
    BY <1>1, MoveDir, Parts, PrivateNames DEF Private, Retired
  <2> QED BY <1>1, <2>1, PrivateNames, SharedNames DEF Private
<1>2. CASE dir[Tmp(w)] # w
  BY <1>2, SameDir, Parts DEF Retired
<1> QED BY <1>1, <1>2

LEMMA RetirableOne ==
  ASSUME Inv, NEW w \in Writer, dir[Tmp(w)] \in {None, w}, dir[Backup] # w
  PROVE  Retirable(w)
BY SafeOne, Parts, PrivateNames, StrictWriteAssumption DEF Private, Retirable

LEMMA RetireInv ==
  ASSUME Inv, NEW w \in Writer, Retire(w), Races({w}), UNCHANGED <<broken, faults, edits>>
  PROVE  Inv'
<1> DEFINE ok == job[w].ok /\ Retirable(w)
           r == [job[w] EXCEPT !.ok = ok, !.pc = "verify"]
<1>1. /\ At(w, "retire") /\ Own(w) /\ job[w] \in JobType /\ w # None /\ w \in Inode
      /\ data' = [data EXCEPT ![w] = "empty"] /\ dir' = Retired(w)
      /\ job' = [job EXCEPT ![w] = r]
  BY Parts, StrictWriteAssumption DEF Retire, Emptied, Inode
<1>2. "verify" \in Pc /\ ok \in BOOLEAN /\ (ok => job[w].ok)
  BY DEF Pc, RollingBack
<1>3. dir[Tmp(w)] \in {None, w} /\ dir[Backup] # w /\ job[w].ok => ok
  BY RetirableOne
<1> HIDE DEF ok
<1>4. /\ r \in JobType /\ r.pc = "verify" /\ r.ok = ok /\ r.orig = job[w].orig
      /\ r.size = job[w].size
      /\ r.touched = job[w].touched /\ r.indeterminate = job[w].indeterminate
  BY <1>1, <1>2 DEF JobType
<1> HIDE DEF r
<1>5. JobStep(w) /\ job'[w] = r
  BY <1>1, <1>2, <1>4, JobChange DEF Doubtful
<1>6. DataStep(w) /\ data'[w] = "empty" /\ \A i \in Inode \ {w} : data'[i] = data[i]
  BY <1>1, OwnData, Parts DEF Content
<1>7. Frame(w)
  BY <1>1, <1>5, <1>6, RetireDir DEF Frame
<1>8. Orig(w) # None => Orig(w) \in Inode /\ data'[Orig(w)] # "none"
  BY <1>1, <1>6 DEF Own, JobType
<1>9. Own(w)'
  <2>1. ASSUME ok PROVE Clean(w)'
    <3>1. dir[Tmp(w)] \in {None, w} /\ dir[Aside(w)] = None /\ dir[Zero(w)] = None
          /\ dir[Rolled(w)] \in {None, w}
      BY <1>1, <1>2, <2>1 DEF Own
    <3>2. /\ dir'[Tmp(w)] = None /\ dir'[Zero(w)] \in {None, w} /\ dir'[Aside(w)] = None
          /\ dir'[Rolled(w)] \in {None, w}
      BY <1>1, <3>1, RetireDir
    <3> QED BY <3>2 DEF Clean, Private
  <2>2. ~job[w].touched
    BY <1>1 DEF Own
  <2> QED BY <1>4, <1>5, <1>6, <1>8, <2>1, <2>2 DEF Own
<1>10. ASSUME w \notin raced \cup broken PROVE Undisturbed(w)'
  <2>1. Undisturbed(w) /\ job[w].ok /\ dir[Target] = Orig(w) /\ dir[Backup] # w
    BY <1>1, <1>10 DEF Inv, Undisturbed, RollingBack
  <2>2. ok /\ dir[Tmp(w)] \in {None, w}
    BY <1>1, <1>3, <2>1 DEF Own
  <2>3. Orig(w) # None => data'[Orig(w)] = data[Orig(w)]
    <3>1. Orig(w) # None => dir[Tmp(w)] = w
      BY <1>1 DEF Own
    <3>2. Orig(w) # None => Orig(w) # w
      BY <2>1, <3>1, Parts, PrivateNames, SharedNames DEF OneName, Private
    <3> QED BY <1>6, <1>8, <3>2
  <2>4. dir'[Target] = dir[Target] /\ dir'[Backup] = dir[Backup]
    BY <1>1, RetireDir
  <2>5. /\ ~job[w].touched /\ ~job[w].indeterminate
        /\ Orig(w) # None => data[Orig(w)] = job[w].size /\ dir[Backup] # Orig(w)
    BY <1>1, <2>1 DEF Undisturbed, Own
  <2>6. /\ job'[w].pc = "verify" /\ job'[w].ok /\ dir'[Target] = job'[w].orig /\ dir'[Backup] # w
        /\ job'[w].orig # None => data'[job'[w].orig] = job'[w].size /\ dir'[Backup] # job'[w].orig
    BY <1>4, <1>5, <2>1, <2>2, <2>3, <2>4, <2>5
  <2> QED BY <1>4, <1>5, <2>5, <2>6 DEF Undisturbed
<1>11. ASSUME Quiet' PROVE \E s \in SUBSET Inode : Restorable(s)'
  <2>1. \A i \in Inode : Complete(i) /\ ~Complete(i)' => i = w
    BY <1>5, <1>6 DEF Complete, JobStep
  <2>2. Complete(w) => dir[Tmp(w)] = w
    BY <1>1 DEF Complete, Own
  <2>3. \A i \in Inode : Complete(i) /\ ~Complete(i)' => \E n \in Private(w) : dir[n] = i
    BY <2>1, <2>2 DEF Private
  <2>4. ~(job'[w].orig # None /\ job'[w].orig \in {dir'[Tmp(w)], dir'[Aside(w)]})
    BY <1>1, <1>4, <1>5, RetireDir DEF Own
  <2> QED BY <1>1, <1>7, <1>11, <2>3, <2>4, KeepRestorable, RetireDir
<1> QED BY <1>7, <1>9, <1>10, <1>11, StepInv

LEMMA GiveUpInv ==
  ASSUME Inv, NEW w \in Writer, GiveUp(w), Races({w}), UNCHANGED <<broken, faults, edits>>
  PROVE  Inv'
<1> DEFINE r == [job[w] EXCEPT !.pc = "outer", !.indeterminate = TRUE]
<1>1. /\ At(w, "giveup") /\ Own(w) /\ job[w] \in JobType /\ UNCHANGED dir
      /\ data' = [data EXCEPT ![w] = "empty"] /\ job' = [job EXCEPT ![w] = r]
  BY Parts DEF GiveUp, Emptied
<1>2. /\ r \in JobType /\ r.pc = "outer" /\ r.indeterminate /\ r.orig = job[w].orig
      /\ r.touched = job[w].touched
  <2>1. "outer" \in Pc
    BY DEF Pc
  <2> QED BY <1>1, <2>1 DEF JobType
<1> HIDE DEF r
<1>3. JobStep(w) /\ job'[w] = r
  BY <1>1, <1>2, JobChange DEF Doubtful
<1>4. DataStep(w) /\ data'[w] = "empty" /\ \A i \in Inode \ {w} : data'[i] = data[i]
  BY <1>1, OwnData, Parts DEF Content
<1>5. Frame(w)
  BY <1>1, <1>3, <1>4, SameDir, Parts DEF Frame
<1>6. Own(w)'
  BY <1>1, <1>2, <1>3, <1>4 DEF Own, JobType
<1>7. w \in raced \cup broken
  BY <1>1 DEF Inv, Undisturbed
<1>8. ~Quiet'
  BY <1>2, <1>3 DEF Quiet, Doubtful
<1> QED BY <1>5, <1>6, <1>7, <1>8, StepInv

LEMMA OuterInv ==
  ASSUME Inv, NEW w \in Writer, Outer(w), Races({w}), UNCHANGED <<broken, faults, edits>>
  PROVE  Inv'
<1>1. /\ At(w, "outer") /\ Own(w) /\ job[w] \in JobType /\ w # None /\ w \in Inode
      /\ data' = [data EXCEPT ![w] = "empty"] /\ dir' = Retired(w) /\ Finish(w, Outcome(w))
  BY Parts, StrictWriteAssumption DEF Outer, Emptied, Inode
<1>2. /\ Outcome(w) \in Ended
      /\ Outcome(w) = "failed" => ~job[w].indeterminate
      /\ ~job[w].indeterminate => Outcome(w) = "failed" /\ Fresh(w)
  <2>1. ~job[w].indeterminate => Fresh(w)
    BY <1>1 DEF Own
  <2>2. ~job[w].indeterminate => Retirable(w)
    BY <2>1, RetirableOne
  <2> QED BY <2>1, <2>2 DEF Outcome, Ended
<1>3. /\ JobStep(w) /\ job'[w].pc = "close" /\ job'[w].result = Outcome(w)
      /\ job'[w].orig = job[w].orig /\ job'[w].touched = job[w].touched
      /\ job'[w].indeterminate = job[w].indeterminate
  BY <1>1, <1>2, FinishJob
<1>4. DataStep(w) /\ data'[w] = "empty" /\ \A i \in Inode \ {w} : data'[i] = data[i]
  BY <1>1, OwnData, Parts DEF Content
<1>5. Frame(w)
  BY <1>1, <1>3, <1>4, RetireDir DEF Frame
<1>6. Own(w)'
  <2>1. Orig(w) # None => data'[Orig(w)] # "none"
    BY <1>1, <1>4 DEF Own, JobType
  <2>2. job[w].touched => Orig(w) # None /\ dir'[Aside(w)] = Orig(w)
    BY <1>1, RetireDir DEF Own
  <2>3. ASSUME Outcome(w) = "failed" PROVE ~job[w].touched /\ Clean(w)'
    BY <1>1, <1>2, <2>3, RetireDir DEF Clean, Private
  <2> QED BY <1>2, <1>3, <2>1, <2>2, <2>3 DEF Own
<1>7. ASSUME w \notin raced \cup broken PROVE Undisturbed(w)'
  <2>1. ~job[w].indeterminate /\ ~job[w].touched
    BY <1>2, <1>7 DEF Inv, Undisturbed
  <2> QED BY <1>2, <1>3, <2>1 DEF Undisturbed, RollingBack
<1>8. ASSUME Quiet' PROVE \E s \in SUBSET Inode : Restorable(s)'
  <2>1. Fresh(w)
    BY <1>2, <1>3, <1>8 DEF Quiet, Doubtful
  <2>2. \A i \in Inode : Complete(i) /\ ~Complete(i)' => i = w
    BY <1>3, <1>4 DEF Complete, JobStep
  <2>3. \A i \in Inode : Complete(i) /\ ~Complete(i)' => \E n \in Private(w) : dir[n] = i
    BY <2>1, <2>2 DEF Private
  <2>4. ~(job'[w].orig # None /\ job'[w].orig \in {dir'[Tmp(w)], dir'[Aside(w)]})
    BY <1>1, <2>1, RetireDir
  <2> QED BY <1>1, <1>5, <1>8, <2>3, <2>4, KeepRestorable, RetireDir
<1> QED BY <1>5, <1>6, <1>7, <1>8, StepInv

-----------------------------------------------------------------------------
(* Faults: nobody is raced by one, for a scrub that breaks empties a file  *)
(* that only its writer still has.                                         *)
LEMMA FaultInv ==
  ASSUME Inv, NEW w \in Writer, Frame(w), UNCHANGED <<dir, raced, edits>>,
         broken' = broken \/ broken' = broken \cup {w}, faults' = faults + 1,
         data'[w] = data[w] \/ (data'[w] = "empty" /\ dir[Aside(w)] = w),
         Own(w)', w \notin raced \cup broken' => Undisturbed(w)',
         Quiet' => \E s \in SUBSET Inode : Restorable(s)'
  PROVE  Inv'
<1>1. Struct'
  <2>1. raced' \subseteq Writer /\ broken' \subseteq Writer /\ faults' \in Nat /\ edits' \in Nat
    BY Parts DEF TypeOK
  <2> QED BY <2>1, StructStep
<1>2. \A u \in Writer : Own(u)'
  BY OthersOwn
<1>3. ASSUME NEW u \in Writer, u \notin raced' \cup broken' PROVE Undisturbed(u)'
  BY <1>3, OthersUndisturbed
<1> QED BY <1>1, <1>2, <1>3 DEF Inv

(* A fault that only sends a write elsewhere. *)
LEMMA StrikeInv ==
  ASSUME Inv, NEW w \in Writer, NEW pc \in Pc, Goto(w, pc), ~At(w, "giveup"),
         UNCHANGED <<dir, data, raced, edits>>,
         broken' = broken \/ broken' = broken \cup {w}, faults' = faults + 1,
         Own(w)', w \notin raced \cup broken' => Undisturbed(w)',
         job[w].pc \in {"withdraw", "withdraw-move"} => pc = "giveup"
  PROVE  Inv'
<1>1. JobStep(w) /\ job'[w].pc = pc /\ job'[w].orig = job[w].orig /\ job'[w].touched = job[w].touched
  BY GotoJob
<1>2. Frame(w)
  BY <1>1, SameDir, SameData, Parts DEF Frame
<1>3. ASSUME Quiet' PROVE \E s \in SUBSET Inode : Restorable(s)'
  <2>1. pc # "giveup"
    BY <1>1, <1>3 DEF Quiet, Doubtful
  <2>2. \A i \in Inode : Complete(i) => Complete(i)'
    BY <1>1, <2>1 DEF Complete, JobStep
  <2>3. Complete(Orig(w)) => Complete(Orig(w))'
    BY <1>1, <2>1 DEF Complete, JobStep
  <2> QED BY <1>1, <1>2, <1>3, <2>2, <2>3, KeepRestorable
<1> QED BY <1>2, <1>3, FaultInv

LEMMA CancelInv ==
  ASSUME Inv, NEW w \in Writer, Cancel(w), UNCHANGED <<raced, edits>>, faults' = faults + 1
  PROVE  Inv'
<1>1. Own(w) /\ UNCHANGED <<dir, data, broken>> /\ w # None
  BY Parts, StrictWriteAssumption DEF Cancel
<1>2. CASE job[w].pc \in Preparing /\ Goto(w, "outer")
  <2>1. job[w].pc \in {"writing", "prepared", "open"} /\ "outer" \in Pc
    BY <1>2 DEF Preparing, Pc
  <2>2. /\ JobStep(w) /\ job'[w].pc = "outer" /\ job'[w].orig = job[w].orig
        /\ job'[w].ok = job[w].ok /\ job'[w].touched = job[w].touched
        /\ job'[w].indeterminate = job[w].indeterminate
    BY <1>2, <2>1, GotoJob
  <2>3. Own(w)'
    BY <1>1, <2>1, <2>2 DEF Own
  <2>4. ASSUME w \notin raced \cup broken' PROVE Undisturbed(w)'
    BY <1>1, <2>1, <2>2, <2>4 DEF Undisturbed, Inv, RollingBack, Own
  <2> QED BY <1>1, <1>2, <2>1, <2>3, <2>4, StrikeInv
<1>3. CASE job[w].pc \in Stages /\ Goto(w, "rollback")
  <2>1. job[w].pc \in {"install", "new-installed", "new-durable", "existing-exchanged",
                       "existing-durable", "original-quarantined", "original-scrubbed"}
        /\ "rollback" \in Pc
    BY <1>3 DEF Stages, Pc
  <2>2. /\ JobStep(w) /\ job'[w].pc = "rollback" /\ job'[w].orig = job[w].orig
        /\ job'[w].ok = job[w].ok /\ job'[w].touched = job[w].touched
        /\ job'[w].size = job[w].size /\ job'[w].scrubbed = job[w].scrubbed
        /\ job'[w].indeterminate = job[w].indeterminate
    BY <1>3, <2>1, GotoJob
  <2>3. Own(w)'
    BY <1>1, <2>1, <2>2 DEF Own
  <2>4. ASSUME w \notin raced \cup broken' PROVE Undisturbed(w)'
    <3>1. Undisturbed(w)
      BY <1>1, <2>4 DEF Inv
    <3>2. CASE job[w].pc \in {"install", "new-installed", "new-durable"}
      BY <1>1, <2>2, <3>1, <3>2 DEF Undisturbed, RollingBack, Own
    <3>3. CASE job[w].pc \in {"existing-exchanged", "existing-durable", "original-quarantined"}
      BY <1>1, <2>2, <3>1, <3>3 DEF Undisturbed, RollingBack, Own
    <3>4. CASE job[w].pc = "original-scrubbed"
      BY <1>1, <2>2, <3>1, <3>4 DEF Undisturbed, RollingBack, Own
    <3> QED BY <2>1, <3>2, <3>3, <3>4
  <2> QED BY <1>1, <1>3, <2>1, <2>3, <2>4, StrikeInv
<1> QED BY <1>2, <1>3 DEF Cancel

LEMMA ScrubBreaksInv ==
  ASSUME Inv, NEW w \in Writer, ScrubBreaks(w), UNCHANGED <<raced, edits>>,
         broken' = broken \cup {w}, faults' = faults + 1
  PROVE  Inv'
<1>1. /\ At(w, "touched") /\ Own(w) /\ UNCHANGED dir /\ Goto(w, "rollback") /\ w \in Inode
      /\ job[w].touched /\ Orig(w) # None /\ dir[Aside(w)] = Orig(w) /\ "rollback" \in Pc
  BY Parts DEF ScrubBreaks, Inode, Own, Pc
<1>2. /\ JobStep(w) /\ job'[w].pc = "rollback" /\ job'[w].orig = job[w].orig
      /\ job'[w].touched = job[w].touched
  BY <1>1, GotoJob
<1>3. CASE UNCHANGED data
  <2>1. Own(w)'
    BY <1>1, <1>2, <1>3 DEF Own
  <2> QED BY <1>1, <1>3, <2>1, StrikeInv
<1>4. CASE data' = [data EXCEPT ![Orig(w)] = "empty"]
  <2>1. /\ DataStep(w) /\ data'[Orig(w)] = "empty" /\ Orig(w) \in Inode
        /\ \A i \in Inode : i # Orig(w) => data'[i] = data[i]
    BY <1>1, <1>2, <1>4, ScrubData
  <2>2. Frame(w)
    BY <1>1, <1>2, <2>1, SameDir, Parts DEF Frame
  <2>3. Own(w)'
    BY <1>1, <1>2, <2>1 DEF Own
  <2>4. data'[w] = data[w] \/ (data'[w] = "empty" /\ dir[Aside(w)] = w)
    BY <1>1, <2>1
  <2>5. ASSUME Quiet' PROVE \E s \in SUBSET Inode : Restorable(s)'
    <3>1. \A i \in Inode : Complete(i) /\ ~Complete(i)' => i = Orig(w)
      BY <1>1, <1>2, <2>1 DEF Complete, JobStep
    <3>2. \A i \in Inode : Complete(i) /\ ~Complete(i)' => \E n \in Private(w) : dir[n] = i
      BY <1>1, <3>1 DEF Private
    <3> QED BY <1>1, <1>2, <2>2, <2>5, <3>2, KeepRestorable
  <2> QED BY <1>1, <2>2, <2>3, <2>4, <2>5, FaultInv
<1> QED BY <1>3, <1>4 DEF ScrubBreaks

LEMMA OtherBreaksInv ==
  ASSUME Inv, NEW w \in Writer, RollbackBreaks(w) \/ CloseBreaks(w), UNCHANGED <<raced, edits>>,
         broken' = broken \cup {w}, faults' = faults + 1
  PROVE  Inv'
<1>1. PICK pc \in {"giveup", "indeterminate"} :
        /\ Goto(w, pc) /\ ~At(w, "giveup")
        /\ job[w].pc \in {"withdraw", "withdraw-move"} => pc = "giveup"
  BY DEF RollbackBreaks, CloseBreaks, RollingBack
<1>2. pc \in Pc /\ UNCHANGED <<dir, data>> /\ Own(w)
  BY Parts DEF RollbackBreaks, CloseBreaks, Pc, Ended
<1>3. /\ JobStep(w) /\ job'[w].pc = pc /\ job'[w].orig = job[w].orig
      /\ job'[w].touched = job[w].touched
  BY <1>1, <1>2, GotoJob
<1>4. Own(w)'
  BY <1>2, <1>3 DEF Own
<1> QED BY <1>1, <1>2, <1>4, StrikeInv

-----------------------------------------------------------------------------
(* What other programs do to the shared names. *)
LEMMA EditInv ==
  ASSUME Inv, UNCHANGED <<job, broken, faults>>, Races({}), edits' = edits + 1,
         \A w \in Writer, n \in Name : n \in Private(w) => dir'[n] = dir[n],
         \A i \in Inode : data[i] # "none" => data'[i] = data[i],
         \A w \in Writer : data'[w] = data[w] /\ (dir'[Backup] # dir[Backup] /\ dir[Tmp(w)] = w => dir'[Backup] # w),
         dir' \in [Name -> Inode \cup {None}], data' \in [Inode -> Content],
         OneName', Unborn', \A i \in File : data'[i] \in {data[i], "full"},
         Quiet => \E s \in SUBSET Inode : Restorable(s)'
  PROVE  Inv'
<1>1. raced' \subseteq Writer /\ raced \subseteq raced'
  BY Parts DEF Races, TypeOK
<1>2. Struct'
  <2>1. TypeOK'
    BY <1>1, Parts DEF TypeOK
  <2>2. Scrubbed'
    BY DEF Inv, Struct, Scrubbed
  <2> QED BY <2>1, <2>2 DEF Struct
<1>3. ASSUME NEW w \in Writer
      PROVE  /\ job'[w] = job[w] /\ data'[w] = data[w]
             /\ job[w].orig # None => data'[job[w].orig] = data[job[w].orig]
             /\ dir'[Tmp(w)] = dir[Tmp(w)] /\ dir'[Aside(w)] = dir[Aside(w)]
             /\ dir'[Rolled(w)] = dir[Rolled(w)] /\ dir'[Zero(w)] = dir[Zero(w)]
  <2>1. \A n \in Private(w) : dir'[n] = dir[n]
    BY PrivateNames DEF Private
  <2>2. job[w].orig # None => data'[job[w].orig] = data[job[w].orig]
    BY Parts DEF Own, JobType
  <2> QED BY <2>1, <2>2 DEF Private
<1>4. ASSUME NEW w \in Writer PROVE Own(w)'
  <2>1. Own(w)
    BY Parts
  <2>2. dir[Tmp(w)] = w /\ dir[Backup] # w => dir'[Backup] # w
    OBVIOUS
  <2> QED BY <1>3, <2>1, <2>2 DEF Own, Clean, Private
<1>5. ASSUME NEW w \in Writer, w \notin raced' \cup broken' PROVE Undisturbed(w)'
  <2>1. Undisturbed(w) /\ Own(w)
    BY <1>1, <1>5, Parts DEF Inv
  <2>2. CASE job[w].pc \in {"idle", "writing", "prepared"} \cup Ended
    BY <1>3, <2>1, <2>2 DEF Undisturbed, Ended, RollingBack
  <2>3. CASE job[w].pc \notin {"idle", "writing", "prepared"} \cup Ended
    <3>1. Exposed(w) /\ w \in Writer \ {}
      BY <2>3 DEF Exposed
    <3>2. Shared' = Shared
      BY <1>5, <3>1 DEF Races
    <3>3. dir'[Target] = dir[Target] /\ dir'[Backup] = dir[Backup]
      BY <3>2 DEF Shared
    <3> QED BY <1>3, <2>1, <3>3 DEF Undisturbed, Own
  <2> QED BY <2>2, <2>3
<1>6. Quiet' => Quiet
  BY DEF Quiet, Doubtful
<1> QED BY <1>2, <1>4, <1>5, <1>6 DEF Inv

LEMMA TargetOnly ==
  ASSUME Inv, NEW i \in Inode \cup {None}, dir' = [dir EXCEPT ![Target] = i]
  PROVE  /\ dir' \in [Name -> Inode \cup {None}] /\ dir'[Target] = i
         /\ \A n \in Name : n # Target => dir'[n] = dir[n]
         /\ dir'[Backup] = dir[Backup]
         /\ \A w \in Writer, n \in Name : n \in Private(w) => dir'[n] = dir[n]
<1>1. dir \in [Name -> Inode \cup {None}]
  BY Parts DEF TypeOK
<1>2. \A w \in Writer : Target \notin Private(w)
  BY PrivateNames
<1> QED BY <1>1, <1>2, SharedNames

LEMMA ReplaceInv ==
  ASSUME Inv, NEW f \in File, Replace(f), UNCHANGED <<job, broken, faults>>, Races({}), edits' = edits + 1
  PROVE  Inv'
<1>1. /\ data[f] = "none" /\ dir' = [dir EXCEPT ![Target] = f] /\ data' = [data EXCEPT ![f] = "full"]
      /\ f \in Inode /\ f \notin Writer /\ f # None
  BY StrictWriteAssumption DEF Replace, Inode
<1>2. /\ dir' \in [Name -> Inode \cup {None}] /\ dir'[Target] = f
      /\ \A n \in Name : n # Target => dir'[n] = dir[n]
      /\ dir'[Backup] = dir[Backup]
      /\ \A w \in Writer, n \in Name : n \in Private(w) => dir'[n] = dir[n]
  BY <1>1, TargetOnly
<1>3. /\ data' \in [Inode -> Content] /\ data'[f] = "full"
      /\ \A i \in Inode : i # f => data'[i] = data[i]
  BY <1>1, Parts DEF TypeOK, Content
<1>4. \A n \in Name : dir[n] # f
  BY <1>1, Parts DEF Unborn
<1>5. OneName'
  BY <1>2, <1>4, Parts DEF OneName
<1>6. Unborn'
  BY <1>1, <1>2, <1>3, Parts DEF Unborn
<1>7. Restorable({f})'
  BY <1>1, <1>2, <1>3 DEF Restorable, Complete
<1>8. \A w \in Writer : data'[w] = data[w]
  BY <1>1, <1>3 DEF Inode
<1>9. \A i \in File : data'[i] \in {data[i], "full"}
  BY <1>3 DEF Inode
<1> QED BY <1>1, <1>2, <1>3, <1>5, <1>6, <1>7, <1>8, <1>9, EditInv

LEMMA RemoveInv ==
  ASSUME Inv, Remove, UNCHANGED <<job, broken, faults>>, Races({}), edits' = edits + 1
  PROVE  Inv'
<1>1. dir' = [dir EXCEPT ![Target] = None] /\ UNCHANGED data
  BY DEF Remove
<1>2. /\ dir' \in [Name -> Inode \cup {None}] /\ dir'[Target] = None
      /\ \A n \in Name : n # Target => dir'[n] = dir[n]
      /\ dir'[Backup] = dir[Backup]
      /\ \A w \in Writer, n \in Name : n \in Private(w) => dir'[n] = dir[n]
  BY <1>1, TargetOnly
<1>3. OneName'
  BY <1>2, Parts DEF OneName
<1>4. Unborn'
  BY <1>1, <1>2, Parts, StrictWriteAssumption DEF Unborn, Inode
<1>5. data' \in [Inode -> Content]
  BY <1>1, Parts DEF TypeOK
<1> QED BY <1>1, <1>2, <1>3, <1>4, <1>5, NothingToRestore, EditInv

LEMMA LinkInv ==
  ASSUME Inv, Link, UNCHANGED <<job, broken, faults>>, Races({}), edits' = edits + 1
  PROVE  Inv'
<1>1. /\ dir[Target] # None /\ dir' = [dir EXCEPT ![Backup] = dir[Target]] /\ UNCHANGED data
      /\ dir \in [Name -> Inode \cup {None}]
  BY Parts DEF Link, TypeOK
<1>2. /\ dir' \in [Name -> Inode \cup {None}] /\ dir'[Backup] = dir[Target]
      /\ \A n \in Name : n # Backup => dir'[n] = dir[n]
  BY <1>1, SharedNames
<1>3. \A w \in Writer, n \in Name : n \in Private(w) => dir'[n] = dir[n]
  BY <1>2, PrivateNames
<1>4. OneName' /\ Unborn'
  BY <1>1, <1>2, Parts, SharedNames DEF OneName, Unborn
<1>5. \A w \in Writer : dir[Tmp(w)] = w => dir'[Backup] # w
  BY <1>1, <1>2, Parts, PrivateNames, SharedNames DEF OneName, Private
<1>6. ASSUME Quiet PROVE \E s \in SUBSET Inode : Restorable(s)'
  <2>1. PICK s \in SUBSET Inode : Restorable(s)
    BY <1>6 DEF Inv
  <2>2. dir'[Target] = dir[Target]
    BY <1>2, SharedNames
  <2>3. \A w \in Writer : dir'[Tmp(w)] = dir[Tmp(w)] /\ dir'[Aside(w)] = dir[Aside(w)]
    BY <1>3, PrivateNames DEF Private
  <2>4. Restorable(s)'
    BY <1>1, <2>1, <2>2, <2>3 DEF Restorable, Complete
  <2> QED BY <2>4
<1>7. data' \in [Inode -> Content]
  BY <1>1, Parts DEF TypeOK
<1> QED BY <1>1, <1>2, <1>3, <1>4, <1>5, <1>6, <1>7, EditInv
-----------------------------------------------------------------------------
(* The invariant holds initially and is kept. *)
LEMMA InvInit == Init => Inv
<1> SUFFICES ASSUME Init PROVE Inv
  OBVIOUS
<1>1. PICK first \in File \cup {None} :
        /\ dir = [n \in Name |-> IF n = Target THEN first ELSE None]
        /\ data = [i \in Inode |-> IF i = first THEN "full" ELSE "none"]
        /\ job = [w \in Writer |-> NewJob]
        /\ raced = {} /\ broken = {} /\ faults = 0 /\ edits = 0
  BY DEF Init
<1>2. /\ Writer \cap File = {} /\ None \notin Inode /\ first \notin Writer
      /\ first \in Inode \cup {None}
  BY <1>1, StrictWriteAssumption DEF Inode
<1>3. /\ \A n \in Name : n # Target => dir[n] = None
      /\ dir[Target] = first
      /\ \A i \in Inode : data[i] = IF i = first THEN "full" ELSE "none"
  BY <1>1, SharedNames
<1>4. \A w \in Writer : job[w] = NewJob
  BY <1>1
<1>5. TypeOK
  <2>1. "idle" \in Pc
    BY DEF Pc
  <2>2. NewJob \in JobType
    BY <2>1 DEF NewJob, JobType, Content
  <2>3. dir \in [Name -> Inode \cup {None}] /\ data \in [Inode -> Content]
    BY <1>1, <1>2 DEF Content
  <2> QED BY <1>1, <2>2, <2>3 DEF TypeOK
<1>6. OneName
  BY <1>3 DEF OneName
<1>7. Unborn
  BY <1>2, <1>3 DEF Unborn
<1>8. Scrubbed
  BY <1>3 DEF Scrubbed, Inode
<1>9. ASSUME NEW w \in Writer PROVE Own(w) /\ Undisturbed(w)
  <2>1. /\ dir[Tmp(w)] = None /\ dir[Aside(w)] = None /\ dir[Rolled(w)] = None
        /\ dir[Zero(w)] = None
    BY <1>3, PrivateNames DEF Private
  <2>2. data[w] = "none"
    BY <1>2, <1>3 DEF Inode
  <2>3. /\ job[w].pc = "idle" /\ job[w].orig = None /\ job[w].ok /\ ~job[w].touched
        /\ ~job[w].indeterminate
    BY <1>4 DEF NewJob
  <2>4. Own(w)
    BY <2>1, <2>2, <2>3 DEF Own
  <2>5. Undisturbed(w)
    BY <2>3 DEF Undisturbed, RollingBack
  <2> QED BY <2>4, <2>5
<1>10. \E s \in SUBSET Inode : Restorable(s)
  <2>1. CASE first = None
    <3>1. Restorable({})
      BY <1>3, <2>1 DEF Restorable
    <3> QED BY <3>1
  <2>2. CASE first # None
    <3>1. {first} \in SUBSET Inode /\ {first} \cap Writer = {}
      BY <1>2, <2>2
    <3>2. Restorable({first})
      BY <1>2, <1>3, <3>1 DEF Restorable, Complete
    <3> QED BY <3>1, <3>2
  <2> QED BY <2>1, <2>2
<1> QED BY <1>5, <1>6, <1>7, <1>8, <1>9, <1>10 DEF Inv, Struct

LEMMA StepKeeps ==
  ASSUME Inv, NEW w \in Writer, Step(w), Races({w}), UNCHANGED <<broken, faults, edits>>
  PROVE  Inv'
BY CreateInv, PrepareInv, StatTargetInv, OpenTargetInv, InstallNewInv, CheckNewInv,
   CommitNewInv, ExchangeInv, CheckExchangedInv, SetAsideInv, TouchInv, ScrubOriginalInv,
   CommitExistingInv, WithdrawInv, WithdrawStatInv, WithdrawMoveInv, WithdrawCheckInv,
   SettleTouchedInv, RestoreInv, RestoreExchangeInv, RetireInv, VerifyInv, GiveUpInv,
   OuterInv, CloseInv DEF Step

LEMMA StutterKeeps == ASSUME Inv, UNCHANGED vars PROVE Inv'
<1> USE DEF vars
<1>1. Struct'
  BY DEF Inv, Struct, TypeOK, OneName, Unborn, Scrubbed
<1>2. \A w \in Writer : Own(w)'
  BY DEF Inv, Own, Clean
<1>3. \A w \in Writer \ (raced' \cup broken') : Undisturbed(w)'
  BY DEF Inv, Undisturbed
<1>4. ASSUME Quiet' PROVE \E s \in SUBSET Inode : Restorable(s)'
  <2>1. Quiet
    BY <1>4 DEF Quiet, Doubtful
  <2>2. PICK s \in SUBSET Inode : Restorable(s)
    BY <2>1 DEF Inv
  <2>3. Restorable(s)'
    BY <2>2 DEF Restorable, Complete
  <2> QED BY <2>3
<1> QED BY <1>1, <1>2, <1>3, <1>4 DEF Inv

LEMMA InvNext == ASSUME Inv, [Next]_vars PROVE Inv'
<1>1. ASSUME NEW w \in Writer, Step(w) /\ Races({w}) /\ UNCHANGED <<broken, faults, edits>>
      PROVE  Inv'
  BY <1>1, StepKeeps
<1>2. ASSUME NEW w \in Writer, Fault(w) /\ UNCHANGED <<raced, edits>> PROVE Inv'
  <2>1. CASE Cancel(w)
    BY <1>2, <2>1, CancelInv DEF Fault
  <2>2. CASE IoError(w)
    BY <1>2, <2>2, ScrubBreaksInv, OtherBreaksInv DEF Fault, IoError
  <2> QED BY <1>2, <2>1, <2>2 DEF Fault
<1>3. ASSUME Edit /\ Races({}) /\ UNCHANGED <<job, broken, faults>> PROVE Inv'
  BY <1>3, ReplaceInv, RemoveInv, LinkInv DEF Edit
<1>4. CASE UNCHANGED vars
  BY <1>4, StutterKeeps
<1> QED BY <1>1, <1>2, <1>3, <1>4 DEF Next

LEMMA InvAlways == Spec => []Inv
BY InvInit, InvNext, PTL DEF Spec

-----------------------------------------------------------------------------
(* Names, contents and the notes of every write keep their types.          *)
THEOREM TypeCorrect == Spec => []TypeOK
<1>1. Inv => TypeOK
  BY DEF Inv, Struct
<1> QED BY <1>1, InvAlways, PTL

(* Whatever the writes, other programs and faults do, and wherever a write *)
(* stops, the target of atomic_write is a complete file (secure.py:1044),  *)
(* unless a write is in doubt or withdraws a target it created: the target *)
(* belongs to a set of complete inodes that every rollback stays in.       *)
THEOREM TargetCompleteCorrect == Spec => []TargetComplete
<1>1. ASSUME Inv PROVE TargetComplete
  <2>1. SUFFICES ASSUME dir[Target] # None, data[dir[Target]] # "full", Quiet
                 PROVE  /\ dir[Target] \in Writer /\ job[dir[Target]].orig = None
                        /\ job[dir[Target]].pc \in RollingBack
    BY DEF TargetComplete, Quiet
  <2>2. PICK s \in SUBSET Inode : Restorable(s)
    BY <1>1, <2>1 DEF Inv
  <2>3. Complete(dir[Target])
    BY <2>1, <2>2 DEF Restorable
  <2> QED BY <2>1, <2>3 DEF Complete, RollingBack
<1> QED BY <1>1, InvAlways, PTL

(* A write that reports a plain failure is undone (secure.py:1225): its    *)
(* private names hold nobody else's file, and what it meant to replace was *)
(* emptied by nobody, or by another write that displaced it.               *)
THEOREM FailedCleanCorrect == Spec => []FailedClean
<1>1. ASSUME Inv PROVE FailedClean
  <2>1. SUFFICES ASSUME NEW w \in Writer, job[w].pc = "failed"
                 PROVE  /\ \A n \in Private(w) : dir[n] \in {None, w}
                        /\ job[w].orig \in File /\ data[job[w].orig] # "full" =>
                             \E v \in Writer \ {w} : job[v].touched /\ job[v].orig = job[w].orig
    BY DEF FailedClean
  <2>2. Own(w) /\ Scrubbed
    BY <1>1 DEF Inv, Struct
  <2>3. ~job[w].touched /\ Clean(w)
    BY <2>1, <2>2 DEF Own
  <2>4. ASSUME job[w].orig \in File, data[job[w].orig] # "full"
        PROVE  \E v \in Writer \ {w} : job[v].touched /\ job[v].orig = job[w].orig
    <3>1. data[job[w].orig] # "none"
      BY <2>2, <2>4, StrictWriteAssumption DEF Own
    <3>2. PICK v \in Writer : job[v].touched /\ job[v].orig = job[w].orig
      BY <2>2, <2>4, <3>1 DEF Scrubbed
    <3> QED BY <2>3, <3>2
  <2> QED BY <2>3, <2>4 DEF Clean
<1> QED BY <1>1, InvAlways, PTL

(* A cancellation at any stage of the write never makes its outcome        *)
(* indeterminate (_install_verified_temporary): an unraced write finds at  *)
(* each step of its rollback what it left, and can prove it undone.        *)
THEOREM CancelledCleanCorrect == Spec => []CancelledClean
<1>1. ASSUME Inv PROVE CancelledClean
  BY <1>1 DEF Inv, Undisturbed, CancelledClean
<1> QED BY <1>1, InvAlways, PTL

=============================================================================
