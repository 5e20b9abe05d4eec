----------------------- MODULE LocalTransaction_proofs -----------------------
(***************************************************************************)
(* Proofs about LocalTransaction, for any number of processes, targets and *)
(* operations and any lock order.                                          *)
(***************************************************************************)
EXTENDS LocalTransaction, TLAPS

-----------------------------------------------------------------------------
(* Typing                                                                  *)

(* The locks and the transaction memory that Leave leaves behind are typed. *)
LEMMA LeaveType ==
  ASSUME TypeOK, NEW p \in Proc, Leave(p)
  PROVE  /\ owner' \in [Lock -> Proc \cup {NoProc}]
         /\ pc' \in [Proc -> PCs]
         /\ todo' \in [Proc -> SUBSET Target]
         /\ pre' \in [Proc -> Content]
         /\ poisoned' \in [Proc -> BOOLEAN]
  BY DEF TypeOK, Leave, Goto, PCs, Nothing, Content

LEMMA RestoreTargetType ==
  ASSUME TypeOK, NEW p \in Proc, NEW c \in Content, RestoreTarget(p, c)
  PROVE  TypeOK'
  BY DEF TypeOK, RestoreTarget, Content

(* The process of an operation and its number make the operation's name. *)
LEMMA CurType ==
  ASSUME TypeOK, NEW p \in Proc, count[p] # 0
  PROVE  Cur(p) \in Op
  BY MaxOpsAssumption DEF TypeOK, Cur, Op

(* A record, whole or torn, added to one file. *)
LEMMA AddRecordType ==
  ASSUME file \in Content, NEW t \in Target, NEW r \in Op \cup {Torn},
         file' = [file EXCEPT ![t] = @ \cup {r}]
  PROVE  file' \in Content
  BY DEF Content

(* A process inside an operation has begun one. *)
Counted == \A p \in Proc : pc[p] # "idle" => count[p] # 0

LEMMA WritesType ==
  ASSUME TypeOK, Counted, NEW p \in Proc, pc[p] # "idle"
  PROVE  Cur(p) \in Op /\ Writes(p) \in SUBSET Target
<1>1. Cur(p) \in Op
  BY CurType DEF Counted
<1> QED
  BY <1>1 DEF Writes, TypeOK

LEMMA TypeStep ==
  ASSUME TypeOK, Counted, [Next]_vars
  PROVE  TypeOK' /\ Counted'
<1> USE KindsAssumption, MaxOpsAssumption
<1>1. CASE UNCHANGED vars
  BY <1>1 DEF TypeOK, Counted, vars, Content
<1>2. ASSUME NEW p \in Proc, Begin(p)
      PROVE  TypeOK' /\ Counted'
  <2>1. PICK k \in Kinds, W \in SUBSET Target :
          /\ request' = [request EXCEPT ![<<p, count[p] + 1>>] = [kind |-> k, writes |-> W]]
          /\ Goto(p, IF k = "put" THEN "storelock" ELSE "locking")
    BY <1>2 DEF Begin
  <2>2. pc' \in [Proc -> PCs]
    BY <2>1 DEF TypeOK, Goto, PCs
  <2>3. request' \in [Op -> [kind : Kinds \cup {"none"}, writes : SUBSET Target]]
    BY <2>1 DEF TypeOK
  <2>4. count' \in [Proc -> 0 .. MaxOps] /\ count'[p] # 0
    BY <1>2 DEF TypeOK, Begin
  <2> QED
    BY <1>2, <2>1, <2>2, <2>3, <2>4 DEF TypeOK, Counted, Begin, Goto, disk, memory
<1>3. ASSUME NEW p \in Proc, AcquireLock(p)
      PROVE  TypeOK' /\ Counted'
  BY <1>3 DEF TypeOK, Counted, AcquireLock, Goto, PCs, disk, memory
<1>4. ASSUME NEW p \in Proc, BeginRestore(p)
      PROVE  TypeOK' /\ Counted'
  BY <1>4 DEF TypeOK, Counted, BeginRestore, Goto, PCs, disk
<1>5. ASSUME NEW p \in Proc, RecoverTarget(p)
      PROVE  TypeOK' /\ Counted'
  <2>1. journal.pre \in Content
    BY DEF TypeOK
  <2> QED
    BY <1>5, <2>1, RestoreTargetType DEF RecoverTarget, RestoreTarget, Counted
<1>6. ASSUME NEW p \in Proc, FinishRecovery(p)
      PROVE  TypeOK' /\ Counted'
  BY <1>6 DEF TypeOK, Counted, FinishRecovery, Goto, PCs, memory, NoJournal, Nothing, Content
<1>7. ASSUME NEW p \in Proc, Prepare(p)
      PROVE  TypeOK' /\ Counted'
  <2>1. Cur(p) \in Op /\ Writes(p) \in SUBSET Target
    BY <1>7, WritesType DEF Prepare
  <2> QED
    BY <1>7, <2>1 DEF TypeOK, Counted, Prepare, Goto, PCs
<1>8. ASSUME NEW p \in Proc, WriteTarget(p)
      PROVE  TypeOK' /\ Counted'
  <2>1. Cur(p) \in Op
    BY <1>8, CurType DEF WriteTarget, Counted
  <2> QED
    BY <1>8, <2>1 DEF TypeOK, Counted, WriteTarget, Content
<1>9. ASSUME NEW p \in Proc, CommitJournal(p)
      PROVE  TypeOK' /\ Counted'
  BY <1>9 DEF TypeOK, Counted, CommitJournal, Goto, PCs, memory
<1>10. ASSUME NEW p \in Proc, UnlinkJournal(p)
       PROVE  TypeOK' /\ Counted'
  BY <1>10 DEF TypeOK, Counted, UnlinkJournal, Goto, PCs, memory, NoJournal, Nothing, Content
<1>11. ASSUME NEW p \in Proc, PoisonedFails(p)
       PROVE  TypeOK' /\ Counted'
  BY <1>11 DEF TypeOK, Counted, PoisonedFails, StartRollback, Goto, PCs, disk
<1>12. ASSUME NEW p \in Proc, RollbackTarget(p)
       PROVE  TypeOK' /\ Counted'
  <2>1. pre[p] \in Content
    BY DEF TypeOK
  <2> QED
    BY <1>12, <2>1, RestoreTargetType DEF RollbackTarget, RestoreTarget, Counted
<1>13. ASSUME NEW p \in Proc, FinishRollback(p)
       PROVE  TypeOK' /\ Counted'
  BY <1>13, LeaveType DEF TypeOK, Counted, FinishRollback, Leave, Goto, NoJournal, Nothing,
     Content
<1>14. ASSUME NEW p \in Proc, CoordinatedAppend(p)
       PROVE  TypeOK' /\ Counted'
  <2>1. Cur(p) \in Op /\ Writes(p) \in SUBSET Target
    BY <1>14, WritesType DEF CoordinatedAppend
  <2>2. file' \in Content
    BY <1>14, <2>1, AddRecordType DEF CoordinatedAppend, TypeOK
  <2> QED
    BY <1>14, <2>2 DEF TypeOK, Counted, CoordinatedAppend, Goto, PCs, memory
<1>15. ASSUME NEW p \in Proc, ReadSnapshot(p)
       PROVE  TypeOK' /\ Counted'
  BY <1>15 DEF TypeOK, Counted, ReadSnapshot, Goto, PCs, memory, disk
<1>16. ASSUME NEW p \in Proc, LockStore(p)
       PROVE  TypeOK' /\ Counted'
  BY <1>16 DEF TypeOK, Counted, LockStore, Goto, PCs, memory, disk
<1>17. ASSUME NEW p \in Proc, PutAlone(p)
       PROVE  TypeOK' /\ Counted'
  <2>1. Cur(p) \in Op /\ Writes(p) \in SUBSET Target
    BY <1>17, WritesType DEF PutAlone
  <2>2. file' \in Content
    BY <1>17, <2>1, AddRecordType DEF PutAlone, TypeOK
  <2> QED
    BY <1>17, <2>2 DEF TypeOK, Counted, PutAlone, Goto, PCs, memory
<1>18. ASSUME NEW p \in Proc, StoreRefuses(p)
       PROVE  TypeOK' /\ Counted'
  BY <1>18, LeaveType DEF TypeOK, Counted, StoreRefuses, Leave, Goto, disk
<1>19. ASSUME NEW p \in Proc, Return(p)
       PROVE  TypeOK' /\ Counted'
  <2>1. Cur(p) \in Op
    BY <1>19, CurType DEF Return, Counted
  <2> QED
    BY <1>19, <2>1, LeaveType DEF TypeOK, Counted, Return, Leave, Goto, disk
<1>20. ASSUME NEW p \in Proc, NestedFailure(p)
       PROVE  TypeOK' /\ Counted'
  BY <1>20 DEF TypeOK, Counted, NestedFailure, disk
<1>21. ASSUME NEW p \in Proc, BodyFails(p)
       PROVE  TypeOK' /\ Counted'
  <2>1. todo[p] \in SUBSET Target
    BY DEF TypeOK
  <2>2. file' \in Content
    BY <1>21, <2>1, AddRecordType DEF BodyFails, TypeOK
  <2> QED
    BY <1>21, <2>2 DEF TypeOK, Counted, BodyFails, StartRollback, Goto, PCs
<1>22. ASSUME NEW p \in Proc, PostCommitError(p)
       PROVE  TypeOK' /\ Counted'
  BY <1>22 DEF TypeOK, Counted, PostCommitError, StartRollback, Goto, PCs, NoJournal, Nothing,
     Content
<1>23. ASSUME NEW p \in Proc, TornAppend(p)
       PROVE  TypeOK' /\ Counted'
  <2>1. Writes(p) \in SUBSET Target
    BY <1>23, WritesType DEF TornAppend
  <2>2. file' \in Content
    BY <1>23, <2>1, AddRecordType DEF TornAppend, TypeOK
  <2> QED
    BY <1>23, <2>2, LeaveType DEF TypeOK, Counted, TornAppend, Leave, Goto
<1>24. ASSUME NEW p \in Proc, Abandon(p)
       PROVE  TypeOK' /\ Counted'
  BY <1>24, LeaveType DEF TypeOK, Counted, Abandon, Leave, Goto, disk
<1> QED
  BY <1>1, <1>2, <1>3, <1>4, <1>5, <1>6, <1>7, <1>8, <1>9, <1>10, <1>11, <1>12, <1>13,
     <1>14, <1>15, <1>16, <1>17, <1>18, <1>19, <1>20, <1>21, <1>22, <1>23, <1>24
  DEF Next, Step

LEMMA TypeInit == Init => TypeOK /\ Counted
  BY MaxOpsAssumption
  DEF Init, TypeOK, Counted, Content, Nothing, NoJournal, NoRequest, PCs

(* TypeOK is an invariant of every instance of the specification. *)
THEOREM TypeCorrect == Spec => []TypeOK
<1>1. TypeOK /\ Counted /\ [Next]_vars => (TypeOK /\ Counted)'
  BY TypeStep
<1> QED
  BY <1>1, TypeInit, PTL DEF Spec

-----------------------------------------------------------------------------
(* Acknowledged operations are durable                                     *)

(* Where an operation owns the complete lock set. *)
Exclusive(p) == \/ pc[p] \in {"recover", "restore", "run", "body", "unlink", "rollback"}
                \/ pc[p] = "done" /\ Kind(p) # "put"

LocksHeld == \A p \in Proc : Exclusive(p) => \A l \in Lock : owner[l] = p

StoreKinds == \A p \in Proc : pc[p] \in {"storelock", "put"} => Kind(p) = "put"

(* The journal on disk is the one the operation that owns the locks expects. *)
JournalState ==
  \A p \in Proc :
    /\ Exclusive(p) /\ pc[p] \in {"run", "done"} => journal.state = "none"
    /\ pc[p] = "restore" => journal.state = "prepared"
    /\ pc[p] = "body" => journal.state = "prepared" /\ journal.pre = pre[p]
    /\ pc[p] = "unlink" => journal.state = "committed"

(* What a transaction wrote so far, unless a nested failure was swallowed. *)
Written ==
  \A p \in Proc :
    /\ pc[p] = "body" /\ ~poisoned[p] => \A t \in Writes(p) \ todo[p] : Cur(p) \in file[t]
    /\ Exclusive(p) /\ pc[p] \in {"unlink", "done"} => \A t \in Writes(p) : Cur(p) \in file[t]

Keeps(c) == \A o \in acked : request[o].kind # "put" => \A t \in request[o].writes : o \in c[t]

Kept == /\ Keeps(file)
        /\ journal.state = "prepared" => Keeps(journal.pre)
        /\ \A p \in Proc : pc[p] \in {"body", "unlink", "rollback"} => Keeps(pre[p])

(* Requests are well formed, and none is there before its operation begins. *)
Requests ==
  /\ \A o \in Op : WellFormed(request[o].kind, request[o].writes)
  /\ \A p \in Proc, n \in 1 .. MaxOps : n > count[p] => request[<<p, n>>] = NoRequest

Begun == \A p \in Proc, n \in 1 .. MaxOps : <<p, n>> \in acked => n <= count[p]

DurInv == /\ TypeOK /\ Counted
          /\ LocksHeld /\ StoreKinds /\ JournalState /\ Requests
          /\ Written /\ Kept /\ Begun

(* At most one operation owns the complete lock set. *)
LEMMA Mutex ==
  ASSUME TypeOK, LocksHeld, NEW p \in Proc, NEW q \in Proc, Exclusive(p), Exclusive(q)
  PROVE  p = q
  BY DEF LocksHeld, Lock

(* Only Begin, and only for its own process, changes the current operation. *)
LEMMA SameOperation ==
  ASSUME TypeOK, Counted, NEW p \in Proc, Begin(p), NEW q \in Proc, q # p, pc[q] # "idle"
  PROVE  /\ Cur(q)' = Cur(q) /\ Kind(q)' = Kind(q) /\ Writes(q)' = Writes(q)
         /\ pc'[q] = pc[q]
<1>1. Cur(q) \in Op /\ Cur(q)' = Cur(q)
  BY WritesType DEF Begin, TypeOK, Cur
<1>2. Cur(q) # <<p, count[p] + 1>>
  BY DEF Cur
<1>3. request'[Cur(q)] = request[Cur(q)]
  BY <1>1, <1>2 DEF Begin, TypeOK
<1> QED
  BY <1>1, <1>3 DEF Kind, Writes, Begin, Goto, TypeOK

LEMMA BegunOperation ==
  ASSUME TypeOK, NEW p \in Proc, Begin(p)
  PROVE  /\ pc'[p] \in {"locking", "storelock"}
         /\ pc'[p] = "storelock" => Kind(p)' = "put"
         /\ \A o \in Op : o # <<p, count[p] + 1>> => request'[o] = request[o]
         /\ WellFormed(request'[<<p, count[p] + 1>>].kind, request'[<<p, count[p] + 1>>].writes)
<1>1. PICK k \in Kinds, W \in SUBSET Target :
        /\ WellFormed(k, W)
        /\ request' = [request EXCEPT ![<<p, count[p] + 1>>] = [kind |-> k, writes |-> W]]
        /\ Goto(p, IF k = "put" THEN "storelock" ELSE "locking")
  BY DEF Begin
<1>2. <<p, count[p] + 1>> \in Op /\ Cur(p)' = <<p, count[p] + 1>>
  BY MaxOpsAssumption DEF Begin, TypeOK, Op, Cur
<1> QED
  BY <1>1, <1>2 DEF TypeOK, Goto, Kind

(* The lock set is taken whole, and given back only on the way out. *)
LEMMA LocksStep ==
  ASSUME TypeOK, LocksHeld, StoreKinds, Counted, Next
  PROVE  (LocksHeld /\ StoreKinds)'
<1>1. ASSUME NEW p \in Proc, Begin(p) PROVE  (LocksHeld /\ StoreKinds)'
  <2>1. ASSUME NEW q \in Proc, q # p, pc'[q] # "idle"
        PROVE  Kind(q)' = Kind(q) /\ pc'[q] = pc[q]
    BY <1>1, <2>1, SameOperation DEF TypeOK, Begin, Goto
  <2>2. pc'[p] \in {"locking", "storelock"} /\ (pc'[p] = "storelock" => Kind(p)' = "put")
    BY <1>1, BegunOperation
  <2>3. owner' = owner
    BY <1>1 DEF Begin
  <2> QED
    BY <2>1, <2>2, <2>3 DEF LocksHeld, StoreKinds, Exclusive
<1>2. ASSUME NEW p \in Proc, AcquireLock(p) PROVE  (LocksHeld /\ StoreKinds)'
  BY <1>2, SentinelAssumption DEF TypeOK, LocksHeld, StoreKinds, Exclusive, Kind, Cur,
     AcquireLock, Goto, Lock
<1>3. ASSUME NEW p \in Proc, BeginRestore(p) PROVE  (LocksHeld /\ StoreKinds)'
  BY <1>3 DEF TypeOK, LocksHeld, StoreKinds, Exclusive, Kind, Cur, BeginRestore, Goto, disk
<1>4. ASSUME NEW p \in Proc, RecoverTarget(p) PROVE  (LocksHeld /\ StoreKinds)'
  BY <1>4 DEF TypeOK, LocksHeld, StoreKinds, Exclusive, Kind, Cur, RecoverTarget, RestoreTarget
<1>5. ASSUME NEW p \in Proc, FinishRecovery(p) PROVE  (LocksHeld /\ StoreKinds)'
  BY <1>5 DEF TypeOK, LocksHeld, StoreKinds, Exclusive, Kind, Cur, FinishRecovery, Goto,
     NoJournal, memory
<1>6. ASSUME NEW p \in Proc, Prepare(p) PROVE  (LocksHeld /\ StoreKinds)'
  BY <1>6 DEF TypeOK, LocksHeld, StoreKinds, Exclusive, Kind, Cur, Prepare, Goto
<1>7. ASSUME NEW p \in Proc, WriteTarget(p) PROVE  (LocksHeld /\ StoreKinds)'
  BY <1>7 DEF TypeOK, LocksHeld, StoreKinds, Exclusive, Kind, Cur, WriteTarget
<1>8. ASSUME NEW p \in Proc, CommitJournal(p) PROVE  (LocksHeld /\ StoreKinds)'
  BY <1>8 DEF TypeOK, LocksHeld, StoreKinds, Exclusive, Kind, Cur, CommitJournal, Goto, memory
<1>9. ASSUME NEW p \in Proc, UnlinkJournal(p) PROVE  (LocksHeld /\ StoreKinds)'
  BY <1>9 DEF TypeOK, LocksHeld, StoreKinds, Exclusive, Kind, Cur, UnlinkJournal, Goto,
     NoJournal, memory
<1>10. ASSUME NEW p \in Proc, PoisonedFails(p) PROVE  (LocksHeld /\ StoreKinds)'
  BY <1>10 DEF TypeOK, LocksHeld, StoreKinds, Exclusive, Kind, Cur, PoisonedFails,
     StartRollback, Goto, disk
<1>11. ASSUME NEW p \in Proc, RollbackTarget(p) PROVE  (LocksHeld /\ StoreKinds)'
  BY <1>11 DEF TypeOK, LocksHeld, StoreKinds, Exclusive, Kind, Cur, RollbackTarget,
     RestoreTarget
<1>12. ASSUME NEW p \in Proc, FinishRollback(p) PROVE  (LocksHeld /\ StoreKinds)'
  BY <1>12 DEF TypeOK, LocksHeld, StoreKinds, Exclusive, Kind, Cur, FinishRollback, Leave, Goto,
     NoJournal
<1>13. ASSUME NEW p \in Proc, CoordinatedAppend(p) PROVE  (LocksHeld /\ StoreKinds)'
  BY <1>13 DEF TypeOK, LocksHeld, StoreKinds, Exclusive, Kind, Cur, CoordinatedAppend, Goto,
     memory
<1>14. ASSUME NEW p \in Proc, ReadSnapshot(p) PROVE  (LocksHeld /\ StoreKinds)'
  BY <1>14 DEF TypeOK, LocksHeld, StoreKinds, Exclusive, Kind, Cur, ReadSnapshot, Goto, disk,
     memory
<1>15. ASSUME NEW p \in Proc, LockStore(p) PROVE  (LocksHeld /\ StoreKinds)'
  <2>1. Writes(p) \in SUBSET Target /\ Target \subseteq Lock
    BY <1>15, WritesType DEF LockStore, Lock
  <2>2. \A q \in Proc : Exclusive(q)' => Exclusive(q) /\ q # p
    BY <1>15 DEF TypeOK, LockStore, Exclusive, Kind, Cur, Goto
  <2>3. \A l \in Lock : owner[l] # NoProc => owner'[l] = owner[l]
    BY <1>15, <2>1 DEF TypeOK, LockStore
  <2>4. LocksHeld'
    BY <2>2, <2>3, SentinelAssumption DEF LocksHeld
  <2>5. StoreKinds'
    BY <1>15 DEF TypeOK, StoreKinds, LockStore, Goto, Kind, Cur
  <2> QED
    BY <2>4, <2>5
<1>16. ASSUME NEW p \in Proc, PutAlone(p) PROVE  (LocksHeld /\ StoreKinds)'
  BY <1>16 DEF TypeOK, LocksHeld, StoreKinds, Exclusive, Kind, Cur, PutAlone, Goto, memory
<1>17. ASSUME NEW p \in Proc, StoreRefuses(p) PROVE  (LocksHeld /\ StoreKinds)'
  BY <1>17 DEF TypeOK, LocksHeld, StoreKinds, Exclusive, Kind, Cur, StoreRefuses, Leave, Goto,
     disk
<1>18. ASSUME NEW p \in Proc, Return(p) PROVE  (LocksHeld /\ StoreKinds)'
  BY <1>18 DEF TypeOK, LocksHeld, StoreKinds, Exclusive, Kind, Cur, Return, Leave, Goto, disk
<1>19. ASSUME NEW p \in Proc, NestedFailure(p) PROVE  (LocksHeld /\ StoreKinds)'
  BY <1>19 DEF TypeOK, LocksHeld, StoreKinds, Exclusive, Kind, Cur, NestedFailure, disk
<1>20. ASSUME NEW p \in Proc, BodyFails(p) PROVE  (LocksHeld /\ StoreKinds)'
  BY <1>20 DEF TypeOK, LocksHeld, StoreKinds, Exclusive, Kind, Cur, BodyFails, StartRollback,
     Goto
<1>21. ASSUME NEW p \in Proc, PostCommitError(p) PROVE  (LocksHeld /\ StoreKinds)'
  BY <1>21 DEF TypeOK, LocksHeld, StoreKinds, Exclusive, Kind, Cur, PostCommitError,
     StartRollback, Goto, NoJournal
<1>22. ASSUME NEW p \in Proc, TornAppend(p) PROVE  (LocksHeld /\ StoreKinds)'
  BY <1>22 DEF TypeOK, LocksHeld, StoreKinds, Exclusive, Kind, Cur, TornAppend, Leave, Goto
<1>23. ASSUME NEW p \in Proc, Abandon(p) PROVE  (LocksHeld /\ StoreKinds)'
  BY <1>23 DEF TypeOK, LocksHeld, StoreKinds, Exclusive, Kind, Cur, Abandon, Leave, Goto, disk
<1> QED
  BY <1>1, <1>2, <1>3, <1>4, <1>5, <1>6, <1>7, <1>8, <1>9, <1>10, <1>11, <1>12, <1>13, <1>14,
     <1>15, <1>16, <1>17, <1>18, <1>19, <1>20, <1>21, <1>22, <1>23 DEF Next, Step

(* Nobody else touches the journal of the operation that owns the locks. *)
LEMMA JournalStep ==
  ASSUME TypeOK, Counted, LocksHeld, LocksHeld', StoreKinds, JournalState, Next
  PROVE  (JournalState)'
<1>1. ASSUME NEW p \in Proc, Begin(p) PROVE  (JournalState)'
  <2>1. ASSUME NEW q \in Proc, q # p, pc'[q] # "idle"
        PROVE  Kind(q)' = Kind(q) /\ pc'[q] = pc[q]
    BY <1>1, <2>1, SameOperation DEF TypeOK, Begin, Goto
  <2>2. pc'[p] \in {"locking", "storelock"}
    BY <1>1, BegunOperation
  <2> QED
    BY <1>1, <2>1, <2>2 DEF JournalState, Exclusive, Begin, disk, memory
<1>2. ASSUME NEW p \in Proc, AcquireLock(p) PROVE  (JournalState)'
  BY <1>2, Mutex DEF TypeOK, JournalState, Exclusive, Kind, Cur, AcquireLock, Goto, disk, memory
<1>3. ASSUME NEW p \in Proc, BeginRestore(p) PROVE  (JournalState)'
  BY <1>3, Mutex DEF TypeOK, JournalState, Exclusive, Kind, Cur, BeginRestore, Goto, disk
<1>4. ASSUME NEW p \in Proc, RecoverTarget(p) PROVE  (JournalState)'
  BY <1>4, Mutex DEF TypeOK, JournalState, Exclusive, Kind, Cur, RecoverTarget, RestoreTarget
<1>5. ASSUME NEW p \in Proc, FinishRecovery(p) PROVE  (JournalState)'
  BY <1>5, Mutex DEF TypeOK, JournalState, Exclusive, Kind, Cur, FinishRecovery, Goto,
     NoJournal, memory
<1>6. ASSUME NEW p \in Proc, Prepare(p) PROVE  (JournalState)'
  BY <1>6, Mutex DEF TypeOK, JournalState, Exclusive, Kind, Cur, Prepare, Goto
<1>7. ASSUME NEW p \in Proc, WriteTarget(p) PROVE  (JournalState)'
  BY <1>7, Mutex DEF TypeOK, JournalState, Exclusive, Kind, Cur, WriteTarget
<1>8. ASSUME NEW p \in Proc, CommitJournal(p) PROVE  (JournalState)'
  BY <1>8, Mutex DEF TypeOK, JournalState, Exclusive, Kind, Cur, CommitJournal, Goto, memory
<1>9. ASSUME NEW p \in Proc, UnlinkJournal(p) PROVE  (JournalState)'
  BY <1>9, Mutex DEF TypeOK, JournalState, Exclusive, Kind, Cur, UnlinkJournal, Goto, NoJournal,
     memory
<1>10. ASSUME NEW p \in Proc, PoisonedFails(p) PROVE  (JournalState)'
  BY <1>10, Mutex DEF TypeOK, JournalState, Exclusive, Kind, Cur, PoisonedFails, StartRollback,
     Goto, disk
<1>11. ASSUME NEW p \in Proc, RollbackTarget(p) PROVE  (JournalState)'
  BY <1>11, Mutex DEF TypeOK, JournalState, Exclusive, Kind, Cur, RollbackTarget, RestoreTarget
<1>12. ASSUME NEW p \in Proc, FinishRollback(p) PROVE  (JournalState)'
  <2>1. \A q \in Proc : q # p => ~Exclusive(q)
    BY <1>12, Mutex DEF Exclusive, FinishRollback
  <2>2. \A q \in Proc : ~Exclusive(q)'
    BY <1>12, <2>1 DEF FinishRollback, Leave, Goto, Exclusive, Kind, Cur, TypeOK
  <2> QED
    BY <2>2 DEF JournalState, Exclusive
<1>13. ASSUME NEW p \in Proc, CoordinatedAppend(p) PROVE  (JournalState)'
  BY <1>13, Mutex DEF TypeOK, JournalState, Exclusive, Kind, Cur, CoordinatedAppend, Goto,
     memory
<1>14. ASSUME NEW p \in Proc, ReadSnapshot(p) PROVE  (JournalState)'
  BY <1>14, Mutex DEF TypeOK, JournalState, Exclusive, Kind, Cur, ReadSnapshot, Goto, disk,
     memory
<1>15. ASSUME NEW p \in Proc, LockStore(p) PROVE  (JournalState)'
  BY <1>15, Mutex DEF TypeOK, JournalState, Exclusive, Kind, Cur, LockStore, Goto, disk, memory
<1>16. ASSUME NEW p \in Proc, PutAlone(p) PROVE  (JournalState)'
  BY <1>16 DEF TypeOK, StoreKinds, JournalState, Exclusive, Kind, Cur, PutAlone, Goto, memory
<1>17. ASSUME NEW p \in Proc, StoreRefuses(p) PROVE  (JournalState)'
  BY <1>17, Mutex DEF TypeOK, JournalState, Exclusive, Kind, Cur, StoreRefuses, Leave, Goto,
     disk
<1>18. ASSUME NEW p \in Proc, Return(p) PROVE  (JournalState)'
  BY <1>18, Mutex DEF TypeOK, JournalState, Exclusive, Kind, Cur, Return, Leave, Goto, disk
<1>19. ASSUME NEW p \in Proc, NestedFailure(p) PROVE  (JournalState)'
  BY <1>19, Mutex DEF TypeOK, JournalState, Exclusive, Kind, Cur, NestedFailure, disk
<1>20. ASSUME NEW p \in Proc, BodyFails(p) PROVE  (JournalState)'
  BY <1>20, Mutex DEF TypeOK, JournalState, Exclusive, Kind, Cur, BodyFails, StartRollback, Goto
<1>21. ASSUME NEW p \in Proc, PostCommitError(p) PROVE  (JournalState)'
  BY <1>21, Mutex DEF TypeOK, JournalState, Exclusive, Kind, Cur, PostCommitError,
     StartRollback, Goto, NoJournal
<1>22. ASSUME NEW p \in Proc, TornAppend(p) PROVE  (JournalState)'
  BY <1>22, Mutex DEF TypeOK, JournalState, Exclusive, Kind, Cur, TornAppend, Leave, Goto
<1>23. ASSUME NEW p \in Proc, Abandon(p) PROVE  (JournalState)'
  BY <1>23, Mutex DEF TypeOK, JournalState, Exclusive, Kind, Cur, Abandon, Leave, Goto, disk
<1> QED
  BY <1>1, <1>2, <1>3, <1>4, <1>5, <1>6, <1>7, <1>8, <1>9, <1>10, <1>11, <1>12, <1>13, <1>14,
     <1>15, <1>16, <1>17, <1>18, <1>19, <1>20, <1>21, <1>22, <1>23 DEF Next, Step

(* A record once written by an operation that owns the locks stays. *)
LEMMA WrittenStep ==
  ASSUME TypeOK, Counted, LocksHeld, StoreKinds, JournalState, Requests, Written, Next
  PROVE  (Written)'
<1>1. ASSUME NEW p \in Proc, Begin(p) PROVE  (Written)'
  <2>1. ASSUME NEW q \in Proc, q # p, pc'[q] # "idle"
        PROVE  Kind(q)' = Kind(q) /\ pc'[q] = pc[q] /\ Cur(q)' = Cur(q) /\ Writes(q)' = Writes(q)
    BY <1>1, <2>1, SameOperation DEF TypeOK, Begin, Goto
  <2>2. pc'[p] \in {"locking", "storelock"}
    BY <1>1, BegunOperation
  <2> QED
    BY <1>1, <2>1, <2>2 DEF Written, Exclusive, Begin, disk, memory
<1>2. ASSUME NEW p \in Proc, AcquireLock(p) PROVE  (Written)'
  BY <1>2, Mutex DEF TypeOK, JournalState, Written, Exclusive, Kind, Writes, Cur, AcquireLock,
     Goto, disk, memory
<1>3. ASSUME NEW p \in Proc, BeginRestore(p) PROVE  (Written)'
  BY <1>3, Mutex DEF TypeOK, JournalState, Written, Exclusive, Kind, Writes, Cur, BeginRestore,
     Goto, disk
<1>4. ASSUME NEW p \in Proc, RecoverTarget(p) PROVE  (Written)'
  BY <1>4, Mutex DEF TypeOK, JournalState, Written, Exclusive, Kind, Writes, Cur, RecoverTarget,
     RestoreTarget
<1>5. ASSUME NEW p \in Proc, FinishRecovery(p) PROVE  (Written)'
  BY <1>5, Mutex DEF TypeOK, JournalState, Written, Exclusive, Kind, Writes, Cur,
     FinishRecovery, Goto, NoJournal, memory
<1>6. ASSUME NEW p \in Proc, Prepare(p) PROVE  (Written)'
  BY <1>6, Mutex DEF TypeOK, JournalState, Written, Exclusive, Kind, Writes, Cur, Prepare, Goto
<1>7. ASSUME NEW p \in Proc, WriteTarget(p) PROVE  (Written)'
  <2>1. PICK u \in todo[p] : /\ file' = [file EXCEPT ![u] = @ \cup {Cur(p)}]
                             /\ todo' = [todo EXCEPT ![p] = @ \ {u}]
    BY <1>7 DEF WriteTarget
  <2>2. u \in Target /\ Cur(p) \in file'[u] /\ \A t \in Target : file[t] \subseteq file'[t]
    BY <2>1 DEF TypeOK, Content
  <2>3. \A q \in Proc : pc[q] # "idle" => Writes(q) \in SUBSET Target
    BY WritesType
  <2>4. \A q \in Proc : q # p => ~ Exclusive(q)
    BY <1>7, Mutex DEF WriteTarget, Exclusive
  <2>5. todo'[p] = todo[p] \ {u} /\ pc[p] = "body"
    BY <1>7, <2>1 DEF TypeOK, WriteTarget
  <2>6. ~poisoned[p] => \A t \in Writes(p) \ todo'[p] : Cur(p) \in file'[t]
    BY <2>2, <2>3, <2>5 DEF Written
  <2> QED
    BY <1>7, <2>4, <2>5, <2>6 DEF Written, WriteTarget, Writes, Cur, Exclusive, Kind
<1>8. ASSUME NEW p \in Proc, CommitJournal(p) PROVE  (Written)'
  BY <1>8, Mutex DEF TypeOK, JournalState, Written, Exclusive, Kind, Writes, Cur, CommitJournal,
     Goto, memory
<1>9. ASSUME NEW p \in Proc, UnlinkJournal(p) PROVE  (Written)'
  BY <1>9, Mutex DEF TypeOK, JournalState, Written, Exclusive, Kind, Writes, Cur, UnlinkJournal,
     Goto, NoJournal, memory
<1>10. ASSUME NEW p \in Proc, PoisonedFails(p) PROVE  (Written)'
  BY <1>10, Mutex DEF TypeOK, JournalState, Written, Exclusive, Kind, Writes, Cur,
     PoisonedFails, StartRollback, Goto, disk
<1>11. ASSUME NEW p \in Proc, RollbackTarget(p) PROVE  (Written)'
  BY <1>11, Mutex DEF TypeOK, JournalState, Written, Exclusive, Kind, Writes, Cur,
     RollbackTarget, RestoreTarget
<1>12. ASSUME NEW p \in Proc, FinishRollback(p) PROVE  (Written)'
  BY <1>12, Mutex DEF TypeOK, JournalState, Written, Exclusive, Kind, Writes, Cur,
     FinishRollback, Leave, Goto, NoJournal
<1>13. ASSUME NEW p \in Proc, CoordinatedAppend(p) PROVE  (Written)'
  <2>1. Writes(p) \in SUBSET Target /\ Cur(p) \in Op
    BY <1>13, WritesType DEF CoordinatedAppend
  <2>2. \E t \in Target : Writes(p) = {t}
    BY <1>13, <2>1 DEF CoordinatedAppend, Requests, WellFormed, Kind, Writes
  <2>3. \A t \in Writes(p) : Cur(p) \in file'[t]
    BY <1>13, <2>1, <2>2 DEF CoordinatedAppend, TypeOK, Content
  <2>4. \A q \in Proc : q # p => ~ Exclusive(q)
    BY <1>13, Mutex DEF CoordinatedAppend, Exclusive
  <2> QED
    BY <1>13, <2>3, <2>4 DEF Written, CoordinatedAppend, Goto, TypeOK, Writes, Cur, Exclusive, Kind
<1>14. ASSUME NEW p \in Proc, ReadSnapshot(p) PROVE  (Written)'
  <2>1. Writes(p) = {}
    BY <1>14, WritesType DEF ReadSnapshot, Requests, WellFormed, Kind, Writes
  <2> QED
    BY <1>14, <2>1 DEF Written, ReadSnapshot, Goto, TypeOK, Writes, Cur, Exclusive, Kind, disk, memory
<1>15. ASSUME NEW p \in Proc, LockStore(p) PROVE  (Written)'
  BY <1>15, Mutex DEF TypeOK, JournalState, Written, Exclusive, Kind, Writes, Cur, LockStore,
     Goto, disk, memory
<1>16. ASSUME NEW p \in Proc, PutAlone(p) PROVE  (Written)'
  <2>1. \A q \in Proc : pc[q] # "idle" => Writes(q) \in SUBSET Target
    BY WritesType
  <2>2. \A t \in Target : file[t] \subseteq file'[t]
    BY <1>16, <2>1 DEF PutAlone, TypeOK, Content
  <2>3. \A q \in Proc : /\ Exclusive(q)' => Exclusive(q) /\ q # p /\ pc'[q] = pc[q]
                       /\ Writes(q)' = Writes(q) /\ Cur(q)' = Cur(q)
    BY <1>16 DEF PutAlone, StoreKinds, Exclusive, Kind, Writes, Cur, Goto, TypeOK
  <2>4. pc'[p] = "done" /\ todo' = todo /\ poisoned' = poisoned
    BY <1>16 DEF PutAlone, Goto, TypeOK, memory
  <2> QED
    BY <2>1, <2>2, <2>3, <2>4 DEF Written, Exclusive
<1>17. ASSUME NEW p \in Proc, StoreRefuses(p) PROVE  (Written)'
  BY <1>17, Mutex DEF TypeOK, JournalState, Written, Exclusive, Kind, Writes, Cur, StoreRefuses,
     Leave, Goto, disk
<1>18. ASSUME NEW p \in Proc, Return(p) PROVE  (Written)'
  BY <1>18, Mutex DEF TypeOK, JournalState, Written, Exclusive, Kind, Writes, Cur, Return,
     Leave, Goto, disk
<1>19. ASSUME NEW p \in Proc, NestedFailure(p) PROVE  (Written)'
  <2>1. \A q \in Proc : /\ Exclusive(q)' = Exclusive(q) /\ pc'[q] = pc[q]
                       /\ Writes(q)' = Writes(q) /\ Cur(q)' = Cur(q)
    BY <1>19 DEF NestedFailure, Exclusive, Kind, Writes, Cur
  <2>2. file' = file /\ poisoned'[p] /\ pc[p] = "body"
        /\ \A q \in Proc : q # p => poisoned'[q] = poisoned[q] /\ todo'[q] = todo[q]
    BY <1>19 DEF NestedFailure, TypeOK, disk
  <2> QED
    BY <2>1, <2>2 DEF Written
<1>20. ASSUME NEW p \in Proc, BodyFails(p) PROVE  (Written)'
  <2>1. \A q \in Proc : q # p => ~Exclusive(q)
    BY <1>20, Mutex DEF Exclusive, BodyFails
  <2>2. \A q \in Proc : pc'[q] # "body" /\ ~(Exclusive(q) /\ pc[q] \in {"unlink", "done"})'
    BY <1>20, <2>1 DEF BodyFails, StartRollback, Goto, Exclusive, Kind, Cur, TypeOK
  <2> QED
    BY <2>2 DEF Written, Exclusive
<1>21. ASSUME NEW p \in Proc, PostCommitError(p) PROVE  (Written)'
  BY <1>21, Mutex DEF TypeOK, JournalState, Written, Exclusive, Kind, Writes, Cur,
     PostCommitError, StartRollback, Goto, NoJournal
<1>22. ASSUME NEW p \in Proc, TornAppend(p) PROVE  (Written)'
  BY <1>22, Mutex DEF TypeOK, JournalState, Written, Exclusive, Kind, Writes, Cur, TornAppend,
     Leave, Goto
<1>23. ASSUME NEW p \in Proc, Abandon(p) PROVE  (Written)'
  BY <1>23, Mutex DEF TypeOK, JournalState, Written, Exclusive, Kind, Writes, Cur, Abandon,
     Leave, Goto, disk
<1> QED
  BY <1>1, <1>2, <1>3, <1>4, <1>5, <1>6, <1>7, <1>8, <1>9, <1>10, <1>11, <1>12, <1>13, <1>14,
     <1>15, <1>16, <1>17, <1>18, <1>19, <1>20, <1>21, <1>22, <1>23 DEF Next, Step

(* Acknowledged records survive in the files and in every preimage. *)
LEMMA KeptStep ==
  ASSUME TypeOK, Counted, LocksHeld, StoreKinds, JournalState, Written, Kept, Begun, Next
  PROVE  (Kept /\ Begun)'
<1>1. ASSUME NEW p \in Proc, Begin(p) PROVE  (Kept /\ Begun)'
  <2>1. \A o \in acked : o \in Op /\ o # <<p, count[p] + 1>>
    BY <1>1 DEF Begun, TypeOK, Op
  <2>2. \A o \in acked : request'[o] = request[o]
    BY <1>1, <2>1, BegunOperation
  <2>3. Begun'
    BY <1>1 DEF Begun, Begin, TypeOK
  <2>4. pc'[p] \in {"locking", "storelock"} /\ \A q \in Proc : q # p => pc'[q] = pc[q]
    BY <1>1, BegunOperation DEF Begin, Goto, TypeOK
  <2> QED
    BY <1>1, <2>2, <2>3, <2>4 DEF Kept, Keeps, Begin, disk, memory
<1>2. ASSUME NEW p \in Proc, AcquireLock(p) PROVE  (Kept /\ Begun)'
  BY <1>2, Mutex DEF TypeOK, Kept, Keeps, Begun, JournalState, Written, Exclusive, Kind, Writes,
     Cur, AcquireLock, Goto, disk, memory
<1>3. ASSUME NEW p \in Proc, BeginRestore(p) PROVE  (Kept /\ Begun)'
  BY <1>3, Mutex DEF TypeOK, Kept, Keeps, Begun, JournalState, Written, Exclusive, Kind, Writes,
     Cur, BeginRestore, Goto, disk
<1>4. ASSUME NEW p \in Proc, RecoverTarget(p) PROVE  (Kept /\ Begun)'
  <2>1. \A t \in Target : file'[t] \in {file[t], journal.pre[t]}
    BY <1>4 DEF RecoverTarget, RestoreTarget, TypeOK, Content
  <2>2. \A o \in acked : request[o].writes \subseteq Target
    BY DEF TypeOK
  <2>3. Keeps(file) /\ Keeps(journal.pre)
    BY <1>4 DEF RecoverTarget, JournalState, Kept
  <2>4. Keeps(file)'
    BY <1>4, <2>1, <2>2, <2>3 DEF Keeps, RecoverTarget, RestoreTarget
  <2> QED
    BY <1>4, <2>4 DEF Kept, Keeps, Begun, RecoverTarget, RestoreTarget
<1>5. ASSUME NEW p \in Proc, FinishRecovery(p) PROVE  (Kept /\ Begun)'
  BY <1>5, Mutex DEF TypeOK, Kept, Keeps, Begun, JournalState, Written, Exclusive, Kind, Writes,
     Cur, FinishRecovery, Goto, NoJournal, memory
<1>6. ASSUME NEW p \in Proc, Prepare(p) PROVE  (Kept /\ Begun)'
  BY <1>6, Mutex DEF TypeOK, Kept, Keeps, Begun, JournalState, Written, Exclusive, Kind, Writes,
     Cur, Prepare, Goto
<1>7. ASSUME NEW p \in Proc, WriteTarget(p) PROVE  (Kept /\ Begun)'
  BY <1>7, Mutex DEF TypeOK, Kept, Keeps, Begun, JournalState, Written, Exclusive, Kind, Writes,
     Cur, WriteTarget
<1>8. ASSUME NEW p \in Proc, CommitJournal(p) PROVE  (Kept /\ Begun)'
  BY <1>8, Mutex DEF TypeOK, Kept, Keeps, Begun, JournalState, Written, Exclusive, Kind, Writes,
     Cur, CommitJournal, Goto, memory
<1>9. ASSUME NEW p \in Proc, UnlinkJournal(p) PROVE  (Kept /\ Begun)'
  BY <1>9, Mutex DEF TypeOK, Kept, Keeps, Begun, JournalState, Written, Exclusive, Kind, Writes,
     Cur, UnlinkJournal, Goto, NoJournal, memory
<1>10. ASSUME NEW p \in Proc, PoisonedFails(p) PROVE  (Kept /\ Begun)'
  BY <1>10, Mutex DEF TypeOK, Kept, Keeps, Begun, JournalState, Written, Exclusive, Kind,
     Writes, Cur, PoisonedFails, StartRollback, Goto, disk
<1>11. ASSUME NEW p \in Proc, RollbackTarget(p) PROVE  (Kept /\ Begun)'
  BY <1>11, Mutex DEF TypeOK, Kept, Keeps, Begun, JournalState, Written, Exclusive, Kind,
     Writes, Cur, RollbackTarget, RestoreTarget
<1>12. ASSUME NEW p \in Proc, FinishRollback(p) PROVE  (Kept /\ Begun)'
  BY <1>12, Mutex DEF TypeOK, Kept, Keeps, Begun, JournalState, Written, Exclusive, Kind,
     Writes, Cur, FinishRollback, Leave, Goto, NoJournal
<1>13. ASSUME NEW p \in Proc, CoordinatedAppend(p) PROVE  (Kept /\ Begun)'
  BY <1>13, Mutex DEF TypeOK, Kept, Keeps, Begun, JournalState, Written, Exclusive, Kind,
     Writes, Cur, CoordinatedAppend, Goto, memory
<1>14. ASSUME NEW p \in Proc, ReadSnapshot(p) PROVE  (Kept /\ Begun)'
  BY <1>14, Mutex DEF TypeOK, Kept, Keeps, Begun, JournalState, Written, Exclusive, Kind,
     Writes, Cur, ReadSnapshot, Goto, disk, memory
<1>15. ASSUME NEW p \in Proc, LockStore(p) PROVE  (Kept /\ Begun)'
  BY <1>15, Mutex DEF TypeOK, Kept, Keeps, Begun, JournalState, Written, Exclusive, Kind,
     Writes, Cur, LockStore, Goto, disk, memory
<1>16. ASSUME NEW p \in Proc, PutAlone(p) PROVE  (Kept /\ Begun)'
  BY <1>16, Mutex DEF TypeOK, Kept, Keeps, Begun, JournalState, Written, Exclusive, Kind,
     Writes, Cur, PutAlone, Goto, memory
<1>17. ASSUME NEW p \in Proc, StoreRefuses(p) PROVE  (Kept /\ Begun)'
  BY <1>17, Mutex DEF TypeOK, Kept, Keeps, Begun, JournalState, Written, Exclusive, Kind,
     Writes, Cur, StoreRefuses, Leave, Goto, disk
<1>18. ASSUME NEW p \in Proc, Return(p) PROVE  (Kept /\ Begun)'
  <2>1. Cur(p) \in Op
    BY <1>18, WritesType DEF Return
  <2>2. Begun'
    BY <1>18 DEF Begun, Return, Cur, TypeOK
  <2>3. CASE Kind(p) = "put"
    BY <1>18, <2>1, <2>2, <2>3 DEF Kept, Keeps, Return, Leave, Goto, Kind, disk, TypeOK
  <2>4. CASE Kind(p) # "put"
    <3>1. Exclusive(p)
      BY <1>18, <2>4 DEF Return, Exclusive
    <3>2. \A q \in Proc : pc'[q] \notin {"body", "unlink", "rollback"}
      BY <1>18, <3>1, Mutex DEF Return, Leave, Goto, TypeOK, Exclusive
    <3>3. journal.state = "none" /\ \A t \in Writes(p) : Cur(p) \in file[t]
      BY <1>18, <3>1 DEF JournalState, Written, Return
    <3>4. Keeps(file)'
      BY <1>18, <3>3 DEF Kept, Keeps, Return, Writes, disk
    <3> QED
      BY <1>18, <2>2, <3>2, <3>3, <3>4 DEF Kept, Return, disk
  <2> QED
    BY <2>3, <2>4
<1>19. ASSUME NEW p \in Proc, NestedFailure(p) PROVE  (Kept /\ Begun)'
  BY <1>19, Mutex DEF TypeOK, Kept, Keeps, Begun, JournalState, Written, Exclusive, Kind,
     Writes, Cur, NestedFailure, disk
<1>20. ASSUME NEW p \in Proc, BodyFails(p) PROVE  (Kept /\ Begun)'
  <2>1. \A t \in Target : file[t] \subseteq file'[t]
    <3>1. CASE UNCHANGED file
      BY <3>1
    <3>2. ASSUME NEW u \in todo[p], file' = [file EXCEPT ![u] = @ \cup {Torn}]
          PROVE  \A t \in Target : file[t] \subseteq file'[t]
      BY <3>2 DEF TypeOK, Content
    <3> QED
      BY <1>20, <3>1, <3>2 DEF BodyFails
  <2>2. \A o \in acked : request[o].writes \subseteq Target
    BY DEF TypeOK
  <2>3. Keeps(file)'
    BY <1>20, <2>1, <2>2 DEF Kept, Keeps, BodyFails, StartRollback
  <2> QED
    BY <1>20, <2>3 DEF Kept, Keeps, Begun, BodyFails, StartRollback, Goto, TypeOK
<1>21. ASSUME NEW p \in Proc, PostCommitError(p) PROVE  (Kept /\ Begun)'
  BY <1>21, Mutex DEF TypeOK, Kept, Keeps, Begun, JournalState, Written, Exclusive, Kind,
     Writes, Cur, PostCommitError, StartRollback, Goto, NoJournal
<1>22. ASSUME NEW p \in Proc, TornAppend(p) PROVE  (Kept /\ Begun)'
  BY <1>22, Mutex DEF TypeOK, Kept, Keeps, Begun, JournalState, Written, Exclusive, Kind,
     Writes, Cur, TornAppend, Leave, Goto
<1>23. ASSUME NEW p \in Proc, Abandon(p) PROVE  (Kept /\ Begun)'
  BY <1>23, Mutex DEF TypeOK, Kept, Keeps, Begun, JournalState, Written, Exclusive, Kind,
     Writes, Cur, Abandon, Leave, Goto, disk
<1> QED
  BY <1>1, <1>2, <1>3, <1>4, <1>5, <1>6, <1>7, <1>8, <1>9, <1>10, <1>11, <1>12, <1>13, <1>14,
     <1>15, <1>16, <1>17, <1>18, <1>19, <1>20, <1>21, <1>22, <1>23 DEF Next, Step

(* Requests are well formed when made and never change. *)
LEMMA RequestsStep ==
  ASSUME TypeOK, Requests, Next
  PROVE  Requests'
<1>1. ASSUME NEW p \in Proc, Begin(p) PROVE Requests'
  <2>1. \A o \in Op : WellFormed(request'[o].kind, request'[o].writes)
    BY <1>1, BegunOperation DEF Requests
  <2>2. \A q \in Proc, n \in 1 .. MaxOps : n > count'[q] =>
          n > count[q] /\ <<q, n>> \in Op /\ <<q, n>> # <<p, count[p] + 1>>
    BY <1>1, MaxOpsAssumption DEF Begin, TypeOK, Op
  <2> QED
    BY <1>1, <2>1, <2>2, BegunOperation DEF Requests
<1>2. CASE UNCHANGED <<request, count>>
  BY <1>2 DEF Requests
<1> QED
  BY <1>1, <1>2 DEF Next, Step, AcquireLock, BeginRestore, RecoverTarget, FinishRecovery,
     Prepare, WriteTarget, CommitJournal, UnlinkJournal, PoisonedFails, RollbackTarget,
     FinishRollback, CoordinatedAppend, ReadSnapshot, LockStore, PutAlone, StoreRefuses,
     Return, NestedFailure, BodyFails, PostCommitError, TornAppend, Abandon, StartRollback,
     RestoreTarget

LEMMA DurInit == Init => DurInv
<1> SUFFICES ASSUME Init PROVE DurInv
  OBVIOUS
<1>1. TypeOK /\ Counted
  BY TypeInit
<1>2. \A p \in Proc : pc[p] = "idle"
  BY DEF Init
<1>3. LocksHeld /\ StoreKinds /\ JournalState /\ Written
  BY <1>2 DEF LocksHeld, StoreKinds, JournalState, Written, Exclusive
<1>4. Kept /\ Begun /\ Requests
  BY <1>2 DEF Init, Kept, Keeps, Begun, Requests, WellFormed, NoRequest, NoJournal, Op
<1> QED
  BY <1>1, <1>3, <1>4 DEF DurInv

LEMMA DurStep ==
  ASSUME DurInv, [Next]_vars
  PROVE  DurInv'
<1>1. CASE UNCHANGED vars
  <2>1. TypeOK' /\ Counted'
    BY <1>1, TypeStep DEF DurInv
  <2> QED
    BY <1>1, <2>1 DEF DurInv, vars, LocksHeld, StoreKinds, JournalState, Requests, Written,
       Kept, Keeps, Begun, Exclusive, Kind, Writes, Cur
<1>2. CASE Next
  <2>1. TypeOK' /\ Counted'
    BY <1>2, TypeStep DEF DurInv
  <2>2. LocksHeld' /\ StoreKinds'
    BY <1>2, LocksStep DEF DurInv
  <2>3. JournalState' /\ Requests' /\ Written' /\ Kept' /\ Begun'
    BY <1>2, <2>2, JournalStep, RequestsStep, WrittenStep, KeptStep DEF DurInv
  <2> QED
    BY <2>1, <2>2, <2>3 DEF DurInv
<1> QED
  BY <1>1, <1>2

(* Whatever crashes, errors and torn appends happen, and with stores that  *)
(* bypass the journal beside it, an acknowledged transaction or coordinated*)
(* append is on disk and in every preimage recovery may restore.           *)
THEOREM AckedDurableCorrect == Spec => []AckedDurable
<1>1. DurInv => AckedDurable
  BY DEF DurInv, Kept, Keeps, AckedDurable, Logical
<1> QED
  BY <1>1, DurInit, DurStep, PTL DEF Spec

-----------------------------------------------------------------------------
(***************************************************************************)
(* LocalTransaction implements AtomicStore: for any number of processes,   *)
(* targets and operations, every crash and every error before the commit   *)
(* point leaves the files standing for one atomic store.                   *)
(***************************************************************************)
(* The failures this development leaves to the runs that expect a violation:  *)
(* errors after the commit point, torn unjournaled appends, and stores that   *)
(* bypass the journal.                                                        *)
Covered == Faults = {} /\ "put" \notin Kinds

Whole(c) == /\ \A t \in Target : Torn \notin c[t]
            /\ \A o \in Op : (\E t \in Target : o \in c[t])
                               => \A t \in request[o].writes : o \in c[t]

(* Nothing holds a record of an operation that has not begun. *)
Past(c) == \A p \in Proc, n \in 1 .. MaxOps, t \in Target : <<p, n>> \in c[t] => n <= count[p]

PastInv == Past(file) /\ Past(journal.pre) /\ \A p \in Proc : Past(pre[p])

(* No record of an operation exists before its body runs. *)
NotYet(p, c) == \A t \in Target : Cur(p) \notin c[t]

NotYetInv ==
  \A p \in Proc :
    /\ pc[p] \in {"locking", "recover", "restore", "run"}
         => NotYet(p, file) /\ (journal.state = "prepared" => NotYet(p, journal.pre))
    /\ pc[p] = "body" => NotYet(p, pre[p])

(* How far a restore has come. *)
RestoreInv ==
  \A p \in Proc :
    /\ pc[p] = "restore" => \A t \in Target \ todo[p] : file[t] = journal.pre[t]
    /\ pc[p] = "rollback" => /\ journal.state = "prepared" /\ journal.pre = pre[p]
                             /\ \A t \in Target \ todo[p] : file[t] = pre[p][t]

(* How far a body has come. *)
BodyInv ==
  \A p \in Proc :
    pc[p] = "body" =>
      /\ Kind(p) = "txn" /\ todo[p] \subseteq Writes(p)
      /\ ~poisoned[p] => \A t \in Target :
           file[t] = IF t \in Writes(p) \ todo[p] THEN pre[p][t] \cup {Cur(p)} ELSE pre[p][t]

WholeInv == Whole(Logical)

AtomInv == DurInv /\ PastInv /\ NotYetInv /\ RestoreInv /\ BodyInv /\ WholeInv

(* Without a store that bypasses the journal, only owners of the complete  *)
(* lock set write.                                                         *)
LEMMA NoPuts ==
  ASSUME Covered, DurInv, NEW p \in Proc
  PROVE  pc[p] # "put" /\ pc[p] # "storelock" /\ (pc[p] # "idle" => Kind(p) # "put")
<1>1. pc[p] # "idle" => Kind(p) # "put"
  BY WritesType DEF Covered, DurInv, TypeOK, Kind
<1> QED
  BY <1>1 DEF DurInv, StoreKinds

(* The operation of a process that owns the locks is the only one writing. *)
LEMMA SameOp ==
  ASSUME request' = request, count' = count, NEW p \in Proc
  PROVE  Cur(p)' = Cur(p) /\ Kind(p)' = Kind(p) /\ Writes(p)' = Writes(p)
  BY DEF Cur, Kind, Writes

(* A failing body may tear the record it was appending, and writes no other. *)
LEMMA TornOnly ==
  ASSUME TypeOK, NEW p \in Proc, BodyFails(p)
  PROVE  \A t \in Target, o \in Op : o \in file'[t] => o \in file[t]
<1>1. CASE UNCHANGED file
  BY <1>1
<1>2. ASSUME NEW u \in todo[p], file' = [file EXCEPT ![u] = @ \cup {Torn}]
      PROVE  \A t \in Target, o \in Op : o \in file'[t] => o \in file[t]
  BY <1>2, SentinelAssumption DEF TypeOK, Content
<1> QED
  BY <1>1, <1>2 DEF BodyFails

(* One step of a restore. *)
LEMMA OneRestored ==
  ASSUME TypeOK, NEW p \in Proc, NEW c \in Content, RestoreTarget(p, c),
         \A t \in Target \ todo[p] : file[t] = c[t]
  PROVE  /\ \A t \in Target \ todo'[p] : file'[t] = c[t]
         /\ \A t \in Target : file'[t] \in {file[t], c[t]}
<1>1. PICK u \in todo[p] : /\ file' = [file EXCEPT ![u] = c[u]]
                           /\ todo' = [todo EXCEPT ![p] = @ \ {u}]
  BY DEF RestoreTarget
<1>2. u \in Target /\ todo'[p] = todo[p] \ {u}
  BY <1>1 DEF TypeOK
<1>3. \A t \in Target : file'[t] = IF t = u THEN c[t] ELSE file[t]
  BY <1>1 DEF TypeOK, Content
<1> QED
  BY <1>2, <1>3

(* Records are only ever those of operations that began. *)
LEMMA PastStep ==
  ASSUME Covered, DurInv, PastInv, Next
  PROVE  PastInv'
<1>0. TypeOK /\ LocksHeld /\ JournalState
  BY DEF DurInv
<1>1. ASSUME NEW p \in Proc, Begin(p) PROVE  PastInv'
  BY <1>0, <1>1 DEF TypeOK, Begin, Goto, disk, memory, PastInv, Past, Cur, Nothing, Content
<1>2. ASSUME NEW p \in Proc, AcquireLock(p) PROVE  PastInv'
  BY <1>0, <1>2 DEF TypeOK, AcquireLock, Goto, disk, memory, PastInv, Past, Cur, Nothing,
     Content
<1>3. ASSUME NEW p \in Proc, BeginRestore(p) PROVE  PastInv'
  BY <1>0, <1>3 DEF TypeOK, BeginRestore, Goto, disk, PastInv, Past, Cur, Nothing, Content
<1>4. ASSUME NEW p \in Proc, RecoverTarget(p) PROVE  PastInv'
  BY <1>0, <1>4 DEF TypeOK, RecoverTarget, RestoreTarget, PastInv, Past, Cur, Nothing, Content
<1>5. ASSUME NEW p \in Proc, FinishRecovery(p) PROVE  PastInv'
  BY <1>0, <1>5 DEF TypeOK, FinishRecovery, Goto, NoJournal, memory, PastInv, Past, Cur,
     Nothing, Content
<1>6. ASSUME NEW p \in Proc, Prepare(p) PROVE  PastInv'
  BY <1>0, <1>6 DEF TypeOK, Prepare, Goto, PastInv, Past, Cur, Nothing, Content
<1>7. ASSUME NEW p \in Proc, WriteTarget(p) PROVE  PastInv'
  BY <1>0, <1>7 DEF TypeOK, WriteTarget, PastInv, Past, Cur, Nothing, Content
<1>8. ASSUME NEW p \in Proc, CommitJournal(p) PROVE  PastInv'
  BY <1>0, <1>8 DEF TypeOK, CommitJournal, Goto, memory, PastInv, Past, Cur, Nothing, Content
<1>9. ASSUME NEW p \in Proc, UnlinkJournal(p) PROVE  PastInv'
  BY <1>0, <1>9 DEF TypeOK, UnlinkJournal, Goto, NoJournal, memory, PastInv, Past, Cur,
     Nothing, Content
<1>10. ASSUME NEW p \in Proc, PoisonedFails(p) PROVE  PastInv'
  BY <1>0, <1>10 DEF TypeOK, PoisonedFails, StartRollback, Goto, disk, PastInv, Past, Cur,
     Nothing, Content
<1>11. ASSUME NEW p \in Proc, RollbackTarget(p) PROVE  PastInv'
  BY <1>0, <1>11 DEF TypeOK, RollbackTarget, RestoreTarget, PastInv, Past, Cur, Nothing, Content
<1>12. ASSUME NEW p \in Proc, FinishRollback(p) PROVE  PastInv'
  BY <1>0, <1>12 DEF TypeOK, FinishRollback, Leave, Goto, NoJournal, PastInv, Past, Cur,
     Nothing, Content
<1>13. ASSUME NEW p \in Proc, CoordinatedAppend(p) PROVE  PastInv'
  BY <1>0, <1>13 DEF TypeOK, CoordinatedAppend, Goto, memory, PastInv, Past, Cur, Nothing,
     Content
<1>14. ASSUME NEW p \in Proc, ReadSnapshot(p) PROVE  PastInv'
  BY <1>0, <1>14 DEF TypeOK, ReadSnapshot, Goto, disk, memory, PastInv, Past, Cur, Nothing,
     Content
<1>15. ASSUME NEW p \in Proc, LockStore(p) PROVE  PastInv'
  BY <1>15, NoPuts DEF LockStore
<1>16. ASSUME NEW p \in Proc, PutAlone(p) PROVE  PastInv'
  BY <1>16, NoPuts DEF PutAlone
<1>17. ASSUME NEW p \in Proc, StoreRefuses(p) PROVE  PastInv'
  BY <1>0, <1>17 DEF TypeOK, StoreRefuses, Leave, Goto, disk, PastInv, Past, Cur, Nothing,
     Content
<1>18. ASSUME NEW p \in Proc, Return(p) PROVE  PastInv'
  BY <1>0, <1>18 DEF TypeOK, Return, Leave, Goto, disk, PastInv, Past, Cur, Nothing, Content
<1>19. ASSUME NEW p \in Proc, NestedFailure(p) PROVE  PastInv'
  BY <1>0, <1>19 DEF TypeOK, NestedFailure, disk, PastInv, Past, Cur, Nothing, Content
<1>20. ASSUME NEW p \in Proc, BodyFails(p) PROVE  PastInv'
  <2>1. \A t \in Target, o \in Op : o \in file'[t] => o \in file[t]
    BY <1>0, <1>20, TornOnly
  <2> QED
    BY <1>20, <2>1 DEF BodyFails, StartRollback, PastInv, Past, Op
<1>21. ASSUME NEW p \in Proc, PostCommitError(p) PROVE  PastInv'
  BY <1>21 DEF PostCommitError, Covered
<1>22. ASSUME NEW p \in Proc, TornAppend(p) PROVE  PastInv'
  BY <1>22 DEF TornAppend, Covered
<1>23. ASSUME NEW p \in Proc, Abandon(p) PROVE  PastInv'
  BY <1>0, <1>23 DEF TypeOK, Abandon, Leave, Goto, disk, PastInv, Past, Cur, Nothing, Content
<1> QED
  BY <1>1, <1>2, <1>3, <1>4, <1>5, <1>6, <1>7, <1>8, <1>9, <1>10, <1>11, <1>12, <1>13, <1>14,
     <1>15, <1>16, <1>17, <1>18, <1>19, <1>20, <1>21, <1>22, <1>23 DEF Next, Step

(* A restore writes back the preimages and nobody interferes. *)
LEMMA RestoreStep ==
  ASSUME Covered, DurInv, RestoreInv, Next
  PROVE  RestoreInv'
<1>0. TypeOK /\ LocksHeld /\ JournalState
  BY DEF DurInv
<1>1. ASSUME NEW p \in Proc, Begin(p) PROVE  RestoreInv'
  BY <1>0, <1>1, Mutex DEF TypeOK, Begin, Goto, disk, memory, RestoreInv, JournalState,
     Exclusive
<1>2. ASSUME NEW p \in Proc, AcquireLock(p) PROVE  RestoreInv'
  BY <1>0, <1>2, Mutex DEF TypeOK, AcquireLock, Goto, disk, memory, RestoreInv, JournalState,
     Exclusive
<1>3. ASSUME NEW p \in Proc, BeginRestore(p) PROVE  RestoreInv'
  BY <1>0, <1>3, Mutex DEF TypeOK, BeginRestore, Goto, disk, RestoreInv, JournalState, Exclusive
<1>4. ASSUME NEW p \in Proc, RecoverTarget(p) PROVE  RestoreInv'
  <2>1. journal.pre \in Content /\ \A t \in Target \ todo[p] : file[t] = journal.pre[t]
    BY <1>0, <1>4 DEF RecoverTarget, RestoreInv, TypeOK
  <2>2. \A t \in Target \ todo'[p] : file'[t] = journal.pre[t]
    BY <1>0, <1>4, <2>1, OneRestored DEF RecoverTarget
  <2>3. \A q \in Proc : q # p => pc[q] \notin {"restore", "rollback"}
    BY <1>0, <1>4, Mutex DEF RecoverTarget, Exclusive
  <2> QED
    BY <1>4, <2>2, <2>3 DEF RecoverTarget, RestoreTarget, RestoreInv
<1>5. ASSUME NEW p \in Proc, FinishRecovery(p) PROVE  RestoreInv'
  BY <1>0, <1>5, Mutex DEF TypeOK, FinishRecovery, Goto, NoJournal, memory, RestoreInv,
     JournalState, Exclusive
<1>6. ASSUME NEW p \in Proc, Prepare(p) PROVE  RestoreInv'
  BY <1>0, <1>6, Mutex DEF TypeOK, Prepare, Goto, RestoreInv, JournalState, Exclusive
<1>7. ASSUME NEW p \in Proc, WriteTarget(p) PROVE  RestoreInv'
  BY <1>0, <1>7, Mutex DEF TypeOK, WriteTarget, RestoreInv, JournalState, Exclusive
<1>8. ASSUME NEW p \in Proc, CommitJournal(p) PROVE  RestoreInv'
  BY <1>0, <1>8, Mutex DEF TypeOK, CommitJournal, Goto, memory, RestoreInv, JournalState,
     Exclusive
<1>9. ASSUME NEW p \in Proc, UnlinkJournal(p) PROVE  RestoreInv'
  BY <1>0, <1>9, Mutex DEF TypeOK, UnlinkJournal, Goto, NoJournal, memory, RestoreInv,
     JournalState, Exclusive
<1>10. ASSUME NEW p \in Proc, PoisonedFails(p) PROVE  RestoreInv'
  BY <1>0, <1>10, Mutex DEF TypeOK, PoisonedFails, StartRollback, Goto, disk, RestoreInv,
     JournalState, Exclusive
<1>11. ASSUME NEW p \in Proc, RollbackTarget(p) PROVE  RestoreInv'
  <2>1. pre[p] \in Content /\ \A t \in Target \ todo[p] : file[t] = pre[p][t]
    BY <1>0, <1>11 DEF RollbackTarget, RestoreInv, TypeOK
  <2>2. \A t \in Target \ todo'[p] : file'[t] = pre[p][t]
    BY <1>0, <1>11, <2>1, OneRestored DEF RollbackTarget
  <2>3. \A q \in Proc : q # p => pc[q] \notin {"restore", "rollback"}
    BY <1>0, <1>11, Mutex DEF RollbackTarget, Exclusive
  <2> QED
    BY <1>11, <2>2, <2>3 DEF RollbackTarget, RestoreTarget, RestoreInv
<1>12. ASSUME NEW p \in Proc, FinishRollback(p) PROVE  RestoreInv'
  BY <1>0, <1>12, Mutex DEF TypeOK, FinishRollback, Leave, Goto, NoJournal, RestoreInv,
     JournalState, Exclusive
<1>13. ASSUME NEW p \in Proc, CoordinatedAppend(p) PROVE  RestoreInv'
  BY <1>0, <1>13, Mutex DEF TypeOK, CoordinatedAppend, Goto, memory, RestoreInv, JournalState,
     Exclusive
<1>14. ASSUME NEW p \in Proc, ReadSnapshot(p) PROVE  RestoreInv'
  BY <1>0, <1>14, Mutex DEF TypeOK, ReadSnapshot, Goto, disk, memory, RestoreInv,
     JournalState, Exclusive
<1>15. ASSUME NEW p \in Proc, LockStore(p) PROVE  RestoreInv'
  BY <1>15, NoPuts DEF LockStore
<1>16. ASSUME NEW p \in Proc, PutAlone(p) PROVE  RestoreInv'
  BY <1>16, NoPuts DEF PutAlone
<1>17. ASSUME NEW p \in Proc, StoreRefuses(p) PROVE  RestoreInv'
  BY <1>0, <1>17, Mutex DEF TypeOK, StoreRefuses, Leave, Goto, disk, RestoreInv, JournalState,
     Exclusive
<1>18. ASSUME NEW p \in Proc, Return(p) PROVE  RestoreInv'
  BY <1>0, <1>18, Mutex DEF TypeOK, Return, Leave, Goto, disk, RestoreInv, JournalState,
     Exclusive
<1>19. ASSUME NEW p \in Proc, NestedFailure(p) PROVE  RestoreInv'
  BY <1>0, <1>19, Mutex DEF TypeOK, NestedFailure, disk, RestoreInv, JournalState, Exclusive
<1>20. ASSUME NEW p \in Proc, BodyFails(p) PROVE  RestoreInv'
  BY <1>0, <1>20, Mutex DEF TypeOK, BodyFails, StartRollback, Goto, RestoreInv, JournalState,
     Exclusive
<1>21. ASSUME NEW p \in Proc, PostCommitError(p) PROVE  RestoreInv'
  BY <1>21 DEF PostCommitError, Covered
<1>22. ASSUME NEW p \in Proc, TornAppend(p) PROVE  RestoreInv'
  BY <1>22 DEF TornAppend, Covered
<1>23. ASSUME NEW p \in Proc, Abandon(p) PROVE  RestoreInv'
  BY <1>0, <1>23, Mutex DEF TypeOK, Abandon, Leave, Goto, disk, RestoreInv, JournalState,
     Exclusive
<1> QED
  BY <1>1, <1>2, <1>3, <1>4, <1>5, <1>6, <1>7, <1>8, <1>9, <1>10, <1>11, <1>12, <1>13, <1>14,
     <1>15, <1>16, <1>17, <1>18, <1>19, <1>20, <1>21, <1>22, <1>23 DEF Next, Step

(* Leaving a scope does not touch what the other bodies have done. *)
LEMMA BodyLeave ==
  ASSUME TypeOK, BodyInv, NEW p \in Proc, Leave(p), UNCHANGED <<file, count, request>>
  PROVE  BodyInv'
<1>1. \A q \in Proc : pc'[q] = "body" => q # p /\ pc[q] = "body"
  BY DEF Leave, Goto, TypeOK
<1>2. \A q \in Proc : q # p => pre'[q] = pre[q] /\ todo'[q] = todo[q] /\ poisoned'[q] = poisoned[q]
  BY DEF Leave, TypeOK
<1> QED
  BY <1>1, <1>2, SameOp DEF BodyInv

(* A body adds its own record and nothing else. *)
LEMMA BodyStep ==
  ASSUME Covered, DurInv, BodyInv, Next
  PROVE  BodyInv'
<1>0. TypeOK /\ LocksHeld /\ JournalState
  BY DEF DurInv
<1>1. ASSUME NEW p \in Proc, Begin(p) PROVE  BodyInv'
  <2>1. pc'[p] # "body" /\ \A q \in Proc : q # p => pc'[q] = pc[q]
    BY <1>0, <1>1, BegunOperation DEF Begin, Goto, TypeOK
  <2>2. \A q \in Proc : q # p /\ pc[q] = "body" =>
          Cur(q)' = Cur(q) /\ Kind(q)' = Kind(q) /\ Writes(q)' = Writes(q)
    BY <1>1, SameOperation DEF DurInv
  <2> QED
    BY <1>1, <2>1, <2>2 DEF BodyInv, Begin, disk, memory
<1>2. ASSUME NEW p \in Proc, AcquireLock(p) PROVE  BodyInv'
  <2>1. \A q \in Proc : pc'[q] = "body" => pc[q] = "body"
    BY <1>0, <1>2 DEF AcquireLock, Goto, TypeOK
  <2> QED
    BY <1>2, <2>1, SameOp DEF BodyInv, AcquireLock, disk, memory
<1>3. ASSUME NEW p \in Proc, BeginRestore(p) PROVE  BodyInv'
  BY <1>0, <1>3, Mutex DEF TypeOK, BeginRestore, Goto, disk, BodyInv, JournalState, Exclusive,
     Kind, Writes, Cur
<1>4. ASSUME NEW p \in Proc, RecoverTarget(p) PROVE  BodyInv'
  BY <1>0, <1>4, Mutex DEF TypeOK, RecoverTarget, RestoreTarget, BodyInv, JournalState,
     Exclusive, Kind, Writes, Cur
<1>5. ASSUME NEW p \in Proc, FinishRecovery(p) PROVE  BodyInv'
  BY <1>0, <1>5, Mutex DEF TypeOK, FinishRecovery, Goto, NoJournal, memory, BodyInv,
     JournalState, Exclusive, Kind, Writes, Cur
<1>6. ASSUME NEW p \in Proc, Prepare(p) PROVE  BodyInv'
  BY <1>0, <1>6, Mutex DEF TypeOK, Prepare, Goto, BodyInv, JournalState, Exclusive, Kind,
     Writes, Cur
<1>7. ASSUME NEW p \in Proc, WriteTarget(p) PROVE  BodyInv'
  <2>1. PICK u \in todo[p] : /\ file' = [file EXCEPT ![u] = @ \cup {Cur(p)}]
                             /\ todo' = [todo EXCEPT ![p] = @ \ {u}]
    BY <1>7 DEF WriteTarget
  <2>2. u \in Target /\ todo'[p] = todo[p] \ {u} /\ pc[p] = "body"
    BY <1>0, <1>7, <2>1 DEF TypeOK, WriteTarget
  <2>3. \A t \in Target : file'[t] = IF t = u THEN file[t] \cup {Cur(p)} ELSE file[t]
    BY <1>0, <2>1 DEF TypeOK, Content
  <2>4. \A q \in Proc : q # p => pc[q] # "body"
    BY <1>0, <1>7, Mutex DEF WriteTarget, Exclusive
  <2>5. Cur(p)' = Cur(p) /\ Kind(p)' = Kind(p) /\ Writes(p)' = Writes(p)
    BY <1>7, SameOp DEF WriteTarget
  <2>6. todo'[p] \subseteq Writes(p)
    BY <2>2 DEF BodyInv
  <2>7. ~poisoned[p] => \A t \in Target :
          file'[t] = IF t \in Writes(p) \ todo'[p] THEN pre[p][t] \cup {Cur(p)} ELSE pre[p][t]
    BY <2>2, <2>3 DEF BodyInv
  <2> QED
    BY <1>7, <2>2, <2>4, <2>5, <2>6, <2>7 DEF BodyInv, WriteTarget
<1>8. ASSUME NEW p \in Proc, CommitJournal(p) PROVE  BodyInv'
  BY <1>0, <1>8, Mutex DEF TypeOK, CommitJournal, Goto, memory, BodyInv, JournalState,
     Exclusive, Kind, Writes, Cur
<1>9. ASSUME NEW p \in Proc, UnlinkJournal(p) PROVE  BodyInv'
  <2>1. \A q \in Proc : pc'[q] = "body" => pc[q] = "body"
    BY <1>0, <1>9 DEF UnlinkJournal, Goto, TypeOK
  <2> QED
    BY <1>9, <2>1, SameOp DEF BodyInv, UnlinkJournal, memory
<1>10. ASSUME NEW p \in Proc, PoisonedFails(p) PROVE  BodyInv'
  <2>1. \A q \in Proc : q # p => pc[q] # "body"
    BY <1>0, <1>10, Mutex DEF PoisonedFails, Exclusive
  <2>2. \A q \in Proc : pc'[q] # "body"
    BY <1>0, <1>10, <2>1 DEF PoisonedFails, StartRollback, Goto, TypeOK
  <2> QED
    BY <2>2 DEF BodyInv
<1>11. ASSUME NEW p \in Proc, RollbackTarget(p) PROVE  BodyInv'
  BY <1>0, <1>11, Mutex DEF TypeOK, RollbackTarget, RestoreTarget, BodyInv, JournalState,
     Exclusive, Kind, Writes, Cur
<1>12. ASSUME NEW p \in Proc, FinishRollback(p) PROVE  BodyInv'
  BY <1>0, <1>12, BodyLeave DEF FinishRollback
<1>13. ASSUME NEW p \in Proc, CoordinatedAppend(p) PROVE  BodyInv'
  BY <1>0, <1>13, Mutex DEF TypeOK, CoordinatedAppend, Goto, memory, BodyInv, JournalState,
     Exclusive, Kind, Writes, Cur
<1>14. ASSUME NEW p \in Proc, ReadSnapshot(p) PROVE  BodyInv'
  BY <1>0, <1>14, Mutex DEF TypeOK, ReadSnapshot, Goto, disk, memory, BodyInv, JournalState,
     Exclusive, Kind, Writes, Cur
<1>15. ASSUME NEW p \in Proc, LockStore(p) PROVE  BodyInv'
  BY <1>15, NoPuts DEF LockStore
<1>16. ASSUME NEW p \in Proc, PutAlone(p) PROVE  BodyInv'
  BY <1>16, NoPuts DEF PutAlone
<1>17. ASSUME NEW p \in Proc, StoreRefuses(p) PROVE  BodyInv'
  BY <1>0, <1>17, BodyLeave DEF StoreRefuses, disk
<1>18. ASSUME NEW p \in Proc, Return(p) PROVE  BodyInv'
  BY <1>0, <1>18, BodyLeave DEF Return, disk
<1>19. ASSUME NEW p \in Proc, NestedFailure(p) PROVE  BodyInv'
  <2>1. \A q \in Proc : q # p => pc[q] # "body"
    BY <1>0, <1>19, Mutex DEF NestedFailure, Exclusive
  <2>2. todo'[p] \subseteq Writes(p) /\ poisoned'[p]
        /\ Kind(p)' = Kind(p) /\ Writes(p)' = Writes(p)
    BY <1>0, <1>19, SameOp DEF NestedFailure, BodyInv, TypeOK
  <2> QED
    BY <1>19, <2>1, <2>2 DEF BodyInv, NestedFailure
<1>20. ASSUME NEW p \in Proc, BodyFails(p) PROVE  BodyInv'
  BY <1>0, <1>20, Mutex DEF TypeOK, BodyFails, StartRollback, Goto, BodyInv, JournalState,
     Exclusive, Kind, Writes, Cur
<1>21. ASSUME NEW p \in Proc, PostCommitError(p) PROVE  BodyInv'
  BY <1>21 DEF PostCommitError, Covered
<1>22. ASSUME NEW p \in Proc, TornAppend(p) PROVE  BodyInv'
  BY <1>22 DEF TornAppend, Covered
<1>23. ASSUME NEW p \in Proc, Abandon(p) PROVE  BodyInv'
  BY <1>0, <1>23, BodyLeave DEF Abandon, disk
<1> QED
  BY <1>1, <1>2, <1>3, <1>4, <1>5, <1>6, <1>7, <1>8, <1>9, <1>10, <1>11, <1>12, <1>13, <1>14,
     <1>15, <1>16, <1>17, <1>18, <1>19, <1>20, <1>21, <1>22, <1>23 DEF Next, Step

(* Records of an operation appear only once its body runs. *)
LEMMA NotYetStep ==
  ASSUME Covered, DurInv, PastInv, RestoreInv, NotYetInv, Next
  PROVE  NotYetInv'
<1>0. TypeOK /\ LocksHeld /\ JournalState
  BY DEF DurInv
<1>1. ASSUME NEW p \in Proc, Begin(p) PROVE  NotYetInv'
  <2>1. \A q \in Proc : q # p /\ pc'[q] # "idle" => pc'[q] = pc[q] /\ Cur(q)' = Cur(q)
    BY <1>1, SameOperation DEF DurInv, Begin, Goto, TypeOK
  <2>2. Cur(p)' = <<p, count[p] + 1>> /\ count[p] + 1 \in 1 .. MaxOps /\ ~(count[p] + 1 <= count[p])
    BY <1>0, <1>1, MaxOpsAssumption DEF Begin, Cur, TypeOK
  <2>3. \A t \in Target : Cur(p)' \notin file[t] /\ Cur(p)' \notin journal.pre[t]
    BY <2>2 DEF PastInv, Past
  <2>4. pc'[p] \in {"locking", "storelock"} /\ file' = file /\ journal' = journal /\ pre' = pre
    BY <1>0, <1>1, BegunOperation DEF Begin, disk, memory
  <2> QED
    BY <2>1, <2>3, <2>4 DEF NotYetInv, NotYet
<1>2. ASSUME NEW p \in Proc, AcquireLock(p) PROVE  NotYetInv'
  BY <1>0, <1>2, Mutex DEF TypeOK, AcquireLock, Goto, disk, memory, NotYetInv, NotYet,
     JournalState, RestoreInv, Exclusive, Kind, Cur
<1>3. ASSUME NEW p \in Proc, BeginRestore(p) PROVE  NotYetInv'
  BY <1>0, <1>3, Mutex DEF TypeOK, BeginRestore, Goto, disk, NotYetInv, NotYet, JournalState,
     RestoreInv, Exclusive, Kind, Cur
<1>4. ASSUME NEW p \in Proc, RecoverTarget(p) PROVE  NotYetInv'
  <2>1. journal.pre \in Content /\ \A t \in Target \ todo[p] : file[t] = journal.pre[t]
    BY <1>0, <1>4 DEF RecoverTarget, RestoreInv, TypeOK
  <2>2. \A t \in Target : file'[t] \in {file[t], journal.pre[t]}
    BY <1>0, <1>4, <2>1, OneRestored DEF RecoverTarget
  <2>3. journal.state = "prepared" /\ journal' = journal /\ pre' = pre /\ pc' = pc
    BY <1>0, <1>4 DEF RecoverTarget, RestoreTarget, JournalState
  <2>4. \A q \in Proc : Cur(q)' = Cur(q)
    BY <1>4, SameOp DEF RecoverTarget, RestoreTarget
  <2> QED
    BY <2>2, <2>3, <2>4 DEF NotYetInv, NotYet
<1>5. ASSUME NEW p \in Proc, FinishRecovery(p) PROVE  NotYetInv'
  BY <1>0, <1>5, Mutex DEF TypeOK, FinishRecovery, Goto, NoJournal, memory, NotYetInv, NotYet,
     JournalState, RestoreInv, Exclusive, Kind, Cur
<1>6. ASSUME NEW p \in Proc, Prepare(p) PROVE  NotYetInv'
  BY <1>0, <1>6, Mutex DEF TypeOK, Prepare, Goto, NotYetInv, NotYet, JournalState, RestoreInv,
     Exclusive, Kind, Cur
<1>7. ASSUME NEW p \in Proc, WriteTarget(p) PROVE  NotYetInv'
  BY <1>0, <1>7, Mutex DEF TypeOK, WriteTarget, NotYetInv, NotYet, JournalState, RestoreInv,
     Exclusive, Kind, Cur
<1>8. ASSUME NEW p \in Proc, CommitJournal(p) PROVE  NotYetInv'
  BY <1>0, <1>8, Mutex DEF TypeOK, CommitJournal, Goto, memory, NotYetInv, NotYet,
     JournalState, RestoreInv, Exclusive, Kind, Cur
<1>9. ASSUME NEW p \in Proc, UnlinkJournal(p) PROVE  NotYetInv'
  BY <1>0, <1>9, Mutex DEF TypeOK, UnlinkJournal, Goto, NoJournal, memory, NotYetInv, NotYet,
     JournalState, RestoreInv, Exclusive, Kind, Cur
<1>10. ASSUME NEW p \in Proc, PoisonedFails(p) PROVE  NotYetInv'
  BY <1>0, <1>10, Mutex DEF TypeOK, PoisonedFails, StartRollback, Goto, disk, NotYetInv,
     NotYet, JournalState, RestoreInv, Exclusive, Kind, Cur
<1>11. ASSUME NEW p \in Proc, RollbackTarget(p) PROVE  NotYetInv'
  BY <1>0, <1>11, Mutex DEF TypeOK, RollbackTarget, RestoreTarget, NotYetInv, NotYet,
     JournalState, RestoreInv, Exclusive, Kind, Cur
<1>12. ASSUME NEW p \in Proc, FinishRollback(p) PROVE  NotYetInv'
  BY <1>0, <1>12, Mutex DEF TypeOK, FinishRollback, Leave, Goto, NoJournal, NotYetInv, NotYet,
     JournalState, RestoreInv, Exclusive, Kind, Cur
<1>13. ASSUME NEW p \in Proc, CoordinatedAppend(p) PROVE  NotYetInv'
  BY <1>0, <1>13, Mutex DEF TypeOK, CoordinatedAppend, Goto, memory, NotYetInv, NotYet,
     JournalState, RestoreInv, Exclusive, Kind, Cur
<1>14. ASSUME NEW p \in Proc, ReadSnapshot(p) PROVE  NotYetInv'
  BY <1>0, <1>14, Mutex DEF TypeOK, ReadSnapshot, Goto, disk, memory, NotYetInv, NotYet,
     JournalState, RestoreInv, Exclusive, Kind, Cur
<1>15. ASSUME NEW p \in Proc, LockStore(p) PROVE  NotYetInv'
  BY <1>15, NoPuts DEF LockStore
<1>16. ASSUME NEW p \in Proc, PutAlone(p) PROVE  NotYetInv'
  BY <1>16, NoPuts DEF PutAlone
<1>17. ASSUME NEW p \in Proc, StoreRefuses(p) PROVE  NotYetInv'
  BY <1>0, <1>17, Mutex DEF TypeOK, StoreRefuses, Leave, Goto, disk, NotYetInv, NotYet,
     JournalState, RestoreInv, Exclusive, Kind, Cur
<1>18. ASSUME NEW p \in Proc, Return(p) PROVE  NotYetInv'
  BY <1>0, <1>18, Mutex DEF TypeOK, Return, Leave, Goto, disk, NotYetInv, NotYet,
     JournalState, RestoreInv, Exclusive, Kind, Cur
<1>19. ASSUME NEW p \in Proc, NestedFailure(p) PROVE  NotYetInv'
  BY <1>0, <1>19, Mutex DEF TypeOK, NestedFailure, disk, NotYetInv, NotYet, JournalState,
     RestoreInv, Exclusive, Kind, Cur
<1>20. ASSUME NEW p \in Proc, BodyFails(p) PROVE  NotYetInv'
  <2>1. \A t \in Target, o \in Op : o \in file'[t] => o \in file[t]
    BY <1>0, <1>20, TornOnly
  <2>2. \A q \in Proc : pc[q] # "idle" => Cur(q) \in Op /\ Cur(q)' = Cur(q)
    BY <1>20, WritesType, SameOp DEF DurInv, BodyFails, StartRollback
  <2>3. \A q \in Proc : pc'[q] \in {"idle", "rollback"} \/ pc'[q] = pc[q]
    BY <1>0, <1>20 DEF BodyFails, StartRollback, Goto, TypeOK
  <2> QED
    BY <1>20, <2>1, <2>2, <2>3 DEF NotYetInv, NotYet, BodyFails, StartRollback
<1>21. ASSUME NEW p \in Proc, PostCommitError(p) PROVE  NotYetInv'
  BY <1>21 DEF PostCommitError, Covered
<1>22. ASSUME NEW p \in Proc, TornAppend(p) PROVE  NotYetInv'
  BY <1>22 DEF TornAppend, Covered
<1>23. ASSUME NEW p \in Proc, Abandon(p) PROVE  NotYetInv'
  BY <1>0, <1>23, Mutex DEF TypeOK, Abandon, Leave, Goto, disk, NotYetInv, NotYet,
     JournalState, RestoreInv, Exclusive, Kind, Cur
<1> QED
  BY <1>1, <1>2, <1>3, <1>4, <1>5, <1>6, <1>7, <1>8, <1>9, <1>10, <1>11, <1>12, <1>13, <1>14,
     <1>15, <1>16, <1>17, <1>18, <1>19, <1>20, <1>21, <1>22, <1>23 DEF Next, Step

(* The state that recovery leaves is whole. *)
LEMMA WholeStep ==
  ASSUME Covered, DurInv, PastInv, RestoreInv, BodyInv, WholeInv, Next
  PROVE  WholeInv'
<1>0. TypeOK /\ LocksHeld /\ JournalState
  BY DEF DurInv
<1>1. ASSUME NEW p \in Proc, Begin(p) PROVE  WholeInv'
  <2>1. \A o \in Op, t \in Target : o \in Logical[t] => o # <<p, count[p] + 1>>
    BY <1>0, <1>1 DEF PastInv, Past, Logical, TypeOK, Op
  <2>2. \A o \in Op, t \in Target : o \in Logical[t] => request'[o] = request[o]
    BY <1>0, <1>1, <2>1, BegunOperation
  <2>3. Logical' = Logical
    BY <1>1 DEF Begin, disk, Logical
  <2> QED
    BY <2>2, <2>3 DEF WholeInv, Whole
<1>2. ASSUME NEW p \in Proc, AcquireLock(p) PROVE  WholeInv'
  BY <1>0, <1>2, Mutex DEF TypeOK, AcquireLock, Goto, disk, memory, WholeInv, Whole, Logical,
     RestoreInv, JournalState, Exclusive, Cur
<1>3. ASSUME NEW p \in Proc, BeginRestore(p) PROVE  WholeInv'
  BY <1>0, <1>3, Mutex DEF TypeOK, BeginRestore, Goto, disk, WholeInv, Whole, Logical,
     RestoreInv, JournalState, Exclusive, Cur
<1>4. ASSUME NEW p \in Proc, RecoverTarget(p) PROVE  WholeInv'
  <2>1. journal.state = "prepared" /\ UNCHANGED <<journal, request>>
    BY <1>0, <1>4 DEF RecoverTarget, RestoreTarget, JournalState
  <2> QED
    BY <2>1 DEF WholeInv, Whole, Logical
<1>5. ASSUME NEW p \in Proc, FinishRecovery(p) PROVE  WholeInv'
  <2>1. pc[p] = "restore" => journal.pre = file
    <3>1. file \in [Target -> SUBSET (Op \cup {Torn})]
          /\ journal.pre \in [Target -> SUBSET (Op \cup {Torn})]
      BY <1>0 DEF TypeOK, Content
    <3>2. pc[p] = "restore" => \A t \in Target : file[t] = journal.pre[t]
      BY <1>5 DEF FinishRecovery, RestoreInv
    <3> QED
      BY <3>1, <3>2
  <2>2. Logical = file
    BY <1>0, <1>5, <2>1 DEF FinishRecovery, Logical, JournalState
  <2>3. Logical' = file /\ request' = request
    BY <1>5 DEF FinishRecovery, NoJournal, Logical
  <2> QED
    BY <2>2, <2>3 DEF WholeInv, Whole
<1>6. ASSUME NEW p \in Proc, Prepare(p) PROVE  WholeInv'
  BY <1>0, <1>6, Mutex DEF TypeOK, Prepare, Goto, WholeInv, Whole, Logical, RestoreInv,
     JournalState, Exclusive, Cur
<1>7. ASSUME NEW p \in Proc, WriteTarget(p) PROVE  WholeInv'
  BY <1>0, <1>7, Mutex DEF TypeOK, WriteTarget, WholeInv, Whole, Logical, RestoreInv,
     JournalState, Exclusive, Cur
<1>8. ASSUME NEW p \in Proc, CommitJournal(p) PROVE  WholeInv'
  <2>1. Cur(p) \in Op /\ Writes(p) \in SUBSET Target
    BY <1>8, WritesType DEF DurInv, CommitJournal
  <2>2. \A t \in Target : file[t] = IF t \in Writes(p) THEN pre[p][t] \cup {Cur(p)} ELSE pre[p][t]
    BY <1>8 DEF CommitJournal, BodyInv
  <2>3. Whole(pre[p])
    BY <1>0, <1>8 DEF CommitJournal, JournalState, WholeInv, Logical
  <2>4. \A t \in Target : Torn \notin file[t]
    BY <2>1, <2>2, <2>3, SentinelAssumption DEF Whole
  <2>5. ASSUME NEW o \in Op, NEW u \in Target, o \in file[u], NEW t \in request[o].writes
        PROVE  o \in file[t]
    <3>1. t \in Target
      BY <1>0, <2>5 DEF TypeOK
    <3>2. CASE \E v \in Target : o \in pre[p][v]
      BY <2>2, <2>3, <2>5, <3>1, <3>2 DEF Whole
    <3>3. CASE o = Cur(p)
      BY <2>2, <2>5, <3>1, <3>3 DEF Writes
    <3> QED
      BY <2>2, <2>5, <3>2, <3>3
  <2>6. Logical' = file /\ request' = request
    BY <1>8 DEF CommitJournal, Logical
  <2> QED
    BY <2>4, <2>5, <2>6 DEF WholeInv, Whole
<1>9. ASSUME NEW p \in Proc, UnlinkJournal(p) PROVE  WholeInv'
  BY <1>0, <1>9, Mutex DEF TypeOK, UnlinkJournal, Goto, NoJournal, memory, WholeInv, Whole,
     Logical, RestoreInv, JournalState, Exclusive, Cur
<1>10. ASSUME NEW p \in Proc, PoisonedFails(p) PROVE  WholeInv'
  BY <1>10 DEF PoisonedFails, StartRollback, disk, WholeInv, Whole, Logical
<1>11. ASSUME NEW p \in Proc, RollbackTarget(p) PROVE  WholeInv'
  <2>1. journal.state = "prepared" /\ UNCHANGED <<journal, request>>
    BY <1>11 DEF RollbackTarget, RestoreTarget, RestoreInv
  <2> QED
    BY <2>1 DEF WholeInv, Whole, Logical
<1>12. ASSUME NEW p \in Proc, FinishRollback(p) PROVE  WholeInv'
  BY <1>0, <1>12, Mutex DEF TypeOK, FinishRollback, Leave, Goto, NoJournal, WholeInv, Whole,
     Logical, RestoreInv, JournalState, Exclusive, Cur
<1>13. ASSUME NEW p \in Proc, CoordinatedAppend(p) PROVE  WholeInv'
  <2>1. Cur(p) \in Op /\ Writes(p) \in SUBSET Target
    BY <1>13, WritesType DEF DurInv, CoordinatedAppend
  <2>2. PICK u \in Writes(p) : file' = [file EXCEPT ![u] = @ \cup {Cur(p)}]
    BY <1>13 DEF CoordinatedAppend
  <2>3. Writes(p) = {u}
    BY <1>13, <2>1, <2>2 DEF CoordinatedAppend, DurInv, Requests, WellFormed, Kind, Writes
  <2>4. \A t \in Target : file'[t] = IF t = u THEN file[t] \cup {Cur(p)} ELSE file[t]
    BY <1>0, <2>1, <2>2 DEF TypeOK, Content
  <2>5. Logical = file /\ Logical' = file' /\ request' = request
    BY <1>0, <1>13 DEF CoordinatedAppend, JournalState, Exclusive, Logical
  <2>6. \A t \in Target : Torn \notin file'[t]
    BY <2>1, <2>4, <2>5, SentinelAssumption DEF WholeInv, Whole
  <2>7. ASSUME NEW o \in Op, NEW v \in Target, o \in file'[v], NEW t \in request[o].writes
        PROVE  o \in file'[t]
    <3>1. t \in Target
      BY <1>0, <2>7 DEF TypeOK
    <3>2. CASE o \in file[v]
      BY <2>4, <2>5, <2>7, <3>1, <3>2 DEF WholeInv, Whole
    <3>3. CASE o = Cur(p)
      BY <2>3, <2>4, <2>7, <3>1, <3>3 DEF Writes
    <3> QED
      BY <2>4, <2>7, <3>2, <3>3
  <2> QED
    BY <2>5, <2>6, <2>7 DEF WholeInv, Whole
<1>14. ASSUME NEW p \in Proc, ReadSnapshot(p) PROVE  WholeInv'
  BY <1>0, <1>14, Mutex DEF TypeOK, ReadSnapshot, Goto, disk, memory, WholeInv, Whole,
     Logical, RestoreInv, JournalState, Exclusive, Cur
<1>15. ASSUME NEW p \in Proc, LockStore(p) PROVE  WholeInv'
  BY <1>15, NoPuts DEF LockStore
<1>16. ASSUME NEW p \in Proc, PutAlone(p) PROVE  WholeInv'
  BY <1>16, NoPuts DEF PutAlone
<1>17. ASSUME NEW p \in Proc, StoreRefuses(p) PROVE  WholeInv'
  BY <1>0, <1>17, Mutex DEF TypeOK, StoreRefuses, Leave, Goto, disk, WholeInv, Whole, Logical,
     RestoreInv, JournalState, Exclusive, Cur
<1>18. ASSUME NEW p \in Proc, Return(p) PROVE  WholeInv'
  BY <1>0, <1>18, Mutex DEF TypeOK, Return, Leave, Goto, disk, WholeInv, Whole, Logical,
     RestoreInv, JournalState, Exclusive, Cur
<1>19. ASSUME NEW p \in Proc, NestedFailure(p) PROVE  WholeInv'
  BY <1>0, <1>19, Mutex DEF TypeOK, NestedFailure, disk, WholeInv, Whole, Logical, RestoreInv,
     JournalState, Exclusive, Cur
<1>20. ASSUME NEW p \in Proc, BodyFails(p) PROVE  WholeInv'
  BY <1>0, <1>20, Mutex DEF TypeOK, BodyFails, StartRollback, Goto, WholeInv, Whole, Logical,
     RestoreInv, JournalState, Exclusive, Cur
<1>21. ASSUME NEW p \in Proc, PostCommitError(p) PROVE  WholeInv'
  BY <1>21 DEF PostCommitError, Covered
<1>22. ASSUME NEW p \in Proc, TornAppend(p) PROVE  WholeInv'
  BY <1>22 DEF TornAppend, Covered
<1>23. ASSUME NEW p \in Proc, Abandon(p) PROVE  WholeInv'
  BY <1>0, <1>23, Mutex DEF TypeOK, Abandon, Leave, Goto, disk, WholeInv, Whole, Logical,
     RestoreInv, JournalState, Exclusive, Cur
<1> QED
  BY <1>1, <1>2, <1>3, <1>4, <1>5, <1>6, <1>7, <1>8, <1>9, <1>10, <1>11, <1>12, <1>13, <1>14,
     <1>15, <1>16, <1>17, <1>18, <1>19, <1>20, <1>21, <1>22, <1>23 DEF Next, Step

LEMMA AtomInit == Init => AtomInv
<1> SUFFICES ASSUME Init PROVE AtomInv
  OBVIOUS
<1>1. DurInv
  BY DurInit
<1>2. \A p \in Proc : pc[p] = "idle"
  BY DEF Init
<1>3. NotYetInv /\ RestoreInv /\ BodyInv
  BY <1>2 DEF NotYetInv, RestoreInv, BodyInv
<1>4. PastInv /\ WholeInv
  BY DEF Init, PastInv, Past, WholeInv, Whole, Logical, NoJournal, Nothing
<1> QED
  BY <1>1, <1>3, <1>4 DEF AtomInv

LEMMA AtomStep ==
  ASSUME Covered, AtomInv, [Next]_vars
  PROVE  AtomInv'
<1>1. DurInv'
  BY DurStep DEF AtomInv
<1>2. CASE UNCHANGED vars
  <2>1. PastInv' /\ NotYetInv'
    BY <1>2 DEF AtomInv, vars, PastInv, Past, NotYetInv, NotYet, Cur
  <2>2. RestoreInv' /\ BodyInv'
    BY <1>2 DEF AtomInv, vars, RestoreInv, BodyInv, Writes, Kind, Cur
  <2>3. WholeInv'
    BY <1>2 DEF AtomInv, vars, WholeInv, Whole, Logical
  <2> QED
    BY <1>1, <2>1, <2>2, <2>3 DEF AtomInv
<1>3. CASE Next
  BY <1>1, <1>3, PastStep, NotYetStep, RestoreStep, BodyStep, WholeStep DEF AtomInv
<1> QED
  BY <1>2, <1>3

(* Crash consistency of transaction() and of coordinated stores, for every *)
(* crash and every error before the commit point.                          *)
THEOREM AllOrNothingCorrect == ASSUME Covered PROVE Spec => []AllOrNothing
<1>1. AtomInv => AllOrNothing
  BY DEF AtomInv, WholeInv, Whole, AllOrNothing, NoTornRecord
<1>2. AtomInv /\ [Next]_vars => AtomInv'
  BY AtomStep
<1> QED
  BY <1>1, <1>2, AtomInit, PTL DEF Spec

-----------------------------------------------------------------------------
(* Refinement                                                              *)

(* Two contents that agree on every file are the same. *)
LEMMA SameContent ==
  ASSUME NEW c \in Content, NEW d \in Content, \A t \in Target : c[t] = d[t]
  PROVE  c = d
  BY DEF Content

(* A step that leaves the files standing for the same state is a stutter. *)
LEMMA Stutter ==
  ASSUME Logical' = Logical, request' = request, acked' = acked, view' = view
  PROVE  UNCHANGED Atomic!vars
  BY DEF Atomic!vars

(* The commit point of an operation is the abstract Commit. *)
LEMMA CommitRefined ==
  ASSUME TypeOK, NEW p \in Proc, Cur(p) \in Op, Writes(p) # {}, NotYet(p, Logical),
         Logical' = [t \in Target |-> IF t \in Writes(p) THEN Logical[t] \cup {Cur(p)}
                                                        ELSE Logical[t]],
         request' = request, acked' = acked, view' = view
  PROVE  Atomic!Commit(Cur(p))
  BY DEF Atomic!Commit, NotYet, Writes

LEMMA RefinesNext ==
  ASSUME Covered, AtomInv, Next
  PROVE  Atomic!Next \/ UNCHANGED Atomic!vars
<1>0. TypeOK /\ Counted /\ LocksHeld /\ JournalState /\ Requests
  BY DEF AtomInv, DurInv
<1>00. file \in Content /\ journal.pre \in Content /\ \A p \in Proc : pre[p] \in Content
  BY <1>0 DEF TypeOK
<1>1. ASSUME NEW p \in Proc, Begin(p) PROVE Atomic!Next
  <2> DEFINE o == <<p, count[p] + 1>>
  <2>1. PICK k \in Kinds, W \in SUBSET Target :
          request' = [request EXCEPT ![o] = [kind |-> k, writes |-> W]]
    BY <1>1 DEF Begin
  <2>2. o \in Op
    BY <1>0, <1>1, MaxOpsAssumption DEF Begin, TypeOK, Op
  <2>9. count[p] + 1 \in 1 .. MaxOps /\ count[p] + 1 > count[p]
    BY <1>0, <1>1, MaxOpsAssumption DEF Begin, TypeOK
  <2>3. request[o].writes = {}
    BY <1>0, <2>9 DEF Requests, NoRequest
  <2>4. Logical' = Logical /\ acked' = acked /\ view' = view
    BY <1>1 DEF Begin, disk, Logical
  <2>5. [x \in Op |-> request[x].writes]' = [[x \in Op |-> request[x].writes] EXCEPT ![o] = W]
    BY <1>0, <2>1, <2>2 DEF TypeOK
  <2>6. Atomic!Begin(o, W)
    BY <2>2, <2>3, <2>4, <2>5 DEF Atomic!Begin
  <2> QED
    BY <2>2, <2>6 DEF Atomic!Next
<1>2. ASSUME NEW p \in Proc, CommitJournal(p) PROVE Atomic!Next
  <2>1. Cur(p) \in Op /\ Writes(p) \in SUBSET Target
    BY <1>0, <1>2, WritesType DEF CommitJournal
  <2>2. Kind(p) = "txn" /\ Writes(p) # {}
    BY <1>0, <1>2, <2>1 DEF AtomInv, BodyInv, CommitJournal, Requests, WellFormed, Kind, Writes
  <2>3. Logical = pre[p] /\ Logical' = file
    BY <1>0, <1>2 DEF CommitJournal, JournalState, Logical
  <2>4. \A t \in Target : file[t] = IF t \in Writes(p) THEN pre[p][t] \cup {Cur(p)} ELSE pre[p][t]
    BY <1>2 DEF CommitJournal, AtomInv, BodyInv
  <2>5. file = [t \in Target |-> IF t \in Writes(p) THEN pre[p][t] \cup {Cur(p)} ELSE pre[p][t]]
    BY <1>00, <2>4 DEF Content
  <2>6. NotYet(p, Logical)
    BY <1>2, <2>3 DEF AtomInv, NotYetInv, CommitJournal
  <2>7. Atomic!Commit(Cur(p))
    BY <1>0, <1>2, <2>1, <2>2, <2>3, <2>5, <2>6, CommitRefined DEF CommitJournal
  <2> QED
    BY <2>1, <2>7 DEF Atomic!Next
<1>3. ASSUME NEW p \in Proc, CoordinatedAppend(p) PROVE Atomic!Next
  <2>1. Cur(p) \in Op /\ Writes(p) \in SUBSET Target
    BY <1>0, <1>3, WritesType DEF CoordinatedAppend
  <2>2. PICK u \in Writes(p) : file' = [file EXCEPT ![u] = @ \cup {Cur(p)}]
    BY <1>3 DEF CoordinatedAppend
  <2>3. Writes(p) = {u}
    BY <1>0, <1>3, <2>1, <2>2 DEF CoordinatedAppend, Requests, WellFormed, Kind, Writes
  <2>4. Logical = file /\ Logical' = file'
    BY <1>0, <1>3 DEF CoordinatedAppend, JournalState, Exclusive, Logical
  <2>5. file' = [t \in Target |-> IF t \in Writes(p) THEN file[t] \cup {Cur(p)} ELSE file[t]]
    BY <1>00, <2>1, <2>2, <2>3 DEF Content
  <2>6. NotYet(p, Logical)
    BY <1>3, <2>4 DEF AtomInv, NotYetInv, CoordinatedAppend
  <2>7. Atomic!Commit(Cur(p))
    BY <1>0, <1>3, <2>1, <2>2, <2>4, <2>5, <2>6, CommitRefined DEF CoordinatedAppend
  <2> QED
    BY <2>1, <2>7 DEF Atomic!Next
<1>4. ASSUME NEW p \in Proc, Return(p) PROVE Atomic!Next \/ UNCHANGED Atomic!vars
  <2>1. Cur(p) \in Op
    BY <1>0, <1>4, WritesType DEF Return
  <2>2. Exclusive(p)
    BY <1>4, NoPuts DEF AtomInv, Return, Exclusive
  <2>3. Logical' = Logical /\ Logical = file /\ request' = request /\ view' = view
    BY <1>0, <1>4, <2>2 DEF Return, disk, Logical, JournalState
  <2>4. CASE Writes(p) = {}
    BY <1>4, <2>3, <2>4, Stutter DEF Return
  <2>5. CASE Writes(p) # {}
    <3>1. \A t \in Writes(p) : Cur(p) \in Logical[t]
      BY <1>4, <2>2, <2>3 DEF AtomInv, DurInv, Written, Return
    <3>2. acked' = acked \cup {Cur(p)}
      BY <1>4, <2>5 DEF Return
    <3>3. Atomic!Ack(Cur(p))
      BY <2>1, <2>3, <2>5, <3>1, <3>2 DEF Atomic!Ack, Writes
    <3> QED
      BY <2>1, <3>3 DEF Atomic!Next
  <2> QED
    BY <2>4, <2>5
<1>5. ASSUME NEW p \in Proc, ReadSnapshot(p) PROVE Atomic!Next
  <2>1. Logical' = Logical /\ Logical = file
    BY <1>0, <1>5 DEF ReadSnapshot, disk, Logical, JournalState, Exclusive
  <2>2. Atomic!Read(p)
    BY <1>5, <2>1 DEF Atomic!Read, ReadSnapshot
  <2> QED
    BY <2>2 DEF Atomic!Next
<1>6. ASSUME NEW p \in Proc, FinishRecovery(p) PROVE UNCHANGED Atomic!vars
  <2>1. CASE pc[p] = "restore"
    <3>1. file = journal.pre
      BY <1>00, <1>6, <2>1, SameContent DEF FinishRecovery, AtomInv, RestoreInv
    <3> QED
      BY <1>6, <3>1, Stutter DEF FinishRecovery, Logical, NoJournal
  <2>2. CASE pc[p] # "restore"
    BY <1>6, <2>2, Stutter DEF FinishRecovery, Logical, NoJournal
  <2> QED
    BY <2>1, <2>2
<1>7. ASSUME NEW p \in Proc, FinishRollback(p) PROVE UNCHANGED Atomic!vars
  <2>1. file = journal.pre /\ journal.state = "prepared"
    BY <1>00, <1>7, SameContent DEF FinishRollback, AtomInv, RestoreInv
  <2> QED
    BY <1>7, <2>1, Stutter DEF FinishRollback, Logical, NoJournal
<1>8. ASSUME NEW p \in Proc, Prepare(p) PROVE UNCHANGED Atomic!vars
  BY <1>0, <1>8, Stutter DEF Prepare, Logical, JournalState, Exclusive
<1>9. ASSUME NEW p \in Proc, UnlinkJournal(p) PROVE UNCHANGED Atomic!vars
  BY <1>0, <1>9, Stutter DEF UnlinkJournal, Logical, JournalState, NoJournal
<1>10. ASSUME NEW p \in Proc,
              RecoverTarget(p) \/ WriteTarget(p) \/ RollbackTarget(p) \/ BodyFails(p)
       PROVE  UNCHANGED Atomic!vars
  <2>1. journal.state = "prepared"
    BY <1>0, <1>10 DEF RecoverTarget, WriteTarget, RollbackTarget, BodyFails, JournalState,
       AtomInv, RestoreInv
  <2> QED
    BY <1>10, <2>1, Stutter DEF RecoverTarget, WriteTarget, RollbackTarget, BodyFails,
       RestoreTarget, StartRollback, Logical
<1>11. ASSUME NEW p \in Proc,
              \/ AcquireLock(p) \/ BeginRestore(p) \/ PoisonedFails(p) \/ NestedFailure(p)
              \/ StoreRefuses(p) \/ Abandon(p)
       PROVE  UNCHANGED Atomic!vars
  BY <1>11, Stutter DEF AcquireLock, BeginRestore, PoisonedFails, NestedFailure, StoreRefuses,
     Abandon, StartRollback, disk, Logical
<1>12. ASSUME NEW p \in Proc, LockStore(p) \/ PutAlone(p) \/ PostCommitError(p) \/ TornAppend(p)
       PROVE  FALSE
  BY <1>12, NoPuts DEF AtomInv, LockStore, PutAlone, PostCommitError, TornAppend, Covered
<1> QED
  BY <1>1, <1>2, <1>3, <1>4, <1>5, <1>6, <1>7, <1>8, <1>9, <1>10, <1>11, <1>12 DEF Next, Step

(* The journaled files are one atomic store: transactions and coordinated  *)
(* appends take effect at one instant and completely, are acknowledged only*)
(* once they have, and snapshots see one instant.                          *)
THEOREM Refinement == ASSUME Covered PROVE Spec => ImplementsAtomicStore
<1>1. Init => Atomic!Init
  BY DEF Init, Atomic!Init, Atomic!Nothing, Logical, NoJournal, Nothing, NoRequest
<1>2. AtomInv /\ [Next]_vars => [Atomic!Next]_(Atomic!vars)
  <2>1. ASSUME AtomInv, UNCHANGED vars PROVE UNCHANGED Atomic!vars
    BY <2>1, Stutter DEF vars, Logical
  <2> QED
    BY <2>1, RefinesNext
<1>3. AtomInv /\ [Next]_vars => AtomInv'
  BY AtomStep
<1> QED
  BY <1>1, <1>2, <1>3, AtomInit, PTL DEF Spec, ImplementsAtomicStore, Atomic!Spec
=============================================================================
