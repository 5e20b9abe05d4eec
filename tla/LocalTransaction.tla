--------------------------- MODULE LocalTransaction ---------------------------
(***************************************************************************)
(* storage/transaction.py: journaled transactions over a fixed set of      *)
(* canonical files, shared by every thread and process that opens one      *)
(* .intent directory, with the lock discipline of storage/_atomic.py and   *)
(* the file operations of storage/secure.py.                               *)
(*                                                                         *)
(* A file is the set of records it holds, each named by the operation that *)
(* wrote it; a missing file holds none.  The journal file is replaced and  *)
(* removed atomically (SecureFile.atomic_write, unlink); an append is not  *)
(* atomic and may leave a torn record.  An operation is                    *)
(*   "txn"      transaction(): journaled, any set of targets;              *)
(*   "append"   a store write inside coordinated(): one target, unjournaled*)
(*   "snapshot" snapshot() / read_transaction();                           *)
(*   "put"      a store that locks its own file only (the approval ledger).*)
(***************************************************************************)
EXTENDS Integers, FiniteSets

CONSTANTS Proc,       \* threads and processes
          NTargets,   \* number of canonical files; a file's number is its place in sorted(name)
          LockKey,    \* position of each lock file in the (device, inode, name) order
          MaxOps,     \* bound: operations per process
          Kinds,      \* the kinds of operation that occur
          Faults,     \* the failures that occur beyond crashes and errors before the commit point
          NoProc,     \* a lock that nobody holds
          Torn        \* a partially written record

Target == 1 .. NTargets
JournalLock == 0
Lock == {JournalLock} \cup Target
Op == Proc \X (1 .. MaxOps)
AllKinds == {"txn", "append", "snapshot", "put"}
AllFaults == {"post_commit_error", "torn_append"}

ASSUME NTargetsAssumption == NTargets \in Nat \ {0}
ASSUME MaxOpsAssumption == MaxOps \in Nat
ASSUME LockKeyAssumption == /\ LockKey \in [Lock -> Int]
                            /\ \A k, l \in Lock : LockKey[k] = LockKey[l] => k = l
ASSUME KindsAssumption == Kinds \subseteq AllKinds /\ Faults \subseteq AllFaults
ASSUME SentinelAssumption == NoProc \notin Proc /\ Torn \notin Op

VARIABLES
  file,      \* [Target -> SUBSET (Op \cup {Torn})]: canonical files on disk
  journal,   \* the journal file: state and preimages
  owner,     \* [Lock -> Proc \cup {NoProc}]: flock + RLock of each lock file
  pc,        \* [Proc -> ...]: where the operation of a process is
  count,     \* [Proc -> 0..MaxOps]: operations begun
  todo,      \* [Proc -> SUBSET Target]: targets still to write, or to restore
  pre,       \* [Proc -> preimages]: the in-memory preimages of transaction()
  poisoned,  \* [Proc -> BOOLEAN]: _thread_state.poisoned
  request,   \* [Op -> kind and targets asked for]
  acked,     \* operations that returned normally to their caller
  view       \* [Proc -> last snapshot read]

vars == <<file, journal, owner, pc, count, todo, pre, poisoned, request, acked, view>>
disk == <<file, journal>>
memory == <<todo, pre, poisoned>>

Content == [Target -> SUBSET (Op \cup {Torn})]
Nothing == [t \in Target |-> {}]
NoJournal == [state |-> "none", pre |-> Nothing]
NoRequest == [kind |-> "none", writes |-> {}]

(* The operation a process is in. *)
Cur(p) == <<p, count[p]>>
Kind(p) == request[Cur(p)].kind
Writes(p) == request[Cur(p)].writes

Init == /\ file = Nothing
        /\ journal = NoJournal
        /\ owner = [l \in Lock |-> NoProc]
        /\ pc = [p \in Proc |-> "idle"]
        /\ count = [p \in Proc |-> 0]
        /\ todo = [p \in Proc |-> {}]
        /\ pre = [p \in Proc |-> Nothing]
        /\ poisoned = [p \in Proc |-> FALSE]
        /\ request = [o \in Op |-> NoRequest]
        /\ acked = {}
        /\ view = [p \in Proc |-> Nothing]

Goto(p, label) == pc' = [pc EXCEPT ![p] = label]

(* Leaving the scope: the ExitStack frees every lock, the finally clause   *)
(* resets the thread's transaction state.                                  *)
Leave(p) == /\ Goto(p, "idle")
            /\ owner' = [l \in Lock |-> IF owner[l] = p THEN NoProc ELSE owner[l]]
            /\ todo' = [todo EXCEPT ![p] = {}]
            /\ pre' = [pre EXCEPT ![p] = Nothing]
            /\ poisoned' = [poisoned EXCEPT ![p] = FALSE]

-----------------------------------------------------------------------------
(* Entering an operation: every lock in key order, then recovery.          *)

WellFormed(k, W) == /\ k = "txn" => W # {}
                    /\ k = "snapshot" => W = {}
                    /\ k \in {"append", "put"} => \E t \in Target : W = {t}

Begin(p) ==
  /\ pc[p] = "idle"
  /\ count[p] < MaxOps
  /\ \E k \in Kinds, W \in SUBSET Target :
       /\ WellFormed(k, W)
       /\ request' = [request EXCEPT ![<<p, count[p] + 1>>] = [kind |-> k, writes |-> W]]
       /\ Goto(p, IF k = "put" THEN "storelock" ELSE "locking")
  /\ count' = [count EXCEPT ![p] = @ + 1]
  /\ UNCHANGED <<disk, owner, memory, acked, view>>

(* Mutant: each process takes the lock files in any order. *)
AcquireAnyLock(p) ==
  /\ pc[p] = "locking"
  /\ \E l \in Lock :
       /\ owner[l] = NoProc
       /\ owner' = [owner EXCEPT ![l] = p]
       /\ Goto(p, IF \A k \in Lock \ {l} : owner[k] = p THEN "recover" ELSE "locking")
  /\ UNCHANGED <<disk, count, memory, request, acked, view>>

(* _locks: same_path_lock on the next lock file in sorted key order. *)
AcquireLock(p) ==
  /\ pc[p] = "locking"
  /\ \E l \in Lock :
       /\ owner[l] = NoProc
       /\ \A k \in Lock : LockKey[k] < LockKey[l] => owner[k] = p
       /\ owner' = [owner EXCEPT ![l] = p]
       /\ Goto(p, IF \A k \in Lock \ {l} : owner[k] = p THEN "recover" ELSE "locking")
  /\ UNCHANGED <<disk, count, memory, request, acked, view>>

(* _recover_unlocked: a prepared journal is rolled back from its preimages. *)
BeginRestore(p) ==
  /\ pc[p] = "recover"
  /\ journal.state = "prepared"
  /\ todo' = [todo EXCEPT ![p] = Target]
  /\ Goto(p, "restore")
  /\ UNCHANGED <<disk, owner, count, pre, poisoned, request, acked, view>>

(* _restore: one target at a time, in the order of their names. *)
RestoreTarget(p, preimages) ==
  /\ \E t \in todo[p] :
       /\ \A u \in todo[p] : t <= u
       /\ file' = [file EXCEPT ![t] = preimages[t]]
       /\ todo' = [todo EXCEPT ![p] = @ \ {t}]
  /\ UNCHANGED <<journal, owner, pc, count, pre, poisoned, request, acked, view>>

RecoverTarget(p) == pc[p] = "restore" /\ RestoreTarget(p, journal.pre)

(* Mutant: coordinated() without recovery. *)
SkipRecovery(p) ==
  /\ pc[p] = "recover"
  /\ Goto(p, "run")
  /\ UNCHANGED <<disk, owner, count, memory, request, acked, view>>

(* Mutant: a prepared journal is removed like a committed one. *)
ForgetJournal(p) ==
  /\ pc[p] = "recover"
  /\ journal' = NoJournal
  /\ Goto(p, "run")
  /\ UNCHANGED <<file, owner, count, memory, request, acked, view>>

(* The journal is removed once every target is restored, or at once when it *)
(* is committed; without a journal there is nothing to do.                  *)
FinishRecovery(p) ==
  /\ \/ pc[p] = "recover" /\ journal.state # "prepared"
     \/ pc[p] = "restore" /\ todo[p] = {}
  /\ journal' = NoJournal
  /\ Goto(p, "run")
  /\ UNCHANGED <<file, owner, count, memory, request, acked, view>>

-----------------------------------------------------------------------------
(* transaction(): the journaled scope.                                     *)

(* Mutant: the journal is written before the snapshot is taken. *)
PrepareEmpty(p) ==
  /\ pc[p] = "run" /\ Kind(p) = "txn"
  /\ pre' = [pre EXCEPT ![p] = file]
  /\ journal' = [state |-> "prepared", pre |-> <<>>]
  /\ todo' = [todo EXCEPT ![p] = Writes(p)]
  /\ poisoned' = [poisoned EXCEPT ![p] = FALSE]
  /\ Goto(p, "body")
  /\ UNCHANGED <<file, owner, count, request, acked, view>>

(* The preimages of every target are made durable before the body runs. *)
Prepare(p) ==
  /\ pc[p] = "run" /\ Kind(p) = "txn"
  /\ pre' = [pre EXCEPT ![p] = file]
  /\ journal' = [state |-> "prepared", pre |-> file]
  /\ todo' = [todo EXCEPT ![p] = Writes(p)]
  /\ poisoned' = [poisoned EXCEPT ![p] = FALSE]
  /\ Goto(p, "body")
  /\ UNCHANGED <<file, owner, count, request, acked, view>>

(* LocalTransaction.write and append. *)
WriteTarget(p) ==
  /\ pc[p] = "body"
  /\ \E t \in todo[p] :
       /\ file' = [file EXCEPT ![t] = @ \cup {Cur(p)}]
       /\ todo' = [todo EXCEPT ![p] = @ \ {t}]
  /\ UNCHANGED <<journal, owner, pc, count, pre, poisoned, request, acked, view>>

(* A nested scope fails on one of its targets and the body swallows the    *)
(* exception: the outer transaction is poisoned and carries on.            *)
NestedFailure(p) ==
  /\ pc[p] = "body"
  /\ \E t \in todo[p] : todo' = [todo EXCEPT ![p] = @ \ {t}]
  /\ poisoned' = [poisoned EXCEPT ![p] = TRUE]
  /\ UNCHANGED <<disk, owner, pc, count, pre, request, acked, view>>

(* Mutant: a swallowed nested failure does not stop the commit. *)
CommitPoisoned(p) ==
  /\ pc[p] = "body" /\ todo[p] = {}
  /\ journal' = [state |-> "committed", pre |-> journal.pre]
  /\ Goto(p, "unlink")
  /\ UNCHANGED <<file, owner, count, memory, request, acked, view>>

(* The commit point: the journal is atomically replaced by its committed form. *)
CommitJournal(p) ==
  /\ pc[p] = "body" /\ todo[p] = {} /\ ~poisoned[p]
  /\ journal' = [state |-> "committed", pre |-> journal.pre]
  /\ Goto(p, "unlink")
  /\ UNCHANGED <<file, owner, count, memory, request, acked, view>>

UnlinkJournal(p) ==
  /\ pc[p] = "unlink"
  /\ journal' = NoJournal
  /\ Goto(p, "done")
  /\ UNCHANGED <<file, owner, count, memory, request, acked, view>>

(* except Exception (and BaseException with rollback_base_exceptions): the *)
(* in-memory preimages are restored, whatever the journal on disk says.    *)
StartRollback(p) == /\ todo' = [todo EXCEPT ![p] = Target]
                    /\ Goto(p, "rollback")
                    /\ UNCHANGED <<owner, count, pre, poisoned, request, acked, view>>

(* The body raises, a write fails or an append is torn: the exception      *)
(* arrives before the commit point.                                        *)
BodyFails(p) ==
  /\ pc[p] = "body"
  /\ \/ UNCHANGED file
     \/ \E t \in todo[p] : file' = [file EXCEPT ![t] = @ \cup {Torn}]
  /\ UNCHANGED journal
  /\ StartRollback(p)

(* A body that swallowed a nested failure ends: transaction() raises. *)
PoisonedFails(p) ==
  /\ pc[p] = "body" /\ todo[p] = {} /\ poisoned[p]
  /\ UNCHANGED disk
  /\ StartRollback(p)

(* An error after the commit point: the directory fsync of the journal's   *)
(* replacement fails, or its unlink fails before or after it took effect.  *)
PostCommitError(p) ==
  /\ "post_commit_error" \in Faults
  /\ \/ /\ pc[p] = "body" /\ todo[p] = {} /\ ~poisoned[p]
        /\ journal' = [state |-> "committed", pre |-> journal.pre]
     \/ pc[p] = "unlink" /\ journal' \in {journal, NoJournal}
  /\ UNCHANGED file
  /\ StartRollback(p)

RollbackTarget(p) == pc[p] = "rollback" /\ RestoreTarget(p, pre[p])

(* unlink(missing_ok=True), then the original exception leaves the scope. *)
FinishRollback(p) ==
  /\ pc[p] = "rollback" /\ todo[p] = {}
  /\ journal' = NoJournal
  /\ Leave(p)
  /\ UNCHANGED <<file, count, request, acked, view>>

-----------------------------------------------------------------------------
(* The operations that are not journaled.                                  *)

(* A store write inside coordinated(): re-read the file (a torn record     *)
(* makes the store raise), append one record.                              *)
CoordinatedAppend(p) ==
  /\ pc[p] = "run" /\ Kind(p) = "append"
  /\ \E t \in Writes(p) :
       /\ Torn \notin file[t]
       /\ file' = [file EXCEPT ![t] = @ \cup {Cur(p)}]
  /\ Goto(p, "done")
  /\ UNCHANGED <<journal, owner, count, memory, request, acked, view>>

(* snapshot(): every target under the complete lock set. *)
ReadSnapshot(p) ==
  /\ pc[p] = "run" /\ Kind(p) = "snapshot"
  /\ view' = [view EXCEPT ![p] = file]
  /\ Goto(p, "done")
  /\ UNCHANGED <<disk, owner, count, memory, request, acked>>

(* A store that is a transaction target but takes only its own lock and    *)
(* never looks at the journal.                                             *)
LockStore(p) ==
  /\ pc[p] = "storelock"
  /\ \E t \in Writes(p) : owner[t] = NoProc /\ owner' = [owner EXCEPT ![t] = p]
  /\ Goto(p, "put")
  /\ UNCHANGED <<disk, count, memory, request, acked, view>>

PutAlone(p) ==
  /\ pc[p] = "put"
  /\ \E t \in Writes(p) :
       /\ Torn \notin file[t]
       /\ file' = [file EXCEPT ![t] = @ \cup {Cur(p)}]
  /\ Goto(p, "done")
  /\ UNCHANGED <<journal, owner, count, memory, request, acked, view>>

(* The store finds a torn record when it re-reads its file, and raises. *)
StoreRefuses(p) ==
  /\ \/ pc[p] = "run" /\ Kind(p) = "append"
     \/ pc[p] = "put"
  /\ \E t \in Writes(p) : Torn \in file[t]
  /\ Leave(p)
  /\ UNCHANGED <<disk, count, request, acked, view>>

(* SecureFile.append stops part-way outside a journaled scope. *)
TornAppend(p) ==
  /\ "torn_append" \in Faults
  /\ \/ pc[p] = "run" /\ Kind(p) = "append"
     \/ pc[p] = "put"
  /\ \E t \in Writes(p) : file' = [file EXCEPT ![t] = @ \cup {Torn}]
  /\ Leave(p)
  /\ UNCHANGED <<journal, count, request, acked, view>>

-----------------------------------------------------------------------------
(* The operation returns normally. *)
Return(p) ==
  /\ pc[p] = "done"
  /\ acked' = IF Writes(p) = {} THEN acked ELSE acked \cup {Cur(p)}
  /\ Leave(p)
  /\ UNCHANGED <<disk, count, request, view>>

(* The scope ends with the disk as it stands: the process dies, a          *)
(* BaseException leaves a transaction without rollback_base_exceptions, or *)
(* an error interrupts recovery or rollback (TransactionRecoveryError).    *)
Abandon(p) ==
  /\ pc[p] # "idle"
  /\ Leave(p)
  /\ UNCHANGED <<disk, count, request, acked, view>>

(* What a process does when nothing goes wrong from here on. *)
Step(p) == \/ AcquireLock(p) \/ BeginRestore(p) \/ RecoverTarget(p) \/ FinishRecovery(p)
           \/ Prepare(p) \/ WriteTarget(p) \/ CommitJournal(p) \/ UnlinkJournal(p)
           \/ PoisonedFails(p) \/ RollbackTarget(p) \/ FinishRollback(p)
           \/ CoordinatedAppend(p) \/ ReadSnapshot(p)
           \/ LockStore(p) \/ PutAlone(p) \/ StoreRefuses(p) \/ Return(p)

Next == \E p \in Proc : \/ Begin(p) \/ Step(p)
                        \/ NestedFailure(p) \/ BodyFails(p) \/ PostCommitError(p)
                        \/ TornAppend(p) \/ Abandon(p)

(* A process inside an operation is scheduled until the operation ends, and *)
(* flock returns once the lock is free.                                     *)
Fairness == \A p \in Proc : WF_vars(Step(p))

Spec == Init /\ [][Next]_vars /\ Fairness

-----------------------------------------------------------------------------
(* Properties                                                              *)

PCs == {"idle", "locking", "recover", "restore", "run", "body", "unlink", "rollback",
        "done", "storelock", "put"}

TypeOK ==
  /\ file \in Content
  /\ journal \in [state : {"none", "prepared", "committed"}, pre : Content]
  /\ owner \in [Lock -> Proc \cup {NoProc}]
  /\ pc \in [Proc -> PCs]
  /\ count \in [Proc -> 0 .. MaxOps]
  /\ todo \in [Proc -> SUBSET Target]
  /\ pre \in [Proc -> Content]
  /\ poisoned \in [Proc -> BOOLEAN]
  /\ request \in [Op -> [kind : Kinds \cup {"none"}, writes : SUBSET Target]]
  /\ acked \in SUBSET Op
  /\ view \in [Proc -> Content]

(* The state the files stand for: what recovery would leave behind. *)
Logical == IF journal.state = "prepared" THEN journal.pre ELSE file

(* Appends are atomic: no crash leaves part of a record behind recovery. *)
NoTornRecord == \A t \in Target : Torn \notin Logical[t]

(* Crash consistency: at every instant, and so after a crash at any        *)
(* instant, the state recovery leaves holds all of an operation's writes   *)
(* or none of them, and no torn record.                                    *)
AllOrNothing ==
  /\ NoTornRecord
  /\ \A o \in Op : (\E t \in Target : o \in Logical[t])
                     => \A t \in request[o].writes : o \in Logical[t]

(* What transaction() or a coordinated store acknowledged stays on disk    *)
(* and in every preimage a recovery could restore, whatever fails later.   *)
AckedDurable ==
  \A o \in acked : request[o].kind # "put" =>
    \A t \in request[o].writes : o \in file[t] /\ o \in Logical[t]

(* The approval ledger is append-only: an acknowledged approval stays. *)
ApprovalsKept ==
  \A o \in acked : request[o].kind = "put" => \A t \in request[o].writes : o \in file[t]

(* Every operation that starts taking locks ends: the global lock order    *)
(* admits no deadlock, and recovery, rollback and the body terminate.      *)
EveryOperationEnds == \A p \in Proc : pc[p] # "idle" ~> pc[p] = "idle"

(* The journaled files implement one atomic store. *)
Atomic == INSTANCE AtomicStore WITH
            store <- Logical,
            request <- [o \in Op |-> request[o].writes]

ImplementsAtomicStore == Atomic!Spec
=============================================================================
