----------------------------- MODULE StrictWrite -----------------------------
(***************************************************************************)
(* storage/secure.py: SecureFile.atomic_write(reject_target_races=True),   *)
(* with which the command line replaces the project's configuration, the   *)
(* mutation policy, the control plane's locator and the drift report.      *)
(*                                                                         *)
(* The write prepares its content in a temporary file, exchanges it with   *)
(* the target, proves that it displaced the file it had seen, and only     *)
(* then empties that one.  Every failure before that point has to restore  *)
(* the exact preimage, or be reported as indeterminate.                    *)
(*                                                                         *)
(* A directory entry names an inode or nothing.  A writer's own inode (the *)
(* "report" of the code) is the writer itself.  One step is one directory  *)
(* operation or one authenticated look at the directory; private names are *)
(* random, so that others only change the target and make links to it.    *)
(***************************************************************************)
EXTENDS Integers, FiniteSets

CONSTANTS Writer,     \* concurrent strict writes of one target
          File,       \* inodes of files that others put in place
          None,
          MaxFaults,  \* bound: cancellations and I/O errors
          MaxEdits    \* bound: changes of the directory by others

ASSUME StrictWriteAssumption ==
  /\ MaxFaults \in Nat /\ MaxEdits \in Nat
  /\ Writer \cap File = {} /\ None \notin Writer \cup File

VARIABLES
  dir,     \* [Name -> inode or None]
  data,    \* [Inode -> "none", "partial", "full" or "empty"]
  job,     \* [Writer -> progress of its write]
  raced,   \* writers whose target changed under them (history)
  broken,  \* writers that met an I/O error (history)
  faults, edits

vars == <<dir, data, job, raced, broken, faults, edits>>

Inode == Writer \cup File
Target == <<None, "target">>
Backup == <<None, "backup">>         \* a hard link that others made
Tmp(w) == <<w, "tmp">>
Aside(w) == <<w, "original">>        \* .rollback name of the displaced original
Rolled(w) == <<w, "rolled">>         \* .rollback name of a withdrawn target
Zero(w) == <<w, "zero">>             \* .rollback name of the emptied temporary
Private(w) == {Tmp(w), Aside(w), Rolled(w), Zero(w)}
Name == {Target, Backup} \cup UNION {Private(w) : w \in Writer}

Links(i) == Cardinality({n \in Name : dir[n] = i})
(* _entry_is_safe *)
Safe(n, i) == dir[n] = i /\ Links(i) = 1
(* _rename_exclusive and _exchange_names *)
Moved(from, to) == [dir EXCEPT ![to] = dir[from], ![from] = None]
Exchanged(m, n) == [dir EXCEPT ![m] = dir[n], ![n] = dir[m]]

(* _StrictWriteState, with the local variables of the write. *)
NewJob == [pc |-> "idle", orig |-> None, size |-> "none", ok |-> TRUE, touched |-> FALSE,
           scrubbed |-> FALSE, indeterminate |-> FALSE, result |-> "none"]

Init ==
  \E first \in File \cup {None} :
    /\ dir = [n \in Name |-> IF n = Target THEN first ELSE None]
    /\ data = [i \in Inode |-> IF i = first THEN "full" ELSE "none"]
    /\ job = [w \in Writer |-> NewJob]
    /\ raced = {} /\ broken = {} /\ faults = 0 /\ edits = 0

Goto(w, pc) == job' = [job EXCEPT ![w].pc = pc]
IfThenGoto(w, cond, pc, other) == Goto(w, IF cond THEN pc ELSE other)
At(w, pc) == job[w].pc = pc
Orig(w) == job[w].orig

(***************************************************************************)
(* _atomic_write_strict up to the installation.                            *)
(***************************************************************************)
Create(w) ==
  /\ At(w, "idle")
  /\ dir' = [dir EXCEPT ![Tmp(w)] = w] /\ data' = [data EXCEPT ![w] = "partial"]
  /\ Goto(w, "writing")

Prepare(w) ==
  /\ At(w, "writing")
  /\ data' = [data EXCEPT ![w] = "full"] /\ Goto(w, "prepared") /\ UNCHANGED dir

(* _assert_safe_existing_target: a linked target is refused. *)
StatTarget(w) ==
  LET i == dir[Target] IN
  /\ At(w, "prepared")
  /\ job' = [job EXCEPT ![w].orig = i,
                        ![w].size = IF i = None THEN "none" ELSE data[i],
                        ![w].pc = IF i = None THEN "install"
                                  ELSE IF Links(i) = 1 THEN "open" ELSE "outer"]
  /\ UNCHANGED <<dir, data>>

(* The descriptor of the file to displace must be the one just seen. *)
OpenTarget(w) ==
  /\ At(w, "open")
  /\ IfThenGoto(w, Safe(Target, Orig(w)), "install", "outer")
  /\ UNCHANGED <<dir, data>>

(***************************************************************************)
(* _install_verified_temporary.                                            *)
(***************************************************************************)
InstallNew(w) ==
  /\ At(w, "install") /\ Orig(w) = None
  /\ IF dir[Target] = None
     THEN dir' = Moved(Tmp(w), Target) /\ Goto(w, "new-installed")
     ELSE UNCHANGED dir /\ Goto(w, "rollback")
  /\ UNCHANGED data

CheckNew(w) ==
  /\ At(w, "new-installed")
  /\ IfThenGoto(w, Safe(Target, w), "new-durable", "rollback")
  /\ UNCHANGED <<dir, data>>

Finish(w, result) == job' = [job EXCEPT ![w].pc = "close", ![w].result = result]

(* _terminal_report_snapshot *)
ReportSnapshot(w) == Safe(Target, w) /\ data[w] = "full"

CommitNew(w) ==
  /\ At(w, "new-durable")
  /\ IF ReportSnapshot(w) THEN Finish(w, "committed") ELSE Goto(w, "rollback")
  /\ UNCHANGED <<dir, data>>

Exchange(w) ==
  /\ At(w, "install") /\ Orig(w) # None
  /\ IF dir[Target] # None
     THEN dir' = Exchanged(Tmp(w), Target) /\ Goto(w, "existing-exchanged")
     ELSE UNCHANGED dir /\ Goto(w, "rollback")
  /\ UNCHANGED data

(* The write displaced what it had seen, and nothing else. *)
Displaced(w) == Safe(Target, w) /\ Safe(Tmp(w), Orig(w))

CheckExchanged(w) ==
  /\ At(w, "existing-exchanged")
  /\ IfThenGoto(w, Displaced(w), "existing-durable", "rollback")
  /\ UNCHANGED <<dir, data>>

SetAside(w) ==
  /\ At(w, "existing-durable")
  /\ IF Displaced(w) THEN dir' = Moved(Tmp(w), Aside(w)) /\ Goto(w, "original-quarantined")
     ELSE UNCHANGED dir /\ Goto(w, "rollback")
  /\ UNCHANGED data

TouchUnrecorded(w) ==    \* mutant: the touched original is not remembered
  /\ At(w, "original-quarantined")
  /\ IfThenGoto(w, Safe(Aside(w), Orig(w)), "touched", "rollback")
  /\ UNCHANGED <<dir, data>>

Touch(w) ==
  /\ At(w, "original-quarantined")
  /\ IF Safe(Aside(w), Orig(w))
     THEN job' = [job EXCEPT ![w].pc = "touched", ![w].touched = TRUE]
     ELSE Goto(w, "rollback")
  /\ UNCHANGED <<dir, data>>

(* _scrub_descriptor on the displaced inode, which must have a single link. *)
ScrubOriginal(w) ==
  /\ At(w, "touched")
  /\ IF Links(Orig(w)) = 1
     THEN /\ data' = [data EXCEPT ![Orig(w)] = "empty"]
          /\ job' = [job EXCEPT ![w].pc = "original-scrubbed", ![w].scrubbed = TRUE]
     ELSE Goto(w, "rollback") /\ UNCHANGED data
  /\ UNCHANGED dir

(* _terminal_existing_snapshot *)
ExistingSnapshot(w) == Safe(Aside(w), Orig(w)) /\ data[Orig(w)] = "empty" /\ ReportSnapshot(w)

CommitExisting(w) ==
  /\ At(w, "original-scrubbed")
  /\ IF ExistingSnapshot(w) THEN Finish(w, "committed") ELSE Goto(w, "rollback")
  /\ UNCHANGED <<dir, data>>

(***************************************************************************)
(* The failure half of _install_verified_temporary.  A new target is       *)
(* withdrawn; an original that was emptied can only be committed; any      *)
(* other original is put back.                                             *)
(***************************************************************************)
Emptied(w) == data' = [data EXCEPT ![w] = "empty"]

(* A new target: _quarantine_owned_entry empties the report first. *)
Withdraw(w) ==
  /\ At(w, "rollback") /\ Orig(w) = None
  /\ Emptied(w) /\ Goto(w, "withdraw") /\ UNCHANGED dir

WithdrawStat(w) ==
  /\ At(w, "withdraw")
  /\ job' = [job EXCEPT ![w].ok = dir[Target] \in {None, w},
                        ![w].pc = IF dir[Target] = w THEN "withdraw-move" ELSE "retire"]
  /\ UNCHANGED <<dir, data>>

WithdrawMove(w) ==
  /\ At(w, "withdraw-move")
  /\ IF dir[Target] = None
     THEN job' = [job EXCEPT ![w].ok = FALSE, ![w].pc = "retire"] /\ UNCHANGED dir
     ELSE dir' = Moved(Target, Rolled(w)) /\ Goto(w, "withdraw-check")
  /\ UNCHANGED data

(* A file of somebody else that was moved by mistake is put back. *)
WithdrawCheck(w) ==
  /\ At(w, "withdraw-check")
  /\ job' = [job EXCEPT ![w].ok = Safe(Rolled(w), w) /\ dir[Target] = None,
                        ![w].pc = "retire"]
  /\ dir' = IF dir[Rolled(w)] # w /\ dir[Target] = None THEN Moved(Rolled(w), Target) ELSE dir
  /\ UNCHANGED data

(* An original that was touched: the report is published or nothing is. *)
SettleTouched(w) ==
  /\ At(w, "rollback") /\ job[w].touched
  /\ IF job[w].scrubbed /\ ExistingSnapshot(w)
     THEN Finish(w, "committed") ELSE Goto(w, "giveup")
  /\ UNCHANGED <<dir, data>>

(* _restore_existing_target: the original goes back to the temporary name, *)
(* and from there to the target if that still is the report.               *)
Restored(d, w) == d[Tmp(w)] = w /\ d[Target] = Orig(w)
                  /\ Cardinality({n \in Name : d[n] = Orig(w)}) = 1

RestoreFromTmp(w) ==    \* mutant: an original that was set aside is not looked for
  /\ At(w, "rollback") /\ Orig(w) # None /\ ~job[w].touched
  /\ Goto(w, IF Restored(dir, w) THEN "retire"
             ELSE IF dir[Target] = w /\ dir[Tmp(w)] = Orig(w) THEN "restore" ELSE "giveup")
  /\ UNCHANGED <<dir, data>>

Restore(w) ==
  LET d == IF dir[Aside(w)] = Orig(w) THEN Moved(Aside(w), Tmp(w)) ELSE dir IN
  /\ At(w, "rollback") /\ Orig(w) # None /\ ~job[w].touched
  /\ dir' = d
  /\ Goto(w, IF Restored(d, w) THEN "retire"
             ELSE IF d[Target] = w /\ d[Tmp(w)] = Orig(w) THEN "restore" ELSE "giveup")
  /\ UNCHANGED data

RestoreExchange(w) ==
  /\ At(w, "restore")
  /\ IF dir[Target] = None THEN UNCHANGED dir /\ Goto(w, "giveup")
     ELSE LET d == Exchanged(Tmp(w), Target) IN
          dir' = d /\ IfThenGoto(w, Restored(d, w), "retire", "giveup")
  /\ UNCHANGED data

(* _quarantine_owned_entry on the temporary name, which nobody else uses. *)
Retired(w) == IF dir[Tmp(w)] = w THEN Moved(Tmp(w), Zero(w)) ELSE dir
Retirable(w) == dir[Tmp(w)] = None \/ Safe(Tmp(w), w)

Retire(w) ==
  /\ At(w, "retire")
  /\ Emptied(w) /\ dir' = Retired(w)
  /\ job' = [job EXCEPT ![w].ok = @ /\ Retirable(w), ![w].pc = "verify"]

(* _terminal_rollback_snapshot *)
RollbackSnapshot(w) ==
  /\ data[w] = "empty" /\ Links(w) <= 1
  /\ IF Orig(w) = None THEN dir[Target] = None
     ELSE Safe(Target, Orig(w)) /\ data[Orig(w)] = job[w].size

Verify(w) ==
  /\ At(w, "verify")
  /\ IF job[w].ok /\ RollbackSnapshot(w) THEN Finish(w, "failed") ELSE Goto(w, "giveup")
  /\ UNCHANGED <<dir, data>>

GiveUp(w) ==
  /\ At(w, "giveup") /\ Emptied(w)
  /\ job' = [job EXCEPT ![w].pc = "outer", ![w].indeterminate = TRUE]
  /\ UNCHANGED dir

(* The failure half of _atomic_write_strict: the temporary file is retired *)
(* whatever happened; an indeterminate installation stays one.             *)
OutcomeOfCleanup(w) ==   \* mutant: a successful cleanup forgets the installation's doubt
  IF ~Retirable(w) THEN "indeterminate" ELSE "failed"

Outcome(w) == IF job[w].indeterminate \/ ~Retirable(w) THEN "indeterminate" ELSE "failed"

Outer(w) ==
  /\ At(w, "outer")
  /\ Emptied(w) /\ dir' = Retired(w) /\ Finish(w, Outcome(w))

Close(w) ==
  /\ At(w, "close") /\ Goto(w, job[w].result) /\ UNCHANGED <<dir, data>>

(***************************************************************************)
(* Faults.  A cancellation strikes at a named stage of the write           *)
(* (_strict_fault) or before its installation; an I/O error may also       *)
(* strike in the rollback, between the truncation and the fsync of a       *)
(* scrub, and at the close of a descriptor.                                *)
(***************************************************************************)
Preparing == {"writing", "prepared", "open"}
Stages == {"install", "new-installed", "new-durable", "existing-exchanged",
           "existing-durable", "original-quarantined", "original-scrubbed"}
RollingBack == {"withdraw", "withdraw-move", "withdraw-check", "restore", "retire", "verify"}

Cancel(w) ==
  /\ \/ job[w].pc \in Preparing /\ Goto(w, "outer")
     \/ job[w].pc \in Stages /\ Goto(w, "rollback")
  /\ UNCHANGED <<dir, data, broken>>

ScrubBreaks(w) ==
  /\ At(w, "touched") /\ Goto(w, "rollback")
  /\ \/ UNCHANGED data
     \/ Links(Orig(w)) = 1 /\ data' = [data EXCEPT ![Orig(w)] = "empty"]
  /\ UNCHANGED dir

RollbackBreaks(w) ==
  /\ job[w].pc \in RollingBack /\ Goto(w, "giveup") /\ UNCHANGED <<dir, data>>

CloseBreaks(w) ==
  /\ At(w, "close") /\ Goto(w, "indeterminate") /\ UNCHANGED <<dir, data>>

(***************************************************************************)
(* Other programs, and plain atomic writes of the same file: they replace  *)
(* the target by a rename, remove it, or keep a hard link to it.           *)
(***************************************************************************)
Replace(f) ==
  /\ data[f] = "none"
  /\ dir' = [dir EXCEPT ![Target] = f] /\ data' = [data EXCEPT ![f] = "full"]

Remove == dir[Target] # None /\ dir' = [dir EXCEPT ![Target] = None] /\ UNCHANGED data

Link == /\ dir[Target] # None /\ dir[Backup] = None
        /\ dir' = [dir EXCEPT ![Backup] = dir[Target]] /\ UNCHANGED data

(***************************************************************************)
(* The specification.                                                      *)
(***************************************************************************)
Ended == {"committed", "failed", "indeterminate"}
Exposed(v) == job[v].pc \notin {"idle", "writing", "prepared"} \cup Ended
(* A write is raced when others change a shared name, or empty the file    *)
(* it means to displace.                                                   *)
Shared == <<dir[Target], dir[Backup]>>
Races(actors) ==
  raced' = raced \cup {v \in Writer \ actors :
                         /\ Exposed(v)
                         /\ \/ Shared' # Shared
                            \/ Orig(v) # None /\ data'[Orig(v)] # data[Orig(v)]}

Step(w) ==
  \/ Create(w) \/ Prepare(w) \/ StatTarget(w) \/ OpenTarget(w)
  \/ InstallNew(w) \/ CheckNew(w) \/ CommitNew(w)
  \/ Exchange(w) \/ CheckExchanged(w) \/ SetAside(w) \/ Touch(w) \/ ScrubOriginal(w)
  \/ CommitExisting(w)
  \/ Withdraw(w) \/ WithdrawStat(w) \/ WithdrawMove(w) \/ WithdrawCheck(w)
  \/ SettleTouched(w) \/ Restore(w) \/ RestoreExchange(w)
  \/ Retire(w) \/ Verify(w) \/ GiveUp(w) \/ Outer(w) \/ Close(w)

IoError(w) ==
  /\ ScrubBreaks(w) \/ RollbackBreaks(w) \/ CloseBreaks(w)
  /\ broken' = broken \cup {w}

Fault(w) == faults < MaxFaults /\ faults' = faults + 1 /\ (Cancel(w) \/ IoError(w))

Edit == edits < MaxEdits /\ edits' = edits + 1 /\ ((\E f \in File : Replace(f)) \/ Remove \/ Link)

Next ==
  \/ \E w \in Writer : Step(w) /\ Races({w}) /\ UNCHANGED <<broken, faults, edits>>
  \/ \E w \in Writer : Fault(w) /\ UNCHANGED <<raced, edits>>
  \/ Edit /\ Races({}) /\ UNCHANGED <<job, broken, faults>>

Spec == Init /\ [][Next]_vars

(***************************************************************************)
(* Properties.                                                             *)
(***************************************************************************)
Doubtful(w) == job[w].indeterminate \/ job[w].pc = "giveup" \/ ~job[w].ok

(* Whatever the writers, other programs and faults do, and wherever a      *)
(* writer dies, the target is a complete file (secure.py:1044), unless a   *)
(* write gave up and reports its outcome as indeterminate, or the target   *)
(* did not exist before and its write is withdrawing it.                   *)
TargetComplete ==
  LET i == dir[Target] IN
  i # None /\ data[i] # "full" =>
    \/ \E w \in Writer : Doubtful(w)
    \/ i \in Writer /\ job[i].orig = None /\ job[i].pc \in RollingBack

(* A write that reports a plain failure is undone (secure.py:1225): its    *)
(* private names hold nobody else's file, and the file it meant to replace *)
(* was not emptied, unless another write did that.                         *)
FailedClean ==
  \A w \in Writer : job[w].pc = "failed" =>
    /\ \A n \in Private(w) : dir[n] \in {None, w}
    /\ job[w].orig \in File /\ data[job[w].orig] # "full" =>
         \E v \in Writer \ {w} : job[v].touched /\ job[v].orig = job[w].orig

(* Cancelling a write at any stage never makes it indeterminate            *)
(* (_install_verified_temporary: "install a prepared report or prove       *)
(* rollback under named phase faults"): that takes an I/O error or         *)
(* somebody else's change of the target.                                   *)
CancelledClean ==
  \A w \in Writer : job[w].indeterminate \/ job[w].pc = "indeterminate" =>
    w \in raced \cup broken

=============================================================================
