--------------------------- MODULE DevServer_proofs ---------------------------
(***************************************************************************)
(* Proofs about DevServer, for any number of commands, pids and ports, and *)
(* any deadline.                                                           *)
(***************************************************************************)
EXTENDS DevServer, TLAPS

(* The control points at which a command believes a locator. *)
Probing == {"probe", "ask", "status", "report"}

(* The control points at which a command owns the repository, and all. *)
Holding == {"stale", "configure", "load", "start", "listening", "serving", "stopping", "stopped"}
Pc == Holding \cup Probing \cup {"new", "look", "lease", "wait", "dying", "snapshot", "add", "done"}

Process == [pc : Pc, mode : {"serve", "prd", "status", "sources", None},
            pid : Pid \cup {None}, birth : Birth \cup {None}, port : Port \cup {None},
            seen : Metadata \cup {None, Garbage}, config : Configuration,
            tries : 0..MaxTries, own : Metadata \cup {None}]

Told == Command \cup {"nothing", "configured", "unchanged", "not running"}

TypeOK ==
  /\ lease \in Command \cup {None}
  /\ locator \in Metadata \cup {None, Garbage}
  /\ config \in Configuration
  /\ proc \in [Command -> Process]
  /\ told \in [Command -> Told]

(* What a command has at each of its steps: in particular the lease from   *)
(* the recheck to the removal of its locator, and its own locator in the   *)
(* cache while it serves.                                                  *)
Known(c) ==
  /\ Running(c) => proc[c].pid \in Pid /\ proc[c].birth \in Birth
  /\ proc[c].pc \in Probing => proc[c].seen \in Metadata
  /\ proc[c].pc \in {"listening", "serving"} => proc[c].port \in Port
  /\ proc[c].pc \in Holding => lease = c
  /\ proc[c].pc = "serving" => locator = proc[c].own /\ proc[c].own \in Metadata

Inv == TypeOK /\ \A c \in Command : Known(c)

-----------------------------------------------------------------------------
LEMMA NotRunYetType ==
  /\ NotRunYet \in Process /\ NotRunYet.pc = "new"
  /\ [NotRunYet EXCEPT !.pc = "done"] \in Process /\ [NotRunYet EXCEPT !.pc = "done"].pc = "done"
BY DevServerAssumption DEF NotRunYet, Process, Pc, Holding, Probing, NoRoles, Configuration

LEMMA InvInit == Init => Inv
<1> SUFFICES ASSUME Init PROVE Inv
  OBVIOUS
<1>1. proc \in [Command -> Process] /\ \A c \in Command : proc[c].pc = "new"
  BY NotRunYetType DEF Init
<1>2. TypeOK
  BY <1>1, RolesAssumption DEF Init, TypeOK, Told
<1>3. \A c \in Command : Known(c)
  BY <1>1 DEF Known, Running, Holding, Probing
<1> QED BY <1>2, <1>3 DEF Inv

(* A step of one command: the others keep what they have, when it does not *)
(* take the lease of another and writes the locator only with the lease.   *)
LEMMA OneProcess ==
  ASSUME Inv, NEW c \in Command, NEW r \in Process,
         proc' = [proc EXCEPT ![c] = r],
         r.pc \notin {"new", "done"} => r.pid \in Pid /\ r.birth \in Birth,
         r.pc \in Probing => r.seen \in Metadata,
         r.pc \in {"listening", "serving"} => r.port \in Port,
         r.pc \in Holding => lease' = c,
         r.pc = "serving" => locator' = r.own /\ r.own \in Metadata,
         lease' = lease \/ lease = None \/ lease = c,
         locator' = locator \/ lease = c
  PROVE  proc' \in [Command -> Process] /\ \A d \in Command : Known(d)'
<1>1. proc \in [Command -> Process] /\ \A d \in Command : Known(d)
  BY DEF Inv, TypeOK
<1>2. proc' \in [Command -> Process] /\ proc'[c] = r /\ \A d \in Command \ {c} : proc'[d] = proc[d]
  BY <1>1
<1>3. Known(c)'
  BY <1>2 DEF Known, Running
<1>4. ASSUME NEW d \in Command \ {c} PROVE Known(d)'
  <2>1. proc'[d] = proc[d] /\ Known(d)
    BY <1>1, <1>2
  <2>2. proc[d].pc \in Holding => lease = d /\ lease' = lease /\ locator' = locator
    BY <2>1, DevServerAssumption DEF Known
  <2> QED BY <2>1, <2>2 DEF Known, Running, Holding
<1> QED BY <1>2, <1>3, <1>4

(* The end of a process. *)
LEMMA OverKnown ==
  ASSUME Inv, NEW c \in Command, Over(c), locator' = locator \/ lease = c
  PROVE  /\ proc' \in [Command -> Process] /\ \A d \in Command : Known(d)'
         /\ lease' \in Command \cup {None}
<1> DEFINE r == [NotRunYet EXCEPT !.pc = "done"]
<1>1. r \in Process /\ r.pc = "done"
  BY NotRunYetType
<1>2. proc' = [proc EXCEPT ![c] = r] /\ lease' = IF lease = c THEN None ELSE lease
  BY DEF Over
<1>3. lease' \in Command \cup {None} /\ (lease' = lease \/ lease = c)
  BY <1>2 DEF Inv, TypeOK
<1>4. r.pc \notin Holding \cup Probing \cup {"listening", "serving"}
  BY <1>1 DEF Holding, Probing
<1> HIDE DEF r
<1> QED BY <1>1, <1>2, <1>3, <1>4, OneProcess DEF Probing

LEMMA OverInv ==
  ASSUME Inv, NEW c \in Command, Over(c), locator' = locator \/ lease = c,
         locator' \in Metadata \cup {None, Garbage}, config' \in Configuration,
         told' \in [Command -> Told]
  PROVE  Inv'
BY OverKnown DEF Inv, TypeOK

(* A step of a running process that only goes on, keeping what it has.     *)
LEMMA GoesOn ==
  ASSUME Inv, NEW c \in Command, Running(c), NEW pc \in Pc,
         pc \notin {"new", "done", "serving"},
         Goto(c, pc),
         pc \in Probing => proc[c].seen \in Metadata,
         pc = "listening" => proc[c].port \in Port,
         pc \in Holding => lease' = c,
         lease' \in Command \cup {None}, lease' = lease \/ lease = None \/ lease = c,
         locator' \in Metadata \cup {None, Garbage}, locator' = locator \/ lease = c,
         UNCHANGED <<config, told>>
  PROVE  Inv'
<1> DEFINE r == [proc[c] EXCEPT !.pc = pc]
<1>1. proc[c] \in Process /\ Known(c)
  BY DEF Inv, TypeOK
<1>2. /\ r \in Process /\ r.pc = pc /\ r.pid = proc[c].pid /\ r.birth = proc[c].birth
      /\ r.seen = proc[c].seen /\ r.port = proc[c].port
  BY <1>1 DEF Process
<1>3. proc' = [proc EXCEPT ![c] = r]
  BY DEF Goto
<1>4. r.pid \in Pid /\ r.birth \in Birth
  BY <1>1, <1>2 DEF Known
<1> HIDE DEF r
<1>5. proc' \in [Command -> Process] /\ \A d \in Command : Known(d)'
  BY <1>2, <1>3, <1>4, OneProcess DEF Probing
<1> QED BY <1>5 DEF Inv, TypeOK

(* The same, with what was read forgotten. *)
LEMMA Forgets ==
  ASSUME Inv, NEW c \in Command, Running(c), NEW pc \in {"lease", "start"},
         Forgetting(c, pc), pc = "start" => lease = c,
         UNCHANGED <<lease, locator, config, told>>
  PROVE  Inv'
<1> DEFINE r == [proc[c] EXCEPT !.pc = pc, !.seen = None, !.config = NoRoles]
<1>1. proc[c] \in Process /\ Known(c)
  BY DEF Inv, TypeOK
<1>2. r \in Process /\ r.pc = pc /\ r.pid = proc[c].pid /\ r.birth = proc[c].birth
  <2>1. pc \in Pc
    BY DEF Pc, Holding, Probing
  <2>2. NoRoles \in Configuration
    BY DEF NoRoles, Configuration
  <2> QED BY <1>1, <2>1, <2>2 DEF Process
<1>3. proc' = [proc EXCEPT ![c] = r]
  BY DEF Forgetting
<1>4. r.pid \in Pid /\ r.birth \in Birth
  BY <1>1, <1>2 DEF Known
<1>5. r.pc \in Holding => lease' = c
  BY <1>2 DEF Holding, Probing
<1> HIDE DEF r
<1>6. proc' \in [Command -> Process] /\ \A d \in Command : Known(d)'
  BY <1>2, <1>3, <1>4, <1>5, OneProcess DEF Probing
<1> QED BY <1>6 DEF Inv, TypeOK

LEMMA UnprovedInv ==
  ASSUME Inv, NEW c \in Command, proc[c].pc \in Probing, Unproved(c),
         UNCHANGED <<lease, locator, config, told>>
  PROVE  Inv'
<1>1. Running(c)
  BY DEF Running, Probing
<1>2. CASE lease = c
  <2>1. Goto(c, "stale")
    BY <1>2 DEF Unproved
  <2> QED BY <1>1, <1>2, <2>1, GoesOn DEF Inv, TypeOK, Pc, Holding, Probing
<1>3. CASE lease # c
  <2>1. Forgetting(c, "lease")
    BY <1>3 DEF Unproved
  <2> QED BY <1>1, <2>1, Forgets
<1> QED BY <1>2, <1>3

-----------------------------------------------------------------------------
(* One lemma for each step of a command. *)
LEMMA RunInv == ASSUME Inv, NEW c \in Command, NEW mode \in Mode[c], Run(c, mode) PROVE Inv'
<1>1. PICK pid \in Pid, birth \in Birth :
        proc' = [proc EXCEPT ![c] = [NotRunYet EXCEPT !.mode = mode, !.pid = pid, !.birth = birth,
                   !.pc = IF mode = "sources" THEN "snapshot" ELSE "look"]]
  BY DEF Run
<1> DEFINE r == [NotRunYet EXCEPT !.mode = mode, !.pid = pid, !.birth = birth,
                   !.pc = IF mode = "sources" THEN "snapshot" ELSE "look"]
<1>2. mode \in {"serve", "prd", "status", "sources"}
  BY DevServerAssumption
<1>3. r \in Process /\ r.pid = pid /\ r.birth = birth /\ r.pc \in {"snapshot", "look"}
  <2>1. 0 \in 0..MaxTries
    BY DevServerAssumption
  <2>2. (IF mode = "sources" THEN "snapshot" ELSE "look") \in Pc
    BY DEF Pc, Probing
  <2>3. NoRoles \in Configuration
    BY DEF NoRoles, Configuration
  <2> QED BY <1>2, <2>1, <2>2, <2>3 DEF Process, NotRunYet
<1>4. proc' = [proc EXCEPT ![c] = r]
  BY <1>1
<1> HIDE DEF r
<1>5. UNCHANGED <<lease, locator, config, told>>
  BY DEF Run
<1>6. proc' \in [Command -> Process] /\ \A d \in Command : Known(d)'
  BY <1>3, <1>4, <1>5, OneProcess DEF Holding, Probing
<1> QED BY <1>5, <1>6 DEF Inv, TypeOK

LEMMA LookInv == ASSUME Inv, NEW c \in Command, Look(c) PROVE Inv'
<1>1. proc[c] \in Process /\ Known(c) /\ proc[c].pc = "look" /\ Running(c)
  BY DEF Inv, TypeOK, Look, Running
<1>2. CASE locator \in {None, Garbage} /\ lease # c
  <2>1. Goto(c, "lease") /\ UNCHANGED <<lease, locator, config, told>>
    BY <1>2 DEF Look
  <2> QED BY <1>1, <2>1, GoesOn DEF Inv, TypeOK, Pc, Holding, Probing
<1>3. CASE ~(locator \in {None, Garbage} /\ lease # c)
  <2> DEFINE pc == IF locator \in {None, Garbage} THEN "stale" ELSE "probe"
             r == [proc[c] EXCEPT !.seen = locator, !.config = config, !.pc = pc]
  <2>1. proc' = [proc EXCEPT ![c] = r] /\ UNCHANGED <<lease, locator, config, told>>
    BY <1>3 DEF Look
  <2>2. /\ r \in Process /\ r.pid = proc[c].pid /\ r.birth = proc[c].birth /\ r.seen = locator
        /\ r.pc = pc
    <3>1. pc \in Pc
      BY DEF Pc, Holding, Probing
    <3>2. locator \in Metadata \cup {None, Garbage} /\ config \in Configuration
      BY DEF Inv, TypeOK
    <3> HIDE DEF pc
    <3> QED BY <1>1, <3>1, <3>2 DEF Process
  <2>3. r.pid \in Pid /\ r.birth \in Birth
    BY <1>1, <2>2 DEF Known
  <2>4. r.pc \in Probing => r.seen \in Metadata
    BY <2>2 DEF Inv, TypeOK, Probing
  <2>5. r.pc \in Holding => lease' = c
    BY <1>3, <2>1, <2>2 DEF Holding, Probing
  <2>6. r.pc \notin {"listening", "serving"}
    BY <2>2
  <2> HIDE DEF r
  <2>7. proc' \in [Command -> Process] /\ \A d \in Command : Known(d)'
    BY <2>1, <2>2, <2>3, <2>4, <2>5, <2>6, OneProcess DEF Probing
  <2> QED BY <2>1, <2>7 DEF Inv, TypeOK
<1> QED BY <1>2, <1>3

LEMMA ProbeInv ==
  ASSUME Inv, NEW c \in Command,
         ProbeProcess(c) \/ ProbeInstance(c) \/ ProbeStatus(c) \/ ProbeTimesOut(c) \/ ReportServer(c)
  PROVE  Inv'
<1>1. proc[c] \in Process /\ Known(c) /\ proc[c].pc \in Probing /\ Running(c)
  BY DEF Inv, TypeOK, ProbeProcess, ProbeInstance, ProbeStatus, ProbeTimesOut, ReportServer,
     Running, Probing
<1>2. proc[c].seen \in Metadata /\ proc[c].seen.instance \in Command
  BY <1>1 DEF Known, Metadata
<1>3. CASE Unproved(c) /\ UNCHANGED <<lease, locator, config, told>>
  BY <1>1, <1>3, UnprovedInv
<1>4. ASSUME NEW pc \in {"ask", "status", "report"}, Goto(c, pc),
             UNCHANGED <<lease, locator, config, told>>
      PROVE  Inv'
  <2>1. pc \in Probing /\ pc \in Pc /\ pc \notin Holding \cup {"new", "done"}
    BY DEF Pc, Holding, Probing
  <2>2. pc \notin {"new", "done", "serving"} /\ pc # "listening"
    BY <2>1 DEF Holding
  <2> QED BY <1>1, <1>2, <1>4, <2>1, <2>2, GoesOn DEF Inv, TypeOK
<1>5. CASE ReportServer(c)
  <2>1. Over(c) /\ told' = [told EXCEPT ![c] = proc[c].seen.instance] /\ UNCHANGED <<locator, config>>
    BY <1>5 DEF ReportServer, Report
  <2>2. told' \in [Command -> Told]
    BY <1>2, <2>1 DEF Inv, TypeOK, Told
  <2> QED BY <2>1, <2>2, OverInv DEF Inv, TypeOK
<1> QED BY <1>3, <1>4, <1>5 DEF ProbeProcess, ProbeInstance, ProbeStatus, ProbeTimesOut

LEMMA LeaseInv == ASSUME Inv, NEW c \in Command, TryLease(c) \/ Wait(c) PROVE Inv'
<1>1. proc[c] \in Process /\ Known(c) /\ Running(c)
  BY DEF Inv, TypeOK, TryLease, Wait, Running
<1>2. CASE TryLease(c)
  <2>1. CASE lease = None
    BY <1>1, <1>2, <2>1, GoesOn DEF TryLease, Inv, TypeOK, Pc, Holding, Probing
  <2>2. CASE lease # None
    BY <1>1, <1>2, <2>2, GoesOn DEF TryLease, Inv, TypeOK, Pc, Holding, Probing
  <2> QED BY <2>1, <2>2
<1>3. CASE Wait(c) /\ proc[c].tries < MaxTries
  <2> DEFINE r == [proc[c] EXCEPT !.pc = "look", !.tries = @ + 1]
  <2>1. proc' = [proc EXCEPT ![c] = r] /\ UNCHANGED <<lease, locator, config, told>>
    BY <1>3 DEF Wait
  <2> HIDE DEF r
  <2>2. r \in Process /\ r.pid = proc[c].pid /\ r.birth = proc[c].birth /\ r.pc = "look"
    <3>1. proc[c].tries + 1 \in 0..MaxTries
      BY <1>1, <1>3, DevServerAssumption DEF Process
    <3>2. "look" \in Pc
      BY DEF Pc, Probing
    <3> QED BY <1>1, <3>1, <3>2 DEF Process, r
  <2>3. r.pid \in Pid /\ r.birth \in Birth
    BY <1>1, <2>2 DEF Known
  <2>4. proc' \in [Command -> Process] /\ \A d \in Command : Known(d)'
    BY <2>1, <2>2, <2>3, OneProcess DEF Holding, Probing
  <2> QED BY <2>1, <2>4 DEF Inv, TypeOK
<1>4. CASE Wait(c) /\ ~(proc[c].tries < MaxTries)
  <2>1. Over(c) /\ UNCHANGED <<locator, config, told>>
    BY <1>4 DEF Wait, Quit
  <2> QED BY <2>1, OverInv DEF Inv, TypeOK
<1> QED BY <1>2, <1>3, <1>4

LEMMA StaleInv == ASSUME Inv, NEW c \in Command, Stale(c) PROVE Inv'
<1>1. proc[c] \in Process /\ Known(c) /\ Running(c) /\ lease = c
  BY DEF Inv, TypeOK, Stale, Running, Known, Holding
<1>2. locator' \in {locator, None} /\ UNCHANGED config
  BY DEF Stale
<1>3. CASE Report(c, "not running")
  <2>1. Over(c) /\ told' = [told EXCEPT ![c] = "not running"]
    BY <1>3 DEF Report
  <2>2. told' \in [Command -> Told]
    BY <2>1 DEF Inv, TypeOK, Told
  <2> QED BY <1>1, <1>2, <2>1, <2>2, OverInv DEF Inv, TypeOK
<1>4. CASE Goto(c, "configure") /\ UNCHANGED <<lease, told>>
  BY <1>1, <1>2, <1>4, GoesOn DEF Inv, TypeOK, Pc, Holding, Probing
<1> QED BY <1>3, <1>4 DEF Stale

LEMMA UpdatedType ==
  ASSUME NEW c \in Command, proc[c] \in Process
  PROVE  Updated(c) \in Configuration
BY RolesAssumption DEF Updated, Process, Configuration, Assignment

LEMMA KeepConfigInv == ASSUME Inv, NEW c \in Command, KeepConfig(c) PROVE Inv'
<1>1. Running(c) /\ lease = c /\ Goto(c, "load") /\ UNCHANGED <<lease, locator, config, told>>
  BY DEF KeepConfig, Running, Inv, Known, Holding
<1> QED BY <1>1, GoesOn DEF Inv, TypeOK, Pc, Holding, Probing

LEMMA ConfigureInv == ASSUME Inv, NEW c \in Command, Configure(c) PROVE Inv'
<1>1. proc[c] \in Process /\ Known(c) /\ proc[c].pc = "configure" /\ Running(c) /\ lease = c
  BY DEF Inv, TypeOK, Configure, Running, Known, Holding
<1>2. Updated(c) \in Configuration /\ config' \in {config, Updated(c)} /\ UNCHANGED locator
  BY <1>1, UpdatedType DEF Configure
<1>3. CASE Quit(c)
  BY <1>2, <1>3, OverInv DEF Quit, Inv, TypeOK
<1>4. CASE /\ proc' = [proc EXCEPT ![c].config = Updated(c), ![c].pc = "load"]
           /\ UNCHANGED <<lease, told>>
  <2> DEFINE r == [proc[c] EXCEPT !.config = Updated(c), !.pc = "load"]
  <2>1. proc' = [proc EXCEPT ![c] = r]
    BY <1>4
  <2>2. r \in Process /\ r.pid = proc[c].pid /\ r.birth = proc[c].birth /\ r.pc = "load"
    BY <1>1, <1>2 DEF Process, Pc, Holding, Probing
  <2>3. r.pid \in Pid /\ r.birth \in Birth
    BY <1>1, <2>2 DEF Known
  <2> HIDE DEF r
  <2>4. proc' \in [Command -> Process] /\ \A d \in Command : Known(d)'
    BY <1>1, <1>2, <1>4, <2>1, <2>2, <2>3, OneProcess DEF Probing
  <2> QED BY <1>2, <1>4, <2>4 DEF Inv, TypeOK
<1> QED BY <1>3, <1>4 DEF Configure

LEMMA LoadInv == ASSUME Inv, NEW c \in Command, Load(c) PROVE Inv'
<1>1. Running(c) /\ lease = c /\ UNCHANGED <<locator, config>>
  BY DEF Inv, Load, Running, Known, Holding
<1>2. CASE Quit(c)
  BY <1>1, <1>2, OverInv DEF Quit, Inv, TypeOK
<1>3. CASE Forgetting(c, "start") /\ UNCHANGED <<lease, told>>
  BY <1>1, <1>3, Forgets
<1> QED BY <1>2, <1>3 DEF Load

LEMMA ListenInv == ASSUME Inv, NEW c \in Command, Listen(c) PROVE Inv'
<1>1. proc[c] \in Process /\ Known(c) /\ Running(c) /\ lease = c
  BY DEF Inv, TypeOK, Listen, Running, Known, Holding
<1>2. PICK q \in Port : proc' = [proc EXCEPT ![c].pc = "listening", ![c].port = q]
  BY DEF Listen
<1> DEFINE r == [proc[c] EXCEPT !.pc = "listening", !.port = q]
<1>3. proc' = [proc EXCEPT ![c] = r] /\ UNCHANGED <<lease, locator, config, told>>
  BY <1>2 DEF Listen
<1>4. /\ r \in Process /\ r.pid = proc[c].pid /\ r.birth = proc[c].birth
      /\ r.pc = "listening" /\ r.port = q
  BY <1>1 DEF Process, Pc, Holding, Probing
<1>5. r.pid \in Pid /\ r.birth \in Birth
  BY <1>1, <1>4 DEF Known
<1> HIDE DEF r
<1>6. proc' \in [Command -> Process] /\ \A d \in Command : Known(d)'
  BY <1>1, <1>3, <1>4, <1>5, OneProcess DEF Probing
<1> QED BY <1>3, <1>6 DEF Inv, TypeOK

LEMMA PublishInv == ASSUME Inv, NEW c \in Command, Publish(c) PROVE Inv'
<1>1. /\ proc[c] \in Process /\ Known(c) /\ proc[c].pc = "listening" /\ Running(c) /\ lease = c
      /\ UNCHANGED <<lease, config, told>>
  BY DEF Inv, TypeOK, Publish, Running, Known, Holding
<1>2. Locator(c) \in Metadata
  BY <1>1 DEF Known, Locator, Metadata
<1>3. ASSUME NEW pc \in {"serving", "stopping"},
             proc' = [proc EXCEPT ![c].pc = pc, ![c].own = Locator(c)],
             locator' \in {locator, Locator(c), Garbage},
             pc = "serving" => locator' = Locator(c)
      PROVE  Inv'
  <2> DEFINE r == [proc[c] EXCEPT !.pc = pc, !.own = Locator(c)]
  <2>1. proc' = [proc EXCEPT ![c] = r]
    BY <1>3
  <2>2. /\ r \in Process /\ r.pid = proc[c].pid /\ r.birth = proc[c].birth
        /\ r.pc = pc /\ r.port = proc[c].port /\ r.own = Locator(c)
    <3>1. pc \in Pc
      BY DEF Pc, Holding, Probing
    <3> QED BY <1>1, <1>2, <3>1 DEF Process
  <2>3. r.pid \in Pid /\ r.birth \in Birth /\ r.port \in Port
    BY <1>1, <2>2 DEF Known
  <2> HIDE DEF r
  <2>4. /\ pc = "serving" => locator' = r.own /\ r.own \in Metadata
        /\ pc \notin Probing \cup {"listening"} /\ lease' = c /\ lease' = lease
    BY <1>1, <1>2, <1>3, <2>2 DEF Probing
  <2>6. proc' \in [Command -> Process] /\ \A d \in Command : Known(d)'
    BY <1>1, <2>1, <2>2, <2>3, <2>4, OneProcess DEF Probing
  <2>5. locator' \in Metadata \cup {None, Garbage}
    BY <1>2, <1>3 DEF Inv, TypeOK
  <2> QED BY <1>1, <2>5, <2>6 DEF Inv, TypeOK
<1> QED BY <1>3 DEF Publish

LEMMA StopInv ==
  ASSUME Inv, NEW c \in Command, StartFails(c) \/ Exit(c) \/ Stop(c) \/ StopHangs(c)
  PROVE  Inv'
<1>1. proc[c] \in Process /\ Known(c) /\ Running(c) /\ lease = c /\ UNCHANGED <<locator, config, told>>
  BY DEF Inv, TypeOK, StartFails, Exit, Stop, StopHangs, Running, Known, Holding
<1>2. CASE Goto(c, "stopping") /\ UNCHANGED lease
  BY <1>1, <1>2, GoesOn DEF Inv, TypeOK, Pc, Holding, Probing
<1>3. CASE Goto(c, "dying") /\ lease' = None
  BY <1>1, <1>3, GoesOn DEF Inv, TypeOK, Pc, Holding, Probing
<1>4. ASSUME NEW pc \in {"stopping", "stopped"}, UNCHANGED lease,
             proc' = [proc EXCEPT ![c].pc = pc, ![c].port = None]
      PROVE  Inv'
  <2> DEFINE r == [proc[c] EXCEPT !.pc = pc, !.port = None]
  <2>1. proc' = [proc EXCEPT ![c] = r]
    BY <1>4
  <2>2. r \in Process /\ r.pid = proc[c].pid /\ r.birth = proc[c].birth /\ r.pc = pc
    <3>1. pc \in Pc
      BY DEF Pc, Holding, Probing
    <3> QED BY <1>1, <3>1 DEF Process
  <2>3. r.pid \in Pid /\ r.birth \in Birth
    BY <1>1, <2>2 DEF Known
  <2> HIDE DEF r
  <2>4. proc' \in [Command -> Process] /\ \A d \in Command : Known(d)'
    BY <1>1, <1>4, <2>1, <2>2, <2>3, OneProcess DEF Probing
  <2> QED BY <1>1, <1>4, <2>4 DEF Inv, TypeOK
<1> QED BY <1>2, <1>3, <1>4 DEF StartFails, Exit, Stop, StopHangs

LEMMA EndInv ==
  ASSUME Inv, NEW c \in Command, Gone(c) \/ RemoveLocator(c) \/ Kill(c)
  PROVE  Inv'
<1>1. CASE Gone(c) \/ Kill(c)
  <2>1. Over(c) /\ UNCHANGED <<locator, config, told>>
    BY <1>1 DEF Gone, Kill, Quit
  <2> QED BY <2>1, OverInv DEF Inv, TypeOK
<1>2. CASE RemoveLocator(c)
  <2>1. Over(c) /\ locator' \in {locator, None} /\ UNCHANGED <<config, told>>
    BY <1>2 DEF RemoveLocator, Quit
  <2>2. lease = c
    BY <1>2 DEF RemoveLocator, Inv, Known, Holding
  <2> QED BY <2>1, <2>2, OverInv DEF Inv, TypeOK
<1> QED BY <1>1, <1>2

LEMMA SourcesInv == ASSUME Inv, NEW c \in Command, Snapshot(c) \/ AddRole(c) PROVE Inv'
<1>1. proc[c] \in Process /\ Known(c) /\ Running(c) /\ UNCHANGED locator
  BY DEF Inv, TypeOK, Snapshot, AddRole, Running
<1>2. CASE Snapshot(c)
  <2> DEFINE r == [proc[c] EXCEPT !.pc = "add", !.config = config]
  <2>1. proc' = [proc EXCEPT ![c] = r] /\ UNCHANGED <<lease, locator, config, told>>
    BY <1>2 DEF Snapshot
  <2>2. r \in Process /\ r.pid = proc[c].pid /\ r.birth = proc[c].birth /\ r.pc = "add"
    BY <1>1 DEF Process, Pc, Inv, TypeOK
  <2>3. r.pid \in Pid /\ r.birth \in Birth
    BY <1>1, <2>2 DEF Known
  <2> HIDE DEF r
  <2>4. proc' \in [Command -> Process] /\ \A d \in Command : Known(d)'
    BY <2>1, <2>2, <2>3, OneProcess DEF Holding, Probing
  <2> QED BY <2>1, <2>4 DEF Inv, TypeOK
<1>3. CASE AddRole(c)
  <2>1. Over(c) /\ config' \in {config, Updated(c)} /\ Updated(c) \in Configuration
    BY <1>1, <1>3, UpdatedType DEF AddRole, Report, Quit
  <2>2. told' \in [Command -> Told]
    BY <1>3 DEF AddRole, Report, Quit, Inv, TypeOK, Told
  <2> QED BY <1>1, <2>1, <2>2, OverInv DEF Inv, TypeOK
<1> QED BY <1>2, <1>3

LEMMA InvNext == ASSUME Inv, [Next]_vars PROVE Inv'
<1>1. CASE UNCHANGED vars
  BY <1>1 DEF vars, Inv, TypeOK, Known, Running
<1>2. CASE Next
  <2>1. PICK c \in Command : Step(c) \/ Exit(c) \/ Kill(c) \/ \E mode \in Mode[c] : Run(c, mode)
    BY <1>2 DEF Next
  <2>2. CASE Step(c)
    BY <2>2, LookInv, ProbeInv, LeaseInv, StaleInv, KeepConfigInv, ConfigureInv, LoadInv, ListenInv, PublishInv,
       StopInv, EndInv, SourcesInv DEF Step
  <2> QED BY <2>1, <2>2, RunInv, StopInv, EndInv
<1> QED BY <1>1, <1>2

-----------------------------------------------------------------------------
(* Type correctness of the lease, the locator, the configuration and the   *)
(* processes (cli/dev.py).                                                 *)
THEOREM TypeCorrect == Spec => []TypeOK
<1>1. Inv => TypeOK
  BY DEF Inv
<1> QED BY <1>1, InvInit, InvNext, PTL DEF Spec

(* While a server serves, the locator in the cache is its own, for any     *)
(* number of commands, crashes, failed probes and reused pids and ports:   *)
(* only the holder of the lease writes it, and a server holds the lease    *)
(* from its recheck to the removal of its locator (dev.py:859).            *)
THEOREM LocatableCorrect == Spec => []Locatable
<1>1. Inv => Locatable
  BY DevServerAssumption DEF Inv, Known, Locatable
<1> QED BY <1>1, InvInit, InvNext, PTL DEF Spec

(* At most one server at a time serves a repository: the lease excludes a  *)
(* second one, whoever was killed or hung before (dev.py:859).             *)
OneServer ==
  \A c, d \in Command : proc[c].pc = "serving" /\ proc[d].pc = "serving" => c = d

THEOREM OneServerCorrect == Spec => []OneServer
<1>1. Inv => OneServer
  BY DEF Inv, Known, OneServer, Holding
<1> QED BY <1>1, InvInit, InvNext, PTL DEF Spec

-----------------------------------------------------------------------------
(* "Not running" is only said by the holder of the lease. *)
LEMMA Telling ==
  ASSUME Inv, Next
  PROVE  \/ told' = told
         \/ \E c, d \in Command : told' = [told EXCEPT ![c] = d]
         \/ \E c \in Command : /\ config' = Updated(c)
                              /\ \E what \in {"configured", "unchanged"} :
                                   told' = [told EXCEPT ![c] = what]
         \/ \E c \in Command : /\ lease = c /\ proc[c].pc = "stale"
                              /\ told' = [told EXCEPT ![c] = "not running"]
<1>1. PICK c \in Command : Step(c) \/ Exit(c) \/ Kill(c) \/ \E mode \in Mode[c] : Run(c, mode)
  BY DEF Next
<1>2. CASE ReportServer(c)
  <2>1. proc[c].seen.instance \in Command
    BY <1>2 DEF ReportServer, Inv, Known, Metadata, Probing
  <2> QED BY <1>2, <2>1 DEF ReportServer, Report
<1>3. CASE AddRole(c)
  BY <1>3 DEF AddRole, Report, Quit
<1>4. CASE Stale(c)
  BY <1>4 DEF Stale, Report, Inv, Known, Holding
<1>5. CASE ~ReportServer(c) /\ ~AddRole(c) /\ ~Stale(c)
  BY <1>1, <1>5 DEF Step, Exit, Kill, Run, Look, ProbeProcess, ProbeInstance, ProbeStatus,
     ProbeTimesOut, TryLease, Wait, KeepConfig, Configure, Load, Listen, Publish, StartFails,
     Stop, StopHangs, Gone, RemoveLocator, Snapshot, Quit
<1> QED BY <1>2, <1>3, <1>4, <1>5

(* "Not running" is true when it is said (dev.py:855): only the holder of  *)
(* the lease says it, a serving command holds the lease, and the one that  *)
(* says it is not serving.                                                 *)
THEOREM NotRunningTrueCorrect == Spec => NotRunningTrue
<1>1. ASSUME Inv, Next, NEW c \in Command, told'[c] = "not running", told[c] # told'[c],
             NEW d \in Command, proc[d].pc = "serving"
      PROVE  FALSE
  <2>1. told \in [Command -> Told]
    BY <1>1 DEF Inv, TypeOK
  <2>2. lease = c /\ proc[c].pc = "stale"
    BY <1>1, <2>1, Telling, ReportsAssumption
  <2>3. d = c
    BY <1>1, <2>2 DEF Inv, Known, Holding
  <2> QED BY <1>1, <2>2, <2>3
<1>2. ASSUME Inv, [Next]_vars
      PROVE  [\A c \in Command : told'[c] = "not running" /\ told[c] # told'[c] =>
                \A d \in Command : proc[d].pc # "serving"]_vars
  BY <1>1, <1>2
<1> QED BY <1>2, InvInit, InvNext, PTL DEF Spec, NotRunningTrue

-----------------------------------------------------------------------------
(* The configuration is only written from the one that was read, by a      *)
(* command that does not stay where it is.                                 *)
LEMMA Writing ==
  ASSUME Inv, Next
  PROVE  \/ config' = config
         \/ \E c \in Command : /\ config' = [config EXCEPT ![Assigns[c].source] = Assigns[c].role]
                              /\ proc'[c] # proc[c]
<1>1. PICK c \in Command : Step(c) \/ Exit(c) \/ Kill(c) \/ \E mode \in Mode[c] : Run(c, mode)
  BY DEF Next
<1>0. proc \in [Command -> Process]
  BY DEF Inv, TypeOK
<1>2. ASSUME config = proc[c].config, config' = Updated(c), proc[c].pc # proc'[c].pc
      PROVE  \E d \in Command : /\ config' = [config EXCEPT ![Assigns[d].source] = Assigns[d].role]
                                /\ proc'[d] # proc[d]
  BY <1>2 DEF Updated
<1>3. CASE Configure(c)
  <2>1. CASE config = proc[c].config /\ config' = Updated(c) /\ proc[c].pc = "configure"
             /\ proc' = [proc EXCEPT ![c].config = Updated(c), ![c].pc = "load"]
    <3>1. proc'[c].pc = "load"
      BY <1>0, <2>1 DEF Process
    <3> QED BY <1>2, <2>1, <3>1
  <2> QED BY <1>3, <2>1 DEF Configure
<1>4. CASE AddRole(c)
  <2>1. proc'[c].pc = "done" /\ proc[c].pc = "add"
    BY <1>0, <1>4, NotRunYetType DEF AddRole, Report, Quit, Over
  <2> QED BY <1>2, <1>4, <2>1 DEF AddRole
<1>5. CASE ~Configure(c) /\ ~AddRole(c)
  BY <1>1, <1>5 DEF Step, Exit, Kill, Run, Look, ProbeProcess, ProbeInstance, ProbeStatus,
     ProbeTimesOut, ReportServer, TryLease, Wait, Stale, KeepConfig, Load, Listen, Publish,
     StartFails, Stop, StopHangs, Gone, RemoveLocator, Snapshot
<1> QED BY <1>3, <1>4, <1>5

(* No role is lost to a copy read earlier (dev.py:453): every writer       *)
(* compares the configuration with the one it changes, and so changes only *)
(* the role of its own source; what it reports is in the configuration.    *)
THEOREM RolesKeptCorrect == Spec => RolesKept
<1>1. ASSUME Inv, Next, NEW s \in Source, config'[s] # config[s]
      PROVE  \E c \in Command : /\ proc'[c] # proc[c]
                                /\ Assigns[c] = [source |-> s, role |-> config'[s]]
  <2>1. config \in Configuration
    BY <1>1 DEF Inv, TypeOK
  <2>2. PICK c \in Command : /\ config' = [config EXCEPT ![Assigns[c].source] = Assigns[c].role]
                             /\ proc'[c] # proc[c]
    BY <1>1, Writing
  <2>3. Assigns[c] \in Assignment
    BY RolesAssumption
  <2>4. Assigns[c].source = s /\ config'[s] = Assigns[c].role
    BY <1>1, <2>1, <2>2, <2>3 DEF Configuration, Assignment
  <2> QED BY <2>2, <2>3, <2>4 DEF Assignment
<1>2. ASSUME Inv, Next, NEW c \in Command, told'[c] \in {"configured", "unchanged"},
             told[c] # told'[c]
      PROVE  config'[Assigns[c].source] = Assigns[c].role
  <2>1. told \in [Command -> Told] /\ proc[c] \in Process
    BY <1>2 DEF Inv, TypeOK
  <2>2. config' = Updated(c)
    BY <1>2, <2>1, Telling, ReportsAssumption
  <2> QED BY <2>1, <2>2, RolesAssumption DEF Updated, Process, Configuration, Assignment
<1>3. ASSUME Inv, [Next]_vars
      PROVE  [/\ \A s \in Source : config'[s] # config[s] =>
                   \E c \in Command : /\ proc'[c] # proc[c]
                                      /\ Assigns[c] = [source |-> s, role |-> config'[s]]
              /\ \A c \in Command :
                   told'[c] \in {"configured", "unchanged"} /\ told[c] # told'[c] =>
                   config'[Assigns[c].source] = Assigns[c].role]_vars
  BY <1>1, <1>2, <1>3
<1> QED BY <1>3, InvInit, InvNext, PTL DEF Spec, RolesKept

=============================================================================
