------------------------------ MODULE DevServer ------------------------------
(***************************************************************************)
(* cli/dev.py: the life of the local control plane, "intent dev", and the  *)
(* commands that write the project's configuration beside it               *)
(* (cli/intent_workflow.py, "intent sources add").                         *)
(*                                                                         *)
(* A command is one operating-system process.  A server holds the          *)
(* repository's lease (flock on the project directory), listens on a       *)
(* loopback port and publishes a locator, cache/control-plane.json, that   *)
(* later commands authenticate before they believe it: the process behind  *)
(* the pid was born at the published time and owns the port, the server    *)
(* there answers with the published instance, and a second request has the *)
(* status of this repository.  Nothing holds a server in place between     *)
(* those looks, nor until the command prints what it found.  Pids, birth   *)
(* times and ports are used again once they are free.  Only the holder of  *)
(* the lease writes the locator, under the lock of its path, so that this  *)
(* lock never waits and is left out.                                       *)
(*                                                                         *)
(* config.yaml holds at most one role for a source, a connector and its    *)
(* scope, and is stored sorted by them (core/models/project.py), so that   *)
(* the configuration is a function of the sources.                         *)
(***************************************************************************)
EXTENDS Integers, FiniteSets

CONSTANTS Command,   \* processes; each runs once
          Mode,      \* [Command -> what it may be: serve, prd, status, sources]
          Source, Role,
          Assigns,   \* [Command -> the role it gives which source, when it does]
          Configured,  \* the configuration at the start
          Pid, Birth, Port,
          None, Garbage,
          MaxTries   \* bound: rounds before the startup deadline

Assignment == [source : Source, role : Role]
Configuration == [Source -> Role \cup {None}]
NoRoles == [s \in Source |-> None]

(* ControlPlaneProcessMetadata; the random instance is the command itself. *)
Metadata == [pid : Pid, birth : Birth, instance : Command, port : Port]

ASSUME DevServerAssumption ==
  /\ Mode \in [Command -> SUBSET {"serve", "prd", "status", "sources"}] /\ MaxTries \in Nat
  /\ {None, Garbage} \cap (Command \cup Pid \cup Port \cup Metadata) = {}

ASSUME RolesAssumption == /\ Assigns \in [Command -> Assignment]
                          /\ Configured \in Configuration /\ None \notin Role

ASSUME ReportsAssumption ==
  {"nothing", "configured", "unchanged", "not running"} \cap Command = {}

VARIABLES
  lease,     \* the command that holds the repository lease, or None
  locator,   \* control-plane.json: a locator, None (absent) or Garbage
  config,    \* config.yaml: [Source -> its role, or None]
  proc,      \* [Command -> process]
  told       \* [Command -> what it reported]

vars == <<lease, locator, config, proc, told>>

NotRunYet == [pc |-> "new", mode |-> None, pid |-> None, birth |-> None, port |-> None,
              seen |-> None, config |-> NoRoles, tries |-> 0, own |-> None]
Running(c) == proc[c].pc \notin {"new", "done"}
Listening(c) == proc[c].port # None
Locator(c) == [pid |-> proc[c].pid, birth |-> proc[c].birth, instance |-> c,
               port |-> proc[c].port]

Init ==
  /\ lease = None /\ locator = None /\ config = Configured
  /\ proc = [c \in Command |-> NotRunYet] /\ told = [c \in Command |-> "nothing"]

Goto(c, pc) == proc' = [proc EXCEPT ![c].pc = pc]
(* The end of a process frees its pid, its port and its lease. *)
Over(c) == /\ proc' = [proc EXCEPT ![c] = [NotRunYet EXCEPT !.pc = "done"]]
           /\ lease' = IF lease = c THEN None ELSE lease
Quit(c) == Over(c) /\ UNCHANGED told
Report(c, what) == Over(c) /\ told' = [told EXCEPT ![c] = what]

(***************************************************************************)
(* dev_command: reuse a live server, or own the repository.                *)
(***************************************************************************)
Run(c, mode) ==
  /\ proc[c].pc = "new"
  /\ \E pid \in Pid, birth \in Birth :
       /\ \A d \in Command : Running(d) => proc[d].pid # pid
       /\ proc' = [proc EXCEPT ![c] =
                     [NotRunYet EXCEPT !.mode = mode, !.pid = pid, !.birth = birth,
                        !.pc = IF mode = "sources" THEN "snapshot" ELSE "look"]]
  /\ UNCHANGED <<lease, locator, config, told>>

(* _live_repository_process without the lease, and the recheck with it:    *)
(* the configuration and the locator are read.                             *)
Look(c) ==
  /\ proc[c].pc = "look"
  /\ IF locator \in {None, Garbage} /\ lease # c THEN Goto(c, "lease")
     ELSE proc' = [proc EXCEPT ![c].seen = locator, ![c].config = config,
                     ![c].pc = IF locator \in {None, Garbage} THEN "stale" ELSE "probe"]
  /\ UNCHANGED <<lease, locator, config, told>>

(* What was read without the lease is read again with it. *)
Forgetting(c, pc) == proc' = [proc EXCEPT ![c].pc = pc, ![c].seen = None, ![c].config = NoRoles]
UnprovedIsStale(c) == Goto(c, "stale")   \* mutant: nobody has to own the repository

Unproved(c) == IF lease = c THEN Goto(c, "stale") ELSE Forgetting(c, "lease")

(* _process_start_id and _listener_owned_by_process *)
Born(m) == \E d \in Command : Running(d) /\ proc[d].pid = m.pid /\ proc[d].birth = m.birth
                              /\ proc[d].port = m.port

ProbeProcess(c) ==
  /\ proc[c].pc = "probe"
  /\ IF Born(proc[c].seen) THEN Goto(c, "ask") ELSE Unproved(c)
  /\ UNCHANGED <<lease, locator, config, told>>

(* _probe_json: whoever listens on the port answers, the instance request  *)
(* with its own instance, the status request with the repository's status, *)
(* which every server of the repository has.                               *)
Serves(d, m) == Listening(d) /\ proc[d].port = m.port

ProbeInstance(c) ==
  /\ proc[c].pc = "ask"
  /\ IF \E d \in Command : Serves(d, proc[c].seen) /\ d = proc[c].seen.instance
     THEN Goto(c, "status") ELSE Unproved(c)
  /\ UNCHANGED <<lease, locator, config, told>>

ProbeStatus(c) ==
  /\ proc[c].pc = "status"
  /\ IF \E d \in Command : Serves(d, proc[c].seen) THEN Goto(c, "report") ELSE Unproved(c)
  /\ UNCHANGED <<lease, locator, config, told>>

(* A probe of one second may fail whoever it asks. *)
ProbeTimesOut(c) ==
  /\ proc[c].pc \in {"probe", "ask", "status"} /\ Unproved(c)
  /\ UNCHANGED <<lease, locator, config, told>>

(* "running at", "already running at": the server may be gone by now. *)
ReportServer(c) ==
  /\ proc[c].pc = "report" /\ Report(c, proc[c].seen.instance)
  /\ UNCHANGED <<locator, config>>

(* _try_repository_lifecycle_lock *)
TryLeaseBlind(c) ==   \* mutant: a lease that is held is taken
  /\ proc[c].pc = "lease" /\ lease' = c /\ Goto(c, "look")
  /\ UNCHANGED <<locator, config, told>>

TryLease(c) ==
  /\ proc[c].pc = "lease"
  /\ IF lease = None THEN lease' = c /\ Goto(c, "look")
     ELSE Goto(c, "wait") /\ UNCHANGED lease
  /\ UNCHANGED <<locator, config, told>>

WaitForever(c) ==     \* mutant: the deadline is not looked at
  /\ proc[c].pc = "wait" /\ Goto(c, "look") /\ UNCHANGED <<lease, locator, config, told>>

Wait(c) ==
  /\ proc[c].pc = "wait"
  /\ IF proc[c].tries < MaxTries
     THEN /\ proc' = [proc EXCEPT ![c].pc = "look", ![c].tries = @ + 1]
          /\ UNCHANGED <<lease, told>>
     ELSE Quit(c)
  /\ UNCHANGED <<locator, config>>

(***************************************************************************)
(* _run_with_repository_lease after the recheck.                           *)
(***************************************************************************)
(* _discard_stale_metadata; --status ends here with "not running". *)
Stale(c) ==
  /\ proc[c].pc = "stale"
  /\ locator' = IF proc[c].seen \in {None, Garbage} THEN locator ELSE None
  /\ IF proc[c].mode = "status" THEN Report(c, "not running")
     ELSE Goto(c, "configure") /\ UNCHANGED <<lease, told>>
  /\ UNCHANGED config

(* _configure_prd_role and _source_role_result: the role of the source is  *)
(* added, or replaced.                                                     *)
Updated(c) == [proc[c].config EXCEPT ![Assigns[c].source] = Assigns[c].role]

(* Without --prd, or when it has that role, nothing is written.  Otherwise *)
(* the file is compared with the copy and written under its lock.          *)
KeepConfig(c) ==
  /\ proc[c].pc = "configure"
  /\ proc[c].mode = "serve" \/ Updated(c) = proc[c].config
  /\ Goto(c, "load")
  /\ UNCHANGED <<lease, locator, config, told>>

ConfigureStale(c) ==  \* mutant: the file is not compared with the copy
  /\ proc[c].pc = "configure" /\ proc[c].mode = "prd"
  /\ config' = Updated(c)
  /\ proc' = [proc EXCEPT ![c].config = Updated(c), ![c].pc = "load"]
  /\ UNCHANGED <<lease, locator, told>>

Configure(c) ==
  /\ proc[c].pc = "configure" /\ proc[c].mode = "prd" /\ Updated(c) # proc[c].config
  /\ \/ /\ config = proc[c].config /\ config' = Updated(c)
        /\ proc' = [proc EXCEPT ![c].config = Updated(c), ![c].pc = "load"]
        /\ UNCHANGED <<lease, told>>
     \/ Quit(c) /\ UNCHANGED config
  /\ UNCHANGED locator

(* load_runtime must find that configuration. *)
Load(c) ==
  /\ proc[c].pc = "load"
  /\ IF config = proc[c].config THEN Forgetting(c, "start") /\ UNCHANGED <<lease, told>>
     ELSE Quit(c)
  /\ UNCHANGED <<locator, config>>

(* _listener, _server_thread *)
Listen(c) ==
  /\ proc[c].pc = "start"
  /\ \E q \in Port : /\ \A d \in Command : proc[d].port # q
                     /\ proc' = [proc EXCEPT ![c].pc = "listening", ![c].port = q]
  /\ UNCHANGED <<lease, locator, config, told>>

(* _wait_until_started, _probe and the strict write of the locator, which  *)
(* may fail without it, with it, or with its outcome unknown.  The process *)
(* remembers the bytes before it writes them.                              *)
Publish(c) ==
  /\ proc[c].pc = "listening"
  /\ \/ /\ locator' = Locator(c)
        /\ proc' = [proc EXCEPT ![c].pc = "serving", ![c].own = Locator(c)]
     \/ /\ locator' \in {locator, Locator(c), Garbage}
        /\ proc' = [proc EXCEPT ![c].pc = "stopping", ![c].own = Locator(c)]
  /\ UNCHANGED <<lease, config, told>>

(* The policy, the listener or the service cannot be set up, or the server *)
(* does not come up or fails its own probe.                                *)
StartFails(c) ==
  /\ proc[c].pc \in {"start", "listening"} /\ Goto(c, "stopping")
  /\ UNCHANGED <<lease, locator, config, told>>

(* _wait_for_exit: interrupted, or the server thread failed. *)
Exit(c) ==
  /\ proc[c].pc = "serving"
  /\ \/ Goto(c, "stopping")
     \/ proc' = [proc EXCEPT ![c].pc = "stopping", ![c].port = None]
  /\ UNCHANGED <<lease, locator, config, told>>

(***************************************************************************)
(* _shutdown_started_locked.                                               *)
(***************************************************************************)
Stop(c) ==
  /\ proc[c].pc = "stopping"
  /\ proc' = [proc EXCEPT ![c].pc = "stopped", ![c].port = None]
  /\ UNCHANGED <<lease, locator, config, told>>

(* The server thread does not end in time: the lease and the locator are   *)
(* left behind, and the thread goes on until the process is gone.          *)
StopHangs(c) ==
  /\ proc[c].pc = "stopping" /\ Listening(c)
  /\ Goto(c, "dying") /\ lease' = None
  /\ UNCHANGED <<locator, config, told>>

Gone(c) ==
  /\ proc[c].pc = "dying" /\ Quit(c)
  /\ UNCHANGED <<locator, config>>

(* _remove_exact_metadata: only its own locator; its errors are swallowed. *)
RemoveLocator(c) ==
  /\ proc[c].pc = "stopped"
  /\ locator' \in {locator, IF locator = proc[c].own THEN None ELSE locator}
  /\ Quit(c)
  /\ UNCHANGED config

(***************************************************************************)
(* _source_role_result, "intent sources add".                              *)
(***************************************************************************)
Snapshot(c) ==
  /\ proc[c].pc = "snapshot"
  /\ proc' = [proc EXCEPT ![c].pc = "add", ![c].config = config]
  /\ UNCHANGED <<lease, locator, config, told>>

AddRole(c) ==
  /\ proc[c].pc = "add"
  /\ \/ /\ config = proc[c].config /\ config' = Updated(c)
        /\ Report(c, IF Updated(c) = config THEN "unchanged" ELSE "configured")
     \/ UNCHANGED config /\ Quit(c)
  /\ UNCHANGED locator

(* A process is killed, wherever it is. *)
Kill(c) == Running(c) /\ Over(c) /\ UNCHANGED <<locator, config, told>>

(***************************************************************************)
(* The specification.  A running process takes its steps; nobody has to    *)
(* start, interrupt or kill one.                                           *)
(***************************************************************************)
Step(c) ==
  \/ Look(c) \/ ProbeProcess(c) \/ ProbeInstance(c) \/ ProbeStatus(c)
  \/ ProbeTimesOut(c) \/ ReportServer(c)
  \/ TryLease(c) \/ Wait(c) \/ Stale(c)
  \/ KeepConfig(c) \/ Configure(c) \/ Load(c)
  \/ Listen(c) \/ Publish(c) \/ StartFails(c)
  \/ Stop(c) \/ StopHangs(c) \/ Gone(c) \/ RemoveLocator(c)
  \/ Snapshot(c) \/ AddRole(c)

Next ==
  \E c \in Command :
    \/ Step(c) \/ Exit(c) \/ Kill(c)
    \/ \E mode \in Mode[c] : Run(c, mode)

Spec == Init /\ [][Next]_vars /\ \A c \in Command : WF_vars(Step(c))

(***************************************************************************)
(* Properties.                                                             *)
(***************************************************************************)
(* While a server serves, the locator in the cache is its own: no failed   *)
(* probe, --status, crash or late shutdown of another process discards or  *)
(* replaces it (dev.py:859).                                               *)
Locatable ==
  \A c \in Command : proc[c].pc = "serving" =>
    locator = proc[c].own /\ locator # None

(* A command that says "not running" is right: no server serves at that    *)
(* moment (dev.py:855), although its locator may be damaged or its probe   *)
(* may have failed, and servers come and go between the looks of the       *)
(* command.                                                                *)
NotRunningTrue ==
  [][\A c \in Command : told'[c] = "not running" /\ told[c] # told'[c] =>
       \A d \in Command : proc[d].pc # "serving"]_vars

(* No role is lost to a copy read earlier: the role of a source changes    *)
(* only to the one a command gives that very source, whoever else rewrites *)
(* config.yaml meanwhile, and one that is reported is there (dev.py:453).  *)
RolesKept ==
  [][/\ \A s \in Source : config'[s] # config[s] =>
          \E c \in Command : /\ proc'[c] # proc[c]
                             /\ Assigns[c] = [source |-> s, role |-> config'[s]]
     /\ \A c \in Command : told'[c] \in {"configured", "unchanged"} /\ told[c] # told'[c] =>
          config'[Assigns[c].source] = Assigns[c].role]_vars

(* Every command ends or serves, whoever holds the lease or died with it.  *)
EveryCommandEnds ==
  \A c \in Command : Running(c) ~> proc[c].pc \in {"serving", "done"}

=============================================================================
