---------------------------- MODULE DaemonProcess ----------------------------
(***************************************************************************)
(* The life of a `caly daemon` process, from its instance lock to its exit *)
(* code, and what it shares with the next one: the lock, the socket file,  *)
(* the controller secret, the engaged system proxy and its record, and the *)
(* kernel process.  Several processes run it, and each may be killed at    *)
(* any place.                                                              *)
(*                                                                         *)
(* The instance lock keeps its promise here (InstanceLock is about whether *)
(* it does), and an engagement and its record change together              *)
(* (ProxyRecovery is about the steps in between).                          *)
(***************************************************************************)
EXTENDS Naturals, Sequences

CONSTANTS
  Processes,      \* the processes that run `caly daemon`
  Nobody,         \* no process: a free lock, a missing file
  Stranger,       \* a file at the socket's path that no daemon made
  MaxBoots,       \* bound: processes that take the lock
  MaxQueue,       \* bound: commands a process accepts while it runs
  DaemonFaults    \* what may fail: "build", "stop", "restore", "task", "kill"

ASSUME ProcessesAssumption ==
  /\ Nobody \notin Processes /\ Stranger \notin Processes /\ Nobody # Stranger
  /\ MaxBoots \in Nat /\ MaxQueue \in Nat
  /\ DaemonFaults \subseteq {"build", "stop", "restore", "task", "kill"}

VARIABLES
  process,        \* process[p]: its place and what its memory holds
  holder,         \* whose instance lock is held
  socketFile,     \* who bound the file at the socket's path
  secretFile,     \* whose controller secret is published
  engaged,        \* the desktop points at the kernel, and a record says so
  kernel,         \* whose kernel process runs
  boots           \* processes that took the lock

processVars == <<process, holder, socketFile, secretFile, engaged, kernel, boots>>

(* In the order a process goes through them.                               *)
Places == {"down", "locked", "booted", "bound", "serving", "ending", "reap",
           "restore", "join", "unbind", "unpublish", "release"}

(* tasks: the dispatcher and the actors run; queue: commands admitted and  *)
(* not handled; fatal, woken: the first fault is recorded, and where the   *)
(* task that waits for it has run; told: the transport's shutdown future   *)
(* is ready; faults: what failed, which the exit code tells; late: a       *)
(* command was handled after the restore; exit: how it ended.              *)
Down(how) == [at |-> "down", tasks |-> FALSE, queue |-> 0, fatal |-> FALSE, woken |-> "no",
              told |-> FALSE, faults |-> {}, late |-> FALSE, exit |-> how]

Memory ==
  [at : Places, tasks : BOOLEAN, queue : 0..MaxQueue, fatal : BOOLEAN, woken : {"no", "bound", "serving"},
   told : BOOLEAN, faults : SUBSET {"bind", "core", "restore", "task"}, late : BOOLEAN,
   exit : {"none", "clean", "failed", "killed"}]

ProcessType ==
  /\ process \in [Processes -> Memory]
  /\ holder \in Processes \union {Nobody}
  /\ socketFile \in Processes \union {Nobody, Stranger}
  /\ secretFile \in Processes \union {Nobody}
  /\ engaged \in BOOLEAN
  /\ kernel \in Processes \union {Nobody}
  /\ boots \in 0..MaxBoots

ProcessInit ==
  /\ process = [p \in Processes |-> Down("none")]
  /\ holder = Nobody /\ secretFile = Nobody /\ kernel = Nobody
  /\ socketFile \in {Nobody, Stranger}
  /\ engaged = FALSE
  /\ boots = 0

At(p, place) == process[p].at = place
files == <<holder, socketFile, secretFile>>
effects == <<engaged, kernel>>

-----------------------------------------------------------------------------
(* Boot.                                                                   *)

(* acquire_lock.  A held lock ends the process; a killed holder's does not *)
(* count as held.                                                          *)
AcquireLock(p) ==
  /\ At(p, "down") /\ holder = Nobody /\ boots < MaxBoots
  /\ holder' = p
  /\ process' = [process EXCEPT ![p] = [Down("none") EXCEPT !.at = "locked"]]
  /\ boots' = boots + 1
  /\ UNCHANGED <<socketFile, secretFile, effects>>

(* Settings, composition, backends, tasks: every error releases the lock   *)
(* and undoes nothing.  start_runtime may fail after its boot sequence, so *)
(* the engagement, the kernel and the secret may be there already.         *)
BuildFails(p) ==
  /\ At(p, "locked") /\ "build" \in DaemonFaults
  /\ \E proxy, auto, secret \in BOOLEAN :
       /\ engaged' = (engaged \/ proxy)
       /\ kernel' = IF auto THEN p ELSE kernel
       /\ secretFile' = IF secret THEN p ELSE secretFile
  /\ holder' = Nobody
  /\ process' = [process EXCEPT ![p] = Down("failed")]
  /\ UNCHANGED <<socketFile, boots>>

(* start_runtime: the boot sequence replays a pending record or engages    *)
(* what the settings ask for, and starts the kernel if they say so; then   *)
(* the secret is published and the tasks are spawned.                      *)
StartRuntime(p) ==
  /\ At(p, "locked")
  /\ \E proxy, auto \in BOOLEAN :
       /\ engaged' = (engaged \/ proxy)
       /\ kernel' = IF auto THEN p ELSE kernel
  /\ secretFile' = p
  /\ process' = [process EXCEPT ![p].at = "booted", ![p].tasks = TRUE]
  /\ UNCHANGED <<holder, socketFile, boots>>

(* serve: the task that waits for a fatal is spawned, the socket is bound  *)
(* over what an earlier daemon left there; a file that is no socket of     *)
(* this user is refused.                                                   *)
Bind(p) ==
  /\ At(p, "booted")
  /\ IF socketFile = Stranger
       THEN /\ process' = [process EXCEPT ![p].at = "ending", ![p].faults = @ \union {"bind"}]
            /\ UNCHANGED socketFile
       ELSE /\ process' = [process EXCEPT ![p].at = "bound"]
            /\ socketFile' = p
  /\ UNCHANGED <<holder, secretFile, effects, boots>>

(* The accept loop polls its shutdown future for the first time: only from *)
(* now on can a notification or a signal reach it.                         *)
Listen(p) ==
  /\ At(p, "bound")
  /\ process' = [process EXCEPT ![p].at = "serving"]
  /\ UNCHANGED <<files, effects, boots>>

-----------------------------------------------------------------------------
(* Work.  A connection's task and the actors outlive the accept loop.      *)

Connected == {"serving", "ending", "reap", "restore", "join"}

Admit(p) ==
  /\ process[p].at \in Connected /\ process[p].queue < MaxQueue
  /\ process' = [process EXCEPT ![p].queue = @ + 1]
  /\ UNCHANGED <<files, effects, boots>>

(* The dispatcher hands a command to its actor: the proxy is engaged, or   *)
(* the kernel started.                                                     *)
Handle(p) ==
  /\ process[p].tasks /\ process[p].queue > 0
  /\ \/ engaged' = TRUE /\ UNCHANGED kernel
     \/ kernel' = p /\ UNCHANGED engaged
  /\ process' = [process EXCEPT ![p].queue = @ - 1, ![p].late = @ \/ At(p, "join")]
  /\ UNCHANGED <<files, boots>>

(* record_fatal: an owned task failed; the token cancels all of them.      *)
TaskDies(p) ==
  /\ process[p].tasks /\ "task" \in DaemonFaults
  /\ process' = [process EXCEPT ![p].fatal = TRUE, ![p].tasks = FALSE,
                                ![p].faults = @ \union {"task"}]
  /\ UNCHANGED <<files, effects, boots>>

(* wait_for_fatal returns and notify_waiters wakes the futures that wait   *)
(* now; it leaves nothing for one that starts to wait later.               *)
Heard(p) == At(p, "serving")

FatalWakes(p) ==
  /\ process[p].fatal /\ process[p].woken = "no"
  /\ process[p].at \in {"bound", "serving"}
  /\ process' = [process EXCEPT ![p].woken = process[p].at, ![p].told = Heard(p)]
  /\ UNCHANGED <<files, effects, boots>>

(* A SIGTERM or SIGINT, or the notifier of a completed StopDaemon.         *)
AskedToStop(p) ==
  /\ At(p, "serving") /\ ~ process[p].told
  /\ process' = [process EXCEPT ![p].told = TRUE]
  /\ UNCHANGED <<files, effects, boots>>

-----------------------------------------------------------------------------
(* Shutdown.                                                               *)

ServeEnds(p) ==
  /\ At(p, "serving") /\ process[p].told
  /\ process' = [process EXCEPT ![p].at = "ending"]
  /\ UNCHANGED <<files, effects, boots>>

Stopped(p) == kernel' = IF kernel = p THEN Nobody ELSE kernel

(* DaemonRuntime::shutdown stops the kernel first, its error ignored, and  *)
(* the phases stop it again, where an error is kept and the next phase     *)
(* still runs.                                                             *)
StopCore(p) ==
  /\ At(p, "ending")
  /\ \/ Stopped(p)
     \/ "stop" \in DaemonFaults /\ UNCHANGED kernel
  /\ process' = [process EXCEPT ![p].at = "reap"]
  /\ UNCHANGED <<files, engaged, boots>>

AfterReap_GivesUp(failed) == IF failed THEN "join" ELSE "restore"
AfterReap(failed) == "restore"

ReapCore(p) ==
  /\ At(p, "reap")
  /\ \/ Stopped(p) /\ process' = [process EXCEPT ![p].at = AfterReap(FALSE)]
     \/ /\ "stop" \in DaemonFaults /\ UNCHANGED kernel
        /\ process' = [process EXCEPT ![p].at = AfterReap(TRUE),
                                      ![p].faults = @ \union {"core"}]
  /\ UNCHANGED <<files, engaged, boots>>

RestorePlatform(p) ==
  /\ At(p, "restore")
  /\ \/ engaged' = FALSE /\ process' = [process EXCEPT ![p].at = "join"]
     \/ /\ "restore" \in DaemonFaults /\ UNCHANGED engaged
        /\ process' = [process EXCEPT ![p].at = "join", ![p].faults = @ \union {"restore"}]
  /\ UNCHANGED <<files, kernel, boots>>

(* tasks.shutdown cancels the tasks and waits for each; the connections    *)
(* end with the tokio runtime.                                             *)
Joined(p) == process' = [process EXCEPT ![p].at = "unbind", ![p].tasks = FALSE, ![p].queue = 0]

JoinTasks_Unlocks(p) ==
  /\ At(p, "join") /\ Joined(p)
  /\ holder' = Nobody
  /\ UNCHANGED <<socketFile, secretFile, effects, boots>>
JoinTasks(p) ==
  /\ At(p, "join") /\ Joined(p)
  /\ UNCHANGED <<files, effects, boots>>

(* finish_daemon: the file at the socket's path, the secret, then the lock.*)
Unbind(p) ==
  /\ At(p, "unbind")
  /\ socketFile' = Nobody
  /\ process' = [process EXCEPT ![p].at = "unpublish"]
  /\ UNCHANGED <<holder, secretFile, effects, boots>>

Unpublish(p) ==
  /\ At(p, "unpublish")
  /\ secretFile' = Nobody
  /\ process' = [process EXCEPT ![p].at = "release"]
  /\ UNCHANGED <<holder, socketFile, effects, boots>>

Release(p) ==
  /\ At(p, "release")
  /\ holder' = Nobody
  /\ LET was == process[p]
         how == IF was.faults = {} THEN "clean" ELSE "failed"
     IN process' = [process EXCEPT ![p] = [Down(how) EXCEPT !.faults = was.faults,
                                                            !.late = was.late]]
  /\ UNCHANGED <<socketFile, secretFile, effects, boots>>

(* kill -9, or a signal before the accept loop installed its handlers.     *)
Killed(p) ==
  /\ ~ At(p, "down") /\ "kill" \in DaemonFaults
  /\ holder' = IF holder = p THEN Nobody ELSE holder
  /\ process' = [process EXCEPT ![p] = Down("killed")]
  /\ UNCHANGED <<socketFile, secretFile, effects, boots>>

-----------------------------------------------------------------------------
ProcessStep(p) ==
  \/ StartRuntime(p) \/ Bind(p) \/ Listen(p) \/ FatalWakes(p)
  \/ ServeEnds(p) \/ StopCore(p) \/ ReapCore(p) \/ RestorePlatform(p) \/ JoinTasks(p)
  \/ Unbind(p) \/ Unpublish(p) \/ Release(p)

ProcessNext ==
  \E p \in Processes :
    \/ AcquireLock(p) \/ BuildFails(p) \/ ProcessStep(p)
    \/ Admit(p) \/ Handle(p) \/ TaskDies(p) \/ AskedToStop(p) \/ Killed(p)

ProcessSpec == ProcessInit /\ [][ProcessNext]_processVars

(* The main threads and the tasks that wait for a fatal are scheduled.     *)
ProcessRuns == \E p \in Processes : ProcessStep(p)
FairProcessSpec == ProcessSpec /\ WF_processVars(ProcessRuns)

-----------------------------------------------------------------------------
(* A daemon that serves is the one a client reaches: the file at the       *)
(* socket's path is its own, and so is the secret clients read, however    *)
(* its predecessors ended.  finish_daemon (daemon.rs) removes both before  *)
(* it releases the lock, and bind_owner_only replaces what a kill left.    *)
ServingIsReachable ==
  \A p \in Processes : At(p, "serving") => socketFile = p /\ secretFile = p

(* A daemon that shut down undid its engagement, whatever else failed: a   *)
(* core that would not stop does not keep the platform's phase from        *)
(* running (shutdown_runner.rs "later phases still run").  Only a command  *)
(* handled after the restore, or the restore's own failure,                *)
(* leaves the desktop engaged.                                             *)
ShutdownRestores ==
  \A p \in Processes :
    At(p, "release") /\ ~ process[p].late /\ "restore" \notin process[p].faults => ~ engaged

(* What the steps of a process rely on: it has the lock from the first to  *)
(* the last, its files while they are published, its tasks until they are  *)
(* joined, and after the restore phase nobody but a late command engages.  *)
HolderKnows ==
  \A p \in Processes :
    /\ holder = p <=> ~ At(p, "down")
    /\ process[p].at \in {"bound", "serving"} => socketFile = p
    /\ process[p].at \in Places \ {"down", "locked", "release"} => secretFile = p
    /\ process[p].tasks => process[p].at \notin {"down", "locked", "unbind", "unpublish", "release"}
    /\ /\ process[p].at \in {"join", "unbind", "unpublish", "release"}
       /\ ~ process[p].late /\ "restore" \notin process[p].faults
       => ~ engaged

(* The invariant of the daemon processes: the types, a daemon that serves  *)
(* is reachable, and what the steps on the way rely on.                    *)
ProcessInv == ProcessType /\ ServingIsReachable /\ HolderKnows

(* A daemon told to stop, or serving when a task of its runtime fails,     *)
(* ends: no phase waits for another one's success (run_shutdown,           *)
(* finish_daemon), and daemon.rs says "a shared notify stops both on a     *)
(* runtime fatal".                                                         *)
Doomed(p) ==
  process[p].told \/ (At(p, "serving") /\ process[p].fatal /\ process[p].woken # "bound")
DoomedEnds == (\E p \in Processes : Doomed(p)) ~> (\A p \in Processes : ~ Doomed(p))

(* What restore_platform's comment says: a daemon that exits clean has     *)
(* returned the desktop to the state before engagement.                    *)
CleanExitRestores ==
  \A p \in Processes : At(p, "release") /\ process[p].faults = {} => ~ engaged
=============================================================================
