--------------------------- MODULE KernelProcess ---------------------------
(***************************************************************************)
(* The processes a daemon spawns: the process group of a kernel and its    *)
(* runtime owner (caly-platform/src/process, caly-corectl's runtimes), and *)
(* the bounded commands of caly-platform/src/command.  The operating       *)
(* system runs beside them: a kernel enters its session, binds its         *)
(* controller, starts helpers, exits; a daemon is killed.  Deadlines are   *)
(* choices: a wait may end at any of its polls.                            *)
(***************************************************************************)
EXTENDS Naturals, FiniteSets

CONSTANTS
    MaxSpawns,      \* bound on the kernels spawned
    MaxDaemons      \* bound on the daemon processes

ASSUME KernelBounds == MaxSpawns \in Nat /\ MaxDaemons \in Nat \ {0}

VARIABLES
    kernels,        \* the processes of each spawn
    tree,           \* the runtime's tree, 0 when it owns none
    call,           \* the runtime method in progress
    host,           \* the daemon process
    command         \* the bounded command in progress

kernelVars == <<kernels, tree, call, host>>
processVars == <<kernelVars, command>>

Spawns == 1..MaxSpawns
Unused == [main |-> "none", helper |-> FALSE, group |-> "unknown", by |-> 0]
Call(op, at, g) == [op |-> op, at |-> at, of |-> g, graceful |-> FALSE, forced |-> FALSE]
NoCall == Call("none", "idle", 0)
NoBoundedCommand == [at |-> "idle", child |-> "none", helper |-> FALSE, timedOut |-> FALSE]

KernelTypeOK ==
    /\ kernels \in [Spawns -> [main : {"none", "wrapper", "alive", "serving", "exited", "reaped"},
                               helper : BOOLEAN, by : 0..MaxDaemons,
                               group : {"unknown", "own", "helper", "daemon"}]]
    /\ tree \in 0..MaxSpawns
    /\ call \in [op : {"none", "start", "stop", "restart", "drop"},
                 at : {"idle", "discover", "ready", "term", "grace", "force", "reap"},
                 of : 0..MaxSpawns, graceful : BOOLEAN, forced : BOOLEAN]
    /\ host \in [up : BOOLEAN, count : 1..MaxDaemons]
    /\ command \in [at : {"idle", "waiting", "join"}, child : {"none", "alive", "exited", "reaped"},
                    helper : BOOLEAN, timedOut : BOOLEAN]

ProcessInit ==
    /\ kernels = [g \in Spawns |-> Unused]
    /\ tree = 0 /\ call = NoCall /\ command = NoBoundedCommand
    /\ host = [up |-> TRUE, count |-> 1]

KernelAlive(g) == kernels[g].main \in {"wrapper", "alive", "serving"}
Serving == {g \in Spawns : kernels[g].main = "serving"}
InCall(step) == host.up /\ call.at = step
Unspawned == {g \in Spawns : kernels[g].main = "none"}
NextSpawn == CHOOSE g \in Unspawned : TRUE
Wrapper == [main |-> "wrapper", helper |-> FALSE, group |-> "unknown", by |-> host.count]

(***************************************************************************)
(* The runtime's methods                                                   *)
(***************************************************************************)
\* spawn_owned up to the wrapper process; a failing spawn changes nothing.
Spawn(op) ==
    /\ Unspawned # {}
    /\ kernels' = [kernels EXCEPT ![NextSpawn] = Wrapper]
    /\ call' = Call(op, "discover", NextSpawn)

\* start: refused while a tree is owned.
StartKernel ==
    /\ InCall("idle") /\ tree = 0 /\ Spawn("start")
    /\ UNCHANGED <<tree, host>>

\* stop, and the first half of restart: the tree leaves the runtime before it
\* is signalled.
Stop(op) ==
    /\ InCall("idle") /\ tree # 0
    /\ call' = Call(op, "term", tree)
    /\ tree' = 0
    /\ UNCHANGED <<kernels, host>>

\* discover_process_group_id: the group of the wrapper's first child, that
\* child's own id when it is gone before its group is read, and without a child
\* the wrapper's group, which is the daemon's until setsid has run.
Discover ==
    /\ InCall("discover")
    /\ LET k == kernels[call.of]
       IN  \E group \in IF k.helper THEN {"own", "helper"}
                        ELSE {IF k.main = "wrapper" THEN "daemon" ELSE "own"} :
              kernels' = [kernels EXCEPT ![call.of] =
                    [k EXCEPT !.group = group, !.helper = k.helper /\ group # "helper"]]
    /\ call' = [call EXCEPT !.at = "ready"]
    /\ UNCHANGED <<tree, host>>

\* try_wait of an exited child reaps it.
Reap(g) == kernels' = [kernels EXCEPT ![g].main = "reaped"]

\* wait_ready_detecting_exit: any controller that answers at the address will do.
Healthy ==
    /\ InCall("ready") /\ kernels[call.of].main # "exited" /\ Serving # {}
    /\ tree' = call.of /\ call' = NoCall
    /\ UNCHANGED <<kernels, host>>

ReadyFails_Forgets ==
    /\ InCall("ready")
    /\ call' = NoCall
    /\ IF kernels[call.of].main = "exited" THEN Reap(call.of) ELSE UNCHANGED kernels
    /\ UNCHANGED <<tree, host>>

\* It saw the exit, or its deadline passed: the tree is stopped and reaped.
ReadyFails ==
    /\ InCall("ready")
    /\ call' = [call EXCEPT !.at = "term"]
    /\ IF kernels[call.of].main = "exited" THEN Reap(call.of) ELSE UNCHANGED kernels
    /\ UNCHANGED <<tree, host>>

\* The method returns; restart goes on to start when the stop succeeded, and
\* Drop ends with the daemon's exit.
Return(ok) ==
    CASE call.op = "restart" /\ ok /\ Unspawned # {} ->
            /\ kernels' = [kernels EXCEPT ![call.of].main = "reaped", ![NextSpawn] = Wrapper]
            /\ call' = Call("start", "discover", NextSpawn)
            /\ UNCHANGED host
      [] call.op = "drop" -> Reap(call.of) /\ call' = NoCall /\ host' = [host EXCEPT !.up = FALSE]
      [] OTHER -> Reap(call.of) /\ call' = NoCall /\ UNCHANGED host

\* stop_gracefully: an exited child needs no signal; otherwise its group gets
\* TERM.  A group that does not exist, or a kill that cannot run, is an error.
SeesExit ==
    /\ call.at \in {"term", "grace"} /\ host.up
    /\ kernels[call.of].main \in {"exited", "reaped"}
    /\ Return(TRUE)
    /\ UNCHANGED tree

SignalTerm ==
    /\ InCall("term") /\ KernelAlive(call.of)
    /\ \/ /\ kernels[call.of].group \in {"own", "daemon"}
          /\ call' = [call EXCEPT !.at = "grace"]
       \/ call' = [call EXCEPT !.at = "force", !.graceful = TRUE]
    /\ UNCHANGED <<kernels, tree, host>>

GraceEnds ==
    /\ InCall("grace") /\ KernelAlive(call.of)
    /\ call' = [call EXCEPT !.at = "force"]
    /\ UNCHANGED <<kernels, tree, host>>

GroupKilled(k) == [k EXCEPT !.main = IF k.main = "reaped" THEN "reaped" ELSE "exited", !.helper = FALSE]

\* force_kill_tree; KILL to the daemon's own group ends the daemon.
ForceKill ==
    /\ InCall("force")
    /\ \/ /\ kernels[call.of].group = "own"
          /\ kernels' = [kernels EXCEPT ![call.of] = GroupKilled(kernels[call.of])]
          /\ call' = [call EXCEPT !.at = "reap"]
          /\ UNCHANGED <<tree, host>>
       \/ /\ call' = [call EXCEPT !.at = "reap", !.forced = TRUE]
          /\ UNCHANGED <<kernels, tree, host>>
       \/ /\ kernels[call.of].group = "daemon"
          /\ call' = NoCall /\ tree' = 0 /\ host' = [host EXCEPT !.up = FALSE]
          /\ kernels' = [kernels EXCEPT ![call.of] = IF @.main = "wrapper" THEN GroupKilled(@) ELSE @]

\* wait_reaped blocks until the child has exited.
WaitReaped ==
    /\ InCall("reap") /\ kernels[call.of].main = "exited"
    /\ Return(~call.graceful /\ ~call.forced)
    /\ UNCHANGED tree

\* poll_exit of the exit monitor.
PollExit ==
    /\ InCall("idle") /\ tree # 0 /\ kernels[tree].main = "exited"
    /\ Reap(tree) /\ tree' = 0
    /\ UNCHANGED <<call, host>>

\* Drop of a runtime, when the daemon unwinds or returns from main.
Drop ==
    /\ InCall("idle")
    /\ \/ /\ tree # 0
          /\ call' = Call("drop", "term", tree)
          /\ tree' = 0 /\ UNCHANGED <<kernels, host>>
       \/ /\ tree = 0 /\ host' = [host EXCEPT !.up = FALSE]
          /\ UNCHANGED <<kernels, tree, call>>

RuntimeStep ==
    \/ Discover \/ Healthy \/ ReadyFails \/ SeesExit \/ SignalTerm \/ GraceEnds
    \/ ForceKill \/ WaitReaped

(***************************************************************************)
(* The operating system, the kernels and the operator                      *)
(***************************************************************************)
\* setsid runs, the kernel binds its controller unless another kernel holds
\* the address, starts or loses a helper, exits by itself or on TERM.
KernelActs(g) ==
    /\ \/ /\ kernels[g].main = "wrapper"
          /\ kernels' = [kernels EXCEPT ![g].main = "alive"]
       \/ /\ kernels[g].main = "alive"
          /\ kernels' = [kernels EXCEPT ![g].main = IF Serving = {} THEN "serving" ELSE "exited"]
       \/ /\ kernels[g].main \in {"alive", "serving"} /\ ~kernels[g].helper
          /\ kernels' = [kernels EXCEPT ![g].helper = TRUE]
       \/ /\ kernels[g].helper
          /\ kernels' = [kernels EXCEPT ![g].helper = FALSE]
       \/ /\ kernels[g].main \in {"alive", "serving"}
          /\ kernels' = [kernels EXCEPT ![g].main = "exited"]
    /\ UNCHANGED <<tree, call, host>>

\* SIGKILL: no destructor runs.
KillDaemon ==
    /\ host.up
    /\ host' = [host EXCEPT !.up = FALSE]
    /\ tree' = 0 /\ call' = NoCall
    /\ UNCHANGED kernels

BootDaemon ==
    /\ ~host.up /\ host.count < MaxDaemons
    /\ host' = [up |-> TRUE, count |-> host.count + 1]
    /\ UNCHANGED <<kernels, tree, call>>

KernelNext ==
    \/ StartKernel \/ Stop("stop") \/ Stop("restart") \/ PollExit \/ Drop
    \/ RuntimeStep \/ KillDaemon \/ BootDaemon
    \/ \E g \in Spawns : KernelActs(g)

(***************************************************************************)
(* A bounded command: run_bounded                                          *)
(***************************************************************************)
RunBounded ==
    /\ command.at = "idle"
    /\ command' = [NoBoundedCommand EXCEPT !.at = "waiting", !.child = "alive"]

\* wait_until: the child is reaped, or killed and reaped at the deadline; its
\* descendants are not signalled.
WaitUntil ==
    /\ command.at = "waiting"
    /\ \E timedOut \in BOOLEAN :
          /\ timedOut \/ command.child = "exited"
          /\ command' = [command EXCEPT !.at = "join", !.child = "reaped", !.timedOut = timedOut]

\* join_reader twice: read_capped ends when every writer has closed the pipe.
JoinReaders ==
    /\ command.at = "join" /\ ~command.helper
    /\ command' = [command EXCEPT !.at = "idle"]

CommandStep == WaitUntil \/ JoinReaders

\* A command's process ends, and may leave a descendant that holds its pipes.
CommandActs ==
    \/ /\ command.child = "alive"
       /\ \E helper \in BOOLEAN :
             command' = [command EXCEPT !.child = "exited", !.helper = helper \/ command.helper]
    \/ /\ command.child = "alive" /\ ~command.helper
       /\ command' = [command EXCEPT !.helper = TRUE]
    \/ /\ command.helper
       /\ command' = [command EXCEPT !.helper = FALSE]

CommandNext == RunBounded \/ CommandStep \/ CommandActs

\* Kernels and commands share nothing.  The methods run on the daemon's threads:
\* their steps are taken while they are possible.  Nothing is assumed of a kernel, a
\* command, a helper or the operator.
ProcessSpec ==
    /\ ProcessInit
    /\ [][(KernelNext /\ UNCHANGED command) \/ (CommandNext /\ UNCHANGED kernelVars)]_processVars
    /\ WF_processVars(RuntimeStep /\ UNCHANGED command)
    /\ WF_processVars(CommandStep /\ UNCHANGED kernelVars)

(***************************************************************************)
(* Properties                                                              *)
(***************************************************************************)
\* process/mod.rs: "The sole owner of a spawned process tree".  Between two
\* calls every kernel process this daemon spawned that is not reaped is the tree its
\* runtime owns, whatever failed on the way: a start that timed out, a group
\* that could not be signalled, a stop that returned an error.
SpawnedIsOwned ==
    InCall("idle") => \A g \in Spawns :
        kernels[g].by = host.count /\ g # tree => kernels[g].main \in {"none", "reaped"}

\* What the steps of a runtime's method rely on: without a daemon there is no
\* owner, a method in progress has taken the tree it works on, and besides the
\* tree owned and the one worked on every spawn of this daemon is over.
CallsKnow ==
    /\ ~host.up => call = NoCall /\ tree = 0
    /\ call.at = "idle" => call = NoCall
    /\ tree # 0 => kernels[tree].main # "none" /\ kernels[tree].by = host.count
    /\ call.at # "idle" =>
          /\ tree = 0 /\ call.of \in Spawns
          /\ kernels[call.of].main # "none" /\ kernels[call.of].by = host.count
    /\ \A g \in Spawns :
          /\ kernels[g].by <= host.count
          /\ host.up /\ kernels[g].by = host.count /\ g # tree /\ g # call.of =>
                kernels[g].main \in {"none", "reaped"}

\* The process layer: every kernel its daemon spawned is accounted for.
KernelsAccounted == KernelTypeOK /\ SpawnedIsOwned /\ CallsKnow

\* stop_and_reap ends: once a call stops a tree it returns, unless KILL itself
\* could not be delivered, in which case it waits for the kernel to exit.
StopEnds == (InCall("term") \/ InCall("grace")) ~> (~host.up \/ InCall("idle") \/ InCall("discover") \/ call.forced)

\* The calls of the process layer end: a stop as above, and a command within its
\* deadline once no descendant of it holds its output.
CallsEnd == StopEnds /\ ((command.at = "waiting") ~> (command.at = "idle" \/ command.helper))
=============================================================================
