--------------------------- MODULE CoreLifecycle ---------------------------
(***************************************************************************)
(* The two proxy kernels of the daemon, the cell that names the active     *)
(* one, and everyone who drives them: the lifecycle actor (start, stop,    *)
(* switch), the config actor (restart after an apply), the main thread     *)
(* (shutdown) and the exit monitor (restart after a crash, with backoff).  *)
(*                                                                         *)
(* A backend call holds that backend's mutex throughout, so it is one      *)
(* step.  A dispatched call reads the cell, releases it, and calls the     *)
(* backend afterwards: two steps.  A switch holds the cell while it stops  *)
(* the previous kernel and releases it before it starts the target.        *)
(***************************************************************************)
EXTENDS Integers, Sequences, FiniteSets

CONSTANTS
    Kernels,        \* the kernels a daemon can run
    CoreFaults,     \* which calls may fail: subset of {"start", "reap", "poll"}
    Wishes,         \* the commands clients send: subset of {"switch", "stop", "apply"}
    MaxWishes,      \* bound: commands handled
    MaxLost,        \* bound: failed reaps per kernel
    MaxExits,       \* bound: kernel processes that die by themselves
    InitialBackoff, \* kernel.restart.initial_backoff_ms
    MaxBackoff,     \* kernel.restart.max_backoff_ms
    StableTicks     \* polls in STABILIZE_WINDOW_MS

ASSUME CoreBounds ==
    /\ Kernels # {}
    /\ CoreFaults \subseteq {"start", "reap", "poll"}
    /\ Wishes \subseteq {"switch", "stop", "apply"}
    /\ {MaxWishes, MaxLost, MaxExits} \subseteq Nat
    /\ {InitialBackoff, MaxBackoff, StableTicks} \subseteq Nat \ {0}
    /\ InitialBackoff <= MaxBackoff \* kernel.restart is validated at load

VARIABLES
    active,   \* the shared active-core cell
    core,     \* per kernel: the owned process tree and the live processes
    clients,  \* per client thread: where it is, its kernel, switch target, report
    monitor,  \* the exit monitor: where it is, its kernel, the report it owes
    policy,   \* CrashLoopPolicy
    shown,    \* the applied state the projection shows once every report sent
              \* so far is applied; the mailbox is first-in first-out
    daemon,   \* "serving", "stopping", "exited", and whether tasks are cancelled
    used,     \* commands and exits so far
    strays    \* history, for the properties: the kernels restarted behind a switch

vars == <<active, core, clients, monitor, policy, shown, daemon, used, strays>>

Clients == {"lifecycle", "config", "main"}

ClientPlaces == {"idle", "switch", "starts", "flips", "restores", "stop", "restart", "report",
                 "again", "reap", "cancel", "join"}

\* Applied states: <<run state, kernel>>; a stopped core has no kernel.
Stopped == <<"Stopped", "none">>
Running(k) == <<"Running", k>>
Crashed(k) == <<"Crashed", k>>
AppliedStates == {Stopped} \union {Running(k) : k \in Kernels} \union {Crashed(k) : k \in Kernels}
NoReport == <<>>
Owed == {NoReport} \union {<<s>> : s \in AppliedStates}

\* tree: no process tree owned, one whose process lives, one whose process died.
\* live: processes of this kernel; lost: those whose stop failed and whose
\* tree was dropped (a history variable).
Trees == {"none", "live", "dead"}

Policy == [backoff |-> InitialBackoff, crashes |-> 0, stable |-> 0]

Idle == [at |-> "idle", kernel |-> CHOOSE k \in Kernels : TRUE,
         target |-> CHOOSE k \in Kernels : TRUE, report |-> NoReport]

Init ==
    /\ active \in Kernels
    /\ core \in {[k \in Kernels |-> [tree |-> "none", live |-> 0, lost |-> 0]],
                 [k \in Kernels |-> IF k = active THEN [tree |-> "live", live |-> 1, lost |-> 0]
                                                  ELSE [tree |-> "none", live |-> 0, lost |-> 0]]}
    /\ clients = [c \in Clients |-> Idle]
    /\ monitor = [at |-> "poll", kernel |-> active, report |-> NoReport]
    /\ policy = Policy
    /\ shown = IF core[active].tree = "live" THEN Running(active) ELSE Stopped
    /\ daemon = [phase |-> "serving", cancelled |-> FALSE]
    /\ used = [wishes |-> 0, exits |-> 0]
    /\ strays = {}

-----------------------------------------------------------------------------
(* What a backend call may do to its kernel: the new state, and success. *)

Outcome(c, ok) == [core |-> c, ok |-> ok]

Spawned(c) == [tree |-> "live", live |-> c.live + 1, lost |-> c.lost]

\* Reaping an owned tree.  A failed reap has already given the tree away.
ReapOutcomes(c) ==
    LET alive == IF c.tree = "live" THEN 1 ELSE 0
    IN  {Outcome([tree |-> "none", live |-> c.live - alive, lost |-> c.lost], TRUE)}
        \union (IF "reap" \in CoreFaults /\ c.lost < MaxLost
                THEN {Outcome([tree |-> "none", live |-> c.live, lost |-> c.lost + alive], FALSE)}
                ELSE {})

\* Starting with no tree: the kernel comes up, or it does not get ready and
\* is reaped, successfully or not, without ever having been owned.
StartOutcomes(c) ==
    IF c.tree # "none"
    THEN {Outcome(c, TRUE)}
    ELSE {Outcome(Spawned(c), TRUE)}
         \union (IF "start" \in CoreFaults
                 THEN {Outcome(o.core, FALSE) : o \in ReapOutcomes(Spawned(c))}
                 ELSE {})

StopOutcomes(c) == IF c.tree = "none" THEN {Outcome(c, TRUE)} ELSE ReapOutcomes(c)

RestartOutcomes_KeepsOld(c) == {Outcome(Spawned(c), TRUE)}

RestartOutcomes(c) ==
    UNION {IF o.ok THEN StartOutcomes(o.core) ELSE {o} : o \in StopOutcomes(c)}

MidSwitch == clients["lifecycle"].at \in {"starts", "flips", "restores"}

\* A call on kernel k has outcome o.
Calls(k, o) == core' = [core EXCEPT ![k] = o.core] /\ UNCHANGED strays

\* A restart was dispatched some time ago: by now the cell may name another
\* kernel, or a switch be under way.
CallsRestart(k, o) ==
    /\ core' = [core EXCEPT ![k] = o.core]
    /\ strays' = IF k # active \/ MidSwitch THEN strays \union {k} ELSE strays

-----------------------------------------------------------------------------
(* The lifecycle actor. *)

Goto(c, at) == clients' = [clients EXCEPT ![c].at = at]

\* A finished call leaves the report to send: the state, or none on failure,
\* where the report carries no delta.
Finish(c, ok, state) ==
    clients' = [clients EXCEPT ![c] = IF ok THEN [@ EXCEPT !.at = "report", !.report = <<state>>]
                                            ELSE Idle]

TakesWish(c, wish) ==
    /\ wish \in Wishes
    /\ ~daemon.cancelled
    /\ clients[c].at = "idle"
    /\ used.wishes < MaxWishes
    /\ used' = [used EXCEPT !.wishes = @ + 1]

SwitchCore(k) ==
    /\ TakesWish("lifecycle", "switch")
    /\ clients' = [clients EXCEPT !["lifecycle"] = [@ EXCEPT !.at = "switch", !.target = k]]
    /\ UNCHANGED <<active, core, monitor, policy, shown, daemon, strays>>

\* Under the cell's lock: restart the active kernel if it is the target ...
SwitchSame ==
    LET c == "lifecycle" IN
    /\ clients[c].at = "switch"
    /\ clients[c].target = active
    /\ \E o \in RestartOutcomes(core[active]) : Calls(active, o) /\ Finish(c, o.ok, Running(active))
    /\ UNCHANGED <<active, monitor, policy, shown, daemon, used>>

\* ... or stop the previous kernel and, if that works, move the cell.
SwitchStops ==
    LET c == "lifecycle" IN
    /\ clients[c].at = "switch"
    /\ clients[c].target # active
    /\ \E o \in StopOutcomes(core[active]) :
          /\ Calls(active, o)
          /\ active' = IF o.ok THEN clients[c].target ELSE active
          /\ clients' = [clients EXCEPT ![c] = IF o.ok THEN [@ EXCEPT !.at = "starts", !.kernel = active]
                                                       ELSE Idle]
    /\ UNCHANGED <<monitor, policy, shown, daemon, used>>

SwitchStarts ==
    LET c == "lifecycle"
        k == clients[c].target IN
    /\ clients[c].at = "starts"
    /\ \E o \in StartOutcomes(core[k]) :
          /\ Calls(k, o)
          /\ IF o.ok THEN Finish(c, TRUE, Running(k)) ELSE Goto(c, "flips")
    /\ UNCHANGED <<active, monitor, policy, shown, daemon, used>>

\* The target did not start: the cell goes back to the previous kernel,
SwitchFlips ==
    /\ clients["lifecycle"].at = "flips"
    /\ active' = clients["lifecycle"].kernel
    /\ Goto("lifecycle", "restores")
    /\ UNCHANGED <<core, monitor, policy, shown, daemon, used, strays>>

\* which is started again, best effort; the command has failed either way.
SwitchRestores ==
    LET c == "lifecycle"
        k == clients[c].kernel IN
    /\ clients[c].at = "restores"
    /\ \E o \in StartOutcomes(core[k]) : Calls(k, o)
    /\ clients' = [clients EXCEPT ![c] = Idle]
    /\ UNCHANGED <<active, monitor, policy, shown, daemon, used>>

\* Dispatched calls: the cell is read here, the backend called later.
StopCore ==
    /\ TakesWish("lifecycle", "stop")
    /\ clients' = [clients EXCEPT !["lifecycle"] = [@ EXCEPT !.at = "stop", !.kernel = active]]
    /\ UNCHANGED <<active, core, monitor, policy, shown, daemon, strays>>

Stops ==
    LET c == "lifecycle"
        k == clients[c].kernel IN
    /\ clients[c].at = "stop"
    /\ \E o \in StopOutcomes(core[k]) : Calls(k, o) /\ Finish(c, o.ok, Stopped)
    /\ UNCHANGED <<active, monitor, policy, shown, daemon, used>>

-----------------------------------------------------------------------------
(* The config actor: an apply that cannot hot-reload restarts the core. *)

ApplyConfig ==
    /\ TakesWish("config", "apply")
    /\ clients' = [clients EXCEPT !["config"] = [@ EXCEPT !.at = "restart", !.kernel = active]]
    /\ UNCHANGED <<active, core, monitor, policy, shown, daemon, strays>>

\* Its report names whatever kernel the cell holds by then.
Restarts ==
    LET c == "config"
        k == clients[c].kernel IN
    /\ clients[c].at = "restart"
    /\ \E o \in RestartOutcomes(core[k]) : CallsRestart(k, o) /\ Finish(c, o.ok, Running(active))
    /\ UNCHANGED <<active, monitor, policy, shown, daemon, used>>

\* The report goes into the result mailbox after the call, with no lock held.
SendsReport(c) ==
    /\ clients[c].at = "report"
    /\ shown' = clients[c].report[1]
    /\ clients' = [clients EXCEPT ![c] = Idle]
    /\ UNCHANGED <<active, core, monitor, policy, daemon, used, strays>>

-----------------------------------------------------------------------------
(* CrashLoopPolicy.  Only "first crash" and "later crash" are told apart.  *)

Min(a, b) == IF a < b THEN a ELSE b
Grown(p) == [p EXCEPT !.backoff = Min(2 * @, MaxBackoff)]

OnCrash(p) ==
    LET counted == [p EXCEPT !.crashes = Min(@ + 1, 2), !.stable = 0]
    IN  IF counted.crashes > 1 THEN Grown(counted) ELSE counted

OnRestartFailed(p) == Grown([p EXCEPT !.stable = 0])

WindowElapses(p) == p.stable + 1 >= StableTicks

OnStableTick(p) == IF WindowElapses(p) THEN Policy ELSE [p EXCEPT !.stable = @ + 1]

-----------------------------------------------------------------------------
(* The exit monitor. *)

MonitorAt(at) == monitor.at = at /\ ~daemon.cancelled

\* poll_abnormal_exit reads the cell ...
MonitorReads ==
    /\ MonitorAt("poll")
    /\ monitor' = [monitor EXCEPT !.at = "polls", !.kernel = active]
    /\ UNCHANGED <<active, core, clients, policy, shown, daemon, used, strays>>

MonitorFindsExit_Ignores ==
    LET k == monitor.kernel IN
    /\ monitor.at = "polls"
    /\ core[k].tree = "dead"
    /\ core' = [core EXCEPT ![k].tree = "none"]
    /\ monitor' = [monitor EXCEPT !.at = "poll"]
    /\ UNCHANGED <<active, clients, policy, shown, daemon, used, strays>>

\* ... then asks that kernel's backend, which gives up a dead tree.
MonitorFindsExit ==
    LET k == monitor.kernel IN
    /\ monitor.at = "polls"
    /\ core[k].tree = "dead"
    /\ core' = [core EXCEPT ![k].tree = "none"]
    /\ monitor' = [monitor EXCEPT !.at = "crashed", !.report = <<Crashed(k)>>]
    /\ UNCHANGED <<active, clients, policy, shown, daemon, used, strays>>

MonitorReportsCrash ==
    /\ monitor.at = "crashed"
    /\ shown' = monitor.report[1]
    /\ policy' = OnCrash(policy)
    /\ monitor' = [monitor EXCEPT !.at = "backoff", !.report = NoReport]
    /\ UNCHANGED <<active, core, clients, daemon, used, strays>>

\* Nothing to report: the stable window advances, whatever the core is doing.
\* When it elapses the policy is reset and an observation without an applied
\* state is published.
MonitorTicks ==
    /\ monitor.at = "polls"
    /\ core[monitor.kernel].tree # "dead"
    /\ policy' = OnStableTick(policy)
    /\ monitor' = [monitor EXCEPT !.at = "poll"]
    /\ UNCHANGED <<active, core, clients, shown, daemon, used, strays>>

\* A failed poll ends the monitor's task, which cancels every task.
MonitorPollFails ==
    /\ monitor.at = "polls"
    /\ "poll" \in CoreFaults
    /\ core[monitor.kernel].tree # "none"
    /\ monitor' = [monitor EXCEPT !.at = "done"]
    /\ daemon' = [daemon EXCEPT !.cancelled = TRUE]
    /\ UNCHANGED <<active, core, clients, policy, shown, used, strays>>

\* The backoff has passed: the restart reads the cell ...
MonitorRetries ==
    /\ MonitorAt("backoff")
    /\ monitor' = [monitor EXCEPT !.at = "restarts", !.kernel = active]
    /\ UNCHANGED <<active, core, clients, policy, shown, daemon, used, strays>>

\* ... and calls the backend.
MonitorRestarts ==
    LET k == monitor.kernel IN
    /\ monitor.at = "restarts"
    /\ \E o \in RestartOutcomes(core[k]) :
          /\ CallsRestart(k, o)
          /\ policy' = IF o.ok THEN policy ELSE OnRestartFailed(policy)
          /\ monitor' = IF o.ok THEN [monitor EXCEPT !.at = "recovered", !.report = <<Running(k)>>]
                                ELSE [monitor EXCEPT !.at = "backoff"]
    /\ UNCHANGED <<active, clients, shown, daemon, used>>

MonitorReportsRecovery_Resets ==
    /\ monitor.at = "recovered"
    /\ shown' = monitor.report[1]
    /\ policy' = Policy
    /\ monitor' = [monitor EXCEPT !.at = "poll", !.report = NoReport]
    /\ UNCHANGED <<active, core, clients, daemon, used, strays>>

MonitorReportsRecovery ==
    /\ monitor.at = "recovered"
    /\ shown' = monitor.report[1]
    /\ monitor' = [monitor EXCEPT !.at = "poll", !.report = NoReport]
    /\ UNCHANGED <<active, core, clients, policy, daemon, used, strays>>

MonitorEnds ==
    /\ monitor.at \in {"poll", "backoff"}
    /\ daemon.cancelled
    /\ monitor' = [monitor EXCEPT !.at = "done"]
    /\ UNCHANGED <<active, core, clients, policy, shown, daemon, used, strays>>

-----------------------------------------------------------------------------
(* The kernels and the daemon's end. *)

KernelExits(k) ==
    /\ core[k].tree = "live"
    /\ used.exits < MaxExits
    /\ used' = [used EXCEPT !.exits = @ + 1]
    /\ core' = [core EXCEPT ![k] = [tree |-> "dead", live |-> @.live - 1, lost |-> @.lost]]
    /\ UNCHANGED <<active, clients, monitor, policy, shown, daemon, strays>>

\* The serve loop ends; the main thread stops the core, twice: stop_core, then
\* the StopAndReapCore phase.
ServeEnds ==
    /\ daemon.phase = "serving"
    /\ daemon' = [daemon EXCEPT !.phase = "stopping"]
    /\ clients' = [clients EXCEPT !["main"] = [@ EXCEPT !.at = "stop", !.kernel = active]]
    /\ UNCHANGED <<active, core, monitor, policy, shown, used, strays>>

MainStops ==
    LET k == clients["main"].kernel IN
    /\ clients["main"].at \in {"stop", "reap"}
    /\ \E o \in StopOutcomes(core[k]) : Calls(k, o)
    /\ Goto("main", IF clients["main"].at = "stop" THEN "again" ELSE "cancel")
    /\ UNCHANGED <<active, monitor, policy, shown, daemon, used>>

MainStopsAgain ==
    /\ clients["main"].at = "again"
    /\ clients' = [clients EXCEPT !["main"] = [@ EXCEPT !.at = "reap", !.kernel = active]]
    /\ UNCHANGED <<active, core, monitor, policy, shown, daemon, used, strays>>

\* Only after every phase are the tasks cancelled and awaited.
CancelsTasks ==
    /\ clients["main"].at = "cancel"
    /\ daemon' = [daemon EXCEPT !.cancelled = TRUE]
    /\ Goto("main", "join")
    /\ UNCHANGED <<active, core, monitor, policy, shown, used, strays>>

\* The last owner of each backend is dropped, and Drop reaps a tree it holds.
Drops(c) == IF c.tree = "none" THEN {c} ELSE {o.core : o \in ReapOutcomes(c)}

Exits ==
    /\ clients["main"].at = "join"
    /\ monitor.at = "done"
    /\ \A c \in Clients \ {"main"} : clients[c].at = "idle"
    /\ \E left \in [Kernels -> UNION {Drops(core[k]) : k \in Kernels}] :
          /\ \A k \in Kernels : left[k] \in Drops(core[k])
          /\ core' = left
    /\ daemon' = [daemon EXCEPT !.phase = "exited"]
    /\ clients' = [clients EXCEPT !["main"] = Idle]
    /\ UNCHANGED <<active, monitor, policy, shown, used, strays>>

MonitorNext ==
    \/ MonitorReads \/ MonitorFindsExit \/ MonitorReportsCrash \/ MonitorTicks
    \/ MonitorPollFails \/ MonitorRetries \/ MonitorRestarts
    \/ MonitorReportsRecovery \/ MonitorEnds

ClientNext ==
    \/ SwitchSame \/ SwitchStops \/ SwitchStarts \/ SwitchFlips \/ SwitchRestores
    \/ Stops \/ Restarts \/ (\E c \in Clients : SendsReport(c))

Next ==
    \/ \E k \in Kernels : SwitchCore(k) \/ KernelExits(k)
    \/ StopCore \/ ApplyConfig
    \/ ClientNext
    \/ MonitorNext
    \/ ServeEnds \/ MainStops \/ MainStopsAgain \/ CancelsTasks \/ Exits

Spec == Init /\ [][Next]_vars

\* Actor threads and the monitor task are scheduled; a running daemon never stops.
FairSpec == Spec /\ WF_vars(ClientNext) /\ WF_vars(MonitorNext)

-----------------------------------------------------------------------------
(* Properties. *)

\* Every variable stays in its type, and the backoff within its bounds: a
\* restart never waits longer than the configured ceiling.
CoreTypeOK ==
    /\ active \in Kernels
    /\ core \in [Kernels -> [tree : Trees, live : Nat, lost : Nat]]
    /\ clients \in [Clients -> [at : ClientPlaces, kernel : Kernels, target : Kernels, report : Owed]]
    /\ monitor \in [at : {"poll", "polls", "crashed", "backoff", "restarts", "recovered", "done"},
                    kernel : Kernels, report : Owed]
    /\ policy \in [backoff : InitialBackoff .. MaxBackoff, crashes : 0..2, stable : 0 .. StableTicks - 1]
    /\ shown \in AppliedStates
    /\ daemon \in [phase : {"serving", "stopping", "exited"}, cancelled : BOOLEAN]
    /\ used \in [wishes : 0..MaxWishes, exits : 0..MaxExits]
    /\ strays \subseteq Kernels

\* Whoever starts, stops or switches in whatever order, a live kernel
\* process is the one its backend owns or one whose reaping failed: no call
\* spawns over a running kernel or forgets one.
ProcessesOwned ==
    \A k \in Kernels : core[k].live = core[k].lost + (IF core[k].tree = "live" THEN 1 ELSE 0)

\* A kernel revived behind the shutdown's back does not outlive the daemon: when
\* the process has exited only kernels whose reaping failed are left.
ExitLeavesNothing ==
    daemon.phase = "exited" => \A k \in Kernels : core[k].tree = "none" /\ core[k].live = core[k].lost

\* No kernel but the active one has a process tree, neither between commands nor
\* during a switch, also after one that failed half way
\* (DualCoreLifecycle::switch_to).  The one way to a second kernel is a restart
\* dispatched before a switch and carried out behind it.
OnlyActiveOwned == \A k \in Kernels \ {active} : core[k].tree = "none" \/ k \in strays

\* What the threads know between their steps.  A report is owed where one is
\* sent.  A switch under way has moved the cell to its target, which has no tree
\* when its start has failed, and back again before it restores.  Only the main
\* thread ends the daemon, and nobody is left to act once it has.
ThreadsKnow ==
    /\ \A c \in Clients : clients[c].at = "report" => clients[c].report # NoReport
    /\ monitor.at \in {"crashed", "recovered"} => monitor.report # NoReport
    /\ LET switch == clients["lifecycle"] IN
          /\ switch.at \in {"starts", "flips"} => active = switch.target
          /\ switch.at = "flips" => core[active].tree = "none" \/ active \in strays
          /\ switch.at = "restores" => active = switch.kernel
    /\ clients["main"].at # "idle" => daemon.phase = "stopping"
    /\ clients["main"].at = "join" => daemon.cancelled
    /\ daemon.phase = "exited" =>
          daemon.cancelled /\ monitor.at = "done" /\ \A c \in Clients : clients[c].at = "idle"

\* The invariant of the kernels: every live process is owned, only the active
\* core's runtime owns one between commands, a daemon that exited left none, and
\* what the threads know between their steps.
KernelsOwned == CoreTypeOK /\ ProcessesOwned /\ ExitLeavesNothing /\ OnlyActiveOwned /\ ThreadsKnow

\* The backoff shrinks only when a full stable window has elapsed in the polling
\* loop: a successful restart alone never resets it.
RestartNeverResets ==
    [][policy'.backoff < policy.backoff =>
          monitor.at = "polls" /\ policy.stable = StableTicks - 1]_vars

\* A kernel that died is brought back by the monitor, unless the daemon is
\* stopping or its tasks are cancelled; checked where starts do not fail and
\* the operator does not stop the core.
SelfHeals ==
    core[active].tree = "dead"
       ~> (core[active].tree = "live" \/ daemon.phase # "serving" \/ daemon.cancelled)
=============================================================================
