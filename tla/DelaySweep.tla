----------------------------- MODULE DelaySweep -----------------------------
(***************************************************************************)
(* The latency sweep of the client (caly-cli's client/execute/delay.rs)    *)
(* and the live picker that runs one in the background (execute/ops.rs,    *)
(* client/interact_live.rs).  The sweep reads the daemon's snapshot and    *)
(* the kernel's names, then workers empty a shared list of targets.  A     *)
(* probe's answer is the kernel's, a median or why there is none; what a   *)
(* probe does is in KernelControl.                                         *)
(***************************************************************************)
EXTENDS Integers, Sequences, FiniteSets, SequencesExt

CONSTANTS
    SweepNodes,     \* 1..n, the order of the snapshot's nodes
    Workers,        \* 1..n, n at most MAX_CONCURRENT_PROBES
    Medians,        \* what a reachable node may answer
    MaxPresses,     \* bound on the sweeps a picker starts
    MaxChanges      \* bound on the changes of the running core

VARIABLES
    controller,     \* the running core: its kind, its state, the nodes it has
    sweep,          \* the sweep in progress, or the last
    targets,        \* the shared list
    worker,         \* each worker's step
    counts,         \* the counters done and dead
    header,         \* the picker's PingState
    probes          \* history: the answers each node was given

sweepVars == <<controller, sweep, targets, worker, counts, header, probes>>

SweepCores == {"mihomo", "sing_box"}
\* "starting" stands for starting and stopping, "stopped" for the states at rest.
RunStates == {"running", "starting", "stopped"}
\* A row's outcome is a median or one of these; NoOutcome is neither.
Unreachable == -1
ProbeFailed == -2
NotInKernel == -3
NoOutcome == -4
Dead == {Unreachable, ProbeFailed}
Answers == Dead \cup Medians
IdleWorker == [pc |-> "none", node |-> 0, outcome |-> NoOutcome, done |-> 0, dead |-> 0, local |-> <<>>]
NoSweep == [pc |-> "none", live |-> FALSE, core |-> "none", state |-> "none", has |-> {}, ok |-> FALSE,
            rows |-> [n \in SweepNodes |-> Unreachable]]
NoHeader == [running |-> FALSE, done |-> 0, total |-> 0, dead |-> 0, everRan |-> FALSE, failed |-> FALSE]

\* The core that is not the fallback of active_core_kind runs at first.
SweepInit ==
    /\ controller \in [core : {"sing_box"}, state : {"running"}, has : SUBSET SweepNodes, changes : {0}]
    /\ sweep = NoSweep /\ targets = <<>>
    /\ worker = [w \in Workers |-> IdleWorker]
    /\ counts = [done |-> 0, dead |-> 0, presses |-> 0]
    /\ header = NoHeader
    /\ probes = [n \in SweepNodes |-> <<>>]

Ended == sweep.pc \in {"none", "ended"}

\* The core is switched, applied again or stopped behind the sweep; only one that
\* runs has nodes to answer for.
CoreChanges ==
    /\ controller.changes < MaxChanges
    /\ \E core \in SweepCores, state \in RunStates, has \in SUBSET SweepNodes :
          /\ has = {} \/ state = "running"
          /\ controller' = [core |-> core, state |-> state, has |-> has, changes |-> controller.changes + 1]
    /\ UNCHANGED <<sweep, targets, worker, counts, header, probes>>

Begin(live) ==
    /\ sweep' = [NoSweep EXCEPT !.pc = "snapshot", !.live = live]
    /\ counts' = [done |-> 0, dead |-> 0, presses |-> counts.presses + 1]
    /\ probes' = [n \in SweepNodes |-> <<>>]

Press_Unlocked ==
    /\ counts.presses < MaxPresses /\ (sweep.live \/ Ended)
    /\ header' = [NoHeader EXCEPT !.running = TRUE, !.everRan = TRUE]
    /\ Begin(TRUE)
    /\ UNCHANGED <<controller, targets, worker>>

\* Enter on the picker's first row: nothing while a sweep runs; the header is
\* reset on the picker's own thread before the sweep's thread is spawned.
Press ==
    /\ counts.presses < MaxPresses /\ ~header.running /\ (sweep.live \/ Ended)
    /\ header' = [NoHeader EXCEPT !.running = TRUE, !.everRan = TRUE]
    /\ Begin(TRUE)
    /\ UNCHANGED <<controller, targets, worker>>

\* delay --all and core select --delay sweep without a picker.
Sweep ==
    /\ counts.presses < MaxPresses /\ Ended /\ ~header.everRan
    /\ Begin(FALSE)
    /\ UNCHANGED <<controller, targets, worker, header>>

\* The sweep's result and, in a picker, the header: only running and failed
\* change.
SettleHeader(ok) ==
    header' = IF sweep.live THEN [header EXCEPT !.running = FALSE, !.failed = @ \/ ~ok] ELSE header

EndSweep(ok) ==
    /\ sweep' = [sweep EXCEPT !.pc = "ended", !.ok = ok]
    /\ SettleHeader(ok)

\* The daemon or the controller cannot be reached.
SweepFails ==
    /\ sweep.pc \in {"snapshot", "again", "reconcile"}
    /\ EndSweep(FALSE)
    /\ UNCHANGED <<controller, targets, worker, counts, probes>>

\* client.snapshot gives the nodes and the state.
ReadSnapshot ==
    /\ sweep.pc = "snapshot"
    /\ sweep' = [sweep EXCEPT !.pc = "core", !.state = controller.state]
    /\ UNCHANGED <<controller, targets, worker, counts, header, probes>>

\* active_core_kind: another snapshot, and a failing one means mihomo.
\* checked_run_state then refuses a core that does not run, but reads one that is
\* starting or stopping again.
ReadCore ==
    /\ sweep.pc = "core"
    /\ \E core \in {controller.core, "mihomo"} :
          CASE sweep.state = "running" ->
                 sweep' = [sweep EXCEPT !.pc = "reconcile", !.core = core] /\ UNCHANGED header
            [] sweep.state = "starting" ->
                 sweep' = [sweep EXCEPT !.pc = "again", !.core = core] /\ UNCHANGED header
            [] OTHER -> EndSweep(FALSE)
    /\ UNCHANGED <<controller, targets, worker, counts, probes>>

ReadAgain ==
    /\ sweep.pc = "again"
    /\ IF controller.state = "running" THEN sweep' = [sweep EXCEPT !.pc = "reconcile"] /\ UNCHANGED header
       ELSE EndSweep(FALSE)
    /\ UNCHANGED <<controller, targets, worker, counts, probes>>

\* reconcile_kernel_targets and build_control_pool.  Each core has a controller
\* of its own, so only the core the sweep asks can answer; any number of workers
\* from one on gets a controller, none more than there are targets.
ReconcileTargets ==
    /\ sweep.pc = "reconcile" /\ controller.state = "running" /\ controller.core = sweep.core
    /\ LET found == SelectSeq([n \in SweepNodes |-> n], LAMBDA n : n \in controller.has)
           rows == [n \in SweepNodes |-> IF n \in controller.has THEN Unreachable ELSE NotInKernel]
       IN  IF found = <<>>
           THEN /\ sweep' = [sweep EXCEPT !.pc = "ended", !.ok = TRUE, !.rows = rows]
                /\ SettleHeader(TRUE)
                /\ UNCHANGED <<targets, worker>>
           ELSE /\ targets' = found
                /\ sweep' = [sweep EXCEPT !.pc = "probing", !.has = controller.has, !.rows = rows]
                /\ \E pool \in Workers :
                      /\ pool <= Len(found)
                      /\ worker' = [w \in Workers |-> [IdleWorker EXCEPT !.pc = IF w <= pool THEN "pop" ELSE "none"]]
                /\ UNCHANGED header
    /\ UNCHANGED <<controller, counts, probes>>

Step(w, pc) == worker' = [worker EXCEPT ![w].pc = pc]

Pop_Peeks(w) ==
    /\ worker[w].pc = "pop"
    /\ IF targets = <<>> THEN Step(w, "joined") /\ UNCHANGED targets
       ELSE /\ worker' = [worker EXCEPT ![w].pc = "probe", ![w].node = Last(targets)]
            /\ targets' \in {targets, Front(targets)}
    /\ UNCHANGED <<controller, sweep, counts, header, probes>>

\* The guard of the shared list covers the pop; an empty list ends the worker.
Pop(w) ==
    /\ worker[w].pc = "pop"
    /\ IF targets = <<>> THEN Step(w, "joined") /\ UNCHANGED targets
       ELSE /\ worker' = [worker EXCEPT ![w].pc = "probe", ![w].node = Last(targets)]
            /\ targets' = Front(targets)
    /\ UNCHANGED <<controller, sweep, counts, header, probes>>

\* probe_delay; a deadline is an unreachable node, any other error a failed probe.
Probe(w) ==
    /\ worker[w].pc = "probe"
    /\ \E answer \in IF controller.state = "running" /\ controller.core = sweep.core /\ worker[w].node \in controller.has
                     THEN Answers ELSE {ProbeFailed} :
          /\ worker' = [worker EXCEPT ![w].outcome = answer, ![w].pc = IF answer \in Dead THEN "dead" ELSE "count"]
          /\ probes' = [probes EXCEPT ![worker[w].node] = Append(@, answer)]
    /\ UNCHANGED <<controller, sweep, targets, counts, header>>

CountDead(w) ==
    /\ worker[w].pc = "dead"
    /\ counts' = [counts EXCEPT !.dead = @ + 1]
    /\ Step(w, "count")
    /\ UNCHANGED <<controller, sweep, targets, header, probes>>

\* The picker's map of medians is only shown; then done is counted.
CountDone(w) ==
    /\ worker[w].pc = "count"
    /\ counts' = [counts EXCEPT !.done = @ + 1]
    /\ worker' = [worker EXCEPT ![w].pc = "load", ![w].done = counts.done + 1]
    /\ UNCHANGED <<controller, sweep, targets, header, probes>>

LoadDead(w) ==
    /\ worker[w].pc = "load"
    /\ worker' = [worker EXCEPT ![w].pc = "report", ![w].dead = counts.dead]
    /\ UNCHANGED <<controller, sweep, targets, counts, header, probes>>

\* The callback replaces the header; the row is kept in the worker's own list.
ReportProgress(w) ==
    /\ worker[w].pc = "report"
    /\ header' = IF sweep.live
                 THEN [NoHeader EXCEPT !.running = TRUE, !.everRan = TRUE, !.done = worker[w].done,
                                       !.dead = worker[w].dead, !.total = Cardinality(sweep.has)]
                 ELSE header
    /\ worker' = [worker EXCEPT ![w] =
            [IdleWorker EXCEPT !.pc = "pop", !.local = Append(worker[w].local, <<worker[w].node, worker[w].outcome>>)]]
    /\ UNCHANGED <<controller, sweep, targets, counts, probes>>

\* Every worker is joined before the rows are filled in.
Collect ==
    /\ sweep.pc = "probing" /\ \A w \in Workers : worker[w].pc \in {"none", "joined"}
    /\ LET results == UNION {ToSet(worker[w].local) : w \in Workers}
       IN  sweep' = [sweep EXCEPT !.pc = "ended", !.ok = TRUE,
               !.rows = [n \in SweepNodes |->
                   LET of == {r \in results : r[1] = n}
                   IN  IF of = {} THEN sweep.rows[n] ELSE (CHOOSE r \in of : TRUE)[2]]]
    /\ SettleHeader(TRUE)
    /\ worker' = [w \in Workers |-> IdleWorker]
    /\ UNCHANGED <<controller, targets, counts, probes>>

\* lowest_latency_node: the first row with the lowest median, none when no row
\* is reachable.
LowestLatencyNode(rows) ==
    LET reachable == {n \in SweepNodes : rows[n] \in Medians}
    IN  IF reachable = {} THEN 0
        ELSE CHOOSE n \in reachable : \A m \in reachable :
                rows[n] < rows[m] \/ (rows[n] = rows[m] /\ n <= m)

WorkerStep(w) ==
    Pop(w) \/ Probe(w) \/ CountDead(w) \/ CountDone(w) \/ LoadDead(w) \/ ReportProgress(w)
SweepStep ==
    \/ SweepFails \/ ReadSnapshot \/ ReadCore \/ ReadAgain \/ ReconcileTargets \/ Collect
    \/ \E w \in Workers : WorkerStep(w)
SweepNext == CoreChanges \/ Press \/ Sweep \/ SweepStep
SweepSpec == SweepInit /\ [][SweepNext]_sweepVars /\ WF_sweepVars(SweepStep)

\* "Every failure mode stays distinct".  Whatever the core does meanwhile, a sweep
\* that succeeds probed each node of the kernel's list once and no other, shows
\* each row its own answer, and picks a node no probe answered faster than.  The
\* picker's header says running exactly while its sweep runs and failed exactly
\* after one that failed, and it never counts more dead than there are.
SweepTellsTruth ==
    LET ended == sweep.pc = "ended" /\ sweep.ok
        best == LowestLatencyNode(sweep.rows)
        dead == {n \in SweepNodes : \E i \in DOMAIN probes[n] : probes[n][i] \in Dead}
    IN  /\ ended => \A n \in SweepNodes :
              IF n \in sweep.has THEN probes[n] = <<sweep.rows[n]>>
              ELSE sweep.rows[n] = NotInKernel /\ probes[n] = <<>>
        /\ ended /\ best # 0 =>
              \A n \in sweep.has : probes[n][1] \in Dead \/ probes[best][1] <= probes[n][1]
        /\ header.running <=> sweep.live /\ ~Ended
        /\ sweep.live /\ Ended => header.failed = ~sweep.ok
        /\ header.dead <= Cardinality(dead) /\ header.done <= header.total

\* "a double-Enter can never launch two sweeps": one begins only when the last has
\* ended; and each ends, however the core changes under it.
SweepsTakeTurns ==
    /\ [][counts'.presses # counts.presses => Ended]_sweepVars
    /\ sweep.pc = "snapshot" ~> Ended
=============================================================================
