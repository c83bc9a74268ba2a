-------------------------- MODULE BackgroundTasks ---------------------------
(***************************************************************************)
(* What the background tasks carry to the projection and to the kernel     *)
(* document: observed states, and refreshed subscriptions.                 *)
(***************************************************************************)
EXTENDS Integers, Sequences

(***************************************************************************)
(* The two writers of the projection's observed state.  The telemetry      *)
(* scheduler asks the telemetry actor for a sample on every tick and       *)
(* reports the sampled cell when it differs from the last one it reported. *)
(* The exit monitor reports its own copy, with the restart counters, on a  *)
(* crash, after a restart and whenever its stable window elapses.  Both    *)
(* replace the whole state.                                                *)
(***************************************************************************)
CONSTANTS
    Rates,          \* traffic rates; 0 is what an unreachable kernel yields
    SampleQueue,    \* capacity of the telemetry actor's mailbox
    ResultQueue,    \* capacity of the result mailbox
    MaxRestarts,    \* bound: restarts by the monitor
    MaxChanges      \* bound: changes of the kernel's rate

ASSUME TelemetryBounds ==
    /\ 0 \in Rates /\ Rates \subseteq Nat
    /\ {SampleQueue, ResultQueue} \subseteq Nat \ {0}
    /\ {MaxRestarts, MaxChanges} \subseteq Nat

VARIABLES
    kernel,   \* the rate the kernel's API would answer now, and changes so far
    samples,  \* sample requests in the telemetry actor's mailbox
    cell,     \* the observed cell shared by the actor and the scheduler
    last,     \* last_observed: the state last reported, at most one
    monitorCell, \* the monitor's own observed state
    results,  \* the result mailbox: who reported what
    observed, \* the projection's observed state
    taken,    \* history: the last telemetry report it took, at first its default
    refused   \* history: the last telemetry report met a full mailbox

telemetryVars == <<kernel, samples, cell, last, monitorCell, results, observed, taken, refused>>

Observed(rate, restarts) == [rate |-> rate, restarts |-> restarts]
ObservedStates == [rate : Rates, restarts : 0 .. MaxRestarts]
DefaultObserved == Observed(0, 0)

TelemetryInit ==
    /\ kernel = [rate |-> 0, changes |-> 0]
    /\ samples = 0
    /\ cell = DefaultObserved
    /\ last = {}
    /\ monitorCell = DefaultObserved
    /\ results = <<>>
    /\ observed = DefaultObserved
    /\ taken = DefaultObserved /\ refused = FALSE

\* A full mailbox drops the scheduler's report, which it ignores.  The monitor's
\* report would end its task and the daemon, so it is only followed with room.
Sent(who, state) ==
    IF Len(results) < ResultQueue THEN Append(results, [by |-> who, state |-> state]) ELSE results

TrafficChanges ==
    /\ kernel.changes < MaxChanges
    /\ \E r \in Rates \ {kernel.rate} : kernel' = [rate |-> r, changes |-> kernel.changes + 1]
    /\ UNCHANGED <<samples, cell, last, monitorCell, results, observed, taken, refused>>

SchedulerTick_NeverAgain ==
    /\ samples' = IF samples < SampleQueue THEN samples + 1 ELSE samples
    /\ IF last # {}
       THEN UNCHANGED <<last, results, refused>>
       ELSE /\ last' = {cell} /\ results' = Sent("telemetry", cell)
            /\ refused' = (Len(results) = ResultQueue)
    /\ UNCHANGED <<kernel, cell, monitorCell, observed, taken>>

\* One tick: request a sample, then report the cell as it is now, which the
\* requested sample has not reached yet.  A refused report counts as reported.
SchedulerTick ==
    /\ samples' = IF samples < SampleQueue THEN samples + 1 ELSE samples
    /\ IF last = {cell}
       THEN UNCHANGED <<last, results, refused>>
       ELSE /\ last' = {cell} /\ results' = Sent("telemetry", cell)
            /\ refused' = (Len(results) = ResultQueue)
    /\ UNCHANGED <<kernel, cell, monitorCell, observed, taken>>

\* The actor samples the kernel; a call that fails counts as no traffic.  The
\* restart counters stay what they were in the cell.
Sample ==
    /\ samples > 0
    /\ samples' = samples - 1
    /\ cell' = [cell EXCEPT !.rate = kernel.rate]
    /\ UNCHANGED <<kernel, last, monitorCell, results, observed, taken, refused>>

\* The monitor counts a restart and reports; its rates are never sampled.
MonitorRestarted ==
    /\ monitorCell.restarts < MaxRestarts
    /\ Len(results) < ResultQueue
    /\ monitorCell' = [monitorCell EXCEPT !.restarts = @ + 1]
    /\ results' = Sent("monitor", monitorCell')
    /\ UNCHANGED <<kernel, samples, cell, last, observed, taken, refused>>

\* A crash report and the report of an elapsed stable window carry the copy as
\* it is.  The window elapses again and again, crash or not.
MonitorObserves ==
    /\ Len(results) < ResultQueue
    /\ results' = Sent("monitor", monitorCell)
    /\ UNCHANGED <<kernel, samples, cell, last, monitorCell, observed, taken, refused>>

AppliesObserved ==
    /\ results # <<>>
    /\ observed' = Head(results).state
    /\ taken' = IF Head(results).by = "telemetry" THEN Head(results).state ELSE taken
    /\ results' = Tail(results)
    /\ UNCHANGED <<kernel, samples, cell, last, monitorCell, refused>>

TelemetryNext ==
    \/ TrafficChanges \/ SchedulerTick \/ Sample
    \/ MonitorRestarted \/ MonitorObserves \/ AppliesObserved

TelemetrySpec == TelemetryInit /\ [][TelemetryNext]_telemetryVars

\* The timer ticks, and the actor and the dispatcher run, as owned tasks do.
TelemetryFairSpec ==
    /\ TelemetrySpec
    /\ WF_telemetryVars(SchedulerTick)
    /\ WF_telemetryVars(Sample)
    /\ WF_telemetryVars(AppliesObserved)

-----------------------------------------------------------------------------
\* Every variable stays in its type and both mailboxes within their capacity.
TelemetryTypeOK ==
    /\ kernel.rate \in Rates
    /\ samples \in 0 .. SampleQueue
    /\ {cell, monitorCell, observed, taken} \subseteq ObservedStates
    /\ last \subseteq ObservedStates
    /\ Len(results) <= ResultQueue

\* The queues stay within their capacities, and once the kernel's rate has
\* settled, the telemetry report the projection took last has that rate, unless
\* the scheduler's last report was refused: it is not repeated.
SettledReported ==
    /\ []TelemetryTypeOK
    /\ \A r \in Rates : <>[](kernel.rate = r) => <>[](refused \/ taken.rate = r)

(***************************************************************************)
(* The path a refresh takes to the kernel document: the subscription actor *)
(* indexes the node registry and the routing registry under two locks and  *)
(* publishes the outcome on the event bus; the config reconciler turns a   *)
(* change into a ReloadConfig command; the config actor renders what the   *)
(* registries hold by then.  A registry's content is the number of the     *)
(* indexing it comes from.                                                 *)
(***************************************************************************)
CONSTANTS
    PipeEventCap,    \* EVENT_CHANNEL_CAP
    PipeMailboxCap,  \* capacity of the config actor's mailbox
    MaxGeneration    \* indexings in one behaviour

VARIABLES
    nodesGen,        \* the indexing the node registry comes from
    routingGen,      \* the indexing the routing registry comes from
    refreshing,      \* a refresh has changed a registry and has not ended
    configEvents,    \* channel of the config reconciler
    mailbox,         \* commands waiting for the config actor
    rendered,        \* indexings the kernel document was rendered from
    lost             \* history: nothing is left that would render a change

pipeVars == <<nodesGen, routingGen, refreshing, configEvents, mailbox, rendered, lost>>

Registered == [nodes |-> nodesGen, routing |-> routingGen]

PipeInit ==
    /\ nodesGen = 0 /\ routingGen = 0
    /\ refreshing = FALSE
    /\ configEvents = <<>>
    /\ mailbox = [reload |-> 0, other |-> 0]
    /\ rendered = Registered
    /\ lost = FALSE

\* A refresh replaces the entries of a source it fetched, or drops those of one no
\* longer declared: first in the node registry, under its lock,
IndexNodes ==
    /\ nodesGen = routingGen
    /\ nodesGen < MaxGeneration
    /\ nodesGen' = nodesGen + 1
    /\ refreshing' = TRUE
    /\ UNCHANGED <<routingGen, configEvents, mailbox, rendered, lost>>

\* then in the routing registry, under its own.
IndexRouting ==
    /\ routingGen < nodesGen
    /\ routingGen' = nodesGen
    /\ UNCHANGED <<nodesGen, refreshing, configEvents, mailbox, rendered, lost>>

\* EventBus::publish: a full channel loses the event of its slow subscriber.
Published(event) ==
    IF Len(configEvents) < PipeEventCap THEN Append(configEvents, event) ELSE configEvents

\* The refresh ends and the handler publishes what it says of itself.  One that
\* only dropped entries says it changed nothing, and one that fails after all,
\* having indexed some source, publishes nothing.
EndRefresh(outcome) ==
    /\ nodesGen = routingGen
    /\ refreshing' = FALSE
    /\ configEvents' = IF outcome = "error" THEN configEvents ELSE Published(outcome = "changed")
    /\ lost' = (lost \/ (refreshing /\ (outcome # "changed" \/ Len(configEvents) = PipeEventCap)))
    /\ UNCHANGED <<nodesGen, routingGen, mailbox, rendered>>

Waiting == mailbox.reload + mailbox.other

\* A reconciler that spares the reload when the document already has the nodes.
ReconcileConfig_SpareReload ==
    /\ configEvents # <<>>
    /\ configEvents' = Tail(configEvents)
    /\ IF Head(configEvents) /\ Waiting < PipeMailboxCap /\ rendered.nodes # nodesGen
       THEN mailbox' = [mailbox EXCEPT !.reload = @ + 1] /\ UNCHANGED lost
       ELSE UNCHANGED <<mailbox, lost>>
    /\ UNCHANGED <<nodesGen, routingGen, refreshing, rendered>>

\* run_reconciler and enqueue_reload: only a change asks for a reload, and a full
\* mailbox loses the request.
ReconcileConfig ==
    /\ configEvents # <<>>
    /\ configEvents' = Tail(configEvents)
    /\ IF Head(configEvents) /\ Waiting < PipeMailboxCap
       THEN mailbox' = [mailbox EXCEPT !.reload = @ + 1] /\ UNCHANGED lost
       ELSE /\ lost' = (lost \/ (Head(configEvents) /\ mailbox.reload = 0))
            /\ UNCHANGED mailbox
    /\ UNCHANGED <<nodesGen, routingGen, refreshing, rendered>>

\* Other commands reach the config actor and are handled; an operator asks for a
\* reload too.
OtherCommand ==
    /\ \/ Waiting < PipeMailboxCap /\ \E c \in {"reload", "other"} : mailbox' = [mailbox EXCEPT ![c] = @ + 1]
       \/ mailbox.other > 0 /\ mailbox' = [mailbox EXCEPT !.other = @ - 1]
    /\ UNCHANGED <<nodesGen, routingGen, refreshing, configEvents, rendered, lost>>

\* build_settings reads the routing registry while it holds the node registry.  The
\* settings may not build, the kernel may refuse the document and the file may not
\* be written: the older document stays, and nobody asks again.
RenderConfig(succeeds) ==
    /\ mailbox.reload > 0
    /\ mailbox' = [mailbox EXCEPT !.reload = @ - 1]
    /\ rendered' = IF succeeds THEN Registered ELSE rendered
    /\ lost' = (~succeeds /\ (lost \/ rendered # Registered))
    /\ UNCHANGED <<nodesGen, routingGen, refreshing, configEvents>>

FinishRefresh == refreshing /\ \E outcome \in {"changed", "unchanged", "error"} : EndRefresh(outcome)
QuietRefresh == ~refreshing /\ \E outcome \in {"changed", "unchanged", "error"} : EndRefresh(outcome)
Reload == \E succeeds \in BOOLEAN : RenderConfig(succeeds)

PipeNext ==
    \/ IndexNodes \/ IndexRouting \/ FinishRefresh \/ QuietRefresh
    \/ ReconcileConfig \/ OtherCommand \/ Reload

\* The subscription actor finishes the refresh it is in, and the reconciler and
\* the config actor keep taking from their queues.
PipeFairness ==
    /\ WF_pipeVars(IndexRouting)
    /\ WF_pipeVars(FinishRefresh)
    /\ WF_pipeVars(ReconcileConfig)
    /\ WF_pipeVars(Reload)

PipeSpec == PipeInit /\ [][PipeNext]_pipeVars /\ PipeFairness

\* A document rendered between the two registry locks mixes the nodes of one
\* refresh with the groups of another.  It is replaced: from some point on the
\* kernel document is that of the registries, nodes and groups alike, unless the
\* last change was not published as one, a full queue refused its event or its
\* reload, or the reload failed.  Nothing makes up for these before the next
\* reload.
RenderConverges == <>[](lost \/ rendered = Registered)
=============================================================================
