--------------------------- MODULE MCConvergence ---------------------------
(***************************************************************************)
(* What must eventually happen outside the command runtime: a dead kernel  *)
(* is started again, a settled rate is reported, a changed subscription    *)
(* reaches the kernel document.  The three machines share no state, so     *)
(* each behaviour follows one of them.                                     *)
(***************************************************************************)
EXTENDS CoreLifecycle, BackgroundTasks

VARIABLE followed
convergenceVars == <<followed, vars, telemetryVars, pipeVars>>

\* The initial states of the ones that are not followed count once.
ConvergenceInit ==
    /\ followed \in {"core", "telemetry", "pipeline"}
    /\ Init /\ TelemetryInit /\ PipeInit
    /\ followed # "core" => active = CHOOSE k \in Kernels : TRUE

OnCore(A) == followed = "core" /\ A /\ UNCHANGED <<followed, telemetryVars, pipeVars>>
OnTelemetry(A) == followed = "telemetry" /\ A /\ UNCHANGED <<followed, vars, pipeVars>>
OnPipeline(A) == followed = "pipeline" /\ A /\ UNCHANGED <<followed, vars, telemetryVars>>

ConvergenceNext == OnCore(Next) \/ OnTelemetry(TelemetryNext) \/ OnPipeline(PipeNext)

\* The fairness of the three specifications.
ConvergenceSpec ==
    /\ ConvergenceInit /\ [][ConvergenceNext]_convergenceVars
    /\ WF_convergenceVars(OnCore(ClientNext)) /\ WF_convergenceVars(OnCore(MonitorNext))
    /\ WF_convergenceVars(OnTelemetry(SchedulerTick))
    /\ WF_convergenceVars(OnTelemetry(Sample))
    /\ WF_convergenceVars(OnTelemetry(AppliesObserved))
    /\ WF_convergenceVars(OnPipeline(IndexRouting)) /\ WF_convergenceVars(OnPipeline(FinishRefresh))
    /\ WF_convergenceVars(OnPipeline(ReconcileConfig)) /\ WF_convergenceVars(OnPipeline(Reload))
=============================================================================
