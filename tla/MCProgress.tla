----------------------------- MODULE MCProgress -----------------------------
(***************************************************************************)
(* What must eventually happen, on small instances: the command runtime,   *)
(* the watchers of the projection, the latency sweep, the kernel processes *)
(* and the bounded commands.  No two of these models share state, so each  *)
(* behaviour follows one of them, chosen at the start.                     *)
(***************************************************************************)
EXTENDS MCCommandRuntime, Projection, DelaySweep, KernelProcess

MCSweepNodes == 1..2

VARIABLE followed
progressVars == <<followed, runtimeVars, projectionVars, sweepVars, kernelVars, command>>

\* The initial states of the ones that are not followed count once.  The sweep's
\* kernel starts with every node; a change of the core leaves it any of them.
ProgressInit ==
    /\ followed \in {"runtime", "watch", "sweep", "kernels", "command"}
    /\ RuntimeInit /\ ProjectionInit /\ SweepInit /\ ProcessInit
    /\ controller.has = IF followed = "sweep" THEN SweepNodes ELSE {}

\* A step of the one that is followed; the others rest.
OnRuntime(A) == followed = "runtime" /\ A /\ UNCHANGED <<followed, projectionVars, sweepVars, kernelVars, command>>
OnWatch(A) == followed = "watch" /\ A /\ UNCHANGED <<followed, runtimeVars, sweepVars, kernelVars, command>>
OnSweep(A) == followed = "sweep" /\ A /\ UNCHANGED <<followed, runtimeVars, projectionVars, kernelVars, command>>
OnKernels(A) == followed = "kernels" /\ A /\ UNCHANGED <<followed, runtimeVars, projectionVars, sweepVars, command>>
OnCommand(A) == followed = "command" /\ A /\ UNCHANGED <<followed, runtimeVars, projectionVars, sweepVars, kernelVars>>

ProgressNext ==
    \/ OnRuntime(RuntimeNext)
    \/ OnWatch(ProjectionNext)
    \/ OnSweep(SweepNext)
    \/ OnKernels(KernelNext)
    \/ OnCommand(CommandNext)

\* The fairness of FairRuntimeSpec, FairProjectionSpec, SweepSpec and ProcessSpec.
ProgressSpec ==
    /\ ProgressInit /\ [][ProgressNext]_progressVars
    /\ WF_progressVars(OnRuntime(DispatcherStep))
    /\ \A o \in Owners : WF_progressVars(OnRuntime(ActorStep(o)))
    /\ \A c \in Clients : WF_progressVars(OnWatch(Serve(c)))
    /\ WF_progressVars(OnSweep(SweepStep))
    /\ WF_progressVars(OnKernels(RuntimeStep))
    /\ WF_progressVars(OnCommand(CommandStep))

(***************************************************************************)
(* Properties                                                              *)
(***************************************************************************)
\* The command runtime: a running operation has an owner or lost it to a full result
\* mailbox, what the projection shows agrees with the outcome, and the dispatcher
\* stays up.
RuntimeOwned == RunningHasOwner /\ ShownAgrees /\ DispatcherStaysUp

\* What must come to an end: an admitted operation settles unless its owner ended, a
\* connected watcher is told every event but those published between the two locks
\* of its opening, a runtime call returns, and so does a bounded command whose pipes
\* no helper holds.
RequestsEnd == Settles /\ StreamTells /\ CallsEnd
=============================================================================
