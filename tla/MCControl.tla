------------------------------ MODULE MCControl ------------------------------
(***************************************************************************)
(* The control connection and the daemon's process on small instances.     *)
(* They share no state, so each behaviour follows one of them.             *)
(***************************************************************************)
EXTENDS ControlPlane, DaemonProcess

\* Two callers at once: the pairs whose steps disturb one another.
Pairs ==
  {[first |-> "Stop", second |-> "Start"], [first |-> "Pick", second |-> "Async"],
   [first |-> "Tun", second |-> "None"]}

VARIABLE followed
controlPlaneVars == <<followed, controlVars, processVars>>

\* The initial states of the one that is not followed count once.
ControlPlaneInit ==
    /\ followed \in {"control", "process"}
    /\ ControlInit /\ ProcessInit
    /\ followed = "control" => socketFile = Nobody
    /\ followed = "process" => asks = CHOOSE s \in Scenarios : TRUE

OnControl(A) == followed = "control" /\ A /\ UNCHANGED <<followed, processVars>>
OnProcess(A) == followed = "process" /\ A /\ UNCHANGED <<followed, controlVars>>

ControlPlaneNext == OnControl(ControlNext) \/ OnProcess(ProcessNext)

\* The fairness of the two specifications.
ControlPlaneSpec ==
    /\ ControlPlaneInit /\ [][ControlPlaneNext]_controlPlaneVars
    /\ WF_controlPlaneVars(OnControl(Scheduled))
    /\ WF_controlPlaneVars(OnProcess(ProcessRuns))

\* A caller of the control connection: its exit code tells what the daemon did, and
\* a session outlives the handshake that made it.
CallersToldTruth == ExitTellsTruth /\ SessionOutlivesHandshake

\* What must come to an end: every caller, whatever the connection does, and a
\* daemon that failed or was told to stop.
ControlEnds == EveryCallerEnds /\ DoomedEnds
=============================================================================
