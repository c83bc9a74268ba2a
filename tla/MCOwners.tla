------------------------------ MODULE MCOwners ------------------------------
(***************************************************************************)
(* What the daemon owns, on small instances: the instance lock, the shared *)
(* intent, the configuration files, the system proxy and the TUN device.   *)
(* No two of these models share state, so each behaviour follows one of    *)
(* them, chosen at the start.                                              *)
(***************************************************************************)
EXTENDS InstanceLock, DesiredIntent, ConfigApply, ProxyRecovery, TunRecovery

VARIABLE followed

ownersVars == <<followed, lockVars, desiredVars, configVars, proxyVars, tunVars>>

\* The initial states of the ones that are not followed count once.
OwnersInit ==
    /\ followed \in {"lock", "intent", "config", "proxy", "tun"}
    /\ LockInit /\ DesiredInit /\ ConfigInit /\ ProxyInit /\ TunInit
    /\ followed # "config" => active = CHOOSE k \in Kernels : TRUE
    /\ followed # "proxy" => desktop = [mode |-> "none", endpoint |-> "user", url |-> "user"]

OwnersNext ==
    \/ /\ followed = "lock" /\ LockNext
       /\ UNCHANGED <<followed, desiredVars, configVars, proxyVars, tunVars>>
    \/ /\ followed = "intent" /\ DesiredNext
       /\ UNCHANGED <<followed, lockVars, configVars, proxyVars, tunVars>>
    \/ /\ followed = "config" /\ ConfigNext
       /\ UNCHANGED <<followed, lockVars, desiredVars, proxyVars, tunVars>>
    \/ /\ followed = "proxy" /\ ProxyNext
       /\ UNCHANGED <<followed, lockVars, desiredVars, configVars, tunVars>>
    \/ /\ followed = "tun" /\ TunNext
       /\ UNCHANGED <<followed, lockVars, desiredVars, configVars, proxyVars>>

OwnersSpec == OwnersInit /\ [][OwnersNext]_ownersVars

(***************************************************************************)
(* Properties                                                              *)
(***************************************************************************)
\* The durable side effects: the record of the system proxy holds the user's own
\* setting, recovery touches what caly owns, and an owned TUN device is recorded.
EffectsInv == ProxyInv /\ RecoveredIsOwned /\ TunInv

\* What a daemon promises of the desktop across kills: KeepsPromise of the system
\* proxy and TunKeepsPromise of the TUN device.
PromisesKept == KeepsPromise /\ TunKeepsPromise
=============================================================================
