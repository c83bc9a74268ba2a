------------------------ MODULE CoreLifecycleProofs ------------------------
(***************************************************************************)
(* The kernels of the daemon, for any set of kernels, any commands and any *)
(* failing calls: every live process is owned, and the crash-loop policy   *)
(* is reset by a stable window only.  Then the processes of one kernel:    *)
(* a spawn is owned or over, whatever fails and whoever is killed.         *)
(*                                                                         *)
(* A backend call is judged by its outcomes alone (the first lemmas); what *)
(* the threads remember between two calls is ThreadsKnow.                  *)
(***************************************************************************)
EXTENDS CoreLifecycle, KernelProcess, TLAPS

\* A backend: its process tree, and its processes counted.
Backend == [tree : Trees, live : Nat, lost : Nat]
Accounted(c) == c.live = c.lost + (IF c.tree = "live" THEN 1 ELSE 0)
Sound(c) == c \in Backend /\ Accounted(c)

\* A client thread.
Thread == [at : ClientPlaces, kernel : Kernels, target : Kernels, report : Owed]

-----------------------------------------------------------------------------
(* What the calls do. *)

LEMMA SpawnSound ==
    ASSUME NEW c, Sound(c), c.tree # "live"
    PROVE  Sound(Spawned(c)) /\ Spawned(c).tree = "live"
BY DEF Sound, Backend, Accounted, Spawned, Trees

\* A reaped backend owns no tree, and what it failed to reap is counted as lost.
LEMMA ReapSound ==
    ASSUME NEW c, Sound(c), NEW o \in ReapOutcomes(c)
    PROVE  Sound(o.core) /\ o.core.tree = "none"
<1> DEFINE alive == IF c.tree = "live" THEN 1 ELSE 0
           good == [tree |-> "none", live |-> c.live - alive, lost |-> c.lost]
           bad == [tree |-> "none", live |-> c.live, lost |-> c.lost + alive]
<1>1. o = Outcome(good, TRUE) \/ o = Outcome(bad, FALSE)
  BY Zenon DEF ReapOutcomes
<1>2. Sound(good) /\ good.tree = "none"
  BY DEF Sound, Backend, Accounted, Trees
<1>3. Sound(bad) /\ bad.tree = "none"
  BY DEF Sound, Backend, Accounted, Trees
<1> HIDE DEF good, bad
<1>4. CASE o = Outcome(good, TRUE)
  BY <1>2, <1>4, Zenon DEF Outcome
<1>5. CASE o = Outcome(bad, FALSE)
  BY <1>3, <1>5, Zenon DEF Outcome
<1> QED BY <1>1, <1>4, <1>5, Zenon

\* A start that failed leaves no tree behind.
LEMMA StartSound ==
    ASSUME NEW c, Sound(c), NEW o \in StartOutcomes(c)
    PROVE  Sound(o.core) /\ (~ o.ok => o.core.tree = "none")
<1>1. CASE c.tree # "none"
  BY <1>1 DEF StartOutcomes, Outcome
<1>2. CASE c.tree = "none"
  <2>1. Sound(Spawned(c))
    BY <1>2, SpawnSound, Zenon
  <2>2. CASE o = Outcome(Spawned(c), TRUE)
    BY <2>1, <2>2, Zenon DEF Outcome
  <2>3. CASE \E r \in ReapOutcomes(Spawned(c)) : o = Outcome(r.core, FALSE)
    BY <2>1, <2>3, ReapSound DEF Outcome
  <2> QED BY <1>2, <2>2, <2>3, Zenon DEF StartOutcomes
<1> QED BY <1>1, <1>2, Zenon

LEMMA StopSound ==
    ASSUME NEW c, Sound(c), NEW o \in StopOutcomes(c)
    PROVE  Sound(o.core) /\ o.core.tree = "none"
<1>1. CASE c.tree = "none"
  BY <1>1 DEF StopOutcomes, Outcome
<1>2. CASE c.tree # "none"
  BY <1>2, ReapSound, Zenon DEF StopOutcomes
<1> QED BY <1>1, <1>2, Zenon

\* A restart stops before it starts, so it never spawns over a running kernel.
LEMMA RestartSound ==
    ASSUME NEW c, Sound(c), NEW o \in RestartOutcomes(c)
    PROVE  Sound(o.core)
<1>1. PICK s \in StopOutcomes(c) : o \in (IF s.ok THEN StartOutcomes(s.core) ELSE {s})
  BY Zenon DEF RestartOutcomes
<1>2. Sound(s.core)
  BY StopSound, Zenon
<1> QED BY <1>1, <1>2, StartSound, Zenon

-----------------------------------------------------------------------------
(* Threads and reports. *)

LEMMA IdleTyped == Idle \in Thread /\ Idle.at = "idle"
<1>1. (CHOOSE k \in Kernels : TRUE) \in Kernels
  BY CoreBounds, Zenon
<1> QED BY <1>1, Zenon DEF Idle, Thread, ClientPlaces, Owed

LEMMA ReportTyped ==
    /\ \A s \in AppliedStates : <<s>> \in Owed /\ <<s>> # NoReport
    /\ NoReport \in Owed
    /\ \A r \in Owed : r # NoReport => r[1] \in AppliedStates
BY DEF Owed, NoReport

LEMMA StatesTyped ==
    /\ Stopped \in AppliedStates
    /\ \A k \in Kernels : Running(k) \in AppliedStates /\ Crashed(k) \in AppliedStates
BY Zenon DEF AppliedStates

\* The calls of a thread change one backend, ...
LEMMA CallKeeps ==
    ASSUME core \in [Kernels -> Backend], ProcessesOwned, NEW k \in Kernels, NEW c, Sound(c),
           core' = [core EXCEPT ![k] = c]
    PROVE  /\ core' \in [Kernels -> Backend] /\ ProcessesOwned'
           /\ core'[k] = c /\ \A j \in Kernels \ {k} : core'[j] = core[j]
<1>1. core' \in [Kernels -> Backend]
  BY Zenon DEF Sound
<1>2. core'[k] = c /\ \A j \in Kernels \ {k} : core'[j] = core[j]
  BY Zenon
<1>3. ProcessesOwned'
  BY <1>2, Zenon DEF ProcessesOwned, Sound, Accounted
<1> QED BY <1>1, <1>2, <1>3, Zenon

\* ... and its moves one thread.
LEMMA MoveTyped ==
    ASSUME clients \in [Clients -> Thread], NEW c \in Clients, NEW t \in Thread,
           clients' = [clients EXCEPT ![c] = t]
    PROVE  /\ clients' \in [Clients -> Thread] /\ clients'[c] = t
           /\ \A d \in Clients \ {c} : clients'[d] = clients[d]
BY Zenon

LEMMA GotoTyped ==
    ASSUME clients \in [Clients -> Thread], NEW c \in Clients, NEW at \in ClientPlaces, Goto(c, at)
    PROVE  /\ clients' \in [Clients -> Thread]
           /\ clients'[c].at = at /\ clients'[c].kernel = clients[c].kernel
           /\ clients'[c].target = clients[c].target /\ clients'[c].report = clients[c].report
           /\ \A d \in Clients \ {c} : clients'[d] = clients[d]
BY Zenon DEF Goto, Thread

\* A finished call owes a report or none.
LEMMA FinishTyped ==
    ASSUME clients \in [Clients -> Thread], NEW c \in Clients, NEW ok, NEW state \in AppliedStates,
           Finish(c, ok, state)
    PROVE  /\ clients' \in [Clients -> Thread]
           /\ clients'[c].at \in {"idle", "report"}
           /\ clients'[c].at = "report" => clients'[c].report # NoReport
           /\ \A d \in Clients \ {c} : clients'[d] = clients[d]
<1> DEFINE done == [clients[c] EXCEPT !.at = "report", !.report = <<state>>]
<1>1. clients' = [clients EXCEPT ![c] = done] \/ clients' = [clients EXCEPT ![c] = Idle]
  BY Zenon DEF Finish
<1>2. <<state>> \in Owed /\ <<state>> # NoReport
  BY ReportTyped, Zenon
<1>3. clients[c] \in Thread
  BY Zenon
<1>4. done \in Thread /\ done.at = "report" /\ done.report = <<state>>
  BY <1>2, <1>3, Zenon DEF Thread, ClientPlaces
<1> HIDE DEF done
<1>5. CASE clients' = [clients EXCEPT ![c] = done]
  BY <1>2, <1>4, <1>5, MoveTyped, Zenon
<1>6. CASE clients' = [clients EXCEPT ![c] = Idle]
  BY <1>6, IdleTyped, MoveTyped, Zenon
<1> QED BY <1>1, <1>5, <1>6, Zenon

-----------------------------------------------------------------------------
(* The steps. *)

\* KernelsOwned without ExitLeavesNothing, which only the last step is about.
CoreInv == CoreTypeOK /\ ProcessesOwned /\ OnlyActiveOwned /\ ThreadsKnow

LEMMA InvTyped ==
    ASSUME CoreInv
    PROVE  core \in [Kernels -> Backend] /\ clients \in [Clients -> Thread] /\ active \in Kernels
           /\ ProcessesOwned /\ \A k \in Kernels : Sound(core[k])
BY Zenon DEF CoreInv, CoreTypeOK, Backend, Thread, Sound, Accounted, ProcessesOwned

LEMMA WishTyped ==
    ASSUME CoreTypeOK, NEW c, NEW wish, TakesWish(c, wish)
    PROVE  used' \in [wishes : 0..MaxWishes, exits : 0..MaxExits]
BY CoreBounds DEF CoreTypeOK, TakesWish

\* A command is taken: the thread remembers the kernel it was meant for.
LEMMA TakenKeeps ==
    ASSUME CoreInv, NEW k \in Kernels, SwitchCore(k) \/ StopCore \/ ApplyConfig
    PROVE  CoreInv'
<1> USE InvTyped
<1>1. used' \in [wishes : 0..MaxWishes, exits : 0..MaxExits]
  BY WishTyped, Zenon DEF CoreInv, SwitchCore, StopCore, ApplyConfig
<1>2. /\ UNCHANGED <<active, core, monitor, policy, shown, daemon, strays>>
      /\ clients' \in [Clients -> Thread]
      /\ clients'["lifecycle"].at \in {"switch", "stop", clients["lifecycle"].at}
      /\ clients'["lifecycle"].at = clients["lifecycle"].at =>
            clients'["lifecycle"] = clients["lifecycle"]
      /\ clients'["config"].at \in {"restart", clients["config"].at}
      /\ clients'["config"].at = clients["config"].at => clients'["config"] = clients["config"]
      /\ clients'["main"] = clients["main"]
  <2>0. clients["lifecycle"] \in Thread /\ clients["config"] \in Thread
        /\ {"lifecycle", "config", "main"} \subseteq Clients
    BY Zenon DEF Clients
  <2>1. CASE SwitchCore(k)
    <3> DEFINE t == [clients["lifecycle"] EXCEPT !.at = "switch", !.target = k]
    <3>1. t \in Thread /\ t.at = "switch"
      BY <2>0, Zenon DEF Thread, ClientPlaces
    <3>2. clients' = [clients EXCEPT !["lifecycle"] = t] /\ clients["lifecycle"].at = "idle"
      BY <2>1, Zenon DEF SwitchCore, TakesWish
    <3>3. UNCHANGED <<active, core, monitor, policy, shown, daemon, strays>>
      BY <2>1, Zenon DEF SwitchCore
    <3> HIDE DEF t
    <3>4. clients' \in [Clients -> Thread] /\ clients'["lifecycle"] = t
          /\ \A d \in Clients \ {"lifecycle"} : clients'[d] = clients[d]
      BY <2>0, <3>1, <3>2, MoveTyped, Zenon
    <3> QED BY <2>0, <3>1, <3>2, <3>3, <3>4, Zenon DEF Clients
  <2>2. CASE StopCore
    <3> DEFINE t == [clients["lifecycle"] EXCEPT !.at = "stop", !.kernel = active]
    <3>1. t \in Thread /\ t.at = "stop"
      BY <2>0, Zenon DEF Thread, ClientPlaces
    <3>2. clients' = [clients EXCEPT !["lifecycle"] = t] /\ clients["lifecycle"].at = "idle"
      BY <2>2, Zenon DEF StopCore, TakesWish
    <3>3. UNCHANGED <<active, core, monitor, policy, shown, daemon, strays>>
      BY <2>2, Zenon DEF StopCore
    <3> HIDE DEF t
    <3>4. clients' \in [Clients -> Thread] /\ clients'["lifecycle"] = t
          /\ \A d \in Clients \ {"lifecycle"} : clients'[d] = clients[d]
      BY <2>0, <3>1, <3>2, MoveTyped, Zenon
    <3> QED BY <2>0, <3>1, <3>2, <3>3, <3>4, Zenon DEF Clients
  <2>3. CASE ApplyConfig
    <3> DEFINE t == [clients["config"] EXCEPT !.at = "restart", !.kernel = active]
    <3>1. t \in Thread /\ t.at = "restart"
      BY <2>0, Zenon DEF Thread, ClientPlaces
    <3>2. clients' = [clients EXCEPT !["config"] = t] /\ clients["config"].at = "idle"
      BY <2>3, Zenon DEF ApplyConfig, TakesWish
    <3>3. UNCHANGED <<active, core, monitor, policy, shown, daemon, strays>>
      BY <2>3, Zenon DEF ApplyConfig
    <3> HIDE DEF t
    <3>4. clients' \in [Clients -> Thread] /\ clients'["config"] = t
          /\ \A d \in Clients \ {"config"} : clients'[d] = clients[d]
      BY <2>0, <3>1, <3>2, MoveTyped, Zenon
    <3> QED BY <2>0, <3>1, <3>2, <3>3, <3>4, Zenon DEF Clients
  <2> QED BY <2>1, <2>2, <2>3, Zenon
<1>3. CoreTypeOK'
  BY <1>1, <1>2, Zenon DEF CoreInv, CoreTypeOK, Thread
<1>4. ProcessesOwned' /\ OnlyActiveOwned'
  BY <1>2, Zenon DEF CoreInv, ProcessesOwned, OnlyActiveOwned
<1>5. ~ daemon.cancelled
  BY Zenon DEF SwitchCore, StopCore, ApplyConfig, TakesWish
<1>6. ThreadsKnow'
  BY <1>2, <1>5, Zenon DEF CoreInv, ThreadsKnow, Clients
<1> QED BY <1>3, <1>4, <1>6, Zenon DEF CoreInv

\* A step of the lifecycle actor that is under way: what it has to establish.
LEMMA LifecycleMoves ==
    ASSUME CoreInv, clients["lifecycle"].at # "idle",
           \A d \in Clients \ {"lifecycle"} : clients'[d] = clients[d],
           UNCHANGED <<monitor, daemon>>,
           clients'["lifecycle"].at = "report" => clients'["lifecycle"].report # NoReport,
           clients'["lifecycle"].at \in {"starts", "flips"} => active' = clients'["lifecycle"].target,
           clients'["lifecycle"].at = "flips" => core'[active'].tree = "none",
           clients'["lifecycle"].at = "restores" => active' = clients'["lifecycle"].kernel
    PROVE  ThreadsKnow'
BY Zenon DEF CoreInv, ThreadsKnow, Clients

LEMMA SwitchSameKeeps ==
    ASSUME CoreInv, SwitchSame
    PROVE  CoreInv'
<1> USE InvTyped
<1>0. "lifecycle" \in Clients /\ Running(active) \in AppliedStates
  BY StatesTyped, Zenon DEF Clients
<1>1. PICK o \in RestartOutcomes(core[active]) :
         Calls(active, o) /\ Finish("lifecycle", o.ok, Running(active))
  BY Zenon DEF SwitchSame
<1>2. Sound(o.core)
  BY RestartSound, Zenon
<1>3. /\ core' \in [Kernels -> Backend] /\ ProcessesOwned' /\ strays' = strays
      /\ \A j \in Kernels \ {active} : core'[j] = core[j]
  BY <1>1, <1>2, CallKeeps, Zenon DEF Calls
<1>4. /\ clients' \in [Clients -> Thread]
      /\ clients'["lifecycle"].at \in {"idle", "report"}
      /\ clients'["lifecycle"].at = "report" => clients'["lifecycle"].report # NoReport
      /\ \A d \in Clients \ {"lifecycle"} : clients'[d] = clients[d]
  BY <1>0, <1>1, FinishTyped, Zenon
<1>5. /\ UNCHANGED <<active, monitor, policy, shown, daemon, used>>
      /\ clients["lifecycle"].at # "idle"
  BY Zenon DEF SwitchSame
<1>6. CoreTypeOK'
  BY <1>3, <1>4, <1>5, Zenon DEF CoreInv, CoreTypeOK, Thread, Backend
<1>7. OnlyActiveOwned'
  BY <1>3, <1>5, Zenon DEF CoreInv, OnlyActiveOwned
<1>8. ThreadsKnow'
  BY <1>4, <1>5, LifecycleMoves, Zenon
<1> QED BY <1>3, <1>6, <1>7, <1>8, Zenon DEF CoreInv

LEMMA SwitchStopsKeeps ==
    ASSUME CoreInv, SwitchStops
    PROVE  CoreInv'
<1> USE InvTyped
<1> DEFINE t == [clients["lifecycle"] EXCEPT !.at = "starts", !.kernel = active]
<1>0. "lifecycle" \in Clients /\ clients["lifecycle"] \in Thread
  BY Zenon DEF Clients
<1>1. PICK o \in StopOutcomes(core[active]) :
         /\ Calls(active, o)
         /\ active' = IF o.ok THEN clients["lifecycle"].target ELSE active
         /\ clients' = [clients EXCEPT !["lifecycle"] = IF o.ok THEN t ELSE Idle]
  BY Zenon DEF SwitchStops
<1>2. Sound(o.core) /\ o.core.tree = "none"
  BY StopSound, Zenon
<1>3. /\ core' \in [Kernels -> Backend] /\ ProcessesOwned' /\ strays' = strays
      /\ core'[active] = o.core /\ \A j \in Kernels \ {active} : core'[j] = core[j]
  BY <1>1, <1>2, CallKeeps, Zenon DEF Calls
<1>4. t \in Thread /\ t.at = "starts" /\ t.target = clients["lifecycle"].target
  BY <1>0, Zenon DEF Thread, ClientPlaces
<1>5. UNCHANGED <<monitor, policy, shown, daemon, used>> /\ clients["lifecycle"].at # "idle"
      /\ clients["lifecycle"].target \in Kernels
  BY <1>0, Zenon DEF SwitchStops, Thread
<1> HIDE DEF t
<1>6. /\ clients' \in [Clients -> Thread]
      /\ clients'["lifecycle"] = IF o.ok THEN t ELSE Idle
      /\ \A d \in Clients \ {"lifecycle"} : clients'[d] = clients[d]
  BY <1>0, <1>1, <1>4, IdleTyped, MoveTyped, Zenon
<1>7. active' \in Kernels
  BY <1>1, <1>5, Zenon
<1>8. CoreTypeOK'
  BY <1>3, <1>5, <1>6, <1>7, Zenon DEF CoreInv, CoreTypeOK, Thread, Backend
<1>9. OnlyActiveOwned'
  BY <1>1, <1>2, <1>3, Zenon DEF CoreInv, OnlyActiveOwned
<1>10. ThreadsKnow'
  BY <1>1, <1>4, <1>5, <1>6, IdleTyped, LifecycleMoves, Zenon
<1> QED BY <1>3, <1>8, <1>9, <1>10, Zenon DEF CoreInv

LEMMA SwitchStartsKeeps ==
    ASSUME CoreInv, SwitchStarts
    PROVE  CoreInv'
<1> USE InvTyped
<1>0. /\ "lifecycle" \in Clients /\ clients["lifecycle"] \in Thread
      /\ clients["lifecycle"].at = "starts" /\ clients["lifecycle"].target = active
      /\ Running(active) \in AppliedStates /\ "flips" \in ClientPlaces
  BY StatesTyped, Zenon DEF Clients, SwitchStarts, CoreInv, ThreadsKnow, ClientPlaces
<1>1. PICK o \in StartOutcomes(core[active]) :
         /\ Calls(active, o)
         /\ IF o.ok THEN Finish("lifecycle", TRUE, Running(active)) ELSE Goto("lifecycle", "flips")
  BY <1>0, Zenon DEF SwitchStarts
<1>2. Sound(o.core) /\ (~ o.ok => o.core.tree = "none")
  BY StartSound, Zenon
<1>3. /\ core' \in [Kernels -> Backend] /\ ProcessesOwned' /\ strays' = strays
      /\ core'[active] = o.core /\ \A j \in Kernels \ {active} : core'[j] = core[j]
  BY <1>1, <1>2, CallKeeps, Zenon DEF Calls
<1>4. UNCHANGED <<active, monitor, policy, shown, daemon, used>>
  BY Zenon DEF SwitchStarts
<1>5. OnlyActiveOwned'
  BY <1>3, <1>4, Zenon DEF CoreInv, OnlyActiveOwned
<1>6. CASE o.ok
  <2>1. /\ clients' \in [Clients -> Thread]
        /\ clients'["lifecycle"].at \in {"idle", "report"}
        /\ clients'["lifecycle"].at = "report" => clients'["lifecycle"].report # NoReport
        /\ \A d \in Clients \ {"lifecycle"} : clients'[d] = clients[d]
    BY <1>0, <1>1, <1>6, FinishTyped, Zenon
  <2>2. CoreTypeOK'
    BY <1>3, <1>4, <2>1, Zenon DEF CoreInv, CoreTypeOK, Thread, Backend
  <2>3. ThreadsKnow'
    BY <1>0, <1>4, <2>1, LifecycleMoves, Zenon
  <2> QED BY <1>3, <1>5, <2>2, <2>3, Zenon DEF CoreInv
<1>7. CASE ~ o.ok
  <2>1. /\ clients' \in [Clients -> Thread]
        /\ clients'["lifecycle"].at = "flips"
        /\ clients'["lifecycle"].target = clients["lifecycle"].target
        /\ \A d \in Clients \ {"lifecycle"} : clients'[d] = clients[d]
    BY <1>0, <1>1, <1>7, GotoTyped, Zenon
  <2>2. CoreTypeOK'
    BY <1>3, <1>4, <2>1, Zenon DEF CoreInv, CoreTypeOK, Thread, Backend
  <2>3. ThreadsKnow'
    BY <1>0, <1>2, <1>3, <1>4, <1>7, <2>1, LifecycleMoves, Zenon
  <2> QED BY <1>3, <1>5, <2>2, <2>3, Zenon DEF CoreInv
<1> QED BY <1>6, <1>7, Zenon

LEMMA SwitchFlipsKeeps ==
    ASSUME CoreInv, SwitchFlips
    PROVE  CoreInv'
<1> USE InvTyped
<1>0. /\ "lifecycle" \in Clients /\ clients["lifecycle"] \in Thread /\ "restores" \in ClientPlaces
      /\ clients["lifecycle"].at = "flips"
      /\ active' = clients["lifecycle"].kernel /\ Goto("lifecycle", "restores")
      /\ UNCHANGED <<core, monitor, policy, shown, daemon, used, strays>>
  BY Zenon DEF Clients, SwitchFlips, ClientPlaces
<1>1. core[active].tree = "none" \/ active \in strays
  BY <1>0, Zenon DEF CoreInv, ThreadsKnow
<1>2. /\ clients' \in [Clients -> Thread]
      /\ clients'["lifecycle"].at = "restores"
      /\ clients'["lifecycle"].kernel = clients["lifecycle"].kernel
      /\ \A d \in Clients \ {"lifecycle"} : clients'[d] = clients[d]
  BY <1>0, GotoTyped, Zenon
<1>3. active' \in Kernels
  BY <1>0, Zenon DEF Thread
<1>4. CoreTypeOK'
  BY <1>0, <1>2, <1>3, Zenon DEF CoreInv, CoreTypeOK, Thread, Backend
<1>5. ProcessesOwned' /\ OnlyActiveOwned'
  BY <1>0, <1>1, Zenon DEF CoreInv, ProcessesOwned, OnlyActiveOwned
<1>6. ThreadsKnow'
  BY <1>0, <1>2, LifecycleMoves, Zenon
<1> QED BY <1>4, <1>5, <1>6, Zenon DEF CoreInv

LEMMA SwitchRestoresKeeps ==
    ASSUME CoreInv, SwitchRestores
    PROVE  CoreInv'
<1> USE InvTyped
<1>0. /\ "lifecycle" \in Clients
      /\ clients["lifecycle"].at = "restores" /\ clients["lifecycle"].kernel = active
      /\ clients' = [clients EXCEPT !["lifecycle"] = Idle]
      /\ UNCHANGED <<active, monitor, policy, shown, daemon, used>>
  BY Zenon DEF Clients, SwitchRestores, CoreInv, ThreadsKnow
<1>1. PICK o \in StartOutcomes(core[active]) : Calls(active, o)
  BY <1>0, Zenon DEF SwitchRestores
<1>2. Sound(o.core)
  BY StartSound, Zenon
<1>3. /\ core' \in [Kernels -> Backend] /\ ProcessesOwned' /\ strays' = strays
      /\ \A j \in Kernels \ {active} : core'[j] = core[j]
  BY <1>1, <1>2, CallKeeps, Zenon DEF Calls
<1>4. /\ clients' \in [Clients -> Thread] /\ clients'["lifecycle"] = Idle
      /\ \A d \in Clients \ {"lifecycle"} : clients'[d] = clients[d]
  BY <1>0, IdleTyped, MoveTyped, Zenon
<1>5. CoreTypeOK'
  BY <1>0, <1>3, <1>4, Zenon DEF CoreInv, CoreTypeOK, Thread, Backend
<1>6. OnlyActiveOwned'
  BY <1>0, <1>3, Zenon DEF CoreInv, OnlyActiveOwned
<1>7. ThreadsKnow'
  BY <1>0, <1>4, IdleTyped, LifecycleMoves, Zenon
<1> QED BY <1>3, <1>5, <1>6, <1>7, Zenon DEF CoreInv

\* A stop dispatched earlier finds whatever kernel it read: it can only take a
\* tree away.
LEMMA StopsKeeps ==
    ASSUME CoreInv, Stops
    PROVE  CoreInv'
<1> USE InvTyped
<1> DEFINE k == clients["lifecycle"].kernel
<1>0. /\ "lifecycle" \in Clients /\ clients["lifecycle"] \in Thread /\ k \in Kernels
      /\ clients["lifecycle"].at = "stop" /\ Stopped \in AppliedStates
      /\ UNCHANGED <<active, monitor, policy, shown, daemon, used>>
  BY StatesTyped, Zenon DEF Clients, Stops, Thread
<1>1. PICK o \in StopOutcomes(core[k]) : Calls(k, o) /\ Finish("lifecycle", o.ok, Stopped)
  BY Zenon DEF Stops
<1> HIDE DEF k
<1>2. Sound(o.core) /\ o.core.tree = "none"
  BY <1>0, StopSound, Zenon
<1>3. /\ core' \in [Kernels -> Backend] /\ ProcessesOwned' /\ strays' = strays
      /\ core'[k] = o.core /\ \A j \in Kernels \ {k} : core'[j] = core[j]
  BY <1>0, <1>1, <1>2, CallKeeps, Zenon DEF Calls
<1>4. /\ clients' \in [Clients -> Thread]
      /\ clients'["lifecycle"].at \in {"idle", "report"}
      /\ clients'["lifecycle"].at = "report" => clients'["lifecycle"].report # NoReport
      /\ \A d \in Clients \ {"lifecycle"} : clients'[d] = clients[d]
  BY <1>0, <1>1, FinishTyped, Zenon
<1>5. CoreTypeOK'
  BY <1>0, <1>3, <1>4, Zenon DEF CoreInv, CoreTypeOK, Thread, Backend
<1>6. OnlyActiveOwned'
  BY <1>0, <1>2, <1>3, Zenon DEF CoreInv, OnlyActiveOwned
<1>7. ThreadsKnow'
  BY <1>0, <1>4, LifecycleMoves, Zenon
<1> QED BY <1>3, <1>5, <1>6, <1>7, Zenon DEF CoreInv

\* A restart dispatched earlier marks its kernel as a stray if the cell has moved
\* or a switch is under way; otherwise the kernel is the active one, and no switch
\* counts on it having no tree.
LEMMA RestartKeeps ==
    ASSUME CoreInv, NEW k \in Kernels, NEW o, Sound(o.core), CallsRestart(k, o), active' = active
    PROVE  /\ core' \in [Kernels -> Backend] /\ ProcessesOwned' /\ OnlyActiveOwned'
           /\ strays' \subseteq Kernels
           /\ clients["lifecycle"].at = "flips" => core'[active].tree = "none" \/ active \in strays'
<1> USE InvTyped
<1>1. /\ core' \in [Kernels -> Backend] /\ ProcessesOwned'
      /\ core'[k] = o.core /\ \A j \in Kernels \ {k} : core'[j] = core[j]
  BY CallKeeps, Zenon DEF CallsRestart
<1>2. strays' \subseteq Kernels /\ strays \subseteq strays' /\ (k # active \/ MidSwitch => k \in strays')
  BY Zenon DEF CallsRestart, CoreInv, CoreTypeOK
<1>3. OnlyActiveOwned'
  BY <1>1, <1>2, Zenon DEF CoreInv, OnlyActiveOwned
<1>4. clients["lifecycle"].at = "flips" => core'[active].tree = "none" \/ active \in strays'
  BY <1>1, <1>2, Zenon DEF CoreInv, ThreadsKnow, MidSwitch
<1> QED BY <1>1, <1>2, <1>3, <1>4, Zenon

LEMMA RestartsKeeps ==
    ASSUME CoreInv, Restarts
    PROVE  CoreInv'
<1> USE InvTyped
<1> DEFINE k == clients["config"].kernel
<1>0. /\ "config" \in Clients /\ clients["config"] \in Thread /\ k \in Kernels
      /\ clients["config"].at = "restart" /\ Running(active) \in AppliedStates
      /\ UNCHANGED <<active, monitor, policy, shown, daemon, used>>
  BY StatesTyped, Zenon DEF Clients, Restarts, Thread
<1>1. PICK o \in RestartOutcomes(core[k]) : CallsRestart(k, o) /\ Finish("config", o.ok, Running(active))
  BY Zenon DEF Restarts
<1> HIDE DEF k
<1>2. Sound(o.core)
  BY <1>0, RestartSound, Zenon
<1>3. /\ core' \in [Kernels -> Backend] /\ ProcessesOwned' /\ OnlyActiveOwned'
      /\ strays' \subseteq Kernels
      /\ clients["lifecycle"].at = "flips" => core'[active].tree = "none" \/ active \in strays'
  BY <1>0, <1>1, <1>2, RestartKeeps, Zenon
<1>4. /\ clients' \in [Clients -> Thread]
      /\ clients'["config"].at \in {"idle", "report"}
      /\ clients'["config"].at = "report" => clients'["config"].report # NoReport
      /\ \A d \in Clients \ {"config"} : clients'[d] = clients[d]
  BY <1>0, <1>1, FinishTyped, Zenon
<1>5. CoreTypeOK'
  BY <1>0, <1>3, <1>4, Zenon DEF CoreInv, CoreTypeOK, Thread, Backend
<1>6. ThreadsKnow'
  BY <1>0, <1>3, <1>4, Zenon DEF CoreInv, ThreadsKnow, Clients
<1> QED BY <1>3, <1>5, <1>6, Zenon DEF CoreInv

LEMMA SendsReportKeeps ==
    ASSUME CoreInv, NEW c \in Clients, SendsReport(c)
    PROVE  CoreInv'
<1> USE InvTyped
<1>0. /\ clients[c] \in Thread /\ clients[c].at = "report" /\ clients[c].report # NoReport
      /\ shown' = clients[c].report[1] /\ clients' = [clients EXCEPT ![c] = Idle]
      /\ UNCHANGED <<active, core, monitor, policy, daemon, used, strays>>
  BY Zenon DEF SendsReport, CoreInv, ThreadsKnow
<1>1. shown' \in AppliedStates
  BY <1>0, ReportTyped, Zenon DEF Thread
<1>2. /\ clients' \in [Clients -> Thread] /\ clients'[c] = Idle
      /\ \A d \in Clients \ {c} : clients'[d] = clients[d]
  BY <1>0, IdleTyped, MoveTyped, Zenon
<1>3. CoreTypeOK'
  BY <1>0, <1>1, <1>2, Zenon DEF CoreInv, CoreTypeOK, Thread, Backend
<1>4. ProcessesOwned' /\ OnlyActiveOwned'
  BY <1>0, Zenon DEF CoreInv, ProcessesOwned, OnlyActiveOwned
<1>5. ThreadsKnow'
  BY <1>0, <1>2, IdleTyped, Zenon DEF CoreInv, ThreadsKnow, Clients
<1> QED BY <1>3, <1>4, <1>5, Zenon DEF CoreInv

-----------------------------------------------------------------------------
(* The crash-loop policy. *)

Policies == [backoff : InitialBackoff .. MaxBackoff, crashes : 0..2, stable : 0 .. StableTicks - 1]

\* A growing backoff stays under its ceiling, and never shrinks on the way.
LEMMA GrownTyped ==
    ASSUME NEW p \in Policies
    PROVE  Grown(p) \in Policies /\ Grown(p).backoff >= p.backoff
<1> DEFINE b == Min(2 * p.backoff, MaxBackoff)
<1>1. b \in InitialBackoff .. MaxBackoff /\ b >= p.backoff
  BY CoreBounds DEF Policies, Min
<1>2. Grown(p) = [p EXCEPT !.backoff = b]
  BY Zenon DEF Grown
<1> HIDE DEF b
<1> QED BY <1>1, <1>2, Zenon DEF Policies

LEMMA CrashTyped ==
    ASSUME NEW p \in Policies
    PROVE  OnCrash(p) \in Policies /\ OnCrash(p).backoff >= p.backoff
<1> DEFINE n == Min(p.crashes + 1, 2)
           counted == [p EXCEPT !.crashes = n, !.stable = 0]
<1>1. n \in 0..2 /\ 0 \in 0 .. StableTicks - 1
  BY CoreBounds DEF Policies, Min
<1>2. OnCrash(p) = IF counted.crashes > 1 THEN Grown(counted) ELSE counted
  BY Zenon DEF OnCrash
<1> HIDE DEF n
<1>3. counted \in Policies /\ counted.backoff = p.backoff
  BY <1>1, Zenon DEF Policies
<1>4. counted.backoff >= p.backoff
  BY <1>3, CoreBounds DEF Policies
<1> HIDE DEF counted
<1> QED BY <1>2, <1>3, <1>4, GrownTyped, Zenon

LEMMA FailedTyped ==
    ASSUME NEW p \in Policies
    PROVE  OnRestartFailed(p) \in Policies /\ OnRestartFailed(p).backoff >= p.backoff
<1> DEFINE q == [p EXCEPT !.stable = 0]
<1>1. q \in Policies /\ q.backoff = p.backoff
  BY CoreBounds DEF Policies
<1> HIDE DEF q
<1>2. OnRestartFailed(p) = Grown(q)
  BY Zenon DEF OnRestartFailed, q
<1> QED BY <1>1, <1>2, GrownTyped, Zenon

\* The stable window resets the policy, and only when it has elapsed.
LEMMA TickTyped ==
    ASSUME NEW p \in Policies
    PROVE  /\ OnStableTick(p) \in Policies
           /\ OnStableTick(p).backoff < p.backoff => p.stable = StableTicks - 1
<1>1. Policy \in Policies
  BY CoreBounds DEF Policy, Policies
<1>2. CASE WindowElapses(p)
  <2>1. p.stable = StableTicks - 1
    BY <1>2, CoreBounds DEF WindowElapses, Policies
  <2> QED BY <1>1, <1>2, <2>1, Zenon DEF OnStableTick
<1>3. CASE ~ WindowElapses(p)
  <2>1. p.stable + 1 \in 0 .. StableTicks - 1
    BY <1>3, CoreBounds DEF WindowElapses, Policies
  <2>2. OnStableTick(p) = [p EXCEPT !.stable = p.stable + 1]
    BY <1>3, Zenon DEF OnStableTick
  <2>3. OnStableTick(p) \in Policies /\ OnStableTick(p).backoff = p.backoff
    BY <2>1, <2>2, Zenon DEF Policies
  <2> QED BY <2>3, CoreBounds DEF Policies
<1> QED BY <1>2, <1>3, Zenon

-----------------------------------------------------------------------------
(* The exit monitor. *)

Watch == [at : {"poll", "polls", "crashed", "backoff", "restarts", "recovered", "done"},
          kernel : Kernels, report : Owed]

\* A step of the monitor that leaves the kernels alone.
LEMMA WatchKeeps ==
    ASSUME CoreInv, UNCHANGED <<active, core, clients, used, strays>>,
           monitor.at # "done", monitor' \in Watch, policy' \in Policies, shown' \in AppliedStates,
           monitor'.at \in {"crashed", "recovered"} => monitor'.report # NoReport,
           daemon' = daemon \/ daemon' = [daemon EXCEPT !.cancelled = TRUE]
    PROVE  CoreInv'
<1>1. daemon \in [phase : {"serving", "stopping", "exited"}, cancelled : BOOLEAN]
  BY Zenon DEF CoreInv, CoreTypeOK
<1>2. [daemon EXCEPT !.cancelled = TRUE] \in [phase : {"serving", "stopping", "exited"}, cancelled : BOOLEAN]
  BY <1>1, Zenon
<1>3. daemon' \in [phase : {"serving", "stopping", "exited"}, cancelled : BOOLEAN]
      /\ daemon'.phase = daemon.phase /\ (daemon.cancelled => daemon'.cancelled)
  BY <1>1, <1>2, Zenon
<1>4. CoreTypeOK'
  BY <1>3, Zenon DEF CoreInv, CoreTypeOK, Watch, Policies
<1>5. ProcessesOwned' /\ OnlyActiveOwned'
  BY Zenon DEF CoreInv, ProcessesOwned, OnlyActiveOwned
<1>6. ThreadsKnow'
  BY <1>3, Zenon DEF CoreInv, ThreadsKnow
<1> QED BY <1>4, <1>5, <1>6, Zenon DEF CoreInv

LEMMA MonitorTyped ==
    ASSUME CoreInv
    PROVE  /\ monitor \in Watch /\ policy \in Policies /\ shown \in AppliedStates
           /\ \A x \in {"poll", "polls", "backoff", "restarts", "done"} :
                 /\ \A k \in Kernels : [monitor EXCEPT !.at = x, !.kernel = k] \in Watch
                                       /\ [monitor EXCEPT !.at = x, !.kernel = k].at = x
                 /\ [monitor EXCEPT !.at = x] \in Watch /\ [monitor EXCEPT !.at = x].at = x
                 /\ [monitor EXCEPT !.at = x, !.report = NoReport] \in Watch
                 /\ [monitor EXCEPT !.at = x, !.report = NoReport].at = x
           /\ monitor.at \in {"crashed", "recovered"} => monitor.report[1] \in AppliedStates
<1>1. monitor \in Watch /\ policy \in Policies /\ shown \in AppliedStates
  BY Zenon DEF CoreInv, CoreTypeOK, Watch, Policies
<1>2. ASSUME NEW x \in {"poll", "polls", "backoff", "restarts", "done"}
      PROVE  /\ \A k \in Kernels : [monitor EXCEPT !.at = x, !.kernel = k] \in Watch
                                   /\ [monitor EXCEPT !.at = x, !.kernel = k].at = x
             /\ [monitor EXCEPT !.at = x] \in Watch /\ [monitor EXCEPT !.at = x].at = x
             /\ [monitor EXCEPT !.at = x, !.report = NoReport] \in Watch
             /\ [monitor EXCEPT !.at = x, !.report = NoReport].at = x
  BY <1>1, ReportTyped, Zenon DEF Watch
<1>3. monitor.at \in {"crashed", "recovered"} => monitor.report[1] \in AppliedStates
  BY <1>1, ReportTyped, Zenon DEF Watch, CoreInv, ThreadsKnow
<1> QED BY <1>1, <1>2, <1>3, Zenon

LEMMA MonitorWatchesKeeps ==
    ASSUME CoreInv,
           \/ MonitorReads \/ MonitorReportsCrash \/ MonitorTicks \/ MonitorPollFails
           \/ MonitorRetries \/ MonitorReportsRecovery \/ MonitorEnds
    PROVE  CoreInv'
<1>0. active \in Kernels /\ policy \in Policies
  BY InvTyped, MonitorTyped, Zenon
<1>1. CASE MonitorReads
  <2>1. monitor' \in Watch /\ monitor'.at = "polls" /\ monitor.at # "done"
    BY <1>0, <1>1, MonitorTyped, Zenon DEF MonitorReads, MonitorAt
  <2> QED BY <1>1, <2>1, MonitorTyped, WatchKeeps, Zenon DEF MonitorReads
<1>2. CASE MonitorReportsCrash
  <2>1. monitor' \in Watch /\ monitor'.at = "backoff" /\ monitor.at # "done" /\ shown' \in AppliedStates
    BY <1>2, MonitorTyped, Zenon DEF MonitorReportsCrash
  <2>2. policy' \in Policies
    BY <1>0, <1>2, CrashTyped, Zenon DEF MonitorReportsCrash
  <2> QED BY <1>2, <2>1, <2>2, WatchKeeps, Zenon DEF MonitorReportsCrash
<1>3. CASE MonitorTicks
  <2>1. monitor' \in Watch /\ monitor'.at = "poll" /\ monitor.at # "done"
    BY <1>3, MonitorTyped, Zenon DEF MonitorTicks
  <2>2. policy' \in Policies
    BY <1>0, <1>3, TickTyped, Zenon DEF MonitorTicks
  <2> QED BY <1>3, <2>1, <2>2, MonitorTyped, WatchKeeps, Zenon DEF MonitorTicks
<1>4. CASE MonitorPollFails
  <2>1. monitor' \in Watch /\ monitor'.at = "done" /\ monitor.at # "done"
    BY <1>4, MonitorTyped, Zenon DEF MonitorPollFails
  <2> QED BY <1>4, <2>1, MonitorTyped, WatchKeeps, Zenon DEF MonitorPollFails
<1>5. CASE MonitorRetries
  <2>1. monitor' \in Watch /\ monitor'.at = "restarts" /\ monitor.at # "done"
    BY <1>0, <1>5, MonitorTyped, Zenon DEF MonitorRetries, MonitorAt
  <2> QED BY <1>5, <2>1, MonitorTyped, WatchKeeps, Zenon DEF MonitorRetries
<1>6. CASE MonitorReportsRecovery
  <2>1. monitor' \in Watch /\ monitor'.at = "poll" /\ monitor.at # "done" /\ shown' \in AppliedStates
    BY <1>6, MonitorTyped, Zenon DEF MonitorReportsRecovery
  <2> QED BY <1>6, <2>1, MonitorTyped, WatchKeeps, Zenon DEF MonitorReportsRecovery
<1>7. CASE MonitorEnds
  <2>1. monitor' \in Watch /\ monitor'.at = "done" /\ monitor.at # "done"
    BY <1>7, MonitorTyped, Zenon DEF MonitorEnds
  <2> QED BY <1>7, <2>1, MonitorTyped, WatchKeeps, Zenon DEF MonitorEnds
<1> QED BY <1>1, <1>2, <1>3, <1>4, <1>5, <1>6, <1>7, Zenon

\* The monitor gives up a dead tree, which no process is counted for.
LEMMA FindsExitKeeps ==
    ASSUME CoreInv, MonitorFindsExit
    PROVE  CoreInv'
<1> USE InvTyped
<1> DEFINE k == monitor.kernel
           c == [core[k] EXCEPT !.tree = "none"]
<1>0. /\ monitor \in Watch /\ k \in Kernels /\ monitor.at = "polls" /\ core[k].tree = "dead"
      /\ core' = [core EXCEPT ![k] = c]
      /\ monitor' = [monitor EXCEPT !.at = "crashed", !.report = <<Crashed(k)>>]
      /\ UNCHANGED <<active, clients, policy, shown, daemon, used, strays>>
  BY MonitorTyped, Zenon DEF MonitorFindsExit, Watch
<1>1. Sound(core[k]) /\ core[k] \in Backend
  BY <1>0, Zenon
<1>2. Sound(c) /\ c.tree = "none"
  BY <1>0, <1>1, Zenon DEF Sound, Backend, Accounted, Trees
<1>3. <<Crashed(k)>> \in Owed /\ <<Crashed(k)>> # NoReport
  BY <1>0, ReportTyped, StatesTyped, Zenon
<1> HIDE DEF c, k
<1>4. monitor' \in Watch /\ monitor'.at = "crashed" /\ monitor'.report # NoReport
  BY <1>0, <1>3, Zenon DEF Watch
<1>5. /\ core' \in [Kernels -> Backend] /\ ProcessesOwned'
      /\ core'[k] = c /\ \A j \in Kernels \ {k} : core'[j] = core[j]
  BY <1>0, <1>2, CallKeeps, Zenon
<1>6. CoreTypeOK'
  BY <1>0, <1>4, <1>5, Zenon DEF CoreInv, CoreTypeOK, Watch, Backend
<1>7. OnlyActiveOwned'
  BY <1>0, <1>2, <1>5, Zenon DEF CoreInv, OnlyActiveOwned
<1>8. ThreadsKnow'
  BY <1>0, <1>2, <1>4, <1>5, Zenon DEF CoreInv, ThreadsKnow
<1> QED BY <1>5, <1>6, <1>7, <1>8, Zenon DEF CoreInv

LEMMA MonitorRestartsKeeps ==
    ASSUME CoreInv, MonitorRestarts
    PROVE  CoreInv'
<1> USE InvTyped
<1> DEFINE k == monitor.kernel
           up == [monitor EXCEPT !.at = "recovered", !.report = <<Running(k)>>]
           again == [monitor EXCEPT !.at = "backoff"]
<1>0. /\ monitor \in Watch /\ policy \in Policies /\ k \in Kernels /\ monitor.at = "restarts"
      /\ UNCHANGED <<active, clients, shown, daemon, used>>
  BY MonitorTyped, Zenon DEF MonitorRestarts, Watch
<1>1. PICK o \in RestartOutcomes(core[k]) :
         /\ CallsRestart(k, o)
         /\ policy' = IF o.ok THEN policy ELSE OnRestartFailed(policy)
         /\ monitor' = IF o.ok THEN up ELSE again
  BY Zenon DEF MonitorRestarts
<1>2. <<Running(k)>> \in Owed /\ <<Running(k)>> # NoReport
  BY <1>0, ReportTyped, StatesTyped, Zenon
<1>3. up \in Watch /\ up.report # NoReport /\ again \in Watch /\ again.at = "backoff"
  BY <1>0, <1>2, Zenon DEF Watch
<1> HIDE DEF k, up, again
<1>4. Sound(o.core)
  BY <1>0, RestartSound, Zenon
<1>5. /\ core' \in [Kernels -> Backend] /\ ProcessesOwned' /\ OnlyActiveOwned'
      /\ strays' \subseteq Kernels
      /\ clients["lifecycle"].at = "flips" => core'[active].tree = "none" \/ active \in strays'
  BY <1>0, <1>1, <1>4, RestartKeeps, Zenon
<1>6. monitor' \in Watch /\ (monitor'.at \in {"crashed", "recovered"} => monitor'.report # NoReport)
  BY <1>1, <1>3, Zenon
<1>7. policy' \in Policies
  BY <1>0, <1>1, FailedTyped, Zenon
<1>8. CoreTypeOK'
  BY <1>0, <1>5, <1>6, <1>7, Zenon DEF CoreInv, CoreTypeOK, Watch, Policies, Backend
<1>9. ThreadsKnow'
  BY <1>0, <1>5, <1>6, Zenon DEF CoreInv, ThreadsKnow
<1> QED BY <1>5, <1>8, <1>9, Zenon DEF CoreInv

-----------------------------------------------------------------------------
(* The kernels' own exits, and the shutdown. *)

LEMMA KernelExitsKeeps ==
    ASSUME CoreInv, NEW k \in Kernels, KernelExits(k)
    PROVE  CoreInv'
<1> USE InvTyped
<1> DEFINE c == [tree |-> "dead", live |-> core[k].live - 1, lost |-> core[k].lost]
<1>0. /\ core[k].tree = "live" /\ core' = [core EXCEPT ![k] = c]
      /\ used' = [used EXCEPT !.exits = @ + 1] /\ used.exits < MaxExits
      /\ UNCHANGED <<active, clients, monitor, policy, shown, daemon, strays>>
  BY Zenon DEF KernelExits
<1>1. core[k] \in Backend /\ core[k].live = core[k].lost + 1
  BY <1>0, Zenon DEF Sound, Accounted
<1>2. c \in Backend /\ c.tree = "dead" /\ c.live = c.lost + 0
  BY <1>1 DEF Backend, Trees
<1>3. Sound(c)
  BY <1>2, Zenon DEF Sound, Accounted
<1> HIDE DEF c
<1>4. /\ core' \in [Kernels -> Backend] /\ ProcessesOwned'
      /\ core'[k] = c /\ \A j \in Kernels \ {k} : core'[j] = core[j]
  BY <1>0, <1>3, CallKeeps, Zenon
<1>5. used' \in [wishes : 0..MaxWishes, exits : 0..MaxExits]
  BY <1>0, CoreBounds DEF CoreInv, CoreTypeOK
<1>6. CoreTypeOK'
  BY <1>0, <1>4, <1>5, Zenon DEF CoreInv, CoreTypeOK, Backend
<1>7. OnlyActiveOwned'
  BY <1>0, <1>4, Zenon DEF CoreInv, OnlyActiveOwned
<1>8. ThreadsKnow'
  BY <1>0, <1>4, Zenon DEF CoreInv, ThreadsKnow
<1> QED BY <1>4, <1>6, <1>7, <1>8, Zenon DEF CoreInv

LEMMA MainStopsKeeps ==
    ASSUME CoreInv, MainStops
    PROVE  CoreInv'
<1> USE InvTyped
<1> DEFINE k == clients["main"].kernel
           next == IF clients["main"].at = "stop" THEN "again" ELSE "cancel"
<1>0. /\ "main" \in Clients /\ clients["main"] \in Thread /\ k \in Kernels
      /\ clients["main"].at \in {"stop", "reap"} /\ Goto("main", next)
      /\ UNCHANGED <<active, monitor, policy, shown, daemon, used>>
  BY Zenon DEF MainStops, Clients, Thread
<1>1. PICK o \in StopOutcomes(core[k]) : Calls(k, o)
  BY Zenon DEF MainStops
<1>2. next \in ClientPlaces /\ next \in {"again", "cancel"}
  BY Zenon DEF ClientPlaces
<1> HIDE DEF k, next
<1>3. Sound(o.core) /\ o.core.tree = "none"
  BY <1>0, StopSound, Zenon
<1>4. /\ core' \in [Kernels -> Backend] /\ ProcessesOwned' /\ strays' = strays
      /\ core'[k] = o.core /\ \A j \in Kernels \ {k} : core'[j] = core[j]
  BY <1>0, <1>1, <1>3, CallKeeps, Zenon DEF Calls
<1>5. /\ clients' \in [Clients -> Thread] /\ clients'["main"].at \in {"again", "cancel"}
      /\ \A d \in Clients \ {"main"} : clients'[d] = clients[d]
  BY <1>0, <1>2, GotoTyped, Zenon
<1>6. CoreTypeOK'
  BY <1>0, <1>4, <1>5, Zenon DEF CoreInv, CoreTypeOK, Thread, Backend
<1>7. OnlyActiveOwned'
  BY <1>0, <1>3, <1>4, Zenon DEF CoreInv, OnlyActiveOwned
<1>8. ThreadsKnow'
  <2>1. clients'["lifecycle"] = clients["lifecycle"]
    BY <1>5, Zenon DEF Clients
  <2>2. core'[active].tree \in {core[active].tree, "none"}
    BY <1>3, <1>4, Zenon DEF CoreInv, CoreTypeOK
  <2>3. \A c \in Clients : clients'[c].at = "report" => clients'[c].report # NoReport
    BY <1>5, Zenon DEF CoreInv, ThreadsKnow
  <2>4. daemon.phase = "stopping"
    BY <1>0, Zenon DEF CoreInv, ThreadsKnow
  <2> QED BY <1>0, <1>4, <1>5, <2>1, <2>2, <2>3, <2>4, Zenon DEF CoreInv, ThreadsKnow
<1> QED BY <1>4, <1>6, <1>7, <1>8, Zenon DEF CoreInv

\* The main thread's part of a move.
LEMMA MainGoes ==
    ASSUME clients \in [Clients -> Thread], active \in Kernels, NEW at \in ClientPlaces,
           clients' = [clients EXCEPT !["main"] = [@ EXCEPT !.at = at, !.kernel = active]]
    PROVE  /\ clients' \in [Clients -> Thread] /\ clients'["main"].at = at
           /\ \A d \in Clients \ {"main"} : clients'[d] = clients[d]
<1> DEFINE t == [clients["main"] EXCEPT !.at = at, !.kernel = active]
<1>1. clients["main"] \in Thread /\ "main" \in Clients
  BY Zenon DEF Clients
<1>2. t \in Thread /\ t.at = at
  BY <1>1, Zenon DEF Thread
<1>3. clients' = [clients EXCEPT !["main"] = t]
  BY Zenon
<1> HIDE DEF t
<1> QED BY <1>1, <1>2, <1>3, MoveTyped, Zenon

\* The main thread moves on without calling a backend.
LEMMA MainMovesKeeps ==
    ASSUME CoreInv, ServeEnds \/ MainStopsAgain \/ CancelsTasks
    PROVE  CoreInv'
<1> DEFINE Days == [phase : {"serving", "stopping", "exited"}, cancelled : BOOLEAN]
<1>0. /\ "main" \in Clients /\ {"stop", "reap", "join"} \subseteq ClientPlaces /\ daemon \in Days
      /\ UNCHANGED <<active, core, monitor, policy, shown, used, strays>>
  BY Zenon DEF Clients, ClientPlaces, CoreInv, CoreTypeOK, ServeEnds, MainStopsAgain, CancelsTasks
<1>1. ASSUME clients' \in [Clients -> Thread], clients'["main"].at \in {"stop", "reap", "join"},
             \A d \in Clients \ {"main"} : clients'[d] = clients[d],
             daemon' \in Days, daemon'.phase = "stopping", daemon.cancelled => daemon'.cancelled,
             clients'["main"].at = "join" => daemon'.cancelled
      PROVE  CoreInv'
  <2>1. CoreTypeOK'
    BY <1>0, <1>1, Zenon DEF CoreInv, CoreTypeOK, Thread
  <2>2. ProcessesOwned' /\ OnlyActiveOwned'
    BY <1>0, Zenon DEF CoreInv, ProcessesOwned, OnlyActiveOwned
  <2>3. ThreadsKnow'
    BY <1>0, <1>1, Zenon DEF CoreInv, ThreadsKnow, Clients
  <2> QED BY <2>1, <2>2, <2>3, Zenon DEF CoreInv
<1>2. CASE ServeEnds
  <2>1. daemon' \in Days /\ daemon'.phase = "stopping" /\ daemon'.cancelled = daemon.cancelled
    BY <1>0, <1>2, Zenon DEF ServeEnds
  <2>2. /\ clients' \in [Clients -> Thread] /\ clients'["main"].at = "stop"
        /\ \A d \in Clients \ {"main"} : clients'[d] = clients[d]
    BY <1>0, <1>2, InvTyped, MainGoes, Zenon DEF ServeEnds
  <2> QED BY <1>1, <2>1, <2>2, Zenon
<1>3. CASE MainStopsAgain
  <2>1. daemon' = daemon /\ daemon.phase = "stopping"
    BY <1>3, Zenon DEF MainStopsAgain, CoreInv, ThreadsKnow
  <2>2. /\ clients' \in [Clients -> Thread] /\ clients'["main"].at = "reap"
        /\ \A d \in Clients \ {"main"} : clients'[d] = clients[d]
    BY <1>0, <1>3, InvTyped, MainGoes, Zenon DEF MainStopsAgain
  <2> QED BY <1>0, <1>1, <2>1, <2>2, Zenon
<1>4. CASE CancelsTasks
  <2>1. daemon' = [daemon EXCEPT !.cancelled = TRUE] /\ daemon.phase = "stopping"
    BY <1>4, Zenon DEF CancelsTasks, CoreInv, ThreadsKnow
  <2>2. daemon' \in Days /\ daemon'.phase = "stopping" /\ daemon'.cancelled
    BY <1>0, <2>1, Zenon
  <2>3. /\ clients' \in [Clients -> Thread] /\ clients'["main"].at = "join"
        /\ \A d \in Clients \ {"main"} : clients'[d] = clients[d]
    BY <1>0, <1>4, InvTyped, GotoTyped, Zenon DEF CancelsTasks
  <2> QED BY <1>1, <2>2, <2>3, Zenon
<1> QED BY <1>2, <1>3, <1>4, Zenon

\* The process ends when every thread has: what the backends still own is reaped
\* with them.
LEMMA ExitsKeeps ==
    ASSUME CoreInv, Exits
    PROVE  CoreInv' /\ \A k \in Kernels : core'[k].tree = "none"
<1> USE InvTyped
<1> DEFINE Days == [phase : {"serving", "stopping", "exited"}, cancelled : BOOLEAN]
<1>0. /\ "main" \in Clients /\ clients["main"].at = "join" /\ monitor.at = "done"
      /\ \A c \in Clients \ {"main"} : clients[c].at = "idle"
      /\ daemon' = [daemon EXCEPT !.phase = "exited"]
      /\ clients' = [clients EXCEPT !["main"] = Idle]
      /\ UNCHANGED <<active, monitor, policy, shown, used, strays>>
  BY Zenon DEF Exits, Clients
<1>1. core' \in [Kernels -> UNION {Drops(core[k]) : k \in Kernels}]
      /\ \A k \in Kernels : core'[k] \in Drops(core[k])
  BY Zenon DEF Exits
<1>2. ASSUME NEW k \in Kernels
      PROVE  Sound(core'[k]) /\ core'[k].tree = "none"
  <2>1. core'[k] \in Drops(core[k]) /\ Sound(core[k])
    BY <1>1, Zenon
  <2>2. CASE core[k].tree = "none"
    BY <2>1, <2>2, Zenon DEF Drops
  <2>3. CASE core[k].tree # "none"
    BY <2>1, <2>3, ReapSound, Zenon DEF Drops
  <2> QED BY <2>2, <2>3, Zenon
<1>3. core' \in [Kernels -> Backend] /\ ProcessesOwned' /\ OnlyActiveOwned'
  BY <1>0, <1>1, <1>2, Zenon DEF Sound, Accounted, ProcessesOwned, OnlyActiveOwned
<1>4. /\ clients' \in [Clients -> Thread] /\ clients'["main"] = Idle
      /\ \A d \in Clients \ {"main"} : clients'[d] = clients[d]
  BY <1>0, IdleTyped, MoveTyped, Zenon
<1>5. daemon \in Days /\ daemon.cancelled
  BY <1>0, Zenon DEF CoreInv, CoreTypeOK, ThreadsKnow
<1>6. daemon' \in Days /\ daemon'.phase = "exited" /\ daemon'.cancelled
  BY <1>0, <1>5, Zenon
<1>7. CoreTypeOK'
  BY <1>0, <1>3, <1>4, <1>6, Zenon DEF CoreInv, CoreTypeOK, Thread, Backend
<1>8. ThreadsKnow'
  BY <1>0, <1>4, <1>6, IdleTyped, Zenon DEF CoreInv, ThreadsKnow, Clients
<1> QED BY <1>2, <1>3, <1>7, <1>8, Zenon DEF CoreInv

-----------------------------------------------------------------------------
(* The theorems. *)

LEMMA CoreStarts ==
    ASSUME Init
    PROVE  KernelsOwned
<1> DEFINE down == [tree |-> "none", live |-> 0, lost |-> 0]
           up == [tree |-> "live", live |-> 1, lost |-> 0]
<1>1. Sound(down) /\ Sound(up)
  BY DEF Sound, Backend, Accounted, Trees
<1>2. active \in Kernels /\ \A k \in Kernels : core[k] = down \/ (k = active /\ core[k] = up)
  BY Zenon DEF Init
<1>3. core \in [Kernels -> {down, up}]
  BY Zenon DEF Init
<1>4. core \in [Kernels -> Backend] /\ \A k \in Kernels : Sound(core[k])
  BY <1>1, <1>2, <1>3, Zenon DEF Sound
<1>5. clients \in [Clients -> Thread] /\ \A c \in Clients : clients[c] = Idle
  BY IdleTyped, Zenon DEF Init
<1>6. monitor \in Watch /\ policy \in Policies /\ monitor.at = "poll"
  BY <1>2, ReportTyped, CoreBounds DEF Init, Watch, Policy, Policies
<1>7. shown \in AppliedStates /\ strays \subseteq Kernels
  BY <1>2, StatesTyped, Zenon DEF Init
<1>8. used \in [wishes : 0..MaxWishes, exits : 0..MaxExits]
  BY CoreBounds DEF Init
<1>9. daemon \in [phase : {"serving", "stopping", "exited"}, cancelled : BOOLEAN]
      /\ daemon.phase = "serving"
  BY Zenon DEF Init
<1>10. CoreTypeOK
  BY <1>2, <1>4, <1>5, <1>6, <1>7, <1>8, <1>9, Zenon DEF CoreTypeOK, Backend, Thread, Watch, Policies
<1>11. ProcessesOwned
  BY <1>4, Zenon DEF ProcessesOwned, Sound, Accounted
<1>12. OnlyActiveOwned
  BY <1>2 DEF OnlyActiveOwned
<1>13. ThreadsKnow
  BY <1>5, <1>6, <1>9, IdleTyped, Zenon DEF ThreadsKnow, Clients
<1> QED BY <1>9, <1>10, <1>11, <1>12, <1>13, Zenon DEF KernelsOwned, ExitLeavesNothing

LEMMA CoreStepKeeps ==
    ASSUME CoreInv, Next
    PROVE  CoreInv'
<1>1. ASSUME NEW k \in Kernels, SwitchCore(k) \/ KernelExits(k)
      PROVE  CoreInv'
  BY <1>1, TakenKeeps, KernelExitsKeeps, Zenon
<1>2. CASE StopCore \/ ApplyConfig
  BY <1>2, TakenKeeps, InvTyped, Zenon
<1>3. CASE ClientNext
  BY <1>3, SwitchSameKeeps, SwitchStopsKeeps, SwitchStartsKeeps, SwitchFlipsKeeps,
     SwitchRestoresKeeps, StopsKeeps, RestartsKeeps, SendsReportKeeps, Zenon DEF ClientNext
<1>4. CASE MonitorNext
  BY <1>4, MonitorWatchesKeeps, FindsExitKeeps, MonitorRestartsKeeps, Zenon DEF MonitorNext
<1>5. CASE ServeEnds \/ MainStops \/ MainStopsAgain \/ CancelsTasks \/ Exits
  BY <1>5, MainMovesKeeps, MainStopsKeeps, ExitsKeeps, Zenon
<1> QED BY <1>1, <1>2, <1>3, <1>4, <1>5, Zenon DEF Next

\* A daemon that exited takes no further step.
LEMMA ExitedIsLast ==
    ASSUME KernelsOwned, daemon.phase = "exited"
    PROVE  ~ Next
<1>1. /\ daemon.cancelled /\ monitor.at = "done" /\ \A c \in Clients : clients[c].at = "idle"
      /\ \A k \in Kernels : core[k].tree = "none"
  BY Zenon DEF KernelsOwned, ThreadsKnow, ExitLeavesNothing
<1>2. ~ MonitorNext
  BY <1>1, Zenon DEF MonitorNext, MonitorReads, MonitorFindsExit, MonitorReportsCrash, MonitorTicks,
     MonitorPollFails, MonitorRetries, MonitorRestarts, MonitorReportsRecovery, MonitorEnds, MonitorAt
<1>3. ~ ClientNext
  BY <1>1, Zenon DEF ClientNext, SwitchSame, SwitchStops, SwitchStarts, SwitchFlips, SwitchRestores,
     Stops, Restarts, SendsReport, Clients
<1>4. \A k \in Kernels : ~ SwitchCore(k) /\ ~ KernelExits(k)
  BY <1>1, Zenon DEF SwitchCore, TakesWish, KernelExits
<1>5. ~ StopCore /\ ~ ApplyConfig
  BY <1>1, Zenon DEF StopCore, ApplyConfig, TakesWish
<1>6. ~ ServeEnds /\ ~ MainStops /\ ~ MainStopsAgain /\ ~ CancelsTasks /\ ~ Exits
  BY <1>1, Zenon DEF ServeEnds, MainStops, MainStopsAgain, CancelsTasks, Exits, Clients
<1> QED BY <1>2, <1>3, <1>4, <1>5, <1>6, Zenon DEF Next

\* Only the last step ends the daemon.
LEMMA OnlyExitsEnds ==
    ASSUME CoreInv, Next, daemon.phase # "exited", daemon'.phase = "exited"
    PROVE  Exits
<1>1. daemon \in [phase : {"serving", "stopping", "exited"}, cancelled : BOOLEAN]
  BY Zenon DEF CoreInv, CoreTypeOK
<1>2. ~ MonitorNext
  BY <1>1, Zenon DEF MonitorNext, MonitorReads, MonitorFindsExit, MonitorReportsCrash, MonitorTicks,
     MonitorPollFails, MonitorRetries, MonitorRestarts, MonitorReportsRecovery, MonitorEnds
<1>3. ~ ClientNext
  BY Zenon DEF ClientNext, SwitchSame, SwitchStops, SwitchStarts, SwitchFlips, SwitchRestores,
     Stops, Restarts, SendsReport
<1>4. \A k \in Kernels : ~ SwitchCore(k) /\ ~ KernelExits(k)
  BY Zenon DEF SwitchCore, KernelExits
<1>5. ~ StopCore /\ ~ ApplyConfig
  BY Zenon DEF StopCore, ApplyConfig
<1>6. ~ ServeEnds /\ ~ MainStops /\ ~ MainStopsAgain /\ ~ CancelsTasks
  BY <1>1, Zenon DEF ServeEnds, MainStops, MainStopsAgain, CancelsTasks
<1> QED BY <1>2, <1>3, <1>4, <1>5, <1>6, Zenon DEF Next

LEMMA OwnedStepKeeps ==
    ASSUME KernelsOwned, [Next]_vars
    PROVE  KernelsOwned'
<1>1. CASE Next
  <2>1. CoreInv /\ daemon.phase # "exited"
    BY <1>1, ExitedIsLast, Zenon DEF KernelsOwned, CoreInv
  <2>2. CoreInv'
    BY <1>1, <2>1, CoreStepKeeps, Zenon
  <2>3. CASE daemon'.phase = "exited"
    <3>1. \A k \in Kernels : core'[k].tree = "none"
      BY <1>1, <2>1, <2>3, OnlyExitsEnds, ExitsKeeps, Zenon
    <3>2. \A k \in Kernels : core'[k].live = core'[k].lost
      BY <2>2, <3>1 DEF CoreInv, CoreTypeOK, ProcessesOwned
    <3> QED BY <2>2, <3>1, <3>2, Zenon DEF KernelsOwned, CoreInv, ExitLeavesNothing
  <2>4. CASE daemon'.phase # "exited"
    BY <2>2, <2>4, Zenon DEF KernelsOwned, CoreInv, ExitLeavesNothing
  <2> QED BY <2>3, <2>4, Zenon
<1>2. CASE UNCHANGED vars
  BY <1>2, ZenonT(60) DEF vars, KernelsOwned, CoreTypeOK, ProcessesOwned, ExitLeavesNothing, OnlyActiveOwned,
     ThreadsKnow
<1> QED BY <1>1, <1>2, Zenon

\* Whoever starts, stops, switches or restarts in whatever order and whichever
\* calls fail: every live kernel process is the one its backend owns or one
\* whose reaping failed, no kernel but the active one has a tree unless a restart
\* overtook a switch, and a daemon that exited left none (dual.rs, lifecycle.rs,
\* recovery.rs and the shutdown phases).
THEOREM KernelsAreOwned == Spec => []KernelsOwned
<1>1. Init => KernelsOwned
  BY CoreStarts, Zenon
<1>2. KernelsOwned /\ [Next]_vars => KernelsOwned'
  BY OwnedStepKeeps, Zenon
<1> QED BY <1>1, <1>2, PTL DEF Spec

\* The backoff of the crash-loop policy shrinks in one step only, the tick that
\* completes a stable window: no restart, successful or not, resets it
\* (CrashLoopPolicy).
THEOREM BackoffIsKept == Spec => RestartNeverResets
<1> DEFINE Kept == policy'.backoff < policy.backoff => monitor.at = "polls" /\ policy.stable = StableTicks - 1
<1>1. ASSUME KernelsOwned, [Next]_vars
      PROVE  [Kept]_vars
  <2> SUFFICES ASSUME Next PROVE Kept
    BY <1>1, Zenon
  <2>1. policy \in Policies /\ CoreInv
    BY <1>1, Zenon DEF KernelsOwned, CoreInv, CoreTypeOK, Policies
  <2>2. ~ (policy.backoff < policy.backoff)
    BY <2>1, CoreBounds DEF Policies
  <2>3. CASE policy' = policy
    BY <2>2, <2>3, Zenon
  <2>4. CASE MonitorReportsCrash
    <3>1. policy' = OnCrash(policy) /\ policy' \in Policies /\ policy'.backoff >= policy.backoff
      BY <2>1, <2>4, CrashTyped, Zenon DEF MonitorReportsCrash
    <3> QED BY <2>1, <3>1, CoreBounds DEF Policies
  <2>5. CASE MonitorTicks
    BY <2>1, <2>5, TickTyped, Zenon DEF MonitorTicks
  <2>6. CASE MonitorRestarts
    <3>1. policy' = policy \/ policy' = OnRestartFailed(policy)
      BY <2>6, Zenon DEF MonitorRestarts
    <3>2. CASE policy' = OnRestartFailed(policy)
      <4>1. policy' \in Policies /\ policy'.backoff >= policy.backoff
        BY <2>1, <3>2, FailedTyped, Zenon
      <4> QED BY <2>1, <4>1, CoreBounds DEF Policies
    <3> QED BY <2>3, <3>1, <3>2, Zenon
  <2>7. policy' = policy \/ MonitorReportsCrash \/ MonitorTicks \/ MonitorRestarts
    <3>1. MonitorNext => policy' = policy \/ MonitorReportsCrash \/ MonitorTicks \/ MonitorRestarts
      BY Zenon DEF MonitorNext, MonitorReads, MonitorFindsExit, MonitorPollFails, MonitorRetries,
         MonitorReportsRecovery, MonitorEnds
    <3>2. ClientNext => policy' = policy
      BY Zenon DEF ClientNext, SwitchSame, SwitchStops, SwitchStarts, SwitchFlips, SwitchRestores,
         Stops, Restarts, SendsReport
    <3> QED
      BY <3>1, <3>2, Zenon DEF Next, SwitchCore, KernelExits, StopCore, ApplyConfig, ServeEnds, MainStops,
         MainStopsAgain, CancelsTasks, Exits
  <2> QED BY <2>3, <2>4, <2>5, <2>6, <2>7, Zenon
<1> QED BY <1>1, KernelsAreOwned, PTL DEF Spec, RestartNeverResets

-----------------------------------------------------------------------------
(***************************************************************************)
(* The processes of one kernel.  A method of a runtime takes many steps    *)
(* and its daemon may die at any of them; CallsKnow says what the method   *)
(* in progress holds, and a step either moves one kernel on (OneMovesOn)   *)
(* or begins or ends the method (CallChanges).                             *)
(***************************************************************************)

KernelNow == [main : {"none", "wrapper", "alive", "serving", "exited", "reaped"},
              helper : BOOLEAN, by : 0..MaxDaemons, group : {"unknown", "own", "helper", "daemon"}]
CallNow == [op : {"none", "start", "stop", "restart", "drop"},
            at : {"idle", "discover", "ready", "term", "grace", "force", "reap"},
            of : 0..MaxSpawns, graceful : BOOLEAN, forced : BOOLEAN]

\* The bounded command has no other states than these.
CommandNow == [at : {"idle", "waiting", "join"}, child : {"none", "alive", "exited", "reaped"},
               helper : BOOLEAN, timedOut : BOOLEAN]

\* The state of the kernels' half, which every step of it keeps.
KernelAccount ==
    /\ kernels \in [Spawns -> KernelNow] /\ tree \in 0..MaxSpawns /\ call \in CallNow
    /\ host \in [up : BOOLEAN, count : 1..MaxDaemons]
    /\ CallsKnow

\* A method that begins, on a kernel it has just spawned or taken, and one that
\* goes on.
LEMMA CallsAreCalls ==
    /\ NoCall \in CallNow /\ NoCall.at = "idle" /\ NoCall.of = 0 /\ 0 \notin Spawns
    /\ \A op \in {"start", "stop", "restart", "drop"}, at \in {"discover", "term"}, g \in Spawns :
          Call(op, at, g) \in CallNow /\ Call(op, at, g).at = at /\ Call(op, at, g).of = g
BY KernelBounds DEF NoCall, Call, CallNow, Spawns

\* Between two calls only the tree owned is left to account for.
LEMMA KnowingIsOwning == CallsKnow => SpawnedIsOwned
<1> SUFFICES ASSUME CallsKnow, host.up, call.at = "idle", NEW g \in Spawns,
                    kernels[g].by = host.count, g # tree
             PROVE  kernels[g].main \in {"none", "reaped"}
    BY Zenon DEF SpawnedIsOwned, InCall
<1>1. call = NoCall
    BY Zenon DEF CallsKnow
<1>2. g # call.of
    BY <1>1, CallsAreCalls, Zenon
<1> QED BY <1>2, Zenon DEF CallsKnow

LEMMA CallGoesOn ==
    ASSUME call \in CallNow, NEW place \in {"ready", "term", "grace", "force", "reap"}
    PROVE  LET c == [call EXCEPT !.at = place]
           IN  c \in CallNow /\ c.at = place /\ c.of = call.of
BY Zenon DEF CallNow

LEMMA NextIsUnspawned == Unspawned # {} => NextSpawn \in Spawns /\ kernels[NextSpawn].main = "none"
BY Zenon DEF NextSpawn, Unspawned

LEMMA WrapperIsKernel ==
    ASSUME KernelAccount
    PROVE  Wrapper \in KernelNow /\ Wrapper.main = "wrapper" /\ Wrapper.by = host.count
<1>1. host.count \in 0..MaxDaemons
    BY KernelBounds DEF KernelAccount
<1> QED BY <1>1, Zenon DEF Wrapper, KernelNow

\* What a step did to the processes of one spawn: the rest is as it was.
OnlyChanges(g, f) ==
    /\ f \in [Spawns -> KernelNow]
    /\ \A o \in Spawns \ {g} : f[o] = kernels[o]

LEMMA KernelChanges ==
    ASSUME KernelAccount, NEW g \in Spawns, NEW k \in KernelNow
    PROVE  LET f == [kernels EXCEPT ![g] = k] IN OnlyChanges(g, f) /\ f[g] = k
BY Zenon DEF KernelAccount, OnlyChanges

LEMMA MainChanges ==
    ASSUME KernelAccount, NEW g \in Spawns,
           NEW m \in {"none", "wrapper", "alive", "serving", "exited", "reaped"}
    PROVE  LET f == [kernels EXCEPT ![g].main = m]
           IN  OnlyChanges(g, f) /\ f[g].main = m /\ f[g].by = kernels[g].by
<1> DEFINE k == [kernels[g] EXCEPT !.main = m]
<1>1. kernels[g] \in KernelNow /\ [kernels EXCEPT ![g].main = m] = [kernels EXCEPT ![g] = k]
    BY Zenon DEF KernelAccount
<1>2. k \in KernelNow /\ k.main = m /\ k.by = kernels[g].by
    BY <1>1, Zenon DEF KernelNow
<1> HIDE DEF k
<1> QED BY <1>1, <1>2, KernelChanges, Zenon

LEMMA HelperChanges ==
    ASSUME KernelAccount, NEW g \in Spawns, NEW b \in BOOLEAN
    PROVE  LET f == [kernels EXCEPT ![g].helper = b]
           IN  OnlyChanges(g, f) /\ f[g].main = kernels[g].main /\ f[g].by = kernels[g].by
<1> DEFINE k == [kernels[g] EXCEPT !.helper = b]
<1>1. kernels[g] \in KernelNow /\ [kernels EXCEPT ![g].helper = b] = [kernels EXCEPT ![g] = k]
    BY Zenon DEF KernelAccount
<1>2. k \in KernelNow /\ k.main = kernels[g].main /\ k.by = kernels[g].by
    BY <1>1, Zenon DEF KernelNow
<1> HIDE DEF k
<1> QED BY <1>1, <1>2, KernelChanges, Zenon

-----------------------------------------------------------------------------
\* A step of a method or of a process that changes one spawn of it: the place of
\* the call moves on, the tree stays, and no dead process comes to life.
LEMMA OneMovesOn ==
    ASSUME KernelAccount, NEW g \in Spawns,
           OnlyChanges(g, kernels'), UNCHANGED <<tree, host>>,
           call' \in CallNow, call'.of = call.of, call'.at = "idle" <=> call.at = "idle",
           call.at = "idle" => call' = call,
           kernels'[g].by = kernels[g].by,
           kernels'[g].main = "none" <=> kernels[g].main = "none",
           kernels[g].main = "reaped" => kernels'[g].main = "reaped"
    PROVE  KernelAccount'
<1>1. \A o \in Spawns : /\ kernels'[o].by = kernels[o].by
                        /\ kernels'[o].main = "none" <=> kernels[o].main = "none"
                        /\ kernels[o].main = "reaped" => kernels'[o].main = "reaped"
    BY Zenon DEF OnlyChanges
<1>2. /\ ~host'.up => call' = NoCall /\ tree' = 0
      /\ call'.at = "idle" => call' = NoCall
    BY CallsAreCalls, Zenon DEF KernelAccount, CallsKnow
<1>3. tree' # 0 => kernels'[tree'].main # "none" /\ kernels'[tree'].by = host'.count
    <2>1. tree # 0 => tree \in Spawns
        BY KernelBounds DEF KernelAccount, Spawns
    <2> QED BY <1>1, <2>1, Zenon DEF KernelAccount, CallsKnow
<1>4. call'.at # "idle" =>
          /\ tree' = 0 /\ call'.of \in Spawns
          /\ kernels'[call'.of].main # "none" /\ kernels'[call'.of].by = host'.count
    BY <1>1, Zenon DEF KernelAccount, CallsKnow
<1>5. \A o \in Spawns :
          /\ kernels'[o].by <= host'.count
          /\ host'.up /\ kernels'[o].by = host'.count /\ o # tree' /\ o # call'.of =>
                kernels'[o].main \in {"none", "reaped"}
    BY <1>1, Zenon DEF KernelAccount, CallsKnow
<1>6. CallsKnow'
    BY <1>2, <1>3, <1>4, <1>5, Zenon DEF CallsKnow
<1> QED BY <1>6, Zenon DEF KernelAccount, OnlyChanges

\* A method ends or begins: it has left the runtime one tree at most, and every
\* other spawn of this daemon is over.
LEMMA CallChanges ==
    ASSUME KernelAccount, NEW g \in Spawns, OnlyChanges(g, kernels'), UNCHANGED host,
           tree' \in 0..MaxSpawns, call' \in CallNow,
           kernels'[g].by <= host.count,
           host.up,
           tree' = 0 \/ (tree' = g /\ kernels'[g].main # "none" /\ kernels'[g].by = host.count),
           \/ call' = NoCall
           \/ /\ tree' = 0 /\ call'.at # "idle" /\ call'.of = g
              /\ kernels'[g].main # "none" /\ kernels'[g].by = host.count,
           \A o \in Spawns : kernels[o].by = host.count /\ o # tree' /\ o # call'.of /\ o # g =>
                 kernels[o].main \in {"none", "reaped"},
           g = tree' \/ g = call'.of \/ kernels'[g].main = "reaped"
    PROVE  KernelAccount'
<1>1. /\ ~host'.up => call' = NoCall /\ tree' = 0
      /\ tree' # 0 => kernels'[tree'].main # "none" /\ kernels'[tree'].by = host'.count
      /\ call'.at = "idle" => call' = NoCall
    <2>1. host'.up
        BY Zenon
    <2> QED BY <2>1, Zenon
<1>2. call'.at # "idle" =>
          /\ tree' = 0 /\ call'.of \in Spawns
          /\ kernels'[call'.of].main # "none" /\ kernels'[call'.of].by = host'.count
    <2>1. CASE call' = NoCall
        <3>1. call'.at = "idle"
            BY <2>1, CallsAreCalls, Zenon
        <3> QED BY <3>1, Zenon
    <2>2. CASE /\ tree' = 0 /\ call'.at # "idle" /\ call'.of = g
               /\ kernels'[g].main # "none" /\ kernels'[g].by = host.count
        BY <2>2, Zenon
    <2> QED BY <2>1, <2>2, Zenon
<1>3. ASSUME NEW o \in Spawns
      PROVE  /\ kernels'[o].by <= host'.count
             /\ host'.up /\ kernels'[o].by = host'.count /\ o # tree' /\ o # call'.of =>
                   kernels'[o].main \in {"none", "reaped"}
    <2>1. CASE o = g
        BY <2>1, Zenon
    <2>2. CASE o # g
        <3>1. kernels'[o] = kernels[o] /\ kernels[o].by <= host.count
            BY <2>2, Zenon DEF OnlyChanges, KernelAccount, CallsKnow
        <3> QED BY <2>2, <3>1, Zenon
    <2> QED BY <2>1, <2>2, Zenon
<1>4. CallsKnow'
    BY <1>1, <1>2, <1>3, Zenon DEF CallsKnow
<1> QED BY <1>4, Zenon DEF KernelAccount, OnlyChanges

\* What a method in progress knows.
LEMMA InProgress ==
    ASSUME KernelAccount, call.at # "idle"
    PROVE  /\ tree = 0 /\ host.up /\ call.of \in Spawns /\ kernels[call.of] \in KernelNow
           /\ kernels[call.of].main # "none" /\ kernels[call.of].by = host.count
           /\ \A o \in Spawns : kernels[o].by = host.count /\ o # call.of =>
                 kernels[o].main \in {"none", "reaped"}
<1>1. host.up
    BY CallsAreCalls, Zenon DEF KernelAccount, CallsKnow
<1>2. /\ tree = 0 /\ call.of \in Spawns
      /\ kernels[call.of].main # "none" /\ kernels[call.of].by = host.count
    BY Zenon DEF KernelAccount, CallsKnow
<1>3. \A o \in Spawns : o # tree
    BY <1>2, CallsAreCalls, Zenon
<1>4. kernels[call.of] \in KernelNow
    BY <1>2, Zenon DEF KernelAccount
<1> QED BY <1>1, <1>2, <1>3, <1>4, Zenon DEF KernelAccount, CallsKnow

\* What the runtime knows between two methods.
LEMMA AtRest ==
    ASSUME KernelAccount, host.up, call.at = "idle"
    PROVE  /\ call = NoCall
           /\ \A o \in Spawns : kernels[o].by = host.count /\ o # tree =>
                 kernels[o].main \in {"none", "reaped"}
           /\ tree # 0 => tree \in Spawns /\ kernels[tree].main # "none" /\ kernels[tree].by = host.count
<1>1. call = NoCall
    BY Zenon DEF KernelAccount, CallsKnow
<1>2. \A o \in Spawns : o # call.of
    BY <1>1, CallsAreCalls, Zenon
<1>3. tree # 0 => tree \in Spawns
    BY KernelBounds DEF KernelAccount, Spawns
<1> QED BY <1>1, <1>2, <1>3, Zenon DEF KernelAccount, CallsKnow

-----------------------------------------------------------------------------
LEMMA StartKernelKeeps ==
    ASSUME KernelAccount, StartKernel PROVE KernelAccount'
<1>1. host.up /\ call.at = "idle" /\ tree = 0 /\ Unspawned # {} /\ UNCHANGED <<tree, host>>
    BY Zenon DEF StartKernel, Spawn, InCall
<1>2. /\ kernels' = [kernels EXCEPT ![NextSpawn] = Wrapper]
      /\ call' = Call("start", "discover", NextSpawn)
    BY Zenon DEF StartKernel, Spawn
<1>3. NextSpawn \in Spawns
    BY <1>1, NextIsUnspawned, Zenon
<1>4. /\ OnlyChanges(NextSpawn, kernels')
      /\ kernels'[NextSpawn].main = "wrapper" /\ kernels'[NextSpawn].by = host.count
    BY <1>2, <1>3, KernelChanges, WrapperIsKernel, Zenon
<1>5. call' \in CallNow /\ call'.at = "discover" /\ call'.of = NextSpawn
    BY <1>2, <1>3, CallsAreCalls
<1>6. tree' \in 0..MaxSpawns /\ host.count <= host.count
    BY <1>1 DEF KernelAccount
<1>7. \A o \in Spawns : kernels[o].by = host.count /\ o # tree' =>
          kernels[o].main \in {"none", "reaped"}
    BY <1>1, AtRest, Zenon
<1> QED BY <1>1, <1>3, <1>4, <1>5, <1>6, <1>7, CallChanges, Zenon

LEMMA StopKeeps ==
    ASSUME KernelAccount, NEW op \in {"stop", "restart", "drop"}, InCall("idle"), tree # 0,
           call' = Call(op, "term", tree), tree' = 0, UNCHANGED <<kernels, host>>
    PROVE  KernelAccount'
<1>1. host.up /\ call.at = "idle" /\ tree \in Spawns
    BY AtRest, Zenon DEF InCall
<1>2. call' \in CallNow /\ call'.at = "term" /\ call'.of = tree
    BY <1>1, CallsAreCalls
<1>3. OnlyChanges(tree, kernels')
    BY Zenon DEF OnlyChanges, KernelAccount
<1>4. kernels'[tree].main # "none" /\ kernels'[tree].by = host.count /\ host.count <= host.count
    BY <1>1, AtRest DEF InCall, KernelAccount
<1>5. \A o \in Spawns : kernels[o].by = host.count /\ o # tree => kernels[o].main \in {"none", "reaped"}
    BY <1>1, AtRest, Zenon
<1> QED BY <1>1, <1>2, <1>3, <1>4, <1>5, KernelBounds, CallChanges

\* discover_process_group_id changes the group and may see the helper go.
LEMMA DiscoverKeeps ==
    ASSUME KernelAccount, Discover PROVE KernelAccount'
<1> DEFINE k == kernels[call.of]
<1>1. call.at = "discover" /\ call.at # "idle" /\ UNCHANGED <<tree, host>>
    BY Zenon DEF Discover, InCall
<1>2. call.of \in Spawns /\ k \in KernelNow
    BY <1>1, InProgress, Zenon
<1>3. PICK group \in {"own", "helper", "daemon"} :
          kernels' = [kernels EXCEPT ![call.of] = [k EXCEPT !.group = group, !.helper = k.helper /\ group # "helper"]]
    BY Zenon DEF Discover
<1>4. call' = [call EXCEPT !.at = "ready"]
    BY Zenon DEF Discover
<1>5. call' \in CallNow /\ call'.at = "ready" /\ call'.of = call.of
    BY <1>4, CallGoesOn, Zenon DEF KernelAccount
<1> DEFINE new == [k EXCEPT !.group = group, !.helper = k.helper /\ group # "helper"]
<1>6. (k.helper /\ group # "helper") \in BOOLEAN
    BY Zenon
<1>7. new \in KernelNow /\ new.main = k.main /\ new.by = k.by
    BY <1>2, <1>6, Zenon DEF KernelNow
<1>8. kernels' = [kernels EXCEPT ![call.of] = new]
    BY <1>3, Zenon
<1> HIDE DEF new
<1>9. OnlyChanges(call.of, kernels') /\ kernels'[call.of] = new
    BY <1>2, <1>7, <1>8, KernelChanges, Zenon
<1> QED BY <1>1, <1>2, <1>5, <1>7, <1>9, OneMovesOn, Zenon

LEMMA CallMovesKeeps ==
    ASSUME KernelAccount, call.at # "idle", NEW place \in {"ready", "term", "grace", "force", "reap"},
           call' = [call EXCEPT !.at = place], UNCHANGED <<kernels, tree, host>>
    PROVE  KernelAccount'
<1>1. call.of \in Spawns /\ OnlyChanges(call.of, kernels')
    BY InProgress, Zenon DEF OnlyChanges, KernelAccount
<1>2. call' \in CallNow /\ call'.at = place /\ call'.of = call.of
    BY CallGoesOn, Zenon DEF KernelAccount
<1> QED BY <1>1, <1>2, OneMovesOn, Zenon

LEMMA HealthyKeeps ==
    ASSUME KernelAccount, Healthy PROVE KernelAccount'
<1>1. call.at # "idle" /\ tree' = call.of /\ call' = NoCall /\ UNCHANGED <<kernels, host>>
    BY Zenon DEF Healthy, InCall
<1>2. call.of \in Spawns /\ host.up /\ OnlyChanges(call.of, kernels')
    BY <1>1, InProgress, Zenon DEF OnlyChanges, KernelAccount
<1>3. tree' \in 0..MaxSpawns /\ call' \in CallNow /\ kernels'[call.of].by <= host.count
    BY <1>1, <1>2, CallsAreCalls, KernelBounds DEF Spawns, KernelAccount, CallsKnow
<1>4. \A o \in Spawns : kernels[o].by = host.count /\ o # call.of => kernels[o].main \in {"none", "reaped"}
    BY <1>1, InProgress, Zenon
<1>5. kernels'[call.of].main # "none" /\ kernels'[call.of].by = host.count
    BY <1>1, InProgress, Zenon
<1> QED BY <1>1, <1>2, <1>3, <1>4, <1>5, CallChanges, Zenon

LEMMA ReadyFailsKeeps ==
    ASSUME KernelAccount, ReadyFails PROVE KernelAccount'
<1>1. call.at # "idle" /\ call' = [call EXCEPT !.at = "term"] /\ UNCHANGED <<tree, host>>
    BY Zenon DEF ReadyFails, InCall
<1>2. CASE kernels[call.of].main = "exited"
    <2>1. kernels' = [kernels EXCEPT ![call.of].main = "reaped"]
        BY <1>2, Zenon DEF ReadyFails, Reap
    <2>2. call.of \in Spawns
        BY <1>1, InProgress, Zenon
    <2>3. /\ OnlyChanges(call.of, kernels') /\ kernels'[call.of].main = "reaped"
          /\ kernels'[call.of].by = kernels[call.of].by
        BY <2>1, <2>2, MainChanges, Zenon
    <2>4. call' \in CallNow /\ call'.at = "term" /\ call'.of = call.of
        BY <1>1, CallGoesOn, Zenon DEF KernelAccount
    <2> QED BY <1>1, <1>2, <2>2, <2>3, <2>4, OneMovesOn, Zenon
<1>3. CASE kernels[call.of].main # "exited"
    BY <1>1, <1>3, CallMovesKeeps, Zenon DEF ReadyFails
<1> QED BY <1>2, <1>3, Zenon

\* The daemon is gone and its runtimes with it; what it spawned stays as it is.
LEMMA DaemonGone ==
    ASSUME KernelAccount, kernels' \in [Spawns -> KernelNow],
           \A g \in Spawns : kernels'[g].by = kernels[g].by,
           call' = NoCall, tree' = 0, host' = [host EXCEPT !.up = FALSE]
    PROVE  KernelAccount'
<1>1. host' \in [up : BOOLEAN, count : 1..MaxDaemons] /\ ~host'.up /\ host'.count = host.count
    BY Zenon DEF KernelAccount
<1>2. call' \in CallNow /\ tree' \in 0..MaxSpawns /\ call'.at = "idle"
    BY CallsAreCalls, KernelBounds
<1>3. CallsKnow'
    BY <1>1, <1>2, Zenon DEF KernelAccount, CallsKnow
<1> QED BY <1>1, <1>2, <1>3, Zenon DEF KernelAccount

\* A method returns: its kernel is reaped; a restart goes on with a new spawn,
\* and Drop is the end of the daemon.
LEMMA ReturnKeeps ==
    ASSUME KernelAccount, call.at # "idle", NEW ok \in BOOLEAN, Return(ok), UNCHANGED tree
    PROVE  KernelAccount'
<1>1. /\ call.of \in Spawns /\ host.up /\ tree = 0 /\ kernels[call.of].by = host.count
      /\ kernels[call.of].main # "none"
      /\ \A o \in Spawns : kernels[o].by = host.count /\ o # call.of => kernels[o].main \in {"none", "reaped"}
    BY InProgress, Zenon
<1> DEFINE gone == [kernels EXCEPT ![call.of].main = "reaped"]
<1>2. OnlyChanges(call.of, gone) /\ gone[call.of].main = "reaped" /\ gone[call.of].by = host.count
    BY <1>1, MainChanges, Zenon
<1>3. tree' = 0 /\ tree' \in 0..MaxSpawns
    BY <1>1, Zenon DEF KernelAccount
<1>4. host.count <= host.count
    BY DEF KernelAccount
<1>5. CASE call.op = "restart" /\ ok /\ Unspawned # {}
    <2>1. /\ kernels' = [kernels EXCEPT ![call.of].main = "reaped", ![NextSpawn] = Wrapper]
          /\ call' = Call("start", "discover", NextSpawn) /\ UNCHANGED host
        BY <1>5, Zenon DEF Return
    <2>2. NextSpawn \in Spawns /\ NextSpawn # call.of
        BY <1>1, <1>5, NextIsUnspawned, Zenon
    <2>3. call' \in CallNow /\ call'.at = "discover" /\ call'.of = NextSpawn
        BY <2>1, <2>2, CallsAreCalls
    <2>4. kernels' = [gone EXCEPT ![NextSpawn] = Wrapper]
        BY <2>1, Zenon
    <2> HIDE DEF gone
    <2>5. /\ kernels' \in [Spawns -> KernelNow] /\ kernels'[NextSpawn] = Wrapper
          /\ kernels'[call.of] = gone[call.of]
          /\ \A o \in Spawns \ {call.of, NextSpawn} : kernels'[o] = kernels[o]
        BY <1>1, <1>2, <2>2, <2>4, WrapperIsKernel, Zenon DEF OnlyChanges
    <2>6. \A o \in Spawns :
              /\ kernels'[o].by <= host.count
              /\ kernels'[o].by = host.count /\ o # NextSpawn => kernels'[o].main \in {"none", "reaped"}
        <3> SUFFICES ASSUME NEW o \in Spawns
                     PROVE  /\ kernels'[o].by <= host.count
                            /\ kernels'[o].by = host.count /\ o # NextSpawn =>
                                  kernels'[o].main \in {"none", "reaped"}
            BY Zenon
        <3>1. CASE o = NextSpawn
            BY <3>1, <2>5, <1>4, WrapperIsKernel, Zenon
        <3>2. CASE o = call.of
            BY <3>2, <2>5, <1>2, <1>4, Zenon
        <3>3. CASE o \notin {call.of, NextSpawn}
            BY <3>3, <2>5, <1>1, Zenon DEF KernelAccount, CallsKnow
        <3> QED BY <3>1, <3>2, <3>3, Zenon
    <2>7. host'.up /\ call'.at # "idle"
        BY <1>1, <2>1, <2>3, Zenon
    <2>8. kernels'[call'.of].main # "none" /\ kernels'[call'.of].by = host.count
        BY <2>3, <2>5, WrapperIsKernel, Zenon
    <2>9. CallsKnow'
        BY <1>3, <2>1, <2>2, <2>3, <2>6, <2>7, <2>8, Zenon DEF CallsKnow
    <2> QED BY <1>3, <2>1, <2>3, <2>5, <2>9, Zenon DEF KernelAccount
<1>6. CASE ~(call.op = "restart" /\ ok /\ Unspawned # {}) /\ call.op = "drop"
    <2>1. kernels' = gone /\ call' = NoCall /\ host' = [host EXCEPT !.up = FALSE]
        BY <1>6, Zenon DEF Return, Reap
    <2> HIDE DEF gone
    <2>2. kernels' \in [Spawns -> KernelNow] /\ \A g \in Spawns : kernels'[g].by = kernels[g].by
        BY <1>1, <1>2, <2>1, Zenon DEF OnlyChanges
    <2> QED BY <1>3, <2>1, <2>2, DaemonGone, Zenon
<1>7. CASE ~(call.op = "restart" /\ ok /\ Unspawned # {}) /\ call.op # "drop"
    <2>1. kernels' = gone /\ call' = NoCall /\ UNCHANGED host
        BY <1>7, Zenon DEF Return, Reap
    <2> HIDE DEF gone
    <2>2. call' \in CallNow
        BY <2>1, CallsAreCalls, Zenon
    <2> QED BY <1>1, <1>2, <1>3, <1>4, <2>1, <2>2, CallChanges, Zenon
<1> QED BY <1>5, <1>6, <1>7, Zenon

\* force_kill_tree: its own group is killed, the signal fails, or the group is
\* the daemon's and the daemon goes with it.
LEMMA ForceKillKeeps ==
    ASSUME KernelAccount, ForceKill PROVE KernelAccount'
<1> DEFINE k == kernels[call.of]
           dead == GroupKilled(k)
<1>1. call.at # "idle" /\ call.of \in Spawns /\ k \in KernelNow /\ k.main # "none"
    BY InProgress, Zenon DEF ForceKill, InCall
<1>2. /\ dead \in KernelNow /\ dead.by = k.by /\ dead.main # "none"
      /\ k.main = "reaped" => dead.main = "reaped"
    BY <1>1, Zenon DEF GroupKilled, KernelNow
<1> HIDE DEF dead
<1>3. /\ OnlyChanges(call.of, [kernels EXCEPT ![call.of] = dead])
      /\ [kernels EXCEPT ![call.of] = dead][call.of] = dead
    BY <1>1, <1>2, KernelChanges, Zenon
<1>4. CASE /\ kernels' = [kernels EXCEPT ![call.of] = dead]
           /\ call' = [call EXCEPT !.at = "reap"] /\ UNCHANGED <<tree, host>>
    <2>1. call' \in CallNow /\ call'.at = "reap" /\ call'.of = call.of
        BY <1>4, CallGoesOn, Zenon DEF KernelAccount
    <2> QED BY <1>1, <1>2, <1>3, <1>4, <2>1, OneMovesOn, Zenon
<1>5. CASE call' = [call EXCEPT !.at = "reap", !.forced = TRUE] /\ UNCHANGED <<kernels, tree, host>>
    <2>1. call' \in CallNow /\ call'.at = "reap" /\ call'.of = call.of
        <3> DEFINE c == [call EXCEPT !.at = "reap"]
        <3>1. c \in CallNow /\ c.at = "reap" /\ c.of = call.of /\ call' = [c EXCEPT !.forced = TRUE]
            BY <1>5, CallGoesOn, Zenon DEF KernelAccount
        <3> HIDE DEF c
        <3> QED BY <3>1, Zenon DEF CallNow
    <2>2. OnlyChanges(call.of, kernels')
        BY <1>5, Zenon DEF OnlyChanges, KernelAccount
    <2> QED BY <1>1, <1>5, <2>1, <2>2, OneMovesOn, Zenon
<1>6. CASE /\ call' = NoCall /\ tree' = 0 /\ host' = [host EXCEPT !.up = FALSE]
           /\ kernels' = [kernels EXCEPT ![call.of] = IF k.main = "wrapper" THEN dead ELSE k]
    <2>1. (IF k.main = "wrapper" THEN dead ELSE k) \in KernelNow
          /\ (IF k.main = "wrapper" THEN dead ELSE k).by = k.by
        BY <1>1, <1>2, Zenon
    <2>2. kernels' \in [Spawns -> KernelNow] /\ \A g \in Spawns : kernels'[g].by = kernels[g].by
        BY <1>1, <1>6, <2>1, Zenon DEF KernelAccount
    <2> QED BY <1>6, <2>2, DaemonGone, Zenon
<1> QED BY <1>4, <1>5, <1>6, Zenon DEF ForceKill, dead

LEMMA PollExitKeeps ==
    ASSUME KernelAccount, PollExit PROVE KernelAccount'
<1>1. host.up /\ call.at = "idle" /\ tree # 0 /\ UNCHANGED <<call, host>> /\ tree' = 0
    BY Zenon DEF PollExit, InCall
<1>2. /\ tree \in Spawns /\ kernels[tree].by = host.count /\ call = NoCall
      /\ \A o \in Spawns : kernels[o].by = host.count /\ o # tree => kernels[o].main \in {"none", "reaped"}
    BY <1>1, AtRest, Zenon
<1>3. /\ OnlyChanges(tree, kernels') /\ kernels'[tree].main = "reaped"
      /\ kernels'[tree].by = host.count /\ host.count <= host.count
    <2>1. kernels' = [kernels EXCEPT ![tree].main = "reaped"]
        BY Zenon DEF PollExit, Reap
    <2>2. host.count <= host.count
        BY DEF KernelAccount
    <2> QED BY <1>2, <2>1, <2>2, MainChanges, Zenon
<1>4. call' = NoCall /\ call' \in CallNow /\ tree' \in 0..MaxSpawns
    BY <1>1, <1>2, KernelBounds DEF KernelAccount
<1> QED BY <1>1, <1>2, <1>3, <1>4, CallChanges, Zenon

LEMMA DropKeeps ==
    ASSUME KernelAccount, Drop PROVE KernelAccount'
<1>1. InCall("idle") /\ host.up /\ call.at = "idle"
    BY Zenon DEF Drop, InCall
<1>2. CASE tree # 0 /\ call' = Call("drop", "term", tree) /\ tree' = 0 /\ UNCHANGED <<kernels, host>>
    BY <1>1, <1>2, StopKeeps, Zenon
<1>3. CASE tree = 0 /\ host' = [host EXCEPT !.up = FALSE] /\ UNCHANGED <<kernels, tree, call>>
    <2>1. call' = NoCall
        BY <1>1, <1>3, AtRest, Zenon
    <2> QED BY <1>3, <2>1, DaemonGone, Zenon DEF KernelAccount
<1> QED BY <1>2, <1>3, Zenon DEF Drop

\* The operating system never brings a process back.
LEMMA KernelActsKeeps ==
    ASSUME KernelAccount, NEW g \in Spawns, KernelActs(g) PROVE KernelAccount'
<1>1. UNCHANGED <<tree, call, host>>
    BY Zenon DEF KernelActs
<1>2. \/ kernels[g].main = "wrapper" /\ kernels' = [kernels EXCEPT ![g].main = "alive"]
      \/ kernels[g].main = "alive" /\ kernels' = [kernels EXCEPT ![g].main = "serving"]
      \/ kernels[g].main \in {"alive", "serving"} /\ kernels' = [kernels EXCEPT ![g].main = "exited"]
      \/ kernels' = [kernels EXCEPT ![g].helper = TRUE]
      \/ kernels' = [kernels EXCEPT ![g].helper = FALSE]
    BY Zenon DEF KernelActs
<1>3. /\ OnlyChanges(g, kernels') /\ kernels'[g].by = kernels[g].by
      /\ kernels'[g].main = "none" <=> kernels[g].main = "none"
      /\ kernels[g].main = "reaped" => kernels'[g].main = "reaped"
    <2>1. CASE kernels[g].main = "wrapper" /\ kernels' = [kernels EXCEPT ![g].main = "alive"]
        BY <2>1, MainChanges, Zenon
    <2>2. CASE kernels[g].main = "alive" /\ kernels' = [kernels EXCEPT ![g].main = "serving"]
        BY <2>2, MainChanges, Zenon
    <2>3. CASE kernels[g].main \in {"alive", "serving"} /\ kernels' = [kernels EXCEPT ![g].main = "exited"]
        BY <2>3, MainChanges, Zenon
    <2>4. CASE kernels' = [kernels EXCEPT ![g].helper = TRUE]
        BY <2>4, HelperChanges, Zenon
    <2>5. CASE kernels' = [kernels EXCEPT ![g].helper = FALSE]
        BY <2>5, HelperChanges, Zenon
    <2> QED BY <1>2, <2>1, <2>2, <2>3, <2>4, <2>5, Zenon
<1> QED BY <1>1, <1>3, OneMovesOn, Zenon DEF KernelAccount

LEMMA BootDaemonKeeps ==
    ASSUME KernelAccount, BootDaemon PROVE KernelAccount'
<1>1. /\ ~host.up /\ call = NoCall /\ tree = 0 /\ UNCHANGED <<kernels, tree, call>>
      /\ host' = [up |-> TRUE, count |-> host.count + 1] /\ host.count < MaxDaemons
    BY Zenon DEF BootDaemon, KernelAccount, CallsKnow
<1>2. host' \in [up : BOOLEAN, count : 1..MaxDaemons]
    BY <1>1, KernelBounds DEF KernelAccount
<1>3. \A g \in Spawns : kernels'[g].by <= host'.count /\ kernels'[g].by # host'.count
    <2> SUFFICES ASSUME NEW g \in Spawns PROVE kernels[g].by <= host.count + 1 /\ kernels[g].by # host.count + 1
        BY <1>1, Zenon
    <2>1. kernels[g].by \in Nat /\ host.count \in Nat /\ kernels[g].by <= host.count
        BY KernelBounds DEF KernelAccount, CallsKnow, KernelNow
    <2> QED BY <2>1
<1>4. call'.at = "idle"
    BY <1>1, CallsAreCalls, Zenon
<1>5. CallsKnow'
    BY <1>1, <1>3, <1>4, Zenon DEF CallsKnow
<1> QED BY <1>1, <1>2, <1>5, Zenon DEF KernelAccount

LEMMA KernelStepKeeps ==
    ASSUME KernelAccount, KernelNext PROVE KernelAccount'
<1>1. CASE \E op \in {"stop", "restart"} : Stop(op)
    BY <1>1, StopKeeps, Zenon DEF Stop
<1>2. CASE SignalTerm
    <2>1. CASE call' = [call EXCEPT !.at = "grace"]
        BY <1>2, <2>1, CallMovesKeeps, Zenon DEF SignalTerm, InCall
    <2>2. CASE call' = [call EXCEPT !.at = "force", !.graceful = TRUE]
        <3>1. call.at # "idle" /\ UNCHANGED <<kernels, tree, host>>
            BY <1>2, Zenon DEF SignalTerm, InCall
        <3> DEFINE c == [call EXCEPT !.at = "force"]
        <3>2. c \in CallNow /\ c.at = "force" /\ c.of = call.of /\ call' = [c EXCEPT !.graceful = TRUE]
            BY <2>2, CallGoesOn, Zenon DEF KernelAccount
        <3> HIDE DEF c
        <3>3. call' \in CallNow /\ call'.at = "force" /\ call'.of = call.of
            BY <3>2, Zenon DEF CallNow
        <3>4. call.of \in Spawns /\ OnlyChanges(call.of, kernels')
            BY <3>1, InProgress, Zenon DEF OnlyChanges, KernelAccount
        <3> QED BY <3>1, <3>3, <3>4, OneMovesOn, Zenon
    <2> QED BY <1>2, <2>1, <2>2, Zenon DEF SignalTerm
<1>3. CASE GraceEnds
    BY <1>3, CallMovesKeeps, Zenon DEF GraceEnds, InCall
<1>4. CASE SeesExit
    BY <1>4, ReturnKeeps, Zenon DEF SeesExit
<1>5. CASE WaitReaped
    <2>1. (~call.graceful /\ ~call.forced) \in BOOLEAN
        BY Zenon
    <2> QED BY <1>5, <2>1, ReturnKeeps, Zenon DEF WaitReaped, InCall
<1>6. CASE KillDaemon
    BY <1>6, DaemonGone, Zenon DEF KillDaemon, KernelAccount
<1> QED BY <1>1, <1>2, <1>3, <1>4, <1>5, <1>6, StartKernelKeeps, PollExitKeeps, DropKeeps,
           DiscoverKeeps, HealthyKeeps, ReadyFailsKeeps, ForceKillKeeps, BootDaemonKeeps,
           KernelActsKeeps, Zenon DEF KernelNext, RuntimeStep

LEMMA CommandStepKeeps ==
    ASSUME command \in CommandNow, CommandNext PROVE command' \in CommandNow
<1>1. CASE RunBounded
    BY <1>1, Zenon DEF RunBounded, NoBoundedCommand, CommandNow
<1>2. CASE WaitUntil
    BY <1>2, Zenon DEF WaitUntil, CommandNow
<1>3. CASE JoinReaders
    BY <1>3, Zenon DEF JoinReaders, CommandNow
<1>4. CASE CommandActs
    BY <1>4, Zenon DEF CommandActs, CommandNow
<1> QED BY <1>1, <1>2, <1>3, <1>4, Zenon DEF CommandNext, CommandStep

LEMMA AccountedIsTyped == KernelAccount /\ command \in CommandNow <=> KernelTypeOK /\ CallsKnow
BY Zenon DEF KernelAccount, KernelTypeOK, KernelNow, CallNow, CommandNow

LEMMA KernelInitHolds == ProcessInit => KernelAccount /\ command \in CommandNow
<1> SUFFICES ASSUME ProcessInit PROVE KernelAccount /\ command \in CommandNow
    BY Zenon
<1>1. \A g \in Spawns : kernels[g] = Unused
    BY Zenon DEF ProcessInit
<1>2. Unused \in KernelNow /\ Unused.main = "none" /\ Unused.by = 0
    BY KernelBounds DEF Unused, KernelNow
<1>3. kernels \in [Spawns -> KernelNow]
    BY <1>2, Zenon DEF ProcessInit
<1>4. host \in [up : BOOLEAN, count : 1..MaxDaemons] /\ host.up /\ host.count = 1
    BY KernelBounds DEF ProcessInit
<1>5. tree = 0 /\ tree \in 0..MaxSpawns /\ call = NoCall /\ call \in CallNow /\ call.at = "idle"
    BY CallsAreCalls, KernelBounds DEF ProcessInit
<1>6. \A g \in Spawns : kernels[g].by <= host.count /\ kernels[g].main \in {"none", "reaped"}
    BY <1>1, <1>2, <1>4
<1>7. CallsKnow
    BY <1>4, <1>5, <1>6, Zenon DEF CallsKnow
<1>8. command \in CommandNow
    BY Zenon DEF ProcessInit, NoBoundedCommand, CommandNow
<1> QED BY <1>3, <1>4, <1>5, <1>7, <1>8, Zenon DEF KernelAccount

\* Whatever fails on the way, a start that timed out, a group that could not be
\* signalled, a stop that returned an error, and however many daemons were
\* killed before: between two calls of a runtime every kernel process its daemon
\* spawned is reaped or is the tree the runtime owns (OwnedProcessTree,
\* caly-corectl's runtimes).
THEOREM KernelsAreAccounted == ProcessSpec => []KernelsAccounted
<1> DEFINE I == KernelAccount /\ command \in CommandNow
           N == (KernelNext /\ UNCHANGED command) \/ (CommandNext /\ UNCHANGED kernelVars)
<1>1. ProcessInit => I
    BY KernelInitHolds, Zenon
<1>2. I /\ [N]_processVars => I'
    <2> SUFFICES ASSUME I, [N]_processVars PROVE I'
        BY Zenon
    <2>1. CASE KernelNext /\ UNCHANGED command
        BY <2>1, KernelStepKeeps, Zenon
    <2>2. CASE UNCHANGED kernelVars
        <3>1. KernelAccount'
            BY <2>2, Zenon DEF kernelVars, KernelAccount, CallsKnow
        <3>2. CASE CommandNext
            BY <3>1, <3>2, CommandStepKeeps, Zenon
        <3>3. CASE UNCHANGED command
            BY <3>1, <3>3, Zenon
        <3> QED BY <2>1, <3>2, <3>3, Zenon DEF processVars
    <2> QED BY <2>1, <2>2, Zenon DEF processVars
<1>3. I => KernelsAccounted
    BY AccountedIsTyped, KnowingIsOwning, Zenon DEF KernelsAccounted
<1> QED BY <1>1, <1>2, <1>3, PTL DEF ProcessSpec
=============================================================================
