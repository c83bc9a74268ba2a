------------------------ MODULE DaemonProcessProofs ------------------------
(***************************************************************************)
(* The daemon processes for any number of processes, boots and commands:   *)
(* a daemon that serves is the one its clients reach, and one that shut    *)
(* down has restored the desktop.                                          *)
(*                                                                         *)
(* HolderKnows carries both: the lock makes every process but its holder   *)
(* one that is down, so what a step of the holder disturbs is the holder's *)
(* own.  Then what the daemon publishes while it serves, for any clients,  *)
(* slices, replay capacity and number of events.                           *)
(***************************************************************************)
EXTENDS DaemonProcess, Projection, TLAPS

\* The part of ProcessInv that is inductive; the rest of it follows.
LEMMA ReachableFollows ==
  ASSUME HolderKnows
  PROVE  ServingIsReachable /\ ShutdownRestores
BY Zenon DEF HolderKnows, ServingIsReachable, ShutdownRestores, At, Places

LEMMA DownTyped ==
  ASSUME NEW how \in {"none", "clean", "failed", "killed"}
  PROVE  Down(how) \in Memory
BY ProcessesAssumption DEF Down, Memory, Places

\* Setting one field of one process keeps the types.
LEMMA FieldTyped ==
  ASSUME NEW f \in [Processes -> Memory], NEW p \in Processes
  PROVE  /\ \A x \in Places : [f EXCEPT ![p].at = x] \in [Processes -> Memory]
         /\ \A n \in 0..MaxQueue : [f EXCEPT ![p].queue = n] \in [Processes -> Memory]
         /\ \A w \in {"no", "bound", "serving"} : [f EXCEPT ![p].woken = w] \in [Processes -> Memory]
         /\ \A s \in SUBSET {"bind", "core", "restore", "task"} :
               [f EXCEPT ![p].faults = s] \in [Processes -> Memory]
         /\ \A b \in BOOLEAN : /\ [f EXCEPT ![p].tasks = b] \in [Processes -> Memory]
                               /\ [f EXCEPT ![p].fatal = b] \in [Processes -> Memory]
                               /\ [f EXCEPT ![p].told = b] \in [Processes -> Memory]
                               /\ [f EXCEPT ![p].late = b] \in [Processes -> Memory]
<1>1. f[p] \in Memory
  BY Zenon
<1>2. ASSUME NEW b \in BOOLEAN
      PROVE  /\ [f EXCEPT ![p].tasks = b] \in [Processes -> Memory]
             /\ [f EXCEPT ![p].fatal = b] \in [Processes -> Memory]
             /\ [f EXCEPT ![p].told = b] \in [Processes -> Memory]
             /\ [f EXCEPT ![p].late = b] \in [Processes -> Memory]
  <2>1. /\ [f[p] EXCEPT !.tasks = b] \in Memory
        /\ [f[p] EXCEPT !.fatal = b] \in Memory
        /\ [f[p] EXCEPT !.told = b] \in Memory
        /\ [f[p] EXCEPT !.late = b] \in Memory
    BY <1>1, Zenon DEF Memory
  <2> QED BY <2>1, Zenon
<1>3. \A x \in Places : [f EXCEPT ![p].at = x] \in [Processes -> Memory]
  BY <1>1, Zenon DEF Memory
<1>4. \A n \in 0..MaxQueue : [f EXCEPT ![p].queue = n] \in [Processes -> Memory]
  BY <1>1, Zenon DEF Memory
<1>5. \A w \in {"no", "bound", "serving"} : [f EXCEPT ![p].woken = w] \in [Processes -> Memory]
  BY <1>1, Zenon DEF Memory
<1>6. \A s \in SUBSET {"bind", "core", "restore", "task"} :
         [f EXCEPT ![p].faults = s] \in [Processes -> Memory]
  BY <1>1, Zenon DEF Memory
<1> QED BY <1>2, <1>3, <1>4, <1>5, <1>6, Zenon

LEMMA ProcessesStart ==
  ASSUME ProcessInit
  PROVE  ProcessType /\ HolderKnows
<1>1. ProcessType
  <2>1. process \in [Processes -> Memory]
    BY DownTyped, Zenon DEF ProcessInit
  <2>2. engaged \in BOOLEAN
    BY Zenon DEF ProcessInit
  <2> QED BY <2>1, <2>2, ProcessesAssumption DEF ProcessInit, ProcessType
<1>2. HolderKnows
  BY ProcessesAssumption, Zenon DEF ProcessInit, HolderKnows, Down, At, Places
<1> QED BY <1>1, <1>2, Zenon

\* A process that is not down holds the lock, so the others are down.
LEMMA OthersAreDown ==
  ASSUME HolderKnows, NEW p \in Processes, NEW q \in Processes, q # p, ~ At(p, "down")
  PROVE  At(q, "down") /\ holder = p
BY Zenon DEF HolderKnows

\* Booting: the lock is taken, and the socket and the secret are published.
LEMMA BootKeeps ==
  ASSUME ProcessType, HolderKnows, NEW p \in Processes,
         AcquireLock(p) \/ BuildFails(p) \/ StartRuntime(p) \/ Bind(p) \/ Listen(p)
  PROVE  ProcessType' /\ HolderKnows'
<1>1. CASE AcquireLock(p)
  <2>1. ProcessType'
    <3>1. [Down("none") EXCEPT !.at = "locked"] \in Memory
      BY DownTyped, Zenon DEF Memory, Places
    <3> QED BY <1>1, <3>1, ProcessesAssumption DEF ProcessType, AcquireLock, effects
  <2>2. HolderKnows'
    BY <1>1, ProcessesAssumption DEF ProcessType, Memory, HolderKnows, AcquireLock, Down, At, Places, effects
  <2> QED BY <2>1, <2>2, Zenon
<1>2. CASE BuildFails(p)
  <2>1. ProcessType'
    BY <1>2, DownTyped, Zenon DEF ProcessType, BuildFails
  <2>2. HolderKnows'
    BY <1>2, ProcessesAssumption, OthersAreDown
    DEF ProcessType, Memory, HolderKnows, BuildFails, Down, At, Places
  <2> QED BY <2>1, <2>2, Zenon
<1>3. CASE StartRuntime(p)
  <2>1. ProcessType'
    <3>1. [process EXCEPT ![p].at = "booted"] \in [Processes -> Memory]
      BY DEF ProcessType, Memory, Places
    <3>2. [[process EXCEPT ![p].at = "booted"] EXCEPT ![p].tasks = TRUE] \in [Processes -> Memory]
      BY <3>1, FieldTyped, Zenon
    <3>3. process' \in [Processes -> Memory]
      BY <1>3, <3>2, Zenon DEF StartRuntime
    <3> QED BY <1>3, <3>3, Zenon DEF ProcessType, StartRuntime
  <2>2. HolderKnows'
    BY <1>3, ProcessesAssumption DEF ProcessType, Memory, HolderKnows, StartRuntime, At, Places
  <2> QED BY <2>1, <2>2, Zenon
<1>4. CASE Bind(p)
  <2>1. ProcessType'
    BY <1>4, ProcessesAssumption DEF ProcessType, Memory, Bind, Places, effects
  <2>2. HolderKnows'
    BY <1>4, ProcessesAssumption DEF ProcessType, Memory, HolderKnows, Bind, At, Places, effects
  <2> QED BY <2>1, <2>2, Zenon
<1>5. CASE Listen(p)
  <2>1. ProcessType'
    BY <1>5, ProcessesAssumption DEF ProcessType, Memory, Listen, Places, effects, files
  <2>2. HolderKnows'
    BY <1>5, ProcessesAssumption DEF ProcessType, Memory, HolderKnows, Listen, At, Places, effects, files
  <2> QED BY <2>1, <2>2, Zenon
<1> QED BY <1>1, <1>2, <1>3, <1>4, <1>5, Zenon

\* Work: commands are admitted and handled, a task may die and wake the waiter.
LEMMA WorkKeeps ==
  ASSUME ProcessType, HolderKnows, NEW p \in Processes,
         Admit(p) \/ Handle(p) \/ TaskDies(p) \/ FatalWakes(p) \/ AskedToStop(p)
  PROVE  ProcessType' /\ HolderKnows'
<1>0. process \in [Processes -> Memory] /\ process[p] \in Memory
  BY Zenon DEF ProcessType
<1>1. CASE Admit(p)
  <2>1. process[p].queue + 1 \in 0..MaxQueue
    BY <1>0, <1>1, ProcessesAssumption DEF Admit, Memory
  <2>2. process' \in [Processes -> Memory]
    BY <1>0, <1>1, <2>1, FieldTyped, Zenon DEF Admit
  <2>3. ProcessType'
    BY <1>1, <2>2, Zenon DEF ProcessType, Admit, files, effects
  <2>4. HolderKnows'
    BY <1>0, <1>1 DEF HolderKnows, Memory, Admit, At, files, effects
  <2> QED BY <2>3, <2>4, Zenon
<1>2. CASE Handle(p)
  <2>1. process[p].queue - 1 \in 0..MaxQueue
    BY <1>0, <1>2, ProcessesAssumption DEF Handle, Memory
  <2>2. [process EXCEPT ![p].queue = @ - 1] \in [Processes -> Memory]
    BY <1>0, <2>1, FieldTyped, Zenon
  <2>3. (process[p].late \/ At(p, "join")) \in BOOLEAN
    BY Zenon
  <2>4. process' \in [Processes -> Memory]
    BY <1>0, <1>2, <2>2, <2>3, FieldTyped, Zenon DEF Handle
  <2>5. ProcessType'
    BY <1>2, <2>4, Zenon DEF ProcessType, Handle, files
  <2>6. HolderKnows'
    BY <1>0, <1>2, OthersAreDown DEF HolderKnows, Memory, Handle, At, files, Places
  <2> QED BY <2>5, <2>6, Zenon
<1>3. CASE TaskDies(p)
  <2>1. [process EXCEPT ![p].fatal = TRUE] \in [Processes -> Memory]
    BY <1>0, FieldTyped, Zenon
  <2>2. [process EXCEPT ![p].fatal = TRUE, ![p].tasks = FALSE] \in [Processes -> Memory]
    BY <2>1, FieldTyped, Zenon
  <2>3. process[p].faults \union {"task"} \in SUBSET {"bind", "core", "restore", "task"}
    BY <1>0, Zenon DEF Memory
  <2>4. process' \in [Processes -> Memory]
    BY <1>0, <1>3, <2>2, <2>3, FieldTyped, Zenon DEF TaskDies
  <2>5. ProcessType'
    BY <1>3, <2>4, Zenon DEF ProcessType, TaskDies, files, effects
  <2>6. HolderKnows'
    BY <1>0, <1>3 DEF HolderKnows, Memory, TaskDies, At, files, effects, Places
  <2> QED BY <2>5, <2>6, Zenon
<1>4. CASE FatalWakes(p)
  <2>1. [process EXCEPT ![p].woken = process[p].at] \in [Processes -> Memory]
    BY <1>0, <1>4, FieldTyped, Zenon DEF FatalWakes
  <2>2. Heard(p) \in BOOLEAN
    BY Zenon DEF Heard, At
  <2>3. process' \in [Processes -> Memory]
    BY <1>4, <2>1, <2>2, FieldTyped, Zenon DEF FatalWakes
  <2>4. ProcessType'
    BY <1>4, <2>3, Zenon DEF ProcessType, FatalWakes, files, effects
  <2>5. HolderKnows'
    BY <1>0, <1>4 DEF HolderKnows, Memory, FatalWakes, At, files, effects
  <2> QED BY <2>4, <2>5, Zenon
<1>5. CASE AskedToStop(p)
  <2>1. process' \in [Processes -> Memory]
    BY <1>0, <1>5, FieldTyped, Zenon DEF AskedToStop
  <2>2. ProcessType'
    BY <1>5, <2>1, Zenon DEF ProcessType, AskedToStop, files, effects
  <2>3. HolderKnows'
    BY <1>0, <1>5, ZenonT(60) DEF HolderKnows, Memory, AskedToStop, At, files, effects
  <2> QED BY <2>2, <2>3, Zenon
<1> QED BY <1>1, <1>2, <1>3, <1>4, <1>5, Zenon

\* The shutdown phases: the kernel, the platform, the tasks.  From the restore
\* on the desktop stays disengaged unless a command is handled late.
LEMMA ShutdownKeeps ==
  ASSUME ProcessType, HolderKnows, NEW p \in Processes,
         ServeEnds(p) \/ StopCore(p) \/ ReapCore(p) \/ RestorePlatform(p) \/ JoinTasks(p)
  PROVE  ProcessType' /\ HolderKnows'
<1>0. process \in [Processes -> Memory] /\ process[p] \in Memory
  BY Zenon DEF ProcessType
<1>1. \A x \in {"ending", "reap", "restore", "join", "unbind"} :
         [process EXCEPT ![p].at = x] \in [Processes -> Memory]
  BY <1>0, FieldTyped, Zenon DEF Places
<1>2. process[p].faults \union {"core"} \in SUBSET {"bind", "core", "restore", "task"}
      /\ process[p].faults \union {"restore"} \in SUBSET {"bind", "core", "restore", "task"}
  BY <1>0, Zenon DEF Memory
<1>3. CASE ServeEnds(p)
  <2>1. ProcessType'
    BY <1>1, <1>3, Zenon DEF ProcessType, ServeEnds, files, effects
  <2>2. HolderKnows'
    BY <1>0, <1>3 DEF HolderKnows, Memory, ServeEnds, At, files, effects, Places
  <2> QED BY <2>1, <2>2, Zenon
<1>4. CASE StopCore(p)
  <2>1. ProcessType'
    BY <1>1, <1>4, Zenon DEF ProcessType, StopCore, Stopped, files
  <2>2. HolderKnows'
    BY <1>0, <1>4 DEF HolderKnows, Memory, StopCore, At, files, Places
  <2> QED BY <2>1, <2>2, Zenon
<1>5. CASE ReapCore(p)
  <2>1. [process EXCEPT ![p].at = "restore", ![p].faults = @ \union {"core"}] \in [Processes -> Memory]
    BY <1>0, <1>1, <1>2, FieldTyped, Zenon
  <2>2. process' \in [Processes -> Memory]
    BY <1>1, <1>5, <2>1, Zenon DEF ReapCore, AfterReap
  <2>3. ProcessType'
    BY <1>5, <2>2, Zenon DEF ProcessType, ReapCore, Stopped, files
  <2>4. HolderKnows'
    BY <1>0, <1>5 DEF HolderKnows, Memory, ReapCore, AfterReap, At, files, Places
  <2> QED BY <2>3, <2>4, Zenon
<1>6. CASE RestorePlatform(p)
  <2>1. [process EXCEPT ![p].at = "join", ![p].faults = @ \union {"restore"}] \in [Processes -> Memory]
    BY <1>0, <1>1, <1>2, FieldTyped, Zenon
  <2>2. process' \in [Processes -> Memory]
    BY <1>1, <1>6, <2>1, Zenon DEF RestorePlatform
  <2>3. ProcessType'
    BY <1>6, <2>2, Zenon DEF ProcessType, RestorePlatform, files
  <2>4. HolderKnows'
    BY <1>0, <1>6, OthersAreDown DEF HolderKnows, Memory, RestorePlatform, At, files, Places
  <2> QED BY <2>3, <2>4, Zenon
<1>7. CASE JoinTasks(p)
  <2>1. [process EXCEPT ![p].at = "unbind", ![p].tasks = FALSE] \in [Processes -> Memory]
    BY <1>1, FieldTyped, Zenon
  <2>2. 0 \in 0..MaxQueue
    BY ProcessesAssumption
  <2>3. process' \in [Processes -> Memory]
    BY <1>7, <2>1, <2>2, FieldTyped, Zenon DEF JoinTasks, Joined
  <2>4. ProcessType'
    BY <1>7, <2>3, Zenon DEF ProcessType, JoinTasks, files, effects
  <2>5. HolderKnows'
    BY <1>0, <1>7 DEF HolderKnows, Memory, JoinTasks, Joined, At, files, effects, Places
  <2> QED BY <2>4, <2>5, Zenon
<1> QED BY <1>3, <1>4, <1>5, <1>6, <1>7, Zenon

\* The end: the files go, then the lock; or the process is killed anywhere.
LEMMA EndKeeps ==
  ASSUME ProcessType, HolderKnows, NEW p \in Processes,
         Unbind(p) \/ Unpublish(p) \/ Release(p) \/ Killed(p)
  PROVE  ProcessType' /\ HolderKnows'
<1>0. process \in [Processes -> Memory] /\ process[p] \in Memory
  BY Zenon DEF ProcessType
<1>1. CASE Unbind(p)
  <2>1. ProcessType'
    BY <1>0, <1>1, FieldTyped, Zenon DEF ProcessType, Unbind, effects, Places
  <2>2. HolderKnows'
    BY <1>0, <1>1, OthersAreDown DEF HolderKnows, Memory, Unbind, At, effects, Places
  <2> QED BY <2>1, <2>2, Zenon
<1>2. CASE Unpublish(p)
  <2>1. ProcessType'
    BY <1>0, <1>2, FieldTyped, Zenon DEF ProcessType, Unpublish, effects, Places
  <2>2. HolderKnows'
    BY <1>0, <1>2, OthersAreDown DEF HolderKnows, Memory, Unpublish, At, effects, Places
  <2> QED BY <2>1, <2>2, Zenon
<1>3. CASE Release(p)
  <2>1. \A how \in {"clean", "failed"} :
           [Down(how) EXCEPT !.faults = process[p].faults, !.late = process[p].late] \in Memory
    <3>1. \A m \in Memory : [m EXCEPT !.faults = process[p].faults] \in Memory
      BY <1>0, Zenon DEF Memory
    <3>2. process[p].late \in BOOLEAN
      BY <1>0, Zenon DEF Memory
    <3>3. \A m \in Memory : [m EXCEPT !.late = process[p].late] \in Memory
      BY <3>2, Zenon DEF Memory
    <3> QED BY <3>1, <3>3, DownTyped, Zenon
  <2>2. ProcessType'
    BY <1>3, <2>1, Zenon DEF ProcessType, Release, effects
  <2>3. HolderKnows'
    BY <1>0, <1>3, OthersAreDown, ProcessesAssumption
    DEF HolderKnows, Memory, Release, Down, At, effects, Places
  <2> QED BY <2>2, <2>3, Zenon
<1>4. CASE Killed(p)
  <2>1. ProcessType'
    BY <1>4, DownTyped, Zenon DEF ProcessType, Killed, effects
  <2>2. HolderKnows'
    BY <1>0, <1>4, OthersAreDown, ProcessesAssumption
    DEF HolderKnows, Memory, Killed, Down, At, effects, Places
  <2> QED BY <2>1, <2>2, Zenon
<1> QED BY <1>1, <1>2, <1>3, <1>4, Zenon

-----------------------------------------------------------------------------
\* Every step of every process keeps the inductive invariant.
LEMMA ProcessStepKeeps ==
  ASSUME ProcessType, HolderKnows, [ProcessNext]_processVars
  PROVE  ProcessType' /\ HolderKnows'
<1>1. ASSUME NEW p \in Processes,
             \/ AcquireLock(p) \/ BuildFails(p) \/ ProcessStep(p)
             \/ Admit(p) \/ Handle(p) \/ TaskDies(p) \/ AskedToStop(p) \/ Killed(p)
      PROVE  ProcessType' /\ HolderKnows'
  BY <1>1, BootKeeps, WorkKeeps, ShutdownKeeps, EndKeeps, Zenon DEF ProcessStep
<1>2. CASE UNCHANGED processVars
  BY <1>2, Zenon DEF processVars, ProcessType, HolderKnows, At
<1> QED BY <1>1, <1>2, Zenon DEF ProcessNext

\* A daemon that serves is the one its clients reach: the socket and the secret
\* are its own, however many processes boot, are killed and shut down around it
\* (bind_owner_only, publish_secret and finish_daemon of daemon.rs).
THEOREM ProcessInvariant == ProcessSpec => []ProcessInv
<1>1. ProcessInit => ProcessType /\ HolderKnows
  BY ProcessesStart, Zenon
<1>2. ProcessType /\ HolderKnows /\ [ProcessNext]_processVars => ProcessType' /\ HolderKnows'
  BY ProcessStepKeeps, Zenon
<1>3. ProcessType /\ HolderKnows => ProcessInv
  BY ReachableFollows, Zenon DEF ProcessInv
<1> QED BY <1>1, <1>2, <1>3, PTL DEF ProcessSpec

\* A daemon whose shutdown has run left the desktop restored, unless the restore
\* itself failed or a command was handled after it: a kernel that would not stop
\* is no reason (run_shutdown of shutdown_runner.rs).
THEOREM ShutdownIsComplete == ProcessSpec => []ShutdownRestores
<1>1. ProcessInv => ShutdownRestores
  BY ReachableFollows, Zenon DEF ProcessInv
<1> QED BY <1>1, ProcessInvariant, PTL

-----------------------------------------------------------------------------
(***************************************************************************)
(* The projection and its watchers.  StreamOrdered and StreamsKnow make    *)
(* NothingSkipped inductive: a frame still to be delivered tells the truth *)
(* of its own position, and it is the next one for the caller's cursor.    *)
(***************************************************************************)
ClientNow == [epoch : 0 .. MaxEpoch, cursor : Sequence, told : SUBSET Sequence, lost : SUBSET Sequence]
StreamNow == [phase : {"closed", "opened", "live", "lagged"}, initial : Seq(Frame), pos : Sequence]

\* The publishing side, one client and one stream, each at a time.
Published ==
  /\ epoch \in 1 .. MaxEpoch
  /\ log \in Seq(Slices) /\ Len(log) \in Sequence
  /\ replay \in Seq(Event)
  /\ projector \in [cursor : Sequence, view : Snapshot]
  /\ ProjectorExact /\ ReplayExact
ClientGood(k) ==
  /\ k \in ClientNow /\ k.epoch <= epoch
  /\ k.epoch = epoch => k.cursor <= Current /\ 1 .. k.cursor \subseteq k.told \cup k.lost
Placed(q, i, n, k) ==
  /\ CursorOf(q[i]) <= n
  /\ q[i].kind = "Event" => k.epoch = epoch /\ q[i].event.seq = k.cursor + i
  /\ q[i].kind = "Snapshot" => i = 1 /\ Len(q) = 1 /\ (k.epoch = epoch => k.cursor <= q[i].cursor)
StreamGood(r, k) ==
  /\ r \in StreamNow /\ r.pos <= Current
  /\ r.phase # "closed" => 1 .. r.pos \subseteq k.told \cup k.lost \cup Covered(r.initial)
  /\ r.phase # "closed" /\ k.epoch = epoch => k.cursor <= r.pos
  /\ r.phase # "closed" /\ k.epoch # epoch => r.initial # << >>
  /\ \A i \in DOMAIN r.initial : Placed(r.initial, i, r.pos, k) /\ FrameExact(r.initial[i])
Good(r, k) == ClientGood(k) /\ StreamGood(r, k)
Watching ==
  /\ Published
  /\ client \in [Clients -> ClientNow] /\ stream \in [Clients -> StreamNow]
  /\ \A c \in Clients : Good(stream[c], client[c])

\* The projector's cursor bounds the log.
LEMMA WatchingIsInv == Watching <=> WatchInv
<1>1. Watching => WatchInv
  <2> SUFFICES ASSUME Watching PROVE WatchInv
    BY Zenon
  <2>1. ProjectionInv
    BY Zenon DEF Watching, ProjectionInv, ProjectionTypeOK, Published, ClientNow, StreamNow
  <2>2. NothingSkipped /\ StreamOrdered /\ StreamsKnow
    BY Zenon DEF Watching, Good, ClientGood, StreamGood, Placed, NothingSkipped, StreamOrdered, StreamsKnow
  <2> QED BY <2>1, <2>2, Zenon DEF WatchInv
<1>2. WatchInv => Watching
  <2> SUFFICES ASSUME WatchInv PROVE Watching
    BY Zenon
  <2>1. Published
    BY Zenon DEF WatchInv, ProjectionInv, ProjectionTypeOK, Published, ProjectorExact, Current
  <2>2. client \in [Clients -> ClientNow] /\ stream \in [Clients -> StreamNow]
    BY Zenon DEF WatchInv, ProjectionInv, ProjectionTypeOK, ClientNow, StreamNow
  <2>3. ASSUME NEW c \in Clients PROVE Good(stream[c], client[c])
    <3>1. ClientGood(client[c])
      BY <2>2, Zenon DEF WatchInv, NothingSkipped, ClientGood
    <3>2. StreamGood(stream[c], client[c])
      BY <2>2, Zenon DEF WatchInv, NothingSkipped, StreamOrdered, StreamsKnow, StreamGood, Placed
    <3> QED BY <3>1, <3>2, Zenon DEF Good
  <2> QED BY <2>1, <2>2, <2>3, Zenon DEF Watching
<1> QED BY <1>1, <1>2, Zenon

-----------------------------------------------------------------------------
(* The snapshot after n events. *)

\* One more event replaces its own slice and no other.
LEMMA StateStep ==
  ASSUME NEW l \in Seq(Slices), NEW n \in Nat, n + 1 <= Len(l)
  PROVE  StateAfter(l, n + 1) = [StateAfter(l, n) EXCEPT ![l[n + 1]] = n + 1]
<1> DEFINE x == l[n + 1]
<1>1. Len(l) \in Nat /\ n + 1 \in 1 .. Len(l) /\ x \in Slices
  OBVIOUS
<1>2. LastWrite(l, n + 1, x) = {n + 1}
  BY DEF LastWrite
<1>3. ValueOf({n + 1}) = n + 1
  BY Zenon DEF ValueOf
<1>4. StateAfter(l, n + 1)[x] = n + 1
  BY <1>1, <1>2, <1>3, Zenon DEF StateAfter
<1>5. ASSUME NEW s \in Slices, s # x
      PROVE  StateAfter(l, n + 1)[s] = StateAfter(l, n)[s]
  <2>1. LastWrite(l, n + 1, s) = LastWrite(l, n, s)
    BY <1>5 DEF LastWrite
  <2> QED BY <2>1, <1>5, Zenon DEF StateAfter
<1>6. /\ StateAfter(l, n) = [s \in Slices |-> StateAfter(l, n)[s]]
      /\ StateAfter(l, n + 1) = [s \in Slices |-> StateAfter(l, n + 1)[s]]
  BY Zenon DEF StateAfter
<1> HIDE DEF x
<1> QED BY <1>1, <1>4, <1>5, <1>6, Zenon DEF x

\* What happened before stays as it was.
LEMMA StateKept ==
  ASSUME NEW l \in Seq(Slices), NEW x \in Slices, NEW n \in Nat, n <= Len(l)
  PROVE  StateAfter(Append(l, x), n) = StateAfter(l, n)
<1>1. \A i \in 1 .. n : Append(l, x)[i] = l[i]
  OBVIOUS
<1>2. \A s \in Slices : LastWrite(Append(l, x), n, s) = LastWrite(l, n, s)
  BY <1>1 DEF LastWrite
<1> QED BY <1>2, Zenon DEF StateAfter

-----------------------------------------------------------------------------
(* Every frame a stream can carry is true of its own position. *)

LEMMA SnapshotIsExact == Published => SnapshotFrame \in Frame /\ FrameExact(SnapshotFrame)
BY DEF Published, ProjectorExact, SnapshotFrame, Frame, FrameExact, CursorOf, Current, Sequence

LEMMA RangeIsSequence ==
  \A i, j \in Sequence : 1 .. j \subseteq Sequence /\ i + 1 .. j \subseteq Sequence
BY ProjectionAssumption DEF Sequence

\* A frame handed on: its cursor is the caller's, and what it tells is told.
LEMMA ReceivedIs ==
  ASSUME Published, NEW k \in ClientNow, NEW f \in Frame
  PROVE  /\ Received(k, f) \in ClientNow
         /\ Received(k, f).epoch = epoch /\ Received(k, f).cursor = CursorOf(f)
         /\ CursorOf(f) \in Sequence /\ Cover(f) \subseteq Sequence
         /\ Received(k, f).told \cup Received(k, f).lost = k.told \cup k.lost \cup Cover(f)
<1>1. CursorOf(f) \in Sequence /\ Cover(f) \subseteq Sequence
  <2>1. CASE f.kind = "Snapshot"
    <3>0. f.cursor \in Sequence
      BY <2>1, Zenon DEF Frame
    <3>1. 1 .. f.cursor \subseteq Sequence
      BY <3>0, RangeIsSequence, Zenon
    <3> QED BY <3>0, <2>1, <3>1, Zenon DEF CursorOf, Cover
  <2>2. CASE f.kind = "Event"
    <3>1. f.event.seq \in Sequence /\ f.kind # "Snapshot"
      BY <2>2 DEF Frame, Event
    <3> QED BY <3>1, Zenon DEF CursorOf, Cover
  <2> QED BY <2>1, <2>2, Zenon DEF Frame
<1>2. /\ Received(k, f).epoch = epoch /\ Received(k, f).cursor = CursorOf(f)
      /\ Received(k, f).told = k.told \cup Cover(f) /\ Received(k, f).lost = k.lost \ Cover(f)
  BY Zenon DEF Received
<1>3. epoch \in 0 .. MaxEpoch
  BY DEF Published
<1>4. k.told \cup Cover(f) \in SUBSET Sequence /\ k.lost \ Cover(f) \in SUBSET Sequence
  BY <1>1, Zenon DEF ClientNow
<1>5. Received(k, f) \in ClientNow
  BY <1>1, <1>3, <1>4, Zenon DEF Received, ClientNow
<1> QED BY <1>1, <1>2, <1>5, Zenon

\* The binary search over the window, whose events are numbered without a gap, ends
\* at the event the cursor names.
LEMMA LowerBoundIs ==
  ASSUME Published, NEW seq \in Sequence, Replayable(epoch, seq)
  PROVE  /\ LowerBound(seq) \in 0 .. Len(replay)
         /\ Len(log) - Len(replay) + LowerBound(seq) = seq
<1> DEFINE P(i) == /\ i > 0 => replay[i].seq <= seq
                   /\ i < Len(replay) => replay[i + 1].seq > seq
<1>1. Len(replay) \in Nat /\ Len(log) \in Nat /\ seq \in Nat /\ seq <= Len(log) /\ Len(replay) <= Len(log)
  BY DEF Published, ReplayExact, Replayable, Sequence, Current
<1>2. \A i \in 1 .. Len(replay) : replay[i].seq = Len(log) - Len(replay) + i
  BY <1>1 DEF Published, ReplayExact, Current
<1>3. seq >= Len(log) - Len(replay)
  <2>1. CASE seq = Current
    BY <1>1, <2>1 DEF Current
  <2>2. CASE replay # << >> /\ seq + 1 >= Head(replay).seq
    <3>1. 1 \in 1 .. Len(replay) /\ Head(replay) = replay[1]
      BY <1>1, <2>2 DEF Published
    <3>2. replay[1].seq = Len(log) - Len(replay) + 1
      BY <1>2, <3>1, Zenon
    <3> QED BY <1>1, <2>2, <3>1, <3>2
  <2> QED BY <2>1, <2>2, Zenon DEF Replayable
<1> DEFINE w == seq - (Len(log) - Len(replay))
<1>a. w \in 0 .. Len(replay) /\ seq = Len(log) - Len(replay) + w
  BY <1>1, <1>3
<1> HIDE DEF w
<1>b. P(w)
  <2>1. ASSUME w > 0 PROVE replay[w].seq <= seq
    <3>1. w \in 1 .. Len(replay)
      BY <1>1, <1>a, <2>1
    <3>2. replay[w].seq = Len(log) - Len(replay) + w
      BY <1>2, <3>1, Zenon
    <3> QED BY <1>1, <1>a, <3>2
  <2>2. ASSUME w < Len(replay) PROVE replay[w + 1].seq > seq
    <3>1. w + 1 \in 1 .. Len(replay)
      BY <1>1, <1>a, <2>2
    <3>2. replay[w + 1].seq = Len(log) - Len(replay) + (w + 1)
      BY <1>2, <3>1, Zenon
    <3> QED BY <1>1, <1>a, <3>2
  <2> QED BY <2>1, <2>2, Zenon
<1>4. LowerBound(seq) = CHOOSE i \in 0 .. Len(replay) : P(i)
  BY Zenon DEF LowerBound
<1>5. LowerBound(seq) \in 0 .. Len(replay) /\ P(LowerBound(seq))
  BY <1>a, <1>b, <1>4, Zenon
<1> DEFINE b == LowerBound(seq)
<1>6. b \in 0 .. Len(replay) /\ P(b)
  BY <1>5, Zenon
<1> HIDE DEF b
<1>7. b <= w
  <2>1. ASSUME b > 0 PROVE b <= w
    <3>1. b \in 1 .. Len(replay)
      BY <1>1, <1>6, <2>1
    <3>2. replay[b].seq = Len(log) - Len(replay) + b /\ replay[b].seq <= seq
      BY <1>2, <1>6, <2>1, <3>1, Zenon
    <3> QED BY <1>1, <1>a, <3>1, <3>2
  <2> QED BY <1>1, <1>a, <1>6, <2>1
<1>8. b >= w
  <2>1. ASSUME b < Len(replay) PROVE b >= w
    <3>1. b + 1 \in 1 .. Len(replay)
      BY <1>1, <1>6, <2>1
    <3>2. replay[b + 1].seq = Len(log) - Len(replay) + (b + 1) /\ replay[b + 1].seq > seq
      BY <1>2, <1>6, <2>1, <3>1, Zenon
    <3> QED BY <1>1, <1>a, <1>6, <3>2
  <2> QED BY <1>1, <1>a, <1>6, <2>1
<1>9. b = w
  BY <1>1, <1>a, <1>6, <1>7, <1>8
<1> QED BY <1>a, <1>6, <1>9, Zenon DEF b

\* A replay has every event after the cursor, each of them exact.
LEMMA ReplayIsExact ==
  ASSUME Published, NEW seq \in Sequence, Replayable(epoch, seq)
  PROVE  LET q == EventFrames(ReplayAfter(seq))
         IN  /\ q \in Seq(Frame) /\ DOMAIN q = 1 .. Current - seq
             /\ \A i \in DOMAIN q : q[i].kind = "Event" /\ q[i].event.seq = seq + i /\ FrameExact(q[i])
<1> DEFINE b == LowerBound(seq)
           r == ReplayAfter(seq)
           q == EventFrames(r)
<1>1. /\ b \in 0 .. Len(replay) /\ Len(replay) \in Nat /\ Len(log) \in Nat /\ Len(replay) <= Len(log)
      /\ Len(log) - Len(replay) + b = seq
  BY LowerBoundIs DEF Published, ReplayExact, Current
<1>2. r \in Seq(Event) /\ Len(r) = Len(replay) - b /\ \A i \in 1 .. Len(r) : r[i] = replay[b + i]
  <2>1. replay \in Seq(Event) /\ r = SubSeq(replay, b + 1, Len(replay))
    BY Zenon DEF ReplayAfter, Published
  <2> HIDE DEF b, r
  <2>2. b + 1 \in 1 .. Len(replay) + 1 /\ Len(replay) \in 0 .. Len(replay)
    BY <1>1
  <2>3. Len(r) = Len(replay) - b
    BY <1>1, <2>1
  <2>4. \A i \in 1 .. Len(r) : b + i \in 1 .. Len(replay) /\ r[i] = replay[b + i]
    BY <1>1, <2>1, <2>3
  <2>5. r \in Seq(Event)
    BY <1>1, <2>1
  <2> QED BY <2>3, <2>4, <2>5, Zenon
<1>3. \A i \in 1 .. Len(replay) :
        /\ replay[i].seq = Len(log) - Len(replay) + i
        /\ replay[i].slice = log[replay[i].seq]
  BY <1>1 DEF Published, ReplayExact, Current
<1> HIDE DEF b, r
<1>4. \A i \in 1 .. Len(r) : r[i].seq = seq + i /\ r[i].slice = log[r[i].seq] /\ r[i] \in Event
  <2> SUFFICES ASSUME NEW i \in 1 .. Len(r)
               PROVE  r[i].seq = seq + i /\ r[i].slice = log[r[i].seq] /\ r[i] \in Event
    BY Zenon
  <2>1. b + i \in 1 .. Len(replay) /\ r[i] = replay[b + i] /\ r[i] \in Event
    BY <1>1, <1>2
  <2>2. replay[b + i].seq = Len(log) - Len(replay) + (b + i)
    BY <1>3, <2>1, Zenon
  <2>3. r[i].slice = log[r[i].seq]
    BY <1>3, <2>1, Zenon
  <2>4. Len(log) - Len(replay) + (b + i) = seq + i
    BY <1>1
  <2> QED BY <2>1, <2>2, <2>3, <2>4, Zenon
<1>5. q = [i \in 1 .. Len(r) |-> EventFrame(r[i])] /\ Len(r) \in Nat
  BY <1>2 DEF EventFrames
<1>6. \A i \in 1 .. Len(r) : /\ q[i] \in Frame /\ q[i].kind = "Event" /\ q[i].event = r[i]
                             /\ CursorOf(q[i]) = r[i].seq
  BY <1>4, <1>5 DEF EventFrame, Frame, CursorOf
<1>7. q \in Seq(Frame) /\ DOMAIN q = 1 .. Len(r)
  BY <1>5, <1>6
<1>8. Len(r) = Current - seq
  BY <1>1, <1>2 DEF Current
<1> HIDE DEF q
<1>9. ASSUME NEW i \in 1 .. Len(r)
      PROVE  q[i].kind = "Event" /\ q[i].event.seq = seq + i /\ FrameExact(q[i])
  <2>1. q[i].kind = "Event" /\ q[i].event = r[i] /\ CursorOf(q[i]) = r[i].seq
    BY <1>6, Zenon
  <2>2. r[i].seq = seq + i /\ r[i].slice = log[r[i].seq]
    BY <1>4, Zenon
  <2>3. seq + i > 0 /\ seq + i <= Len(log)
    BY <1>1, <1>2, <1>8 DEF Sequence, Current
  <2> QED BY <2>1, <2>2, <2>3, Zenon DEF FrameExact, Current
<1> QED BY <1>7, <1>8, <1>9, Zenon DEF q, r

-----------------------------------------------------------------------------
(* One lemma per action. *)

\* A full window loses its oldest event, and stays a tail of the log.
LEMMA CommitKeepsTail ==
  ASSUME Published, NEW x \in Slices, Current < MaxSequence, log' = Append(log, x),
         replay' = CommitPublished([seq |-> Current + 1, slice |-> x])
  PROVE  replay' \in Seq(Event) /\ ReplayExact'
<1> DEFINE e == [seq |-> Current + 1, slice |-> x]
           longer == Append(replay, e)
           n == Len(replay)
           m == Len(log)
<1>1. n \in Nat /\ m \in Nat /\ n <= m /\ n <= ReplayCapacity /\ ReplayCapacity \in Nat \ {0}
  BY ProjectionAssumption DEF Published, ReplayExact, Current
<1>2. e \in Event /\ e.seq = m + 1 /\ e.slice = x
  BY <1>1, ProjectionAssumption DEF Event, Sequence, Current
<1>3. \A i \in 1 .. n : replay[i] = [seq |-> m - n + i, slice |-> log[m - n + i]]
  BY <1>1 DEF Published, ReplayExact, Current
<1>4. /\ longer \in Seq(Event) /\ Len(longer) = n + 1
      /\ \A i \in 1 .. n : longer[i] = replay[i]
      /\ longer[n + 1] = e
  BY <1>1, <1>2 DEF Published
<1>5. Len(log') = m + 1 /\ log'[m + 1] = x /\ \A i \in 1 .. m : log'[i] = log[i]
  BY <1>1 DEF Published
<1>6. replay' = IF n + 1 > ReplayCapacity THEN Tail(longer) ELSE longer
  BY <1>4, Zenon DEF CommitPublished
<1> HIDE DEF longer
<1>7. \A i \in 1 .. n + 1 : longer[i] = [seq |-> m - n + i, slice |-> log'[m - n + i]]
  <2> SUFFICES ASSUME NEW i \in 1 .. n + 1
               PROVE  longer[i] = [seq |-> m - n + i, slice |-> log'[m - n + i]]
    BY Zenon
  <2>1. CASE i = n + 1
    <3>1. m - n + i = m + 1
      BY <1>1, <2>1
    <3> QED BY <1>4, <1>5, <2>1, <3>1, Zenon DEF Current
  <2>2. CASE i # n + 1
    <3>1. i \in 1 .. n /\ m - n + i \in 1 .. m
      BY <1>1, <2>2
    <3> QED BY <1>3, <1>4, <1>5, <3>1, Zenon
  <2> QED BY <2>1, <2>2, Zenon
<1>8. CASE n + 1 > ReplayCapacity
  <2>1. replay' = Tail(longer) /\ n = ReplayCapacity
    BY <1>1, <1>6, <1>8
  <2>2. Tail(longer) \in Seq(Event) /\ Len(Tail(longer)) = n /\ \A i \in 1 .. n : Tail(longer)[i] = longer[i + 1]
    BY <1>1, <1>4
  <2>3. \A i \in 1 .. n : replay'[i] = [seq |-> m + 1 - n + i, slice |-> log'[m + 1 - n + i]]
    <3> SUFFICES ASSUME NEW i \in 1 .. n
                 PROVE  replay'[i] = [seq |-> m + 1 - n + i, slice |-> log'[m + 1 - n + i]]
      BY Zenon
    <3>1. i + 1 \in 1 .. n + 1 /\ m - n + (i + 1) = m + 1 - n + i
      BY <1>1
    <3> QED BY <1>7, <2>1, <2>2, <3>1, Zenon
  <2>4. Len(replay') = n /\ DOMAIN replay' = 1 .. n
    BY <2>1, <2>2
  <2> HIDE DEF n, m
  <2>5. \A i \in DOMAIN replay' :
          replay'[i] = [seq |-> Len(log') - Len(replay') + i, slice |-> log'[Len(log') - Len(replay') + i]]
    <3> SUFFICES ASSUME NEW i \in 1 .. n
                 PROVE  replay'[i] = [seq |-> Len(log') - Len(replay') + i,
                                      slice |-> log'[Len(log') - Len(replay') + i]]
      BY <2>4, Zenon
    <3>1. Len(log') - Len(replay') + i = m + 1 - n + i
      BY <1>1, <1>5, <2>4
    <3> QED BY <2>3, <3>1, Zenon
  <2>6. Len(replay') <= ReplayCapacity /\ Len(replay') <= Len(log')
    BY <1>1, <1>5, <2>1, <2>4
  <2>7. replay' \in Seq(Event)
    BY <2>1, <2>2, Zenon
  <2> QED BY <2>5, <2>6, <2>7, Zenon DEF ReplayExact, Current
<1>9. CASE ~(n + 1 > ReplayCapacity)
  <2>1. replay' = longer
    BY <1>6, <1>9, Zenon
  <2>2. \A i \in 1 .. n + 1 : (m + 1) - (n + 1) + i = m - n + i
    BY <1>1
  <2>3. Len(replay') = n + 1 /\ DOMAIN replay' = 1 .. n + 1
    BY <1>1, <1>4, <2>1
  <2>4. \A i \in 1 .. n + 1 : replay'[i] = [seq |-> (m + 1) - (n + 1) + i, slice |-> log'[(m + 1) - (n + 1) + i]]
    BY <1>7, <2>1, <2>2, Zenon
  <2> HIDE DEF n, m
  <2>5. \A i \in DOMAIN replay' :
          replay'[i] = [seq |-> Len(log') - Len(replay') + i, slice |-> log'[Len(log') - Len(replay') + i]]
    BY <1>5, <2>3, <2>4, Zenon
  <2>6. Len(replay') <= ReplayCapacity /\ Len(replay') <= Len(log')
    BY <1>1, <1>5, <1>9, <2>3
  <2>7. replay' \in Seq(Event)
    BY <1>4, <2>1, Zenon
  <2> QED BY <2>5, <2>6, <2>7, Zenon DEF ReplayExact, Current
<1> QED BY <1>8, <1>9, Zenon

\* An event that is published leaves every client and every frame as exact as it
\* was: they are about the past.
LEMMA PublishKeeps ==
  ASSUME Watching, NEW x \in Slices, Publish(x)
  PROVE  Watching'
<1> DEFINE e == [seq |-> Current + 1, slice |-> x]
<1>1. /\ log' = Append(log, x) /\ replay' = CommitPublished(e) /\ projector' = Applied(e)
      /\ epoch' = epoch /\ stream' = stream /\ client' = client /\ Current < MaxSequence
  BY Zenon DEF Publish
<1>2. /\ Len(log) \in Nat /\ log' \in Seq(Slices) /\ Len(log') = Len(log) + 1 /\ Len(log') \in Sequence
      /\ log'[Len(log) + 1] = x /\ \A i \in 1 .. Len(log) : log'[i] = log[i]
  BY <1>1, ProjectionAssumption DEF Watching, Published, Current, Sequence
<1>3. replay' \in Seq(Event) /\ ReplayExact'
  BY <1>1, CommitKeepsTail, Zenon DEF Watching
<1>4. \A n \in Nat : n <= Len(log) => StateAt(n)' = StateAt(n)
  BY <1>1, StateKept, Zenon DEF Watching, Published, StateAt
<1>5. Published'
  <2>1. projector.view = StateAfter(log, Len(log)) /\ projector.view \in Snapshot
    BY Zenon DEF Watching, Published, ProjectorExact, Current, StateAt
  <2>2. StateAfter(log', Len(log) + 1) = [StateAfter(log', Len(log)) EXCEPT ![x] = Len(log) + 1]
    BY <1>2, StateStep
  <2>3. projector' = [cursor |-> Len(log) + 1, view |-> [projector.view EXCEPT ![x] = Len(log) + 1]]
    BY <1>1, Zenon DEF Applied, Current
  <2>4. projector'.cursor = Len(log') /\ projector'.view = StateAfter(log', Len(log'))
    <3>1. StateAfter(log', Len(log)) = projector.view
      BY <1>1, <1>2, <2>1, StateKept DEF Watching, Published
    <3> QED BY <1>2, <2>2, <2>3, <3>1, Zenon
  <2>5. projector' \in [cursor : Sequence, view : Snapshot]
    BY <1>2, <2>1, <2>3, Zenon DEF Snapshot
  <2>6. ProjectorExact'
    BY <2>4, Zenon DEF ProjectorExact, Current, StateAt
  <2> QED BY <1>1, <1>2, <1>3, <2>5, <2>6, Zenon DEF Watching, Published
<1>6. ASSUME NEW c \in Clients PROVE ClientGood(client[c])'
  <2>1. client[c] \in ClientNow /\ client[c].cursor \in Nat /\ ClientGood(client[c])
    BY DEF Watching, Good, ClientNow, Sequence
  <2>2. client[c].cursor <= Len(log) => client[c].cursor <= Len(log')
    BY <1>2, <2>1
  <2> QED BY <1>1, <2>1, <2>2, Zenon DEF ClientGood, Current
<1>7. ASSUME NEW f \in Frame, FrameExact(f) PROVE FrameExact(f)'
  <2>1. CASE f.kind = "Snapshot"
    <3>1. f.cursor \in Nat
      BY <2>1 DEF Frame, Sequence
    <3> QED BY <1>2, <1>4, <1>7, <2>1, <3>1 DEF FrameExact, CursorOf, Current
  <2>2. CASE f.kind = "Event"
    <3>1. f.event.seq \in Nat
      BY <2>2 DEF Frame, Sequence, Event
    <3> QED BY <1>2, <1>7, <2>2, <3>1 DEF FrameExact, CursorOf, Current
  <2> QED BY <2>1, <2>2, Zenon DEF Frame
<1>8. ASSUME NEW c \in Clients PROVE StreamGood(stream[c], client[c])'
  <2> DEFINE s == stream[c]
             k == client[c]
  <2>1. s \in StreamNow /\ StreamGood(s, k) /\ s.pos \in Nat
    BY DEF Watching, Good, StreamNow, Sequence
  <2>2. s.pos <= Len(log')
    BY <1>2, <2>1 DEF StreamGood, Current
  <2>3. \A i \in DOMAIN s.initial : s.initial[i] \in Frame
    BY <2>1 DEF StreamNow
  <2>4. \A i \in DOMAIN s.initial : FrameExact(s.initial[i])'
    BY <1>1, <1>7, <2>1, <2>3, Zenon DEF StreamGood
  <2>5. \A i \in DOMAIN s.initial : Placed(s.initial, i, s.pos, k)'
    BY <1>1, <2>1, Zenon DEF StreamGood, Placed
  <2> QED BY <1>1, <2>1, <2>2, <2>4, <2>5, Zenon DEF StreamGood, Current
<1> QED BY <1>1, <1>5, <1>6, <1>8, Zenon DEF Watching, Good

\* A daemon begins with nothing published, and its connections are closed.
LEMMA EmptyState ==
  /\ StateAfter(<< >>, 0) = EmptyView /\ EmptyView \in Snapshot /\ 0 \in Sequence
  /\ Closed \in StreamNow /\ Closed.phase = "closed" /\ Closed.pos = 0 /\ DOMAIN Closed.initial = {}
<1>1. 0 \in Sequence
  BY ProjectionAssumption DEF Sequence
<1>2. \A s \in Slices : LastWrite(<< >>, 0, s) = {}
  BY DEF LastWrite
<1>3. StateAfter(<< >>, 0) = EmptyView
  BY <1>2, Zenon DEF StateAfter, EmptyView, ValueOf
<1>4. EmptyView \in Snapshot
  BY <1>1, Zenon DEF EmptyView, Snapshot
<1>5. Closed \in StreamNow /\ Closed.phase = "closed" /\ Closed.pos = 0 /\ DOMAIN Closed.initial = {}
  BY <1>1 DEF Closed, StreamNow
<1> QED BY <1>1, <1>3, <1>4, <1>5, Zenon

LEMMA RestartKeeps ==
  ASSUME Watching, RestartDaemon
  PROVE  Watching'
<1>0. /\ epoch < MaxEpoch /\ epoch' = epoch + 1 /\ epoch \in 1 .. MaxEpoch
      /\ log' = << >> /\ replay' = << >> /\ projector' = [cursor |-> 0, view |-> EmptyView]
  BY Zenon DEF RestartDaemon, Watching, Published
<1>1. epoch' = epoch + 1 /\ epoch \in Nat /\ epoch' \in 1 .. MaxEpoch
  BY <1>0, ProjectionAssumption
<1>a. /\ stream' = [c \in Clients |-> Closed]
      /\ client' = [c \in Clients |-> [client[c] EXCEPT !.told = {}, !.lost = {}]]
  BY Zenon DEF RestartDaemon
<1>2. Published'
  <2>1. ReplayExact'
    BY <1>0, ProjectionAssumption DEF ReplayExact, Current
  <2>2. ProjectorExact'
    BY <1>0, EmptyState, Zenon DEF ProjectorExact, Current, StateAt
  <2> QED BY <1>0, <1>1, <2>1, <2>2, EmptyState DEF Published
<1>3. ASSUME NEW c \in Clients PROVE client'[c] \in ClientNow /\ ClientGood(client[c])'
  <2>0. client[c] \in ClientNow /\ client[c].epoch \in 0 .. MaxEpoch /\ client[c].epoch <= epoch
    BY Zenon DEF Watching, Good, ClientGood, ClientNow
  <2>1. client[c].epoch \in Nat
    BY <2>0
  <2>2. client'[c] \in ClientNow /\ client'[c].epoch = client[c].epoch
    BY <1>a, <2>0, Zenon DEF ClientNow
  <2>3. client'[c].epoch <= epoch' /\ client'[c].epoch # epoch'
    BY <1>1, <2>0, <2>1, <2>2
  <2> QED BY <2>2, <2>3, Zenon DEF ClientGood
<1>4. ASSUME NEW c \in Clients PROVE StreamGood(stream[c], client[c])'
  <2>1. stream'[c] = Closed /\ Len(log') = 0
    BY <1>0, <1>a
  <2> QED BY <2>1, EmptyState DEF StreamGood, Current
<1> QED BY <1>a, <1>2, <1>3, <1>4, EmptyState, Zenon DEF Watching, Good

LEMMA ProjectionInitHolds == ProjectionInit => Watching
<1> SUFFICES ASSUME ProjectionInit PROVE Watching
  BY Zenon
<1>1. Published
  <2>1. ReplayExact
    BY ProjectionAssumption DEF ProjectionInit, ReplayExact, Current
  <2>2. ProjectorExact
    BY EmptyState, Zenon DEF ProjectionInit, ProjectorExact, Current, StateAt
  <2> QED BY <2>1, <2>2, EmptyState, ProjectionAssumption DEF ProjectionInit, Published
<1>2. ASSUME NEW c \in Clients PROVE client[c] \in ClientNow /\ ClientGood(client[c])
  <2>1. client[c] = [epoch |-> 0, cursor |-> 0, told |-> {}, lost |-> {}] /\ epoch = 1
    BY Zenon DEF ProjectionInit
  <2>2. client[c] \in ClientNow
    BY <2>1, EmptyState, ProjectionAssumption DEF ClientNow
  <2> QED BY <2>1, <2>2 DEF ClientGood
<1>3. ASSUME NEW c \in Clients PROVE stream[c] \in StreamNow /\ StreamGood(stream[c], client[c])
  <2>1. stream[c] = Closed /\ Len(log) = 0
    BY Zenon DEF ProjectionInit
  <2> QED BY <2>1, EmptyState DEF StreamGood, Current
<1> QED BY <1>1, <1>2, <1>3, Zenon DEF Watching, Good, ProjectionInit

-----------------------------------------------------------------------------
\* A step of the service for one client, which publishes nothing.
LEMMA OneServed ==
  ASSUME Watching, NEW c \in Clients, UNCHANGED <<epoch, log, replay, projector>>,
         NEW r, NEW k, Good(r, k),
         stream' = [stream EXCEPT ![c] = r], client' = [client EXCEPT ![c] = k]
  PROVE  Watching'
<1>1. Published'
  BY Zenon DEF Watching, Published, ProjectorExact, ReplayExact, Current, StateAt
<1>2. stream' \in [Clients -> StreamNow] /\ client' \in [Clients -> ClientNow]
  BY Zenon DEF Watching, Good, StreamGood, ClientGood
<1>3. ASSUME NEW d \in Clients PROVE Good(stream'[d], client'[d])
  <2>1. d # c => stream'[d] = stream[d] /\ client'[d] = client[d]
    BY Zenon DEF Watching
  <2>2. d = c => stream'[d] = r /\ client'[d] = k
    BY Zenon DEF Watching
  <2>3. Good(stream[d], client[d])
    BY Zenon DEF Watching
  <2> QED BY <2>1, <2>2, <2>3, Zenon
<1>4. ASSUME NEW d \in Clients PROVE Good(stream[d], client[d])'
  <2>1. ClientGood(client[d])'
    BY <1>3, Zenon DEF Good, ClientGood, Current
  <2>2. (\A i \in DOMAIN stream[d].initial : Placed(stream[d].initial, i, stream[d].pos, client[d]))'
    BY <1>3, Zenon DEF Good, StreamGood, Placed
  <2>3. (\A i \in DOMAIN stream[d].initial : FrameExact(stream[d].initial[i]))'
    <3> SUFFICES ASSUME NEW i \in DOMAIN stream'[d].initial
                 PROVE  FrameExact(stream[d].initial[i])'
      BY Zenon
    <3>1. FrameExact(stream'[d].initial[i])
      BY <1>3, Zenon DEF Good, StreamGood
    <3> QED BY <3>1, Zenon DEF FrameExact, Current, StateAt
  <2>4. StreamGood(stream[d], client[d])'
    BY <1>3, <2>2, <2>3, Zenon DEF Good, StreamGood, Current
  <2> QED BY <2>1, <2>4, Zenon DEF Good
<1> QED BY <1>1, <1>2, <1>4, Zenon DEF Watching

\* The caller's side stays as it was.
LEMMA UnchangedIsOne ==
  ASSUME Watching, NEW c \in Clients
  PROVE  Good(stream[c], client[c]) /\ client = [client EXCEPT ![c] = client[c]]
BY Zenon DEF Watching

\* What was published since the initial frames were made is lost to the caller.
LEMMA FollowKeeps ==
  ASSUME Watching, NEW c \in Clients, Follow(c), stream[c].phase # "closed",
         UNCHANGED <<epoch, log, replay, projector>>
  PROVE  Watching'
<1> DEFINE s == stream[c]
           k == client[c]
           r == [phase |-> "live", initial |-> s.initial, pos |-> Current]
           h == [k EXCEPT !.lost = k.lost \cup (s.pos + 1 .. Current)]
<1>1. stream' = [stream EXCEPT ![c] = r] /\ client' = [client EXCEPT ![c] = h]
  BY Zenon DEF Follow
<1>2. /\ s \in StreamNow /\ StreamGood(s, k) /\ k \in ClientNow /\ ClientGood(k)
      /\ Current \in Sequence /\ s.pos \in Sequence
  BY Zenon DEF Watching, Good, Published, Current, StreamNow
<1>3. Current \in Nat /\ s.pos \in Nat /\ s.pos <= Current /\ s.pos + 1 .. Current \subseteq Sequence
  <2>1. s.pos <= Current
    BY <1>2, Zenon DEF StreamGood
  <2>2. Current \in Nat /\ s.pos \in Nat
    BY <1>2 DEF Sequence
  <2> QED BY <1>2, <2>1, <2>2, RangeIsSequence, Zenon
<1>4. r \in StreamNow /\ r.phase = "live" /\ r.initial = s.initial /\ r.pos = Current
  BY <1>2, Zenon DEF StreamNow
<1>5. /\ h \in ClientNow /\ h.epoch = k.epoch /\ h.cursor = k.cursor /\ h.told = k.told
      /\ h.lost = k.lost \cup (s.pos + 1 .. Current)
  BY <1>2, <1>3, Zenon DEF ClientNow
<1> HIDE DEF r, h
<1>6. ClientGood(h)
  BY <1>2, <1>5, Zenon DEF ClientGood
<1>7. 1 .. Current \subseteq h.told \cup h.lost \cup Covered(r.initial)
  <2>1. 1 .. s.pos \subseteq k.told \cup k.lost \cup Covered(s.initial)
    BY <1>2, Zenon DEF StreamGood
  <2>2. \A i \in 1 .. Current : i \in 1 .. s.pos \/ i \in s.pos + 1 .. Current
    BY <1>3
  <2> QED BY <1>4, <1>5, <2>1, <2>2, Zenon
<1>8. k.epoch = epoch => k.cursor <= Current
  BY <1>2, Zenon DEF ClientGood
<1>9. \A i \in DOMAIN r.initial : Placed(r.initial, i, Current, h) /\ FrameExact(r.initial[i])
  BY <1>2, <1>4, <1>5, ZenonT(60) DEF StreamGood, Placed, FrameExact
<1>10. StreamGood(r, h)
  <2>1. r.pos <= Current
    BY <1>3, <1>4
  <2> QED BY <1>2, <1>4, <1>5, <1>7, <1>8, <1>9, <2>1, Zenon DEF StreamGood
<1> QED BY <1>1, <1>6, <1>10, OneServed, Zenon DEF Good

\* A snapshot of now, alone, is what any caller may be given.
LEMMA SnapshotGood ==
  ASSUME Published, NEW k, ClientGood(k), NEW phase \in {"opened", "lagged"}
  PROVE  Good([phase |-> phase, initial |-> <<SnapshotFrame>>, pos |-> Current], k)
<1> DEFINE q == <<SnapshotFrame>>
           r == [phase |-> phase, initial |-> q, pos |-> Current]
<1>1. /\ SnapshotFrame \in Frame /\ FrameExact(SnapshotFrame)
      /\ SnapshotFrame.kind = "Snapshot" /\ SnapshotFrame.cursor = Current
  BY SnapshotIsExact, Zenon DEF SnapshotFrame, Published, ProjectorExact
<1>2. q \in Seq(Frame) /\ DOMAIN q = {1} /\ q[1] = SnapshotFrame /\ Len(q) = 1 /\ q # << >>
  BY <1>1
<1>3. Current \in Sequence /\ Current \in Nat
  BY DEF Published, Current, Sequence
<1> HIDE DEF q
<1>4. r \in StreamNow /\ r.phase = phase /\ r.initial = q /\ r.pos = Current
  BY <1>2, <1>3, Zenon DEF StreamNow
<1> HIDE DEF r
<1>5. Covered(q) = 1 .. Current
  BY <1>1, <1>2, Zenon DEF Covered, Cover
<1>6. Placed(q, 1, Current, k)
  BY <1>1, <1>2, <1>3 DEF Placed, CursorOf, ClientGood
<1>7. r.pos <= Current
  BY <1>3, <1>4
<1>8. StreamGood(r, k)
  BY <1>1, <1>2, <1>4, <1>5, <1>6, <1>7, Zenon DEF StreamGood, ClientGood
<1> QED BY <1>8, Zenon DEF Good, r, q

\* watch_after: a replay or a snapshot, and no subscription yet.
LEMMA WatchAfterKeeps ==
  ASSUME Watching, NEW c \in Clients, WatchAfter(c)
  PROVE  Watching'
<1> DEFINE k == client[c]
<1>1. PICK cursorGiven \in BOOLEAN :
        stream' = [stream EXCEPT ![c] =
          [phase |-> "opened",
           initial |-> IF Resumes(c, cursorGiven) THEN EventFrames(ReplayAfter(k.cursor)) ELSE <<SnapshotFrame>>,
           pos |-> Current]]
  BY Zenon DEF WatchAfter
<1>2. UNCHANGED <<epoch, log, replay, projector>> /\ client' = client
  BY Zenon DEF WatchAfter
<1>3. Published /\ ClientGood(k) /\ k \in ClientNow /\ k.cursor \in Sequence /\ Current \in Sequence
  BY Zenon DEF Watching, Good, ClientNow, Published, Current
<1>4. CASE Resumes(c, cursorGiven)
  <2> DEFINE q == EventFrames(ReplayAfter(k.cursor))
             r == [phase |-> "opened", initial |-> q, pos |-> Current]
  <2>1. k.epoch = epoch /\ Replayable(epoch, k.cursor)
    BY <1>4, Zenon DEF Resumes, Replayable
  <2>2. /\ q \in Seq(Frame) /\ DOMAIN q = 1 .. Current - k.cursor
        /\ \A i \in DOMAIN q : q[i].kind = "Event" /\ q[i].event.seq = k.cursor + i /\ FrameExact(q[i])
    BY <1>3, <2>1, ReplayIsExact, Zenon
  <2> HIDE DEF q
  <2>3. r \in StreamNow /\ r.phase = "opened" /\ r.initial = q /\ r.pos = Current
    BY <1>3, <2>2, Zenon DEF StreamNow
  <2> HIDE DEF r
  <2>4. k.cursor \in Nat /\ Current \in Nat /\ k.cursor <= Current
    BY <1>3, <2>1 DEF Sequence, ClientGood
  <2>5. 1 .. Current \subseteq k.told \cup k.lost \cup Covered(q)
    <3> SUFFICES ASSUME NEW n \in 1 .. Current, n \notin 1 .. k.cursor PROVE n \in Covered(q)
      BY <1>3, <2>1, Zenon DEF ClientGood
    <3>1. n - k.cursor \in DOMAIN q /\ k.cursor + (n - k.cursor) = n
      BY <2>2, <2>4
    <3> DEFINE i == n - k.cursor
    <3>2. i \in DOMAIN q /\ q[i].kind = "Event" /\ q[i].event.seq = n
      BY <2>2, <3>1, Zenon
    <3> HIDE DEF i
    <3>3. n \in Cover(q[i])
      BY <3>2, Zenon DEF Cover
    <3> QED BY <3>2, <3>3, Zenon DEF Covered
  <2>6. \A i \in DOMAIN q : Placed(q, i, Current, k) /\ FrameExact(q[i])
    BY <2>1, <2>2, Zenon DEF Placed, FrameExact
  <2>7. StreamGood(r, k)
    <3>1. Current <= Current
      BY <2>4
    <3> QED BY <2>1, <2>3, <2>4, <2>5, <2>6, <3>1, Zenon DEF StreamGood
  <2>8. stream' = [stream EXCEPT ![c] = r]
    BY <1>1, <1>4, Zenon DEF r, q
  <2> QED BY <1>2, <1>3, <2>7, <2>8, OneServed, UnchangedIsOne, Zenon DEF Good
<1>5. CASE ~Resumes(c, cursorGiven)
  <2> DEFINE r == [phase |-> "opened", initial |-> <<SnapshotFrame>>, pos |-> Current]
  <2>1. stream' = [stream EXCEPT ![c] = r]
    BY <1>1, <1>5, Zenon
  <2>2. Good(r, k)
    BY <1>3, SnapshotGood, Zenon
  <2> HIDE DEF r
  <2> QED BY <1>2, <2>1, <2>2, OneServed, UnchangedIsOne, Zenon
<1> QED BY <1>4, <1>5, Zenon

\* A lagged receiver is given a snapshot of now.
LEMMA FetchSnapshotKeeps ==
  ASSUME Watching, NEW c \in Clients, FetchSnapshot(c)
  PROVE  Watching'
<1>1. /\ stream' = [stream EXCEPT ![c] = [phase |-> "lagged", initial |-> <<SnapshotFrame>>, pos |-> Current]]
      /\ UNCHANGED <<epoch, log, replay, projector>> /\ client' = client
  BY Zenon DEF FetchSnapshot
<1>2. Published /\ ClientGood(client[c])
  BY Zenon DEF Watching, Good
<1> QED BY <1>1, <1>2, SnapshotGood, OneServed, UnchangedIsOne, Zenon

\* A frame of the initial batch is handed on: the rest follows the new cursor.
LEMMA DeliverInitialKeeps ==
  ASSUME Watching, NEW c \in Clients, DeliverInitial(c)
  PROVE  Watching'
<1> DEFINE s == stream[c]
           q == s.initial
           f == Head(q)
           k == client[c]
           r == [s EXCEPT !.initial = Tail(q)]
           h == Received(k, f)
<1>1. /\ stream' = [stream EXCEPT ![c] = r] /\ client' = [client EXCEPT ![c] = h]
      /\ UNCHANGED <<epoch, log, replay, projector>> /\ q # << >> /\ s.phase = "live"
  BY Zenon DEF DeliverInitial
<1>2. /\ s \in StreamNow /\ StreamGood(s, k) /\ ClientGood(k) /\ k \in ClientNow /\ Published
      /\ q \in Seq(Frame) /\ s.pos \in Sequence
  BY Zenon DEF Watching, Good, StreamNow
<1>3. f \in Frame /\ f = q[1] /\ 1 \in DOMAIN q
  BY <1>1, <1>2
<1>4. /\ Tail(q) \in Seq(Frame)
      /\ \A i \in DOMAIN Tail(q) : i \in Nat /\ i > 0 /\ i + 1 \in DOMAIN q /\ Tail(q)[i] = q[i + 1]
      /\ \A i \in DOMAIN q : i = 1 \/ (i - 1 \in DOMAIN Tail(q) /\ Tail(q)[i - 1] = q[i])
  BY <1>1, <1>2
<1>5. r \in StreamNow /\ r.phase = "live" /\ r.initial = Tail(q) /\ r.pos = s.pos
  BY <1>1, <1>2, <1>4, Zenon DEF StreamNow
<1>6. /\ h \in ClientNow /\ h.epoch = epoch /\ h.cursor = CursorOf(f) /\ CursorOf(f) \in Sequence
      /\ h.told \cup h.lost = k.told \cup k.lost \cup Cover(f)
  BY <1>2, <1>3, ReceivedIs, Zenon
<1>7. Placed(q, 1, s.pos, k) /\ FrameExact(f) /\ CursorOf(f) <= s.pos /\ CursorOf(f) <= Current
  BY <1>2, <1>3, Zenon DEF StreamGood, Placed, FrameExact
<1>8. 1 .. s.pos \subseteq k.told \cup k.lost \cup Covered(q)
  BY <1>1, <1>2, Zenon DEF StreamGood
<1> HIDE DEF q, f, r, h
<1>9. Covered(q) \subseteq Cover(f) \cup Covered(Tail(q))
  <2> SUFFICES ASSUME NEW i \in DOMAIN q, NEW n \in Cover(q[i]) PROVE n \in Cover(f) \cup Covered(Tail(q))
    BY Zenon DEF Covered
  <2>1. CASE i = 1
    BY <1>3, <2>1, Zenon
  <2>2. CASE i - 1 \in DOMAIN Tail(q) /\ Tail(q)[i - 1] = q[i]
    <3>1. n \in Cover(Tail(q)[i - 1])
      BY <2>2, Zenon
    <3> QED BY <2>2, <3>1, Zenon DEF Covered
  <2> QED BY <1>4, <2>1, <2>2, Zenon
<1>10. 1 .. CursorOf(f) \subseteq h.told \cup h.lost
  <2>1. CASE f.kind = "Snapshot"
    BY <1>6, <2>1, Zenon DEF Cover, CursorOf
  <2>2. CASE f.kind = "Event"
    <3>1. k.epoch = epoch /\ f.event.seq = k.cursor + 1 /\ f.kind # "Snapshot"
      BY <1>3, <1>7, <2>2, Zenon DEF Placed
    <3>2. 1 .. k.cursor \subseteq k.told \cup k.lost /\ k.cursor \in Nat
      BY <1>2, <3>1 DEF ClientGood, ClientNow, Sequence
    <3>3. CursorOf(f) = k.cursor + 1 /\ Cover(f) = {k.cursor + 1}
      BY <3>1, Zenon DEF CursorOf, Cover
    <3>4. \A n \in 1 .. k.cursor + 1 : n \in 1 .. k.cursor \/ n = k.cursor + 1
      BY <3>2
    <3> QED BY <1>6, <3>2, <3>3, <3>4, Zenon
  <2> QED BY <1>3, <2>1, <2>2, Zenon DEF Frame
<1>11. ClientGood(h)
  <2>1. epoch <= epoch
    BY <1>2 DEF Published
  <2> QED BY <1>6, <1>7, <1>10, <2>1, Zenon DEF ClientGood
<1>12. ASSUME NEW i \in DOMAIN Tail(q) PROVE Placed(Tail(q), i, s.pos, h) /\ FrameExact(Tail(q)[i])
  <2>1. i \in Nat /\ i > 0 /\ i + 1 \in DOMAIN q /\ Tail(q)[i] = q[i + 1]
    BY <1>4, Zenon
  <2>2. Placed(q, i + 1, s.pos, k) /\ FrameExact(q[i + 1])
    BY <1>2, <2>1, Zenon DEF StreamGood, q
  <2>3. q[i + 1].kind # "Snapshot" /\ Len(q) # 1
    BY <1>2, <2>1, <2>2 DEF Placed
  <2>4. f.kind = "Event"
    BY <1>3, <1>7, <2>3, Zenon DEF Placed, Frame
  <2>5. f.event.seq = k.cursor + 1 /\ k.cursor \in Nat /\ f.kind # "Snapshot"
    BY <1>2, <1>3, <1>7, <2>4 DEF Placed, ClientNow, Sequence
  <2>6. h.cursor = k.cursor + 1
    BY <1>6, <2>5, Zenon DEF CursorOf
  <2>7. k.cursor + (i + 1) = h.cursor + i
    BY <2>1, <2>5, <2>6
  <2> QED BY <1>6, <2>1, <2>2, <2>3, <2>7, Zenon DEF Placed
<1>13. StreamGood(r, h)
  <2>1. s.pos <= Current
    BY <1>2, Zenon DEF StreamGood
  <2>2. 1 .. s.pos \subseteq h.told \cup h.lost \cup Covered(Tail(q))
    BY <1>6, <1>8, <1>9, Zenon
  <2> QED BY <1>5, <1>6, <1>7, <1>12, <2>1, <2>2, Zenon DEF StreamGood
<1> QED BY <1>1, <1>11, <1>13, OneServed, Zenon DEF Good

\* The ring's next event, in its order.
LEMMA DeliverLiveKeeps ==
  ASSUME Watching, NEW c \in Clients, DeliverLive(c)
  PROVE  Watching'
<1> DEFINE s == stream[c]
           n == s.pos + 1
           f == EventFrame([seq |-> n, slice |-> log[n]])
           k == client[c]
           r == [s EXCEPT !.pos = s.pos + 1]
           h == Received(k, f)
<1>1. /\ stream' = [stream EXCEPT ![c] = r] /\ client' = [client EXCEPT ![c] = h]
      /\ UNCHANGED <<epoch, log, replay, projector>> /\ s.initial = << >>
      /\ s.pos < Current /\ s.phase = "live"
  BY Zenon DEF DeliverLive
<1>2. /\ s \in StreamNow /\ StreamGood(s, k) /\ ClientGood(k) /\ k \in ClientNow /\ Published
      /\ log \in Seq(Slices) /\ s.pos \in Nat /\ Len(log) \in Sequence /\ Len(log) \in Nat
  <2>1. s \in StreamNow /\ StreamGood(s, k) /\ ClientGood(k) /\ k \in ClientNow /\ Published
    BY Zenon DEF Watching, Good
  <2>2. log \in Seq(Slices) /\ Len(log) \in Sequence /\ s.pos \in Sequence
    BY <2>1, Zenon DEF StreamNow, Published
  <2>3. \A i \in Sequence : i \in Nat
    BY DEF Sequence
  <2> QED BY <2>1, <2>2, <2>3, Zenon
<1>3. n \in 1 .. Len(log) /\ n \in Sequence /\ log[n] \in Slices
  <2>1. n \in 1 .. Len(log)
    BY <1>1, <1>2 DEF Current
  <2>2. n \in Sequence
    BY <1>2, <2>1, ProjectionAssumption DEF Sequence
  <2> HIDE DEF n
  <2> QED BY <1>2, <2>1, <2>2
<1>4. r \in StreamNow /\ r.phase = "live" /\ r.initial = << >> /\ r.pos = n
  BY <1>1, <1>2, <1>3, Zenon DEF StreamNow
<1>5. \A i \in 1 .. n : i \in 1 .. s.pos \/ i = n
  BY <1>2
<1> HIDE DEF n
<1>6. /\ f \in Frame /\ f.kind = "Event" /\ f.event.seq = n /\ CursorOf(f) = n /\ Cover(f) = {n}
  BY <1>3, Zenon DEF EventFrame, Frame, Event, CursorOf, Cover
<1> HIDE DEF f
<1>7. /\ h \in ClientNow /\ h.epoch = epoch /\ h.cursor = n
      /\ h.told \cup h.lost = k.told \cup k.lost \cup {n}
  BY <1>2, <1>6, ReceivedIs, Zenon
<1> HIDE DEF r, h
<1>8. 1 .. n \subseteq h.told \cup h.lost
  <2>1. Covered(s.initial) = {}
    BY <1>1 DEF Covered
  <2>2. 1 .. s.pos \subseteq k.told \cup k.lost
    BY <1>1, <1>2, <2>1, Zenon DEF StreamGood
  <2> QED BY <1>5, <1>7, <2>2, Zenon
<1>9. epoch <= epoch /\ n <= Current /\ n <= n /\ DOMAIN r.initial = {}
  BY <1>2, <1>3, <1>4 DEF Published, Current
<1>10. Good(r, h)
  BY <1>4, <1>7, <1>8, <1>9, Zenon DEF Good, ClientGood, StreamGood
<1> QED BY <1>1, <1>10, OneServed, Zenon

LEMMA DisconnectKeeps ==
  ASSUME Watching, NEW c \in Clients, Disconnect(c)
  PROVE  Watching'
<1>1. /\ stream' = [stream EXCEPT ![c] = Closed]
      /\ UNCHANGED <<epoch, log, replay, projector>> /\ client' = client
  BY Zenon DEF Disconnect
<1>2. 0 <= Current
  BY DEF Watching, Published, Current, Sequence
<1>3. Good(Closed, client[c])
  BY <1>2, EmptyState, Zenon DEF Good, StreamGood, Watching
<1> QED BY <1>1, <1>3, OneServed, UnchangedIsOne, Zenon

LEMMA ProjectionStepKeeps == Watching /\ [ProjectionNext]_projectionVars => Watching'
<1> SUFFICES ASSUME Watching, [ProjectionNext]_projectionVars PROVE Watching'
  BY Zenon
<1>1. CASE \E x \in Slices : Publish(x)
  BY <1>1, PublishKeeps, Zenon
<1>2. CASE \E c \in Clients : Serve(c)
  <2> PICK c \in Clients : Serve(c)
    BY <1>2, Zenon
  <2>1. CASE WatchAfter(c)
    BY <2>1, WatchAfterKeeps, Zenon
  <2>2. CASE Subscribe(c) \/ Resubscribe(c)
    <3>1. Follow(c) /\ stream[c].phase # "closed" /\ UNCHANGED <<epoch, log, replay, projector>>
      BY <2>2, Zenon DEF Subscribe, Resubscribe
    <3> QED BY <3>1, FollowKeeps, Zenon
  <2>3. CASE DeliverInitial(c)
    BY <2>3, DeliverInitialKeeps, Zenon
  <2>4. CASE DeliverLive(c)
    BY <2>4, DeliverLiveKeeps, Zenon
  <2>5. CASE FetchSnapshot(c)
    BY <2>5, FetchSnapshotKeeps, Zenon
  <2> QED BY <2>1, <2>2, <2>3, <2>4, <2>5, Zenon DEF Serve
<1>3. CASE \E c \in Clients : Disconnect(c)
  BY <1>3, DisconnectKeeps, Zenon
<1>4. CASE RestartDaemon
  BY <1>4, RestartKeeps, Zenon
<1>5. CASE UNCHANGED projectionVars
  <2>1. UNCHANGED <<epoch, log, replay, projector>> /\ stream' = stream /\ client' = client
    BY <1>5, Zenon DEF projectionVars
  <2>2. Published'
    BY <2>1, Zenon DEF Watching, Published, ProjectorExact, ReplayExact, Current, StateAt
  <2>3. ASSUME NEW c \in Clients PROVE Good(stream[c], client[c])'
    <3>1. stream' = [stream EXCEPT ![c] = stream[c]] /\ client' = [client EXCEPT ![c] = client[c]]
      BY <2>1, Zenon DEF Watching
    <3>2. Watching'
      BY <2>1, <3>1, OneServed, UnchangedIsOne, Zenon
    <3> QED BY <3>2, Zenon DEF Watching
  <2> QED BY <2>1, <2>2, <2>3, Zenon DEF Watching
<1> QED BY <1>1, <1>2, <1>3, <1>4, <1>5, Zenon DEF ProjectionNext

\* What a watcher is told, for any number of callers, any window and any ring: every
\* frame is the truth of its position, frames come in order and never twice, and no
\* event up to the caller's cursor is left out but one published between the two
\* locks of an opening or of a recovery from a lag, whatever was replayed, lagged,
\* lost with a connection or begun anew with a daemon (events/sequencer.rs, the watch
\* streams of the presentation service).
THEOREM WatchersSeeTheTruth == ProjectionSpec => []WatchInv
BY ProjectionInitHolds, ProjectionStepKeeps, WatchingIsInv, PTL DEF ProjectionSpec
=============================================================================
