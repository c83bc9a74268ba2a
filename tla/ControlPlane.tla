---------------------------- MODULE ControlPlane ----------------------------
(***************************************************************************)
(* The control connection between command-line clients and the daemon.     *)
(* Every client connects with a few retries, handshakes, and exchanges one *)
(* request and one reply at a time over a FIFO stream; it submits its      *)
(* operations and polls them until they end or its own deadline passes.    *)
(* The daemon serves each connection with a task of its own, checks every  *)
(* request against one shared session whose lifetime is counted on the     *)
(* wall clock, and holds the reply of StopDaemon back until that operation *)
(* ends.  A client gives up waiting for a reply after 30 s, and some of    *)
(* its callers ignore that, so a reply can arrive for an earlier request.  *)
(***************************************************************************)
EXTENDS Naturals, Sequences

CONSTANTS
  Callers,       \* command-line clients
  Scenarios,     \* bound: which commands the callers run
  SessionTtl,    \* SESSION_TTL_MS, in wall-clock steps
  MaxTick,       \* bound: wall-clock steps
  MaxAttempts,   \* connect_with_retry: MAX_ATTEMPTS
  MaxPolls       \* polls before the 20 s deadline of poll_operation

ASSUME ControlAssumption ==
  /\ Scenarios \subseteq [Callers -> {"Stop", "Start", "Pick", "Async", "Tun", "None"}]
  /\ SessionTtl \in Nat \ {0}
  /\ MaxTick \in Nat
  /\ MaxAttempts \in Nat \ {0}
  /\ MaxPolls \in Nat
  /\ \A s \in Scenarios, c, d \in Callers : s[c] = "Tun" /\ s[d] = "Tun" => c = d

VARIABLES
  asks,       \* asks[c]: the command c runs
  tick,       \* unix_millis
  expiry,     \* SessionRegistry: when the daemon's one token expires, 0 when absent
  shaken,     \* ServiceAdapter::handshake_complete
  link,       \* link[c]: the connection of c and the task that serves it
  ops,        \* ops[c]: the operations c has submitted
  caller,     \* caller[c]: the client process
  override,   \* config.d/65-tun-toggle.yaml says tun.enabled
  loaded,     \* the applied configuration routes through TUN
  device,     \* the TUN device is engaged
  up,         \* the daemon's serve loop runs
  stopHeard   \* the stop notifier has fired

controlVars == <<asks, tick, expiry, shaken, link, ops, caller, override, loaded, device, up, stopHeard>>

Terminal == {"Completed", "Failed", "Cancelled"}
NoLink == [open |-> FALSE, requests |-> << >>, replies |-> << >>, task |-> "none"]
FirstOp(c) == [Stop |-> "StopDaemon", Start |-> "SwitchCore", Pick |-> "SelectProxy",
               Async |-> "RefreshSubscription", Tun |-> "ApplyConfig", None |-> "None"][asks[c]]

ControlInit ==
  /\ asks \in Scenarios
  /\ tick = 0
  /\ expiry = 0
  /\ shaken = FALSE
  /\ link = [c \in Callers |-> NoLink]
  /\ ops = [c \in Callers |-> << >>]
  /\ caller = [c \in Callers |-> [pc |-> IF asks[c] = "None" THEN "done" ELSE "connect",
                                  sent |-> FALSE, tries |-> 0, polls |-> 0, token |-> FALSE, since |-> 0, kind |-> FirstOp(c),
                                  exit |-> "none", rejected |-> FALSE]]
  /\ override = FALSE
  /\ loaded = FALSE
  /\ device = FALSE
  /\ up = TRUE
  /\ stopHeard = FALSE

daemonSide == <<asks, tick, expiry, shaken, loaded, device, up, stopHeard>>

(***************************************************************************)
(* The client process                                                      *)
(***************************************************************************)

\* A failed ApplyConfig does not end the sys-tun command.
Verdict_IgnoresApply(k, ok) ==
  CASE k.kind = "ApplyConfig" -> [k EXCEPT !.kind = "SetTun", !.pc = "Execute", !.polls = 0]
    [] k.kind = "SetTun" /\ ~ok -> [k EXCEPT !.kind = "Revert", !.pc = "Execute", !.polls = 0]
    [] OTHER -> [k EXCEPT !.pc = "done", !.exit = IF ok /\ k.kind # "Revert" THEN "ok" ELSE "failed"]

\* The exit of one execute_operation.  execute_sys_cmd chains three of them for
\* TUN: apply, engage, and after a failed engage apply again; its exit code is
\* the engage's.
Verdict(k, ok) ==
  CASE k.kind = "ApplyConfig" /\ ok -> [k EXCEPT !.kind = "SetTun", !.pc = "Execute", !.polls = 0]
    [] k.kind = "SetTun" /\ ~ok -> [k EXCEPT !.kind = "Revert", !.pc = "Execute", !.polls = 0]
    [] OTHER -> [k EXCEPT !.pc = "done", !.exit = IF ok /\ k.kind # "Revert" THEN "ok" ELSE "failed"]

\* A failed request: active_core_kind ignores it, an operation fails with it, and
\* everything else reports it and exits.
Failed(c, k) ==
  CASE k.pc = "Snapshot" /\ asks[c] = "Start" -> [k EXCEPT !.pc = "Execute"]
    [] k.pc \in {"Execute", "Status"} -> Verdict(k, FALSE)
    [] OTHER -> [k EXCEPT !.pc = "done", !.exit = "failed"]

\* patch_tun_enabled: the toggle file is written before each of the two applies.
Toggled(c, k) == IF asks[c] = "Tun" /\ k.token THEN k.kind # "Revert" ELSE override

\* The process moves to k, with its next request unsent; its end closes its connection.
Becomes(c, k, line) ==
  /\ caller' = [caller EXCEPT ![c] = [k EXCEPT !.sent = FALSE]]
  /\ link' = [link EXCEPT ![c] = [line EXCEPT !.open = @ /\ k.pc # "done"]]
  /\ override' = Toggled(c, k)
  /\ UNCHANGED <<ops, daemonSide>>

\* connect_with_retry: a refused connection is tried again 200 ms later.
Connect(c) ==
  /\ caller[c].pc = "connect"
  /\ IF up
     THEN Becomes(c, [caller[c] EXCEPT !.pc = "Handshake"], [NoLink EXCEPT !.open = TRUE, !.task = "reading"])
     ELSE Becomes(c, IF caller[c].tries + 1 = MaxAttempts
                     THEN Failed(c, caller[c])
                     ELSE [caller[c] EXCEPT !.tries = @ + 1], link[c])

Requests == {"Handshake", "Snapshot", "Execute", "Status"}

\* exchange, its write.
Send(c) ==
  /\ caller[c].pc \in Requests
  /\ ~caller[c].sent
  /\ link[c].open
  /\ caller' = [caller EXCEPT ![c].sent = TRUE, ![c].since = IF caller[c].pc = "Handshake" THEN tick ELSE @]
  /\ link' = [link EXCEPT ![c].requests =
                Append(@, [kind |-> caller[c].pc, op |-> caller[c].kind, token |-> caller[c].token])]
  /\ UNCHANGED <<ops, override, daemonSide>>

\* TransportUnavailable: the stream is closed, and nothing is left to read.
Cut(c) ==
  /\ caller[c].pc \in Requests
  /\ ~link[c].open
  /\ caller[c].sent => link[c].replies = << >>
  /\ Becomes(c, Failed(c, caller[c]), link[c])

\* DeadlineExceeded: no reply within 30 s.  The stream stays in use.
Expire(c) ==
  /\ caller[c].sent
  /\ link[c].open
  /\ link[c].replies = << >>
  /\ Becomes(c, Failed(c, caller[c]), link[c])

\* execute_operation on the reply to Execute: only StopDaemon trusts the status in
\* it, an asynchronous refresh does not look, and the others poll.
Executed(c, k, state) ==
  CASE asks[c] = "Async" -> Verdict(k, TRUE)
    [] asks[c] = "Stop" /\ state \in Terminal -> Verdict(k, state = "Completed")
    [] OTHER -> [k EXCEPT !.pc = "Status"]

\* The client polls for as long as the operation runs.
Polled_NoDeadline(c, k, state) ==
  IF state \in Terminal THEN Verdict(k, state = "Completed") ELSE k

\* poll_operation, one status.
Polled(c, k, state) ==
  CASE state \in Terminal -> Verdict(k, state = "Completed")
    [] state \notin Terminal -> IF k.polls = MaxPolls THEN Verdict(k, FALSE) ELSE [k EXCEPT !.polls = @ + 1]

\* The reply is of the kind the request asks for (unexpected otherwise).
Matches(k, reply) == reply.kind = k.pc

Digested(c, k, reply) ==
  CASE reply.kind = "Error" -> [Failed(c, k) EXCEPT !.rejected = @ \/ reply.state = "Unauthenticated"]
    [] reply.kind # "Error" /\ ~Matches(k, reply) -> Failed(c, k)
    [] reply.kind # "Error" /\ Matches(k, reply) /\ k.pc = "Handshake" ->
         [k EXCEPT !.token = TRUE, !.pc = IF asks[c] \in {"Start", "Pick"} THEN "Snapshot" ELSE "Execute"]
    [] reply.kind # "Error" /\ Matches(k, reply) /\ k.pc = "Snapshot" ->
         [k EXCEPT !.pc = IF asks[c] = "Pick" THEN "pick" ELSE "Execute"]
    [] reply.kind # "Error" /\ Matches(k, reply) /\ k.pc = "Execute" -> Executed(c, k, reply.state)
    [] reply.kind # "Error" /\ Matches(k, reply) /\ k.pc = "Status" -> Polled(c, k, reply.state)

\* exchange, its read: the next frame of the stream, whichever request it answers.
Read(c) ==
  /\ caller[c].sent
  /\ link[c].replies # << >>
  /\ Becomes(c, Digested(c, caller[c], Head(link[c].replies)), [link[c] EXCEPT !.replies = Tail(@)])

\* patch_tun_enabled cannot write its file.
PatchFails(c) ==
  /\ asks[c] = "Tun"
  /\ caller[c].pc = "Handshake"
  /\ caller[c].sent
  /\ link[c].replies # << >>
  /\ Head(link[c].replies).kind = "Handshake"
  /\ caller' = [caller EXCEPT ![c].pc = "done", ![c].exit = "failed", ![c].sent = FALSE]
  /\ link' = [link EXCEPT ![c].open = FALSE]
  /\ UNCHANGED <<ops, override, daemonSide>>

\* The person at the picker chooses a node, or leaves it.
Choose(c) == caller[c].pc = "pick" /\ Becomes(c, [caller[c] EXCEPT !.pc = "Execute"], link[c])
Escape(c) == caller[c].pc = "pick" /\ Becomes(c, [caller[c] EXCEPT !.pc = "done", !.exit = "failed"], link[c])

ClientStep(c) == Connect(c) \/ Send(c) \/ Cut(c) \/ Expire(c) \/ Read(c) \/ PatchFails(c)

(***************************************************************************)
(* The daemon: one task per connection                                     *)
(***************************************************************************)
clientSide == <<asks, tick, caller, override, loaded, device, up>>

\* handshake: purge_expired, then refresh; every handshake mints the same token.
Refreshed == tick + SessionTtl

\* purge_expired, run by every validate_session before it looks the token up.
Purged == IF expiry > tick THEN expiry ELSE 0

Answers(c, reply) == link' = [link EXCEPT ![c].requests = Tail(@), ![c].replies = Append(@, reply)]

Asked(c) == link[c].open /\ up /\ link[c].task = "reading" /\ link[c].requests # << >>

ServeHandshake(c) ==
  /\ Asked(c)
  /\ Head(link[c].requests).kind = "Handshake"
  /\ expiry' = Refreshed
  /\ shaken' = TRUE
  /\ Answers(c, [kind |-> "Handshake", state |-> "none"])
  /\ UNCHANGED <<ops, stopHeard, clientSide>>

\* validate_session refuses the request: no token, or an expired session.
Refuse(c) ==
  /\ Asked(c)
  /\ Head(link[c].requests).kind # "Handshake"
  /\ ~(Head(link[c].requests).token /\ Purged # 0 /\ shaken)
  /\ expiry' = Purged
  /\ Answers(c, [kind |-> "Error", state |-> "Unauthenticated"])
  /\ UNCHANGED <<shaken, ops, stopHeard, clientSide>>

Admitted(c) ==
  /\ Asked(c)
  /\ Head(link[c].requests).kind # "Handshake"
  /\ Head(link[c].requests).token
  /\ Purged # 0
  /\ shaken
  /\ expiry' = Purged

ServeSnapshot(c) ==
  /\ Admitted(c)
  /\ Head(link[c].requests).kind = "Snapshot"
  /\ Answers(c, [kind |-> "Snapshot", state |-> "none"])
  /\ UNCHANGED <<shaken, ops, stopHeard, clientSide>>

\* dispatch Execute: the operation is admitted, and the reply to StopDaemon waits.
ServeExecute(c) ==
  /\ Admitted(c)
  /\ Head(link[c].requests).kind = "Execute"
  /\ ops' = [ops EXCEPT ![c] = Append(@, [kind |-> Head(link[c].requests).op, state |-> "Queued"])]
  /\ IF Head(link[c].requests).op = "StopDaemon"
     THEN link' = [link EXCEPT ![c].requests = Tail(@), ![c].task = "waiting"]
     ELSE Answers(c, [kind |-> "Execute", state |-> "Queued"])
  /\ UNCHANGED <<shaken, stopHeard, clientSide>>

\* Admission refuses the operation (a full queue, an unsupported command).
RejectExecute(c) ==
  /\ Admitted(c)
  /\ Head(link[c].requests).kind = "Execute"
  /\ Answers(c, [kind |-> "Error", state |-> "ResourceExhausted"])
  /\ UNCHANGED <<shaken, ops, stopHeard, clientSide>>

\* The operation a client asks for is always its latest.
Latest(c) == ops[c][Len(ops[c])]

ServeStatus(c) ==
  /\ Admitted(c)
  /\ Head(link[c].requests).kind = "Status"
  /\ Answers(c, [kind |-> "Status", state |-> Latest(c).state])
  /\ UNCHANGED <<shaken, ops, stopHeard, clientSide>>

\* wait_for_terminal_status finds the end of StopDaemon: the notifier fires, and
\* the reply is written after it.
WaitEnds(c) ==
  /\ link[c].task = "waiting"
  /\ up
  /\ Latest(c).state \in Terminal
  /\ stopHeard' = TRUE
  /\ link' = [link EXCEPT ![c].task = "replying"]
  /\ UNCHANGED <<expiry, shaken, ops, clientSide>>

\* Five seconds pass first: the reply is the one Execute began with.
WaitExpires(c) ==
  /\ link[c].task = "waiting"
  /\ up
  /\ Latest(c).state \notin Terminal
  /\ link' = [link EXCEPT ![c].task = "reading",
                          ![c].replies = Append(@, [kind |-> "Execute", state |-> "Queued"])]
  /\ UNCHANGED <<expiry, shaken, ops, stopHeard, clientSide>>

WriteReply(c) ==
  /\ link[c].task = "replying"
  /\ up
  /\ link' = [link EXCEPT ![c].task = "reading",
                          ![c].replies = Append(@, [kind |-> "Execute", state |-> Latest(c).state])]
  /\ UNCHANGED <<expiry, shaken, ops, stopHeard, clientSide>>

\* IDLE_TIMEOUT: no frame for 60 s; only a client at its picker is silent that long.
IdleClose(c) ==
  /\ link[c].open
  /\ link[c].task = "reading"
  /\ link[c].requests = << >>
  /\ caller[c].pc = "pick"
  /\ link' = [link EXCEPT ![c].open = FALSE]
  /\ UNCHANGED <<expiry, shaken, ops, stopHeard, clientSide>>

\* The serve loop ends; the process then closes whatever connections are left.
DaemonEnds ==
  /\ up
  /\ stopHeard
  /\ up' = FALSE
  /\ link' = [c \in Callers |-> [link[c] EXCEPT !.open = FALSE]]
  /\ UNCHANGED <<asks, tick, expiry, shaken, ops, caller, override, loaded, device, stopHeard>>

ServerStep(c) ==
  \/ ServeHandshake(c) \/ Refuse(c) \/ ServeSnapshot(c) \/ ServeExecute(c) \/ RejectExecute(c)
  \/ ServeStatus(c) \/ WaitEnds(c) \/ WaitExpires(c) \/ WriteReply(c)

(***************************************************************************)
(* The operations run on their actors, at their own pace.  Any client may  *)
(* cancel one that is queued, and some that run; their owners never say    *)
(* that they have committed, so the effect may be there already.           *)
(***************************************************************************)
SupportsRunningCancellation == {"ApplyConfig", "Revert", "SetTun"}

OperationRuns(c) ==
  /\ up
  /\ \E i \in DOMAIN ops[c], end \in Terminal \cup {"Running"}, effect \in BOOLEAN :
       LET o == ops[c][i]
       IN  /\ \/ o.state = "Queued" /\ end \in {"Running", "Cancelled"} /\ ~ effect
              \/ /\ o.state = "Running" /\ end \in Terminal
                 /\ end = "Cancelled" => o.kind \in SupportsRunningCancellation
           /\ end # "Cancelled" => effect = (end = "Completed")
           /\ ops' = [ops EXCEPT ![c][i].state = end]
           /\ loaded' = IF effect /\ o.kind \in {"ApplyConfig", "Revert"} THEN override ELSE loaded
           /\ device' = (device \/ (effect /\ o.kind = "SetTun"))
  /\ UNCHANGED <<asks, tick, expiry, shaken, link, caller, override, up, stopHeard>>

ClockAdvances ==
  /\ tick < MaxTick
  /\ tick' = tick + 1
  /\ UNCHANGED <<asks, expiry, shaken, link, ops, caller, override, loaded, device, up, stopHeard>>

ControlNext ==
  \/ \E c \in Callers : ClientStep(c) \/ Choose(c) \/ Escape(c) \/ ServerStep(c) \/ IdleClose(c) \/ OperationRuns(c)
  \/ DaemonEnds
  \/ ClockAdvances

ControlSpec == ControlInit /\ [][ControlNext]_controlVars

\* Timers run and runnable tasks and processes are scheduled; every such step brings
\* some client nearer its end, so it is enough that one of them is taken.  Operations
\* may hang, and the person at the picker may never choose.
Scheduled == \E c \in Callers : ClientStep(c) \/ ServerStep(c)
FairControlSpec == ControlSpec /\ WF_controlVars(Scheduled)

(***************************************************************************)
(* Properties                                                              *)
(***************************************************************************)

\* Exit code 0 is the truth about the command's own operation, whatever replies
\* were late or lost on the way: the operation completed, or for an asynchronous
\* refresh was admitted; a TUN switched on is engaged and routed.
ExitTellsTruth ==
  \A c \in Callers : caller[c].exit = "ok" =>
    /\ ops[c] # << >>
    /\ asks[c] # "Async" => Latest(c).state = "Completed"
    /\ asks[c] = "Tun" => device /\ loaded

\* A client is not turned away within SESSION_TTL of its own handshake, although the
\* session is shared: other clients purge it, refresh it and end meanwhile.
SessionOutlivesHandshake ==
  \A c \in Callers : caller[c].rejected => tick >= caller[c].since + SessionTtl

\* Every client that began ends, unless a person is still choosing at its picker: retries, polls
\* and waits are all bounded, even when the operation or the daemon hangs or dies.
Unfinished(c) ==
  (caller[c].pc # "connect" \/ caller[c].tries > 0) /\ caller[c].pc \notin {"done", "pick"}
EveryCallerEnds == (\E c \in Callers : Unfinished(c)) ~> (\A c \in Callers : ~ Unfinished(c))
=============================================================================
