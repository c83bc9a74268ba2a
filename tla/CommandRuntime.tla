--------------------------- MODULE CommandRuntime ---------------------------
(***************************************************************************)
(* The command path of the running daemon: Admission composed with the     *)
(* owner actors, their bounded mailboxes and the one bounded result        *)
(* mailbox.  The dispatcher task alternates one result step and one        *)
(* dispatch step, each under the service lock; every owner receives, runs  *)
(* and reports one command at a time on its own thread; clients submit and *)
(* cancel, telemetry and the exit monitor report observations, and the     *)
(* config reconciler puts reloads of its own into an owner's mailbox.      *)
(***************************************************************************)
EXTENDS Admission

CONSTANTS
  Owners,           \* owner actors (CommandTarget)
  OwnerOf,          \* route(): the owner of each command
  ReloadCommand,    \* the command the config reconciler enqueues
  AutoReload,       \* AUTO_RELOAD_OPERATION: an id no client uses
  MailboxCapacity,  \* capacity of every owner's mailbox
  ResultCapacity,   \* capacity of the result mailbox
  Observations      \* bound: observed reports and reloads waiting at a time

ASSUME RuntimeAssumption ==
  /\ IsFiniteSet(Owners)
  /\ OwnerOf \in [Commands -> Owners]
  /\ ReloadCommand \in Commands
  /\ AutoReload \notin Ops
  /\ MailboxCapacity \in Nat \ {0}
  /\ ResultCapacity \in Nat \ {0}
  /\ Observations \in Nat

VARIABLES
  mailbox,  \* mailbox[o]: routed commands waiting for owner o
  alive,    \* the owners whose actor task still runs
  inHand,   \* inHand[o]: the command o's handler is working on, if any
  results,  \* the result mailbox
  turn,     \* the dispatcher's next step: "result" or "dispatch"
  ran,      \* tokens whose command an owner has begun to execute
  shown     \* tokens whose presentation deltas reached the projection

ownerVars == <<mailbox, alive, inHand>>
runtimeVars == <<store, queue, dispatcher, mailbox, alive, inHand, results, turn, ran, shown>>

\* A routed command carries the token of the record it was started from; the
\* reconciler's reloads carry a token of their own, numbered 0.
Routed == [id : Ops \cup {AutoReload}, command : Commands, token : 0 .. MaxIncarnations]
Report == [kind : {"Completed", "Failed", "Observed"}, id : Ops \cup {AutoReload},
           token : 0 .. MaxIncarnations]

Reload == [id |-> AutoReload, command |-> ReloadCommand, token |-> 0]
Observed == [kind |-> "Observed", id |-> AutoReload, token |-> 0]
TokenIn(m) == <<m.id, m.token>>

RuntimeInit ==
  /\ AdmissionInit
  /\ mailbox = [o \in Owners |-> << >>]
  /\ alive = Owners
  /\ inHand = [o \in Owners |-> {}]
  /\ results = << >>
  /\ turn = "result"
  /\ ran = {}
  /\ shown = {}

(***************************************************************************)
(* Clients                                                                 *)
(***************************************************************************)
ClientSubmit(id, command) ==
  /\ Submit(id, command)
  /\ UNCHANGED <<ownerVars, results, turn, ran, shown>>

ClientCancel(id) ==
  /\ Cancel(id) \/ CancelRefused(id)
  /\ UNCHANGED <<ownerVars, results, turn, ran, shown>>

(***************************************************************************)
(* The dispatcher's result step                                            *)
(***************************************************************************)
TakeResult ==
  /\ dispatcher = "up"
  /\ turn = "result"
  /\ turn' = "dispatch"
  /\ results # << >>
  /\ results' = Tail(results)

ResultIdle ==
  /\ dispatcher = "up"
  /\ turn = "result"
  /\ results = << >>
  /\ turn' = "dispatch"
  /\ UNCHANGED <<admissionVars, ownerVars, results, ran, shown>>

ApplyObserved ==
  /\ TakeResult
  /\ Head(results).kind = "Observed"
  /\ UNCHANGED <<admissionVars, ownerVars, ran, shown>>

\* No record under the report's id: an AdmissionError, logged and skipped
\* before anything is published.
ReportUnknown ==
  /\ TakeResult
  /\ Head(results).kind # "Observed"
  /\ Head(results).id \notin Live(store)
  /\ UNCHANGED <<admissionVars, ownerVars, ran, shown>>

\* The late report overrides the cancellation.
ReportSuppressed_Overrides ==
  /\ TakeResult
  /\ Head(results).kind # "Observed"
  /\ Head(results).id \in Live(store)
  /\ StateOf(store, Head(results).id) = "Cancelled"
  /\ store' = [store EXCEPT !.records[Head(results).id].state = Head(results).kind]
  /\ UNCHANGED <<queue, dispatcher, ownerVars, ran, shown>>

ReportSuppressed ==
  /\ TakeResult
  /\ Head(results).kind # "Observed"
  /\ Head(results).id \in Live(store)
  /\ StateOf(store, Head(results).id) = "Cancelled"
  /\ UNCHANGED <<admissionVars, ownerVars, ran, shown>>

\* The deltas are published, then the record moves.
ReportApplied ==
  /\ TakeResult
  /\ LET report == Head(results)
     IN  /\ report.kind # "Observed"
         /\ report.id \in Live(store)
         /\ StateOf(store, report.id) # "Cancelled"
         /\ Finish(report.id, report.kind)
         /\ shown' = shown \cup {TokenIn(report)}
  /\ UNCHANGED <<ownerVars, ran>>

\* The deltas are published, then the record refuses to move: skipped.
ReportRefused ==
  /\ TakeResult
  /\ LET report == Head(results)
     IN  /\ report.kind # "Observed"
         /\ report.id \in Live(store)
         /\ StateOf(store, report.id) # "Cancelled"
         /\ \E now \in Clock : ~CanTransition(store, report.id, report.kind, now)
         /\ shown' = shown \cup {TokenIn(report)}
  /\ UNCHANGED <<admissionVars, ownerVars, ran>>

(***************************************************************************)
(* The dispatcher's dispatch step                                          *)
(***************************************************************************)
DispatchTurn ==
  /\ dispatcher = "up"
  /\ turn = "dispatch"
  /\ turn' = "result"

Accepts(o) == o \in alive /\ Len(mailbox[o]) < MailboxCapacity

DispatchIdle ==
  /\ DispatchTurn
  /\ queue = << >>
  /\ UNCHANGED <<admissionVars, ownerVars, results, ran, shown>>

DispatchConsumed ==
  /\ DispatchTurn
  /\ DispatchCancelled
  /\ UNCHANGED <<ownerVars, results, ran, shown>>

\* The envelope goes to the owner with the token of the record it starts.
DispatchRouted ==
  /\ DispatchTurn
  /\ Dispatched
  /\ LET envelope == Head(queue)
         owner == OwnerOf[envelope.command]
         routed == [id |-> envelope.id, command |-> envelope.command,
                    token |-> store.records[envelope.id].token]
     IN  /\ Accepts(owner)
         /\ mailbox' = [mailbox EXCEPT ![owner] = Append(@, routed)]
  /\ UNCHANGED <<alive, inHand, results, ran, shown>>

\* The started operation is not failed.
DispatchRefused_LeavesRunning ==
  /\ DispatchTurn
  /\ Dispatched
  /\ ~Accepts(OwnerOf[Head(queue).command])
  /\ UNCHANGED <<ownerVars, results, ran, shown>>

\* A refused dispatch fails the operation at once, or ends the dispatcher when
\* the clock stepped back in between.
DispatchRefused ==
  /\ DispatchTurn
  /\ DispatchRejected \/ RejectFatal
  /\ ~Accepts(OwnerOf[Head(queue).command])
  /\ UNCHANGED <<ownerVars, results, ran, shown>>

DispatchFails ==
  /\ DispatchTurn
  /\ DispatchFatal
  /\ UNCHANGED <<ownerVars, results, ran, shown>>

(***************************************************************************)
(* Owner actors                                                            *)
(***************************************************************************)
CancelRequested(m) == m.id \in Ops /\ store.tokens[TokenIn(m)] = "CancelRequested"

\* The message stays in the mailbox.
ActorReceive_LeavesMessage(o) ==
  /\ o \in alive
  /\ inHand[o] = {}
  /\ mailbox[o] # << >>
  /\ inHand' = [inHand EXCEPT ![o] = {Head(mailbox[o])}]
  /\ ran' = ran \cup {TokenIn(Head(mailbox[o]))}
  /\ UNCHANGED <<admissionVars, mailbox, alive, results, turn, shown>>

\* The handler drops a command whose cancellation was requested; otherwise it
\* calls the backend.  The token is not looked at again.
ActorReceive(o) ==
  /\ o \in alive
  /\ inHand[o] = {}
  /\ mailbox[o] # << >>
  /\ mailbox' = [mailbox EXCEPT ![o] = Tail(@)]
  /\ LET m == Head(mailbox[o])
     IN  IF CancelRequested(m)
         THEN UNCHANGED <<inHand, ran>>
         ELSE /\ inHand' = [inHand EXCEPT ![o] = {m}]
              /\ ran' = ran \cup {TokenIn(m)}
  /\ UNCHANGED <<admissionVars, alive, results, turn, shown>>

\* report_outcome: the backend returned and the report fits.
ActorReport(o, kind) ==
  /\ Len(results) < ResultCapacity
  /\ \E m \in inHand[o] :
       results' = Append(results, [kind |-> kind, id |-> m.id, token |-> m.token])
  /\ inHand' = [inHand EXCEPT ![o] = {}]
  /\ UNCHANGED <<admissionVars, mailbox, alive, turn, ran, shown>>

\* The result mailbox is full: the handler error ends the actor task, which
\* drops the report and everything in its mailbox.
ActorEnds(o) ==
  /\ inHand[o] # {}
  /\ Len(results) = ResultCapacity
  /\ alive' = alive \ {o}
  /\ inHand' = [inHand EXCEPT ![o] = {}]
  /\ mailbox' = [mailbox EXCEPT ![o] = << >>]
  /\ UNCHANGED <<admissionVars, results, turn, ran, shown>>

(***************************************************************************)
(* Telemetry, the exit monitor and the config reconciler                   *)
(***************************************************************************)
Waiting ==
  Cardinality({i \in DOMAIN results : results[i].id = AutoReload})
  + Cardinality({slot \in Owners \X (1 .. MailboxCapacity) :
                   /\ slot[2] \in DOMAIN mailbox[slot[1]]
                   /\ mailbox[slot[1]][slot[2]].id = AutoReload})
  + Cardinality({o \in Owners : Reload \in inHand[o]})

Observe ==
  /\ Waiting < Observations
  /\ Len(results) < ResultCapacity
  /\ results' = Append(results, Observed)
  /\ UNCHANGED <<admissionVars, ownerVars, turn, ran, shown>>

Reconcile ==
  /\ Waiting < Observations
  /\ Accepts(OwnerOf[ReloadCommand])
  /\ mailbox' = [mailbox EXCEPT ![OwnerOf[ReloadCommand]] = Append(@, Reload)]
  /\ UNCHANGED <<admissionVars, alive, inHand, results, turn, ran, shown>>

DispatcherStep ==
  \/ ResultIdle \/ ApplyObserved \/ ReportUnknown \/ ReportSuppressed
  \/ ReportApplied \/ ReportRefused
  \/ DispatchIdle \/ DispatchConsumed \/ DispatchRouted \/ DispatchRefused
  \/ DispatchFails

ActorStep(o) ==
  \/ ActorReceive(o)
  \/ \E kind \in {"Completed", "Failed"} : ActorReport(o, kind)
  \/ ActorEnds(o)

RuntimeNext ==
  \/ \E id \in Ops, command \in Commands : ClientSubmit(id, command)
  \/ \E id \in Ops : ClientCancel(id)
  \/ DispatcherStep
  \/ \E o \in Owners : ActorStep(o)
  \/ Observe
  \/ Reconcile

RuntimeSpec == RuntimeInit /\ [][RuntimeNext]_runtimeVars

\* The dispatcher task loops for as long as the daemon runs and every backend
\* call is bounded by a timeout, so both keep taking steps.
FairRuntimeSpec ==
  /\ RuntimeSpec
  /\ WF_runtimeVars(DispatcherStep)
  /\ \A o \in Owners : WF_runtimeVars(ActorStep(o))

(***************************************************************************)
(* Properties                                                              *)
(***************************************************************************)

\* Types and capacities of the mailboxes.
RuntimeTypeOK ==
  /\ mailbox \in [Owners -> Seq(Routed)]
  /\ \A o \in Owners : Len(mailbox[o]) <= MailboxCapacity
  /\ alive \subseteq Owners
  /\ inHand \in [Owners -> SUBSET Routed]
  /\ \A o \in Owners : Cardinality(inHand[o]) <= 1
  /\ results \in Seq(Report)
  /\ Len(results) <= ResultCapacity
  /\ turn \in {"result", "dispatch"}
  /\ ran \subseteq (Ops \cup {AutoReload}) \X (0 .. MaxIncarnations)
  /\ shown \subseteq ran

\* The places where the work of a token is still under way.
InMailbox(t) == \E o \in alive : \E i \in DOMAIN mailbox[o] : TokenIn(mailbox[o][i]) = t
Working(t) == \E o \in alive : \E m \in inHand[o] : TokenIn(m) = t
InResults(t) == \E i \in DOMAIN results : TokenIn(results[i]) = t

\* An operation that stays Running because its owner ended on a full result
\* mailbox, with its report or its command (spawn_handler_task).
Stranded(id) ==
  /\ id \in Live(store)
  /\ StateOf(store, id) = "Running"
  /\ OwnerOf[store.records[id].command] \notin alive

\* A Running operation is in somebody's hands: its command waits in the
\* mailbox of a live owner, is being executed, or its report is on the way
\* back.  Only the end of its own owner strands it, whatever happens to the
\* other one; then its client polls for ever (what actor_result.rs calls
\* "Started-not-Failed").
RunningHasOwner ==
  \A id \in Live(store) :
    StateOf(store, id) = "Running" =>
      LET t == <<id, store.records[id].token>>
      IN  InMailbox(t) \/ Working(t) \/ InResults(t) \/ Stranded(id)

\* Work is under way in one place only and no owner begins a command twice,
\* although submit is retried and ids are reused: a started envelope is never
\* routed a second time.
NoSecondExecution ==
  [][\A o \in Owners : \A m \in inHand'[o] \ inHand[o] : m.id \in Ops => TokenIn(m) \notin ran]_runtimeVars

\* An operation that reads Cancelled was either never executed, or its command
\* is one whose owner supports cancellation while running: the status never
\* denies an effect of an uncancellable command.
CancelledMeansNotRun ==
  \A id \in Live(store) :
    (StateOf(store, id) = "Cancelled" /\ <<id, store.records[id].token>> \in ran) =>
      store.records[id].command \in RunningCancellable

\* A token was started: the record that carries it, if it is still there, has
\* left Pending, and no later record will ever carry it.
Started(s, t) ==
  t[1] \in Ops =>
    /\ t[2] \in 1 .. s.made[t[1]]
    /\ t[1] \in Live(s) /\ s.records[t[1]].token = t[2] => StateOf(s, t[1]) # "Pending"

\* Work belongs to a start, and to one only: what an owner holds or has reported
\* it has begun, what it began was started, and what waits in the mailboxes was
\* started once and is not begun yet.
WorkIsTraced ==
  /\ \A o \in Owners : \A m \in inHand[o] : TokenIn(m) \in ran
  /\ \A i \in DOMAIN results : results[i].kind # "Observed" => TokenIn(results[i]) \in ran
  /\ \A t \in ran : Started(store, t)
  /\ \A o \in Owners : \A i \in DOMAIN mailbox[o] :
       mailbox[o][i].id \in Ops =>
         Started(store, TokenIn(mailbox[o][i])) /\ TokenIn(mailbox[o][i]) \notin ran
  /\ \A o, p \in Owners : \A i \in DOMAIN mailbox[o], j \in DOMAIN mailbox[p] :
       mailbox[o][i].id \in Ops /\ TokenIn(mailbox[o][i]) = TokenIn(mailbox[p][j]) => o = p /\ i = j

\* The invariant of the runtime at every limit: the types, mailboxes within
\* their capacities, work that belongs to one start, and a Cancelled status that
\* denies no effect.  With AdmissionInv it is inductive.
RuntimeInv == RuntimeTypeOK /\ WorkIsTraced /\ CancelledMeansNotRun

\* The projection shows an operation's deltas exactly when its status says the
\* owner finished it: nothing of a Pending, Running or Cancelled operation is
\* shown, and a Completed operation was executed and is shown (apply_terminal
\* publishes and transitions under one lock; cancelled_outcome suppresses).
ShownAgrees ==
  \A id \in Live(store) :
    LET t == <<id, store.records[id].token>>
    IN  /\ t \in shown => StateOf(store, id) \in {"Completed", "Failed"}
        /\ StateOf(store, id) = "Completed" => t \in shown /\ t \in ran

\* An envelope whose operation was cancelled while it was queued is consumed
\* without starting work (dispatch_once), and so is every other envelope: the
\* dispatcher task never ends with an error.
DispatcherStaysUp == dispatcher = "up"

\* The mailboxes, the actors and the two-step dispatcher only do what
\* Admission allows.
KeepsAdmission == AdmissionSpec

\* Every admitted operation reaches a terminal state (or is gone from the
\* store, which keeps only terminal records that it may drop), unless the
\* owner that was to run it ended: one still Pending fails even then.
Unsettled(id) == id \in Live(store) /\ StateOf(store, id) \in Active
Settles == \A id \in Ops : Unsettled(id) ~> (~Unsettled(id) \/ Stranded(id))
=============================================================================
