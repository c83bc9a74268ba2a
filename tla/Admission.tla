------------------------------ MODULE Admission ------------------------------
(***************************************************************************)
(* AdmissionController and the operation half of RuntimeService: reserve a *)
(* status, enqueue on the bounded command queue, start, cancel, commit,    *)
(* and apply an owner's terminal report.  One lock guards the service, so  *)
(* every method call is one action.  Owners are arbitrary here: any report *)
(* about any operation may arrive at any time, and a mailbox may refuse    *)
(* any dispatch.  CommandRuntime adds the real mailboxes and actors.       *)
(***************************************************************************)
EXTENDS OperationStore, TLC

CONSTANT QueueCapacity   \* command_bus capacity

ASSUME QueueAssumption == QueueCapacity \in Nat \ {0}

VARIABLES
  store,       \* AdmissionController::store
  queue,       \* command_bus: envelopes waiting for the dispatcher
  dispatcher   \* "up", or "fatal" once dispatch_step has returned an error

admissionVars == <<store, queue, dispatcher>>

Envelope == [id : Ops, command : Commands]

\* No code orders or compares operation ids but for equality.
Symmetric == Permutations(Ops)

AdmissionInit ==
  /\ store = EmptyStore
  /\ queue = << >>
  /\ dispatcher = "up"

(***************************************************************************)
(* submit                                                                  *)
(***************************************************************************)

\* A known id: the retained status or IdempotencyConflict, and no change.
SubmitKnown(id, command) ==
  /\ id \in Live(store)
  /\ UNCHANGED admissionVars

SubmitExhausted(id, command) ==
  /\ id \notin Live(store)
  /\ ~HasRoom(store)
  /\ store' = MakeRoom(store)
  /\ UNCHANGED <<queue, dispatcher>>

\* The reservation is rolled back; what MakeRoom evicted is not restored.
SubmitQueueFull(id, command) ==
  /\ id \notin Live(store)
  /\ HasRoom(store)
  /\ store.made[id] < MaxIncarnations
  /\ Len(queue) = QueueCapacity
  /\ \E now \in Clock : store' = RemovedPending(Inserted(store, id, command, now), id)
  /\ UNCHANGED <<queue, dispatcher>>

SubmitAdmitted(id, command) ==
  /\ id \notin Live(store)
  /\ HasRoom(store)
  /\ store.made[id] < MaxIncarnations
  /\ Len(queue) < QueueCapacity
  /\ \E now \in Clock : store' = Inserted(store, id, command, now)
  /\ queue' = Append(queue, [id |-> id, command |-> command])
  /\ UNCHANGED dispatcher

Submit(id, command) ==
  \/ SubmitKnown(id, command)
  \/ SubmitExhausted(id, command)
  \/ SubmitQueueFull(id, command)
  \/ SubmitAdmitted(id, command)

(***************************************************************************)
(* cancel, mark_committed, and a terminal report                           *)
(***************************************************************************)
Cancel(id) ==
  /\ CanCancel(store, id)
  /\ \E now \in Clock :
       /\ CanTransition(store, id, "Cancelled", now)
       /\ store' = Transitioned(store, id, "Cancelled", now)
  /\ UNCHANGED <<queue, dispatcher>>

\* NotFound, AlreadyTerminal, TooLateToCancel, or a clock that stepped back.
CancelRefused(id) ==
  /\ \/ ~CanCancel(store, id)
     \/ \E now \in Clock : ~CanTransition(store, id, "Cancelled", now)
  /\ UNCHANGED admissionVars

MarkCommitted(id) ==
  /\ CanCommit(store, id)
  /\ store' = MarkedCommitted(store, id)
  /\ UNCHANGED <<queue, dispatcher>>

\* complete / fail: `target` is Completed or Failed.
Finish(id, target) ==
  /\ \E now \in Clock :
       /\ CanTransition(store, id, target, now)
       /\ store' = Transitioned(store, id, target, now)
  /\ UNCHANGED <<queue, dispatcher>>

(***************************************************************************)
(* dispatch_once                                                           *)
(***************************************************************************)
Take ==
  /\ dispatcher = "up"
  /\ queue # << >>
  /\ queue' = Tail(queue)

\* Cancelled while queued: consumed without starting.
DispatchCancelled ==
  /\ Take
  /\ Head(queue).id \in Live(store)
  /\ StateOf(store, Head(queue).id) = "Cancelled"
  /\ UNCHANGED <<store, dispatcher>>

CanStart(id, now) == CanTransition(store, id, "Running", now)

Dispatched ==
  /\ Take
  /\ \E now \in Clock :
       /\ CanStart(Head(queue).id, now)
       /\ store' = Transitioned(store, Head(queue).id, "Running", now)
  /\ UNCHANGED dispatcher

\* The owner's mailbox refuses: reject_dispatch fails the operation at once.
DispatchRejected ==
  /\ Take
  /\ LET id == Head(queue).id
     IN  \E now, later \in Clock :
           /\ CanStart(id, now)
           /\ later >= now
           /\ store' = Transitioned(Transitioned(store, id, "Running", now),
                                    id, "Failed", later)
  /\ UNCHANGED dispatcher

\* No record, a record that cannot start, or a clock that stepped back: the
\* error leaves dispatch_step and ends the dispatcher task.
DispatchFatal ==
  /\ Take
  /\ LET id == Head(queue).id
     IN  \/ id \notin Live(store)
         \/ /\ id \in Live(store)
            /\ StateOf(store, id) # "Cancelled"
            /\ \E now \in Clock : ~CanStart(id, now)
  /\ dispatcher' = "fatal"
  /\ UNCHANGED store

\* Started and refused, but the clock stepped back before fail(): the
\* operation stays Running and the dispatcher ends.
RejectFatal ==
  /\ Take
  /\ LET id == Head(queue).id
     IN  \E now, later \in Clock :
           /\ CanStart(id, now)
           /\ later < now
           /\ store' = Transitioned(store, id, "Running", now)
  /\ dispatcher' = "fatal"

AdmissionNext ==
  \/ \E id \in Ops, command \in Commands : Submit(id, command)
  \/ \E id \in Ops : Cancel(id)
  \/ \E id \in Ops : CancelRefused(id)
  \/ \E id \in Ops : MarkCommitted(id)
  \/ \E id \in Ops, target \in {"Completed", "Failed"} : Finish(id, target)
  \/ DispatchCancelled
  \/ Dispatched
  \/ DispatchRejected
  \/ DispatchFatal
  \/ RejectFatal

AdmissionSpec == AdmissionInit /\ [][AdmissionNext]_admissionVars

(***************************************************************************)
(* Properties                                                              *)
(***************************************************************************)

\* Types of the store, the queue and the dispatcher flag.
AdmissionTypeOK ==
  /\ store \in Store
  /\ queue \in Seq(Envelope)
  /\ Len(queue) <= QueueCapacity
  /\ dispatcher \in {"up", "fatal"}

\* The terminal order is exactly the terminal records, each once: eviction
\* (evict_oldest_terminal) never pops a dead id and never skips a record, and
\* every terminal record can be evicted some day.
OrderIsTerminal == Orderly(store)

\* Neither limit of OperationStore::new is ever exceeded.
WithinCapacity == Bounded(store)

\* The record and the token its owner holds tell the same story: the token
\* asks for cancellation exactly when the record is Cancelled, and is past the
\* commit point exactly when the record is.
TokenAgrees == TokensAgree(store)

\* While the dispatcher runs, a Pending operation still has its envelope in the
\* command queue: admission never leaves a reservation nobody will start
\* (submit's rollback, dispatch_once's consumption).
PendingIsQueued ==
  dispatcher = "up" => \A id \in Live(store) :
    StateOf(store, id) = "Pending" => \E i \in DOMAIN queue : queue[i].id = id

\* No operation that is Pending or Running is ever dropped from the store,
\* neither to admit new work nor to retain a terminal record (insert's
\* "active records are never evicted to admit new work").
ActiveStays ==
  \A id \in Live(store) : StateOf(store, id) \in Active => id \in Live(store')
ActiveNeverEvicted == [][ActiveStays]_admissionVars

\* A terminal state is final for its record, and a commit point is never
\* forgotten: only eviction ends a terminal record.
HistoryKept ==
  \A id \in Live(store) :
    (id \in Live(store') /\ store'.made[id] = store.made[id]) =>
      /\ StateOf(store, id) \in Terminal => store'.records[id] = store.records[id]
      /\ store.records[id].commit => store'.records[id].commit
TerminalIsFinal == [][HistoryKept]_admissionVars

\* A record's updated_at never decreases, whatever the wall clock does
\* (OperationRecord::transition refuses a reading older than the last one).
TimesKept ==
  \A id \in Live(store) :
    (id \in Live(store') /\ store'.made[id] = store.made[id]) =>
      store'.records[id].updatedAt >= store.records[id].updatedAt
TimeNeverMovesBack == [][TimesKept]_admissionVars

\* A cancellation request reaches the owner's token and stays there, even
\* after the record is evicted and its id admitted again.
RequestsKept ==
  \A t \in Ops \X Incarnations :
    store.tokens[t] # "Active" => store'.tokens[t] = store.tokens[t]
TokenIsOneWay == [][RequestsKept]_admissionVars

\* The daemon keeps the promise of OperationLifecycle to clients that poll.
PhaseOf == [op \in Ops |-> IF op \in Live(store) THEN StateOf(store, op) ELSE "Absent"]
Lifecycle == INSTANCE OperationLifecycle WITH phase <- PhaseOf
KeepsLifecycle == Lifecycle!LifecycleSpec

\* The inductive invariant behind the properties above.
AdmissionInv ==
  /\ AdmissionTypeOK
  /\ GoodStore(store)
  /\ PendingIsQueued
=============================================================================
