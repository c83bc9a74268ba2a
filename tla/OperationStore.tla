--------------------------- MODULE OperationStore ---------------------------
(***************************************************************************)
(* The operation store of caly-application: the bounded map of operation   *)
(* records, the queue of terminal records kept for late status queries,    *)
(* and the per-operation cancellation token shared with the owner actor.   *)
(*                                                                         *)
(* The store is a value `s` with the fields                                *)
(*   records  a finite function from operation ids to records (HashMap)    *)
(*   order    the ids of terminal records, oldest first (VecDeque)         *)
(*   tokens   the state of every cancellation token ever handed out; a     *)
(*            token outlives its record, because routed commands hold it   *)
(*   made     how many records (hence tokens) each id has had              *)
(* and its methods are operators from store to store, so that a caller     *)
(* that performs several of them under one lock is still one action.       *)
(***************************************************************************)
EXTENDS Naturals, Sequences, FiniteSets

CONSTANTS
  Ops,                \* operation ids clients use
  Commands,           \* commands
  RunningCancellable, \* commands whose owner supports cancellation while Running
  Clock,              \* readings the wall clock may show; a singleton never steps back
  TotalCapacity,      \* OperationStore::total_capacity
  TerminalCapacity,   \* OperationStore::terminal_capacity
  MaxIncarnations     \* bound: how often one id may be admitted

ASSUME StoreAssumption ==
  /\ IsFiniteSet(Ops)
  /\ RunningCancellable \subseteq Commands
  /\ Clock \subseteq Nat
  /\ TerminalCapacity \in Nat \ {0}
  /\ TotalCapacity \in Nat
  /\ TotalCapacity >= TerminalCapacity
  /\ MaxIncarnations \in Nat

(***************************************************************************)
(* Records and tokens                                                      *)
(***************************************************************************)
Active == {"Pending", "Running"}
Terminal == {"Completed", "Failed", "Cancelled"}
TokenState == {"Active", "CancelRequested", "Committed"}

Incarnations == 1 .. MaxIncarnations

Record ==
  [command   : Commands,
   state     : Active \cup Terminal,
   updatedAt : Clock,
   commit    : BOOLEAN,
   token     : Incarnations]

Live(s) == DOMAIN s.records
StateOf(s, id) == s.records[id].state
TokenOf(s, id) == s.tokens[<<id, s.records[id].token>>]
Retained(s) == {s.order[i] : i \in DOMAIN s.order}

With(f, k, v) == [x \in DOMAIN f \cup {k} |-> IF x = k THEN v ELSE f[x]]
Without(f, k) == [x \in DOMAIN f \ {k} |-> f[x]]

EmptyStore ==
  [records |-> [id \in {} |-> {}],
   order   |-> << >>,
   tokens  |-> [t \in Ops \X Incarnations |-> "Active"],
   made    |-> [id \in Ops |-> 0]]

\* A late report overrides a cancellation.
LegalTransition_LateReport(from, to) ==
  \/ <<from, to>> \in {<<"Pending", "Running">>, <<"Pending", "Cancelled">>,
                       <<"Running", "Completed">>, <<"Running", "Failed">>,
                       <<"Running", "Cancelled">>}
  \/ from = "Cancelled" /\ to \in Terminal

LegalTransition(from, to) ==
  <<from, to>> \in {<<"Pending", "Running">>, <<"Pending", "Cancelled">>,
                    <<"Running", "Completed">>, <<"Running", "Failed">>,
                    <<"Running", "Cancelled">>}

(***************************************************************************)
(* Retention                                                               *)
(***************************************************************************)

\* The popped id keeps its record.
EvictOldestTerminal_KeepsRecord(s) ==
  [s EXCEPT !.order = IF @ = << >> THEN @ ELSE Tail(@)]

\* Pops the order until one popped id names a terminal record, and drops it.
EvictOldestTerminal(s) ==
  LET removable == {i \in DOMAIN s.order :
                      /\ s.order[i] \in Live(s)
                      /\ StateOf(s, s.order[i]) \in Terminal}
      oldest == CHOOSE i \in removable : \A j \in removable : i <= j
  IN  IF removable = {}
      THEN [s EXCEPT !.order = << >>]
      ELSE [s EXCEPT !.records = Without(@, s.order[oldest]),
                     !.order = SubSeq(@, oldest + 1, Len(@))]

\* The order never holds more than TerminalCapacity ids between calls, so the
\* eviction loop of the code runs at most once.
RetainTerminal(s, id) ==
  LET others == IF id \in Retained(s)
                THEN SelectSeq(s.order, LAMBDA other : other # id)
                ELSE s.order
      kept == [s EXCEPT !.order = Append(others, id)]
  IN  IF Len(kept.order) > TerminalCapacity THEN EvictOldestTerminal(kept) ELSE kept

(***************************************************************************)
(* Methods of the store                                                    *)
(***************************************************************************)

\* Whatever record comes first gives way, active or not.
MakeRoom_EvictsAny(s) ==
  IF Cardinality(Live(s)) = TotalCapacity
  THEN [s EXCEPT !.records = Without(@, CHOOSE id \in Live(s) : TRUE)]
  ELSE s

\* Room for a new record, after one terminal record has given way if needed.
MakeRoom(s) ==
  IF Cardinality(Live(s)) = TotalCapacity THEN EvictOldestTerminal(s) ELSE s

HasRoom(s) == Cardinality(Live(MakeRoom(s))) # TotalCapacity

\* OperationRecord::pending followed by the insertion proper.
Inserted(s, id, command, now) ==
  LET room == MakeRoom(s)
      incarnation == s.made[id] + 1
      pending == [command |-> command, state |-> "Pending", updatedAt |-> now,
                  commit |-> FALSE, token |-> incarnation]
  IN  [room EXCEPT !.records = With(@, id, pending),
                   !.made = [@ EXCEPT ![id] = incarnation]]

\* Nobody has seen the removed record's token, so its number is free again.
RemovedPending(s, id) ==
  [s EXCEPT !.records = Without(@, id),
            !.made = [s.made EXCEPT ![id] = s.made[id] - 1]]

\* The clock is not compared with the record.
CanTransition_AnyTime(s, id, target, now) ==
  /\ id \in Live(s)
  /\ LegalTransition(StateOf(s, id), target)
  /\ target = "Cancelled" => TokenOf(s, id) # "Committed"

\* The checks of OperationRecord::transition, in the order of the code.
CanTransition(s, id, target, now) ==
  /\ id \in Live(s)
  /\ now >= s.records[id].updatedAt
  /\ LegalTransition(StateOf(s, id), target)
  /\ target = "Cancelled" => TokenOf(s, id) # "Committed"

Transitioned(s, id, target, now) ==
  LET record == [s.records[id] EXCEPT !.state = target, !.updatedAt = now]
      tokens == [s.tokens EXCEPT ![<<id, s.records[id].token>>] =
                   IF target = "Cancelled" THEN "CancelRequested" ELSE @]
      moved  == [s EXCEPT !.records = [@ EXCEPT ![id] = record],
                          !.tokens = tokens]
  IN  IF target \in Terminal THEN RetainTerminal(moved, id) ELSE moved

\* Any running operation may be cancelled.
CanCancel_AnyRunning(s, id) ==
  /\ id \in Live(s)
  /\ ~s.records[id].commit
  /\ StateOf(s, id) \in Active

CanCancel(s, id) ==
  /\ id \in Live(s)
  /\ ~s.records[id].commit
  /\ \/ StateOf(s, id) = "Pending"
     \/ /\ StateOf(s, id) = "Running"
        /\ s.records[id].command \in RunningCancellable

\* The commit point does not look at the state or the token.
CanCommit_Unchecked(s, id) == id \in Live(s)

CanCommit(s, id) ==
  /\ id \in Live(s)
  /\ StateOf(s, id) = "Running"
  /\ TokenOf(s, id) # "CancelRequested"

MarkedCommitted(s, id) ==
  LET record == [s.records[id] EXCEPT !.commit = TRUE]
  IN  [s EXCEPT !.records = [s.records EXCEPT ![id] = record],
                !.tokens = [s.tokens EXCEPT ![<<id, s.records[id].token>>] = "Committed"]]

(***************************************************************************)
(* What a store value has to satisfy                                       *)
(***************************************************************************)
Store ==
  [records : UNION {[live -> Record] : live \in SUBSET Ops},
   order   : Seq(Ops),
   tokens  : [Ops \X Incarnations -> TokenState],
   made    : [Ops -> 0 .. MaxIncarnations]]

\* The order lists exactly the terminal records, each once.
Orderly(s) ==
  /\ Retained(s) = {id \in Live(s) : StateOf(s, id) \in Terminal}
  /\ \A i, j \in DOMAIN s.order : s.order[i] = s.order[j] => i = j

Bounded(s) ==
  /\ Cardinality(Live(s)) <= TotalCapacity
  /\ Len(s.order) <= TerminalCapacity

\* Record and token tell the same story.
TokensAgree(s) ==
  \A id \in Live(s) :
    /\ TokenOf(s, id) = "CancelRequested" <=> StateOf(s, id) = "Cancelled"
    /\ TokenOf(s, id) = "Committed" <=> s.records[id].commit

\* A record uses the newest token of its id, and the unused ones are fresh.
TokensFresh(s) ==
  /\ \A id \in Live(s) : s.records[id].token = s.made[id]
  /\ \A id \in Ops, n \in Incarnations : n > s.made[id] => s.tokens[<<id, n>>] = "Active"

GoodStore(s) ==
  /\ s \in Store
  /\ Orderly(s)
  /\ Bounded(s)
  /\ TokensAgree(s)
  /\ TokensFresh(s)
=============================================================================
