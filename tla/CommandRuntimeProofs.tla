------------------------ MODULE CommandRuntimeProofs ------------------------
(***************************************************************************)
(* The command path of the daemon implements Admission, executes no start  *)
(* twice and denies no effect of an uncancellable command, for every set   *)
(* of operations and owners and every capacity of the mailboxes.           *)
(***************************************************************************)
EXTENDS CommandRuntime, AdmissionProofs

(***************************************************************************)
(* Sequences                                                               *)
(***************************************************************************)
LEMMA TailFacts ==
  ASSUME NEW S, NEW q \in Seq(S), q # << >>
  PROVE  /\ Len(q) \in Nat \ {0} /\ DOMAIN q = 1 .. Len(q)
         /\ Head(q) = q[1] /\ Head(q) \in S
         /\ Tail(q) \in Seq(S) /\ Len(Tail(q)) = Len(q) - 1
         /\ DOMAIN Tail(q) = 1 .. (Len(q) - 1)
         /\ \A i \in 1 .. (Len(q) - 1) : i + 1 \in DOMAIN q /\ Tail(q)[i] = q[i + 1]
<1>1. Len(q) \in Nat \ {0} /\ DOMAIN q = 1 .. Len(q)
  BY LenProperties, EmptySeq
<1> QED
  BY <1>1

LEMMA AppendFacts ==
  ASSUME NEW S, NEW q \in Seq(S), NEW e \in S
  PROVE  /\ Len(q) \in Nat /\ DOMAIN q = 1 .. Len(q)
         /\ Append(q, e) \in Seq(S) /\ Len(Append(q, e)) = Len(q) + 1
         /\ DOMAIN Append(q, e) = 1 .. (Len(q) + 1)
         /\ \A i \in DOMAIN q : Append(q, e)[i] = q[i]
         /\ Append(q, e)[Len(q) + 1] = e
BY AppendProperties, LenProperties

(***************************************************************************)
(* What a step of the runtime is to Admission                              *)
(***************************************************************************)

\* Every step of the runtime is a step of Admission or leaves it alone.
LEMMA StepsOfAdmission ==
  ASSUME AdmissionInv, RuntimeTypeOK, [RuntimeNext]_runtimeVars
  PROVE  [AdmissionNext]_admissionVars
<1>1. CASE \E id \in Ops, command \in Commands : ClientSubmit(id, command)
  BY <1>1, Zenon DEF ClientSubmit, AdmissionNext
<1>2. CASE \E id \in Ops : ClientCancel(id)
  BY <1>2 DEF ClientCancel, AdmissionNext
<1>3. CASE ReportApplied
  <2>1. /\ results # << >> /\ results \in Seq(Report)
        /\ Head(results).kind # "Observed"
        /\ Head(results).id \in Live(store)
        /\ Finish(Head(results).id, Head(results).kind)
    BY <1>3 DEF ReportApplied, TakeResult, RuntimeTypeOK
  <2>2. Head(results) \in Report
    BY <2>1, TailFacts
  <2>3. Head(results).kind \in {"Completed", "Failed"} /\ Head(results).id \in Ops
    BY <2>1, <2>2, StoreParts, Zenon DEF Report, AdmissionInv, GoodStore
  <2> QED
    BY <2>1, <2>3, Zenon DEF AdmissionNext
<1>4. CASE \/ ResultIdle \/ ApplyObserved \/ ReportUnknown \/ ReportSuppressed \/ ReportRefused
           \/ DispatchIdle
  BY <1>4, Zenon DEF ResultIdle, ApplyObserved, ReportUnknown, ReportSuppressed, ReportRefused, DispatchIdle
<1>5. CASE DispatchConsumed \/ DispatchRouted \/ DispatchRefused \/ DispatchFails
  BY <1>5, Zenon DEF DispatchConsumed, DispatchRouted, DispatchRefused, DispatchFails, AdmissionNext
<1>6. CASE \E o \in Owners : ActorStep(o)
  BY <1>6, Zenon DEF ActorStep, ActorReceive, ActorReport, ActorEnds
<1>7. CASE Observe \/ Reconcile
  BY <1>7, Zenon DEF Observe, Reconcile
<1>8. CASE UNCHANGED runtimeVars
  BY <1>8, Zenon DEF runtimeVars, admissionVars
<1> QED
  BY <1>1, <1>2, <1>3, <1>4, <1>5, <1>6, <1>7, <1>8, Zenon DEF RuntimeNext, DispatcherStep

\* A record that reads Cancelled after a step of Admission read so before, or
\* its operation could be cancelled.
CancelsOnly(s, t) ==
  \A x \in Live(t) : StateOf(t, x) = "Cancelled" =>
    /\ x \in Live(s)
    /\ t.records[x].token = s.records[x].token
    /\ t.records[x].command = s.records[x].command
    /\ StateOf(s, x) = "Cancelled" \/ CanCancel(s, x)

LEMMA MoveCancels ==
  ASSUME NEW s \in Store, NEW t, NEW id, NEW target, NEW now, Moves(s, t, id, target, now),
         target = "Cancelled" => CanCancel(s, id)
  PROVE  CancelsOnly(s, t)
<1>1. s.records[id] \in Record
  BY StoreParts DEF Moves
<1>2. /\ t.records[id].state = target
      /\ t.records[id].token = s.records[id].token
      /\ t.records[id].command = s.records[id].command
  BY <1>1 DEF Moves, Record
<1> QED
  BY <1>2, Zenon DEF Moves, StateOf, CancelsOnly

LEMMA TrimCancels ==
  ASSUME NEW s, NEW t, Trims(s, t)
  PROVE  CancelsOnly(s, t)
BY Zenon DEF Trims, CancelsOnly, StateOf

LEMMA AdmissionCancels ==
  ASSUME AdmissionInv, [AdmissionNext]_admissionVars
  PROVE  CancelsOnly(store, store')
<1>0. GoodStore(store) /\ store \in Store
  BY DEF AdmissionInv, GoodStore
<1>1. CASE UNCHANGED store
  BY <1>1, Zenon DEF CancelsOnly, StateOf
<1>2. ASSUME NEW id \in Ops, NEW command \in Commands, Submit(id, command)
      PROVE  CancelsOnly(store, store')
  <2>1. CASE SubmitKnown(id, command)
    BY <1>1, <2>1, Zenon DEF SubmitKnown, admissionVars
  <2>2. CASE SubmitExhausted(id, command)
    BY <1>0, <2>2, MakeRoomIsGood, TrimCancels, Zenon DEF SubmitExhausted
  <2>3. CASE SubmitQueueFull(id, command)
    BY <1>0, <2>3, QueueFullStep, TrimCancels, Zenon DEF SubmitQueueFull
  <2>4. CASE SubmitAdmitted(id, command)
    <3>1. Admits(store, store', id)
      BY <1>0, <2>4, InsertIsGood, Zenon DEF SubmitAdmitted
    <3> QED
      BY <3>1, Zenon DEF Admits, CancelsOnly, StateOf
  <2> QED
    BY <1>2, <2>1, <2>2, <2>3, <2>4, Zenon DEF Submit
<1>3. ASSUME NEW id, NEW target \in Active \cup Terminal, NEW now \in Clock,
             CanTransition(store, id, target, now),
             store' = Transitioned(store, id, target, now),
             target = "Cancelled" => CanCancel(store, id)
      PROVE  CancelsOnly(store, store')
  BY <1>0, <1>3, TransitionStep, MoveCancels, Zenon
<1>4. CASE \E id \in Ops : Cancel(id)
  BY <1>3, <1>4, Zenon DEF Cancel, Terminal
<1>5. CASE \E id \in Ops : CancelRefused(id)
  BY <1>1, <1>5, Zenon DEF CancelRefused, admissionVars
<1>6. CASE \E id \in Ops : MarkCommitted(id)
  <2>1. PICK id \in Ops : MarkCommitted(id)
    BY <1>6, Zenon
  <2>2. Commits(store, store', id) /\ id \in Live(store)
    BY <1>0, <2>1, CommitIsGood, Zenon DEF MarkCommitted, CanCommit
  <2>3. store.records[id] \in Record
    BY <1>0, <2>2, StoreParts, Zenon
  <2>4. /\ store'.records[id].state = store.records[id].state
        /\ store'.records[id].token = store.records[id].token
        /\ store'.records[id].command = store.records[id].command
    BY <2>2, <2>3, Zenon DEF Commits, Record
  <2> QED
    BY <2>2, <2>4, Zenon DEF Commits, CancelsOnly, StateOf
<1>7. CASE \E id \in Ops, target \in {"Completed", "Failed"} : Finish(id, target)
  BY <1>3, <1>7, Zenon DEF Finish, Terminal
<1>8. CASE DispatchCancelled \/ DispatchFatal
  BY <1>1, <1>8, Zenon DEF DispatchCancelled, DispatchFatal
<1>9. CASE Dispatched \/ RejectFatal
  BY <1>3, <1>9, Zenon DEF Dispatched, RejectFatal, CanStart, Active
<1>10. CASE DispatchRejected
  BY <1>0, <1>10, RejectStep, MoveCancels DEF DispatchRejected, CanStart
<1>11. CASE UNCHANGED admissionVars
  BY <1>1, <1>11, Zenon DEF admissionVars
<1> QED
  BY <1>2, <1>4, <1>5, <1>6, <1>7, <1>8, <1>9, <1>10, <1>11, Zenon DEF AdmissionNext

\* A started token stays started: no record returns to Pending and no new
\* record carries an old token.
LEMMA StartedKept ==
  ASSUME NEW s, GoodStore(s), NEW t, GoodStore(t), StoreStep(s, t), NEW k, Started(s, k)
  PROVE  Started(t, k)
<1> SUFFICES ASSUME k[1] \in Ops
             PROVE  /\ k[2] \in 1 .. t.made[k[1]]
                    /\ k[1] \in Live(t) /\ t.records[k[1]].token = k[2]
                         => StateOf(t, k[1]) # "Pending"
  BY Zenon DEF Started
<1> DEFINE id == k[1]
           n == k[2]
<1>0. /\ id \in Ops /\ s \in Store /\ t \in Store /\ TokensFresh(t)
      /\ s.made[id] \in Nat /\ n \in 1 .. s.made[id]
      /\ id \in Live(s) /\ s.records[id].token = n => StateOf(s, id) # "Pending"
  BY StoreParts DEF GoodStore, Started
<1> HIDE DEF id, n
<1>1. SUFFICES /\ n \in 1 .. t.made[id]
               /\ id \in Live(t) /\ t.records[id].token = n => StateOf(t, id) # "Pending"
  BY Zenon DEF id, n
<1>2. CASE Trims(s, t)
  BY <1>0, <1>2, Zenon DEF Trims, StateOf
<1>3. ASSUME NEW x \in Ops, Admits(s, t, x)
      PROVE  /\ n \in 1 .. t.made[id]
             /\ id \in Live(t) /\ t.records[id].token = n => StateOf(t, id) # "Pending"
  <2>1. s.made \in [Ops -> 0 .. MaxIncarnations] /\ t.made = [s.made EXCEPT ![x] = s.made[x] + 1]
    BY <1>0, <1>3, StoreParts, Zenon DEF Admits
  <2>2. CASE id = x
    <3>1. t.made[id] = s.made[id] + 1 /\ t.records[id].token = t.made[id]
      BY <1>0, <1>3, <2>1, <2>2, Zenon DEF Admits, TokensFresh
    <3> QED
      BY <1>0, <3>1
  <2>3. CASE id # x
    <3>1. t.made[id] = s.made[id] /\ (id \in Live(t) => id \in Live(s) /\ t.records[id] = s.records[id])
      BY <1>0, <1>3, <2>1, <2>3, Zenon DEF Admits
    <3> QED
      BY <1>0, <3>1, Zenon DEF StateOf
  <2> QED
    BY <2>2, <2>3, Zenon
<1>4. ASSUME NEW x \in Ops, Commits(s, t, x)
      PROVE  /\ n \in 1 .. t.made[id]
             /\ id \in Live(t) /\ t.records[id].token = n => StateOf(t, id) # "Pending"
  <2>1. s.records[x] \in Record
    BY <1>0, <1>4, StoreParts DEF Commits
  <2>2. t.records[x].state = s.records[x].state /\ t.records[x].token = s.records[x].token
    BY <1>4, <2>1, Zenon DEF Commits, Record
  <2> QED
    BY <1>0, <1>4, <2>2, Zenon DEF Commits, StateOf
<1>5. ASSUME NEW x \in Ops, NEW target \in Active \cup Terminal, NEW now \in Clock,
             MayMove(s, x, target, now), Moves(s, t, x, target, now)
      PROVE  /\ n \in 1 .. t.made[id]
             /\ id \in Live(t) /\ t.records[id].token = n => StateOf(t, id) # "Pending"
  <2>1. s.records[x] \in Record
    BY <1>0, <1>5, StoreParts DEF Moves
  <2>2. t.records[x].state = target /\ t.records[x].token = s.records[x].token
    BY <1>5, <2>1, Zenon DEF Moves, Record
  <2>3. target # "Pending"
    BY <1>5, Zenon DEF MayMove, LegalTransition
  <2> QED
    BY <1>0, <1>5, <2>2, <2>3, Zenon DEF Moves, StateOf
<1> QED
  BY <1>2, <1>3, <1>4, <1>5, Zenon DEF StoreStep

(***************************************************************************)
(* The invariant, step by step                                             *)
(***************************************************************************)

\* What every step does to the store, whatever else it does.
StoreKept ==
  /\ GoodStore(store) /\ GoodStore(store')
  /\ StoreStep(store, store')
  /\ CancelsOnly(store, store')

LEMMA StepKeepsStore ==
  ASSUME AdmissionInv, RuntimeInv, [RuntimeNext]_runtimeVars
  PROVE  AdmissionInv' /\ StoreKept
<1>1. [AdmissionNext]_admissionVars
  BY StepsOfAdmission, Zenon DEF RuntimeInv
<1>2. Kept /\ CancelsOnly(store, store')
  BY <1>1, NextKept, AdmissionCancels, Zenon
<1> QED
  BY <1>2, Zenon DEF Kept, StoreKept, AdmissionInv

\* While nobody begins anything, a Cancelled status stays truthful: only a
\* Pending operation, or one whose owner supports it, becomes Cancelled.
LEMMA CancelledStaysTrue ==
  ASSUME RuntimeInv, StoreKept, UNCHANGED ran
  PROVE  CancelledMeansNotRun'
<1> SUFFICES ASSUME NEW x \in Live(store'), StateOf(store', x) = "Cancelled",
                    <<x, store'.records[x].token>> \in ran
             PROVE  store'.records[x].command \in RunningCancellable
  BY Zenon DEF CancelledMeansNotRun
<1>1. /\ x \in Live(store)
      /\ store'.records[x].token = store.records[x].token
      /\ store'.records[x].command = store.records[x].command
      /\ StateOf(store, x) = "Cancelled" \/ CanCancel(store, x)
  BY Zenon DEF StoreKept, CancelsOnly
<1>2. x \in Ops
  BY <1>1, StoreParts, Zenon DEF StoreKept, GoodStore
<1>3. StateOf(store, x) # "Pending"
  <2>1. Started(store, <<x, store.records[x].token>>)
    BY <1>1, Zenon DEF RuntimeInv, WorkIsTraced
  <2> QED
    BY <1>1, <1>2, <2>1, Zenon DEF Started
<1> QED
  BY <1>1, <1>3, Zenon DEF CanCancel, RuntimeInv, CancelledMeansNotRun

\* A step that leaves the owners alone and at most takes a result.
LEMMA QuietStep ==
  ASSUME RuntimeInv, StoreKept, UNCHANGED <<mailbox, alive, inHand, ran>>,
         \/ results' = results
         \/ results # << >> /\ results' = Tail(results),
         turn' \in {"result", "dispatch"}, shown' \subseteq ran
  PROVE  RuntimeInv'
<1>1. /\ results' \in Seq(Report) /\ Len(results') <= ResultCapacity
      /\ \A i \in DOMAIN results' : results'[i].kind # "Observed" => TokenIn(results'[i]) \in ran
  <2>0. /\ results \in Seq(Report) /\ Len(results) <= ResultCapacity
        /\ \A i \in DOMAIN results : results[i].kind # "Observed" => TokenIn(results[i]) \in ran
    BY Zenon DEF RuntimeInv, RuntimeTypeOK, WorkIsTraced
  <2>1. CASE results' = results
    BY <2>0, <2>1, Zenon
  <2>2. CASE results # << >> /\ results' = Tail(results)
    BY <2>0, <2>2, TailFacts, RuntimeAssumption
  <2> QED
    BY <2>1, <2>2, Zenon
<1>2. RuntimeTypeOK'
  BY <1>1, Zenon DEF RuntimeInv, RuntimeTypeOK
<1>3. WorkIsTraced'
  <2>1. \A k : Started(store, k) => Started(store', k)
    BY StartedKept, Zenon DEF StoreKept
  <2> QED
    BY <1>1, <2>1 DEF RuntimeInv, WorkIsTraced
<1> QED
  BY <1>2, <1>3, CancelledStaysTrue, Zenon DEF RuntimeInv

LEMMA QuietKept ==
  ASSUME RuntimeInv, StoreKept,
         \/ \E id \in Ops, command \in Commands : ClientSubmit(id, command)
         \/ \E id \in Ops : ClientCancel(id)
         \/ ResultIdle \/ ApplyObserved \/ ReportUnknown \/ ReportSuppressed
         \/ DispatchIdle \/ DispatchConsumed \/ DispatchRefused \/ DispatchFails
         \/ UNCHANGED runtimeVars
  PROVE  RuntimeInv'
<1>0. turn \in {"result", "dispatch"} /\ shown \subseteq ran
  BY Zenon DEF RuntimeInv, RuntimeTypeOK
<1>1. CASE \/ \E id \in Ops, command \in Commands : ClientSubmit(id, command)
           \/ \E id \in Ops : ClientCancel(id)
           \/ UNCHANGED runtimeVars
  BY <1>0, <1>1, QuietStep, Zenon DEF ClientSubmit, ClientCancel, ownerVars, runtimeVars
<1>2. CASE ResultIdle \/ ApplyObserved \/ ReportUnknown \/ ReportSuppressed
  BY <1>0, <1>2, QuietStep, Zenon
     DEF ResultIdle, ApplyObserved, ReportUnknown, ReportSuppressed, TakeResult, ownerVars
<1>3. CASE DispatchIdle \/ DispatchConsumed \/ DispatchRefused \/ DispatchFails
  BY <1>0, <1>3, QuietStep, Zenon
     DEF DispatchIdle, DispatchConsumed, DispatchRefused, DispatchFails, DispatchTurn, ownerVars
<1> QED
  BY <1>1, <1>2, <1>3, Zenon

\* A report whose deltas are published is one an owner worked for.
LEMMA ReportKept ==
  ASSUME RuntimeInv, StoreKept, ReportApplied \/ ReportRefused
  PROVE  RuntimeInv'
<1>1. /\ results # << >> /\ results' = Tail(results) /\ turn' = "dispatch"
      /\ Head(results).kind # "Observed"
      /\ shown' = shown \cup {TokenIn(Head(results))}
      /\ UNCHANGED <<mailbox, alive, inHand, ran>>
  BY Zenon DEF ReportApplied, ReportRefused, TakeResult, ownerVars
<1>2. 1 \in DOMAIN results /\ Head(results) = results[1]
  BY <1>1, TailFacts DEF RuntimeInv, RuntimeTypeOK
<1>3. shown' \subseteq ran
  BY <1>1, <1>2, Zenon DEF RuntimeInv, RuntimeTypeOK, WorkIsTraced
<1> QED
  BY <1>1, <1>3, QuietStep, Zenon

\* A mailbox grows by a command that is not a client's, or whose token has just
\* been started and is nowhere else.
LEMMA MailboxGrows ==
  ASSUME RuntimeInv, StoreKept, NEW o \in Owners, NEW m \in Routed, Accepts(o),
         mailbox' = [mailbox EXCEPT ![o] = Append(@, m)],
         UNCHANGED <<alive, inHand, results, ran, shown>>, turn' \in {"result", "dispatch"},
         m.id \in Ops => ~Started(store, TokenIn(m)) /\ Started(store', TokenIn(m))
  PROVE  RuntimeInv'
<1> DEFINE q == mailbox[o]
           last == Len(q) + 1
<1>0. /\ mailbox \in [Owners -> Seq(Routed)] /\ q \in Seq(Routed)
      /\ \A p \in Owners : Len(mailbox[p]) <= MailboxCapacity
      /\ Len(q) < MailboxCapacity
  BY Zenon DEF RuntimeInv, RuntimeTypeOK, Accepts
<1>1. /\ Len(q) \in Nat /\ DOMAIN q = 1 .. Len(q)
      /\ Append(q, m) \in Seq(Routed) /\ Len(Append(q, m)) = last
      /\ DOMAIN Append(q, m) = 1 .. last
      /\ \A i \in DOMAIN q : Append(q, m)[i] = q[i]
      /\ Append(q, m)[last] = m
  BY <1>0, AppendFacts, SMTT(40)
<1>2. mailbox'[o] = Append(q, m) /\ \A p \in Owners \ {o} : mailbox'[p] = mailbox[p]
  BY <1>0, Zenon
<1>3. RuntimeTypeOK'
  <2>1. mailbox' \in [Owners -> Seq(Routed)]
    BY <1>0, <1>1, Zenon
  <2>2. \A p \in Owners : Len(mailbox'[p]) <= MailboxCapacity
    BY <1>0, <1>1, <1>2, RuntimeAssumption, SMTT(40)
  <2> QED
    BY <2>1, <2>2, Zenon DEF RuntimeInv, RuntimeTypeOK
\* Every place of the new mailboxes is an old one, or the new last place of o.
<1>4. ASSUME NEW p \in Owners, NEW i \in DOMAIN mailbox'[p]
      PROVE  \/ i \in DOMAIN mailbox[p] /\ mailbox'[p][i] = mailbox[p][i]
             \/ p = o /\ i = last /\ mailbox'[p][i] = m
  <2>1. CASE p # o
    BY <1>2, <1>4, <2>1, Zenon
  <2>2. CASE p = o
    BY <1>1, <1>2, <1>4, <2>2
  <2> QED
    BY <2>1, <2>2, Zenon
<1>5. \A k : Started(store, k) => Started(store', k)
  BY StartedKept, Zenon DEF StoreKept
<1> HIDE DEF q, last
<1>6. WorkIsTraced'
  <2>1. ASSUME NEW p \in Owners, NEW i \in DOMAIN mailbox'[p], mailbox'[p][i].id \in Ops
        PROVE  Started(store', TokenIn(mailbox'[p][i])) /\ TokenIn(mailbox'[p][i]) \notin ran'
    BY <1>4, <1>5, <2>1, SMTT(40) DEF RuntimeInv, WorkIsTraced
  <2>2. ASSUME NEW p \in Owners, NEW i \in DOMAIN mailbox[p], m.id \in Ops
        PROVE  TokenIn(mailbox[p][i]) # TokenIn(m)
    <3>1. TokenIn(mailbox[p][i]) = TokenIn(m) => mailbox[p][i].id = m.id
      BY Zenon DEF TokenIn
    <3> QED
      BY <2>2, <3>1, Zenon DEF RuntimeInv, WorkIsTraced
  <2>3. ASSUME NEW p \in Owners, NEW r \in Owners,
               NEW i \in DOMAIN mailbox'[p], NEW j \in DOMAIN mailbox'[r],
               mailbox'[p][i].id \in Ops, TokenIn(mailbox'[p][i]) = TokenIn(mailbox'[r][j])
        PROVE  p = r /\ i = j
    <3>0. mailbox'[r][j].id = mailbox'[p][i].id
      BY <2>3, Zenon DEF TokenIn
    <3>1. CASE /\ i \in DOMAIN mailbox[p] /\ mailbox'[p][i] = mailbox[p][i]
               /\ j \in DOMAIN mailbox[r] /\ mailbox'[r][j] = mailbox[r][j]
      BY <2>3, <3>1, SMTT(40) DEF RuntimeInv, WorkIsTraced
    <3>2. CASE i \in DOMAIN mailbox[p] /\ mailbox'[p][i] = mailbox[p][i] /\ mailbox'[r][j] = m
      BY <2>2, <2>3, <3>0, <3>2, Zenon
    <3>3. CASE mailbox'[p][i] = m /\ j \in DOMAIN mailbox[r] /\ mailbox'[r][j] = mailbox[r][j]
      BY <2>2, <2>3, <3>3, Zenon
    <3> QED
      BY <1>4, <3>1, <3>2, <3>3
  <2>4. /\ \A p \in Owners : \A x \in inHand'[p] : TokenIn(x) \in ran'
        /\ \A i \in DOMAIN results' : results'[i].kind # "Observed" => TokenIn(results'[i]) \in ran'
        /\ \A t \in ran' : Started(store', t)
    BY <1>5, Zenon DEF RuntimeInv, WorkIsTraced
  <2>5. \A p \in Owners : \A i \in DOMAIN mailbox'[p] :
          mailbox'[p][i].id \in Ops =>
            Started(store', TokenIn(mailbox'[p][i])) /\ TokenIn(mailbox'[p][i]) \notin ran'
    BY <2>1, Zenon
  <2>6. \A p, r \in Owners : \A i \in DOMAIN mailbox'[p], j \in DOMAIN mailbox'[r] :
          mailbox'[p][i].id \in Ops /\ TokenIn(mailbox'[p][i]) = TokenIn(mailbox'[r][j]) => p = r /\ i = j
    BY <2>3, SMTT(40)
  <2> QED
    BY <2>4, <2>5, <2>6, Zenon DEF WorkIsTraced
<1> QED
  BY <1>3, <1>6, CancelledStaysTrue, Zenon DEF RuntimeInv

\* The started envelope's token was Pending and is Running.
LEMMA RoutedKept ==
  ASSUME AdmissionInv, RuntimeInv, StoreKept, DispatchRouted
  PROVE  RuntimeInv'
<1> DEFINE id == Head(queue).id
           command == Head(queue).command
           m == [id |-> id, command |-> command, token |-> store.records[id].token]
<1>0. /\ Accepts(OwnerOf[command])
      /\ mailbox' = [mailbox EXCEPT ![OwnerOf[command]] = Append(@, m)]
      /\ UNCHANGED <<alive, inHand, results, ran, shown>> /\ turn' = "result" /\ Dispatched
  BY Zenon DEF DispatchRouted, DispatchTurn
<1>1. PICK now \in Clock : /\ CanTransition(store, id, "Running", now)
                           /\ store' = Transitioned(store, id, "Running", now)
  BY <1>0, Zenon DEF Dispatched, CanStart
<1>2. Moves(store, store', id, "Running", now)
  BY <1>1, TransitionStep, Zenon DEF StoreKept, Active
<1>3. Head(queue) \in Envelope
  BY <1>0, TakeKeepsOthers, Zenon DEF Dispatched, AdmissionInv
<1>4. /\ id \in Live(store) /\ id \in Ops /\ store.records[id] \in Record
      /\ StateOf(store, id) = "Pending" /\ store.records[id].token = store.made[id]
  BY <1>1, StoreParts, Zenon DEF CanTransition, LegalTransition, StoreKept, GoodStore, TokensFresh
<1>5. store.records[id].token \in 1 .. MaxIncarnations /\ MaxIncarnations \in Nat
  BY <1>4, StoreAssumption, Zenon DEF Record, Incarnations
<1>6. m \in Routed /\ OwnerOf[command] \in Owners
  BY <1>3, <1>4, <1>5, RuntimeAssumption, SMTT(40) DEF Routed, Envelope
<1>7. /\ store'.records[id].state = "Running"
      /\ store'.made[id] = store.made[id]
  BY <1>2, <1>4, Zenon DEF Moves, Record
<1>8. ~Started(store, TokenIn(m))
  BY <1>4, Zenon DEF Started, TokenIn
<1>9. Started(store', TokenIn(m))
  <2> DEFINE t == TokenIn(m)
             token == store.records[id].token
  <2>1. t[1] = id /\ t[2] = token
    BY Zenon DEF TokenIn
  <2>2. token \in 1 .. store'.made[id]
    BY <1>4, <1>5, <1>7, SMTT(40)
  <2>3. StateOf(store', id) # "Pending"
    BY <1>7, Zenon DEF StateOf
  <2> HIDE DEF t, token, id
  <2> QED
    BY <2>1, <2>2, <2>3, Zenon DEF Started, t
<1> HIDE DEF m
<1> QED
  BY <1>0, <1>6, <1>8, <1>9, MailboxGrows, Zenon

\* A reload of the reconciler carries a token of its own.
LEMMA ReconcileKept ==
  ASSUME RuntimeInv, StoreKept, Reconcile
  PROVE  RuntimeInv'
<1>1. Reload \in Routed /\ Reload.id \notin Ops /\ OwnerOf[ReloadCommand] \in Owners
  BY RuntimeAssumption, StoreAssumption DEF Reload, Routed
<1>2. turn \in {"result", "dispatch"}
  BY Zenon DEF RuntimeInv, RuntimeTypeOK
<1> QED
  BY <1>1, <1>2, MailboxGrows, Zenon DEF Reconcile

\* The front of a mailbox is taken: it is in no other place, and nobody has
\* begun it.
LEMMA ReceiveKept ==
  ASSUME RuntimeInv, StoreKept, NEW o \in Owners, ActorReceive(o)
  PROVE  /\ RuntimeInv'
         /\ \A p \in Owners : \A k \in inHand'[p] \ inHand[p] :
              k.id \in Ops => TokenIn(k) \notin ran
<1> DEFINE q == mailbox[o]
           m == Head(q)
<1>0. /\ inHand[o] = {} /\ q # << >>
      /\ mailbox' = [mailbox EXCEPT ![o] = Tail(@)]
      /\ \/ CancelRequested(m) /\ UNCHANGED <<inHand, ran>>
         \/ /\ ~CancelRequested(m)
            /\ inHand' = [inHand EXCEPT ![o] = {m}]
            /\ ran' = ran \cup {TokenIn(m)}
      /\ UNCHANGED <<store, alive, results, turn, shown>>
  BY Zenon DEF ActorReceive, admissionVars
<1>1. /\ mailbox \in [Owners -> Seq(Routed)] /\ q \in Seq(Routed)
      /\ inHand \in [Owners -> SUBSET Routed]
      /\ Len(q) <= MailboxCapacity
  BY Zenon DEF RuntimeInv, RuntimeTypeOK
<1>2. /\ Len(q) \in Nat \ {0} /\ DOMAIN q = 1 .. Len(q)
      /\ m = q[1] /\ m \in Routed /\ 1 \in DOMAIN q
      /\ Tail(q) \in Seq(Routed) /\ Len(Tail(q)) = Len(q) - 1
      /\ DOMAIN Tail(q) = 1 .. (Len(q) - 1)
      /\ \A i \in 1 .. (Len(q) - 1) : i + 1 \in DOMAIN q /\ Tail(q)[i] = q[i + 1]
  BY <1>0, <1>1, TailFacts
<1>3. mailbox'[o] = Tail(q) /\ \A p \in Owners \ {o} : mailbox'[p] = mailbox[p]
  BY <1>0, <1>1, Zenon
<1>4. TokenIn(m) \in (Ops \cup {AutoReload}) \X (0 .. MaxIncarnations)
  BY <1>2, Zenon DEF TokenIn, Routed
<1>waits. \A p \in Owners : \A h \in DOMAIN mailbox[p] :
            mailbox[p][h].id \in Ops =>
              Started(store, TokenIn(mailbox[p][h])) /\ TokenIn(mailbox[p][h]) \notin ran
  BY Zenon DEF RuntimeInv, WorkIsTraced
<1>unique. \A p, r \in Owners : \A h \in DOMAIN mailbox[p], l \in DOMAIN mailbox[r] :
             mailbox[p][h].id \in Ops /\ TokenIn(mailbox[p][h]) = TokenIn(mailbox[r][l]) => p = r /\ h = l
  BY Zenon DEF RuntimeInv, WorkIsTraced
<1>5. m.id \in Ops => Started(store, TokenIn(m)) /\ TokenIn(m) \notin ran
  BY <1>2, <1>waits, Zenon
<1>6. RuntimeTypeOK'
  <2>1. mailbox' \in [Owners -> Seq(Routed)] /\ inHand' \in [Owners -> SUBSET Routed]
    BY <1>0, <1>1, <1>2
  <2>2. \A p \in Owners : Len(mailbox'[p]) <= MailboxCapacity
    BY <1>1, <1>2, <1>3, RuntimeAssumption, SMTT(40) DEF RuntimeInv, RuntimeTypeOK
  <2>3. \A p \in Owners : Cardinality(inHand'[p]) <= 1
    <3>1. Cardinality({m}) = 1
      BY FS_Singleton, Zenon
    <3>2. \A p \in Owners : inHand'[p] = inHand[p] \/ inHand'[p] = {m}
      BY <1>0, <1>1, Zenon
    <3>3. \A p \in Owners : Cardinality(inHand[p]) <= 1
      BY Zenon DEF RuntimeInv, RuntimeTypeOK
    <3>4. Cardinality({m}) <= 1
      BY <3>1
    <3> QED
      BY <3>2, <3>3, <3>4, Zenon
  <2>4. ran' \subseteq (Ops \cup {AutoReload}) \X (0 .. MaxIncarnations) /\ shown' \subseteq ran'
    BY <1>0, <1>4, Zenon DEF RuntimeInv, RuntimeTypeOK
  <2> QED
    BY <1>0, <2>1, <2>2, <2>3, <2>4, Zenon DEF RuntimeInv, RuntimeTypeOK
\* Every place of the new mailboxes is an old place other than the front of q.
<1>7. ASSUME NEW p \in Owners, NEW i \in DOMAIN mailbox'[p]
      PROVE  \E h \in DOMAIN mailbox[p] :
               /\ mailbox'[p][i] = mailbox[p][h]
               /\ p = o => h = i + 1 /\ h # 1
               /\ p # o => h = i
  <2>1. CASE p # o
    BY <1>3, <1>7, <2>1, Zenon
  <2>2. CASE p = o
    <3>1. i \in 1 .. (Len(q) - 1) /\ mailbox'[p][i] = Tail(q)[i]
      BY <1>2, <1>3, <1>7, <2>2, Zenon
    <3>2. i + 1 \in DOMAIN mailbox[p] /\ mailbox'[p][i] = mailbox[p][i + 1]
      BY <1>2, <2>2, <3>1, Zenon
    <3>3. i + 1 # 1
      BY <1>2, <3>1
    <3> QED
      BY <2>2, <3>2, <3>3, Zenon
  <2> QED
    BY <2>1, <2>2, Zenon
<1>8. WorkIsTraced'
  <2>1. \A p \in Owners : \A k \in inHand'[p] : TokenIn(k) \in ran'
    <3>1. ASSUME NEW p \in Owners, NEW k \in inHand'[p]
          PROVE  k \in inHand[p] \/ (k = m /\ ran' = ran \cup {TokenIn(m)})
      BY <1>0, <1>1, <3>1, Zenon
    <3>2. ran \subseteq ran'
      BY <1>0, Zenon
    <3> HIDE DEF m
    <3> QED
      BY <3>1, <3>2, Zenon DEF RuntimeInv, WorkIsTraced
  <2>2. \A i \in DOMAIN results' : results'[i].kind # "Observed" => TokenIn(results'[i]) \in ran'
    BY <1>0, Zenon DEF RuntimeInv, WorkIsTraced
  <2>3. \A t \in ran' : Started(store', t)
    <3>1. Started(store, TokenIn(m))
      <4>1. m.id \notin Ops => Started(store, TokenIn(m))
        BY Zenon DEF Started, TokenIn
      <4> QED
        BY <1>5, <4>1, Zenon
    <3> QED
      BY <1>0, <3>1, Zenon DEF RuntimeInv, WorkIsTraced
  <2>4. ASSUME NEW p \in Owners, NEW i \in DOMAIN mailbox'[p], mailbox'[p][i].id \in Ops
        PROVE  Started(store', TokenIn(mailbox'[p][i])) /\ TokenIn(mailbox'[p][i]) \notin ran'
    <3>1. PICK h \in DOMAIN mailbox[p] : /\ mailbox'[p][i] = mailbox[p][h]
                                         /\ p = o => h = i + 1 /\ h # 1
                                         /\ p # o => h = i
      BY <1>7, Zenon
    <3>2. Started(store, TokenIn(mailbox[p][h])) /\ TokenIn(mailbox[p][h]) \notin ran
      BY <1>waits, <2>4, <3>1, Zenon
    <3>3. TokenIn(mailbox[p][h]) # TokenIn(mailbox[o][1])
      <4>1. TokenIn(mailbox[p][h]) = TokenIn(mailbox[o][1]) => p = o /\ h = 1
        BY <1>2, <1>unique, <2>4, <3>1, SMTT(40)
      <4> QED
        BY <3>1, <4>1, Zenon
    <3> QED
      BY <1>0, <1>2, <3>1, <3>2, <3>3, Zenon
  <2>5. ASSUME NEW p \in Owners, NEW r \in Owners,
               NEW i \in DOMAIN mailbox'[p], NEW j \in DOMAIN mailbox'[r],
               mailbox'[p][i].id \in Ops, TokenIn(mailbox'[p][i]) = TokenIn(mailbox'[r][j])
        PROVE  p = r /\ i = j
    <3>1. PICK h \in DOMAIN mailbox[p] : /\ mailbox'[p][i] = mailbox[p][h]
                                         /\ p = o => h = i + 1 /\ h # 1
                                         /\ p # o => h = i
      BY <1>7, Zenon
    <3>2. PICK l \in DOMAIN mailbox[r] : /\ mailbox'[r][j] = mailbox[r][l]
                                         /\ r = o => l = j + 1 /\ l # 1
                                         /\ r # o => l = j
      BY <1>7, Zenon
    <3>3. p = r /\ h = l
      <4>1. mailbox[p][h].id \in Ops /\ TokenIn(mailbox[p][h]) = TokenIn(mailbox[r][l])
        BY <2>5, <3>1, <3>2, Zenon
      <4> QED
        BY <1>unique, <4>1, Zenon
    <3>4. CASE p # o
      BY <3>1, <3>2, <3>3, <3>4, Zenon
    <3>5. CASE p = o
      <4>1. i \in Nat /\ j \in Nat
        <5>1. i \in 1 .. (Len(q) - 1) /\ j \in 1 .. (Len(q) - 1)
          BY <1>2, <1>3, <2>5, <3>3, <3>5, Zenon
        <5> HIDE DEF q
        <5> QED
          BY <5>1
      <4> QED
        BY <3>1, <3>2, <3>3, <3>5, <4>1
    <3> QED
      BY <3>4, <3>5, Zenon
  <2> QED
    BY <2>1, <2>2, <2>3, <2>4, <2>5, Zenon DEF WorkIsTraced
<1>9. CancelledMeansNotRun'
  <2> SUFFICES ASSUME NEW x \in Live(store), StateOf(store, x) = "Cancelled",
                      <<x, store.records[x].token>> \in ran'
               PROVE  store.records[x].command \in RunningCancellable
    BY <1>0, Zenon DEF CancelledMeansNotRun, StateOf, Live
  <2>1. CASE <<x, store.records[x].token>> \in ran
    BY <2>1, Zenon DEF RuntimeInv, CancelledMeansNotRun
  <2>2. CASE <<x, store.records[x].token>> = TokenIn(m) /\ ~CancelRequested(m)
    <3>1. x \in Ops
      BY StoreParts, Zenon DEF StoreKept, GoodStore
    <3>2. store.tokens[<<x, store.records[x].token>>] = "CancelRequested"
      BY Zenon DEF StoreKept, GoodStore, TokensAgree, TokenOf
    <3>3. m.id = x
      BY <2>2, Zenon DEF TokenIn
    <3> QED
      BY <2>2, <3>1, <3>2, <3>3, Zenon DEF CancelRequested
  <2> QED
    BY <1>0, <2>1, <2>2, Zenon
<1>10. \A p \in Owners : \A k \in inHand'[p] \ inHand[p] : k.id \in Ops => TokenIn(k) \notin ran
  <2>1. ASSUME NEW p \in Owners, NEW k \in inHand'[p] \ inHand[p]
        PROVE  k = m
    BY <1>0, <1>1, <2>1, Zenon
  <2> QED
    BY <1>5, <2>1, Zenon
<1> QED
  BY <1>6, <1>8, <1>9, <1>10, Zenon DEF RuntimeInv

\* The result mailbox grows by a report of work that was begun, or by an
\* observation.
LEMMA ResultsGrow ==
  ASSUME RuntimeInv, StoreKept, NEW r \in Report, Len(results) < ResultCapacity,
         results' = Append(results, r),
         r.kind # "Observed" => TokenIn(r) \in ran,
         UNCHANGED <<mailbox, alive, turn, ran, shown>>,
         inHand' \in [Owners -> SUBSET Routed],
         \A o \in Owners : inHand'[o] = inHand[o] \/ inHand'[o] = {}
  PROVE  RuntimeInv'
<1>1. /\ results' \in Seq(Report) /\ Len(results') <= ResultCapacity
      /\ DOMAIN results' = 1 .. (Len(results) + 1) /\ DOMAIN results = 1 .. Len(results)
      /\ \A i \in DOMAIN results : results'[i] = results[i]
      /\ results'[Len(results) + 1] = r /\ Len(results) \in Nat
  <2>1. results \in Seq(Report)
    BY Zenon DEF RuntimeInv, RuntimeTypeOK
  <2> QED
    BY <2>1, AppendFacts, RuntimeAssumption
<1>2. \A o \in Owners : Cardinality(inHand'[o]) <= 1
  <2>1. Cardinality({}) <= 1
    BY FS_EmptySet
  <2>2. \A o \in Owners : Cardinality(inHand[o]) <= 1
    BY Zenon DEF RuntimeInv, RuntimeTypeOK
  <2> QED
    BY <2>1, <2>2, Zenon
<1>3. RuntimeTypeOK'
  BY <1>1, <1>2, Zenon DEF RuntimeInv, RuntimeTypeOK
<1>4. \A i \in DOMAIN results' : results'[i].kind # "Observed" => TokenIn(results'[i]) \in ran'
  <2>1. ASSUME NEW i \in DOMAIN results'
        PROVE  i \in DOMAIN results \/ results'[i] = r
    BY <1>1
  <2> QED
    BY <1>1, <2>1, Zenon DEF RuntimeInv, WorkIsTraced
<1>5. \A k : Started(store, k) => Started(store', k)
  BY StartedKept, Zenon DEF StoreKept
<1>6. WorkIsTraced'
  <2>1. \A o \in Owners : \A m \in inHand'[o] : TokenIn(m) \in ran'
    BY Zenon DEF RuntimeInv, WorkIsTraced
  <2> QED
    BY <1>4, <1>5, <2>1, SMTT(40) DEF RuntimeInv, WorkIsTraced
<1> QED
  BY <1>3, <1>6, CancelledStaysTrue, Zenon DEF RuntimeInv

LEMMA ReportsKept ==
  ASSUME RuntimeInv, StoreKept,
         \/ Observe
         \/ \E o \in Owners, kind \in {"Completed", "Failed"} : ActorReport(o, kind)
  PROVE  RuntimeInv'
<1>0. inHand \in [Owners -> SUBSET Routed]
  BY Zenon DEF RuntimeInv, RuntimeTypeOK
<1>1. CASE Observe
  <2>1. Observed \in Report /\ Observed.kind = "Observed"
    BY StoreAssumption DEF Observed, Report
  <2> HIDE DEF Observed
  <2> QED
    BY <1>0, <1>1, <2>1, ResultsGrow, Zenon DEF Observe, ownerVars
<1>2. CASE \E o \in Owners, kind \in {"Completed", "Failed"} : ActorReport(o, kind)
  <2>1. PICK o \in Owners, kind \in {"Completed", "Failed"} : ActorReport(o, kind)
    BY <1>2, Zenon
  <2>2. PICK m \in inHand[o] :
          results' = Append(results, [kind |-> kind, id |-> m.id, token |-> m.token])
    BY <2>1, Zenon DEF ActorReport
  <2> DEFINE r == [kind |-> kind, id |-> m.id, token |-> m.token]
  <2>3. m \in Routed
    BY <1>0, Zenon
  <2>4. r \in Report
    BY <2>3, Zenon DEF Routed, Report
  <2>5. TokenIn(r) \in ran
    <3>1. TokenIn(r) = TokenIn(m)
      BY Zenon DEF TokenIn
    <3> QED
      BY <3>1, Zenon DEF RuntimeInv, WorkIsTraced
  <2>6. /\ inHand' = [inHand EXCEPT ![o] = {}] /\ Len(results) < ResultCapacity
        /\ UNCHANGED <<mailbox, alive, turn, ran, shown>>
    BY <2>1, Zenon DEF ActorReport
  <2>7. /\ inHand' \in [Owners -> SUBSET Routed]
        /\ \A p \in Owners : inHand'[p] = inHand[p] \/ inHand'[p] = {}
    BY <1>0, <2>6, Zenon
  <2> HIDE DEF r
  <2> QED
    BY <2>2, <2>4, <2>5, <2>6, <2>7, ResultsGrow, Zenon DEF r
<1> QED
  BY <1>1, <1>2, Zenon

\* An actor that ends drops its work and loses none of the facts.
LEMMA EndKept ==
  ASSUME RuntimeInv, StoreKept, NEW o \in Owners, ActorEnds(o)
  PROVE  RuntimeInv'
<1>0. /\ mailbox \in [Owners -> Seq(Routed)] /\ inHand \in [Owners -> SUBSET Routed]
      /\ alive' = alive \ {o}
      /\ inHand' = [inHand EXCEPT ![o] = {}]
      /\ mailbox' = [mailbox EXCEPT ![o] = << >>]
      /\ UNCHANGED <<results, turn, ran, shown>>
  BY Zenon DEF ActorEnds, RuntimeInv, RuntimeTypeOK
<1>1. /\ inHand' \in [Owners -> SUBSET Routed]
      /\ \A p \in Owners : inHand'[p] = inHand[p] \/ inHand'[p] = {}
  BY <1>0, Zenon
<1>2. /\ mailbox' \in [Owners -> Seq(Routed)]
      /\ \A p \in Owners : mailbox'[p] = mailbox[p] \/ mailbox'[p] = << >>
  BY <1>0
<1>3. RuntimeTypeOK'
  <2>1. Cardinality({}) <= 1 /\ Len(<< >>) <= MailboxCapacity
    BY FS_EmptySet, RuntimeAssumption
  <2>2. \A p \in Owners : Cardinality(inHand[p]) <= 1 /\ Len(mailbox[p]) <= MailboxCapacity
    BY Zenon DEF RuntimeInv, RuntimeTypeOK
  <2>3. \A p \in Owners : Cardinality(inHand'[p]) <= 1 /\ Len(mailbox'[p]) <= MailboxCapacity
    BY <1>1, <1>2, <2>1, <2>2, Zenon
  <2> QED
    BY <1>0, <1>1, <1>2, <2>3, Zenon DEF RuntimeInv, RuntimeTypeOK
<1>4. \A k : Started(store, k) => Started(store', k)
  BY StartedKept, Zenon DEF StoreKept
<1>5. WorkIsTraced'
  <2>0. WorkIsTraced /\ ran' = ran /\ results' = results
    BY <1>0, Zenon DEF RuntimeInv
  <2>1. \A p \in Owners : \A m \in inHand'[p] : TokenIn(m) \in ran'
    BY <1>1, <2>0, Zenon DEF WorkIsTraced
  <2>2. \A p \in Owners : \A i \in DOMAIN mailbox'[p] :
          i \in DOMAIN mailbox[p] /\ mailbox'[p][i] = mailbox[p][i]
    <3>1. DOMAIN << >> = {}
      OBVIOUS
    <3> QED
      BY <1>2, <3>1, Zenon
  <2>3. \A t \in ran' : Started(store', t)
    BY <1>4, <2>0, Zenon DEF WorkIsTraced
  <2>4. \A p \in Owners : \A i \in DOMAIN mailbox'[p] :
          mailbox'[p][i].id \in Ops =>
            Started(store', TokenIn(mailbox'[p][i])) /\ TokenIn(mailbox'[p][i]) \notin ran'
    BY <1>4, <2>0, <2>2, SMTT(40) DEF WorkIsTraced
  <2>5. \A p, r \in Owners : \A i \in DOMAIN mailbox'[p], j \in DOMAIN mailbox'[r] :
          mailbox'[p][i].id \in Ops /\ TokenIn(mailbox'[p][i]) = TokenIn(mailbox'[r][j]) => p = r /\ i = j
    BY <2>0, <2>2, SMTT(40) DEF WorkIsTraced
  <2> QED
    BY <2>0, <2>1, <2>3, <2>4, <2>5, Zenon DEF WorkIsTraced
<1> QED
  BY <1>0, <1>3, <1>5, CancelledStaysTrue, Zenon DEF RuntimeInv

\* Every step of the runtime, stuttering included.
LEMMA RuntimeStep ==
  ASSUME AdmissionInv, RuntimeInv, [RuntimeNext]_runtimeVars
  PROVE  AdmissionInv' /\ RuntimeInv'
<1>0. AdmissionInv' /\ StoreKept
  BY StepKeepsStore, Zenon
<1>1. CASE \/ \E id \in Ops, command \in Commands : ClientSubmit(id, command)
           \/ \E id \in Ops : ClientCancel(id)
           \/ ResultIdle \/ ApplyObserved \/ ReportUnknown \/ ReportSuppressed
           \/ DispatchIdle \/ DispatchConsumed \/ DispatchRefused \/ DispatchFails
           \/ UNCHANGED runtimeVars
  BY <1>0, <1>1, QuietKept, Zenon
<1>2. CASE ReportApplied \/ ReportRefused
  BY <1>0, <1>2, ReportKept, Zenon
<1>3. CASE DispatchRouted
  BY <1>0, <1>3, RoutedKept, Zenon
<1>4. CASE Reconcile
  BY <1>0, <1>4, ReconcileKept, Zenon
<1>5. CASE \E o \in Owners : ActorStep(o)
  <2>1. PICK o \in Owners : ActorStep(o)
    BY <1>5, Zenon
  <2>2. CASE ActorReceive(o)
    BY <1>0, <2>2, ReceiveKept, Zenon
  <2>3. CASE \E kind \in {"Completed", "Failed"} : ActorReport(o, kind)
    BY <1>0, <2>3, ReportsKept, Zenon
  <2>4. CASE ActorEnds(o)
    BY <1>0, <2>4, EndKept, Zenon
  <2> QED
    BY <2>1, <2>2, <2>3, <2>4, Zenon DEF ActorStep
<1>6. CASE Observe
  BY <1>0, <1>6, ReportsKept, Zenon
<1> QED
  BY <1>1, <1>2, <1>3, <1>4, <1>5, <1>6, Zenon DEF RuntimeNext, DispatcherStep

LEMMA RuntimeStarts == RuntimeInit => AdmissionInv /\ RuntimeInv
<1> SUFFICES ASSUME RuntimeInit PROVE AdmissionInv /\ RuntimeInv
  BY Zenon
<1>1. AdmissionInv
  BY InitInv, Zenon DEF RuntimeInit
<1>2. RuntimeTypeOK
  <2>1. Cardinality({}) <= 1 /\ Len(<< >>) = 0
    BY FS_EmptySet
  <2> QED
    BY <2>1, RuntimeAssumption, SMTT(40) DEF RuntimeInit, RuntimeTypeOK
<1>3. WorkIsTraced
  BY DEF RuntimeInit, WorkIsTraced
<1>4. CancelledMeansNotRun
  BY Zenon DEF RuntimeInit, CancelledMeansNotRun
<1> QED
  BY <1>1, <1>2, <1>3, <1>4, Zenon DEF RuntimeInv

(***************************************************************************)
(* Theorems                                                                *)
(***************************************************************************)

\* Both invariants hold in every reachable state: work belongs to one start,
\* mailboxes keep to their capacities, and a Cancelled status denies no effect.
THEOREM RuntimeInvariant == RuntimeSpec => [](AdmissionInv /\ RuntimeInv)
<1>1. (AdmissionInv /\ RuntimeInv) /\ [RuntimeNext]_runtimeVars => (AdmissionInv /\ RuntimeInv)'
  BY RuntimeStep, Zenon
<1> QED
  BY <1>1, RuntimeStarts, PTL DEF RuntimeSpec

\* An operation that reads Cancelled was never executed, unless its owner
\* supports cancellation while running.
THEOREM CancelledIsTruthful == RuntimeSpec => []CancelledMeansNotRun
<1>1. RuntimeInv => CancelledMeansNotRun
  BY Zenon DEF RuntimeInv
<1> QED
  BY <1>1, RuntimeInvariant, PTL

\* With mailboxes, actors and a two-step dispatcher the daemon still does only
\* what Admission allows, and so inherits every theorem about it.
THEOREM ImplementsAdmission == RuntimeSpec => KeepsAdmission
<1>1. (AdmissionInv /\ RuntimeInv) /\ [RuntimeNext]_runtimeVars => [AdmissionNext]_admissionVars
  BY StepsOfAdmission, Zenon DEF RuntimeInv
<1>2. RuntimeInit => AdmissionInit
  BY Zenon DEF RuntimeInit
<1> QED
  BY <1>1, <1>2, RuntimeInvariant, PTL DEF RuntimeSpec, KeepsAdmission, AdmissionSpec

\* No owner begins a client's command a second time.
THEOREM ExecutesOnce == RuntimeSpec => NoSecondExecution
<1>1. (AdmissionInv /\ RuntimeInv) /\ [RuntimeNext]_runtimeVars =>
        \A o \in Owners : \A m \in inHand'[o] \ inHand[o] : m.id \in Ops => TokenIn(m) \notin ran
  <2> SUFFICES ASSUME AdmissionInv, RuntimeInv, [RuntimeNext]_runtimeVars,
                      NEW o \in Owners, NEW m \in inHand'[o] \ inHand[o], m.id \in Ops
               PROVE  TokenIn(m) \notin ran
    BY Zenon
  <2>0. StoreKept /\ inHand \in [Owners -> SUBSET Routed]
    BY StepKeepsStore, Zenon DEF RuntimeInv, RuntimeTypeOK
  <2>1. CASE \E p \in Owners : ActorReceive(p)
    BY <2>0, <2>1, ReceiveKept, Zenon
  <2>2. CASE UNCHANGED inHand
    BY <2>2, Zenon
  <2>3. CASE \E p \in Owners : inHand' = [inHand EXCEPT ![p] = {}]
    BY <2>0, <2>3, Zenon
  <2>4. \/ \E p \in Owners : ActorReceive(p)
        \/ UNCHANGED inHand
        \/ \E p \in Owners : inHand' = [inHand EXCEPT ![p] = {}]
    BY Zenon DEF RuntimeNext, DispatcherStep, ActorStep, ActorReport, ActorEnds, ClientSubmit, ClientCancel,
           ResultIdle, ApplyObserved, ReportUnknown, ReportSuppressed, ReportApplied, ReportRefused,
           DispatchIdle, DispatchConsumed, DispatchRouted, DispatchRefused, DispatchFails,
           Observe, Reconcile, ownerVars, runtimeVars
  <2> QED
    BY <2>1, <2>2, <2>3, <2>4, Zenon
<1> QED
  BY <1>1, RuntimeInvariant, PTL DEF RuntimeSpec, NoSecondExecution

\* The polling client's view: the daemon with its mailboxes and actors keeps
\* the promise of OperationLifecycle.
THEOREM RuntimeKeepsLifecycle == RuntimeSpec => KeepsLifecycle
BY ImplementsAdmission, ImplementsLifecycle, PTL DEF KeepsAdmission
=============================================================================
