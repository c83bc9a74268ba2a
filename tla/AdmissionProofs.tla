-------------------------- MODULE AdmissionProofs --------------------------
(***************************************************************************)
(* First what the methods of the operation store do to a good store; then  *)
(* that admission keeps the store good, never loses an active operation,   *)
(* never rewrites an outcome or a token, and implements                    *)
(* OperationLifecycle: for every set of operations, every capacity and     *)
(* every clock.                                                            *)
(***************************************************************************)
EXTENDS Admission, FiniteSetTheorems, SequenceTheorems, TLAPS

(***************************************************************************)
(* The store's operators                                                   *)
(***************************************************************************)

\* The parts of a store.
LEMMA StoreParts ==
  ASSUME NEW s \in Store
  PROVE  /\ Live(s) \subseteq Ops
         /\ s.records \in [Live(s) -> Record]
         /\ s.order \in Seq(Ops)
         /\ s.tokens \in [Ops \X Incarnations -> TokenState]
         /\ s.made \in [Ops -> 0 .. MaxIncarnations]
BY Zenon DEF Store, Live

\* And back.
LEMMA StoreFromParts ==
  ASSUME NEW records, DOMAIN records \subseteq Ops, records \in [DOMAIN records -> Record],
         NEW order \in Seq(Ops),
         NEW tokens \in [Ops \X Incarnations -> TokenState],
         NEW made \in [Ops -> 0 .. MaxIncarnations]
  PROVE  [records |-> records, order |-> order, tokens |-> tokens, made |-> made] \in Store
BY Zenon DEF Store

\* The live records are finitely many, so their number is a natural.
LEMMA LiveIsFinite ==
  ASSUME NEW s \in Store
  PROVE  /\ IsFiniteSet(Live(s))
         /\ Cardinality(Live(s)) \in Nat
<1>1. Live(s) \subseteq Ops
  BY StoreParts, Zenon
<1> QED
  BY <1>1, StoreAssumption, FS_Subset, FS_CardinalityType, Zenon

\* Updating the order of a store, field by field.
LEMMA OrderReplaced ==
  ASSUME NEW s \in Store, NEW order
  PROVE  [s EXCEPT !.order = order] =
           [records |-> s.records, order |-> order, tokens |-> s.tokens, made |-> s.made]
<1> DEFINE R == UNION {[live -> Record] : live \in SUBSET Ops}
           T == [Ops \X Incarnations -> TokenState]
           M == [Ops -> 0 .. MaxIncarnations]
<1>1. s \in [records : R, order : Seq(Ops), tokens : T, made : M]
  BY Zenon DEF Store
<1> HIDE DEF R, T, M
<1> QED
  BY <1>1

\* Updating the records and tokens of a store, field by field.
LEMMA RecordsReplaced ==
  ASSUME NEW s \in Store, NEW records, NEW tokens
  PROVE  [s EXCEPT !.records = records, !.tokens = tokens] =
           [records |-> records, order |-> s.order, tokens |-> tokens, made |-> s.made]
<1> DEFINE R == UNION {[live -> Record] : live \in SUBSET Ops}
           T == [Ops \X Incarnations -> TokenState]
           M == [Ops -> 0 .. MaxIncarnations]
           half == [s EXCEPT !.records = records]
<1>1. s \in [records : R, order : Seq(Ops), tokens : T, made : M]
  BY Zenon DEF Store
<1> HIDE DEF R, T, M
<1>2. /\ half \in [records : {records}, order : Seq(Ops), tokens : T, made : M]
      /\ half.records = records /\ half.order = s.order /\ half.made = s.made
  BY <1>1, Zenon
<1> HIDE DEF half
<1>3. [half EXCEPT !.tokens = tokens] =
        [records |-> half.records, order |-> half.order, tokens |-> tokens, made |-> half.made]
  BY <1>2
<1> QED
  BY <1>2, <1>3, Zenon DEF half

\* Updating the records and token counts of a store, field by field.
LEMMA MadeReplaced ==
  ASSUME NEW s \in Store, NEW records, NEW made
  PROVE  [s EXCEPT !.records = records, !.made = made] =
           [records |-> records, order |-> s.order, tokens |-> s.tokens, made |-> made]
<1> DEFINE R == UNION {[live -> Record] : live \in SUBSET Ops}
           T == [Ops \X Incarnations -> TokenState]
           M == [Ops -> 0 .. MaxIncarnations]
           half == [s EXCEPT !.records = records]
<1>1. s \in [records : R, order : Seq(Ops), tokens : T, made : M]
  BY Zenon DEF Store
<1> HIDE DEF R, T, M
<1>2. /\ half \in [records : {records}, order : Seq(Ops), tokens : T, made : M]
      /\ half.records = records /\ half.order = s.order /\ half.tokens = s.tokens
  BY <1>1, Zenon
<1> HIDE DEF half
<1>3. [half EXCEPT !.made = made] =
        [records |-> half.records, order |-> half.order, tokens |-> half.tokens, made |-> made]
  BY <1>2
<1> QED
  BY <1>2, <1>3, Zenon DEF half

\* evict_oldest_terminal on an orderly store with something to evict drops
\* exactly the front of the order and its record.
LEMMA EvictDropsHead ==
  ASSUME NEW s \in Store, Orderly(s), s.order # << >>
  PROVE  EvictOldestTerminal(s) =
           [records |-> Without(s.records, Head(s.order)), order |-> Tail(s.order),
            tokens |-> s.tokens, made |-> s.made]
<1> DEFINE removable == {i \in DOMAIN s.order :
                           /\ s.order[i] \in Live(s)
                           /\ StateOf(s, s.order[i]) \in Terminal}
           oldest == CHOOSE i \in removable : \A j \in removable : i <= j
<1>1. Len(s.order) \in Nat \ {0} /\ DOMAIN s.order = 1 .. Len(s.order)
  BY DEF Store
<1>2. removable = DOMAIN s.order
  BY Zenon DEF Orderly, Retained
<1>3. oldest = 1
  <2>1. 1 \in removable /\ \A j \in removable : 1 <= j
    BY <1>1, <1>2
  <2>2. oldest \in removable /\ \A j \in removable : oldest <= j
    BY <2>1, Zenon
  <2> QED
    BY <1>1, <1>2, <2>1, <2>2
<1>4. Tail(s.order) = SubSeq(s.order, 2, Len(s.order)) /\ Head(s.order) = s.order[1]
  BY DEF Store
<1>5. EvictOldestTerminal(s) =
        IF removable = {} THEN [s EXCEPT !.order = << >>]
        ELSE [s EXCEPT !.records = Without(@, s.order[oldest]),
                       !.order = SubSeq(@, oldest + 1, Len(@))]
  BY Zenon DEF EvictOldestTerminal
<1>6. removable # {}
  BY <1>1, <1>2
<1> HIDE DEF removable, oldest
<1>7. EvictOldestTerminal(s) = [s EXCEPT !.records = Without(@, s.order[1]),
                                         !.order = SubSeq(@, 2, Len(@))]
  BY <1>3, <1>5, <1>6
<1> QED
  BY <1>4, <1>7, Zenon DEF Store

\* `t` is `s` less the record `gone`, which was terminal.
Drops(s, t, gone) ==
  /\ gone \in Live(s)
  /\ StateOf(s, gone) \in Terminal
  /\ Live(t) = Live(s) \ {gone}
  /\ \A id \in Live(t) : t.records[id] = s.records[id]
  /\ t.tokens = s.tokens
  /\ t.made = s.made
  /\ Len(t.order) = Len(s.order) - 1

\* Eviction leaves an orderly store with one terminal record less, the oldest.
LEMMA EvictIsOrderly ==
  ASSUME NEW s \in Store, Orderly(s), s.order # << >>
  PROVE  /\ EvictOldestTerminal(s) \in Store
         /\ Orderly(EvictOldestTerminal(s))
         /\ Drops(s, EvictOldestTerminal(s), Head(s.order))
<1> DEFINE gone == Head(s.order)
           rest == Tail(s.order)
           left == Without(s.records, gone)
           t == [records |-> left, order |-> rest, tokens |-> s.tokens, made |-> s.made]
<1>0. EvictOldestTerminal(s) = t
  BY EvictDropsHead, Zenon
<1>1. /\ Len(s.order) \in Nat \ {0}
      /\ DOMAIN s.order = 1 .. Len(s.order)
      /\ gone = s.order[1]
  BY DEF Store
<1>2. gone \in Live(s) /\ StateOf(s, gone) \in Terminal
  BY <1>1 DEF Orderly, Retained
<1>3. /\ rest \in Seq(Ops)
      /\ Len(rest) = Len(s.order) - 1
      /\ DOMAIN rest = 1 .. Len(rest)
      /\ \A i \in 1 .. Len(rest) : rest[i] = s.order[i + 1]
  BY <1>1 DEF Store
<1>4. /\ DOMAIN left = Live(s) \ {gone}
      /\ \A id \in DOMAIN left : left[id] = s.records[id]
      /\ left \in [DOMAIN left -> Record]
  BY StoreParts, Zenon DEF Without, Live
<1>5. /\ t.records = left /\ t.order = rest /\ t.tokens = s.tokens /\ t.made = s.made
      /\ t = [records |-> t.records, order |-> t.order, tokens |-> t.tokens, made |-> t.made]
  BY Zenon
<1> HIDE DEF t, left, rest, gone
<1>6. t \in Store
  BY <1>3, <1>4, <1>5 DEF Store, Live
<1>7. {rest[i] : i \in 1 .. Len(rest)} = {s.order[i] : i \in 1 .. Len(s.order)} \ {gone}
  <2>1. ASSUME NEW i \in 1 .. Len(rest)
        PROVE  rest[i] \in {s.order[j] : j \in 1 .. Len(s.order)} \ {gone}
    <3>1. i + 1 \in 1 .. Len(s.order) /\ i + 1 # 1
      BY <1>1, <1>3
    <3>2. s.order[i + 1] # s.order[1]
      BY <3>1, <1>1 DEF Orderly
    <3> QED
      BY <3>1, <3>2, <1>1, <1>3, Zenon
  <2>2. ASSUME NEW j \in 1 .. Len(s.order), s.order[j] # gone
        PROVE  s.order[j] \in {rest[i] : i \in 1 .. Len(rest)}
    <3>1. j # 1 /\ j - 1 \in 1 .. Len(rest) /\ (j - 1) + 1 = j
      BY <2>2, <1>1, <1>3
    <3> QED
      BY <3>1, <1>3, Zenon
  <2> QED
    BY <2>1, <2>2, Zenon
<1>8. Orderly(t)
  <2>1. Retained(t) = Retained(s) \ {gone}
    <3>1. Retained(t) = {rest[i] : i \in 1 .. Len(rest)}
      BY <1>3, <1>5, Zenon DEF Retained
    <3>2. Retained(s) = {s.order[i] : i \in 1 .. Len(s.order)}
      BY <1>1, Zenon DEF Retained
    <3> QED
      BY <3>1, <3>2, <1>7, Zenon
  <2>2. Retained(t) = {id \in Live(t) : StateOf(t, id) \in Terminal}
    BY <2>1, <1>4, <1>5, Zenon DEF Orderly, StateOf, Live
  <2>3. ASSUME NEW i \in DOMAIN t.order, NEW j \in DOMAIN t.order, t.order[i] = t.order[j]
        PROVE  i = j
    <3>1. i + 1 \in DOMAIN s.order /\ j + 1 \in DOMAIN s.order
      BY <1>1, <1>3, <1>5
    <3>2. s.order[i + 1] = s.order[j + 1]
      BY <2>3, <1>3, <1>5, Zenon
    <3>3. i + 1 = j + 1
      BY <3>1, <3>2, Zenon DEF Orderly
    <3> QED
      BY <3>3, <1>3, <1>5
  <2> QED
    BY <2>2, <2>3, Zenon DEF Orderly
<1>9. Drops(s, t, gone)
  BY <1>2, <1>3, <1>4, <1>5, Zenon DEF Drops, Live
<1> QED
  BY <1>0, <1>6, <1>8, <1>9, Zenon DEF gone

\* `t` is `s` less at most one record, which was terminal.
Trims(s, t) ==
  /\ Live(t) \subseteq Live(s)
  /\ \A id \in Live(t) : t.records[id] = s.records[id]
  /\ \A id \in Live(s) \ Live(t) : StateOf(s, id) \in Terminal
  /\ \A a, b \in Live(s) \ Live(t) : a = b
  /\ t.tokens = s.tokens
  /\ t.made = s.made

\* retain_terminal on a store whose order lists every terminal record but `id`:
\* the order is complete and within its limit afterwards, and `id` is still
\* there, because the limit is at least one.
LEMMA RetainIsOrderly ==
  ASSUME NEW s \in Store,
         NEW id \in Live(s), StateOf(s, id) \in Terminal,
         Retained(s) = {x \in Live(s) : x # id /\ StateOf(s, x) \in Terminal},
         \A i, j \in DOMAIN s.order : s.order[i] = s.order[j] => i = j,
         Len(s.order) <= TerminalCapacity
  PROVE  LET t == RetainTerminal(s, id)
         IN  /\ t \in Store /\ Orderly(t)
             /\ Len(t.order) <= TerminalCapacity
             /\ Trims(s, t)
             /\ id \in Live(t)
<1> DEFINE order == Append(s.order, id)
           kept == [records |-> s.records, order |-> order, tokens |-> s.tokens, made |-> s.made]
<1>1. /\ Len(s.order) \in Nat
      /\ DOMAIN s.order = 1 .. Len(s.order)
      /\ id \in Ops
  BY StoreParts
<1>2. /\ order \in Seq(Ops)
      /\ Len(order) = Len(s.order) + 1
      /\ DOMAIN order = 1 .. (Len(s.order) + 1)
      /\ \A i \in 1 .. Len(s.order) : order[i] = s.order[i]
      /\ order[Len(s.order) + 1] = id
  <2>1. s.order \in Seq(Ops)
    BY Zenon DEF Store
  <2> QED
    BY <1>1, <2>1, AppendProperties, LenProperties
<1>3. [s EXCEPT !.order = order] = kept
  BY OrderReplaced, Zenon
<1>4. RetainTerminal(s, id) =
        IF Len(kept.order) > TerminalCapacity THEN EvictOldestTerminal(kept) ELSE kept
  <2>1. id \notin Retained(s)
    BY Zenon
  <2> HIDE DEF kept
  <2> QED
    BY <1>3, <2>1, Zenon DEF RetainTerminal
<1>5. /\ kept.records = s.records /\ kept.order = order
      /\ kept.tokens = s.tokens /\ kept.made = s.made
      /\ kept = [records |-> kept.records, order |-> kept.order,
                 tokens |-> kept.tokens, made |-> kept.made]
  BY Zenon
<1> HIDE DEF kept, order
<1>6. kept \in Store
  BY <1>2, <1>5, Zenon DEF Store, Live
<1>7. Retained(kept) = Retained(s) \cup {id}
  <2>1. Retained(kept) = {order[i] : i \in 1 .. (Len(s.order) + 1)}
    BY <1>2, <1>5, Zenon DEF Retained
  <2>2. Retained(s) = {s.order[i] : i \in 1 .. Len(s.order)}
    BY <1>1, Zenon DEF Retained
  <2>3. {order[i] : i \in 1 .. (Len(s.order) + 1)}
          = {s.order[i] : i \in 1 .. Len(s.order)} \cup {id}
    <3>1. 1 .. (Len(s.order) + 1) = 1 .. Len(s.order) \cup {Len(s.order) + 1}
      BY <1>1
    <3> QED
      BY <3>1, <1>2
  <2> QED
    BY <2>1, <2>2, <2>3, Zenon
<1>8. Orderly(kept)
  <2>1. Retained(kept) = {x \in Live(kept) : StateOf(kept, x) \in Terminal}
    BY <1>5, <1>7, Zenon DEF StateOf, Live
  <2>2. id \notin Retained(s)
    BY Zenon
  <2>3. \A i \in 1 .. Len(s.order) : s.order[i] # id
    BY <2>2, <1>1, Zenon DEF Retained
  <2>4. \A i, j \in DOMAIN kept.order : kept.order[i] = kept.order[j] => i = j
    BY <2>3, <1>1, <1>2, <1>5
  <2> QED
    BY <2>1, <2>4, Zenon DEF Orderly
<1>9. CASE Len(order) > TerminalCapacity
  <2> DEFINE t == EvictOldestTerminal(kept)
  <2>1. RetainTerminal(s, id) = t
    BY <1>4, <1>5, <1>9, Zenon
  <2>2. Len(s.order) = TerminalCapacity /\ Len(order) = TerminalCapacity + 1
    BY <1>1, <1>2, <1>9, StoreAssumption
  <2>3. kept.order # << >> /\ Head(kept.order) = order[1]
    BY <1>2, <1>5, <2>2, StoreAssumption
  <2>4. t \in Store /\ Orderly(t) /\ Drops(kept, t, Head(kept.order))
    BY <1>6, <1>8, <2>3, EvictIsOrderly, Zenon
  <2> HIDE DEF t
  <2>5. Head(kept.order) # id
    <3>1. 1 \in 1 .. Len(s.order)
      BY <2>2, StoreAssumption
    <3>2. order[1] \in Retained(s)
      BY <3>1, <1>1, <1>2, Zenon DEF Retained
    <3> QED
      BY <2>3, <3>2, Zenon
  <2>6. Len(t.order) <= TerminalCapacity
    BY <2>2, <2>4, <1>5, StoreAssumption DEF Drops
  <2>7. Live(kept) = Live(s) /\ \A x \in Live(s) : StateOf(kept, x) = StateOf(s, x)
    BY <1>5, Zenon DEF Live, StateOf
  <2>8. Trims(s, t) /\ id \in Live(t)
    BY <1>5, <2>4, <2>5, <2>7, Zenon DEF Drops, Trims
  <2> QED
    BY <2>1, <2>4, <2>6, <2>8, Zenon
<1>10. CASE ~(Len(order) > TerminalCapacity)
  <2>1. RetainTerminal(s, id) = kept
    BY <1>4, <1>5, <1>10, Zenon
  <2>2. Len(kept.order) <= TerminalCapacity
    BY <1>1, <1>2, <1>5, <1>10, StoreAssumption
  <2>3. Trims(s, kept) /\ id \in Live(kept)
    BY <1>5, Zenon DEF Trims, Live
  <2> QED
    BY <1>6, <1>8, <2>1, <2>2, <2>3, Zenon
<1> QED
  BY <1>9, <1>10, Zenon

\* What transition does to the store: `id` moves, every other record stays as
\* it is, except that one terminal record may be dropped.
Moves(s, t, id, target, now) ==
  /\ id \in Live(s) /\ id \in Live(t)
  /\ Live(t) \subseteq Live(s)
  /\ t.records[id] = [s.records[id] EXCEPT !.state = target, !.updatedAt = now]
  /\ \A x \in Live(t) \ {id} : t.records[x] = s.records[x]
  /\ \A x \in Live(s) \ Live(t) : StateOf(s, x) \in Terminal
  /\ \A a, b \in Live(s) \ Live(t) : a = b
  /\ target \notin Terminal => Live(t) = Live(s)
  /\ t.made = s.made
  /\ t.tokens = [s.tokens EXCEPT ![<<id, s.records[id].token>>] =
                    IF target = "Cancelled" THEN "CancelRequested" ELSE @]

\* A transition the code allows moves the operation and keeps the order exact
\* and within its limit.
LEMMA TransitionMoves ==
  ASSUME NEW s \in Store, Orderly(s), Len(s.order) <= TerminalCapacity,
         NEW id, NEW target \in Active \cup Terminal, NEW now \in Clock,
         CanTransition(s, id, target, now)
  PROVE  LET t == Transitioned(s, id, target, now)
         IN  /\ t \in Store /\ Orderly(t)
             /\ Len(t.order) <= TerminalCapacity
             /\ Moves(s, t, id, target, now)
<1> DEFINE token == <<id, s.records[id].token>>
           record == [s.records[id] EXCEPT !.state = target, !.updatedAt = now]
           records == [s.records EXCEPT ![id] = record]
           tokens == [s.tokens EXCEPT ![token] =
                        IF target = "Cancelled" THEN "CancelRequested" ELSE @]
           moved == [records |-> records, order |-> s.order, tokens |-> tokens, made |-> s.made]
<1>1. id \in Live(s) /\ id \in Ops /\ StateOf(s, id) \in Active
  BY StoreParts, Zenon DEF CanTransition, LegalTransition, Active
<1>2. token \in Ops \X Incarnations
  BY <1>1, StoreParts, Zenon DEF Record
<1>3. record \in Record /\ record.state = target
  <2>1. s.records[id] \in Record
    BY <1>1, StoreParts, Zenon
  <2> QED
    BY <2>1, Zenon DEF Record
<1>4. /\ DOMAIN records = Live(s)
      /\ records \in [Live(s) -> Record]
      /\ records[id] = record
      /\ \A x \in Live(s) \ {id} : records[x] = s.records[x]
  BY <1>1, <1>3, StoreParts, Zenon DEF Live
<1>5. tokens \in [Ops \X Incarnations -> TokenState]
  BY <1>2, StoreParts, Zenon DEF TokenState
<1>6. moved \in Store
  <2> HIDE DEF records, tokens
  <2> QED
    BY <1>4, <1>5, StoreParts, StoreFromParts, Zenon
<1>7. Transitioned(s, id, target, now) =
        IF target \in Terminal THEN RetainTerminal(moved, id) ELSE moved
  <2>1. [s EXCEPT !.records = records, !.tokens = tokens] = moved
    BY RecordsReplaced, Zenon
  <2> HIDE DEF moved
  <2> QED
    BY <2>1, Zenon DEF Transitioned
<1>8. moved.records = records /\ moved.order = s.order /\ moved.tokens = tokens /\ moved.made = s.made
  BY Zenon
<1> HIDE DEF moved, records, tokens, record
<1>9. /\ Live(moved) = Live(s)
      /\ Retained(moved) = Retained(s)
      /\ StateOf(moved, id) = target
      /\ \A x \in Live(s) \ {id} : StateOf(moved, x) = StateOf(s, x)
  BY <1>1, <1>3, <1>4, <1>8, Zenon DEF Live, Retained, StateOf
<1>10. Retained(s) = {x \in Live(moved) : x # id /\ StateOf(moved, x) \in Terminal}
  BY <1>1, <1>9, Zenon DEF Orderly, Active, Terminal
<1>11. \A i, j \in DOMAIN s.order : s.order[i] = s.order[j] => i = j
  BY Zenon DEF Orderly
<1>12. CASE target \in Terminal
  <2> DEFINE t == RetainTerminal(moved, id)
  <2>1. /\ t \in Store /\ Orderly(t) /\ Len(t.order) <= TerminalCapacity
        /\ Trims(moved, t) /\ id \in Live(t)
    BY <1>1, <1>6, <1>8, <1>9, <1>10, <1>11, <1>12, RetainIsOrderly, Zenon
  <2> HIDE DEF t
  <2>2. Moves(s, t, id, target, now)
    BY <1>1, <1>4, <1>8, <1>9, <1>12, <2>1, Zenon DEF Trims, Moves, record, tokens
  <2> QED
    BY <1>7, <1>12, <2>1, <2>2, Zenon DEF t
<1>13. CASE target \notin Terminal
  <2>1. Orderly(moved)
    BY <1>8, <1>9, <1>10, <1>11, <1>13, Zenon DEF Orderly
  <2>2. Moves(s, moved, id, target, now)
    BY <1>1, <1>4, <1>8, <1>9, Zenon DEF Moves, record, tokens
  <2> QED
    BY <1>6, <1>7, <1>8, <1>13, <2>1, <2>2, Zenon
<1> QED
  BY <1>12, <1>13, Zenon

(***************************************************************************)
(* Every method keeps the store good                                       *)
(***************************************************************************)

\* Dropping a terminal record keeps tokens and records in agreement.
LEMMA TrimKeepsTokens ==
  ASSUME NEW s \in Store, NEW t \in Store, Trims(s, t), TokensAgree(s), TokensFresh(s)
  PROVE  TokensAgree(t) /\ TokensFresh(t)
BY DEF Trims, TokensAgree, TokensFresh, TokenOf, StateOf

\* A store with fewer live records has no more of them.
LEMMA FewerLive ==
  ASSUME NEW s \in Store, NEW t \in Store, Live(t) \subseteq Live(s)
  PROVE  Cardinality(Live(t)) <= Cardinality(Live(s))
BY LiveIsFinite, FS_Subset, Zenon

LEMMA TransitionIsGood ==
  ASSUME NEW s, GoodStore(s), NEW id, NEW target \in Active \cup Terminal, NEW now \in Clock,
         CanTransition(s, id, target, now)
  PROVE  LET t == Transitioned(s, id, target, now)
         IN  GoodStore(t) /\ Moves(s, t, id, target, now)
<1> DEFINE t == Transitioned(s, id, target, now)
<1>0. s \in Store /\ Orderly(s) /\ Bounded(s) /\ TokensAgree(s) /\ TokensFresh(s)
  BY Zenon DEF GoodStore
<1>1. /\ t \in Store /\ Orderly(t) /\ Len(t.order) <= TerminalCapacity
      /\ Moves(s, t, id, target, now)
  BY <1>0, TransitionMoves, Zenon DEF Bounded
<1> HIDE DEF t
<1>2. Bounded(t)
  <2>1. Live(t) \subseteq Live(s)
    BY <1>1, Zenon DEF Moves
  <2> QED
    BY <1>0, <1>1, <2>1, FewerLive, LiveIsFinite, StoreAssumption DEF Bounded
<1>3. /\ id \in Live(s) /\ id \in Ops /\ id \in Live(t)
      /\ StateOf(s, id) \in Active
      /\ s.records[id] \in Record
      /\ t.records[id] = [s.records[id] EXCEPT !.state = target, !.updatedAt = now]
  BY <1>0, <1>1, StoreParts, Zenon DEF Moves, CanTransition, LegalTransition, Active
<1>4. /\ t.records[id].state = target
      /\ t.records[id].token = s.records[id].token
      /\ t.records[id].commit = s.records[id].commit
      /\ s.records[id].token \in Incarnations
  BY <1>3, Zenon DEF Record
<1>5. /\ TokenOf(t, id) = IF target = "Cancelled" THEN "CancelRequested" ELSE TokenOf(s, id)
      /\ \A x \in Ops, n \in Incarnations :
           x # id \/ n # s.records[id].token => t.tokens[<<x, n>>] = s.tokens[<<x, n>>]
  <2>1. s.tokens \in [Ops \X Incarnations -> TokenState]
    BY <1>0, StoreParts, Zenon
  <2>2. t.tokens = [s.tokens EXCEPT ![<<id, s.records[id].token>>] =
                      IF target = "Cancelled" THEN "CancelRequested" ELSE @]
    BY <1>1, Zenon DEF Moves
  <2> QED
    BY <1>3, <1>4, <2>1, <2>2, Zenon DEF TokenOf
<1>6. \A x \in Live(t) \ {id} :
        /\ x \in Live(s) /\ x \in Ops
        /\ t.records[x] = s.records[x] /\ s.records[x].token \in Incarnations
        /\ TokenOf(t, x) = TokenOf(s, x)
  <2>1. \A x \in Live(s) : x \in Ops /\ s.records[x].token \in Incarnations
    BY <1>0, StoreParts, Zenon DEF Record
  <2> QED
    BY <1>1, <1>5, <2>1 DEF Moves, TokenOf
<1>7. TokensAgree(t)
  <2>1. \A x \in Live(t) \ {id} :
          /\ TokenOf(t, x) = "CancelRequested" <=> StateOf(t, x) = "Cancelled"
          /\ TokenOf(t, x) = "Committed" <=> t.records[x].commit
    BY <1>0, <1>6, Zenon DEF TokensAgree, StateOf
  <2>2. /\ TokenOf(t, id) = "CancelRequested" <=> StateOf(t, id) = "Cancelled"
        /\ TokenOf(t, id) = "Committed" <=> t.records[id].commit
    BY <1>0, <1>3, <1>4, <1>5, Zenon DEF TokensAgree, StateOf, Active, CanTransition
  <2> QED
    BY <2>1, <2>2, Zenon DEF TokensAgree
<1>8. TokensFresh(t)
  <2>1. t.made = s.made /\ s.made \in [Ops -> Nat]
    BY <1>0, <1>1, StoreParts DEF Moves
  <2>2. \A x \in Live(t) : t.records[x].token = t.made[x]
    BY <1>0, <1>3, <1>4, <1>6, <2>1, Zenon DEF TokensFresh
  <2>3. ASSUME NEW x \in Ops, NEW n \in Incarnations, n > t.made[x]
        PROVE  t.tokens[<<x, n>>] = "Active"
    <3>1. s.tokens[<<x, n>>] = "Active"
      BY <1>0, <2>1, <2>3, Zenon DEF TokensFresh
    <3>2. x # id \/ n # s.records[id].token
      BY <1>0, <1>3, <2>1, <2>3 DEF TokensFresh, Incarnations
    <3> QED
      BY <1>5, <3>1, <3>2, Zenon
  <2> QED
    BY <2>2, <2>3, Zenon DEF TokensFresh
<1> QED
  BY <1>1, <1>2, <1>7, <1>8, Zenon DEF GoodStore, t

\* Making room for a new record drops at most one terminal record.
LEMMA MakeRoomIsGood ==
  ASSUME NEW s, GoodStore(s)
  PROVE  GoodStore(MakeRoom(s)) /\ Trims(s, MakeRoom(s))
<1> DEFINE t == EvictOldestTerminal(s)
<1>0. s \in Store /\ Orderly(s) /\ Bounded(s) /\ TokensAgree(s) /\ TokensFresh(s)
  BY Zenon DEF GoodStore
<1>1. Trims(s, s)
  BY Zenon DEF Trims
<1>2. CASE s.order = << >>
  <2>1. t = [s EXCEPT !.order = << >>]
    BY <1>2 DEF EvictOldestTerminal
  <2>2. t = s
    <3>1. t = [records |-> s.records, order |-> s.order, tokens |-> s.tokens, made |-> s.made]
      BY <1>0, <1>2, <2>1, OrderReplaced, Zenon
    <3> DEFINE R == UNION {[live -> Record] : live \in SUBSET Ops}
               T == [Ops \X Incarnations -> TokenState]
               M == [Ops -> 0 .. MaxIncarnations]
    <3>2. s \in [records : R, order : Seq(Ops), tokens : T, made : M]
      BY <1>0, Zenon DEF Store
    <3> HIDE DEF R, T, M
    <3>3. s = [records |-> s.records, order |-> s.order, tokens |-> s.tokens, made |-> s.made]
      BY <3>2, Zenon
    <3> QED
      BY <3>1, <3>3, Zenon
  <2> QED
    BY <1>1, <2>2, Zenon DEF MakeRoom
<1>3. CASE s.order # << >>
  <2>1. t \in Store /\ Orderly(t) /\ Drops(s, t, Head(s.order))
    BY <1>0, <1>3, EvictIsOrderly, Zenon
  <2> HIDE DEF t
  <2>2. Trims(s, t)
    BY <2>1, Zenon DEF Drops, Trims
  <2>3. TokensAgree(t) /\ TokensFresh(t)
    BY <1>0, <2>1, <2>2, TrimKeepsTokens, Zenon
  <2>4. Bounded(t)
    <3>1. Len(s.order) \in Nat /\ Len(t.order) \in Nat
      BY <1>0, <2>1, StoreParts
    <3>2. Live(t) \subseteq Live(s)
      BY <2>2, Zenon DEF Trims
    <3>3. Len(t.order) <= TerminalCapacity
      BY <1>0, <2>1, <3>1, StoreAssumption DEF Bounded, Drops
    <3>4. Cardinality(Live(t)) <= Cardinality(Live(s))
      BY <1>0, <2>1, <3>2, FewerLive, Zenon
    <3>5. Cardinality(Live(t)) \in Nat /\ Cardinality(Live(s)) \in Nat
      BY <1>0, <2>1, LiveIsFinite, Zenon
    <3> QED
      BY <1>0, <3>3, <3>4, <3>5, StoreAssumption DEF Bounded
  <2> QED
    BY <1>1, <2>1, <2>2, <2>3, <2>4, Zenon DEF MakeRoom, GoodStore, t
<1> QED
  BY <1>2, <1>3, Zenon

\* What insert does to a store that has room: one Pending record is new.
Admits(s, t, id) ==
  /\ id \notin Live(s)
  /\ Live(t) \subseteq Live(s) \cup {id}
  /\ id \in Live(t) /\ StateOf(t, id) = "Pending"
  /\ \A x \in Live(t) \ {id} : t.records[x] = s.records[x]
  /\ \A x \in Live(s) \ Live(t) : StateOf(s, x) \in Terminal
  /\ \A a, b \in Live(s) \ Live(t) : a = b
  /\ t.tokens = s.tokens
  /\ t.made = [s.made EXCEPT ![id] = s.made[id] + 1]

LEMMA InsertIsGood ==
  ASSUME NEW s, GoodStore(s), NEW id \in Ops, id \notin Live(s), HasRoom(s),
         s.made[id] < MaxIncarnations, NEW command \in Commands, NEW now \in Clock
  PROVE  LET t == Inserted(s, id, command, now)
         IN  GoodStore(t) /\ Admits(s, t, id) /\ TokenOf(t, id) = "Active"
<1> DEFINE room == MakeRoom(s)
           incarnation == s.made[id] + 1
           pending == [command |-> command, state |-> "Pending", updatedAt |-> now,
                       commit |-> FALSE, token |-> incarnation]
           records == With(room.records, id, pending)
           made == [room.made EXCEPT ![id] = incarnation]
           t == [records |-> records, order |-> room.order, tokens |-> room.tokens, made |-> made]
<1>0. s \in Store /\ s.made \in [Ops -> 0 .. MaxIncarnations] /\ Live(s) \subseteq Ops
  BY StoreParts, Zenon DEF GoodStore
<1>1. GoodStore(room) /\ Trims(s, room)
  BY MakeRoomIsGood, Zenon
<1>2. room \in Store /\ Orderly(room) /\ Bounded(room) /\ TokensAgree(room) /\ TokensFresh(room)
  BY <1>1, Zenon DEF GoodStore
<1>3. Cardinality(Live(room)) # TotalCapacity
  BY Zenon DEF HasRoom
<1> HIDE DEF room
<1>4. Inserted(s, id, command, now) = t
  <2>1. [room EXCEPT !.records = records, !.made = made] = t
    <3> HIDE DEF records, made
    <3> QED
      BY <1>2, MadeReplaced, Zenon
  <2>2. Inserted(s, id, command, now) = [room EXCEPT !.records = records, !.made = made]
    BY Zenon DEF Inserted, room
  <2> QED
    BY <2>1, <2>2, Zenon
<1>5. /\ room.made = s.made /\ room.tokens = s.tokens /\ Live(room) \subseteq Live(s)
      /\ id \notin Live(room)
      /\ \A x \in Live(room) : room.records[x] = s.records[x]
  BY <1>1, Zenon DEF Trims
<1>6. incarnation \in Incarnations
  BY <1>0, StoreAssumption DEF Incarnations
<1>7. pending \in Record
  BY <1>6, Zenon DEF Record, Active
<1>8. pending.state = "Pending" /\ pending.commit = FALSE /\ pending.token = incarnation
  BY Zenon
<1> HIDE DEF pending, incarnation
<1>9. /\ DOMAIN records = Live(room) \cup {id}
      /\ records[id] = pending
      /\ \A x \in Live(room) : records[x] = room.records[x]
      /\ records \in [DOMAIN records -> Record]
  BY <1>2, <1>5, <1>7, StoreParts, Zenon DEF With, Live
<1>10. made \in [Ops -> 0 .. MaxIncarnations] /\ made[id] = incarnation
       /\ \A x \in Ops \ {id} : made[x] = s.made[x]
  BY <1>0, <1>5, <1>6 DEF Incarnations
<1>11. t.records = records /\ t.order = room.order /\ t.tokens = room.tokens /\ t.made = made
  BY Zenon
<1>12. t \in Store
  <2> HIDE DEF records, made
  <2> QED
    BY <1>0, <1>2, <1>5, <1>9, <1>10, StoreParts, StoreFromParts, Zenon
<1>13. Admits(s, t, id)
  <2>1. made = [s.made EXCEPT ![id] = s.made[id] + 1]
    BY <1>5, Zenon DEF incarnation
  <2> HIDE DEF t, records, made
  <2> QED
    BY <1>1, <1>5, <1>8, <1>9, <1>11, <2>1, Zenon DEF Admits, Trims, Live, StateOf
<1> HIDE DEF t, records, made
<1>14. Live(t) = Live(room) \cup {id}
  BY <1>9, <1>11, Zenon DEF Live
<1>15. Orderly(t)
  <2>1. \A x \in Live(room) : StateOf(t, x) = StateOf(room, x)
    BY <1>9, <1>11, Zenon DEF StateOf
  <2>2. StateOf(t, id) \notin Terminal
    BY <1>8, <1>9, <1>11, Zenon DEF StateOf, Terminal
  <2>3. Retained(t) = Retained(room)
    BY <1>11, Zenon DEF Retained
  <2> QED
    BY <1>2, <1>11, <1>14, <2>1, <2>2, <2>3, Zenon DEF Orderly
<1>16. Bounded(t)
  <2>1. Cardinality(Live(t)) = Cardinality(Live(room)) + 1
    BY <1>2, <1>5, <1>14, LiveIsFinite, FS_AddElement, Zenon
  <2> QED
    BY <1>2, <1>3, <1>11, <2>1, LiveIsFinite, StoreAssumption DEF Bounded
<1>17. /\ TokenOf(t, id) = "Active"
       /\ \A x \in Live(room) : TokenOf(t, x) = TokenOf(room, x)
  <2>1. s.tokens[<<id, incarnation>>] = "Active"
    BY <1>0, <1>6 DEF GoodStore, TokensFresh, incarnation
  <2> QED
    BY <1>5, <1>8, <1>9, <1>11, <2>1, Zenon DEF TokenOf
<1>18. TokensAgree(t)
  BY <1>2, <1>8, <1>9, <1>11, <1>14, <1>17, ZenonT(60) DEF TokensAgree, StateOf
<1>19. TokensFresh(t)
  <2>1. \A x \in Live(t) : t.records[x].token = t.made[x]
    BY <1>0, <1>2, <1>5, <1>8, <1>9, <1>10, <1>11, <1>14, ZenonT(60) DEF TokensFresh
  <2>2. ASSUME NEW x \in Ops, NEW n \in Incarnations, n > t.made[x]
        PROVE  t.tokens[<<x, n>>] = "Active"
    <3>1. n > s.made[x]
      BY <1>0, <1>10, <1>11, <2>2 DEF incarnation, Incarnations
    <3> QED
      BY <1>2, <1>5, <1>11, <3>1, Zenon DEF TokensFresh
  <2> QED
    BY <2>1, <2>2, Zenon DEF TokensFresh
<1> QED
  BY <1>4, <1>12, <1>13, <1>15, <1>16, <1>17, <1>18, <1>19, Zenon DEF GoodStore

\* Rolling a reservation back removes its Pending record and nothing else.
LEMMA RollbackIsGood ==
  ASSUME NEW s, GoodStore(s), NEW id \in Live(s), StateOf(s, id) = "Pending",
         TokenOf(s, id) = "Active"
  PROVE  LET t == RemovedPending(s, id)
         IN  /\ GoodStore(t)
             /\ Live(t) = Live(s) \ {id}
             /\ \A x \in Live(t) : t.records[x] = s.records[x]
             /\ t.tokens = s.tokens
             /\ t.made = [s.made EXCEPT ![id] = s.made[id] - 1]
<1> DEFINE records == Without(s.records, id)
           made == [s.made EXCEPT ![id] = s.made[id] - 1]
           t == [records |-> records, order |-> s.order, tokens |-> s.tokens, made |-> made]
<1>0. s \in Store /\ Orderly(s) /\ Bounded(s) /\ TokensAgree(s) /\ TokensFresh(s)
  BY Zenon DEF GoodStore
<1>1. RemovedPending(s, id) = t
  <2>1. [s EXCEPT !.records = records, !.made = made] = t
    <3> HIDE DEF records, made
    <3> QED
      BY <1>0, MadeReplaced, Zenon
  <2>2. RemovedPending(s, id) = [s EXCEPT !.records = records, !.made = made]
    BY Zenon DEF RemovedPending
  <2> QED
    BY <2>1, <2>2, Zenon
<1>2. /\ s.made \in [Ops -> 0 .. MaxIncarnations] /\ id \in Ops
      /\ s.made[id] \in Incarnations
      /\ \A x \in Live(s) : x \in Ops /\ s.records[x] \in Record
  <2>1. s.records[id] \in Record /\ s.records[id].token = s.made[id]
    BY <1>0, StoreParts, Zenon DEF TokensFresh
  <2> QED
    BY <1>0, <2>1, StoreParts, Zenon DEF Record
<1>3. /\ made \in [Ops -> 0 .. MaxIncarnations]
      /\ \A x \in Ops \ {id} : made[x] = s.made[x]
      /\ made[id] = s.made[id] - 1
  BY <1>2, StoreAssumption DEF Incarnations
<1>4. /\ DOMAIN records = Live(s) \ {id}
      /\ \A x \in DOMAIN records : records[x] = s.records[x]
      /\ records \in [DOMAIN records -> Record]
  BY <1>2, Zenon DEF Without, Live
<1>5. t.records = records /\ t.order = s.order /\ t.tokens = s.tokens /\ t.made = made
  BY Zenon
<1>6. t \in Store
  <2>1. DOMAIN records \subseteq Ops
    BY <1>2, <1>4, Zenon
  <2> HIDE DEF records, made
  <2> QED
    BY <1>0, <1>3, <1>4, <2>1, StoreParts, StoreFromParts, Zenon
<1>7. t.made = [s.made EXCEPT ![id] = s.made[id] - 1]
  BY Zenon
<1> HIDE DEF t, records, made
<1>8. Live(t) = Live(s) \ {id} /\ \A x \in Live(t) : t.records[x] = s.records[x]
  BY <1>4, <1>5, Zenon DEF Live
<1>9. Orderly(t)
  <2>1. Retained(t) = Retained(s)
    BY <1>5, Zenon DEF Retained
  <2> QED
    BY <1>0, <1>5, <1>8, <2>1, Zenon DEF Orderly, StateOf, Terminal
<1>10. Bounded(t)
  <2>1. Cardinality(Live(t)) <= Cardinality(Live(s))
    BY <1>0, <1>6, <1>8, FewerLive, Zenon
  <2>2. Cardinality(Live(t)) \in Nat /\ Cardinality(Live(s)) \in Nat
    BY <1>0, <1>6, LiveIsFinite, Zenon
  <2> QED
    BY <1>0, <1>5, <2>1, <2>2, StoreAssumption DEF Bounded
<1>11. TokensAgree(t)
  BY <1>0, <1>5, <1>8, ZenonT(60) DEF TokensAgree, TokenOf, StateOf
<1>12. TokensFresh(t)
  <2>1. \A x \in Live(t) : t.records[x].token = t.made[x]
    BY <1>0, <1>2, <1>3, <1>5, <1>8, Zenon DEF TokensFresh
  <2>2. ASSUME NEW x \in Ops, NEW n \in Incarnations, n > t.made[x]
        PROVE  t.tokens[<<x, n>>] = "Active"
    <3>1. CASE n > s.made[x]
      BY <1>0, <1>5, <3>1, Zenon DEF TokensFresh
    <3>2. CASE ~(n > s.made[x])
      <4>1. x = id /\ n = s.made[id]
        BY <1>2, <1>3, <1>5, <2>2, <3>2 DEF Incarnations
      <4> QED
        BY <1>0, <1>5, <4>1, Zenon DEF TokenOf, TokensFresh
    <3> QED
      BY <3>1, <3>2, Zenon
  <2> QED
    BY <2>1, <2>2, Zenon DEF TokensFresh
<1> QED
  BY <1>1, <1>6, <1>7, <1>8, <1>9, <1>10, <1>11, <1>12, <1>5, Zenon DEF GoodStore

\* What mark_committed does to the store: `id` passes its commit point.
Commits(s, t, id) ==
  /\ id \in Live(s)
  /\ Live(t) = Live(s)
  /\ t.records[id] = [s.records[id] EXCEPT !.commit = TRUE]
  /\ \A x \in Live(t) \ {id} : t.records[x] = s.records[x]
  /\ t.tokens = [s.tokens EXCEPT ![<<id, s.records[id].token>>] = "Committed"]
  /\ t.made = s.made

LEMMA CommitIsGood ==
  ASSUME NEW s, GoodStore(s), NEW id, CanCommit(s, id)
  PROVE  LET t == MarkedCommitted(s, id)
         IN  GoodStore(t) /\ Commits(s, t, id)
<1> DEFINE token == <<id, s.records[id].token>>
           record == [s.records[id] EXCEPT !.commit = TRUE]
           records == [s.records EXCEPT ![id] = record]
           tokens == [s.tokens EXCEPT ![token] = "Committed"]
           t == [records |-> records, order |-> s.order, tokens |-> tokens, made |-> s.made]
<1>0. s \in Store /\ Orderly(s) /\ Bounded(s) /\ TokensAgree(s) /\ TokensFresh(s)
  BY Zenon DEF GoodStore
<1>1. MarkedCommitted(s, id) = t
  <2>1. [s EXCEPT !.records = records, !.tokens = tokens] = t
    <3> HIDE DEF records, tokens
    <3> QED
      BY <1>0, RecordsReplaced, Zenon
  <2>2. MarkedCommitted(s, id) = [s EXCEPT !.records = records, !.tokens = tokens]
    BY Zenon DEF MarkedCommitted
  <2> QED
    BY <2>1, <2>2, Zenon
<1>2. /\ id \in Live(s) /\ id \in Ops /\ StateOf(s, id) = "Running"
      /\ s.records[id] \in Record
      /\ s.made \in [Ops -> 0 .. MaxIncarnations]
  BY <1>0, StoreParts, Zenon DEF CanCommit
<1>3. /\ record \in Record /\ record.state = "Running" /\ record.commit = TRUE
      /\ record.token = s.records[id].token /\ s.records[id].token \in Incarnations
  BY <1>2, Zenon DEF Record, StateOf
<1>4. /\ DOMAIN records = Live(s) /\ records \in [Live(s) -> Record]
      /\ records[id] = record
      /\ \A x \in Live(s) \ {id} : records[x] = s.records[x]
  BY <1>0, <1>2, <1>3, StoreParts, Zenon DEF Live
<1>5. /\ tokens \in [Ops \X Incarnations -> TokenState]
      /\ tokens[token] = "Committed"
      /\ \A x \in Ops, n \in Incarnations :
           x # id \/ n # s.records[id].token => tokens[<<x, n>>] = s.tokens[<<x, n>>]
  BY <1>0, <1>2, <1>3, StoreParts, Zenon DEF TokenState
<1>6. t.records = records /\ t.order = s.order /\ t.tokens = tokens /\ t.made = s.made
  BY Zenon
<1>7. t \in Store
  <2> HIDE DEF records, tokens
  <2> QED
    BY <1>0, <1>4, <1>5, StoreParts, StoreFromParts, Zenon
<1> HIDE DEF t
<1>8. Commits(s, t, id)
  BY <1>2, <1>4, <1>6, Zenon DEF Commits, Live
<1> HIDE DEF records, tokens, record
<1>9. Live(t) = Live(s) /\ \A x \in Live(s) : StateOf(t, x) = StateOf(s, x)
  BY <1>2, <1>3, <1>4, <1>6, Zenon DEF Live, StateOf
<1>10. Orderly(t) /\ Bounded(t)
  <2>1. Retained(t) = Retained(s)
    BY <1>6, Zenon DEF Retained
  <2> QED
    BY <1>0, <1>6, <1>9, <2>1 DEF Orderly, Bounded
<1>11. \A x \in Live(s) \ {id} : TokenOf(t, x) = TokenOf(s, x)
  <2>1. \A x \in Live(s) : x \in Ops /\ s.records[x].token \in Incarnations
    BY <1>0, StoreParts, Zenon DEF Record
  <2> QED
    BY <1>4, <1>5, <1>6, <2>1 DEF TokenOf
<1>12. TokensAgree(t)
  <2>1. TokenOf(t, id) = "Committed" /\ t.records[id].commit = TRUE
    BY <1>3, <1>4, <1>5, <1>6, Zenon DEF TokenOf
  <2> QED
    BY <1>0, <1>2, <1>4, <1>6, <1>9, <1>11, <2>1, Zenon DEF TokensAgree
<1>13. TokensFresh(t)
  <2>1. \A x \in Live(t) : t.records[x].token = t.made[x]
    BY <1>0, <1>3, <1>4, <1>6, <1>9, ZenonT(60) DEF TokensFresh
  <2>2. ASSUME NEW x \in Ops, NEW n \in Incarnations, n > t.made[x]
        PROVE  t.tokens[<<x, n>>] = "Active"
    <3>1. x # id \/ n # s.records[id].token
      BY <1>0, <1>2, <1>6, <2>2 DEF TokensFresh, Incarnations
    <3> QED
      BY <1>0, <1>5, <1>6, <2>2, <3>1 DEF TokensFresh
  <2> QED
    BY <2>1, <2>2, Zenon DEF TokensFresh
<1> QED
  BY <1>1, <1>7, <1>8, <1>10, <1>12, <1>13, Zenon DEF GoodStore

(***************************************************************************)
(* The ways a step may change the store                                    *)
(***************************************************************************)

\* `id` may move to `target` in one step: a transition the record allows, or
\* the start and failure of a dispatch that its owner's mailbox refused.
MayMove(s, id, target, now) ==
  /\ id \in Live(s)
  /\ now >= s.records[id].updatedAt
  /\ \/ LegalTransition(StateOf(s, id), target)
     \/ StateOf(s, id) = "Pending" /\ target = "Failed"
  /\ target = "Cancelled" => TokenOf(s, id) # "Committed"

StoreStep(s, t) ==
  \/ Trims(s, t)
  \/ \E id \in Ops : Admits(s, t, id)
  \/ \E id \in Ops : CanCommit(s, id) /\ Commits(s, t, id)
  \/ \E id \in Ops, target \in Active \cup Terminal, now \in Clock :
       MayMove(s, id, target, now) /\ Moves(s, t, id, target, now)

LEMMA SameStore ==
  ASSUME NEW s
  PROVE  StoreStep(s, s)
BY Zenon DEF StoreStep, Trims

LEMMA TransitionStep ==
  ASSUME NEW s, GoodStore(s), NEW id, NEW target \in Active \cup Terminal, NEW now \in Clock,
         CanTransition(s, id, target, now)
  PROVE  LET t == Transitioned(s, id, target, now)
         IN  GoodStore(t) /\ StoreStep(s, t) /\ Moves(s, t, id, target, now)
<1>1. id \in Ops /\ MayMove(s, id, target, now)
  BY StoreParts, Zenon DEF CanTransition, MayMove, GoodStore
<1> QED
  BY <1>1, TransitionIsGood, Zenon DEF StoreStep

\* A refused dispatch: Pending to Failed in one step, within both limits.
LEMMA RejectStep ==
  ASSUME NEW s, GoodStore(s), NEW id, NEW now \in Clock, NEW later \in Clock, later >= now,
         CanTransition(s, id, "Running", now)
  PROVE  LET t == Transitioned(Transitioned(s, id, "Running", now), id, "Failed", later)
         IN  GoodStore(t) /\ StoreStep(s, t) /\ Moves(s, t, id, "Failed", later)
<1> DEFINE m == Transitioned(s, id, "Running", now)
           t == Transitioned(m, id, "Failed", later)
<1>0. /\ s \in Store /\ id \in Live(s) /\ id \in Ops /\ s.records[id] \in Record
      /\ StateOf(s, id) = "Pending" /\ now >= s.records[id].updatedAt
  BY StoreParts, Zenon DEF GoodStore, CanTransition, LegalTransition
<1>1. GoodStore(m) /\ Moves(s, m, id, "Running", now)
  BY TransitionIsGood, Zenon DEF Active
<1> HIDE DEF m
<1>2. /\ Live(m) = Live(s)
      /\ m.records[id] = [s.records[id] EXCEPT !.state = "Running", !.updatedAt = now]
      /\ \A x \in Live(m) \ {id} : m.records[x] = s.records[x]
      /\ m.made = s.made
      /\ m.tokens = [s.tokens EXCEPT ![<<id, s.records[id].token>>] = @]
  BY <1>1, Zenon DEF Moves, Terminal
<1>3. m.records[id].state = "Running" /\ m.records[id].updatedAt = now
      /\ m.records[id].token = s.records[id].token
  BY <1>0, <1>2, Zenon DEF Record
<1>4. CanTransition(m, id, "Failed", later)
  BY <1>0, <1>2, <1>3, Zenon DEF CanTransition, LegalTransition, StateOf
<1>5. GoodStore(t) /\ Moves(m, t, id, "Failed", later)
  BY <1>1, <1>4, TransitionIsGood, Zenon DEF Terminal
<1> HIDE DEF t
<1>6. m.tokens = s.tokens
  BY <1>0, <1>2, StoreParts, Zenon
<1>7. t.records[id] = [s.records[id] EXCEPT !.state = "Failed", !.updatedAt = later]
  <2>1. t.records[id] = [m.records[id] EXCEPT !.state = "Failed", !.updatedAt = later]
    BY <1>5, Zenon DEF Moves
  <2> QED
    BY <1>0, <1>2, <2>1, Zenon DEF Record
<1>8. Moves(s, t, id, "Failed", later)
  <2>1. \A x \in Live(s) \ {id} : StateOf(m, x) = StateOf(s, x)
    BY <1>2, Zenon DEF StateOf
  <2>2. \A x \in Live(s) \ Live(t) : StateOf(s, x) \in Terminal
    BY <1>2, <1>5, <2>1, Zenon DEF Moves
  <2>3. t.tokens = [s.tokens EXCEPT ![<<id, s.records[id].token>>] =
                      IF "Failed" = "Cancelled" THEN "CancelRequested" ELSE @]
    BY <1>3, <1>5, <1>6, Zenon DEF Moves
  <2> QED
    BY <1>0, <1>2, <1>5, <1>7, <2>2, <2>3, Zenon DEF Moves, Terminal
<1>9. MayMove(s, id, "Failed", later)
  <2>1. now \in Nat /\ later \in Nat /\ s.records[id].updatedAt \in Nat
    BY <1>0, StoreAssumption, Zenon DEF Record
  <2> QED
    BY <1>0, <2>1 DEF MayMove
<1> QED
  BY <1>0, <1>5, <1>8, <1>9, Zenon DEF StoreStep, Terminal, m, t

\* A submission the queue refuses: the rollback leaves a good store, which may
\* be one terminal record short.
LEMMA QueueFullStep ==
  ASSUME NEW s, GoodStore(s), NEW id \in Ops, id \notin Live(s), HasRoom(s),
         s.made[id] < MaxIncarnations, NEW command \in Commands, NEW now \in Clock
  PROVE  LET t == RemovedPending(Inserted(s, id, command, now), id)
         IN  GoodStore(t) /\ Trims(s, t)
<1> DEFINE m == Inserted(s, id, command, now)
           t == RemovedPending(m, id)
<1>1. GoodStore(m) /\ Admits(s, m, id) /\ TokenOf(m, id) = "Active"
  BY InsertIsGood, Zenon
<1> HIDE DEF m
<1>2. id \in Live(m) /\ StateOf(m, id) = "Pending"
  BY <1>1, Zenon DEF Admits
<1>3. /\ GoodStore(t)
      /\ Live(t) = Live(m) \ {id}
      /\ \A x \in Live(t) : t.records[x] = m.records[x]
      /\ t.tokens = m.tokens
      /\ t.made = [m.made EXCEPT ![id] = m.made[id] - 1]
  BY <1>1, <1>2, RollbackIsGood, Zenon
<1> HIDE DEF t
<1>4. t.made = s.made
  <2>1. s.made \in [Ops -> 0 .. MaxIncarnations]
    BY StoreParts, Zenon DEF GoodStore
  <2>2. m.made = [s.made EXCEPT ![id] = s.made[id] + 1]
    BY <1>1, Zenon DEF Admits
  <2> QED
    BY <1>3, <2>1, <2>2, StoreAssumption
<1>5. Trims(s, t)
  BY <1>1, <1>3, <1>4, Zenon DEF Trims, Admits
<1> QED
  BY <1>3, <1>5, Zenon DEF m, t

(***************************************************************************)
(* The inductive invariant                                                 *)
(***************************************************************************)
LEMMA EmptyIsGood == GoodStore(EmptyStore)
<1> DEFINE s == EmptyStore
           records == [id \in {} |-> {}]
<1>1. s \in Store
  <2>1. DOMAIN records \subseteq Ops /\ records \in [DOMAIN records -> Record]
    BY Zenon
  <2>2. << >> \in Seq(Ops)
    OBVIOUS
  <2>3. [t \in Ops \X Incarnations |-> "Active"] \in [Ops \X Incarnations -> TokenState]
    BY Zenon DEF TokenState
  <2>4. [id \in Ops |-> 0] \in [Ops -> 0 .. MaxIncarnations]
    BY StoreAssumption
  <2> QED
    BY <2>1, <2>2, <2>3, <2>4, StoreFromParts, Zenon DEF EmptyStore
<1>2. Live(s) = {} /\ s.order = << >>
  BY Zenon DEF EmptyStore, Live
<1>3. Orderly(s)
  BY <1>2 DEF Orderly, Retained
<1>4. Bounded(s)
  BY <1>2, FS_EmptySet, StoreAssumption DEF Bounded
<1>5. TokensAgree(s)
  BY <1>2, Zenon DEF TokensAgree
<1>6. TokensFresh(s)
  BY <1>2, Zenon DEF TokensFresh, EmptyStore
<1> QED
  BY <1>1, <1>3, <1>4, <1>5, <1>6, Zenon DEF GoodStore

LEMMA InitInv == AdmissionInit => AdmissionInv
<1> SUFFICES ASSUME AdmissionInit PROVE AdmissionInv
  BY Zenon
<1>1. GoodStore(store)
  BY EmptyIsGood, Zenon DEF AdmissionInit
<1>2. queue \in Seq(Envelope) /\ Len(queue) <= QueueCapacity /\ dispatcher \in {"up", "fatal"}
  BY QueueAssumption DEF AdmissionInit
<1>3. PendingIsQueued
  BY Zenon DEF AdmissionInit, EmptyStore, Live, PendingIsQueued
<1> QED
  BY <1>1, <1>2, <1>3, Zenon DEF AdmissionInv, AdmissionTypeOK, GoodStore

\* The dispatcher takes the front envelope: every other one stays queued.
LEMMA TakeKeepsOthers ==
  ASSUME AdmissionTypeOK, Take
  PROVE  /\ Head(queue) \in Envelope
         /\ queue' \in Seq(Envelope) /\ Len(queue') <= QueueCapacity
         /\ \A i \in DOMAIN queue : \/ queue[i].id = Head(queue).id
                                   \/ \E j \in DOMAIN queue' : queue'[j].id = queue[i].id
<1>1. /\ queue \in Seq(Envelope) /\ queue # << >> /\ queue' = Tail(queue)
      /\ Len(queue) <= QueueCapacity
  BY Zenon DEF Take, AdmissionTypeOK
<1>2. /\ Head(queue) \in Envelope /\ Head(queue) = queue[1]
      /\ DOMAIN queue = 1 .. Len(queue) /\ Len(queue) \in Nat \ {0}
      /\ queue' \in Seq(Envelope)
      /\ Len(queue') = Len(queue) - 1
      /\ DOMAIN queue' = 1 .. (Len(queue) - 1)
      /\ \A j \in 1 .. (Len(queue) - 1) : queue'[j] = queue[j + 1]
  BY <1>1
<1>3. ASSUME NEW i \in DOMAIN queue, i # 1
      PROVE  \E j \in DOMAIN queue' : queue'[j].id = queue[i].id
  <2>1. i - 1 \in DOMAIN queue' /\ (i - 1) + 1 = i
    BY <1>2, <1>3
  <2> QED
    BY <1>2, <2>1, Zenon
<1>4. Len(queue') <= QueueCapacity
  BY <1>1, <1>2, QueueAssumption
<1> QED
  BY <1>2, <1>3, <1>4, Zenon

\* What every step does: the invariant holds again, and the store changes in
\* one of the ways of StoreStep.
Kept == AdmissionInv' /\ StoreStep(store, store')

\* A step that leaves the queue and the dispatcher alone and creates no new
\* Pending record keeps the invariant if it keeps the store good.
LEMMA QueueUntouched ==
  ASSUME AdmissionInv, UNCHANGED <<queue, dispatcher>>, GoodStore(store'),
         StoreStep(store, store'),
         \A x \in Live(store') : StateOf(store', x) = "Pending" =>
            x \in Live(store) /\ StateOf(store, x) = "Pending"
  PROVE  Kept
BY Zenon DEF Kept, AdmissionInv, AdmissionTypeOK, GoodStore, PendingIsQueued

\* A step of the dispatcher that starts or skips the envelope it took.
LEMMA EnvelopeTaken ==
  ASSUME AdmissionInv, Take, dispatcher' \in {"up", "fatal"}, GoodStore(store'),
         StoreStep(store, store'),
         dispatcher' = "up" =>
           \A x \in Live(store') : StateOf(store', x) = "Pending" =>
             /\ x # Head(queue).id
             /\ x \in Live(store) /\ StateOf(store, x) = "Pending"
  PROVE  Kept
<1>1. AdmissionTypeOK'
  BY TakeKeepsOthers, Zenon DEF AdmissionInv, AdmissionTypeOK, GoodStore
<1>2. PendingIsQueued'
  <2> SUFFICES ASSUME dispatcher' = "up", NEW x \in Live(store'), StateOf(store', x) = "Pending"
               PROVE  \E j \in DOMAIN queue' : queue'[j].id = x
    BY Zenon DEF PendingIsQueued
  <2>1. x # Head(queue).id /\ x \in Live(store) /\ StateOf(store, x) = "Pending"
    BY Zenon
  <2>2. dispatcher = "up"
    BY Zenon DEF Take
  <2>3. PICK i \in DOMAIN queue : queue[i].id = x
    BY <2>1, <2>2, Zenon DEF AdmissionInv, PendingIsQueued
  <2> QED
    BY <2>1, <2>3, TakeKeepsOthers, Zenon DEF AdmissionInv
<1> QED
  BY <1>1, <1>2, Zenon DEF Kept, AdmissionInv

\* Moving one operation out of Pending makes no other one Pending.
LEMMA MoveMakesNoPending ==
  ASSUME NEW s \in Store, NEW t, NEW id, NEW target, target # "Pending", NEW now,
         Moves(s, t, id, target, now)
  PROVE  \A x \in Live(t) : StateOf(t, x) = "Pending" =>
           x # id /\ x \in Live(s) /\ StateOf(s, x) = "Pending"
<1>1. s.records[id] \in Record
  BY StoreParts, Zenon DEF Moves
<1>2. t.records[id].state = target
  BY <1>1, Zenon DEF Moves, Record
<1> QED
  BY <1>2, Zenon DEF Moves, StateOf

LEMMA SubmitKept ==
  ASSUME AdmissionInv, NEW id \in Ops, NEW command \in Commands, Submit(id, command)
  PROVE  Kept
<1>0. GoodStore(store) /\ store \in Store
  BY Zenon DEF AdmissionInv, GoodStore
<1>1. CASE SubmitKnown(id, command)
  BY <1>0, <1>1, SameStore, QueueUntouched, Zenon DEF SubmitKnown, admissionVars
<1>2. CASE SubmitExhausted(id, command)
  <2>1. GoodStore(store') /\ Trims(store, store') /\ UNCHANGED <<queue, dispatcher>>
    BY <1>0, <1>2, MakeRoomIsGood, Zenon DEF SubmitExhausted
  <2> QED
    BY <2>1, QueueUntouched, Zenon DEF Trims, StateOf, StoreStep
<1>3. CASE SubmitQueueFull(id, command)
  <2>1. GoodStore(store') /\ Trims(store, store') /\ UNCHANGED <<queue, dispatcher>>
    BY <1>0, <1>3, QueueFullStep, Zenon DEF SubmitQueueFull
  <2> QED
    BY <2>1, QueueUntouched, Zenon DEF Trims, StateOf, StoreStep
<1>4. CASE SubmitAdmitted(id, command)
  <2>1. GoodStore(store') /\ Admits(store, store', id)
    BY <1>0, <1>4, InsertIsGood, Zenon DEF SubmitAdmitted
  <2>2. /\ queue \in Seq(Envelope) /\ Len(queue) < QueueCapacity
        /\ queue' = Append(queue, [id |-> id, command |-> command])
        /\ [id |-> id, command |-> command] \in Envelope
        /\ dispatcher' = dispatcher /\ dispatcher \in {"up", "fatal"}
    BY <1>4, Zenon DEF SubmitAdmitted, AdmissionInv, AdmissionTypeOK, Envelope
  <2>3. /\ queue' \in Seq(Envelope) /\ Len(queue') = Len(queue) + 1 /\ Len(queue) \in Nat
        /\ DOMAIN queue = 1 .. Len(queue) /\ DOMAIN queue' = 1 .. (Len(queue) + 1)
        /\ \A i \in 1 .. Len(queue) : queue'[i] = queue[i]
        /\ queue'[Len(queue) + 1] = [id |-> id, command |-> command]
    BY <2>2, AppendProperties, LenProperties
  <2>4. AdmissionTypeOK'
    BY <2>1, <2>2, <2>3, QueueAssumption DEF AdmissionTypeOK, GoodStore
  <2>5. PendingIsQueued'
    <3> SUFFICES ASSUME dispatcher' = "up", NEW x \in Live(store'), StateOf(store', x) = "Pending"
                 PROVE  \E j \in DOMAIN queue' : queue'[j].id = x
      BY Zenon DEF PendingIsQueued
    <3>1. CASE x = id
      BY <2>3, <3>1
    <3>2. CASE x # id
      <4>1. x \in Live(store) /\ StateOf(store, x) = "Pending"
        BY <2>1, <3>2, Zenon DEF Admits, StateOf
      <4>2. PICK i \in DOMAIN queue : queue[i].id = x
        BY <4>1, <2>2, Zenon DEF AdmissionInv, PendingIsQueued
      <4> QED
        BY <2>3, <4>2
    <3> QED
      BY <3>1, <3>2, Zenon
  <2> QED
    BY <2>1, <2>4, <2>5, Zenon DEF Kept, AdmissionInv, StoreStep
<1> QED
  BY <1>1, <1>2, <1>3, <1>4, Zenon DEF Submit

LEMMA OwnerKept ==
  ASSUME AdmissionInv, NEW id \in Ops,
         \/ Cancel(id)
         \/ CancelRefused(id)
         \/ MarkCommitted(id)
         \/ \E target \in {"Completed", "Failed"} : Finish(id, target)
  PROVE  Kept
<1>0. GoodStore(store) /\ store \in Store
  BY Zenon DEF AdmissionInv, GoodStore
<1>1. ASSUME NEW target \in Terminal, NEW now \in Clock,
             CanTransition(store, id, target, now),
             store' = Transitioned(store, id, target, now),
             UNCHANGED <<queue, dispatcher>>
      PROVE  Kept
  <2>1. GoodStore(store') /\ StoreStep(store, store') /\ Moves(store, store', id, target, now)
    BY <1>0, <1>1, TransitionStep, Zenon
  <2>2. target # "Pending"
    BY Zenon DEF Terminal
  <2> QED
    BY <1>0, <1>1, <2>1, <2>2, MoveMakesNoPending, QueueUntouched, Zenon
<1>2. CASE Cancel(id)
  BY <1>1, <1>2, Zenon DEF Cancel, Terminal
<1>3. CASE CancelRefused(id)
  BY <1>0, <1>3, SameStore, QueueUntouched, Zenon DEF CancelRefused, admissionVars
<1>4. CASE MarkCommitted(id)
  <2>1. GoodStore(store') /\ Commits(store, store', id) /\ UNCHANGED <<queue, dispatcher>>
    BY <1>0, <1>4, CommitIsGood, Zenon DEF MarkCommitted
  <2>2. store.records[id] \in Record
    BY <1>0, <2>1, StoreParts, Zenon DEF Commits
  <2>3. StateOf(store', id) = StateOf(store, id)
    BY <2>1, <2>2, Zenon DEF Commits, StateOf, Record
  <2> QED
    BY <1>4, <2>1, <2>3, QueueUntouched, Zenon DEF Commits, StateOf, StoreStep, MarkCommitted
<1>5. CASE \E target \in {"Completed", "Failed"} : Finish(id, target)
  BY <1>1, <1>5, Zenon DEF Finish, Terminal
<1> QED
  BY <1>2, <1>3, <1>4, <1>5, Zenon

LEMMA DispatchKept ==
  ASSUME AdmissionInv,
         \/ DispatchCancelled \/ Dispatched \/ DispatchRejected \/ DispatchFatal \/ RejectFatal
  PROVE  Kept
<1> DEFINE id == Head(queue).id
<1>0. GoodStore(store) /\ store \in Store /\ dispatcher \in {"up", "fatal"}
  BY Zenon DEF AdmissionInv, GoodStore, AdmissionTypeOK
<1>1. ASSUME NEW now \in Clock, CanStart(id, now), Take, dispatcher' \in {"up", "fatal"},
             store' = Transitioned(store, id, "Running", now)
      PROVE  Kept
  <2>1. GoodStore(store') /\ StoreStep(store, store') /\ Moves(store, store', id, "Running", now)
    BY <1>0, <1>1, TransitionStep, Zenon DEF CanStart, Active
  <2>2. \A x \in Live(store') : StateOf(store', x) = "Pending" =>
          x # id /\ x \in Live(store) /\ StateOf(store, x) = "Pending"
    BY <1>0, <2>1, MoveMakesNoPending, Zenon
  <2> QED
    BY <1>1, <2>1, <2>2, EnvelopeTaken, Zenon
<1>2. CASE DispatchCancelled
  <2>1. \A x \in Live(store) : StateOf(store, x) = "Pending" => x # id
    BY <1>2, Zenon DEF DispatchCancelled
  <2> QED
    BY <1>0, <1>2, <2>1, SameStore, EnvelopeTaken, Zenon DEF DispatchCancelled
<1>3. CASE Dispatched
  BY <1>0, <1>1, <1>3, Zenon DEF Dispatched
<1>4. CASE DispatchRejected
  <2>1. PICK now \in Clock, later \in Clock :
          /\ CanStart(id, now) /\ later >= now
          /\ store' = Transitioned(Transitioned(store, id, "Running", now), id, "Failed", later)
    BY <1>4, Zenon DEF DispatchRejected
  <2>2. GoodStore(store') /\ StoreStep(store, store') /\ Moves(store, store', id, "Failed", later)
    BY <1>0, <2>1, RejectStep, Zenon DEF CanStart
  <2>3. \A x \in Live(store') : StateOf(store', x) = "Pending" =>
          x # id /\ x \in Live(store) /\ StateOf(store, x) = "Pending"
    BY <1>0, <2>2, MoveMakesNoPending, Zenon
  <2> QED
    BY <1>0, <1>4, <2>2, <2>3, EnvelopeTaken, Zenon DEF DispatchRejected
<1>5. CASE DispatchFatal
  BY <1>0, <1>5, SameStore, EnvelopeTaken, Zenon DEF DispatchFatal
<1>6. CASE RejectFatal
  BY <1>1, <1>6, Zenon DEF RejectFatal
<1> QED
  BY <1>2, <1>3, <1>4, <1>5, <1>6, Zenon

\* Every step of admission, stuttering included.
LEMMA NextKept ==
  ASSUME AdmissionInv, [AdmissionNext]_admissionVars
  PROVE  Kept
<1>1. CASE \E id \in Ops, command \in Commands : Submit(id, command)
  BY <1>1, SubmitKept, Zenon
<1>2. CASE \E id \in Ops : \/ Cancel(id) \/ CancelRefused(id) \/ MarkCommitted(id)
                          \/ \E target \in {"Completed", "Failed"} : Finish(id, target)
  BY <1>2, OwnerKept, Zenon
<1>3. CASE \/ DispatchCancelled \/ Dispatched \/ DispatchRejected \/ DispatchFatal \/ RejectFatal
  BY <1>3, DispatchKept, Zenon
<1>4. CASE UNCHANGED admissionVars
  <2>1. GoodStore(store)
    BY Zenon DEF AdmissionInv
  <2> QED
    BY <1>4, <2>1, SameStore, QueueUntouched, Zenon DEF admissionVars
<1> QED
  BY <1>1, <1>2, <1>3, <1>4, Zenon DEF AdmissionNext

(***************************************************************************)
(* Theorems                                                                *)
(***************************************************************************)

\* The inductive invariant holds in every reachable state.
THEOREM InvariantHolds == AdmissionSpec => []AdmissionInv
<1>1. AdmissionInv /\ [AdmissionNext]_admissionVars => AdmissionInv'
  BY NextKept, Zenon DEF Kept
<1> QED
  BY <1>1, InitInv, PTL DEF AdmissionSpec

\* Type correctness of admission.
THEOREM TypeCorrect == AdmissionSpec => []AdmissionTypeOK
<1>1. AdmissionInv => AdmissionTypeOK
  BY Zenon DEF AdmissionInv
<1> QED
  BY <1>1, InvariantHolds, PTL

\* The terminal order of OperationStore is exact: it lists each terminal
\* record once and nothing else, so eviction always frees a record.
THEOREM OrderExact == AdmissionSpec => []OrderIsTerminal
<1>1. AdmissionInv => OrderIsTerminal
  BY Zenon DEF AdmissionInv, GoodStore, OrderIsTerminal
<1> QED
  BY <1>1, InvariantHolds, PTL

\* Neither capacity of OperationStore::new is ever exceeded.
THEOREM CapacityHolds == AdmissionSpec => []WithinCapacity
<1>1. AdmissionInv => WithinCapacity
  BY Zenon DEF AdmissionInv, GoodStore, WithinCapacity
<1> QED
  BY <1>1, InvariantHolds, PTL

\* An operation's record and the token its owner holds always agree.
THEOREM TokensConsistent == AdmissionSpec => []TokenAgrees
<1>1. AdmissionInv => TokenAgrees
  BY Zenon DEF AdmissionInv, GoodStore, TokenAgrees
<1> QED
  BY <1>1, InvariantHolds, PTL

\* While the dispatcher runs, a Pending operation is still queued.
THEOREM PendingQueued == AdmissionSpec => []PendingIsQueued
<1>1. AdmissionInv => PendingIsQueued
  BY Zenon DEF AdmissionInv
<1> QED
  BY <1>1, InvariantHolds, PTL

\* No step drops a record that is Pending or Running.
THEOREM ActiveKept == AdmissionSpec => ActiveNeverEvicted
<1>1. AdmissionInv /\ [AdmissionNext]_admissionVars => ActiveStays
  <2> SUFFICES ASSUME AdmissionInv, StoreStep(store, store') PROVE ActiveStays
    BY NextKept, Zenon DEF Kept
  <2> QED
    BY Zenon DEF StoreStep, ActiveStays, Trims, Admits, Commits, Moves, Active, Terminal
<1> QED
  BY <1>1, InvariantHolds, PTL DEF AdmissionSpec, ActiveNeverEvicted

\* A terminal state is final and a commit point is never forgotten.
THEOREM OutcomesFinal == AdmissionSpec => TerminalIsFinal
<1>1. AdmissionInv /\ [AdmissionNext]_admissionVars => HistoryKept
  <2> SUFFICES ASSUME store \in Store, StoreStep(store, store'),
                      NEW x \in Live(store), x \in Live(store'),
                      store'.made[x] = store.made[x]
               PROVE  /\ StateOf(store, x) \in Terminal => store'.records[x] = store.records[x]
                      /\ store.records[x].commit => store'.records[x].commit
    BY NextKept, Zenon DEF Kept, AdmissionInv, GoodStore, HistoryKept
  <2>1. CASE Trims(store, store')
    BY <2>1, Zenon DEF Trims
  <2>2. CASE \E id \in Ops : Admits(store, store', id)
    BY <2>2, Zenon DEF Admits
  <2>3. CASE \E id \in Ops : CanCommit(store, id) /\ Commits(store, store', id)
    <3>1. PICK id \in Ops : CanCommit(store, id) /\ Commits(store, store', id)
      BY <2>3, Zenon
    <3>2. StateOf(store, id) \notin Terminal
      BY <3>1, Zenon DEF CanCommit, Terminal
    <3>3. store'.records[id].commit = TRUE
      <4>1. store.records[id] \in Record /\ store'.records[id] = [store.records[id] EXCEPT !.commit = TRUE]
        BY <3>1, StoreParts, Zenon DEF Commits
      <4> QED
        BY <4>1, Zenon DEF Record
    <3>4. x # id => store'.records[x] = store.records[x]
      BY <3>1, Zenon DEF Commits
    <3> QED
      BY <3>2, <3>3, <3>4, Zenon
  <2>4. CASE \E id \in Ops, target \in Active \cup Terminal, now \in Clock :
               MayMove(store, id, target, now) /\ Moves(store, store', id, target, now)
    <3>1. PICK id \in Ops, target \in Active \cup Terminal, now \in Clock :
            MayMove(store, id, target, now) /\ Moves(store, store', id, target, now)
      BY <2>4, Zenon
    <3>2. StateOf(store, id) \notin Terminal
      BY <3>1, Zenon DEF MayMove, LegalTransition, Terminal
    <3>3. store'.records[id].commit = store.records[id].commit
      <4>1. /\ store.records[id] \in Record
            /\ store'.records[id] = [store.records[id] EXCEPT !.state = target, !.updatedAt = now]
        BY <3>1, StoreParts, Zenon DEF Moves
      <4> QED
        BY <4>1, Zenon DEF Record
    <3> QED
      BY <3>1, <3>2, <3>3, Zenon DEF Moves
  <2> QED
    BY <2>1, <2>2, <2>3, <2>4, Zenon DEF StoreStep
<1> QED
  BY <1>1, InvariantHolds, PTL DEF AdmissionSpec, TerminalIsFinal

\* updated_at never decreases, whatever the wall clock shows.
THEOREM TimeMonotone == AdmissionSpec => TimeNeverMovesBack
<1>1. AdmissionInv /\ [AdmissionNext]_admissionVars => TimesKept
  <2> SUFFICES ASSUME store \in Store, StoreStep(store, store'),
                      NEW x \in Live(store), x \in Live(store'),
                      store'.made[x] = store.made[x]
               PROVE  store'.records[x].updatedAt >= store.records[x].updatedAt
    BY NextKept, Zenon DEF Kept, AdmissionInv, GoodStore, TimesKept
  <2>0. store.records[x].updatedAt \in Nat
    BY StoreParts, StoreAssumption, Zenon DEF Record
  <2>1. CASE Trims(store, store')
    BY <2>0, <2>1 DEF Trims
  <2>2. CASE \E id \in Ops : Admits(store, store', id)
    BY <2>0, <2>2 DEF Admits
  <2>3. CASE \E id \in Ops : CanCommit(store, id) /\ Commits(store, store', id)
    <3>1. PICK id \in Ops : CanCommit(store, id) /\ Commits(store, store', id)
      BY <2>3, Zenon
    <3>2. store'.records[id].updatedAt = store.records[id].updatedAt
      <4>1. store.records[id] \in Record /\ store'.records[id] = [store.records[id] EXCEPT !.commit = TRUE]
        BY <3>1, StoreParts, Zenon DEF Commits
      <4> QED
        BY <4>1, Zenon DEF Record
    <3>3. x # id => store'.records[x] = store.records[x]
      BY <3>1, Zenon DEF Commits
    <3> QED
      BY <2>0, <3>2, <3>3
  <2>4. CASE \E id \in Ops, target \in Active \cup Terminal, now \in Clock :
               MayMove(store, id, target, now) /\ Moves(store, store', id, target, now)
    <3>1. PICK id \in Ops, target \in Active \cup Terminal, now \in Clock :
            MayMove(store, id, target, now) /\ Moves(store, store', id, target, now)
      BY <2>4, Zenon
    <3>2. store'.records[id].updatedAt = now /\ now >= store.records[id].updatedAt
      <4>1. /\ store.records[id] \in Record
            /\ store'.records[id] = [store.records[id] EXCEPT !.state = target, !.updatedAt = now]
        BY <3>1, StoreParts, Zenon DEF Moves
      <4> QED
        BY <3>1, <4>1, Zenon DEF Record, MayMove
    <3>3. x # id => store'.records[x] = store.records[x]
      BY <3>1, Zenon DEF Moves
    <3> QED
      BY <2>0, <3>2, <3>3
  <2> QED
    BY <2>1, <2>2, <2>3, <2>4, Zenon DEF StoreStep
<1> QED
  BY <1>1, InvariantHolds, PTL DEF AdmissionSpec, TimeNeverMovesBack

\* A token that was cancelled or committed stays so, even after its record is
\* evicted and its id admitted again.
THEOREM TokensOneWay == AdmissionSpec => TokenIsOneWay
<1>1. AdmissionInv /\ [AdmissionNext]_admissionVars => RequestsKept
  <2> SUFFICES ASSUME store \in Store, TokensAgree(store), StoreStep(store, store'),
                      NEW k \in Ops \X Incarnations, store.tokens[k] # "Active"
               PROVE  store'.tokens[k] = store.tokens[k]
    BY NextKept, Zenon DEF Kept, AdmissionInv, GoodStore, RequestsKept
  <2>0. store.tokens \in [Ops \X Incarnations -> TokenState]
    BY StoreParts, Zenon
  <2>1. CASE Trims(store, store') \/ \E id \in Ops : Admits(store, store', id)
    BY <2>1, Zenon DEF Trims, Admits
  <2>2. CASE \E id \in Ops : CanCommit(store, id) /\ Commits(store, store', id)
    <3>1. PICK id \in Ops : CanCommit(store, id) /\ Commits(store, store', id)
      BY <2>2, Zenon
    <3>2. /\ store'.tokens = [store.tokens EXCEPT ![<<id, store.records[id].token>>] = "Committed"]
          /\ store.tokens[<<id, store.records[id].token>>] # "CancelRequested"
      BY <3>1, Zenon DEF Commits, CanCommit, TokenOf
    <3> QED
      BY <2>0, <3>2, Zenon DEF TokenState
  <2>3. CASE \E id \in Ops, target \in Active \cup Terminal, now \in Clock :
               MayMove(store, id, target, now) /\ Moves(store, store', id, target, now)
    <3>1. PICK id \in Ops, target \in Active \cup Terminal, now \in Clock :
            MayMove(store, id, target, now) /\ Moves(store, store', id, target, now)
      BY <2>3, Zenon
    <3>2. store'.tokens = [store.tokens EXCEPT ![<<id, store.records[id].token>>] =
                             IF target = "Cancelled" THEN "CancelRequested" ELSE @]
      BY <3>1, Zenon DEF Moves
    <3>3. /\ StateOf(store, id) # "Cancelled"
          /\ target = "Cancelled" => TokenOf(store, id) # "Committed"
      BY <3>1, Zenon DEF MayMove, LegalTransition
    <3>4. TokenOf(store, id) # "CancelRequested"
      BY <3>1, <3>3, Zenon DEF TokensAgree, MayMove
    <3> QED
      BY <2>0, <3>2, <3>3, <3>4, Zenon DEF TokenState, TokenOf
  <2> QED
    BY <2>1, <2>2, <2>3, Zenon DEF StoreStep
<1> QED
  BY <1>1, InvariantHolds, PTL DEF AdmissionSpec, TokenIsOneWay

(***************************************************************************)
(* Refinement                                                              *)
(***************************************************************************)

\* The phase a client reads, as a function of the store.
Phase(s) == [op \in Ops |-> IF op \in Live(s) THEN StateOf(s, op) ELSE "Absent"]

LEMMA PhasesTyped ==
  ASSUME NEW s \in Store
  PROVE  Phase(s) \in [Ops -> Lifecycle!Phases]
<1>1. \A op \in Live(s) : StateOf(s, op) \in Active \cup Terminal
  BY StoreParts, Zenon DEF StateOf, Record
<1> QED
  BY <1>1, Zenon DEF Phase, Lifecycle!Phases, Lifecycle!Outcomes, Active, Terminal

\* Dropping a terminal record is a Forget step.
LEMMA TrimForgets ==
  ASSUME store \in Store, store' \in Store, Trims(store, store')
  PROVE  Lifecycle!Forget
<1>1. PhaseOf = Phase(store) /\ PhaseOf' = Phase(store')
  BY Zenon DEF PhaseOf, Phase
<1>2. Phase(store') \in [Ops -> Lifecycle!Phases]
  BY PhasesTyped, Zenon
<1>3. ASSUME NEW op \in Ops
      PROVE  \/ Phase(store')[op] = Phase(store)[op]
             \/ /\ Phase(store)[op] \in Lifecycle!Outcomes /\ Phase(store')[op] = "Absent"
                /\ op \in Live(store) \ Live(store')
  BY Zenon DEF Phase, Trims, StateOf, Terminal, Lifecycle!Outcomes
<1>4. \A op \in Ops : Phase(store)[op] \in Lifecycle!Outcomes /\ Phase(store')[op] = "Absent"
        => op \in Live(store) \ Live(store')
  <2>1. "Absent" \notin Lifecycle!Outcomes
    BY Zenon DEF Lifecycle!Outcomes
  <2> QED
    BY <1>3, <2>1, Zenon
<1>5. \A a, b \in Live(store) \ Live(store') : a = b
  BY Zenon DEF Trims
<1> QED
  BY <1>1, <1>2, <1>3, <1>4, <1>5, Zenon
  DEF Lifecycle!Forget, Lifecycle!Forgotten, Lifecycle!ForgetsAtMostOne

\* A step that advances `op` and drops at most one other, terminal, record.
LEMMA AdvanceSteps ==
  ASSUME store \in Store, store' \in Store, NEW op \in Ops,
         <<Phase(store)[op], Phase(store')[op]>> \in Lifecycle!Advance,
         \A x \in Ops \ {op} :
           \/ Phase(store')[x] = Phase(store)[x]
           \/ x \in Live(store) \ Live(store') /\ StateOf(store, x) \in Terminal,
         \A a, b \in Live(store) \ Live(store') : a = b,
         op \in Live(store')
  PROVE  Lifecycle!Step(op)
<1>1. PhaseOf = Phase(store) /\ PhaseOf' = Phase(store')
  BY Zenon DEF PhaseOf, Phase
<1>2. Phase(store') \in [Ops -> Lifecycle!Phases]
  BY PhasesTyped, Zenon
<1>3. \A x \in Ops : x \in Live(store) \ Live(store') /\ StateOf(store, x) \in Terminal =>
        Phase(store)[x] \in Lifecycle!Outcomes /\ Phase(store')[x] = "Absent"
  BY Zenon DEF Phase, Terminal, Lifecycle!Outcomes
<1>4. \A x \in Ops : Phase(store)[x] \in Lifecycle!Outcomes /\ Phase(store')[x] = "Absent"
        => x \in Live(store) \ Live(store')
  <2>1. \A x \in Ops : x \notin Live(store) => Phase(store)[x] = "Absent"
    BY Zenon DEF Phase
  <2>2. \A x \in Live(store') : StateOf(store', x) # "Absent"
    <3>1. \A x \in Live(store') : StateOf(store', x) \in Active \cup Terminal
      BY StoreParts, Zenon DEF StateOf, Record
    <3> QED
      BY <3>1, Zenon DEF Active, Terminal
  <2>3. \A x \in Ops : x \in Live(store') => Phase(store')[x] # "Absent"
    BY <2>2, Zenon DEF Phase
  <2> QED
    BY <2>1, <2>3, Zenon DEF Lifecycle!Outcomes
<1> QED
  BY <1>1, <1>2, <1>3, <1>4, Zenon
  DEF Lifecycle!Step, Lifecycle!Forgotten, Lifecycle!ForgetsAtMostOne

\* Admission implements the lifecycle promised to clients: at most one
\* operation advances per step, along the legal transitions, and only an
\* operation with an outcome is ever forgotten.
THEOREM ImplementsLifecycle == AdmissionSpec => KeepsLifecycle
<1>1. AdmissionInit => Lifecycle!LifecycleInit
  BY DEF AdmissionInit, EmptyStore, Live, PhaseOf, Lifecycle!LifecycleInit
<1>2. AdmissionInv /\ [AdmissionNext]_admissionVars => [Lifecycle!LifecycleNext]_PhaseOf
  <2> SUFFICES ASSUME store \in Store, store' \in Store, StoreStep(store, store')
               PROVE  [Lifecycle!LifecycleNext]_PhaseOf
    BY NextKept, Zenon DEF Kept, AdmissionInv, GoodStore
  <2>1. CASE Trims(store, store')
    BY <2>1, TrimForgets, Zenon DEF Lifecycle!LifecycleNext
  <2>2. CASE \E id \in Ops : Admits(store, store', id)
    <3>1. PICK id \in Ops : Admits(store, store', id)
      BY <2>2, Zenon
    <3>2. Phase(store)[id] = "Absent" /\ Phase(store')[id] = "Pending"
      BY <3>1, Zenon DEF Admits, Phase
    <3>3. \A x \in Ops \ {id} :
            \/ Phase(store')[x] = Phase(store)[x]
            \/ x \in Live(store) \ Live(store') /\ StateOf(store, x) \in Terminal
      BY <3>1, Zenon DEF Admits, Phase, StateOf
    <3>4. id \in Live(store') /\ \A a, b \in Live(store) \ Live(store') : a = b
      BY <3>1, Zenon DEF Admits
    <3>5. <<Phase(store)[id], Phase(store')[id]>> \in Lifecycle!Advance
      BY <3>2, Zenon DEF Lifecycle!Advance
    <3> QED
      BY <3>3, <3>4, <3>5, AdvanceSteps, Zenon DEF Lifecycle!LifecycleNext
  <2>3. CASE \E id \in Ops : CanCommit(store, id) /\ Commits(store, store', id)
    <3>1. PICK id \in Ops : CanCommit(store, id) /\ Commits(store, store', id)
      BY <2>3, Zenon
    <3>2. StateOf(store', id) = StateOf(store, id)
      <4>1. store.records[id] \in Record /\ store'.records[id] = [store.records[id] EXCEPT !.commit = TRUE]
        BY <3>1, StoreParts, Zenon DEF Commits
      <4> QED
        BY <4>1, Zenon DEF Record, StateOf
    <3>3. PhaseOf' = PhaseOf
      BY <3>1, <3>2, Zenon DEF Commits, PhaseOf, StateOf
    <3> QED
      BY <3>3, Zenon
  <2>4. CASE \E id \in Ops, target \in Active \cup Terminal, now \in Clock :
               MayMove(store, id, target, now) /\ Moves(store, store', id, target, now)
    <3>1. PICK id \in Ops, target \in Active \cup Terminal, now \in Clock :
            MayMove(store, id, target, now) /\ Moves(store, store', id, target, now)
      BY <2>4, Zenon
    <3>2. StateOf(store', id) = target
      <4>1. /\ store.records[id] \in Record
            /\ store'.records[id] = [store.records[id] EXCEPT !.state = target, !.updatedAt = now]
        BY <3>1, StoreParts, Zenon DEF Moves
      <4> QED
        BY <4>1, Zenon DEF Record, StateOf
    <3>3. Phase(store)[id] = StateOf(store, id) /\ Phase(store')[id] = target
      BY <3>1, <3>2, Zenon DEF Moves, Phase
    <3>4. <<Phase(store)[id], Phase(store')[id]>> \in Lifecycle!Advance
      BY <3>1, <3>3, Zenon DEF MayMove, LegalTransition, Lifecycle!Advance, Lifecycle!Outcomes
    <3>5. \A x \in Ops \ {id} :
            \/ Phase(store')[x] = Phase(store)[x]
            \/ x \in Live(store) \ Live(store') /\ StateOf(store, x) \in Terminal
      BY <3>1, Zenon DEF Moves, Phase, StateOf
    <3>6. id \in Live(store') /\ \A a, b \in Live(store) \ Live(store') : a = b
      BY <3>1, Zenon DEF Moves
    <3> QED
      BY <3>4, <3>5, <3>6, AdvanceSteps, Zenon DEF Lifecycle!LifecycleNext
  <2> QED
    BY <2>1, <2>2, <2>3, <2>4, Zenon DEF StoreStep
<1> QED
  BY <1>1, <1>2, InvariantHolds, PTL DEF AdmissionSpec, KeepsLifecycle, Lifecycle!LifecycleSpec
=============================================================================
