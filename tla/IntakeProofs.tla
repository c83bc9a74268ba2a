---------------------------- MODULE IntakeProofs ----------------------------
(***************************************************************************)
(* Theorems about the nodes a daemon is given: the subscriptions it        *)
(* fetches them from, and the one the operator picked.  Each part has one  *)
(* lemma per action or group of like actions, saying that it keeps the     *)
(* part's invariant.                                                       *)
(***************************************************************************)
EXTENDS Selection, Subscriptions, TLAPS

-----------------------------------------------------------------------------
(***************************************************************************)
(* The operator's node choice.  PickKnows, ReconcilerKnows and CoreKnows   *)
(* make SelInv inductive: what a command, the reconciler or a starting     *)
(* core took before a lock was released is still good when it is used, or  *)
(* the history says what has overtaken it.                                 *)
(***************************************************************************)

\* A record is no empty one: their cores differ.
LEMMA RecordsAreRecords ==
    \A r \in Records : r # NoRecord /\ r.core # NoRecord.core /\ NoRecord.core \notin Cores
BY DEF Records, NoRecord, Cores

\* A spelling names one node or one name.
LEMMA SpellingsDiffer ==
    \A a, b : /\ Name(a) = Name(b) => a = b
              /\ Tag(a) = Tag(b) => a = b
              /\ Tag(a) # Name(b)
BY DEF Tag, Name

\* A node or the default, and never both.
LEMMA FindNodeFinds ==
    ASSUME NEW x
    PROVE  \/ Named(x) = {} /\ FindNode(x) = GroupDefault
           \/ FindNode(x) \in Named(x) /\ FindNode(x) \in Nodes
<1>1. Named(x) # {} => (CHOOSE n \in Named(x) : TRUE) \in Named(x)
    BY Zenon
<1> QED BY <1>1, Zenon DEF FindNode, Named

\* What an appended or a taken event says of a change still waiting.
LEMMA ChangedByAppend ==
    ASSUME NEW q \in Seq(BOOLEAN), NEW e \in BOOLEAN
    PROVE  Changed(Append(q, e)) <=> Changed(q) \/ e
<1>1. Len(Append(q, e)) = Len(q) + 1 /\ Len(q) \in Nat
    OBVIOUS
<1>2. \A i \in 1..Len(q) : Append(q, e)[i] = q[i]
    OBVIOUS
<1>3. Append(q, e)[Len(q) + 1] = e
    OBVIOUS
<1> QED BY <1>1, <1>2, <1>3 DEF Changed

LEMMA ChangedByTail ==
    ASSUME NEW q \in Seq(BOOLEAN), q # <<>>
    PROVE  /\ Tail(q) \in Seq(BOOLEAN) /\ Head(q) \in BOOLEAN
           /\ \A n \in Nat : Len(q) <= n => Len(Tail(q)) <= n
           /\ Changed(q) => Changed(Tail(q)) \/ Head(q)
<1>1. Len(q) \in Nat /\ Len(q) > 0 /\ Len(Tail(q)) = Len(q) - 1 /\ Tail(q) \in Seq(BOOLEAN)
    OBVIOUS
<1>2. \A i \in 1..Len(Tail(q)) : Tail(q)[i] = q[i + 1]
    OBVIOUS
<1>3. Head(q) = q[1] /\ q[1] \in BOOLEAN
    BY <1>1
<1>4. ASSUME NEW i \in 1..Len(q), q[i] PROVE Changed(Tail(q)) \/ Head(q)
    <2>1. CASE i = 1
        BY <1>3, <1>4, <2>1, Zenon
    <2>2. CASE i # 1
        <3>1. i - 1 \in 1..Len(Tail(q)) /\ Tail(q)[i - 1] = q[i]
            BY <1>1, <1>2, <2>2
        <3>2. Tail(q)[i - 1]
            BY <3>1, <1>4, Zenon
        <3> QED BY <3>1, <3>2, Zenon DEF Changed
    <2> QED BY <2>1, <2>2, Zenon
<1>5. Changed(q) => Changed(Tail(q)) \/ Head(q)
    <2> SUFFICES ASSUME \E i \in 1..Len(q) : q[i] PROVE Changed(Tail(q)) \/ Head(q)
        BY Zenon DEF Changed
    <2> QED BY <1>4, Zenon
<1>6. \A n \in Nat : Len(q) <= n => Len(Tail(q)) <= n
    BY <1>1
<1> QED BY <1>1, <1>3, <1>5, <1>6, Zenon

LEMMA SelInitHolds == SelInit => SelInv
<1> SUFFICES ASSUME SelInit PROVE SelInv
    BY Zenon
<1>1. registry \in [Nodes -> Names \cup {Absent}] /\ Distinct(registry) /\ feedOf \in [Nodes -> Feeds \cup {NoFeed}]
    <2>1. registry \in [Nodes -> Names] /\ Distinct(registry) /\ feedOf \in [Nodes -> Feeds]
        BY Zenon DEF SelInit
    <2> QED BY <2>1
<1>2. calls \in 0..MaxCalls /\ choiceEvents \in Seq(BOOLEAN) /\ Len(choiceEvents) <= EventCap
    BY SelBounds DEF SelInit
<1>3. SelTypeOK
    BY <1>1, <1>2, Zenon DEF SelInit, SelTypeOK
<1>4. CoreKnows
    BY <1>1, Zenon DEF SelInit, CoreKnows, Accepts
<1> QED BY <1>3, <1>4, Zenon DEF SelInit, SelInv, RecordIsLastPick, NameFollowsNode, PickKnows, ReconcilerKnows

-----------------------------------------------------------------------------
\* The conjuncts that say nothing of what a step leaves alone.
LEMMA CoreKept ==
    ASSUME CoreKnows, UNCHANGED <<kernel, active, restoring>> PROVE CoreKnows'
BY Zenon DEF CoreKnows, Accepts, Distinct, Served, Foreign

LEMMA CountedKept == ASSUME SelTypeOK, Counted PROVE calls' \in 0..MaxCalls
BY SelBounds DEF SelTypeOK, Counted

LEMMA IndexNamesKeeps ==
    ASSUME SelInv, NEW feed \in Feeds, NEW entries \in [Nodes -> Names \cup {Absent}], IndexNames(feed, entries)
    PROVE  SelInv'
<1> USE DEF SelInv, IndexNames, coreVars, reconcilerVars, choiceVars
<1>1. calls' \in 0..MaxCalls
    BY CountedKept, Zenon
<1>2. registry' \in [Nodes -> Names \cup {Absent}]
    BY DEF SelTypeOK
<1>3. feedOf' \in [Nodes -> Feeds \cup {NoFeed}]
    BY DEF SelTypeOK
<1>4. SelTypeOK'
    BY <1>1, <1>2, <1>3, Zenon DEF SelTypeOK
<1>5. CoreKnows'
    BY CoreKept, Zenon
<1> QED BY <1>4, <1>5, Zenon DEF RecordIsLastPick, NameFollowsNode, PickKnows, ReconcilerKnows, CaughtUp

LEMMA PublishRefreshKeeps ==
    ASSUME SelInv, NEW said \in {"changed", "unchanged", "error"}, PublishRefresh(said) PROVE SelInv'
<1> USE DEF SelInv, PublishRefresh, coreVars, reconcilerVars
<1>1. choiceEvents' \in Seq(BOOLEAN) /\ Len(choiceEvents') <= EventCap
    <2>1. choiceEvents \in Seq(BOOLEAN) /\ Len(choiceEvents) \in Nat /\ Len(choiceEvents) <= EventCap
        BY DEF SelTypeOK
    <2>2. Append(choiceEvents, said = "changed") \in Seq(BOOLEAN)
        BY <2>1
    <2>3. Len(Append(choiceEvents, said = "changed")) = Len(choiceEvents) + 1
        BY <2>1
    <2>4. Len(choiceEvents) < EventCap => Len(choiceEvents) + 1 <= EventCap
        BY <2>1, SelBounds
    <2> QED BY <2>1, <2>2, <2>3, <2>4, Zenon
<1>2. SelTypeOK'
    <2>1. calls' \in 0..MaxCalls
        BY CountedKept, Zenon DEF SelTypeOK
    <2> QED BY <1>1, <2>1, Zenon DEF SelTypeOK
<1>3. (unpublished \/ Changed(choiceEvents) \/ lagging) => (Changed(choiceEvents') \/ lagging')
    <2>1. choiceEvents \in Seq(BOOLEAN) /\ (Len(choiceEvents) < EventCap \/ Len(choiceEvents) = EventCap)
        BY SelBounds DEF SelTypeOK
    <2>2. Changed(Append(choiceEvents, said = "changed")) <=> Changed(choiceEvents) \/ said = "changed"
        BY <2>1, ChangedByAppend, Zenon
    <2>3. \/ choiceEvents' = choiceEvents
          \/ Changed(choiceEvents') <=> Changed(choiceEvents) \/ said = "changed"
        BY <2>2, Zenon
    <2>4. Changed(choiceEvents) => Changed(choiceEvents')
        BY <2>3, Zenon
    <2>5. (unpublished /\ said = "changed" /\ Len(choiceEvents) < EventCap) => Changed(choiceEvents')
        <3>1. "changed" # "error"
            OBVIOUS
        <3> QED BY <3>1, <2>2, Zenon
    <2> QED BY <2>1, <2>4, <2>5, Zenon DEF SelTypeOK
<1>4. CaughtUp' => CaughtUp
    BY <1>3, Zenon DEF CaughtUp
<1>5. NameFollowsNode' /\ ReconcilerKnows'
    BY <1>3, <1>4, Zenon DEF NameFollowsNode, ReconcilerKnows
<1>6. CoreKnows'
    BY CoreKept, Zenon
<1> QED BY <1>2, <1>5, <1>6, Zenon DEF RecordIsLastPick, PickKnows

-----------------------------------------------------------------------------
\* The core's own steps touch neither the record nor who works on it.
CoreStep ==
    /\ UNCHANGED <<registryVars, choiceEvents, picking, reconcilerVars, choiceVars>>
    /\ calls' \in 0..MaxCalls
    /\ kernel' \in {kernel, registry} /\ active' \in Cores
    /\ selected' \in Nodes \cup {GroupDefault}
    /\ restoring' \in {restoring, record, NoRecord}

LEMMA CoreStepKeeps == ASSUME SelInv, CoreStep, CoreKnows' PROVE SelInv'
<1> USE DEF SelInv, CoreStep, registryVars, reconcilerVars, choiceVars
<1>1. SelTypeOK'
    BY Zenon DEF SelTypeOK
<1> QED BY <1>1, Zenon DEF RecordIsLastPick, NameFollowsNode, PickKnows, ReconcilerKnows, CaughtUp

LEMMA CoreUpKnows ==
    ASSUME NEW core \in Cores, NEW names, CoreUp(core, names)
    PROVE  CoreKnows' /\ active' \in Cores /\ restoring' \in {restoring, record, NoRecord}
                      /\ selected' = GroupDefault
<1>1. Accepts(core, names) => Accepts(active', kernel')
    BY Zenon DEF CoreUp, Accepts, Distinct, Served
<1> QED BY <1>1, Zenon DEF CoreUp, CoreKnows, Foreign, Accepts, Distinct, Served

LEMMA CoreKeeps ==
    ASSUME SelInv, ReloadConfig \/ Reapply \/ \E core \in Cores : StartCore(core) PROVE SelInv'
<1> USE DEF SelInv
<1>1. CASE \E core \in Cores : StartCore(core)
    <2>1. PICK core \in Cores : StartCore(core)
        BY <1>1, Zenon
    <2>2. CoreKnows' /\ active' \in Cores /\ restoring' \in {restoring, record, NoRecord} /\ selected' = GroupDefault
        BY <2>1, CoreUpKnows, Zenon DEF StartCore
    <2>3. CoreStep
        BY <2>1, <2>2, CountedKept, Zenon DEF StartCore, CoreUp, CoreStep
    <2> QED BY <2>2, <2>3, CoreStepKeeps, Zenon
<1>2. CASE ReloadConfig
    <2>1. CASE CoreUp(active, registry)
        <3>1. CoreKnows' /\ active' \in Cores /\ restoring' \in {restoring, record, NoRecord} /\ selected' = GroupDefault
            BY <2>1, CoreUpKnows, Zenon DEF SelTypeOK
        <3>2. CoreStep
            BY <1>2, <2>1, <3>1, Zenon DEF ReloadConfig, CoreUp, CoreStep, SelTypeOK
        <3> QED BY <3>1, <3>2, CoreStepKeeps, Zenon
    <2>2. CASE ~CoreUp(active, registry)
        <3>1. CoreStep
            BY <1>2, <2>2, Zenon DEF ReloadConfig, CoreStep, SelTypeOK, Served
        <3>2. CoreKnows'
            BY <1>2, <2>2, Zenon DEF ReloadConfig, CoreKnows, Accepts, Distinct, Served, Foreign
        <3> QED BY <3>1, <3>2, CoreStepKeeps, Zenon
    <2> QED BY <2>1, <2>2, Zenon
<1>3. CASE Reapply
    <2> DEFINE hit == Selects(active, kernel, restoring.name)
    <2>1. hit \subseteq Nodes /\ (hit # {} => (CHOOSE n \in hit : TRUE) \in hit)
        BY Zenon DEF Selects, Served
    <2>2. selected' \in Nodes \cup {GroupDefault}
        BY <1>3, <2>1, Zenon DEF Reapply, SelTypeOK
    <2>3. CoreStep
        BY <1>3, <2>2, Zenon DEF Reapply, CoreStep, SelTypeOK
    <2>4. CoreKnows'
        BY <1>3, Zenon DEF Reapply, CoreKnows, Accepts, Distinct, Served
    <2> QED BY <2>3, <2>4, CoreStepKeeps, Zenon
<1> QED BY <1>1, <1>2, <1>3, Zenon

-----------------------------------------------------------------------------
\* The steps of a select command before it saves change nothing else than the
\* command itself and the node the core routes through.
PickStep ==
    /\ UNCHANGED <<registryVars, choiceEvents, kernel, active, restoring, reconcilerVars, choiceVars>>
    /\ calls' \in 0..MaxCalls
    /\ selected' \in Nodes \cup {GroupDefault}
    /\ picking' \in Picks \cup {NoPick}

LEMMA PickStepKeeps == ASSUME SelInv, PickStep, PickKnows' PROVE SelInv'
<1> USE DEF SelInv, PickStep, registryVars, reconcilerVars, choiceVars
<1>1. SelTypeOK'
    BY Zenon DEF SelTypeOK
<1>2. CoreKnows'
    BY CoreKept, Zenon
<1> QED BY <1>1, <1>2, Zenon DEF RecordIsLastPick, NameFollowsNode, ReconcilerKnows, CaughtUp

LEMMA PicksStartKeeps ==
    ASSUME SelInv, (\E n \in Nodes : PickNode(n)) \/ (\E x \in Names \cup {Other} : PickMember(x))
    PROVE  SelInv'
<1> USE DEF SelInv
<1>1. PICK by \in {"id", "name"}, node \in Nodes \cup {GroupDefault}, name \in Spellings :
          /\ picking' = Pick(active, by, node, name, "call")
          /\ by = "name" /\ node # GroupDefault => name = Tag(node)
    <2>1. ASSUME NEW n \in Nodes, PickNode(n)
          PROVE  \E name \in Spellings : picking' = Pick(active, "id", n, name, "call")
        BY <2>1, Zenon DEF PickNode, Spellings, SelTypeOK
    <2>2. ASSUME NEW x \in Names \cup {Other}, PickMember(x)
          PROVE  \E node \in Nodes \cup {GroupDefault}, name \in Spellings :
                    /\ picking' = Pick(active, "name", node, name, "call")
                    /\ node # GroupDefault => name = Tag(node)
        BY <2>2, FindNodeFinds, Zenon DEF PickMember, Spellings
    <2> QED BY <2>1, <2>2, Zenon
<1>2. active \in Cores
    BY Zenon DEF SelTypeOK
<1>3. /\ picking' \in Picks /\ picking' # NoPick
      /\ picking'.by = by /\ picking'.node = node /\ picking'.name = name /\ picking'.at = "call"
    BY <1>1, <1>2 DEF Pick, Picks, NoPick, Cores
<1>4. PickKnows'
    BY <1>1, <1>3, Zenon DEF PickKnows
<1>5. PickStep
    BY <1>3, CountedKept, Zenon DEF PickNode, PickMember, PickStep, coreVars, SelTypeOK
<1> QED BY <1>4, <1>5, PickStepKeeps, Zenon

\* A core serves one node under a tag, and none under a tag when it goes by names.
LEMMA TagSelects ==
    ASSUME NEW core, NEW names, NEW n, NEW m \in Selects(core, names, Tag(n)) PROVE m = n
BY SpellingsDiffer, Zenon DEF Selects

LEMMA CallCoreKeeps ==
    ASSUME SelInv, NEW answered \in BOOLEAN, CallCore(answered) PROVE SelInv'
<1> USE DEF SelInv
<1> DEFINE hit == Selects(active, kernel, picking.name) \cup
                  (IF picking.name = Name(Other) THEN {GroupDefault} ELSE {})
           at == IF picking.core = "mihomo" /\ picking.by = "name" THEN "look up" ELSE "save"
<1>1. hit \subseteq Nodes \cup {GroupDefault}
    BY Zenon DEF Selects, Served
<1>2. picking \in Picks /\ picking # NoPick /\ picking.at = "call"
    BY Zenon DEF CallCore, SelTypeOK
<1>3. \/ picking' = NoPick /\ selected' \in {selected} \cup hit
      \/ \E n \in hit : selected' = n /\ picking' = [picking EXCEPT !.hit = n, !.at = at]
    BY Zenon DEF CallCore
<1>4. ASSUME NEW n \in hit, picking' = [picking EXCEPT !.hit = n, !.at = at]
      PROVE  /\ picking' \in Picks /\ picking'.hit = n /\ picking'.at # "call"
             /\ picking'.by = picking.by /\ picking'.node = picking.node
    BY <1>1, <1>2, <1>4 DEF Picks
<1>5. ASSUME NEW n \in hit, picking.by = "name", picking.node # GroupDefault PROVE picking.node = n
    <2>1. picking.name = Tag(picking.node)
        BY <1>2, <1>5, Zenon DEF PickKnows
    <2>2. n \in Selects(active, kernel, Tag(picking.node))
        BY <2>1, <1>5, SpellingsDiffer, Zenon
    <2> QED BY <2>2, TagSelects, Zenon
<1> HIDE DEF hit, at
<1>6. PickKnows'
    <2>1. CASE picking' = NoPick
        BY <2>1, Zenon DEF PickKnows
    <2>2. ASSUME NEW n \in hit, picking' = [picking EXCEPT !.hit = n, !.at = at] PROVE PickKnows'
        BY <2>2, <1>4, <1>5, Zenon DEF PickKnows
    <2> QED BY <1>3, <2>1, <2>2, Zenon
<1>7. PickStep
    BY <1>1, <1>3, <1>4, Zenon DEF CallCore, PickStep, SelTypeOK
<1> QED BY <1>6, <1>7, PickStepKeeps, Zenon

LEMMA LookUpKeeps == ASSUME SelInv, LookUp PROVE SelInv'
<1> USE DEF SelInv
<1>1. PICK x \in Names \cup {Other} :
          picking' = [picking EXCEPT !.node = FindNode(x), !.at = "save",
                                     !.shifted = Named(x) \notin {{}, {picking.hit}}]
    BY Zenon DEF LookUp
<1>2. picking \in Picks
    BY Zenon DEF LookUp, SelTypeOK
<1>3. FindNode(x) \in Nodes \cup {GroupDefault}
    BY FindNodeFinds, Zenon
<1>4. /\ picking' \in Picks /\ picking'.node = FindNode(x) /\ picking'.hit = picking.hit
      /\ picking'.shifted = (Named(x) \notin {{}, {picking.hit}}) /\ picking'.at = "save"
    BY <1>1, <1>2, <1>3 DEF Picks
<1>5. PickKnows'
    BY <1>4, FindNodeFinds, Zenon DEF PickKnows
<1>6. PickStep
    BY <1>4, Zenon DEF LookUp, PickStep, coreVars, SelTypeOK
<1> QED BY <1>5, <1>6, PickStepKeeps, Zenon

LEMMA RememberKeeps ==
    ASSUME SelInv, NEW saved \in BOOLEAN, Remember(saved) PROVE SelInv'
<1> USE DEF SelInv, Remember, registryVars, coreVars, reconcilerVars
<1> DEFINE r == [core |-> picking.core, node |-> picking.node, name |-> picking.name]
<1>1. picking \in Picks /\ picking # NoPick /\ picking.at = "save"
    BY Zenon DEF SelTypeOK
<1>2. /\ picking.core \in Cores /\ picking.node \in Nodes \cup {GroupDefault} /\ picking.name \in Spellings
      /\ picking.hit \in Nodes \cup {GroupDefault} /\ picking.by \in {"id", "name"} /\ picking.shifted \in BOOLEAN
    BY <1>1 DEF Picks
<1>3. /\ r.core = picking.core /\ r.node = picking.node /\ r.name = picking.name
      /\ picking.node # GroupDefault => r \in Records
    BY <1>2 DEF Records
<1>4. \/ record' = NoRecord
      \/ picking.node # GroupDefault /\ record' = r
      \/ record' = record /\ raced'
    BY Zenon
<1> HIDE DEF r
<1>5. raced' \in BOOLEAN
    BY Zenon DEF SavedTooLate
<1>6. SelTypeOK'
    BY <1>2, <1>3, <1>4, <1>5, Zenon DEF SelTypeOK
<1>7. RecordIsLastPick'
    BY <1>1, <1>2, <1>3, <1>4, Zenon DEF RecordIsLastPick, PickKnows
<1>8. NameFollowsNode'
    BY <1>3, <1>4, Zenon DEF NameFollowsNode, CaughtUp, SavedTooLate
<1>9. ReconcilerKnows'
    BY Zenon DEF ReconcilerKnows
<1>10. CoreKnows' /\ PickKnows'
    BY CoreKept, Zenon DEF PickKnows
<1> QED BY <1>6, <1>7, <1>8, <1>9, <1>10, Zenon

-----------------------------------------------------------------------------
LEMMA LoadRecordKeeps ==
    ASSUME SelInv, LoadRecord PROVE SelInv'
<1> USE DEF SelInv, LoadRecord, registryVars, coreVars
<1>1. /\ Tail(choiceEvents) \in Seq(BOOLEAN)
      /\ \A n \in Nat : Len(choiceEvents) <= n => Len(Tail(choiceEvents)) <= n
      /\ Head(choiceEvents) \in BOOLEAN
      /\ Changed(choiceEvents) => Changed(Tail(choiceEvents)) \/ Head(choiceEvents)
    BY ChangedByTail, Zenon DEF SelTypeOK
<1>2. Len(choiceEvents') <= EventCap
    BY <1>1, SelBounds, Zenon DEF SelTypeOK
<1>3. lagging' \in BOOLEAN
    BY <1>1, Zenon DEF Foreign, SelTypeOK
<1>4. SelTypeOK'
    BY <1>1, <1>2, <1>3, Zenon DEF SelTypeOK
<1>5. NameFollowsNode'
    <2> SUFFICES ASSUME CaughtUp', record # NoRecord PROVE CaughtUp
        BY Zenon DEF NameFollowsNode
    <2>1. ~Head(choiceEvents)
        BY Zenon DEF CaughtUp
    <2> QED BY <2>1, <1>1, Zenon DEF CaughtUp
<1>6. found = Unread /\ found' = Unread
    BY Zenon DEF ReconcilerKnows
<1>7. ReconcilerKnows'
    BY <1>6, Zenon DEF ReconcilerKnows
<1>8. CoreKnows'
    BY CoreKept, Zenon
<1> QED BY <1>4, <1>5, <1>7, <1>8, Zenon DEF RecordIsLastPick, PickKnows

LEMMA ResolveLoadedKeeps ==
    ASSUME SelInv, ResolveLoaded PROVE SelInv'
<1> USE DEF SelInv, ResolveLoaded, registryVars, coreVars
<1>1. loaded \in Records
    BY Zenon DEF SelTypeOK
<1>2. loaded.node \in Nodes
    BY <1>1, Zenon DEF Records
<1>3. found' \in Names \cup {Absent, Unread}
    BY <1>2, Zenon DEF SelTypeOK
<1>4. SelTypeOK'
    BY <1>3, Zenon DEF SelTypeOK
<1>5. NameFollowsNode'
    BY Zenon DEF NameFollowsNode, CaughtUp
<1>6. CoreKnows'
    BY CoreKept, Zenon
<1> QED BY <1>4, <1>5, <1>6, Zenon DEF RecordIsLastPick, PickKnows, ReconcilerKnows

LEMMA FollowNodeKeeps ==
    ASSUME SelInv, NEW saved \in BOOLEAN, FollowNode(saved) PROVE SelInv'
<1> USE DEF SelInv, FollowNode, Differs, registryVars, coreVars
<1> DEFINE named == [loaded EXCEPT !.name = Name(found)]
<1>1. loaded \in Records /\ found \in Names \cup {Absent}
    BY Zenon DEF SelTypeOK, ReconcilerKnows
<1>2. found # Absent => /\ named \in Records
                        /\ named.node = loaded.node /\ named.name = Name(found) /\ named.core = loaded.core
    BY <1>1 DEF Records, Spellings
<1>3. \/ record' = NoRecord
      \/ found # Absent /\ record' = named
      \/ ~(saved /\ Differs) /\ record' = record
    BY Zenon
<1> HIDE DEF named
<1>4. SelTypeOK'
    BY <1>2, <1>3, Zenon DEF SelTypeOK
<1>5. RecordIsLastPick'
    BY <1>1, <1>2, <1>3, RecordsAreRecords, Zenon DEF RecordIsLastPick, ReconcilerKnows
<1>6. ReconcilerKnows'
    BY Zenon DEF ReconcilerKnows
<1>7. NameFollowsNode'
    BY <1>1, <1>2, <1>3, RecordsAreRecords, Zenon DEF NameFollowsNode, CaughtUp, ReconcilerKnows
<1>8. CoreKnows' /\ PickKnows'
    BY CoreKept, Zenon DEF PickKnows
<1> QED BY <1>4, <1>5, <1>6, <1>7, <1>8, Zenon

LEMMA SelStepKeeps == SelInv /\ [SelNext]_selVars => SelInv'
<1> SUFFICES ASSUME SelInv, [SelNext]_selVars PROVE SelInv'
    BY Zenon
<1>1. CASE UNCHANGED selVars
    <2>1. /\ UNCHANGED <<calls, registry, feedOf, unpublished, choiceEvents, loaded, found>>
          /\ UNCHANGED <<kernel, active, selected, restoring, record, picking, lastPick, raced, lagging>>
        BY <1>1, Zenon DEF selVars, registryVars, coreVars, reconcilerVars, choiceVars
    <2>2. SelTypeOK' /\ CoreKnows'
        BY <2>1, CoreKept, Zenon DEF SelInv, SelTypeOK
    <2> QED BY <2>1, <2>2, Zenon DEF SelInv, RecordIsLastPick, NameFollowsNode, PickKnows, ReconcilerKnows, CaughtUp
<1>2. CASE SelNext
    BY <1>2, IndexNamesKeeps, PublishRefreshKeeps, CoreKeeps, PicksStartKeeps, CallCoreKeeps, LookUpKeeps,
       RememberKeeps, LoadRecordKeeps, ResolveLoadedKeeps, FollowNodeKeeps, Zenon DEF SelNext
<1> QED BY <1>1, <1>2, Zenon

\* However refreshes rename nodes between the steps of a select command, whatever
\* events the full channel loses, however the cores switch and whenever a save
\* fails: the record names the node the operator picked last, and once the
\* reconciler has caught up it spells that node as the registry does, but for the
\* overtaken saves that raced stands for (core.rs, selection.rs).
THEOREM ChoiceIsKept == SelSpec => []SelInv
BY SelInitHolds, SelStepKeeps, PTL DEF SelSpec

\* A Mihomo core started on the current document then routes through the node that
\* was picked: the core accepted the document, so the recorded name is that of no
\* other node.
THEOREM RestartRestoresPick == SelSpec => PickSurvivesRestart
<1> DEFINE A == (/\ Reapply /\ CaughtUp /\ kernel = registry
                 /\ restoring = record /\ record.core = "mihomo") => selected' = lastPick
<1>1. ASSUME SelInv PROVE A
    <2> SUFFICES ASSUME Reapply, CaughtUp, kernel = registry, restoring = record, record.core = "mihomo"
                 PROVE  selected' = lastPick
        BY Zenon
    <2> DEFINE hit == {n \in Served(kernel) : record.name = Name(kernel[n])}
    <2>1. record \in Records /\ record # NoRecord /\ record.node = lastPick
        BY <1>1, Zenon DEF SelInv, SelTypeOK, RecordIsLastPick, CaughtUp, Reapply
    <2>2. Name(registry[record.node]) = record.name
        BY <1>1, <2>1, Zenon DEF SelInv, NameFollowsNode
    <2>3. record.node \in Nodes /\ registry[record.node] # Absent
        <3>1. record.node \in Nodes /\ record.name \in Spellings
            BY <2>1, Zenon DEF Records
        <3>2. record.name # Name(Absent)
            BY <3>1, SelBounds DEF Spellings, Tag, Name, Absent, Other
        <3> QED BY <3>1, <3>2, <2>2, Zenon
    <2>4. active = "mihomo" /\ Distinct(kernel)
        BY <1>1, <2>1, Zenon DEF SelInv, CoreKnows, Foreign, Accepts
    <2>5. \A n \in hit : n = record.node
        <3> SUFFICES ASSUME NEW n \in hit PROVE n = record.node
            BY Zenon
        <3>1. Name(kernel[n]) = Name(kernel[record.node]) /\ n \in Served(kernel)
            BY <2>2, Zenon
        <3>2. kernel[n] = kernel[record.node] /\ record.node \in Served(kernel)
            BY <3>1, <2>3, SpellingsDiffer, Zenon DEF Served
        <3> QED BY <3>1, <3>2, <2>4, Zenon DEF Distinct
    <2>6. record.node \in hit
        BY <2>2, <2>3, Zenon DEF Served
    <2>7. (CHOOSE n \in hit : TRUE) = record.node
        BY <2>5, <2>6, Zenon
    <2>8. Selects(active, kernel, restoring.name) = hit
        BY <2>4, Zenon DEF Selects
    <2>9. selected' = CHOOSE n \in hit : TRUE
        BY <2>6, <2>8, Zenon DEF Reapply
    <2> QED BY <2>1, <2>7, <2>9, Zenon
<1>2. SelInv => [A]_selVars
    BY <1>1, Zenon
<1> QED BY <1>2, ChoiceIsKept, PTL DEF PickSurvivesRestart, SelSpec

-----------------------------------------------------------------------------
(***************************************************************************)
(* The subscription backend.  CacheKnows makes the invariant inductive: a  *)
(* 304 projects the body in memory, so the validator must stand for it.    *)
(***************************************************************************)

\* One id at a time.
Cached(i) ==
    /\ validators[i] <= server[i].version
    /\ validators[i] # 0 => memory[i] # NoBody
    /\ validators[i] = server[i].version /\ server[i].kind # "list" => memory[i] = ServedBody(i)
Indexed(i) == Renderable(lastFound[i]) => nodes[i] = lastFound[i].from /\ routing[i] = RoutingOf(lastFound[i])

SubSound ==
    /\ SubTypeOK
    /\ \A i \in Ids : Cached(i) /\ Indexed(i)
    /\ NoGhosts /\ ChildrenUnpersisted

LEMMA SoundIsInv == SubSound <=> SubInv
BY Zenon DEF SubSound, SubInv, Cached, Indexed, CacheKnows, ValidatorsHaveBody, RegistryFresh

\* What a URL serves, what its listed URLs merge to and what a body declares.
LEMMA ServedTyped ==
    ASSUME SubTypeOK, NEW i \in Ids
    PROVE  /\ ServedBody(i) \in CacheBodies /\ ServedBody(i) # NoBody
           /\ ServedBody(i).kind = server[i].kind
<1>1. server[i].kind \in Kinds /\ server[i].version \in Nat
    BY Zenon DEF SubTypeOK
<1>2. (IF server[i].kind \in {"list", "bad"} THEN {} ELSE {<<i, server[i].version>>}) \in Origins
    BY <1>1 DEF Origins
<1>3. ServedBody(i) \in CacheBodies /\ ServedBody(i).kind = server[i].kind
    BY <1>1, <1>2, Zenon DEF ServedBody, CacheBodies
<1>4. NoBody.kind \notin Kinds
    BY Zenon DEF NoBody, Kinds
<1> QED BY <1>1, <1>3, <1>4, Zenon

LEMMA BodyFacts ==
    /\ NoBody \in CacheBodies /\ ~Renderable(NoBody)
    /\ \A b \in CacheBodies : b.from \in Origins /\ RoutingOf(b) \in Origins
BY Zenon DEF NoBody, CacheBodies, Origins, Kinds, Renderable, RoutingOf

LEMMA MergeTyped ==
    ASSUME NEW B \in SUBSET CacheBodies
    PROVE  Merge(B) \in CacheBodies /\ Merge(B) # NoBody
<1> DEFINE ks == {b.kind : b \in B} \ {"none"}
           k == CASE ks = {"list"} -> "list"
                  [] ks \subseteq {"list", "uri", "exotic"} /\ "uri" \in ks -> "uri"
                  [] ks = {"clash"} /\ Cardinality(B) = 1 -> "clash"
                  [] ks \subseteq {"list", "exotic"} /\ ks # {} -> "exotic"
                  [] OTHER -> "bad"
           f == UNION {b.from : b \in B}
<1>1. Merge(B) = [kind |-> k, from |-> f]
    BY Zenon DEF Merge
<1>2. k \in Kinds
    <2> HIDE DEF ks
    <2> QED BY Zenon DEF Kinds
<1>3. f \in Origins
    BY DEF CacheBodies, Origins
<1> HIDE DEF k, f
<1>4. Merge(B) \in CacheBodies /\ Merge(B).kind = k
    BY <1>1, <1>2, <1>3 DEF CacheBodies
<1>5. NoBody.kind \notin Kinds
    BY Zenon DEF NoBody, Kinds
<1> QED BY <1>2, <1>4, <1>5, Zenon

\* A validator that matches stands for the body in memory.
LEMMA RawIsServed ==
    ASSUME SubTypeOK, NEW i \in Ids, Cached(i), NotModified(i, Sent(i))
    PROVE  /\ RawSource(i) = memory[i] /\ RawSource(i) \in CacheBodies
           /\ server[i].kind # "list" => RawSource(i) = ServedBody(i)
<1>1. Sent(i) = validators[i] /\ validators[i] # 0 /\ validators[i] = server[i].version
    BY Zenon DEF Sent, NotModified
<1> QED BY <1>1, Zenon DEF Cached, RawSource, SubTypeOK

-----------------------------------------------------------------------------
\* A step that leaves the cache and the registries alone.
LEMMA SubQuiet ==
    ASSUME SubSound, UNCHANGED <<memory, validators, files, nodes, routing, lastFound, server>>, NoGhosts'
    PROVE  SubSound'
<1>1. SubTypeOK' /\ ChildrenUnpersisted'
    BY Zenon DEF SubSound, SubTypeOK, ChildrenUnpersisted
<1>2. \A i \in Ids : Cached(i)' /\ Indexed(i)'
    BY Zenon DEF SubSound, Cached, Indexed, ServedBody, Renderable, RoutingOf
<1> QED BY <1>1, <1>2, Zenon DEF SubSound

LEMMA QuietKeeps ==
    ASSUME SubSound,
           \/ \E r \in Requests : RefreshNothing(r.id, r.scheduled) \/ BeginRefresh(r.id, r.force, r.scheduled)
           \/ \E enabled \in SUBSET Sources, breaks \in BOOLEAN : EditConfig(enabled, breaks)
           \/ Tick \/ UNCHANGED subVars
    PROVE  SubSound'
<1>1. /\ UNCHANGED <<memory, validators, files, nodes, routing, lastFound, server, declaredLast>>
      /\ refresh = Idle \/ UNCHANGED refresh
    BY Zenon DEF RefreshNothing, BeginRefresh, EditConfig, Tick, subVars, worldVars, cacheVars, bothRegistries
<1>2. NoGhosts'
    BY <1>1, Zenon DEF SubSound, NoGhosts
<1> QED BY <1>1, <1>2, SubQuiet, Zenon

\* A URL serves something new: no validator stands for that yet.
LEMMA PublishesKeeps ==
    ASSUME SubSound, NEW id \in Ids, NEW kind \in KindsOf[id], ServerPublishes(id, kind)
    PROVE  SubSound'
<1>1. /\ server' = [server EXCEPT ![id] = [kind |-> kind, version |-> server[id].version + 1]]
      /\ UNCHANGED <<memory, validators, files, nodes, routing, lastFound, refresh, declaredLast>>
    BY Zenon DEF ServerPublishes, cacheVars, bothRegistries
<1>2. kind \in Kinds
    BY SubscriptionConstants, Zenon
<1>3. SubTypeOK' /\ ChildrenUnpersisted' /\ NoGhosts'
    BY <1>1, <1>2 DEF SubSound, SubTypeOK, ChildrenUnpersisted, NoGhosts
<1>4. ASSUME NEW i \in Ids PROVE Cached(i)'
    <2>1. server[i].version \in Nat \ {0} /\ validators[i] \in Nat /\ Cached(i)
        BY Zenon DEF SubSound, SubTypeOK
    <2>2. CASE i = id
        <3>1. server'[i].version = server[i].version + 1 /\ validators'[i] = validators[i] /\ memory'[i] = memory[i]
            BY <1>1, <2>2, Zenon DEF SubSound, SubTypeOK
        <3> QED BY <2>1, <3>1 DEF Cached
    <2>3. CASE i # id
        <3>1. server'[i] = server[i] /\ validators'[i] = validators[i] /\ memory'[i] = memory[i]
            BY <1>1, <2>3, Zenon DEF SubSound, SubTypeOK
        <3> QED BY <2>1, <3>1, Zenon DEF Cached, ServedBody
    <2> QED BY <2>2, <2>3, Zenon
<1>5. \A i \in Ids : Indexed(i)'
    BY <1>1, Zenon DEF SubSound, Indexed, Renderable, RoutingOf
<1> QED BY <1>3, <1>4, <1>5, Zenon DEF SubSound

-----------------------------------------------------------------------------
\* A body that is projected fills both registries of its source when it renders.
LEMMA ProjectFacts ==
    ASSUME SubTypeOK, NEW id \in Ids, NEW body \in CacheBodies, NEW touched, NEW changed,
           Project(id, body, touched, changed)
    PROVE  /\ nodes' \in [Ids -> Origins] /\ routing' \in [Ids -> Origins]
           /\ \A i \in Ids : i # id => nodes'[i] = nodes[i] /\ routing'[i] = routing[i]
           /\ Renderable(body) => nodes'[id] = body.from /\ routing'[id] = RoutingOf(body)
<1>1. /\ nodes' = IF Renderable(body) THEN [nodes EXCEPT ![id] = body.from] ELSE nodes
      /\ routing' = IF Renderable(body) THEN [routing EXCEPT ![id] = RoutingOf(body)] ELSE routing
    BY Zenon DEF Project
<1>2. nodes \in [Ids -> Origins] /\ routing \in [Ids -> Origins] /\ body.from \in Origins /\ RoutingOf(body) \in Origins
    BY BodyFacts, Zenon DEF SubTypeOK
<1> QED BY <1>1, <1>2, Zenon

\* A refresh that goes on is not idle, and owes nothing about ghosts yet.
LEMMA AdvanceIsBusy ==
    ASSUME NEW id, NEW touched, NEW merged, NEW changed, NEW failed,
           Advance(id, touched, merged, changed, failed)
    PROVE  NoGhosts'
<1>1. refresh'.pc = "fetch" /\ Idle.pc = "idle"
    BY Zenon DEF Advance, Idle
<1>2. refresh' # Idle
    BY <1>1, Zenon
<1> QED BY <1>2, Zenon DEF NoGhosts, Idle

LEMMA FetchFailsKeeps ==
    ASSUME SubSound, NEW id \in Sources, FetchFails(id)
    PROVE  SubSound'
<1>1. /\ validators' = [validators EXCEPT ![id] = Sent(id)]
      /\ UNCHANGED <<server, memory, files, nodes, routing, lastFound>>
    BY Zenon DEF FetchFails, worldVars, bothRegistries
<1>2. id \in Ids /\ Sent(id) \in {0, validators[id]}
    BY Zenon DEF Ids, Sent
<1>3. \A i \in Ids : validators'[i] \in {0, validators[i]}
    BY <1>1, <1>2, Zenon DEF SubSound, SubTypeOK
<1>4. SubTypeOK' /\ ChildrenUnpersisted'
    BY <1>1, <1>2 DEF SubSound, SubTypeOK, ChildrenUnpersisted
<1>5. ASSUME NEW i \in Ids PROVE Cached(i)'
    <2>1. server[i].version \in Nat \ {0} /\ validators[i] \in Nat /\ Cached(i)
        BY Zenon DEF SubSound, SubTypeOK
    <2> QED BY <1>1, <1>3, <2>1 DEF Cached, ServedBody
<1>6. \A i \in Ids : Indexed(i)'
    BY <1>1, Zenon DEF SubSound, Indexed, Renderable, RoutingOf
<1>7. NoGhosts'
    BY AdvanceIsBusy, Zenon DEF FetchFails, SkipSource
<1> QED BY <1>4, <1>5, <1>6, <1>7, Zenon DEF SubSound

\* A body replaces the cached one, and its validator the stored one.
LEMMA FetchUpdatedKeeps ==
    ASSUME SubSound, NEW id \in Sources, NEW tagged \in BOOLEAN, NEW persisted \in BOOLEAN,
           FetchUpdated(id, tagged, persisted)
    PROVE  SubSound'
<1> DEFINE b == ServedBody(id)
           v == IF tagged THEN server[id].version ELSE 0
<1>1. /\ memory' = [memory EXCEPT ![id] = b] /\ validators' = [validators EXCEPT ![id] = v]
      /\ files' = IF persisted THEN [files EXCEPT ![id] = b] ELSE files
      /\ lastFound' = [lastFound EXCEPT ![id] = b] /\ server' = server
      /\ Project(id, b, {id}, TRUE)
    BY Zenon DEF FetchUpdated, PutSource, worldVars
<1>2. id \in Ids /\ SubTypeOK /\ b \in CacheBodies /\ b # NoBody
    BY ServedTyped, Zenon DEF Ids, SubSound
<1>3. /\ nodes' \in [Ids -> Origins] /\ routing' \in [Ids -> Origins]
      /\ \A i \in Ids : i # id => nodes'[i] = nodes[i] /\ routing'[i] = routing[i]
      /\ Renderable(b) => nodes'[id] = b.from /\ routing'[id] = RoutingOf(b)
    BY <1>1, <1>2, ProjectFacts, Zenon
<1>4. NoGhosts'
    BY <1>1, AdvanceIsBusy, Zenon DEF Project
<1>5. v \in Nat /\ v \in {0, server[id].version} /\ server[id].version \in Nat \ {0}
    BY <1>2, Zenon DEF SubTypeOK
<1>6. ServedBody(id)' = b
    BY <1>1, Zenon DEF ServedBody
<1> HIDE DEF b, v
<1>7. SubTypeOK'
    BY <1>1, <1>2, <1>3, <1>5, Zenon DEF SubTypeOK
<1>8. ChildrenUnpersisted'
    BY <1>1, <1>2 DEF SubSound, SubTypeOK, ChildrenUnpersisted
<1>9. ASSUME NEW i \in Ids PROVE Cached(i)' /\ Indexed(i)'
    <2>1. CASE i = id
        <3>1. validators'[i] = v /\ memory'[i] = b /\ lastFound'[i] = b
            BY <1>1, <1>2, <2>1, Zenon DEF SubTypeOK
        <3>2. Cached(i)'
            BY <1>1, <1>2, <1>5, <1>6, <2>1, <3>1 DEF Cached
        <3>3. Indexed(i)'
            BY <1>3, <2>1, <3>1, Zenon DEF Indexed, Renderable, RoutingOf
        <3> QED BY <3>2, <3>3, Zenon
    <2>2. CASE i # id
        <3>1. /\ validators'[i] = validators[i] /\ memory'[i] = memory[i] /\ lastFound'[i] = lastFound[i]
              /\ nodes'[i] = nodes[i] /\ routing'[i] = routing[i]
            BY <1>1, <1>2, <1>3, <2>2, Zenon DEF SubTypeOK
        <3> QED BY <1>1, <3>1, Zenon DEF SubSound, Cached, Indexed, ServedBody, Renderable, RoutingOf
    <2> QED BY <2>1, <2>2, Zenon
<1> QED BY <1>4, <1>7, <1>8, <1>9, Zenon DEF SubSound

\* A 304: the body in memory is what the server serves, and is projected again.
LEMMA FetchUnchangedKeeps ==
    ASSUME SubSound, NEW id \in Sources, FetchUnchanged(id)
    PROVE  SubSound'
<1> DEFINE b == RawSource(id)
           fetched == IF server[id].kind = "list" THEN NoBody ELSE ServedBody(id)
<1>1. /\ UNCHANGED <<memory, validators, files, server>> /\ NotModified(id, Sent(id))
      /\ lastFound' = [lastFound EXCEPT ![id] = fetched]
      /\ Project(id, b, {id}, FALSE)
    BY Zenon DEF FetchUnchanged, worldVars, cacheVars
<1>2. id \in Ids /\ SubTypeOK /\ Cached(id) /\ ServedBody(id) \in CacheBodies
    BY ServedTyped, Zenon DEF Ids, SubSound
<1>3. b \in CacheBodies /\ (server[id].kind # "list" => b = ServedBody(id))
    BY <1>1, <1>2, RawIsServed, Zenon
<1>4. /\ nodes' \in [Ids -> Origins] /\ routing' \in [Ids -> Origins]
      /\ \A i \in Ids : i # id => nodes'[i] = nodes[i] /\ routing'[i] = routing[i]
      /\ Renderable(b) => nodes'[id] = b.from /\ routing'[id] = RoutingOf(b)
    BY <1>1, <1>2, <1>3, ProjectFacts, Zenon
<1>5. NoGhosts'
    BY <1>1, AdvanceIsBusy, Zenon DEF Project
<1>6. fetched \in CacheBodies /\ (Renderable(fetched) => fetched = b)
    BY <1>2, <1>3, BodyFacts, Zenon
<1> HIDE DEF b, fetched
<1>7. SubTypeOK' /\ ChildrenUnpersisted'
    BY <1>1, <1>2, <1>4, <1>6, Zenon DEF SubSound, SubTypeOK, ChildrenUnpersisted
<1>8. ASSUME NEW i \in Ids PROVE Cached(i)' /\ Indexed(i)'
    <2>1. Cached(i)'
        BY <1>1, Zenon DEF SubSound, Cached, ServedBody
    <2>2. CASE i = id
        <3>1. lastFound'[i] = fetched
            BY <1>1, <1>2, <2>2, Zenon DEF SubTypeOK
        <3>2. Indexed(i)'
            BY <1>4, <1>6, <2>2, <3>1, Zenon DEF Indexed, Renderable, RoutingOf
        <3> QED BY <2>1, <3>2, Zenon
    <2>3. CASE i # id
        <3>1. lastFound'[i] = lastFound[i] /\ nodes'[i] = nodes[i] /\ routing'[i] = routing[i]
            BY <1>1, <1>2, <1>4, <2>3, Zenon DEF SubTypeOK
        <3> QED BY <2>1, <3>1, Zenon DEF SubSound, Indexed, Renderable, RoutingOf
    <2> QED BY <2>2, <2>3, Zenon
<1> QED BY <1>5, <1>7, <1>8, Zenon DEF SubSound

\* The listed URLs are fetched after a 304; a complete merge becomes the body.
LEMMA ExpandListKeeps ==
    ASSUME SubSound, NEW id \in Sources, NEW reachable \in SUBSET Children, NEW persisted \in BOOLEAN,
           ExpandList(id, reachable, persisted)
    PROVE  SubSound'
<1> DEFINE fetched == {c \in Children : \A d \in Children : d <= c => d \in reachable}
           fresh == {c \in fetched : ~NotModified(c, validators[c])}
           tried == {c \in Children : \A d \in Children : d < c => d \in reachable}
           merged == Merge({ChildBody(c) : c \in Children})
           withChildren == [i \in Ids |-> IF i \in fresh THEN ServedBody(i) ELSE memory[i]]
           whole == fetched = Children /\ merged.kind # "list"
<1>1. /\ NotModified(id, Sent(id)) /\ RawSource(id).kind = "list"
      /\ validators' = [i \in Ids |-> IF i \in fresh THEN server[i].version ELSE validators[i]]
      /\ lastFound' = [lastFound EXCEPT ![id] = NoBody] /\ server' = server
    BY Zenon DEF ExpandList, worldVars
<1>2. \/ /\ memory' = [withChildren EXCEPT ![id] = merged]
         /\ files' = IF persisted THEN [files EXCEPT ![id] = merged] ELSE files
         /\ Project(id, merged, {id} \cup tried, fresh # {})
      \/ /\ memory' = withChildren
         /\ SkipSource(id, {id} \cup tried)
         /\ files' = files /\ nodes' = nodes /\ routing' = routing
    <2>1. CASE whole
        BY <2>1, Zenon DEF ExpandList
    <2>2. CASE ~whole
        BY <2>2, Zenon DEF ExpandList, bothRegistries
    <2> QED BY <2>1, <2>2, Zenon
<1>3. /\ id \in Ids /\ Children \subseteq Ids /\ SubTypeOK /\ Cached(id)
      /\ \A i \in Ids : ServedBody(i) \in CacheBodies /\ ServedBody(i) # NoBody
    BY ServedTyped, Zenon DEF Ids, SubSound
<1>4. merged \in CacheBodies /\ merged # NoBody
    <2>1. \A c \in Children : ChildBody(c) \in CacheBodies
        BY <1>3, Zenon DEF ChildBody, RawSource, SubTypeOK
    <2>2. {ChildBody(c) : c \in Children} \in SUBSET CacheBodies
        BY <2>1, Zenon
    <2> QED BY <2>2, MergeTyped, Zenon
<1>5. id \notin fresh /\ server[id].kind = "list" /\ memory[id] # NoBody
    <2>1. validators[id] # 0 /\ validators[id] = server[id].version
        BY <1>1, Zenon DEF Sent, NotModified
    <2>2. server[id].kind = "list"
        BY <1>1, <1>3, RawIsServed, ServedTyped, Zenon
    <2> QED BY <1>3, <2>1, <2>2, Zenon DEF Cached, NotModified
<1>6. NoGhosts'
    BY <1>2, AdvanceIsBusy, Zenon DEF Project, SkipSource
<1>7. /\ nodes' \in [Ids -> Origins] /\ routing' \in [Ids -> Origins]
      /\ \A i \in Ids : i # id => nodes'[i] = nodes[i] /\ routing'[i] = routing[i]
    BY <1>2, <1>3, <1>4, ProjectFacts, Zenon DEF SubTypeOK
<1>8. /\ withChildren \in [Ids -> CacheBodies]
      /\ \A i \in Ids : withChildren[i] = IF i \in fresh THEN ServedBody(i) ELSE memory[i]
    BY <1>3, Zenon DEF SubTypeOK
<1>9. ServedBody(id)' = ServedBody(id) /\ \A i \in Ids : ServedBody(i)' = ServedBody(i)
    BY <1>1, Zenon DEF ServedBody
<1> HIDE DEF fetched, fresh, tried, merged, withChildren, whole
<1>10. /\ memory' \in [Ids -> CacheBodies] /\ memory'[id] # NoBody
       /\ \A i \in Ids : i # id => memory'[i] = IF i \in fresh THEN ServedBody(i) ELSE memory[i]
    BY <1>2, <1>3, <1>4, <1>5, <1>8, Zenon
<1>11. files' \in [Ids -> CacheBodies] /\ \A i \in Ids : i # id => files'[i] = files[i]
    BY <1>2, <1>3, <1>4, Zenon DEF SubTypeOK
<1>12. SubTypeOK'
    <2>1. validators' \in [Ids -> Nat]
        BY <1>1, <1>3, Zenon DEF SubTypeOK
    <2>2. lastFound' \in [Ids -> CacheBodies]
        BY <1>1, <1>3, BodyFacts, Zenon DEF SubTypeOK
    <2> QED BY <1>1, <1>3, <1>7, <1>10, <1>11, <2>1, <2>2, Zenon DEF SubTypeOK
<1>13. ChildrenUnpersisted'
    BY <1>11, Zenon DEF SubSound, ChildrenUnpersisted, Ids
<1>14. ASSUME NEW i \in Ids PROVE Cached(i)'
    <2>1. server[i].version \in Nat \ {0} /\ validators[i] \in Nat /\ Cached(i)
        BY Zenon DEF SubSound, SubTypeOK
    <2>2. validators'[i] = IF i \in fresh THEN server[i].version ELSE validators[i]
        BY <1>1, Zenon
    <2>3. CASE i = id
        BY <1>1, <1>5, <1>10, <2>1, <2>2, <2>3, Zenon DEF Cached
    <2>4. CASE i # id
        BY <1>1, <1>3, <1>9, <1>10, <2>1, <2>2, <2>4 DEF Cached
    <2> QED BY <2>3, <2>4, Zenon
<1>15. ASSUME NEW i \in Ids PROVE Indexed(i)'
    <2>1. CASE i = id
        <3>1. lastFound'[i] = NoBody
            BY <1>1, <1>3, <2>1, Zenon DEF SubTypeOK
        <3> QED BY <3>1, BodyFacts, Zenon DEF Indexed, Renderable
    <2>2. CASE i # id
        <3>1. lastFound'[i] = lastFound[i] /\ nodes'[i] = nodes[i] /\ routing'[i] = routing[i]
            BY <1>1, <1>3, <1>7, <2>2, Zenon DEF SubTypeOK
        <3> QED BY <3>1, Zenon DEF SubSound, Indexed, Renderable, RoutingOf
    <2> QED BY <2>1, <2>2, Zenon
<1> QED BY <1>6, <1>12, <1>13, <1>14, <1>15, Zenon DEF SubSound

\* What the configuration no longer declares leaves both registries at once.
LEMMA FinishRefreshKeeps ==
    ASSUME SubSound, FinishRefresh
    PROVE  SubSound'
<1> DEFINE declared == refresh.declared
           keep == refresh.declared \cup refresh.touched
<1>1. /\ memory' = [i \in Ids |-> IF i \in keep THEN memory[i] ELSE NoBody]
      /\ validators' = [i \in Ids |-> IF i \in keep THEN validators[i] ELSE 0]
      /\ nodes' = [i \in Ids |-> IF i \in declared THEN nodes[i] ELSE {}]
      /\ routing' = [i \in Ids |-> IF i \in declared THEN routing[i] ELSE {}]
      /\ lastFound' = [i \in Ids |-> IF i \in declared THEN lastFound[i] ELSE NoBody]
      /\ declaredLast' = declared /\ server' = server /\ files' = files
    BY Zenon DEF FinishRefresh, RetainDeclared, worldVars
<1> HIDE DEF declared, keep
<1>2. SubTypeOK'
    BY <1>1, BodyFacts, Zenon DEF SubSound, SubTypeOK, Origins
<1>3. ChildrenUnpersisted' /\ NoGhosts'
    BY <1>1, Zenon DEF SubSound, ChildrenUnpersisted, NoGhosts
<1>4. ASSUME NEW i \in Ids PROVE Cached(i)'
    <2>1. server[i].version \in Nat \ {0} /\ validators[i] \in Nat /\ Cached(i)
        BY Zenon DEF SubSound, SubTypeOK
    <2>2. \/ validators'[i] = 0
          \/ validators'[i] = validators[i] /\ memory'[i] = memory[i]
        BY <1>1, Zenon
    <2> QED BY <1>1, <2>1, <2>2 DEF Cached, ServedBody
<1>5. ASSUME NEW i \in Ids PROVE Indexed(i)'
    <2>1. \/ lastFound'[i] = NoBody
          \/ lastFound'[i] = lastFound[i] /\ nodes'[i] = nodes[i] /\ routing'[i] = routing[i]
        BY <1>1, Zenon
    <2> QED BY <2>1, BodyFacts, Zenon DEF SubSound, Indexed, Renderable, RoutingOf
<1> QED BY <1>2, <1>3, <1>4, <1>5, Zenon DEF SubSound

\* A boot starts with no validators and registers only what is declared.
LEMMA CrashAndRestoreKeeps ==
    ASSUME SubSound, CrashAndRestore
    PROVE  SubSound'
<1> DEFINE kept == {i \in config : files[i] # NoBody}
           good == {i \in kept : Displayable(files[i])}
           indexed == {i \in good : Renderable(files[i])}
<1>1. /\ files' = [i \in Ids |-> IF i \in kept \ good THEN NoBody ELSE files[i]]
      /\ nodes' = [i \in Ids |-> IF i \in indexed THEN files[i].from ELSE {}]
      /\ routing' = [i \in Ids |-> IF i \in indexed THEN RoutingOf(files[i]) ELSE {}]
      /\ memory' = [i \in Ids |-> NoBody] /\ validators' = [i \in Ids |-> 0]
      /\ lastFound' = [i \in Ids |-> NoBody] /\ declaredLast' = config /\ server' = server
    BY Zenon DEF CrashAndRestore, worldVars
<1>2. indexed \subseteq config
    BY Zenon
<1> HIDE DEF kept, good, indexed
<1>3. SubTypeOK'
    <2>1. nodes' \in [Ids -> Origins] /\ routing' \in [Ids -> Origins]
        BY <1>1, BodyFacts, Zenon DEF SubSound, SubTypeOK, Origins
    <2> QED BY <1>1, <2>1, BodyFacts, Zenon DEF SubSound, SubTypeOK
<1>4. ChildrenUnpersisted' /\ NoGhosts'
    BY <1>1, <1>2, Zenon DEF SubSound, ChildrenUnpersisted, NoGhosts, Ids
<1>5. ASSUME NEW i \in Ids PROVE Cached(i)'
    <2>1. server[i].version \in Nat \ {0} /\ validators'[i] = 0
        BY <1>1, Zenon DEF SubSound, SubTypeOK
    <2> QED BY <1>1, <2>1 DEF Cached
<1>6. \A i \in Ids : Indexed(i)'
    BY <1>1, BodyFacts, Zenon DEF Indexed, Renderable
<1> QED BY <1>3, <1>4, <1>5, <1>6, Zenon DEF SubSound

LEMMA SubInitHolds == SubInit => SubSound
<1> SUFFICES ASSUME SubInit PROVE SubSound
    BY Zenon
<1>1. SubTypeOK
    <2>1. \A i \in Ids : server[i].kind \in Kinds
        BY SubscriptionConstants, Zenon DEF SubInit
    <2>2. server \in [Ids -> [kind : Kinds, version : Nat \ {0}]]
        BY <2>1 DEF SubInit
    <2> QED BY <2>2, BodyFacts, Zenon DEF SubInit, SubTypeOK, Origins
<1>2. ASSUME NEW i \in Ids PROVE Cached(i) /\ Indexed(i)
    <2>1. server[i].version \in Nat \ {0} /\ validators[i] = 0 /\ lastFound[i] = NoBody
        BY <1>1, Zenon DEF SubInit, SubTypeOK
    <2> QED BY <2>1, BodyFacts DEF Cached, Indexed
<1>3. NoGhosts /\ ChildrenUnpersisted
    BY Zenon DEF SubInit, NoGhosts, ChildrenUnpersisted, Ids
<1> QED BY <1>1, <1>2, <1>3, Zenon DEF SubSound

LEMMA SubStepKeeps == SubSound /\ [SubNext]_subVars => SubSound'
<1> SUFFICES ASSUME SubSound, [SubNext]_subVars PROVE SubSound'
    BY Zenon
<1>1. CASE FetchStep
    BY <1>1, FetchFailsKeeps, FetchUpdatedKeeps, FetchUnchangedKeeps, ExpandListKeeps, Zenon DEF FetchStep
<1>2. CASE FinishRefresh
    BY <1>2, FinishRefreshKeeps, Zenon
<1>3. CASE CrashAndRestore
    BY <1>3, CrashAndRestoreKeeps, Zenon
<1>4. CASE \E id \in Ids : \E kind \in KindsOf[id] : ServerPublishes(id, kind)
    BY <1>4, PublishesKeeps, Zenon
<1>5. CASE \/ \E r \in Requests : RefreshNothing(r.id, r.scheduled)
           \/ \E r \in Requests : BeginRefresh(r.id, r.force, r.scheduled)
           \/ \E enabled \in SUBSET Sources, breaks \in BOOLEAN : EditConfig(enabled, breaks)
           \/ Tick \/ UNCHANGED subVars
    BY <1>5, QuietKeeps, Zenon
<1> QED BY <1>1, <1>2, <1>3, <1>4, <1>5, Zenon DEF SubNext

\* Whatever the URLs publish, whichever fetches fail, are answered with a 304 or
\* are expanded, and wherever a kill falls: a stored validator has the body it
\* validates, both registries hold what the last good fetch found, and nothing is
\* left of a source the configuration dropped (refresh, expand_url_list and
\* retain_declared of the subscription backend).
THEOREM SubscriptionsAreSound == SubSpec => []SubInv
<1>1. SubInit => SubSound
    BY SubInitHolds, Zenon
<1>2. SubSound /\ [SubNext]_subVars => SubSound'
    BY SubStepKeeps, Zenon
<1> QED BY <1>1, <1>2, SoundIsInv, PTL DEF SubSpec
=============================================================================
