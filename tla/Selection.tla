------------------------------ MODULE Selection ------------------------------
(***************************************************************************)
(* The operator's node choice: the select commands of the core actor, the  *)
(* record they persist, its re-application when a core starts, and the     *)
(* selection reconciler, which lets the recorded name follow its node      *)
(* after a changed refresh.  The subscription actor, the core actor, the   *)
(* config actor and the reconciler are separate threads.                   *)
(***************************************************************************)
EXTENDS Integers, Sequences, FiniteSets

CONSTANTS
    Nodes,        \* node ids
    Names,        \* display names
    Feeds,        \* subscriptions
    EventCap,     \* EVENT_CHANNEL_CAP
    MaxCalls      \* changed refreshes, select commands and core starts in one behaviour

Absent == "absent"     \* a node no subscription serves
NoFeed == "no feed"
Other == "DIRECT"      \* a builtin or a nested group
GroupDefault == "default"   \* the group's own first member, or no node
NoRecord == [core |-> "none"]
NoPick == [core |-> "none"]
Unread == "unread"
Cores == {"mihomo", "sing-box"}

ASSUME SelBounds ==
    /\ {Absent, Other, Unread} \cap Names = {}
    /\ NoFeed \notin Feeds /\ GroupDefault \notin Nodes
    /\ EventCap \in Nat /\ MaxCalls \in Nat

\* sing-box addresses a node by a tag made from its id, Mihomo by its name.
Tag(n) == <<"tag", n>>
Name(x) == <<"name", x>>

VARIABLES
    registry,      \* CoreNodeRegistry: the name of each served node
    feedOf,        \* and the subscription it was indexed from
    calls,         \* refreshes, select commands and starts so far
    unpublished,   \* the last one has not reached the event bus yet
    choiceEvents,  \* channel of the selection reconciler
    kernel,        \* names the running core was given
    active,        \* the active core
    selected,      \* the node the core routes through
    restoring,     \* the record a starting core is about to be given
    record,        \* node-selection.json
    picking,       \* the select command the core actor is in
    loaded,        \* the record the selection reconciler is working on
    found,         \* the name it resolved the record's node to
    lastPick,      \* history: the node of the last select command to succeed
    raced,         \* history: what the record says was overtaken while it was saved
    lagging        \* history: the reconciler could not follow the last refresh

registryVars == <<registry, feedOf, unpublished>>
coreVars == <<kernel, active, selected, restoring>>
reconcilerVars == <<loaded, found>>
choiceVars == <<record, lastPick, raced, lagging>>
selVars == <<calls, registryVars, choiceEvents, coreVars, picking, reconcilerVars, choiceVars>>

Served(names) == {n \in Nodes : names[n] # Absent}
Distinct(names) == \A m, n \in Served(names) : names[m] = names[n] => m = n

\* Mihomo refuses a document in which two proxies share a name; sing-box tags
\* differ whatever the names.
Accepts(core, names) == core = "mihomo" => Distinct(names)

SelInit ==
    /\ registry \in {r \in [Nodes -> Names] : Distinct(r)}
    /\ feedOf \in [Nodes -> Feeds]
    /\ calls = 0 /\ unpublished = FALSE
    /\ choiceEvents = <<>>
    /\ kernel = registry
    /\ active \in Cores
    /\ selected = GroupDefault
    /\ restoring = NoRecord /\ record = NoRecord
    /\ picking = NoPick
    /\ loaded = NoRecord /\ found = Unread
    /\ lastPick = GroupDefault
    /\ raced = FALSE /\ lagging = FALSE

\* One more of what the outside asks for.
Counted == calls < MaxCalls /\ calls' = calls + 1

(***************************************************************************)
(* The subscription actor and the event bus                                *)
(***************************************************************************)
\* A refresh of one subscription replaces its entries; names are made distinct
\* within the body, not across subscriptions, and a node another subscription
\* serves too changes hands.
IndexNames(feed, body) ==
    /\ ~unpublished
    /\ Counted
    /\ Distinct(body)
    /\ registry' = [n \in Nodes |-> IF body[n] # Absent THEN body[n]
                                    ELSE IF feedOf[n] = feed THEN Absent ELSE registry[n]]
    /\ feedOf' = [n \in Nodes |-> IF body[n] # Absent THEN feed
                                  ELSE IF feedOf[n] = feed THEN NoFeed ELSE feedOf[n]]
    /\ registry' # registry
    /\ unpublished' = TRUE
    /\ UNCHANGED <<choiceEvents, coreVars, picking, reconcilerVars, choiceVars>>

\* The refresh ends and the handler publishes what it says of itself: a full channel
\* loses the event, a refresh that only dropped entries says it changed nothing, and
\* one that fails after it has indexed a body publishes nothing.
PublishRefresh(outcome) ==
    /\ IF outcome = "changed" /\ ~unpublished THEN Counted ELSE UNCHANGED calls
    /\ unpublished' = FALSE
    /\ choiceEvents' = IF outcome # "error" /\ Len(choiceEvents) < EventCap
                       THEN Append(choiceEvents, outcome = "changed") ELSE choiceEvents
    /\ lagging' = (lagging \/ (unpublished /\ (outcome # "changed" \/ Len(choiceEvents) = EventCap)))
    /\ UNCHANGED <<registry, feedOf, coreVars, picking, reconcilerVars, record, lastPick, raced>>

(***************************************************************************)
(* The cores                                                               *)
(***************************************************************************)
\* foreign_core_record: a record is only good for the core it was written for.
Foreign(r, core) == r.core # core

Changed(queue) == \E i \in 1..Len(queue) : queue[i]

\* What a core selects when it is sent a spelling: none of its nodes has another
\* core's spelling.
Selects(core, names, spelling) ==
    {n \in Served(names) : spelling = IF core = "mihomo" THEN Name(names[n]) ELSE Tag(n)}

\* A core comes up on a document, with its groups' defaults, and the record is
\* read to be re-applied.
CoreUp(core, names) ==
    /\ restoring = NoRecord
    /\ Accepts(core, names)
    /\ active' = core /\ kernel' = names
    /\ selected' = GroupDefault
    /\ restoring' = IF Foreign(record, core) THEN NoRecord ELSE record

\* A start, restart or switch of the core outside a reload.
StartCore(core) ==
    /\ CoreUp(core, kernel)
    /\ Counted
    /\ UNCHANGED <<registryVars, choiceEvents, picking, reconcilerVars, choiceVars>>

\* The config actor renders the registry into a new document and restarts the
\* core on it, or lets Mihomo load it in place, which keeps or resets the choice.
ReloadConfig ==
    /\ kernel # registry
    /\ \/ CoreUp(active, registry)
       \/ /\ active = "mihomo" /\ Accepts(active, registry) /\ restoring = NoRecord
          /\ kernel' = registry
          /\ selected' \in Served(registry) \cup {GroupDefault}
          /\ UNCHANGED <<active, restoring>>
    /\ UNCHANGED <<calls, registryVars, choiceEvents, picking, reconcilerVars, choiceVars>>

\* restore_at: the recorded spelling is sent to the core that came up; a refusal
\* keeps the record and leaves the group's default in place.
Reapply ==
    /\ restoring # NoRecord
    /\ LET hit == Selects(active, kernel, restoring.name)
       IN  selected' = IF hit = {} THEN selected ELSE CHOOSE n \in hit : TRUE
    /\ restoring' = NoRecord
    /\ UNCHANGED <<calls, registryVars, choiceEvents, kernel, active, picking, reconcilerVars, choiceVars>>

(***************************************************************************)
(* The core actor, one select command at a time                            *)
(***************************************************************************)
Named(x) == {n \in Nodes : registry[n] = x}

\* find_node_by_name: the first of the nodes with this name.
FindNode(x) == IF Named(x) = {} THEN GroupDefault ELSE CHOOSE n \in Named(x) : TRUE

Pick(core, by, node, name, at) ==
    [core |-> core, by |-> by, node |-> node, name |-> name, hit |-> GroupDefault,
     at |-> at, shifted |-> FALSE]

\* select_proxy: the registry must know the node; its spelling is taken under the
\* lock and used after it.
PickNode(n) ==
    /\ picking = NoPick
    /\ Counted
    /\ registry[n] # Absent
    /\ picking' = Pick(active, "id", n, IF active = "mihomo" THEN Name(registry[n]) ELSE Tag(n), "call")
    /\ UNCHANGED <<registryVars, choiceEvents, coreVars, reconcilerVars, choiceVars>>

\* select_proxy_group of a member: sing-box needs the tag before it can be asked,
\* Mihomo is asked by the name first.
PickMember(x) ==
    /\ picking = NoPick
    /\ Counted
    /\ picking' = IF active = "mihomo" THEN Pick(active, "name", GroupDefault, Name(x), "call")
                  ELSE LET n == FindNode(x)
                       IN  Pick(active, "name", n, IF n = GroupDefault THEN Name(x) ELSE Tag(n), "call")
    /\ UNCHANGED <<registryVars, choiceEvents, coreVars, reconcilerVars, choiceVars>>

\* The request to the core.  A core that refuses it, or does not answer in time,
\* having switched or not, ends the command without a trace in the record.
CallCore(answered) ==
    /\ picking # NoPick /\ picking.at = "call"
    /\ LET hit == Selects(active, kernel, picking.name) \cup
                  (IF picking.name = Name(Other) THEN {GroupDefault} ELSE {})
           lookUp == picking.core = "mihomo" /\ picking.by = "name"
       IN  IF answered
           THEN \E n \in hit :
                  /\ selected' = n
                  /\ picking' = [picking EXCEPT !.hit = n, !.at = IF lookUp THEN "look up" ELSE "save"]
           ELSE picking' = NoPick /\ selected' \in {selected} \cup hit
    /\ UNCHANGED <<calls, registryVars, choiceEvents, kernel, active, restoring, reconcilerVars, choiceVars>>

\* Mihomo's member is only now looked up in the registry.
LookUp ==
    /\ picking # NoPick /\ picking.at = "look up"
    /\ \E x \in Names \cup {Other} :
          /\ picking.name = Name(x)
          /\ picking' = [picking EXCEPT !.node = FindNode(x), !.at = "save",
                                        !.shifted = Named(x) \notin {{}, {picking.hit}}]
    /\ UNCHANGED <<calls, registryVars, choiceEvents, coreVars, reconcilerVars, choiceVars>>

\* The record is written after the lock was released and the core has answered: a
\* refresh whose event the reconciler has already taken, or never gets, has
\* renamed the node since.
SavedTooLate ==
    /\ picking.core = "mihomo" /\ picking.node # GroupDefault
    /\ Name(registry[picking.node]) # picking.name
    /\ ~unpublished /\ ~Changed(choiceEvents)

\* The record of the previous choice stays when the pick was no node.
Remember_KeepsOther(saved) ==
    /\ picking # NoPick /\ picking.at = "save"
    /\ record' = IF saved /\ picking.node # GroupDefault
                 THEN [core |-> picking.core, node |-> picking.node, name |-> picking.name]
                 ELSE record
    /\ lastPick' = IF picking.by = "id" THEN picking.node ELSE picking.hit
    /\ raced' = (~saved \/ loaded # NoRecord \/ picking.shifted \/ SavedTooLate)
    /\ lagging' = FALSE
    /\ picking' = NoPick
    /\ UNCHANGED <<calls, registryVars, choiceEvents, coreVars, reconcilerVars>>

\* remember and clear, both best-effort; a pick that is no registered node clears
\* the record.
Remember(saved) ==
    /\ picking # NoPick /\ picking.at = "save"
    /\ record' = IF ~saved THEN record
                 ELSE IF picking.node = GroupDefault THEN NoRecord
                 ELSE [core |-> picking.core, node |-> picking.node, name |-> picking.name]
    /\ lastPick' = IF picking.by = "id" THEN picking.node ELSE picking.hit
    /\ raced' = (~saved \/ loaded # NoRecord \/ picking.shifted \/ SavedTooLate)
    /\ lagging' = FALSE
    /\ picking' = NoPick
    /\ UNCHANGED <<calls, registryVars, choiceEvents, coreVars, reconcilerVars>>

(***************************************************************************)
(* The selection reconciler                                                *)
(***************************************************************************)
\* It takes an event; for a change it loads the record, unless the record is the
\* other core's.
LoadRecord ==
    /\ choiceEvents # <<>>
    /\ loaded = NoRecord
    /\ choiceEvents' = Tail(choiceEvents)
    /\ loaded' = IF Head(choiceEvents) /\ ~Foreign(record, active) THEN record ELSE NoRecord
    /\ lagging' = (lagging \/ (Head(choiceEvents) /\ Foreign(record, active)))
    /\ UNCHANGED <<calls, registryVars, coreVars, picking, found, record, lastPick, raced>>

\* It resolves the node under the registry's lock,
ResolveLoaded ==
    /\ loaded # NoRecord /\ found = Unread
    /\ found' = registry[loaded.node]
    /\ lagging' = FALSE
    /\ UNCHANGED <<calls, registryVars, choiceEvents, coreVars, picking, loaded, record, lastPick, raced>>

\* The record says something else than the registry.
Differs == found = Absent \/ Name(found) # loaded.name

\* A node that is gone leaves its record behind.
FollowNode_KeepGone(saved) ==
    /\ found # Unread
    /\ record' = IF saved /\ Differs /\ found # Absent THEN [loaded EXCEPT !.name = Name(found)]
                 ELSE record
    /\ lagging' = (lagging \/ (~saved /\ Differs))
    /\ loaded' = NoRecord /\ found' = Unread
    /\ UNCHANGED <<calls, registryVars, choiceEvents, coreVars, picking, lastPick, raced>>

\* and writes the record back under the name it found, or removes the file of a
\* node that is gone.
FollowNode(saved) ==
    /\ found # Unread
    /\ record' = IF ~(saved /\ Differs) THEN record
                 ELSE IF found = Absent THEN NoRecord
                 ELSE [loaded EXCEPT !.name = Name(found)]
    /\ lagging' = (lagging \/ (~saved /\ Differs))
    /\ loaded' = NoRecord /\ found' = Unread
    /\ UNCHANGED <<calls, registryVars, choiceEvents, coreVars, picking, lastPick, raced>>

SelNext ==
    \/ \E feed \in Feeds, body \in [Nodes -> Names \cup {Absent}] : IndexNames(feed, body)
    \/ \E outcome \in {"changed", "unchanged", "error"} : PublishRefresh(outcome)
    \/ ReloadConfig \/ Reapply
    \/ \E core \in Cores : StartCore(core)
    \/ \E n \in Nodes : PickNode(n)
    \/ \E x \in Names \cup {Other} : PickMember(x)
    \/ \E answered \in BOOLEAN : CallCore(answered)
    \/ LookUp \/ \E saved \in BOOLEAN : Remember(saved)
    \/ LoadRecord \/ ResolveLoaded \/ \E saved \in BOOLEAN : FollowNode(saved)

SelSpec == SelInit /\ [][SelNext]_selVars

(***************************************************************************)
(* Properties                                                              *)
(***************************************************************************)
\* The record names the node the operator picked last: the one whose id was given,
\* or the one the core serves under the name that was given.  Excepted are a save
\* that failed, a save between the reconciler's load and save, and a name that the
\* registry gave to other nodes before Mihomo's answer was looked up.
RecordIsLastPick == record = NoRecord \/ raced \/ record.node = lastPick

\* The selection reconciler has followed every published refresh.
CaughtUp ==
    /\ ~unpublished /\ ~Changed(choiceEvents) /\ loaded = NoRecord
    /\ ~raced /\ ~lagging

\* Once the reconciler has caught up, a Mihomo record spells its node the way the
\* registry does now, however often refreshes renamed or swapped the names, unless
\* the record was saved after the reconciler had looked (SavedTooLate).
NameFollowsNode ==
    (CaughtUp /\ record # NoRecord /\ record.core = "mihomo") =>
        Name(registry[record.node]) = record.name

\* What a record holds, in memory and on disk.
Spellings == {Tag(n) : n \in Nodes} \cup {Name(x) : x \in Names \cup {Other}}
Records == [core : Cores, node : Nodes, name : Spellings]
Picks == [core : Cores, by : {"id", "name"}, node : Nodes \cup {GroupDefault}, name : Spellings,
          hit : Nodes \cup {GroupDefault}, at : {"call", "look up", "save"}, shifted : BOOLEAN]

SelTypeOK ==
    /\ registry \in [Nodes -> Names \cup {Absent}] /\ kernel \in [Nodes -> Names \cup {Absent}]
    /\ feedOf \in [Nodes -> Feeds \cup {NoFeed}]
    /\ calls \in 0..MaxCalls /\ unpublished \in BOOLEAN
    /\ choiceEvents \in Seq(BOOLEAN) /\ Len(choiceEvents) <= EventCap
    /\ active \in Cores
    /\ selected \in Nodes \cup {GroupDefault} /\ lastPick \in Nodes \cup {GroupDefault}
    /\ {record, loaded, restoring} \subseteq Records \cup {NoRecord}
    /\ picking \in Picks \cup {NoPick}
    /\ found \in Names \cup {Absent, Unread}
    /\ raced \in BOOLEAN /\ lagging \in BOOLEAN

\* What the actors rely on between their steps.  A command about to save has found
\* the node that was meant, or knows that the name has moved.  The record the
\* reconciler works on is the one on disk unless a command came in between, and the
\* name it found is current unless a refresh is still to be followed.  The running
\* core accepts its document, and the record it is about to be given is its own.
PickKnows ==
    (picking # NoPick /\ picking.by = "name" /\ picking.node # GroupDefault) =>
        /\ picking.at = "call" => picking.name = Tag(picking.node)
        /\ picking.at = "save" => picking.shifted \/ picking.node = picking.hit
ReconcilerKnows ==
    /\ loaded = NoRecord \/ raced \/ loaded = record
    /\ found = Unread \/ loaded # NoRecord
    /\ \/ found = Unread \/ raced \/ found = registry[loaded.node]
       \/ unpublished \/ Changed(choiceEvents) \/ lagging
CoreKnows ==
    /\ Accepts(active, kernel)
    /\ restoring = NoRecord \/ ~Foreign(restoring, active)

\* The invariant of the choice: a record that names the last pick, spelled as the
\* registry spells it once the reconciler has caught up.
SelInv ==
    /\ SelTypeOK
    /\ RecordIsLastPick /\ NameFollowsNode
    /\ PickKnows /\ ReconcilerKnows /\ CoreKnows

\* When a started Mihomo core is given back the choice on the current document, and
\* the reconciler has caught up, it routes through the node the operator picked,
\* unless a command saved another choice since the record was read.
PickSurvivesRestart ==
    [][(/\ Reapply /\ CaughtUp /\ kernel = registry
        /\ restoring = record /\ record.core = "mihomo") => selected' = lastPick]_selVars
=============================================================================
