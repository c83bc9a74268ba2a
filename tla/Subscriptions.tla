---------------------------- MODULE Subscriptions ----------------------------
(***************************************************************************)
(* The subscription backend: the refresh of the enabled sources, the raw   *)
(* body cache with its HTTP validators and its files, the expansion of URL *)
(* lists, and the node and routing registries it fills.  What a changed    *)
(* refresh sets off afterwards is BackgroundTasks and Selection.           *)
(*                                                                         *)
(* A body is its document kind and the set of (source, version) pairs its  *)
(* nodes come from: that set stands for the nodes themselves.  A source is *)
(* a number, and numbers give the order in which the code walks them.      *)
(***************************************************************************)
EXTENDS Integers, FiniteSets, Sequences, FiniteSetsExt

CONSTANTS
    Sources,      \* ids a configuration may declare
    Children,     \* ids of the URLs listed by a URL-list body
    KindsOf,      \* what each URL may serve
    MaxPublished, \* how often the URLs change what they serve
    Cadences,     \* refresh_every_minutes of each source
    NoCadence,    \* the cadence of a source that inherits the batch tick
    MaxAge,       \* minutes after which ages are no longer told apart
    MaxSnapshot,  \* the bound of SnapshotNodes
    MaxCrashes,   \* daemon kills in one behaviour
    MaxEdits      \* edits of config.yaml in one behaviour

Ids == Sources \cup Children
Kinds == {"uri", "clash", "exotic", "list", "bad"}
NoBody == [kind |-> "none", from |-> {}]
All == 0
Never == -1

\* The sources whose last refresh the schedule asks about.
Timed == {i \in Sources : Cadences[i] \notin {NoCadence, 0}}

ASSUME SubscriptionConstants ==
    /\ All \notin Ids /\ Ids \subseteq Nat
    /\ MaxPublished \in Nat
    /\ KindsOf \in [Ids -> SUBSET Kinds]

VARIABLES
    server,       \* what each URL serves: its kind and its version
    published,    \* changes of it so far
    config,       \* the sources config.yaml enables
    broken,       \* whether config.yaml fails to load
    memory,       \* CachedSubscriptionBackend.sources: the bodies in memory
    validators,   \* the version each stored ETag stands for, 0 when none
    files,        \* the bodies in the cache directory
    age,          \* minutes since the last successful fetch, where a cadence asks
    nodes,        \* CoreNodeRegistry, by subscription
    routing,      \* CoreRoutingRegistry, by subscription
    refresh,      \* the refresh in progress
    outcome,      \* what the last refresh reported
    crashes,      \* kills so far
    edits,        \* configuration edits so far
    lastFound,    \* history: what the last good fetch of each declared source found
    declaredLast  \* history: the sources the last converged refresh declared

cacheVars == <<memory, validators, files>>
bothRegistries == <<nodes, routing>>
worldVars == <<server, published, config, broken, edits>>
subVars == <<server, published, config, broken, edits, memory, validators, files, age, nodes, routing,
          refresh, outcome, crashes, lastFound, declaredLast>>

Idle == [pc |-> "idle"]

SubInit ==
    /\ server \in [Ids -> [kind : UNION {KindsOf[i] : i \in Ids}, version : {1}]]
    /\ \A i \in Ids : server[i].kind \in KindsOf[i]
    /\ published = 0
    /\ config = Sources
    /\ broken = FALSE
    /\ memory = [i \in Ids |-> NoBody]
    /\ validators = [i \in Ids |-> 0]
    /\ files = [i \in Ids |-> NoBody]
    /\ age = [i \in Timed |-> Never]
    /\ nodes = [i \in Ids |-> {}]
    /\ routing = [i \in Ids |-> {}]
    /\ refresh = Idle
    /\ outcome = "none"
    /\ crashes = 0
    /\ edits = 0
    /\ lastFound = [i \in Ids |-> NoBody]
    /\ declaredLast = {}

(***************************************************************************)
(* What a body decodes to                                                  *)
(***************************************************************************)
\* decode_document and the lossy display projection accept the body.
Displayable(body) == body.kind \in {"uri", "clash", "exotic"}

\* mihomo_proxy_set_from_document finds at least one proxy it can render.
Renderable(body) == body.kind \in {"uri", "clash"}

\* clash_routing_from_document: only a Clash document declares groups.
RoutingOf(body) == IF body.kind = "clash" THEN body.from ELSE {}

\* raw_source and cached_body: memory first, then the cache directory.
RawSource(id) == IF memory[id] # NoBody THEN memory[id] ELSE files[id]

ServedBody(id) ==
    [kind |-> server[id].kind,
     from |-> IF server[id].kind \in {"list", "bad"} THEN {} ELSE {<<id, server[id].version>>}]

\* The concatenation of the children's bodies, as decode_document reads it.
Merge(bodies) ==
    LET kinds == {b.kind : b \in bodies} \ {"none"}
    IN  [kind |-> CASE kinds = {"list"} -> "list"
                    [] kinds \subseteq {"list", "uri", "exotic"} /\ "uri" \in kinds -> "uri"
                    [] kinds = {"clash"} /\ Cardinality(bodies) = 1 -> "clash"
                    [] kinds \subseteq {"list", "exotic"} /\ kinds # {} -> "exotic"
                    [] OTHER -> "bad",
         from |-> UNION {b.from : b \in bodies}]

(***************************************************************************)
(* Starting a refresh                                                      *)
(***************************************************************************)
\* due_for_scheduled_refresh
Due(id) ==
    \/ Cadences[id] = NoCadence
    \/ /\ Cadences[id] # 0
       /\ age[id] = Never \/ age[id] >= Cadences[id]

TargetsOf(subscription, scheduled) ==
    IF subscription # All THEN {subscription} \cap config
    ELSE IF scheduled THEN {i \in config : Due(i)}
    ELSE config

\* A refresh the handler answers without fetching: the configuration does not
\* load, the id is not an enabled source, or no source of the tick is due.
RefreshNothing(subscription, scheduled) ==
    /\ refresh = Idle
    /\ \/ broken
       \/ TargetsOf(subscription, scheduled) = {} /\ (scheduled \/ subscription # All)
    /\ outcome' = IF ~broken /\ subscription = All THEN "same" ELSE "failed"
    /\ UNCHANGED <<worldVars, cacheVars, bothRegistries, age, refresh, crashes, lastFound,
                   declaredLast>>

BeginRefresh(subscription, force, scheduled) ==
    /\ refresh = Idle
    /\ ~broken
    /\ TargetsOf(subscription, scheduled) # {} \/ (~scheduled /\ subscription = All)
    /\ refresh' = [pc |-> "fetch", todo |-> TargetsOf(subscription, scheduled), force |-> force,
                   declared |-> config, touched |-> {}, merged |-> {}, changed |-> FALSE,
                   failed |-> FALSE]
    /\ outcome' = "none"
    /\ UNCHANGED <<worldVars, cacheVars, bothRegistries, age, crashes, lastFound,
                   declaredLast>>

(***************************************************************************)
(* One source of the loop                                                  *)
(***************************************************************************)
Fetching(id) == refresh # Idle /\ refresh.todo # {} /\ id = Min(refresh.todo)

\* The validators the request carries; --force drops them first.
Sent(id) == IF refresh.force THEN 0 ELSE validators[id]
NotModified(id, sent) == sent # 0 /\ sent = server[id].version

\* The loop goes on with the next source.
Advance(id, touched, merged, changed, failed) ==
    refresh' = [pc |-> "fetch", todo |-> refresh.todo \ {id}, force |-> refresh.force,
                declared |-> refresh.declared, touched |-> refresh.touched \cup touched,
                merged |-> refresh.merged \cup merged, changed |-> refresh.changed \/ changed,
                failed |-> refresh.failed \/ failed]

\* fetch failed: the error is kept.
SkipSource(id, touched) == Advance(id, touched, {}, FALSE, TRUE)

\* refresh_projection and index_subscription_snapshot.  The readers of the two
\* registries between their locks are the subject of BackgroundTasks.
Project(id, body, touched, changed) ==
    /\ Advance(id, touched, IF Displayable(body) THEN body.from ELSE {}, changed, ~Displayable(body))
    /\ nodes' = IF Renderable(body) THEN [nodes EXCEPT ![id] = body.from] ELSE nodes
    /\ routing' = IF Renderable(body) THEN [routing EXCEPT ![id] = RoutingOf(body)] ELSE routing
    /\ age' = [i \in Timed |-> IF i = id THEN 0 ELSE age[i]]

\* put_source: best-effort persistence, then memory.
PutSource(id, body, persisted) ==
    /\ files' = IF persisted THEN [files EXCEPT ![id] = body] ELSE files
    /\ memory' = [memory EXCEPT ![id] = body]

\* DNS, HTTP or status failure after the retries.
FetchFails(id) ==
    /\ Fetching(id)
    /\ validators' = [validators EXCEPT ![id] = Sent(id)]
    /\ SkipSource(id, {id})
    /\ UNCHANGED <<worldVars, memory, files, bothRegistries, age, outcome, crashes,
                   lastFound, declaredLast>>

\* The source answered with a body: it replaces the cached one, its validators
\* are stored when the server sent any, and no expansion runs.
FetchUpdated(id, tagged, persisted) ==
    /\ Fetching(id)
    /\ ~NotModified(id, Sent(id))
    /\ PutSource(id, ServedBody(id), persisted)
    /\ validators' = [validators EXCEPT ![id] = IF tagged THEN server[id].version ELSE 0]
    /\ Project(id, ServedBody(id), {id}, TRUE)
    /\ lastFound' = [lastFound EXCEPT ![id] = ServedBody(id)]
    /\ UNCHANGED <<worldVars, outcome, crashes, declaredLast>>

\* 304 for a source whose cached body is not a URL list.
FetchUnchanged(id) ==
    /\ Fetching(id)
    /\ NotModified(id, Sent(id))
    /\ RawSource(id).kind # "list"
    /\ Project(id, RawSource(id), {id}, FALSE)
    /\ lastFound' = [lastFound EXCEPT ![id] = IF server[id].kind = "list" THEN NoBody ELSE ServedBody(id)]
    /\ UNCHANGED <<worldVars, cacheVars, outcome, crashes, declaredLast>>

\* fetch_child: a child is conditional too, keyed by the id of its URL.
ChildBody(c) == IF NotModified(c, validators[c]) THEN RawSource(c) ELSE ServedBody(c)

\* expand_url_list after a 304: every listed URL is fetched in order, the first
\* failure ends the expansion, and only a complete merge replaces the body.
ExpandList(id, reachable, persisted) ==
    /\ Fetching(id)
    /\ NotModified(id, Sent(id))
    /\ RawSource(id).kind = "list"
    /\ LET fetched == {c \in Children : \A d \in Children : d <= c => d \in reachable}
           fresh == {c \in fetched : ~NotModified(c, validators[c])}
           tried == {c \in Children : \A d \in Children : d < c => d \in reachable}
           merged == Merge({ChildBody(c) : c \in Children})
           withChildren == [i \in Ids |-> IF i \in fresh THEN ServedBody(i) ELSE memory[i]]
       IN  /\ validators' = [i \in Ids |-> IF i \in fresh THEN server[i].version
                                           ELSE validators[i]]
           /\ IF fetched = Children /\ merged.kind # "list"
              THEN /\ memory' = [withChildren EXCEPT ![id] = merged]
                   /\ files' = IF persisted THEN [files EXCEPT ![id] = merged] ELSE files
                   /\ Project(id, merged, {id} \cup tried, fresh # {})
              ELSE /\ memory' = withChildren
                   /\ SkipSource(id, {id} \cup tried)
                   /\ UNCHANGED <<files, bothRegistries, age>>
    /\ lastFound' = [lastFound EXCEPT ![id] = NoBody]
    /\ UNCHANGED <<worldVars, outcome, crashes, declaredLast>>

(***************************************************************************)
(* The end of a refresh, and what the handler makes of it                  *)
(***************************************************************************)
\* A release that forgets the groups of a source that went away.
RetainDeclared_NodesOnly(declared, touched) ==
    LET keep == declared \cup touched
    IN  /\ memory' = [i \in Ids |-> IF i \in keep THEN memory[i] ELSE NoBody]
        /\ validators' = [i \in Ids |-> IF i \in keep THEN validators[i] ELSE 0]
        /\ nodes' = [i \in Ids |-> IF i \in declared THEN nodes[i] ELSE {}]
        /\ lastFound' = [i \in Ids |-> IF i \in declared THEN lastFound[i] ELSE NoBody]
        /\ UNCHANGED routing

\* retain_declared: what is neither declared nor touched is released.
RetainDeclared(declared, touched) ==
    LET keep == declared \cup touched
    IN  /\ memory' = [i \in Ids |-> IF i \in keep THEN memory[i] ELSE NoBody]
        /\ validators' = [i \in Ids |-> IF i \in keep THEN validators[i] ELSE 0]
        /\ nodes' = [i \in Ids |-> IF i \in declared THEN nodes[i] ELSE {}]
        /\ routing' = [i \in Ids |-> IF i \in declared THEN routing[i] ELSE {}]
        /\ lastFound' = [i \in Ids |-> IF i \in declared THEN lastFound[i] ELSE NoBody]

FinishRefresh ==
    /\ refresh # Idle /\ refresh.todo = {}
    /\ RetainDeclared(refresh.declared, refresh.touched)
    /\ LET error == \/ refresh.merged = {} /\ refresh.failed
                    \/ Cardinality(refresh.merged) > MaxSnapshot
           changed == refresh.changed \/ refresh.merged = {}
       IN  /\ outcome' = IF error THEN "failed" ELSE IF changed THEN "changed" ELSE "same"
    /\ refresh' = Idle
    /\ declaredLast' = refresh.declared
    /\ UNCHANGED <<worldVars, files, age, crashes>>

(***************************************************************************)
(* Restart and environment                                                 *)
(***************************************************************************)
\* A kill and the boot that follows it: restore_from_cache skips what config.yaml does not
\* declare, and discards a body it cannot project.
CrashAndRestore ==
    /\ crashes < MaxCrashes
    /\ ~broken
    /\ LET kept == {i \in config : files[i] # NoBody}
           good == {i \in kept : Displayable(files[i])}
           indexed == {i \in good : Renderable(files[i])}
       IN  /\ files' = [i \in Ids |-> IF i \in kept \ good THEN NoBody ELSE files[i]]
           /\ nodes' = [i \in Ids |-> IF i \in indexed THEN files[i].from ELSE {}]
           /\ routing' = [i \in Ids |-> IF i \in indexed THEN RoutingOf(files[i]) ELSE {}]
    /\ memory' = [i \in Ids |-> NoBody]
    /\ validators' = [i \in Ids |-> 0]
    /\ age' = [i \in Timed |-> Never]
    /\ refresh' = Idle
    /\ outcome' = "none"
    /\ crashes' = crashes + 1
    /\ lastFound' = [i \in Ids |-> NoBody]
    /\ declaredLast' = config
    /\ UNCHANGED worldVars

\* The world: a URL serves something new, the operator edits config.yaml, time
\* passes between refreshes.
ServerPublishes(id, kind) ==
    /\ published < MaxPublished /\ published' = published + 1
    /\ server' = [server EXCEPT ![id] = [kind |-> kind, version |-> @.version + 1]]
    /\ UNCHANGED <<config, broken, edits, cacheVars, bothRegistries, age, refresh, outcome, crashes,
                   lastFound, declaredLast>>

EditConfig(enabled, breaks) ==
    /\ refresh = Idle   \* a refresh reads the file once, when it starts
    /\ edits < MaxEdits /\ edits' = edits + 1
    /\ enabled # config \/ breaks # broken
    /\ config' = enabled /\ broken' = breaks
    /\ UNCHANGED <<server, published, cacheVars, bothRegistries, age, refresh, outcome, crashes, lastFound,
                   declaredLast>>

Tick ==
    /\ refresh = Idle
    /\ age' = [i \in Timed |-> IF age[i] \in {Never, MaxAge} THEN age[i] ELSE age[i] + 1]
    /\ age' # age
    /\ UNCHANGED <<worldVars, cacheVars, bothRegistries, refresh, outcome, crashes, lastFound,
                   declaredLast>>

FetchStep ==
    \E id \in Sources :
        \/ FetchFails(id)
        \/ \E tagged, persisted \in BOOLEAN : FetchUpdated(id, tagged, persisted)
        \/ FetchUnchanged(id)
        \/ \E reachable \in SUBSET Children, persisted \in BOOLEAN :
               ExpandList(id, reachable, persisted)

\* The operator asks for any source, forced or not; the timer asks for a batch.
Requests == [id : Sources \cup {All}, force : BOOLEAN, scheduled : {FALSE}]
            \cup {[id |-> All, force |-> FALSE, scheduled |-> TRUE]}

SubNext ==
    \/ \E r \in Requests : RefreshNothing(r.id, r.scheduled)
    \/ \E r \in Requests : BeginRefresh(r.id, r.force, r.scheduled)
    \/ FetchStep \/ FinishRefresh
    \/ CrashAndRestore
    \/ \E id \in Ids : \E kind \in KindsOf[id] : ServerPublishes(id, kind)
    \/ \E enabled \in SUBSET Sources, breaks \in BOOLEAN : EditConfig(enabled, breaks)
    \/ Tick

SubSpec == SubInit /\ [][SubNext]_subVars

(***************************************************************************)
(* Properties                                                              *)
(***************************************************************************)
\* A stored validator always has the body it validates in memory, so a 304
\* never leaves the refresh without a document.
ValidatorsHaveBody == \A i \in Ids : validators[i] # 0 => memory[i] # NoBody

\* Both registries of every source hold exactly what its last good fetch found,
\* whether that fetch was answered with a body or with a 304, until a refresh
\* that no longer finds the source declared releases it.
RegistryFresh ==
    \A i \in Ids :
        Renderable(lastFound[i]) => nodes[i] = lastFound[i].from /\ routing[i] = RoutingOf(lastFound[i])

\* Between refreshes nothing is registered for a source that the last converged
\* refresh, or the boot, did not find declared.
NoGhosts ==
    refresh = Idle => \A i \in Ids \ declaredLast : nodes[i] = {} /\ routing[i] = {}

\* The body of a URL that is only ever listed is never written to the cache
\* directory, so no boot takes it for a subscription of its own.
ChildrenUnpersisted == \A c \in Children \ Sources : files[c] = NoBody

\* What a 304 relies on: a validator that still matches stands for the very body
\* the server serves, unless that was a URL list and has been expanded since.
CacheKnows ==
    \A i \in Ids :
        /\ validators[i] <= server[i].version
        /\ validators[i] = server[i].version /\ server[i].kind # "list" => memory[i] = ServedBody(i)

Origins == SUBSET (Ids \X Nat)
CacheBodies == [kind : Kinds \cup {"none"}, from : Origins]

\* The types of the cache and the registries.
SubTypeOK ==
    /\ server \in [Ids -> [kind : Kinds, version : Nat \ {0}]]
    /\ memory \in [Ids -> CacheBodies] /\ files \in [Ids -> CacheBodies] /\ lastFound \in [Ids -> CacheBodies]
    /\ validators \in [Ids -> Nat]
    /\ nodes \in [Ids -> Origins] /\ routing \in [Ids -> Origins]

\* The invariant of the subscription backend.
SubInv ==
    SubTypeOK /\ CacheKnows /\ ValidatorsHaveBody /\ RegistryFresh /\ NoGhosts /\ ChildrenUnpersisted
=============================================================================
