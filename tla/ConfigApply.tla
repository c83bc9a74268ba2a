---------------------------- MODULE ConfigApply ----------------------------
(***************************************************************************)
(* The config actor's apply transaction: render and validate a candidate,  *)
(* commit it to the kernel's configuration file through a temporary file,  *)
(* load it by hot reload or by a restart, and roll the file back when the  *)
(* kernel will not load it.  Every port call looks the active kernel up    *)
(* again, and the lifecycle actor may switch or stop the kernel between    *)
(* two calls.  A killed daemon leaves its files, temporaries included, and *)
(* loses the generation counter and the rollback history.                  *)
(***************************************************************************)
EXTENDS Integers, FiniteSets, FiniteSetsExt

CONSTANTS
    Kernels,      \* the managed kernels
    Reloads,      \* the kernels with a hot-reload surface
    Bodies,       \* the bodies the settings may render to
    Boot,         \* the body a kernel's file starts with
    MaxHistory,   \* MAX_CONFIG_HISTORY
    FileFaults,   \* among "early" (before the rename) and "sync" (after it)
    StartFails,   \* whether a kernel may refuse to start or to reload
    MaxApplies,   \* bound on applies
    MaxWishes,    \* bound on switches and stops
    MaxKills      \* bound on daemon kills

ASSUME ConfigBounds ==
    /\ Kernels # {} /\ Reloads \subseteq Kernels /\ Boot \in Bodies
    /\ MaxHistory \in Nat /\ MaxHistory > 1
    /\ FileFaults \subseteq {"early", "sync"}
    /\ StartFails \in BOOLEAN
    /\ MaxApplies \in Nat /\ MaxWishes \in Nat /\ MaxKills \in Nat

VARIABLES
    active,    \* SharedActiveCore
    disk,      \* per kernel: its file's body and the temporaries beside it
    backend,   \* per kernel: generation, prepared candidates, history
    running,   \* per kernel: the body it runs, at most one; {} when stopped
    apply,     \* the config actor
    switch,    \* a switch in progress: at most one, with the kernel it left
    used       \* applies, wishes and kills spent

configVars == <<active, disk, backend, running, apply, switch, used>>

Gens == 0..(MaxApplies + 1)

\* torn is history, for the properties: a publication of this backend has
\* failed after its rename.
FreshBackend == [generation |-> 0, prepared |-> {}, history |-> {}, torn |-> FALSE]

\* kernel is the one a port call has dispatched to; history, for the
\* properties: the kernel the apply began with (of), its file (before), and
\* whether the lifecycle actor has acted since (disturbed).
IdleApply(k) ==
    [at |-> "idle", outcome |-> "none", id |-> 0, gen |-> 0, body |-> Boot,
     unchanged |-> FALSE, kernel |-> k, of |-> k, before |-> Boot,
     disturbed |-> switch # {}]

ConfigInit ==
    /\ active \in Kernels
    /\ disk = [k \in Kernels |-> [body |-> Boot, temps |-> {}]]
    /\ backend = [k \in Kernels |-> FreshBackend]
    /\ running = [k \in Kernels |-> IF k = active THEN {Boot} ELSE {}]
    /\ switch = {}
    /\ apply = IdleApply(active)
    /\ used = [applies |-> 0, wishes |-> 0, kills |-> 0]

\* A rollback history maps generations to bodies.
Generations(history) == {h.gen : h \in history}

Latest(history) == CHOOSE h \in history : h.gen = Max(Generations(history))

\* The oldest generation is dropped while there are too many.
Recorded(history, gen, body) ==
    LET all == {h \in history : h.gen # gen} \cup {[gen |-> gen, body |-> body]}
    IN  {h \in all : Cardinality({o \in all : o.gen > h.gen}) < MaxHistory}

\* parse_and_render: the candidate is rendered, validated by the kernel's
\* binary and kept; a rejected one is reported and nothing is kept.
ParseAndRender(body) ==
    /\ apply.at = "idle"
    /\ used.applies < MaxApplies
    /\ used' = [used EXCEPT !.applies = @ + 1]
    /\ LET id == used.applies + 1
           gen == backend[active].generation + 1
       IN  \/ /\ backend' = [backend EXCEPT ![active].prepared = @ \cup
                                {[id |-> id, gen |-> gen, body |-> body]}]
              /\ apply' = [IdleApply(active) EXCEPT
                             !.at = "commits", !.id = id, !.gen = gen,
                             !.before = disk[active].body]
           \/ /\ apply' = [IdleApply(active) EXCEPT !.outcome = "failed"]
              /\ UNCHANGED backend
    /\ UNCHANGED <<active, disk, running, switch>>

Candidate == {p \in backend[active].prepared : p.id = apply.id}

Kept == backend[active].prepared \ Candidate

\* commit_candidate as far as the temporary file: the candidate must have
\* been prepared by the backend now active, a body equal to the file's is a
\* no-op, and the temporary is created exclusively.
CommitMissing ==
    /\ apply.at = "commits"
    /\ Candidate = {}
    /\ apply' = [apply EXCEPT !.at = "discards"]
    /\ UNCHANGED <<active, disk, backend, running, switch, used>>

CommitUnchanged ==
    /\ apply.at = "commits"
    /\ \E p \in Candidate :
        /\ p.body = disk[active].body
        /\ apply' = [apply EXCEPT !.at = "reports", !.unchanged = TRUE,
                                  !.gen = backend[active].generation]
    /\ backend' = [backend EXCEPT ![active].prepared = Kept]
    /\ UNCHANGED <<active, disk, running, switch, used>>

PublishTemp(gen) == [what |-> "tmp", gen |-> gen]

CommitStages ==
    /\ apply.at = "commits"
    /\ \E p \in Candidate :
        /\ p.body # disk[active].body
        /\ IF PublishTemp(apply.gen) \in disk[active].temps
             THEN /\ apply' = [apply EXCEPT !.at = "discards"]
                  /\ UNCHANGED disk
             ELSE /\ disk' = [disk EXCEPT ![active].temps = @ \cup {PublishTemp(apply.gen)}]
                  /\ apply' = [apply EXCEPT !.at = "publishes", !.body = p.body]
    /\ backend' = [backend EXCEPT ![active].prepared = Kept]
    /\ UNCHANGED <<active, running, switch, used>>

Ends(outcome) == apply' = [apply EXCEPT !.at = "idle", !.outcome = outcome]

\* publish_and_record: the temporary is renamed over the file, then the
\* directory is synced; an early failure removes the temporary, a failed
\* sync leaves the new file and is reported as a failed commit.
CommitPublishes ==
    /\ apply.at = "publishes"
    /\ LET k == apply.kernel
           unstaged == disk[k].temps \ {PublishTemp(apply.gen)}
       IN  \/ /\ disk' = [disk EXCEPT ![k] = [body |-> apply.body, temps |-> unstaged]]
              /\ backend' = [backend EXCEPT ![k] = [backend[k] EXCEPT
                    !.history = Recorded(backend[k].history, apply.gen, apply.body),
                    !.generation = apply.gen]]
              /\ apply' = [apply EXCEPT !.at = "reloads"]
           \/ /\ "early" \in FileFaults
              /\ disk' = [disk EXCEPT ![k].temps = unstaged]
              /\ apply' = [apply EXCEPT !.at = "discards"]
              /\ UNCHANGED backend
           \/ /\ "sync" \in FileFaults
              /\ disk' = [disk EXCEPT ![k] = [body |-> apply.body, temps |-> unstaged]]
              /\ apply' = [apply EXCEPT !.at = "discards"]
              /\ backend' = [backend EXCEPT ![k].torn = TRUE]
    /\ UNCHANGED <<active, running, switch, used>>

\* discard_prepared, on the backend active by now; the apply has failed.
DiscardPrepared ==
    /\ apply.at = "discards"
    /\ backend' = [backend EXCEPT ![active].prepared = Kept]
    /\ Ends("failed")
    /\ UNCHANGED <<active, disk, running, switch, used>>

\* current_contents, then hot_reload, then restart when either gives nothing.
CurrentContents ==
    /\ apply.at = "reloads"
    /\ LET history == backend[active].history
       IN  apply' = IF history = {} THEN [apply EXCEPT !.at = "restarts"]
                    ELSE [apply EXCEPT !.at = "pushes", !.body = Latest(history).body]
    /\ UNCHANGED <<active, disk, backend, running, switch, used>>

HotReload ==
    /\ apply.at = "pushes"
    /\ \/ /\ active \in Reloads /\ running[active] # {}
          /\ running' = [running EXCEPT ![active] = {apply.body}]
          /\ apply' = [apply EXCEPT !.at = "reports"]
       \/ /\ active \notin Reloads \/ running[active] = {} \/ StartFails
          /\ apply' = [apply EXCEPT !.at = "restarts"]
          /\ UNCHANGED running
    /\ UNCHANGED <<active, disk, backend, switch, used>>

\* restart stops the kernel and starts it on its file; a failure before the
\* stop leaves it as it was, a later one leaves it stopped.
Restart ==
    /\ apply.at = "restarts"
    /\ \/ /\ running' = [running EXCEPT ![active] = {disk[active].body}]
          /\ apply' = [apply EXCEPT !.at = "reports"]
       \/ /\ StartFails
          /\ running' \in {running, [running EXCEPT ![active] = {}]}
          /\ apply' = [apply EXCEPT !.at = "rolls"]
    /\ UNCHANGED <<active, disk, backend, switch, used>>

\* The applied slice says Running, with the committed generation.
ReportsApplied ==
    /\ apply.at = "reports"
    /\ Ends("done")
    /\ UNCHANGED <<active, disk, backend, running, switch, used>>

\* rollback_commit on the backend active by now: nothing to do for another
\* generation or without an older one, which counts as success.
Older(k) == {h \in backend[k].history : h.gen < apply.gen}

RollbackTemp(gen) == [what |-> "rollback", gen |-> gen]

RollbackNothing ==
    /\ apply.at = "rolls"
    /\ backend[active].generation # apply.gen \/ Older(active) = {}
    /\ Ends("restored")
    /\ UNCHANGED <<active, disk, backend, running, switch, used>>

RollbackStages ==
    /\ apply.at = "rolls"
    /\ backend[active].generation = apply.gen /\ Older(active) # {}
    /\ LET temp == RollbackTemp(Latest(Older(active)).gen)
       IN  IF temp \in disk[active].temps
             THEN Ends("failed") /\ UNCHANGED disk
             ELSE /\ disk' = [disk EXCEPT ![active].temps = @ \cup {temp}]
                  /\ apply' = [apply EXCEPT !.at = "restores", !.kernel = active]
    /\ UNCHANGED <<active, backend, running, switch, used>>

RollbackRestores_OnlyCounts ==
    /\ apply.at = "restores"
    /\ LET k == apply.kernel
           older == Latest(Older(k))
       IN  /\ disk' = [disk EXCEPT ![k].temps = @ \ {RollbackTemp(older.gen)}]
           /\ backend' = [backend EXCEPT ![k] = [backend[k] EXCEPT
                 !.generation = older.gen,
                 !.history = {h \in backend[k].history : h.gen # apply.gen}]]
           /\ Ends("restored")
    /\ UNCHANGED <<active, running, switch, used>>

\* The older body is renamed over the file and the failed generation leaves
\* the history.
RollbackRestores ==
    /\ apply.at = "restores"
    /\ LET k == apply.kernel
           older == Latest(Older(k))
           unstaged == disk[k].temps \ {RollbackTemp(older.gen)}
       IN  \/ /\ disk' = [disk EXCEPT ![k] = [body |-> older.body, temps |-> unstaged]]
              /\ backend' = [backend EXCEPT ![k] = [backend[k] EXCEPT
                    !.generation = older.gen,
                    !.history = {h \in backend[k].history : h.gen # apply.gen}]]
              /\ Ends("restored")
           \/ /\ "early" \in FileFaults
              /\ disk' = [disk EXCEPT ![k].temps = unstaged]
              /\ Ends("failed")
              /\ UNCHANGED backend
           \/ /\ "sync" \in FileFaults
              /\ disk' = [disk EXCEPT ![k] = [body |-> older.body, temps |-> unstaged]]
              /\ Ends("failed")
              /\ backend' = [backend EXCEPT ![k].torn = TRUE]
    /\ UNCHANGED <<active, running, switch, used>>

\* The lifecycle actor, one wish at a time.
Disturbs == apply' = [apply EXCEPT !.disturbed = @ \/ apply.at # "idle"]

Wishes ==
    /\ switch = {}
    /\ Disturbs
    /\ used.wishes < MaxWishes
    /\ used' = [used EXCEPT !.wishes = @ + 1]

StopsCore ==
    /\ Wishes
    /\ running' = [running EXCEPT ![active] = {}]
    /\ UNCHANGED <<active, disk, backend, switch>>

StartsCore ==
    /\ Wishes
    /\ running[active] = {}
    /\ running' = [running EXCEPT ![active] = {disk[active].body}]
    /\ UNCHANGED <<active, disk, backend, switch>>

\* switch_to stops the active kernel and flips the cell under its lock.
SwitchFlips(target) ==
    /\ Wishes
    /\ target # active
    /\ running' = [running EXCEPT ![active] = {}]
    /\ switch' = {active}
    /\ active' = target
    /\ UNCHANGED <<disk, backend>>

\* It then starts the target, or flips back and starts the one it left.
SwitchStarts ==
    \E previous \in switch :
        /\ switch' = {}
        /\ Disturbs
        /\ \/ /\ running' = [running EXCEPT ![active] = {disk[active].body}]
              /\ UNCHANGED active
           \/ /\ StartFails
              /\ active' = previous
              /\ running' \in {running,
                               [running EXCEPT ![previous] = {disk[previous].body}]}
        /\ UNCHANGED <<disk, backend, used>>

\* The daemon is killed at any step and started again: files remain, the
\* backends are new, and the configured kernel is started or is not.
DaemonKilled ==
    /\ used.kills < MaxKills
    /\ used' = [used EXCEPT !.kills = @ + 1]
    /\ active' \in Kernels
    /\ backend' = [k \in Kernels |-> FreshBackend]
    /\ switch' = {}
    /\ apply' = [IdleApply(active') EXCEPT !.disturbed = FALSE]
    /\ \E started \in SUBSET {active'} :
           running' = [k \in Kernels |-> IF k \in started THEN {disk[k].body} ELSE {}]
    /\ UNCHANGED disk

ConfigNext ==
    \/ \E body \in Bodies : ParseAndRender(body)
    \/ CommitMissing
    \/ CommitUnchanged
    \/ CommitStages
    \/ CommitPublishes
    \/ DiscardPrepared
    \/ CurrentContents
    \/ HotReload
    \/ Restart
    \/ ReportsApplied
    \/ RollbackNothing
    \/ RollbackStages
    \/ RollbackRestores
    \/ StopsCore
    \/ StartsCore
    \/ \E target \in Kernels : SwitchFlips(target)
    \/ SwitchStarts
    \/ DaemonKilled

ConfigSpec == ConfigInit /\ [][ConfigNext]_configVars

-----------------------------------------------------------------------------

\* Every variable stays in its type, and no generation or candidate is ahead of
\* the applies that have begun.
ConfigTypeOK ==
    /\ active \in Kernels /\ switch \subseteq Kernels
    /\ disk \in [Kernels -> [body : Bodies, temps : SUBSET [what : {"tmp", "rollback"}, gen : Gens]]]
    /\ backend \in [Kernels -> [generation : Gens, torn : BOOLEAN,
                                prepared : SUBSET [id : 1..MaxApplies, gen : Gens, body : Bodies],
                                history : SUBSET [gen : Gens, body : Bodies]]]
    /\ running \in [Kernels -> SUBSET Bodies]
    /\ apply \in [at : {"idle", "commits", "publishes", "discards", "reloads", "pushes", "restarts",
                        "reports", "rolls", "restores"},
                  outcome : {"none", "failed", "done", "restored"}, id : 0..MaxApplies, gen : Gens,
                  body : Bodies, unchanged : BOOLEAN, kernel : Kernels, of : Kernels,
                  before : Bodies, disturbed : BOOLEAN]
    /\ used \in [applies : 0..MaxApplies, wishes : 0..MaxWishes, kills : 0..MaxKills]
    /\ apply.gen <= used.applies
    /\ \A k \in Kernels :
        /\ \A b, c \in running[k] : b = c
        /\ backend[k].generation <= used.applies
        /\ \A p \in backend[k].prepared : p.id <= used.applies

\* At most MaxHistory generations are remembered, one body for each, the one
\* the counter names among them and nothing newer.
HistorySound ==
    \A k \in Kernels : LET history == backend[k].history IN
        /\ IsFiniteSet(history) /\ Cardinality(history) <= MaxHistory
        /\ \A g, h \in history : g.gen = h.gen => g = h
        /\ \A h \in history : h.gen <= backend[k].generation
        /\ backend[k].generation # 0 => \E h \in history : h.gen = backend[k].generation

\* The generation counter names the newest remembered generation, and its
\* body is the published file: what current_contents serves is what a start
\* would load, whatever was rolled back, whichever kernel was active and
\* whenever the daemon was killed.  Only a failure reported after the rename
\* (atomic_write's directory sync) can set them apart.
PublishedIsCurrent ==
    \A k \in Kernels :
        backend[k].generation # 0 /\ ~backend[k].torn
            => LET latest == Latest(backend[k].history)
               IN  /\ latest.gen = backend[k].generation
                   /\ latest.body = disk[k].body

\* An apply that changed the file and reports Running has the active kernel
\* run the published file, unless the lifecycle actor switched or stopped
\* the kernel during it (config_command_handler's hot reload, then restart).
LoadedIsPublished ==
    apply.at = "reports" /\ ~apply.unchanged /\ ~apply.disturbed
        => running[active] = {disk[active].body}

\* An apply that failed with "previous generation restored" leaves the file
\* it found, if this daemon had published a generation before it and no
\* kernel was switched meanwhile (rollback_commit).
RollbackUndoes ==
    apply.outcome = "restored" /\ apply.gen > 1 /\ ~apply.disturbed /\ ~backend[apply.of].torn
        => disk[apply.of].body = apply.before

\* What the steps of an apply rely on.  Until its commit the file is as it was
\* found and the candidate is the next generation, of the kernel it was rendered
\* for; a staged rollback is of the newest generation and has an older one.  An
\* apply that was not disturbed is still about the active kernel, and from its
\* commit on that kernel remembers the file, and the one before it.
ApplyKnows ==
    LET of == backend[apply.of] IN
    /\ apply.at # "idle" => apply.outcome = "none" /\ apply.id = used.applies
    /\ apply.at \in {"commits", "publishes"} =>
          /\ apply.kernel = apply.of
          /\ apply.gen = of.generation + 1
          /\ apply.before = disk[apply.of].body
    /\ apply.at = "commits" =>
          \A k \in Kernels \ {apply.of} : \A p \in backend[k].prepared : p.id # apply.id
    /\ apply.at = "restores" => backend[apply.kernel].generation = apply.gen /\ Older(apply.kernel) # {}
    /\ ~apply.disturbed =>
          /\ apply.at # "idle" => active = apply.of
          /\ apply.at \in {"reloads", "pushes", "restarts", "rolls", "restores"} =>
                /\ apply.kernel = apply.of
                /\ apply.gen = of.generation
                /\ [gen |-> apply.gen, body |-> disk[apply.of].body] \in of.history
                /\ apply.gen > 1 /\ ~of.torn => [gen |-> apply.gen - 1, body |-> apply.before] \in of.history
          /\ apply.at = "pushes" => apply.body = disk[apply.of].body

\* The invariant of the configuration backends: a bounded history that never
\* remembers a generation twice or ahead of the counter, a published file that
\* agrees with it, a kernel that loaded what was published, a rollback that
\* undoes the apply it belongs to, and what the steps of an apply rely on.
ConfigFilesInv ==
    /\ ConfigTypeOK /\ HistorySound /\ PublishedIsCurrent
    /\ LoadedIsPublished /\ RollbackUndoes /\ ApplyKnows
=============================================================================
