--------------------------- MODULE ResourceEdits ----------------------------
(***************************************************************************)
(* The offline edits of the operator's resources: the lists of config.yaml, *)
(* and the inline proxies with a file each.                                *)
(***************************************************************************)
EXTENDS Integers, Sequences, FiniteSets, SequencesExt

(***************************************************************************)
(* The offline edits of config.yaml (caly set sub | proxy-group |          *)
(* rule-provider | profile ...), crates/caly-cli/src/client/*.rs.          *)
(*                                                                         *)
(* Every command is a process of its own: it checks its arguments and the  *)
(* loaded configuration, reads the file again, computes the new list,      *)
(* validates, copies the file to config.yaml.bak, and renames a private    *)
(* temporary file over it.  There is no lock, and a process may be killed  *)
(* between any two of those steps.                                         *)
(*                                                                         *)
(* All four lists hold records [id, name, on, every, refs]: the URL and    *)
(* the display name of a source, the members of a group that are groups,   *)
(* the parts of a merge profile.  How a list is written into the text is   *)
(* ConfigDocuments' subject.                                               *)
(***************************************************************************)
CONSTANTS
    Editors,        \* command processes
    EditCommands,   \* the commands they may be started with
    MaxCommands,    \* bound on the commands started
    StartConfig,    \* config.yaml at the start: a function of the four lists
    LegacyUrl,      \* the scalar subscriptions.url
    RuleSets        \* the providers the rules of config.yaml refer to

VARIABLES
    configFile,     \* config.yaml
    backupFile,     \* config.yaml.bak
    profileBodies,  \* ids with a body in the profile store
    sourceBodies,   \* URLs with a body in the daemon's subscription cache
    editor,         \* per process: its command and where it is
    begun           \* commands started so far

editVars == <<configFile, backupFile, profileBodies, sourceBodies, editor, begun>>

NoText == [list \in {} |-> <<>>]             \* no such file, no such text
TornCopy == [list \in {"torn"} |-> <<>>]
NoUrl == "no url"
NoCommand == [pc |-> "idle", cmd |-> "none", url |-> NoUrl, every |-> 0, old |-> NoText,
              new |-> NoText, result |-> "none", alone |-> TRUE]

IdsOf(list) == {list[i].id : i \in DOMAIN list}
FirstOf(list, id) == CHOOSE i \in DOMAIN list : list[i].id = id /\ \A j \in 1..(i - 1) : list[j].id # id
EntryOf(list, id) == list[FirstOf(list, id)]

\* parse_and_validate_yaml: what it asks of the four lists.  Sources have no
\* uniqueness check in the schema.
ListAccepted(config, list) ==
    list \in {"groups", "providers", "profiles"} =>
        /\ Cardinality(IdsOf(config[list])) = Len(config[list])
        /\ \A i \in DOMAIN config[list] : config[list][i].refs \subseteq IdsOf(config[list])
        /\ list = "providers" => RuleSets \subseteq IdsOf(config[list])

SchemaAccepts(config) == \A list \in DOMAIN config : ListAccepted(config, list)

EditsInit ==
    /\ configFile = StartConfig
    /\ backupFile = NoText
    /\ profileBodies = IdsOf(StartConfig["profiles"])
    /\ sourceBodies = IdsOf(StartConfig["sources"])
    /\ editor = [p \in Editors |-> NoCommand]
    /\ begun = 0

-----------------------------------------------------------------------------
(* The arguments of a command on their own.                                 *)

\* validate_source_name, normalize_source_token and the interval rule of
\* add_source and set_source: a file source is never refreshed on a schedule.
SourceArguments(cmd) ==
    cmd.args.safe /\ cmd.args.url # "bad" /\ ~ (cmd.args.url = "file" /\ cmd.entry.every > 0)

\* proxy_group::build_config: a probe URL exactly when the type probes.
GroupArguments(cmd) ==
    /\ cmd.args.safe
    /\ cmd.verb = "add" =>
          cmd.args.url # "bad" /\ (cmd.args.type \in {"url-test", "fallback", "load-balance"} <=> cmd.args.url = "web")

\* rule_provider::build_config: the URL of an http provider.
ProviderArguments(cmd) == cmd.args.safe /\ (cmd.verb = "add" /\ cmd.args.type = "http" => cmd.args.url = "web")

\* parse_source_spec and is_path_safe_component.
ProfileArguments(cmd) ==
    cmd.args.safe /\ (cmd.verb = "add" => cmd.args.url # "bad" /\ (cmd.args.type = "merge" => cmd.entry.refs # {}))

\* Whether the command writes: the subscription commands and two profile ones
\* ask for --apply alone, the others also for the absence of --dry-run.
SubApplies(cmd) == cmd.apply
GroupApplies(cmd) == cmd.apply /\ ~ cmd.dryRun
ProviderApplies(cmd) == cmd.apply /\ ~ cmd.dryRun
ProfileApplies(cmd) == cmd.apply /\ (cmd.verb \in {"add", "remove"} \/ ~ cmd.dryRun)

-----------------------------------------------------------------------------
(* Each operation: what it asks of the loaded configuration before it       *)
(* writes, and what its closure makes of the list it reads for writing.     *)

Edited(list) == [ok |-> TRUE, list |-> list]
Refused == [ok |-> FALSE, list |-> <<>>]
Without(list, id) == SelectSeq(list, LAMBDA e : e.id # id)
WithFlag(list, id, on) == [i \in DOMAIN list |-> IF list[i].id = id THEN [list[i] EXCEPT !.on = on] ELSE list[i]]

\* resolve_source_ref: a URL must be declared; a word is a display name, and
\* when no source has it, a position in the list, the scalar URL first.
ResolveSourceRef(config, token) ==
    LET sources == config["sources"]
        hits    == SelectSeq(sources, LAMBDA s : s.name = token.text)
        listed  == (IF LegacyUrl = NoUrl THEN <<>> ELSE <<LegacyUrl>>)
                       \o [i \in 1..Len(sources) |-> sources[i].id]
    IN  CASE token.kind = "url" ->
               IF token.text \in IdsOf(sources) \cup {LegacyUrl} THEN token.text ELSE NoUrl
          [] Len(hits) = 1 -> hits[1].id
          [] Len(hits) > 1 -> NoUrl
          [] OTHER -> IF token.nth \in 1..Len(listed) THEN listed[token.nth] ELSE NoUrl

NameTaken(config, name, self) ==
    name # "none" /\ \E i \in DOMAIN config["sources"] :
        config["sources"][i].name = name /\ config["sources"][i].id # self

AddSourceChecks(config, cmd) ==
    cmd.entry.id \notin IdsOf(config["sources"]) /\ ~ NameTaken(config, cmd.entry.name, NoUrl)
AddSource(list, cmd) == Edited(Append(list, cmd.entry))

SetSourceChecks(config, cmd, url) ==
    /\ url # NoUrl
    /\ cmd.entry.id \in {NoUrl, url} \/ cmd.entry.id \notin IdsOf(config["sources"])
    /\ ~ NameTaken(config, cmd.entry.name, url)

\* final_every, from the configuration of the check.
FinalEvery(config, cmd, url) ==
    CASE cmd.args.url = "file" -> 0
      [] cmd.entry.every > 0 -> cmd.entry.every
      [] url \in IdsOf(config["sources"]) -> EntryOf(config["sources"], url).every
      [] OTHER -> 0

SetSource(list, cmd, url, every) ==
    IF url \notin IdsOf(list) THEN Refused
    ELSE Edited([list EXCEPT ![FirstOf(list, url)] =
                    [@ EXCEPT !.id = IF cmd.entry.id = NoUrl THEN @ ELSE cmd.entry.id,
                              !.name = IF cmd.entry.name = "none" THEN @ ELSE cmd.entry.name,
                              !.every = every]])

\* The scalar URL resolves, but cannot be removed.
RemoveSourceChecks(url) == url \notin {NoUrl, LegacyUrl}
RemoveSource(list, url) == Edited(Without(list, url))

SetSourceEnabled(list, url, on) ==
    IF url \notin IdsOf(list) THEN Refused ELSE Edited([list EXCEPT ![FirstOf(list, url)].on = on])

\* add_group and add_provider look for the name in the closure only, so a dry
\* run does not.
AddGroup(list, cmd) == IF cmd.entry.id \in IdsOf(list) THEN Refused ELSE Edited(Append(list, cmd.entry))
GroupExists(config, id) == id \in IdsOf(config["groups"])
RemoveGroup(list, cmd) == Edited(Without(list, cmd.entry.id))
ReadEnabled(config, id) == EntryOf(config["groups"], id).on
SetGroupEnabled(list, cmd, on) == Edited(WithFlag(list, cmd.entry.id, on))

AddProvider(list, cmd) == IF cmd.entry.id \in IdsOf(list) THEN Refused ELSE Edited(Append(list, cmd.entry))
ProviderExists(config, id) == id \in IdsOf(config["providers"])
RemoveProvider(list, cmd) == Edited(Without(list, cmd.entry.id))
SetProviderEnabled(list, cmd, on) == Edited(WithFlag(list, cmd.entry.id, on))

FindDeclared(config, id) == id \in IdsOf(config["profiles"])
AddProfile(list, cmd) == Edited(Append(list, cmd.entry))
RemoveProfile(list, cmd) == Edited(Without(list, cmd.entry.id))
SetProfileEnabled(list, cmd, on) == Edited(WithFlag(list, cmd.entry.id, on))

\* load_app_config, load_declared_with and load_declared_profiles fail on a
\* file the schema refuses; adding a group or a provider loads nothing.
CheckPasses(config, cmd, url) ==
    CASE cmd.list = "sources" ->
           /\ SourceArguments(cmd) /\ SchemaAccepts(config)
           /\ CASE cmd.verb = "add" -> AddSourceChecks(config, cmd)
                [] cmd.verb = "set" -> SetSourceChecks(config, cmd, url)
                [] cmd.verb = "remove" -> RemoveSourceChecks(url)
                [] OTHER -> url # NoUrl
      [] cmd.list = "groups" ->
           GroupArguments(cmd) /\ (cmd.verb # "add" => SchemaAccepts(config) /\ GroupExists(config, cmd.entry.id))
      [] cmd.list = "providers" ->
           ProviderArguments(cmd) /\ (cmd.verb # "add" => SchemaAccepts(config) /\ ProviderExists(config, cmd.entry.id))
      [] OTHER ->
           ProfileArguments(cmd) /\ SchemaAccepts(config) /\ (cmd.verb # "add") = FindDeclared(config, cmd.entry.id)

Applies(cmd) ==
    CASE cmd.list = "sources" -> SubApplies(cmd)
      [] cmd.list = "groups" -> GroupApplies(cmd)
      [] cmd.list = "providers" -> ProviderApplies(cmd)
      [] OTHER -> ProfileApplies(cmd)

\* proxy_group::set_enabled looks at the flag before it writes.
AlreadySet(config, cmd) ==
    cmd.list = "groups" /\ cmd.verb \in {"enable", "disable"}
        /\ ReadEnabled(config, cmd.entry.id) = (cmd.verb = "enable")

EditedList(list, cmd, url, every) ==
    LET on == cmd.verb = "enable"
    IN  CASE cmd.list = "sources" ->
               (CASE cmd.verb = "add" -> AddSource(list, cmd)
                  [] cmd.verb = "set" -> SetSource(list, cmd, url, every)
                  [] cmd.verb = "remove" -> RemoveSource(list, url)
                  [] OTHER -> SetSourceEnabled(list, url, on))
          [] cmd.list = "groups" ->
               (CASE cmd.verb = "add" -> AddGroup(list, cmd)
                  [] cmd.verb = "remove" -> RemoveGroup(list, cmd)
                  [] OTHER -> SetGroupEnabled(list, cmd, on))
          [] cmd.list = "providers" ->
               (CASE cmd.verb = "add" -> AddProvider(list, cmd)
                  [] cmd.verb = "remove" -> RemoveProvider(list, cmd)
                  [] OTHER -> SetProviderEnabled(list, cmd, on))
          [] OTHER ->
               (CASE cmd.verb = "add" -> AddProfile(list, cmd)
                  [] cmd.verb = "remove" -> RemoveProfile(list, cmd)
                  [] OTHER -> SetProfileEnabled(list, cmd, on))

-----------------------------------------------------------------------------
(* The processes.                                                           *)

At(p, pc) == editor[p].pc = pc
Exit(p, result) == editor' = [editor EXCEPT ![p] = [NoCommand EXCEPT !.result = result]]

BeginCommand(p, cmd) ==
    /\ At(p, "idle") /\ begun < MaxCommands
    /\ begun' = begun + 1
    /\ LET solo == \A q \in Editors \ {p} : At(q, "idle")
       IN  editor' = [q \in Editors |->
               IF q = p THEN [NoCommand EXCEPT !.pc = "check", !.cmd = cmd, !.alone = solo]
               ELSE [editor[q] EXCEPT !.alone = @ /\ At(q, "idle")]]
    /\ UNCHANGED <<configFile, backupFile, profileBodies, sourceBodies>>

\* The load and the checks on it.
CheckCommand(p) ==
    LET cmd == editor[p].cmd
        url == CASE cmd.list # "sources" -> NoUrl
                 [] cmd.verb = "add" -> cmd.entry.id
                 [] OTHER -> ResolveSourceRef(configFile, cmd.target)
        every == IF cmd.verb = "set" THEN FinalEvery(configFile, cmd, url) ELSE 0
        next  == IF cmd.list = "profiles" /\ cmd.verb = "remove" THEN "clear" ELSE "edit"
    IN  /\ At(p, "check")
        /\ IF ~ CheckPasses(configFile, cmd, url) THEN Exit(p, "refused")
           ELSE IF AlreadySet(configFile, cmd) THEN Exit(p, "no change")
           ELSE IF ~ Applies(cmd) THEN Exit(p, "dry run")
           ELSE editor' = [editor EXCEPT ![p].pc = next, ![p].url = url, ![p].every = every]
        /\ UNCHANGED <<configFile, backupFile, profileBodies, sourceBodies, begun>>

\* remove_profile: the cached body goes before the declaration.
ClearProfileBody(p) ==
    /\ At(p, "clear")
    /\ profileBodies' = profileBodies \ {editor[p].cmd.entry.id}
    /\ editor' = [editor EXCEPT ![p].pc = "edit"]
    /\ UNCHANGED <<configFile, backupFile, sourceBodies, begun>>

\* The end of the three writers' reading half: nothing to do, refused by the
\* closure or the validation, or a text to write.
SettleEdit(p, edited, validates) ==
    LET cmd == editor[p].cmd
        new == [configFile EXCEPT ![cmd.list] = edited.list]
    IN  IF ~ edited.ok THEN Exit(p, "refused")
        ELSE IF new = configFile THEN Exit(p, "no change")
        ELSE IF validates /\ ~ SchemaAccepts(new) THEN Exit(p, "refused")
        ELSE editor' = [editor EXCEPT ![p].pc = "open", ![p].old = configFile, ![p].new = new]

EditedBy(p) == EditedList(configFile[editor[p].cmd.list], editor[p].cmd, editor[p].url, editor[p].every)

\* mutate_list without the check before the write.
MutateList_Unvalidated(p) ==
    /\ At(p, "edit") /\ editor[p].cmd.list \in {"groups", "providers"}
    /\ SettleEdit(p, EditedBy(p), FALSE)
    /\ UNCHANGED <<configFile, backupFile, profileBodies, sourceBodies, begun>>

\* mutate_list, for groups and rule providers.
MutateList(p) ==
    /\ At(p, "edit") /\ editor[p].cmd.list \in {"groups", "providers"}
    /\ SettleEdit(p, EditedBy(p), TRUE)
    /\ UNCHANGED <<configFile, backupFile, profileBodies, sourceBodies, begun>>

MutateSubscriptionSources(p) ==
    /\ At(p, "edit") /\ editor[p].cmd.list = "sources"
    /\ SettleEdit(p, EditedBy(p), TRUE)
    /\ UNCHANGED <<configFile, backupFile, profileBodies, sourceBodies, begun>>

\* mutate_profiles_in_config does not validate what it is about to write.
MutateProfilesInConfig(p) ==
    /\ At(p, "edit") /\ editor[p].cmd.list = "profiles"
    /\ SettleEdit(p, EditedBy(p), FALSE)
    /\ UNCHANGED <<configFile, backupFile, profileBodies, sourceBodies, begun>>

\* fs::copy: the backup is truncated, then filled with what the opened file
\* held.
OpenBackup(p) ==
    /\ At(p, "open")
    /\ backupFile' = TornCopy
    /\ editor' = [editor EXCEPT ![p].pc = "fill", ![p].old = configFile]
    /\ UNCHANGED <<configFile, profileBodies, sourceBodies, begun>>

FillBackup(p) ==
    /\ At(p, "fill")
    /\ backupFile' = editor[p].old
    /\ editor' = [editor EXCEPT ![p].pc = "rename"]
    /\ UNCHANGED <<configFile, profileBodies, sourceBodies, begun>>

\* write_atomic: the temporary file has the process id in its name, so only
\* the rename is visible to others.
ReplaceConfig(p) ==
    LET cmd == editor[p].cmd
        purges == cmd.list = "sources" /\ cmd.verb = "remove" /\ cmd.purge
    IN  /\ At(p, "rename")
        /\ configFile' = editor[p].new
        /\ IF purges THEN editor' = [editor EXCEPT ![p].pc = "purge"] ELSE Exit(p, "applied")
        /\ UNCHANGED <<backupFile, profileBodies, sourceBodies, begun>>

\* remove_source --purge: only after the entry is gone, and best effort.
PurgeBody(p) ==
    /\ At(p, "purge")
    /\ sourceBodies' \in {sourceBodies, sourceBodies \ {editor[p].url}}
    /\ Exit(p, "applied")
    /\ UNCHANGED <<configFile, backupFile, profileBodies, begun>>

\* An I/O error at a step, or a kill: the process is gone and the files stay
\* as they are.
StopEditor(p) ==
    /\ editor[p].pc \in {"check", "clear", "edit", "open", "fill", "rename", "purge"}
    /\ Exit(p, "failed")
    /\ UNCHANGED <<configFile, backupFile, profileBodies, sourceBodies, begun>>

EditsNext ==
    \E p \in Editors :
        \/ \E cmd \in EditCommands : BeginCommand(p, cmd)
        \/ CheckCommand(p) \/ ClearProfileBody(p) \/ MutateList(p) \/ MutateSubscriptionSources(p)
        \/ MutateProfilesInConfig(p) \/ OpenBackup(p) \/ FillBackup(p)
        \/ ReplaceConfig(p) \/ PurgeBody(p) \/ StopEditor(p)

EditsSpec == EditsInit /\ [][EditsNext]_editVars

-----------------------------------------------------------------------------

\* mutate_list and mutate_subscription_sources: "a failed validation never
\* reaches disk".  However commands interleave or die, the lists of groups,
\* providers and sources in config.yaml stay acceptable to the schema: names
\* unique, members and referenced providers declared.
EditsKeepSchema == \A list \in {"sources", "groups", "providers"} : ListAccepted(configFile, list)

\* backup_config_yaml before write_atomic: a command that ran alone replaces
\* exactly the text it read and has just copied, so the backup undoes it.
BackupUndoes ==
    \A p \in Editors : At(p, "rename") /\ editor[p].alone
        => backupFile = configFile /\ editor[p].old = configFile

\* remove_profile clears the body before it drops the declaration, so no kill
\* leaves a body in the profile store whose profile nobody declares.
BodiesAreDeclared == profileBodies \subseteq IdsOf(configFile["profiles"])

EditsInv == EditsKeepSchema /\ BackupUndoes /\ BodiesAreDeclared

(***************************************************************************)
(* The inline proxies of caly set proxy add | remove | edit | import       *)
(* (crates/caly-cli/src/client/inline_proxy.rs and its writers): one JSON  *)
(* file per URI under the state directory, named after the URI's hash, and *)
(* written through a temporary file.  One command runs at a time and may   *)
(* be killed between any two steps.                                        *)
(***************************************************************************)
CONSTANTS
    Uris,           \* lines an operator may type or import
    ProxyUris,      \* those validate_uri accepts
    ProxyGroups,    \* values of the group line
    ImportFiles,    \* files to import: sequences of lines
    MaxJobs         \* bound on the commands started

VARIABLES
    entryFile,      \* <id>.json: absent, or the entry
    entryTmp,       \* <id>.json.tmp
    job,            \* the running command
    jobs

inlineVars == <<entryFile, entryTmp, job, jobs>>

\* DefaultHasher over the trimmed URI: taken to be injective on Uris.
IdForUri(uri) == uri

NoEntry == [there |-> FALSE, whole |-> FALSE, uri |-> "none", group |-> "none"]
Truncated == [NoEntry EXCEPT !.there = TRUE]
Entry(uri, group) == [there |-> TRUE, whole |-> TRUE, uri |-> uri, group |-> group]
NoJob == [pc |-> "idle", verb |-> "none", id |-> "none", plan |-> <<>>]

InlineInit ==
    /\ entryFile = [u \in Uris |-> NoEntry]
    /\ entryTmp = [u \in Uris |-> NoEntry]
    /\ job = NoJob
    /\ jobs = 0

\* The command writes the entries of plan in turn; an edit that moved its
\* entry has the old id to remove afterwards.
Start(verb, id, plan) ==
    /\ job' = IF plan = <<>> THEN NoJob ELSE [pc |-> "open", verb |-> verb, id |-> id, plan |-> plan]
    /\ UNCHANGED <<entryFile, entryTmp>>

AddProxy(uri, group, apply) ==
    /\ job = NoJob /\ jobs < MaxJobs /\ jobs' = jobs + 1
    /\ Start("add", "none",
             IF uri \in ProxyUris /\ ~ entryFile[IdForUri(uri)].there /\ apply THEN <<Entry(uri, group)>> ELSE <<>>)

RemoveProxy(id, apply) ==
    /\ job = NoJob /\ jobs < MaxJobs /\ jobs' = jobs + 1
    /\ entryFile' = IF entryFile[id].there /\ apply THEN [entryFile EXCEPT ![id] = NoEntry] ELSE entryFile
    /\ UNCHANGED <<entryTmp, job>>

\* edit_proxy once the editor has returned newUri and newGroup.  The same URI
\* is rewritten only for another group; a URI that is already declared is
\* refused; an editor that fails or leaves nothing valid changes nothing.
EditProxy(id, newUri, newGroup) ==
    LET entry == entryFile[id]
        moved == IdForUri(newUri) # id
        plan  == CASE ~ entry.there \/ ~ entry.whole \/ newUri \notin ProxyUris -> <<>>
                   [] ~ moved -> IF newGroup = entry.group THEN <<>> ELSE <<Entry(entry.uri, newGroup)>>
                   [] OTHER -> IF entryFile[IdForUri(newUri)].there THEN <<>> ELSE <<Entry(newUri, newGroup)>>
    IN  /\ job = NoJob /\ jobs < MaxJobs /\ jobs' = jobs + 1
        /\ Start("edit", IF moved THEN id ELSE "none", plan)

\* import_proxy: every line is checked before the first entry is written;
\* declared and repeated URIs are passed over.
ImportPlan(lines) ==
    LET New(plan, line) ==
            IF entryFile[IdForUri(line)].there \/ \E i \in DOMAIN plan : plan[i].uri = line
            THEN plan ELSE Append(plan, Entry(line, "none"))
    IN  IF ToSet(lines) \subseteq ProxyUris THEN FoldLeft(New, <<>>, lines) ELSE <<>>

ImportProxy(lines, apply) ==
    /\ job = NoJob /\ jobs < MaxJobs /\ jobs' = jobs + 1
    /\ Start("import", "none", IF apply THEN ImportPlan(lines) ELSE <<>>)

\* write_entry: the temporary file is created, filled, and renamed.
OpenEntryTmp ==
    /\ job.pc = "open"
    /\ entryTmp' = [entryTmp EXCEPT ![IdForUri(job.plan[1].uri)] = Truncated]
    /\ job' = [job EXCEPT !.pc = "fill"]
    /\ UNCHANGED <<entryFile, jobs>>

FillEntryTmp ==
    /\ job.pc = "fill"
    /\ entryTmp' = [entryTmp EXCEPT ![IdForUri(job.plan[1].uri)] = job.plan[1]]
    /\ job' = [job EXCEPT !.pc = "rename"]
    /\ UNCHANGED <<entryFile, jobs>>

RenameEntry ==
    LET id == IdForUri(job.plan[1].uri)
        rest == Tail(job.plan)
    IN  /\ job.pc = "rename"
        /\ entryFile' = [entryFile EXCEPT ![id] = entryTmp[id]]
        /\ entryTmp' = [entryTmp EXCEPT ![id] = NoEntry]
        /\ job' = CASE job.id # "none" -> [job EXCEPT !.pc = "remove", !.plan = <<job.plan[1]>>]
                    [] rest = <<>> -> NoJob
                    [] OTHER -> [job EXCEPT !.pc = "open", !.plan = rest]
        /\ UNCHANGED jobs

RemoveOldEntry ==
    /\ job.pc = "remove"
    /\ entryFile' = [entryFile EXCEPT ![job.id] = NoEntry]
    /\ job' = NoJob
    /\ UNCHANGED <<entryTmp, jobs>>

\* An I/O error or a kill.
StopInline == job # NoJob /\ job' = NoJob /\ UNCHANGED <<entryFile, entryTmp, jobs>>

InlineNext ==
    \/ \E u \in Uris, g \in ProxyGroups, apply \in BOOLEAN : AddProxy(u, g, apply)
    \/ \E u \in Uris, apply \in BOOLEAN : RemoveProxy(u, apply)
    \/ \E u, new \in Uris, g \in ProxyGroups : EditProxy(u, new, g)
    \/ \E lines \in ImportFiles, apply \in BOOLEAN : ImportProxy(lines, apply)
    \/ OpenEntryTmp \/ FillEntryTmp \/ RenameEntry \/ RemoveOldEntry \/ StopInline

InlineSpec == InlineInit /\ [][InlineNext]_inlineVars

\* edit_proxy: "WRITE FIRST, THEN REMOVE the old entry".  Whatever is killed,
\* an entry disappears only by a remove command or because an edit has stored
\* its successor whole, and no file under its final name is ever partial.
EntriesSafe ==
    [][\A u \in Uris :
         /\ entryFile'[u].there => entryFile'[u].whole /\ entryFile'[u].uri = u
         /\ entryFile[u].there /\ ~ entryFile'[u].there =>
               \/ jobs' = jobs + 1 /\ job' = NoJob
               \/ job.pc = "remove" /\ entryFile[job.plan[1].uri] = job.plan[1]]_inlineVars
=============================================================================
