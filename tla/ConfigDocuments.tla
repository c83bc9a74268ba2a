-------------------------- MODULE ConfigDocuments ---------------------------
(***************************************************************************)
(* What becomes of the text of the configuration: the edits of a list in   *)
(* config.yaml, the layers the loader merges, and the schema the merged    *)
(* document must satisfy.  Pure operators, evaluated by MCDocuments.       *)
(***************************************************************************)
EXTENDS Integers, FiniteSets, Sequences, FiniteSetsExt, SequencesExt, Relation

(***************************************************************************)
(* The line surgery the `set` commands perform on a list of config.yaml:   *)
(* the locator that finds the list in the text, the minimal patch derived  *)
(* from the list before and after the edit, the splices that apply it, the *)
(* self-check that re-reads the result, and the fallback that serialises   *)
(* the whole document again.                                               *)
(*                                                                         *)
(* A line is blank, a comment, a `key:` with what follows the colon, a     *)
(* `- ` item, or the continuation of one; `at` is its indentation.  An     *)
(* element is its value and takes Height[v] lines.  An edit is a record of *)
(* the original text, the keyPath of the list (a key, or a parent and a    *)
(* key) and the list that should be there after it.                        *)
(***************************************************************************)
CONSTANT Height     \* lines an element is rendered to

Blank == [kind |-> "blank"]
Comment(text) == [kind |-> "comment", text |-> text]
Key(at, name, inline, note) ==
    [kind |-> "key", at |-> at, name |-> name, inline |-> inline, note |-> note]
Item(at, value) == [kind |-> "item", at |-> at, value |-> value]
More(at, value) == [kind |-> "more", at |-> at, value |-> value]

\* classify
IsContent(line) == line.kind \in {"key", "item", "more"}

(***************************************************************************)
(* What the YAML parser reads: the reference the surgery is checked against*)
(***************************************************************************)
\* The lines below a key: deeper ones, and items at the key's own indentation.
Below(lines, k) ==
    LET C == {i \in k+1..Len(lines) : IsContent(lines[i])}
        out == {i \in C : lines[i].at < lines[k].at
                          \/ (lines[i].at = lines[k].at /\ lines[i].kind # "item")}
    IN  {i \in C : \A j \in out : i < j}

Unreadable == [shape |-> "error"]
Null == [shape |-> "null"]
Scalar == [shape |-> "scalar"]
ListOf(elements) == [shape |-> "list", elements |-> elements]

\* A block sequence: items at one indentation, each with its deeper lines.
ReadList(lines, B) ==
    LET d == lines[Min(B)].at
        starts == {i \in B : lines[i].at = d}
        part(i) == {j \in B : j >= i /\ \A s \in starts : s > i => j < s}
        whole(i) == /\ Cardinality(part(i)) = Height[lines[i].value]
                    /\ \A j \in part(i) : lines[j].kind # "key" /\ lines[j].value = lines[i].value
        sorted == SetToSortSeq(starts, <)
    IN  IF /\ \A i \in B : lines[i].at >= d
           /\ \A i \in starts : lines[i].kind = "item" /\ whole(i)
        THEN ListOf([n \in DOMAIN sorted |-> lines[sorted[n]].value])
        ELSE Unreadable

\* The value of the key at line k, one level of mapping deep.
ReadLeaf(lines, k) ==
    LET B == Below(lines, k)
    IN  CASE lines[k].inline = "[]" /\ B = {} -> ListOf(<<>>)
          [] lines[k].inline = "[a, b]" /\ B = {} -> ListOf(<<"a", "b">>)
          [] lines[k].inline = "other" /\ B = {} -> Scalar
          [] lines[k].inline = "empty" /\ B = {} -> Null
          [] lines[k].inline = "empty" /\ lines[Min(B)].kind = "item" -> ReadList(lines, B)
          [] OTHER -> Unreadable

\* The whole document: the value at every path, or an error.
ReadDocument(lines) ==
    LET C == {i \in DOMAIN lines : IsContent(lines[i])}
        tops == {i \in C : lines[i].at = 0 /\ lines[i].kind = "key"}
        parents == {k \in tops : /\ Below(lines, k) # {}
                                 /\ lines[Min(Below(lines, k))].kind = "key"}
        level(k) == lines[Min(Below(lines, k))].at
        children(k) == {i \in Below(lines, k) : lines[i].at = level(k) /\ lines[i].kind = "key"}
        leaves == (tops \ parents) \cup UNION {children(k) : k \in parents}
        path(i) == IF i \in tops THEN <<lines[i].name>>
                   ELSE <<lines[CHOOSE k \in parents : i \in children(k)].name, lines[i].name>>
        covered == tops \cup leaves \cup UNION {Below(lines, i) : i \in leaves}
        sound == /\ \A k \in parents : lines[k].inline = "empty"
                 /\ \A i \in leaves : ReadLeaf(lines, i) # Unreadable
                 /\ \A i, j \in leaves : path(i) = path(j) => i = j
                 /\ \A j, k \in parents : lines[j].name = lines[k].name => j = k
                 /\ C = covered
    IN  IF sound
        THEN [shape |-> "document",
              at |-> [p \in {path(i) : i \in leaves} |->
                        ReadLeaf(lines, CHOOSE i \in leaves : path(i) = p)]]
        ELSE Unreadable

\* navigate_typed: a missing list is empty, anything else that is no list an error.
NavigateTyped(document, path) ==
    CASE document = Unreadable -> Unreadable
      [] path \in DOMAIN document.at ->
             IF document.at[path].shape = "list" THEN document.at[path] ELSE Unreadable
      [] Len(path) = 2 /\ <<path[1]>> \in DOMAIN document.at -> Unreadable
      [] OTHER -> ListOf(<<>>)

(***************************************************************************)
(* The minimal patch                                                       *)
(***************************************************************************)
\* One pass over the old list that skips what the new one does not take.
Skipped(before, to) ==
    FoldLeft(LAMBDA acc, i :
                IF acc.taken < Len(to) /\ before[i] = to[acc.taken + 1]
                THEN [acc EXCEPT !.taken = @ + 1]
                ELSE [acc EXCEPT !.removed = @ \cup {i}],
             [taken |-> 0, removed |-> {}], [i \in DOMAIN before |-> i])

DeriveListEdit(before, to) ==
    CASE before = to -> [op |-> "none"]
      [] Len(to) > Len(before) /\ SubSeq(to, 1, Len(before)) = before ->
             [op |-> "append", tail |-> SubSeq(to, Len(before) + 1, Len(to))]
      [] Len(to) = Len(before) ->
             [op |-> "replace", at |-> {i \in DOMAIN to : to[i] # before[i]}, by |-> to]
      [] Len(to) < Len(before) /\ Skipped(before, to).taken = Len(to) ->
             [op |-> "remove", at |-> Skipped(before, to).removed]
      [] OTHER -> [op |-> "rewrite", to |-> to]

(***************************************************************************)
(* The locator                                                             *)
(***************************************************************************)
FindTopKey(lines, key) ==
    {i \in DOMAIN lines : /\ lines[i].kind = "key" /\ lines[i].at = 0 /\ lines[i].name = key
                          /\ \A j \in 1..i-1 :
                                ~(lines[j].kind = "key" /\ lines[j].at = 0 /\ lines[j].name = key)}

\* The child at the indentation its first sibling establishes, before the parent ends.
FindChildKey(lines, parent, key) ==
    LET C == {i \in parent+1..Len(lines) : IsContent(lines[i])}
        level == lines[Min(C)].at
        ends == {i \in C : lines[i].at <= lines[parent].at \/ lines[i].at < level}
        hits == {i \in C : /\ lines[i].at = level /\ lines[i].kind = "key" /\ lines[i].name = key
                           /\ \A e \in ends : i < e}
    IN  IF hits = {} THEN {} ELSE {Min(hits)}

\* The key line of the list, as a set of at most one line.
FindKey(lines, path) ==
    IF Len(path) = 1 THEN FindTopKey(lines, path[1])
    ELSE UNION {FindChildKey(lines, k, path[2]) : k \in FindTopKey(lines, path[1])}

NoSite == [ok |-> FALSE]

\* read_key_site: the entries of a block list, as first and last line; no site when a
\* line fits no entry.
ReadKeySite(lines, k) ==
    LET C == {i \in k+1..Len(lines) : IsContent(lines[i])}
        ends == {i \in C : lines[i].at <= lines[k].at}
        B == {i \in C : \A e \in ends : i < e}
        d == lines[Min(B)].at
        starts == {i \in B : lines[i].at = d}
        last(i) == Max({j \in B : j >= i /\ \A s \in starts : s > i => j < s})
        sorted == SetToSortSeq(starts, <)
    IN  CASE lines[k].inline # "empty" \/ B = {} ->
                 [ok |-> TRUE, inline |-> lines[k].inline, entries |-> <<>>, indent |-> -1]
          [] /\ \A i \in B : lines[i].at >= d
             /\ \A i \in starts : lines[i].kind = "item" ->
                 [ok |-> TRUE, inline |-> "empty", indent |-> d,
                  entries |-> [n \in DOMAIN sorted |-> <<sorted[n], last(sorted[n])>>]]
          [] OTHER -> NoSite

(***************************************************************************)
(* The splices                                                             *)
(***************************************************************************)
RenderEntry(value, at) ==
    <<Item(at, value)>> \o [n \in 1..Height[value]-1 |-> More(at + 2, value)]
RenderAll(values, at) == FlattenSeq([n \in DOMAIN values |-> RenderEntry(values[n], at)])

Splice(start, end, block) == [start |-> start, end |-> end, block |-> block]
ItemIndent(site, at) == IF site.indent = -1 THEN at + 2 ELSE site.indent
GiveUp == {}

PlanAppend(lines, k, site, tail) ==
    LET rendered == RenderAll(tail, ItemIndent(site, lines[k].at))
        position == IF site.entries = <<>> THEN k + 1 ELSE site.entries[Len(site.entries)][2] + 1
    IN  CASE site.inline = "empty" -> {<<Splice(position, position, rendered)>>}
          [] site.inline = "[]" ->
                 {<<Splice(k, k + 1, <<[lines[k] EXCEPT !.inline = "empty"]>> \o rendered)>>}
          [] OTHER -> GiveUp

PlanRemove(lines, k, site, at) ==
    LET n == Len(site.entries)
        cuts == [i \in 1..n |-> IF (n + 1 - i) \in at
                                THEN <<Splice(site.entries[n+1-i][1], site.entries[n+1-i][2] + 1, <<>>)>>
                                ELSE <<>>]
        emptied == IF Cardinality(at) = n
                   THEN <<Splice(k, k + 1, <<[lines[k] EXCEPT !.inline = "[]"]>>)>> ELSE <<>>
    IN  IF \A i \in at : i <= n THEN {FlattenSeq(cuts) \o emptied} ELSE GiveUp

PlanReplace(site, at, by) ==
    LET n == Len(site.entries)
        swaps == [i \in 1..n |-> IF (n + 1 - i) \in at
                                 THEN <<Splice(site.entries[n+1-i][1], site.entries[n+1-i][2] + 1,
                                               RenderEntry(by[n+1-i], site.indent))>>
                                 ELSE <<>>]
    IN  IF site.indent # -1 /\ \A i \in at : i <= n THEN {FlattenSeq(swaps)} ELSE GiveUp

PlanRewrite(lines, k, site, to) ==
    LET n == Len(site.entries)
        rendered == RenderAll(to, ItemIndent(site, lines[k].at))
        cuts == [i \in 1..n |-> Splice(site.entries[n+1-i][1], site.entries[n+1-i][2] + 1, <<>>)]
        line == [lines[k] EXCEPT !.inline = IF to = <<>> THEN "[]" ELSE "empty", !.note = FALSE]
    IN  {cuts \o <<Splice(k + 1, k + 1, rendered), Splice(k, k + 1, <<line>>)>>}

\* creation_block: the list, and its parent when that is missing too, at the end of the
\* file or of the parent's block.
CreationBlock(lines, path, tail) ==
    LET top == FindTopKey(lines, path[1])
        k == Min(top)
        C == {i \in k+1..Len(lines) : IsContent(lines[i])}
        B == {i \in C : \A e \in {j \in C : lines[j].at = 0} : i < e}
        level == IF B = {} THEN 2 ELSE lines[Min(B)].at
        position == IF B = {} THEN k + 1 ELSE Max(B) + 1
    IN  CASE Len(path) = 1 ->
                 Splice(Len(lines) + 1, Len(lines) + 1,
                        <<Key(0, path[1], "empty", FALSE)>> \o RenderAll(tail, 2))
          [] Len(path) = 2 /\ top = {} ->
                 Splice(Len(lines) + 1, Len(lines) + 1,
                        <<Key(0, path[1], "empty", FALSE), Key(2, path[2], "empty", FALSE)>>
                        \o RenderAll(tail, 4))
          [] OTHER -> Splice(position, position,
                             <<Key(level, path[2], "empty", FALSE)>> \o RenderAll(tail, level + 2))

\* The plan of an edit, as a set of at most one sequence of splices, last line first.
Plan(lines, path, edit) ==
    LET at == FindKey(lines, path)
        k == Min(at)
        site == ReadKeySite(lines, k)
    IN  CASE at = {} /\ edit.op = "append" -> {<<CreationBlock(lines, path, edit.tail)>>}
          [] at = {} -> GiveUp
          [] site = NoSite -> GiveUp
          [] edit.op = "append" -> PlanAppend(lines, k, site, edit.tail)
          [] edit.op = "remove" -> PlanRemove(lines, k, site, edit.at)
          [] edit.op = "replace" -> PlanReplace(site, edit.at, edit.by)
          [] edit.op = "rewrite" -> PlanRewrite(lines, k, site, edit.to)

\* finish
ApplySplices(lines, splices) ==
    FoldLeft(LAMBDA text, s : SubSeq(text, 1, s.start - 1) \o s.block
                              \o SubSeq(text, s.end, Len(text)),
             lines, splices)

\* legacy_rewrite: the parsed document with the list swapped; no line survives.
LegacyRewrite(document, path, to) ==
    [shape |-> "document",
     at |-> [p \in (DOMAIN document.at) \cup {path} |->
               IF p = path THEN ListOf(to) ELSE document.at[p]]]

\* An edit that trusts its own splices.
EditYamlList_Unchecked(lines, path, to) ==
    LET document == ReadDocument(lines)
        current == NavigateTyped(document, path)
        edit == DeriveListEdit(current.elements, to)
        texts == {ApplySplices(lines, p) : p \in Plan(lines, path, edit)}
    IN  CASE current = Unreadable -> [by |-> "error"]
          [] edit.op = "none" -> [by |-> "unchanged"]
          [] texts # {} -> [by |-> "surgery", op |-> edit.op, text |-> CHOOSE t \in texts : TRUE]
          [] OTHER -> [by |-> "legacy", document |-> LegacyRewrite(document, path, to)]

\* The outcome of edit_yaml_list.  The text is only handed out when re-reading it gives
\* the list that was asked for.
EditYamlList(lines, path, to) ==
    LET document == ReadDocument(lines)
        current == NavigateTyped(document, path)
        edit == DeriveListEdit(current.elements, to)
        texts == {ApplySplices(lines, p) : p \in Plan(lines, path, edit)}
        checked == {t \in texts : NavigateTyped(ReadDocument(t), path) = ListOf(to)}
    IN  CASE current = Unreadable -> [by |-> "error"]
          [] edit.op = "none" -> [by |-> "unchanged"]
          [] checked # {} -> [by |-> "surgery", op |-> edit.op, text |-> CHOOSE t \in checked : TRUE]
          [] OTHER -> [by |-> "legacy", document |-> LegacyRewrite(document, path, to)]

(***************************************************************************)
(* Properties                                                              *)
(***************************************************************************)
Written(outcome) == IF outcome.by = "legacy" THEN outcome.document ELSE ReadDocument(outcome.text)

\* Whatever the layout of the file, an edit that changes it leaves a document
\* in which the edited list is what was asked for and every other key has the
\* value it had.
EditExact(edit, outcome) ==
    outcome.by \in {"surgery", "legacy"} =>
        /\ NavigateTyped(Written(outcome), edit.keyPath) = ListOf(edit.after)
        /\ LET before == ReadDocument(edit.original).at
           IN  \A p \in DOMAIN before \ {edit.keyPath} :
                  p \in DOMAIN Written(outcome).at /\ Written(outcome).at[p] = before[p]

\* The lines that belong to nobody's entries of the edited list.
Foreign(lines, path) ==
    LET own == UNION {{k} \cup Below(lines, k) : k \in FindKey(lines, path)}
        inside == UNION {{i \in DOMAIN lines : \E a, b \in Below(lines, k) :
                            /\ a < i /\ i < b /\ lines[b].kind = "more"
                            /\ \A c \in Below(lines, k) : c <= a \/ c >= b} :
                         k \in FindKey(lines, path)}
        numbered == SelectSeq([i \in DOMAIN lines |-> <<i, lines[i]>>],
                              LAMBDA l : l[1] \notin own \cup inside)
    IN  [i \in DOMAIN numbered |-> numbered[i][2]]

\* A surgical edit keeps every comment, blank line and line of another key, in
\* order; only creating a parent mapping adds a line outside the list.
ForeignLinesKept(edit, outcome) ==
    outcome.by = "surgery" =>
        LET kept == Foreign(edit.original, edit.keyPath)
            now  == Foreign(outcome.text, edit.keyPath)
        IN  now = kept \/ now = Append(kept, Key(0, edit.keyPath[1], "empty", FALSE))

(***************************************************************************)
(* The layered configuration loader (crates/caly-profile/src/loader): how  *)
(* config.yaml, the active profile, the fragments of config.d and the      *)
(* bodies of the declared profiles become one document.                    *)
(*                                                                         *)
(* A document is a tree: a mapping from keys to documents, or a value      *)
(* that is replaced as a whole.  Scalars and lists behave alike, so a      *)
(* value is a sequence of names.  A load is described by a record          *)
(*   base      the document of config.yaml                                 *)
(*   active    the active profile's document, or NoDocument                *)
(*   fragments the documents of config.d in the order of their paths       *)
(*   bodies    what the resolver answers for each profile id               *)
(***************************************************************************)
CONSTANTS
    MaxFragmentFiles,   \* LoaderLimits::max_fragment_files
    MaxMergeDepth       \* LoaderLimits::max_merge_depth

Mapping(entries) == [shape |-> "mapping", entries |-> entries]

Whole(items) == [shape |-> "whole", items |-> items]

NoDocument == [shape |-> "none"]

\* A cached body of no bytes: the lenient resolver's answer for a profile that
\* was never fetched.
EmptyBody == [shape |-> "empty"]

\* The resolver has no body for the id, or the body does not parse.
NoBodyFor == [shape |-> "unavailable"]

\* A load that ended in an error.
Refused == [shape |-> "refused"]

\* The number of files read may reach the limit, and config.yaml counts.
ChargeFile(files) == files + 1 <= MaxFragmentFiles

RECURSIVE DeepMerge(_, _, _)

\* Mappings merge key by key, everything else is replaced; a mapping never
\* replaces a value, nor a value a mapping.
DeepMerge(base, overlay, depth) ==
    LET shared == DOMAIN base.entries \cap DOMAIN overlay.entries
        merged == [key \in DOMAIN base.entries \cup DOMAIN overlay.entries |->
                      IF key \in shared
                      THEN DeepMerge(base.entries[key], overlay.entries[key], depth + 1)
                      ELSE IF key \in DOMAIN base.entries THEN base.entries[key]
                                                          ELSE overlay.entries[key]]
    IN  CASE depth > MaxMergeDepth -> Refused
          [] base.shape = "mapping" /\ overlay.shape = "mapping" ->
                IF \E key \in shared : merged[key] = Refused THEN Refused ELSE Mapping(merged)
          [] (base.shape = "mapping") # (overlay.shape = "mapping") -> Refused
          [] OTHER -> overlay

MergeOnto(merged, overlay) ==
    IF merged = Refused THEN Refused ELSE DeepMerge(merged, overlay, 0)

\* The ids under `profiles:` once the files are merged; a section that is not a
\* list declares none.
ProfileIds(merged) ==
    IF merged.shape = "mapping" /\ "profiles" \in DOMAIN merged.entries
       /\ merged.entries["profiles"].shape = "whole"
    THEN merged.entries["profiles"].items ELSE <<>>

\* One declared profile's body; an empty one is skipped.
MergeBody(merged, body) ==
    CASE merged = Refused \/ body = NoBodyFor -> Refused
      [] body = EmptyBody -> merged
      [] OTHER -> DeepMerge(merged, body, 0)

Files(load) ==
    <<load.base>> \o (IF load.active = NoDocument THEN <<>> ELSE <<load.active>>)
                  \o load.fragments

\* load_layered_yaml_with up to the decoding: files in order under the budget,
\* then the bodies of the profiles the files declare.
LoadLayered(load) ==
    LET files  == Files(load)
        merged == FoldLeft(MergeOnto, files[1], Tail(files))
        ids    == ProfileIds(merged)
    IN  IF \/ Len(load.fragments) > MaxFragmentFiles
           \/ ~ ChargeFile(Len(files) - 1)
           \/ merged = Refused
        THEN Refused
        ELSE FoldLeft(MergeBody, merged, [i \in DOMAIN ids |-> load.bodies[ids[i]]])

-----------------------------------------------------------------------------
(* What the merge promises: every value comes from the last layer that gives *)
(* one, no value of any layer is lost, and the load fails exactly when two   *)
(* layers disagree about what is a mapping.                                  *)

RECURSIVE At(_, _)
At(document, path) ==
    IF path = <<>> THEN document
    ELSE IF document.shape = "mapping" /\ path[1] \in DOMAIN document.entries
         THEN At(document.entries[path[1]], Tail(path)) ELSE NoDocument

\* The layers in the order in which later ones win.
Layers(load) ==
    LET files == Files(load)
        \* The last file that has a `profiles` list decides which bodies count.
        lists == {i \in DOMAIN files : At(files[i], <<"profiles">>) # NoDocument}
        ids   == IF lists = {} THEN <<>>
                 ELSE LET section == At(files[Max(lists)], <<"profiles">>)
                      IN  IF section.shape = "whole" THEN section.items ELSE <<>>
    IN  files \o SelectSeq([i \in DOMAIN ids |-> load.bodies[ids[i]]],
                           LAMBDA body : body # EmptyBody)

Clash(one, other, path) ==
    LET a == At(one, path)
        b == At(other, path)
    IN  /\ a # NoDocument /\ b # NoDocument
        /\ (a.shape = "mapping") # (b.shape = "mapping") \/ Len(path) > MaxMergeDepth

\* The last layer wins: the value loaded under every path is the one of the
\* last file or profile body that has that path, and a load is refused exactly
\* when two layers clash, a declared body is unavailable or there are too many
\* files.
LastLayerWins(load, loaded, paths) ==
    LET layers  == Layers(load)
        missing == \E i \in DOMAIN layers : layers[i] = NoBodyFor
        clash   == ~ missing /\ \E i, j \in DOMAIN layers :
                      i < j /\ \E path \in paths : Clash(layers[i], layers[j], path)
        crowded == Len(Files(load)) > MaxFragmentFiles
    IN  /\ loaded = Refused <=> missing \/ clash \/ crowded
        /\ loaded # Refused => \A path \in paths :
              LET having == {i \in DOMAIN layers : At(layers[i], path) # NoDocument}
                  got    == At(loaded, path)
              IN  IF having = {} THEN got = NoDocument
                  ELSE \/ got.shape = "mapping" /\ At(layers[Max(having)], path).shape = "mapping"
                       \/ got = At(layers[Max(having)], path)

(***************************************************************************)
(* Schema validation of the application configuration                      *)
(* (crates/caly-profile/src/schema/validate.rs and its submodules).        *)
(*                                                                         *)
(* A configuration is a record with the fields the checks read.  Texts are *)
(* classified by what the checks ask of them: a name is path-safe or not,  *)
(* a URL is "web" (http(s) with a host), "file" or "bad", an address       *)
(* parses or not.                                                          *)
(***************************************************************************)
CONSTANTS
    MaxEntries,     \* MAX_PROFILES, MAX_PROXY_GROUPS, MAX_RULES, ...
    SafeNames       \* the names is_path_safe_component accepts

Enumerated(list) == {list[i] : i \in DOMAIN list}

\* Every name once, in a list of records with that field.
NamesOnce(names) == IsInjective(names)

\* daemon.listen: a socket address; away from the loopback it needs both TLS
\* and a token, and TLS needs its two files.
ListenAccepted(config) ==
    /\ config.listen # "bad"
    /\ config.tls => config.tlsMaterial
    /\ config.listen = "remote" => config.tls /\ config.authToken

KernelAccepted(kernel) ==
    /\ kernel.mixedPort # 0
    /\ kernel.logLevel \in {"trace", "debug", "info", "warn", "error"}
    /\ kernel.initialBackoff >= 100
    /\ kernel.maxBackoff >= kernel.initialBackoff
    /\ kernel.transparent => kernel.transparentPort # 0
    /\ kernel.startTimeout >= 100 /\ kernel.stopTimeout >= 100

FetchPolicyAccepted(fetch) ==
    /\ fetch.connectTimeout >= 100
    /\ fetch.requestTimeout >= 1000
    /\ fetch.maxBodyMb \in 1..256

\* The single legacy URL is for the web only, a source may be a file.
SubscriptionsAccepted(legacyUrl, sources) ==
    legacyUrl \in {"none", "web"} /\ \A i \in DOMAIN sources : sources[i].url \in {"web", "file"}

\* A rule that parses; an IP-CIDR one must also be a real block.
RulesAccepted(rules) ==
    Len(rules) <= MaxEntries /\ \A i \in DOMAIN rules : rules[i].kind # "bad" /\ (rules[i].kind = "cidr" => rules[i].block)

\* validate_providers: the name once, and inline nodes that look like URIs.
ProvidersAccepted(providers) ==
    /\ NamesOnce([i \in DOMAIN providers |-> providers[i].name])
    /\ \A i \in DOMAIN providers :
          /\ providers[i].name # "empty"
          /\ providers[i].inline =>
                providers[i].uris # <<>> /\ \A j \in DOMAIN providers[i].uris : providers[i].uris[j]

RuleProvidersAccepted(providers) ==
    /\ Len(providers) <= MaxEntries
    /\ NamesOnce([i \in DOMAIN providers |-> providers[i].name])
    /\ \A i \in DOMAIN providers :
          /\ providers[i].name \in SafeNames
          /\ CASE providers[i].kind = "http" ->
                     providers[i].url = "web" /\ providers[i].interval >= 60000
               [] OTHER -> providers[i].content

\* Every RULE-SET rule names a declared provider.
RuleProviderReferences(rules, providers) ==
    \A i \in DOMAIN rules : rules[i].kind = "set"
        => \E j \in DOMAIN providers : providers[j].name = rules[i].name

-----------------------------------------------------------------------------
(* The two depth-first walks.  The walk's state is the set of ids on the    *)
(* stack, the set of ids done, and whether an error was met.                *)

FreshWalk == [inStack |-> {}, done |-> {}, ok |-> TRUE]

RECURSIVE WalkMerge(_, _, _, _)
\* walk_merge: parts[id] is the part list of a merge profile, empty for others.
WalkMerge(id, parts, declared, walk) ==
    LET Part(state, part) ==
            CASE ~ state.ok -> state
              [] part \notin declared -> [state EXCEPT !.ok = FALSE]
              [] OTHER -> WalkMerge(part, parts, declared, state)
        entered == [walk EXCEPT !.inStack = @ \cup {id}]
        walked  == FoldLeft(Part, entered, parts[id])
    IN  CASE ~ walk.ok \/ id \in walk.done -> walk
          [] id \in walk.inStack -> [walk EXCEPT !.ok = FALSE]
          [] ~ walked.ok -> walked
          [] OTHER -> [walked EXCEPT !.inStack = @ \ {id}, !.done = @ \cup {id}]

PartsOf(profiles) ==
    [id \in {profiles[i].id : i \in DOMAIN profiles} |->
        LET first == CHOOSE i \in DOMAIN profiles :
                        profiles[i].id = id /\ \A j \in 1..(i - 1) : profiles[j].id # id
        IN  profiles[first].parts]

ProfileSourceAccepted(profile) ==
    CASE profile.kind = "local"  -> profile.path = "inside"
      [] profile.kind = "remote" -> profile.url = "web" /\ profile.interval >= 1
      [] profile.kind = "merge"  -> Enumerated(profile.parts) \subseteq SafeNames

\* validate_profiles: the entries, then the merge walk from every merge profile.
ProfilesAccepted(profiles) ==
    LET declared == {profiles[i].id : i \in DOMAIN profiles}
        parts    == PartsOf(profiles)
        Walk(state, profile) ==
            IF profile.kind = "merge" THEN WalkMerge(profile.id, parts, declared, state) ELSE state
    IN  /\ Len(profiles) <= MaxEntries
        /\ NamesOnce([i \in DOMAIN profiles |-> profiles[i].id])
        /\ \A i \in DOMAIN profiles : profiles[i].id \in SafeNames /\ ProfileSourceAccepted(profiles[i])
        /\ FoldLeft(Walk, FreshWalk, profiles).ok

RECURSIVE WalkRelay(_, _, _)
\* walk_relay: only members that are relay groups themselves are followed.
WalkRelay(name, hops, walk) ==
    LET Hop(state, next) == IF state.ok THEN WalkRelay(next, hops, state) ELSE state
        walked == FoldLeft(Hop, [walk EXCEPT !.inStack = @ \cup {name}], hops[name])
    IN  CASE name \in walk.done -> walk
          [] name \in walk.inStack -> [walk EXCEPT !.ok = FALSE]
          [] ~ walked.ok -> walked
          [] OTHER -> [walked EXCEPT !.inStack = @ \ {name}, !.done = @ \cup {name}]

GroupNamed(groups, name) ==
    groups[CHOOSE i \in DOMAIN groups :
              groups[i].name = name /\ \A j \in 1..(i - 1) : groups[j].name # name]

Relays(groups) == {groups[i].name : i \in {j \in DOMAIN groups : groups[j].type = "relay"}}

NeedsProbe(type) == type \in {"url-test", "fallback", "load-balance"}

\* One group on its own: a safe name, members, and a probe exactly when its
\* type probes.
GroupEntryAccepted(group) ==
    /\ group.name \in SafeNames
    /\ group.members # <<>> /\ Len(group.members) <= MaxEntries
    /\ NeedsProbe(group.type) <=> group.probe # "none"
    /\ group.probe \in {"none", "web"}

\* validate_proxy_groups: entries, then member references, then relay cycles.
\* A member is a group's name, or "node" for the members that are not groups.
ProxyGroupsAccepted(groups) ==
    LET declared == {groups[i].name : i \in DOMAIN groups}
        hops == [name \in declared |->
                    SelectSeq(GroupNamed(groups, name).members, LAMBDA m : m \in Relays(groups))]
        Walk(state, group) ==
            IF group.type = "relay" /\ state.ok THEN WalkRelay(group.name, hops, state) ELSE state
    IN  /\ Len(groups) <= MaxEntries
        /\ NamesOnce([i \in DOMAIN groups |-> groups[i].name])
        /\ \A i \in DOMAIN groups : GroupEntryAccepted(groups[i])
        /\ \A i \in DOMAIN groups : Enumerated(groups[i].members) \subseteq declared \cup {"node"}
        /\ FoldLeft(Walk, FreshWalk, groups).ok

\* The checks of single settings and lists.
SettingsAccepted(config) ==
    /\ config.schemaVersion = 1
    /\ ListenAccepted(config)
    /\ config.tunMtu \in 576..9000
    /\ config.controllers /\ config.logLevel /\ config.telemetryInterval >= 100
    /\ SubscriptionsAccepted(config.legacyUrl, config.sources)
    /\ KernelAccepted(config.kernel)
    /\ config.dns
    /\ FetchPolicyAccepted(config.fetch)
    /\ config.proxyHost /\ config.proxyPort # 0
    /\ RulesAccepted(config.rules)
    /\ RuleProvidersAccepted(config.ruleProviders)
    /\ ProvidersAccepted(config.providers)
    /\ config.sniffer /\ config.escalation \in {"auto", "pkexec", "sudo", "none"}

\* validate: the first check that fails ends it.
Validate(config) ==
    /\ SettingsAccepted(config)
    /\ RuleProviderReferences(config.rules, config.ruleProviders)
    /\ ProfilesAccepted(config.profiles)
    /\ ProxyGroupsAccepted(config.groups)

-----------------------------------------------------------------------------
(* What acceptance means, stated without the walks.                         *)

Acyclic(edges, nodes) ==
    LET reach == TransitiveClosure([pair \in nodes \X nodes |-> pair \in edges], nodes)
    IN  \A node \in nodes : ~ reach[node, node]

MergeEdges(profiles) ==
    UNION {{<<profiles[i].id, part>> : part \in Enumerated(profiles[i].parts)} : i \in DOMAIN profiles}

RelayEdges(groups) ==
    UNION {{<<groups[i].name, m>> : m \in Enumerated(groups[i].members) \cap Relays(groups)} :
              i \in {j \in DOMAIN groups : groups[j].type = "relay"}}

\* A configuration of sound settings and entries is accepted exactly when every
\* name it mentions is declared once and neither its merge profiles nor its
\* relay groups form a cycle, whatever the order in which they are declared.
AcceptedIsResolvable(config, accepted) ==
    LET ids    == {config.profiles[i].id : i \in DOMAIN config.profiles}
        names  == {config.groups[i].name : i \in DOMAIN config.groups}
        broken == \/ \E i \in DOMAIN config.profiles :
                        \/ config.profiles[i].id \notin SafeNames
                        \/ ~ ProfileSourceAccepted(config.profiles[i])
                  \/ \E i \in DOMAIN config.groups : ~ GroupEntryAccepted(config.groups[i])
                  \/ Cardinality(ids) # Len(config.profiles)
                  \/ Cardinality(names) # Len(config.groups)
    IN  accepted
        <=> /\ SettingsAccepted(config) /\ ~ broken
            /\ {config.rules[i].name : i \in {j \in DOMAIN config.rules : config.rules[j].kind = "set"}}
                 \subseteq {config.ruleProviders[i].name : i \in DOMAIN config.ruleProviders}
            /\ MergeEdges(config.profiles) \subseteq ids \X ids
            /\ Acyclic(MergeEdges(config.profiles), ids)
            /\ \A i \in DOMAIN config.groups :
                  Enumerated(config.groups[i].members) \subseteq names \cup {"node"}
            /\ Acyclic(RelayEdges(config.groups), names)
=============================================================================
