---------------------------- MODULE CommandLine ----------------------------
(***************************************************************************)
(* From the words typed after `caly` to what is done: the alias layer in   *)
(* front of the grammar, the grammar, the conversion of a parsed leaf to a *)
(* command, and the dispatch of a command to what it touches.              *)
(*                                                                         *)
(* A word is a string; the operands of a leaf are left out of the command, *)
(* its flags are kept.                                                     *)
(***************************************************************************)
EXTENDS Naturals, SequencesExt

CONSTANTS
    InlineFlags,    \* global flags typed as --name=value: the word to its name
    UnknownFlags    \* dash words that are no global flag

-----------------------------------------------------------------------------
(* The alias layer.                                                        *)

BuiltinHeads ==
    {"daemon", "stop", "reload", "restart", "status", "node", "sub", "profile", "config", "core",
     "rule-provider", "provider", "rules", "connections", "flow", "history", "traffic", "mode",
     "sysproxy", "tun", "dns", "doctor", "tool", "completions"}

ValueFlags == {"--socket", "--core", "--mihomo-bin", "--sing-box-bin", "--format"}
BoolFlags == {"--json", "--help", "-h", "--version", "-V"}

MaxPasses == 3

AliasRule(from, to) == [from |-> from, to |-> to]
Moved(head, verbs, to) == {AliasRule(<<head, to, verb>>, <<to, verb>>) : verb \in verbs}

DEPRECATED ==
    Moved("show", {"parse", "import"}, "sub") \cup Moved("show", {"list", "show"}, "profile")
    \cup Moved("show", {"path", "files", "validate"}, "config")
    \cup Moved("set", {"start", "stop", "restart", "switch"}, "core")
    \cup Moved("set", {"refresh", "add", "remove", "enable", "disable", "import"}, "sub")
    \cup Moved("set", {"add", "remove", "edit", "refresh", "export", "enable", "disable"}, "profile")
    \cup Moved("set", {"apply", "generate", "default", "diff", "edit"}, "config")
    \cup Moved("set", {"add-http", "add-file", "add-inline", "remove", "enable", "disable",
                       "refresh", "list"}, "rule-provider")
    \cup Moved("set", {"add-sources", "add-nodes", "remove"}, "provider")
    \cup {AliasRule(<<"show", "core", verb>>, <<verb>>) :
            verb \in {"connections", "traffic", "mode", "rules"}}
    \cup {AliasRule(<<"show", from[1], from[2]>>, <<"node", from[2]>>) :
            from \in {<<"proxy", "list">>, <<"proxy", "show">>, <<"proxy", "groups">>,
                      <<"core", "groups">>}}
    \cup {AliasRule(<<"set", "proxy", verb>>, <<"node", verb>>) :
            verb \in {"add", "edit", "remove", "import"}}
    \cup {AliasRule(<<"set", "proxy", verb>>, <<"sysproxy", verb>>) : verb \in {"on", "off"}}
    \cup {AliasRule(<<"set", "proxy-group", verb>>, <<"node", verb>>) :
            verb \in {"add", "remove", "enable", "disable"}}
    \cup {AliasRule(<<"set", "daemon", verb>>, <<verb>>) : verb \in {"stop", "reload", "restart"}}
    \cup {AliasRule(<<"tool", verb>>, <<verb>>) : verb \in {"doctor", "dns"}}
    \cup {AliasRule(<<"show", "status">>, <<"status">>),
          AliasRule(<<"show", "core", "health">>, <<"status", "--verbose">>),
          AliasRule(<<"show", "core", "nodes">>, <<"node", "list">>),
          AliasRule(<<"show", "sub", "providers">>, <<"sub", "list">>),
          AliasRule(<<"set", "core", "select">>, <<"node", "select">>),
          AliasRule(<<"set", "core", "mode">>, <<"mode">>),
          AliasRule(<<"set", "core", "close-connections">>, <<"connections", "close">>),
          AliasRule(<<"set", "core", "delay">>, <<"node", "ping">>),
          AliasRule(<<"set", "core", "url-test">>, <<"node", "test">>),
          AliasRule(<<"set", "tun">>, <<"tun">>),
          AliasRule(<<"set", "daemon", "status">>, <<"status", "--verbose">>),
          AliasRule(<<"set", "proxy-group", "list">>, <<"node", "list", "--offline">>)}

SHORTCUTS ==
    {AliasRule(<<"st">>, <<"status">>), AliasRule(<<"n">>, <<"node">>),
     AliasRule(<<"n", "s">>, <<"node", "select">>), AliasRule(<<"n", "p">>, <<"node", "ping">>),
     AliasRule(<<"n", "t">>, <<"node", "test">>),
     AliasRule(<<"t">>, <<"node", "list", "--format=tree">>),
     AliasRule(<<"s">>, <<"sub", "list">>), AliasRule(<<"s", "r">>, <<"sub", "refresh">>),
     AliasRule(<<"d">>, <<"doctor">>), AliasRule(<<"c">>, <<"config", "diff">>)}

\* Entries of aliases.yaml: a key of several words, or a value that is no list of
\* words, is a malformed entry and has to = "malformed".
Usable(entry) ==
    /\ Len(entry.key) = 1
    /\ ~ entry.key[1] \in BuiltinHeads
    /\ entry.to # <<>>
    /\ entry.to[1] \in BuiltinHeads

\* load_from: every entry is judged alone, a bad one is skipped with a warning.
LoadFrom(entries) == {AliasRule(e.key, e.to) : e \in {e \in entries : Usable(e)}}

\* Where the command starts, counted from 1; past the end when nothing may be
\* expanded.
CommandHead(args) ==
    LET f[i \in Nat] ==
            CASE i > Len(args) -> Len(args) + 1
              [] i <= Len(args) /\ (args[i] = "--" \/ args[i] \in UnknownFlags) -> Len(args) + 1
              [] i <= Len(args) /\ (args[i] \in BoolFlags \cup DOMAIN InlineFlags) -> f[i + 1]
              [] i <= Len(args) /\ args[i] \in ValueFlags -> f[i + 2]
              [] OTHER -> i
    IN  f[1]

Matching(head, rules) == {rule \in rules : IsPrefix(rule.from, head)}
Longest(head, rules) ==
    {rule \in Matching(head, rules) :
        \A other \in Matching(head, rules) : Len(other.from) <= Len(rule.from)}

\* The user table wins ties, then the deprecated one; a strictly longer rule wins
\* over both.
MatchRule(head, user) ==
    LET own     == Longest(head, user)
        builtin == Longest(head, SHORTCUTS \cup DEPRECATED)
    IN  IF own # {} /\ \A u \in own, b \in builtin : Len(u.from) >= Len(b.from)
        THEN own ELSE builtin

ExpandHead(head, user) ==
    LET f[n \in 0 .. MaxPasses, words \in Seq(STRING)] ==
            IF n = 0 \/ words = <<>> \/ MatchRule(words, user) = {} THEN words
            ELSE LET rule == CHOOSE rule \in MatchRule(words, user) : TRUE
                 IN  f[n - 1, rule.to \o SubSeq(words, Len(rule.from) + 1, Len(words))]
    IN  f[MaxPasses, head]

ExpandWith(args, user) ==
    LET split == CommandHead(args)
    IN  SubSeq(args, 1, split - 1) \o ExpandHead(SubSeq(args, split, Len(args)), user)

-----------------------------------------------------------------------------
(* The grammar: the leaves under each head, "" where the head stands alone.  *)

ClapNodeCmd == {"", "list", "groups", "show", "select", "ping", "test", "pick", "add", "edit",
                "remove", "enable", "disable", "import"}
ClapSubCmd == {"", "list", "parse", "add", "refresh", "remove", "set", "enable", "disable",
               "import"}
ClapProfileCmd == {"", "list", "show", "use", "add", "remove", "edit", "refresh", "export",
                   "enable", "disable"}
ClapConfigCmd == {"", "show", "path", "files", "validate", "apply", "generate", "default", "diff",
                  "edit"}
ClapCoreCmd == {"start", "stop", "restart", "switch"}
ClapSetRuleProviderCmd == {"add-http", "add-file", "add-inline", "remove", "enable", "disable",
                           "refresh", "list"}
ClapConnectionsCmd == {"", "close"}
ClapHistoryCmd == {"", "list", "replay", "clear"}
ClapFlowCmd == {"", "trace"}
ClapToolCmd == {"help", "version"}
ClapSysproxyCmd == {"on", "off", "pac", "status"}
ClapTunCmd == {"on", "off", "status"}

ClapCommand(head) ==
    CASE head = "node"          -> ClapNodeCmd
      [] head = "sub"           -> ClapSubCmd
      [] head = "profile"       -> ClapProfileCmd
      [] head = "config"        -> ClapConfigCmd
      [] head = "core"          -> ClapCoreCmd
      [] head = "rule-provider" -> ClapSetRuleProviderCmd
      [] head = "connections"   -> ClapConnectionsCmd
      [] head = "history"       -> ClapHistoryCmd
      [] head = "flow"          -> ClapFlowCmd
      [] head = "tool"          -> ClapToolCmd
      [] head = "sysproxy"      -> ClapSysproxyCmd
      [] head = "tun"           -> ClapTunCmd
      [] head \in {"daemon", "stop", "reload", "restart", "status", "rules", "traffic", "mode",
                   "dns", "doctor", "completions"} -> {""}
      [] OTHER                  -> {}

\* The leaves that take --apply; all but `node test` and `sub parse` also take
\* --dry-run, and clap refuses both together.
WriteLeaves ==
    [node |-> {"test", "pick", "add", "edit", "remove", "enable", "disable", "import"},
     sub |-> {"parse", "add", "remove", "set", "enable", "disable", "import"},
     profile |-> {"add", "remove", "edit", "enable", "disable"}]
TakesApply(head, leaf) ==
    \/ head \in DOMAIN WriteLeaves /\ leaf \in WriteLeaves[head]
    \/ head = "rule-provider" /\ leaf \notin {"refresh", "list"}

\* What try_parse_from accepts, as head, leaf and flags ("arg": an optional
\* operand was given).
Accepts(head, leaf, flags) ==
    /\ leaf \in ClapCommand(head)
    /\ "apply" \in flags => TakesApply(head, leaf)
    /\ "dry-run" \in flags => /\ TakesApply(head, leaf)
                              /\ <<head, leaf>> \notin {<<"node", "test">>, <<"sub", "parse">>}
                              /\ "apply" \notin flags
    /\ "verbose" \in flags => head = "status"
    /\ "offline" \in flags => head = "node" /\ leaf = "list"
    /\ "type" \in flags => head = "node" /\ leaf = "add"
    /\ "arg" \in flags => head \in {"mode", "rules"} \/ <<head, leaf>> = <<"sub", "refresh">>

-----------------------------------------------------------------------------
(* The conversion of a leaf: <<kind, domain, verb>>.                       *)

ToolCmd(verb) == <<"Tool", "", verb>>
ShowCmd(domain, verb) == <<"Show", domain, verb>>
SetCmd(domain, verb) == <<"Set", domain, verb>>
HistoryCmd(verb) == <<"History", "", verb>>

NodeAdd(flags) == IF "type" \in flags THEN SetCmd("ProxyGroup", "Add") ELSE SetCmd("Proxy", "Add")

NodeCommand(leaf, flags) ==
    CASE leaf \in {"", "select"} -> SetCmd("Core", "Select")
      [] leaf = "list" -> IF "offline" \in flags THEN SetCmd("ProxyGroup", "List")
                          ELSE ShowCmd("Core", "Nodes")
      [] leaf = "groups" -> ShowCmd("Core", "Groups")
      [] leaf = "show" -> ShowCmd("Proxy", "Show")
      [] leaf = "ping" -> SetCmd("Core", "Delay")
      [] leaf = "test" -> SetCmd("Core", "UrlTest")
      [] leaf = "pick" -> SetCmd("Core", "Pick")
      [] leaf = "add" -> NodeAdd(flags)
      [] leaf = "edit" -> SetCmd("Proxy", "Edit")
      [] leaf = "import" -> SetCmd("Proxy", "Import")
      [] leaf = "remove" -> SetCmd("Entry", "Remove")
      [] leaf = "enable" -> SetCmd("Entry", "Enable")
      [] leaf = "disable" -> SetCmd("Entry", "Disable")

SubCommand(leaf) ==
    CASE leaf \in {"", "list"} -> ShowCmd("Sub", "Providers")
      [] leaf = "parse" -> ShowCmd("Sub", "Parse")
      [] leaf = "add" -> SetCmd("Sub", "Add")
      [] leaf = "refresh" -> SetCmd("Sub", "Refresh")
      [] leaf = "remove" -> SetCmd("Sub", "Remove")
      [] leaf = "set" -> SetCmd("Sub", "Set")
      [] leaf = "enable" -> SetCmd("Sub", "Enable")
      [] leaf = "disable" -> SetCmd("Sub", "Disable")
      [] leaf = "import" -> SetCmd("Sub", "Import")

ProfileCommand(leaf) ==
    CASE leaf \in {"", "list"} -> ShowCmd("Profile", "List")
      [] leaf = "show" -> ShowCmd("Profile", "Show")
      [] leaf = "use" -> SetCmd("Profile", "Use")
      [] leaf = "add" -> SetCmd("Profile", "Add")
      [] leaf = "remove" -> SetCmd("Profile", "Remove")
      [] leaf = "edit" -> SetCmd("Profile", "Edit")
      [] leaf = "refresh" -> SetCmd("Profile", "Refresh")
      [] leaf = "export" -> SetCmd("Profile", "Export")
      [] leaf = "enable" -> SetCmd("Profile", "Enable")
      [] leaf = "disable" -> SetCmd("Profile", "Disable")

ConfigCommand(leaf) ==
    CASE leaf \in {"", "show", "files"} -> ShowCmd("Config", "Files")
      [] leaf = "path" -> ShowCmd("Config", "Path")
      [] leaf = "validate" -> ShowCmd("Config", "Validate")
      [] leaf = "apply" -> SetCmd("Config", "Apply")
      [] leaf = "generate" -> SetCmd("Config", "Generate")
      [] leaf = "default" -> SetCmd("Config", "Default")
      [] leaf = "diff" -> SetCmd("Config", "Diff")
      [] leaf = "edit" -> SetCmd("Config", "Edit")

CoreCommand(leaf) ==
    SetCmd("Core", CASE leaf = "start" -> "Start" [] leaf = "stop" -> "Stop"
                     [] leaf = "restart" -> "Restart" [] leaf = "switch" -> "Switch")

RuleProviderCommand(leaf) ==
    SetCmd("RuleProvider",
           CASE leaf \in {"add-http", "add-file", "add-inline"} -> "Add"
             [] leaf = "remove" -> "Remove" [] leaf = "enable" -> "Enable"
             [] leaf = "disable" -> "Disable" [] leaf = "refresh" -> "Refresh"
             [] leaf = "list" -> "List")

Convert(head, leaf, flags) ==
    CASE head = "daemon" -> <<"Daemon", "", "">>
      [] head = "stop" -> SetCmd("Daemon", "Stop")
      [] head = "reload" -> SetCmd("Daemon", "Reload")
      [] head = "restart" -> SetCmd("Daemon", "Restart")
      [] head = "status" -> IF "verbose" \in flags THEN ShowCmd("Core", "Health")
                            ELSE ShowCmd("", "Status")
      [] head = "node" -> NodeCommand(leaf, flags)
      [] head = "sub" -> SubCommand(leaf)
      [] head = "profile" -> ProfileCommand(leaf)
      [] head = "config" -> ConfigCommand(leaf)
      [] head = "core" -> CoreCommand(leaf)
      [] head = "rule-provider" -> RuleProviderCommand(leaf)
      [] head = "rules" -> ShowCmd("Core", "Rules")
      [] head = "connections" -> IF leaf = "close" THEN SetCmd("Core", "CloseConnections")
                                 ELSE ShowCmd("Core", "Connections")
      [] head = "flow" -> ShowCmd("Core", IF leaf = "trace" THEN "FlowTrace" ELSE "Flow")
      [] head = "traffic" -> ShowCmd("Core", "Traffic")
      [] head = "mode" -> IF "arg" \in flags THEN SetCmd("Core", "Mode") ELSE ShowCmd("Core", "Mode")
      [] head = "sysproxy" ->
            IF leaf = "status" THEN ShowCmd("", "SysproxyStatus")
            ELSE SetCmd("Proxy", CASE leaf = "on" -> "On" [] leaf = "off" -> "Off"
                                   [] leaf = "pac" -> "Pac")
      [] head = "tun" -> IF leaf = "status" THEN ShowCmd("", "TunStatus") ELSE SetCmd("Tun", leaf)
      [] head = "dns" -> ToolCmd("Dns")
      [] head = "doctor" -> ToolCmd("Doctor")
      [] head = "tool" -> ToolCmd(IF leaf = "help" THEN "Help" ELSE "Version")
      [] head = "history" -> HistoryCmd(CASE leaf \in {"", "list"} -> "List"
                                          [] leaf = "replay" -> "Replay" [] leaf = "clear" -> "Clear")
      [] head = "completions" -> <<"Completions", "", "">>

-----------------------------------------------------------------------------
(* Dispatch: what a command touches.                                       *)
(*   "config": the files under the configuration root;                     *)
(*   "state": the files under the state root;                              *)
(*   "layout": the default config.yaml of a fresh install;                 *)
(*   "operation": an operation submitted to the daemon; "file": a file the *)
(*   operand names; "choice": what a self-measuring group has chosen.      *)
(* `target` is what the operand names: a "node", a group ("selector",       *)
(* "urltest", which stands for fallback too, or "relay"), a node and a      *)
(* selector at once ("clash"), or "none".                                  *)

EffectiveApply(flags) == "apply" \in flags /\ "dry-run" \notin flags
WhenApplied(flags, what) == IF EffectiveApply(flags) THEN what ELSE {}

\* execute_core_cmd and core_query: the legacy leaves that are operations; the
\* others read the snapshot or ask the kernel.
ExecuteCoreCmd(leaf) ==
    IF leaf \in {"Start", "Stop", "Restart", "Switch", "Select", "CloseConnections", "Mode"}
    THEN {"operation"} ELSE {}

\* ShowCoreCmd to CoreCmd; Flow, FlowTrace and Health answer by themselves.
ShowCore(verb) ==
    CASE verb = "Nodes" -> ExecuteCoreCmd("ListNodes")
      [] verb = "Groups" -> ExecuteCoreCmd("ProxyGroups")
      [] verb = "Connections" -> ExecuteCoreCmd("ListConnections")
      [] verb \in {"Traffic", "Mode", "Rules"} -> ExecuteCoreCmd(verb)
      [] verb \in {"Flow", "FlowTrace", "Health"} -> {}

\* `sub parse --apply` is `sub add --apply` of the path.
ShowSub(verb, flags) == IF verb = "Parse" /\ "apply" \in flags THEN {"config"} ELSE {}

ShowRun(domain, verb, flags) ==
    CASE domain = "Core" -> ShowCore(verb)
      [] domain = "Sub" -> ShowSub(verb, flags)
      [] OTHER -> {}

NoGroup == [name |-> [word |-> "", spelling |-> ""], kind |-> "none", members |-> <<>>]

\* A group that measures itself is measured when asked to apply, and the kernel
\* then chooses again; another group is a usage error; a node is measured.
UrlTest(flags, target) ==
    CASE target = "urltest" -> IF "apply" \in flags THEN {"choice"} ELSE {}
      [] target \in {"selector", "clash", "relay"} -> {}
      [] target \in {"node", "none"} -> ExecuteCoreCmd("Delay")

\* `node pick` reaches the daemon for a selector only.
FinishPick_IgnoresDryRun(flags, target) ==
    IF target \in {"selector", "clash"} THEN {"operation"} ELSE {}
FinishPick(flags, target) ==
    IF target \in {"selector", "clash"} THEN WhenApplied(flags, {"operation"}) ELSE {}

\* dispatch_pick's spelling of the member: the exact one, else the only one that
\* differs in case. A name is [word, spelling]. No validation refuses a group that
\* lists a member twice, so the unreachable! for it can be reached.
Spelled(members, name) == SelectSeq(members, LAMBDA m : m = name)
SameWord(members, name) == SelectSeq(members, LAMBDA m : m.word = name.word)
Picked(member) == [why |-> "picked", member |-> member]
Refusal(why) == [why |-> why, member |-> NoGroup.name]
Canonical(members, name) ==
    CASE Len(Spelled(members, name)) = 1 -> Picked(name)
      [] Len(Spelled(members, name)) > 1 -> Refusal("panic")
      [] Spelled(members, name) = <<>> /\ Len(SameWord(members, name)) = 1 ->
            Picked(SameWord(members, name)[1])
      [] Spelled(members, name) = <<>> /\ SameWord(members, name) = <<>> -> Refusal("not a member")
      [] OTHER -> Refusal("ambiguous")

\* declared_group: an exact name before one that differs in case.
DeclaredGroup(groups, name) ==
    LET exact == SelectSeq(groups, LAMBDA g : g.name = name)
        same  == SelectSeq(groups, LAMBDA g : g.name.word = name.word)
    IN  IF exact # <<>> THEN exact[1] ELSE IF same # <<>> THEN same[1] ELSE NoGroup

\* dispatch_pick, with a member given.
Pick(groups, group, member) ==
    LET target == DeclaredGroup(groups, group)
    IN  CASE target = NoGroup -> Refusal("no group")
          [] target # NoGroup /\ target.kind # "selector" -> Refusal("not a selector")
          [] target # NoGroup /\ target.kind = "selector" /\ target.members = <<>> ->
                Refusal("no members")
          [] OTHER -> Canonical(target.members, member)

SetCore(verb, flags, target) ==
    CASE verb = "UrlTest" -> UrlTest(flags, target)
      [] verb = "Pick" -> FinishPick(flags, target)
      [] OTHER -> ExecuteCoreCmd(verb)

SetProxy(verb, flags) ==
    CASE verb \in {"On", "Off"} -> {"operation"}
      [] verb = "Pac" -> {"state", "operation"}
      [] verb \in {"Add", "Edit", "Remove", "Import"} -> WhenApplied(flags, {"config"})

\* Removing, enabling or disabling a source also converges the daemon.
SetSub(verb, flags) ==
    CASE verb = "Refresh" -> {"operation"}
      [] verb \in {"Add", "Set"} -> WhenApplied(flags, {"config"})
      [] verb \in {"Remove", "Enable", "Disable"} -> WhenApplied(flags, {"config", "operation"})
      [] verb = "Import" -> {}

SetProfile(verb, flags) ==
    CASE verb \in {"Add", "Remove", "Edit", "Enable", "Disable"} -> WhenApplied(flags, {"config"})
      [] verb \in {"Use", "Refresh"} -> {"state"}
      [] verb = "Export" -> {"file"}

SetConfig(verb) ==
    CASE verb = "Apply" -> {"operation"}
      [] verb \in {"Generate", "Default", "Edit"} -> {"config"}
      [] verb = "Diff" -> {}

\* node_dispatch: the declared kind of the name picks the writer; nodes carry no
\* enable state, and a name declared twice or nowhere is refused.
EntryDispatch(verb, flags, target) ==
    CASE target \in {"clash", "none"} -> {}
      [] target = "node" -> IF verb = "Remove" THEN SetProxy("Remove", flags) ELSE {}
      [] OTHER -> WhenApplied(flags, {"config"})

SetRun(domain, verb, flags, target) ==
    CASE domain = "Core" -> SetCore(verb, flags, target)
      [] domain = "Proxy" -> SetProxy(verb, flags)
      [] domain = "Tun" -> {"config", "operation"}
      [] domain = "Sub" -> SetSub(verb, flags)
      [] domain = "Profile" -> SetProfile(verb, flags)
      [] domain = "Config" -> SetConfig(verb)
      [] domain = "Daemon" -> {"operation"}
      [] domain \in {"RuleProvider", "ProxyGroup"} ->
            IF verb \in {"List", "Refresh"} THEN {} ELSE WhenApplied(flags, {"config"})
      [] domain = "Entry" -> EntryDispatch(verb, flags, target)

\* The kernel binaries may be named for the daemon only; json is refused where
\* the output is not a document.
Refused(command, options) ==
    \/ "bin" \in options /\ command[1] # "Daemon"
    \/ "json" \in options /\ command[1] \in {"Daemon", "Completions"}

\* The commands that load through load_config_with_bootstrap, which writes the
\* default layout where there is no config.yaml, whatever the flags.
Bootstraps(command, flags) ==
    \/ command[2] = "Core" /\ command[3] \in {"UrlTest", "Pick"}
    \/ command[2] = "Sub" /\ command[3] \in {"Add", "Set", "Remove", "Enable", "Disable"}
    \/ command[2] = "Sub" /\ command[3] = "Refresh" /\ "arg" \in flags

\* Without "fresh" among the options there is a config.yaml.
Touches(command, flags, target, options) ==
    CASE Refused(command, options) -> {}
      [] ~ Refused(command, options) /\ command[1] = "Show" -> ShowRun(command[2], command[3], flags)
      [] ~ Refused(command, options) /\ command[1] = "Set" ->
            SetRun(command[2], command[3], flags, target)
              \cup (IF "fresh" \in options /\ Bootstraps(command, flags) THEN {"layout"} ELSE {})
      [] OTHER -> {}

\* What the operation log keeps: recordable_domain.
Recordable(command) ==
    /\ command[1] = "Set"
    /\ ~ (command[2] = "Config" /\ command[3] \in {"Generate", "Diff"})

-----------------------------------------------------------------------------
(* Properties, of an argument vector, of a parsed leaf, of a pick.          *)

\* expand_with keeps the global flags in front and the operands behind (no path
\* is longer than three words), leaves nothing that another pass would rewrite,
\* ends at a command, and never touches a line that starts with one.
ExpansionStable(args, user) ==
    LET expanded == ExpandWith(args, user)
        split    == CommandHead(args)
        head     == CommandHead(expanded)
    IN  /\ ExpandWith(expanded, user) = expanded
        /\ SubSeq(expanded, 1, split - 1) = SubSeq(args, 1, split - 1)
        /\ IsSuffix(SubSeq(args, split + 3, Len(args)), expanded)
        /\ split <= Len(args) /\ args[split] \in BuiltinHeads \ {"tool"} => expanded = args
        /\ expanded # args => expanded[head] \in BuiltinHeads

\* The word a path of the first grammar uses for a domain or a verb of a command.
V1Domain(domain) ==
    CASE domain = "Core" -> "core" [] domain = "Proxy" -> "proxy" [] domain = "Sub" -> "sub"
      [] domain = "Profile" -> "profile" [] domain = "Config" -> "config"
      [] domain = "Daemon" -> "daemon" [] domain = "RuleProvider" -> "rule-provider"
      [] domain = "ProxyGroup" -> "proxy-group" [] OTHER -> ""

\* A deprecated path leads to a leaf of the grammar, and to a command of the
\* domain it names, unless the domain itself was renamed: proxies and groups
\* became entries of `node`, and `provider` has no grammar any more.
ParseTo(to) ==
    LET flags == {IF to[i] = "--verbose" THEN "verbose" ELSE "offline" :
                     i \in {i \in DOMAIN to : to[i] \in {"--verbose", "--offline"}}}
        leaf  == IF Len(to) > 1 /\ to[2] \notin {"--verbose", "--offline"} THEN to[2] ELSE ""
    IN  [head |-> to[1], leaf |-> leaf, flags |-> flags]
AliasLeads(rule) ==
    LET parsed  == ParseTo(rule.to)
        command == Convert(parsed.head, parsed.leaf, parsed.flags)
    IN  parsed.head # "provider" =>
          /\ \/ Accepts(parsed.head, parsed.leaf, parsed.flags)
             \/ rule.from = <<"set", "tun">>
          /\ \/ V1Domain(command[2]) = rule.from[2]
             \/ parsed.head = "node" /\ rule.from[2] \in {"proxy", "proxy-group"}
             \/ rule.from[1] = "tool" \/ Len(rule.from) = 2
             \/ rule.from = <<"set", "daemon", "status">>

\* Without --apply, a leaf that takes it touches neither the configuration nor
\* the daemon nor what a group has chosen: "Config write leaves default to
\* `--dry-run`". On a fresh install the leaves that load with a bootstrap write
\* the default layout, which holds nothing of what they were asked for.
NoApplyNoWrite(head, leaf, flags, target, options) ==
    TakesApply(head, leaf) /\ "apply" \notin flags
        => /\ Touches(Convert(head, leaf, flags), flags, target, options) \subseteq {"layout"}
           /\ "fresh" \notin options => Touches(Convert(head, leaf, flags), flags, target, options) = {}

\* Every command that writes configuration is kept by the operation log, but for
\* `sub parse --apply` and `config generate` (history.rs recordable_domain).
WritesAreRecorded(head, leaf, flags, target, options) ==
    LET command == Convert(head, leaf, flags)
    IN  Touches(command, flags, target, options) \cap {"config", "layout"} # {} =>
          Recordable(command) \/ command \in {<<"Show", "Sub", "Parse">>, <<"Set", "Config", "Generate">>}

\* A member is picked only under the spelling the group declares, and a spelling
\* that could mean two members picks none. The command stops in the unreachable!
\* ("duplicate exact member names are schema-rejected") only for a group that
\* lists a member twice.
PickIsUnambiguous(groups, group, member) ==
    LET target == DeclaredGroup(groups, group)
        picked == Pick(groups, group, member)
    IN  /\ picked.why = "picked" =>
              /\ target.kind = "selector"
              /\ picked.member \in ToSet(target.members)
              /\ picked.member.word = member.word
              /\ picked.member # member => \A other \in ToSet(target.members) :
                                             other.word = member.word => other = picked.member
        /\ picked.why = "panic" => ~ IsInjective(target.members)
=============================================================================
