----------------------------- MODULE EntryViews -----------------------------
(***************************************************************************)
(* Two views the command line prints.  `caly node tree`, `caly node list`  *)
(* and `caly sub parse` (crates/caly-cli/src/entry_tree.rs,                *)
(* commands/node_tree.rs): groups with their members, the nodes in no      *)
(* group, the built-in outbounds and the rules, as text for a terminal and *)
(* as JSON.  `caly config diff` (client/config_generate/diff.rs): the line *)
(* diff of --json and the plan view for a terminal, which walks the two    *)
(* YAML documents.                                                         *)
(***************************************************************************)
EXTENDS Integers, Sequences, FiniteSets, SequencesExt

\* A node as it was parsed; one whose display form fails has no usable name.
TreeNode(name, kind) == [name |-> name, kind |-> kind]
TreeMember(is, name, kind) == [is |-> is, name |-> name, kind |-> kind]

BadgeKind(kind) ==
    CASE kind = "select" -> "selector"
      [] kind = "url-test" -> "urltest"
      [] kind = "load-balance" -> "loadbalance"
      [] kind = "shadowsocks" -> "ss"
      [] OTHER -> kind

FirstNamed(named, name) == SelectInSeq(named, LAMBDA x : x.name = name)
KindOf(named, name) == LET at == FirstNamed(named, name) IN IF at = 0 THEN "unknown" ELSE named[at].kind

\* from_clash_import's table: a node that cannot be shown is "unknown".
NodeKinds(proxies) ==
    [i \in DOMAIN proxies |-> IF proxies[i].shows THEN TreeNode(proxies[i].name, BadgeKind(proxies[i].kind))
                              ELSE TreeNode("unknown", "unknown")]

\* declared_groups keeps an inline URI that does not parse under its own text.
InlineKinds(inline) ==
    [i \in DOMAIN inline |-> TreeNode(inline[i].name, IF inline[i].shows THEN BadgeKind(inline[i].kind) ELSE "unknown")]

\* build_group: a node tag that no parsed node has is kept as unknown.
BuildGroup(group, nodeKinds) ==
    LET Member(member) ==
            CASE member.is = "node" ->
                   IF FirstNamed(nodeKinds, member.name) = 0 THEN TreeMember("unknown", member.name, "unknown")
                   ELSE TreeMember("node", member.name, KindOf(nodeKinds, member.name))
              [] member.is = "group" -> TreeMember("group", member.name, "unknown")
              [] member.is = "direct" -> TreeMember("builtin", "DIRECT", "direct")
              [] member.is = "reject" -> TreeMember("builtin", "REJECT", "reject")
    IN  [name |-> group.name, kind |-> BadgeKind(group.kind), probe |-> group.probe,
         members |-> [i \in DOMAIN group.members |-> Member(group.members[i])]]

\* The groups of the configuration itself: here an undeclared tag stays a node.
DeclaredGroup(group, nodes) ==
    LET built == BuildGroup(group, nodes)
    IN  [built EXCEPT !.members = [i \in DOMAIN @ |->
            IF @[i].is = "unknown" THEN TreeMember("node", @[i].name, "unknown") ELSE @[i]]]

\* declared_groups: the configured groups see the inline nodes only; each
\* cached subscription then adds its nodes, and its groups that have a new name.
DeclaredGroups(config, enabledOnly) ==
    LET inline == InlineKinds(config.inline)
        own == SelectSeq(config.groups, LAMBDA g : ~ enabledOnly \/ g.enabled)
        start == [groups |-> [i \in DOMAIN own |-> DeclaredGroup(own[i], inline)], nodes |-> inline]
        AddGroup(acc, group) ==
            IF FirstNamed(acc.groups, group.name) # 0 THEN acc
            ELSE [acc EXCEPT !.groups = Append(@, BuildGroup(group, acc.nodes))]
        AddSource(acc, body) ==
            IF ~ body.routed THEN acc
            ELSE LET shown == SelectSeq(body.proxies, LAMBDA p : p.shows)
                     all == [acc EXCEPT !.nodes = @ \o NodeKinds(shown)]
                 IN  FoldLeft(AddGroup, all, body.groups)
    IN  FoldLeft(AddSource, start, config.bodies)

ResolveGroupRefs(groups) ==
    LET Resolved(m) == IF m.is = "group" THEN TreeMember("group", m.name, KindOf(groups, m.name)) ELSE m
    IN  [g \in DOMAIN groups |-> [groups[g] EXCEPT !.members = [i \in DOMAIN @ |-> Resolved(@[i])]]]

MemberNames(groups, is) ==
    UNION {{groups[g].members[i].name : i \in {i \in DOMAIN groups[g].members : groups[g].members[i].is = is}}
             : g \in DOMAIN groups}

CollectUngrouped(groups, nodeKinds) ==
    SelectSeq(nodeKinds, LAMBDA n : n.name \notin MemberNames(groups, "node"))

\* The members of one kind, group after group, each name once.
Distinct(groups, is, seen) ==
    LET all == FlattenSeq([g \in DOMAIN groups |-> SelectSeq(groups[g].members, LAMBDA m : m.is = is)])
        Add(acc, m) == IF m.name \in seen \/ FirstNamed(acc, m.name) # 0 THEN acc
                       ELSE Append(acc, TreeNode(m.name, m.kind))
    IN  FoldLeft(Add, <<>>, all)

CollectBuiltins(groups) == Distinct(groups, "builtin", {})

\* build_rule and rule_from_declared: a target is a built-in, else the first
\* group of that name, else the first node of that name, else nothing.
TreeRule(rule, groups, nodes) ==
    LET known == groups \o nodes
        kind == CASE rule.policy = "DIRECT" -> "direct"
                  [] rule.policy = "REJECT" -> "reject"
                  [] OTHER -> IF FirstNamed(known, rule.policy) = 0 THEN "none" ELSE KindOf(known, rule.policy)
    IN  [text |-> rule.text, target |-> rule.policy, targetKind |-> kind]

FromDeclared(groups, nodes, rules) ==
    LET resolved == ResolveGroupRefs(groups)
    IN  [groups |-> resolved, ungrouped |-> CollectUngrouped(resolved, nodes),
         rules |-> [r \in DOMAIN rules |-> TreeRule(rules[r], resolved, nodes)],
         builtins |-> CollectBuiltins(resolved)]

FromClashImport(import) ==
    LET nodeKinds == NodeKinds(import.proxies)
        groups == [g \in DOMAIN import.groups |-> BuildGroup(import.groups[g], nodeKinds)]
        shown == NodeKinds(SelectSeq(import.proxies, LAMBDA p : p.shows))
    IN  [FromDeclared(groups, nodeKinds, <<>>) EXCEPT !.rules =
            [r \in DOMAIN import.rules |-> TreeRule(import.rules[r], groups, shown)]]

FromUriNodes(nodes) == [groups |-> <<>>, ungrouped |-> nodes, rules |-> <<>>, builtins |-> <<>>]

\* render_declared_tree: a rule line that does not parse is skipped.
RenderDeclaredTree(config, enabledOnly) ==
    LET declared == DeclaredGroups(config, enabledOnly)
    IN  FromDeclared(declared.groups, declared.nodes, SelectSeq(config.rules, LAMBDA r : r.parses))

-----------------------------------------------------------------------------
(* Counts, cycles and the two renderings.                                   *)

Names(seq) == {seq[i].name : i \in DOMAIN seq}

ProtocolCount(tree) ==
    Len(tree.ungrouped) + Cardinality(MemberNames(tree.groups, "node") \ Names(tree.ungrouped))

EntryCount(tree) == ProtocolCount(tree) + Len(tree.groups) + Len(tree.builtins)

\* reaches_back: a depth-first walk that threads the names it has seen.
RECURSIVE ReachesBack(_, _, _, _)
ReachesBack(groups, from, target, seen) ==
    LET at == FirstNamed(groups, from)
        Try(acc, member) ==
            IF acc.found \/ member.is # "group" THEN acc
            ELSE ReachesBack(groups, member.name, target, acc.seen)
    IN  CASE from = target -> [found |-> TRUE, seen |-> seen]
          [] from # target /\ from \in seen -> [found |-> FALSE, seen |-> seen]
          [] OTHER -> IF at = 0 THEN [found |-> FALSE, seen |-> seen \cup {from}]
                      ELSE FoldLeft(Try, [found |-> FALSE, seen |-> seen \cup {from}], groups[at].members)

MemberCycles(groups) ==
    [g \in DOMAIN groups |-> [i \in DOMAIN groups[g].members |->
        /\ groups[g].members[i].is = "group"
        /\ ReachesBack(groups, groups[g].members[i].name, groups[g].name, {}).found]]

\* render_human: one line per header, member, ungrouped node and rule.
RenderHuman(tree) ==
    LET cycles == MemberCycles(tree.groups)
        GroupLines(g) ==
            <<[zone |-> "group", name |-> tree.groups[g].name, cycle |-> FALSE]>> \o
            [i \in DOMAIN tree.groups[g].members |->
                [zone |-> "member", name |-> tree.groups[g].members[i].name, cycle |-> cycles[g][i]]]
        lines == FlattenSeq([g \in DOMAIN tree.groups |-> GroupLines(g)]) \o
                 [i \in DOMAIN tree.ungrouped |->
                     [zone |-> "ungrouped", name |-> tree.ungrouped[i].name, cycle |-> FALSE]] \o
                 [i \in DOMAIN tree.rules |-> [zone |-> "rule", name |-> tree.rules[i].target, cycle |-> FALSE]]
    IN  IF lines = <<>> THEN <<[zone |-> "none", name |-> "none", cycle |-> FALSE]>> ELSE lines

GroupsInFor(name, groups) ==
    LET having == SelectSeq(groups, LAMBDA g : \E i \in DOMAIN g.members : g.members[i].is = "node" /\ g.members[i].name = name)
    IN  [i \in DOMAIN having |-> having[i].name]

\* render_json: groups, ungrouped nodes, then each member node once with the
\* groups it is in, then the built-ins.
RenderJson(tree) ==
    LET members == Distinct(tree.groups, "node", Names(tree.ungrouped))
        Of(seq, type) == [i \in DOMAIN seq |-> [name |-> seq[i].name, kind |-> seq[i].kind, type |-> type,
                                                 groupsIn |-> IF type = "member" THEN GroupsInFor(seq[i].name, tree.groups) ELSE <<>>]]
    IN  [counts |-> [entries |-> EntryCount(tree), protocols |-> ProtocolCount(tree), groups |-> Len(tree.groups),
                     builtins |-> Len(tree.builtins), rules |-> Len(tree.rules)],
         entries |-> Of(tree.groups, "group") \o Of(tree.ungrouped, "protocol") \o Of(members, "member") \o
                     Of(tree.builtins, "builtin")]

-----------------------------------------------------------------------------

\* A path of group references, as a set: the names reachable from one name.
RECURSIVE Reachable(_, _)
Reachable(groups, names) ==
    LET firsts == {FirstNamed(groups, n) : n \in names} \ {0}
        next == names \cup UNION {{groups[g].members[i].name : i \in {i \in DOMAIN groups[g].members :
                                      groups[g].members[i].is = "group"}} : g \in firsts}
    IN  IF next = names THEN names ELSE Reachable(groups, next)

\* The tree adds up: the JSON counts are the numbers of entries it lists, every
\* parsed node is listed, one that a group holds is listed with its groups and
\* not as ungrouped, the text and the JSON name the same things, and the cycle
\* mark stands on exactly the references that lead back to their owner.
TreeAddsUp(nodes, tree) ==
    LET json == RenderJson(tree)
        human == RenderHuman(tree)
        OfType(types) == SelectSeq(json.entries, LAMBDA e : e.type \in types)
        Shown(zones) == {human[i].name : i \in {i \in DOMAIN human : human[i].zone \in zones}}
        cycles == MemberCycles(tree.groups)
    IN  /\ json.counts.entries = Len(json.entries)
        /\ json.counts.protocols = Len(OfType({"protocol", "member"}))
        /\ Names(nodes) \subseteq Names(OfType({"protocol", "member"}))
        /\ \A i \in DOMAIN json.entries :
              (json.entries[i].type = "member") <=> (json.entries[i].groupsIn # <<>>)
        /\ Names(OfType({"protocol", "member", "builtin"})) \subseteq Shown({"member", "ungrouped"})
        /\ Names(tree.groups) = Shown({"group"})
        /\ \A g \in DOMAIN tree.groups : \A i \in DOMAIN tree.groups[g].members :
              LET m == tree.groups[g].members[i]
              IN  cycles[g][i] <=> (m.is = "group" /\ tree.groups[g].name \in Reachable(tree.groups, {m.name}))

-----------------------------------------------------------------------------
(* The configuration diff.                                                  *)

\* A YAML value is a scalar, a sequence or a mapping.
Scalar(v) == [scalar |-> v]
Items(seq) == [items |-> seq]
Keys(map) == [keys |-> map]
IsItems(v) == DOMAIN v = {"items"}
IsKeys(v) == DOMAIN v = {"keys"}

-----------------------------------------------------------------------------
(* The line diff.                                                           *)

Hunk(kind, left, right) == [kind |-> kind, left |-> left, right |-> right]

\* naive_line_diff: both texts in lockstep.
NaiveLineDiff(left, right) ==
    FlattenSeq([i \in 1 .. Max({Len(left), Len(right)}) |->
        CASE i > Len(left) -> <<Hunk("insert", "", right[i])>>
          [] i > Len(right) -> <<Hunk("delete", left[i], "")>>
          [] OTHER -> IF left[i] = right[i] THEN <<Hunk("equal", left[i], right[i])>>
                      ELSE <<Hunk("delete", left[i], ""), Hunk("insert", "", right[i])>>])

\* diff_config --json: the hunks that are not equal, and whether there are any.
DiffConfig(left, right) ==
    LET hunks == SelectSeq(NaiveLineDiff(left, right), LAMBDA h : h.kind # "equal")
    IN  [hunks |-> hunks, changed |-> hunks # <<>>]

-----------------------------------------------------------------------------
(* The plan view: lines (mark, key, depth) and the three counters.          *)

NoPlan == [lines |-> <<>>, modified |-> 0, added |-> 0, removed |-> 0]
Line(plan, mark, key, depth) == [plan EXCEPT !.lines = Append(@, [mark |-> mark, key |-> key, depth |-> depth])]
Modified(plan, count) == IF count THEN [plan EXCEPT !.modified = @ + 1] ELSE plan

ItemName(item) == IF IsKeys(item) /\ "name" \in DOMAIN item.keys /\ DOMAIN item.keys["name"] = {"scalar"}
                  THEN item.keys["name"].scalar ELSE "none"
IsNameKeyed(v) == IsItems(v) /\ v.items # <<>> /\ \A i \in DOMAIN v.items : ItemName(v.items[i]) # "none"

RECURSIVE DiffMapping(_, _, _, _, _)

\* diff_named_sequence: items align by name; a sequence in which nothing
\* changed takes one off the count.
DiffNamedSequence(plan, left, right, depth) ==
    LET Find(name) == SelectInSeq(right.items, LAMBDA x : ItemName(x) = name)
        Left(acc, item) ==
            LET at == Find(ItemName(item))
            IN  CASE at = 0 -> [Line(acc, "-", ItemName(item), depth) EXCEPT !.removed = @ + 1]
                  [] at # 0 /\ right.items[at] = item -> acc
                  [] OTHER -> DiffMapping(Modified(Line(acc, "~", ItemName(item), depth), TRUE),
                                          item, right.items[at], depth + 1, FALSE)
        seen == {ItemName(left.items[i]) : i \in DOMAIN left.items}
        Right(acc, item) ==
            IF ItemName(item) \in seen THEN acc
            ELSE [Line(acc, "+", ItemName(item), depth) EXCEPT !.added = @ + 1]
        done == FoldLeft(Right, FoldLeft(Left, plan, left.items), right.items)
    IN  IF done.lines = plan.lines /\ done.modified > 0 THEN [done EXCEPT !.modified = @ - 1] ELSE done

DiffValue(plan, key, left, right, depth, count) ==
    CASE IsKeys(left) /\ IsKeys(right) ->
           DiffMapping(Modified(Line(plan, "~", key, depth), count), left, right, depth + 1, FALSE)
      [] IsItems(left) /\ IsItems(right) ->
           IF IsNameKeyed(left) /\ IsNameKeyed(right) THEN DiffNamedSequence(plan, left, right, depth)
           ELSE Line(Line(Modified(plan, count), "-", key, depth), "+", key, depth)
      [] OTHER -> Modified(Line(plan, "~", key, depth), count)

\* diff_mapping: changed and removed keys of the left, then the keys only the
\* right has; two values that are not both mappings show nothing.
DiffMapping(plan, left, right, depth, count) ==
    LET Left(acc, key) ==
            CASE key \notin DOMAIN right.keys ->
                   [Line(acc, "-", key, depth) EXCEPT !.removed = @ + (IF count THEN 1 ELSE 0)]
              [] key \in DOMAIN right.keys /\ right.keys[key] = left.keys[key] -> acc
              [] OTHER -> DiffValue(acc, key, left.keys[key], right.keys[key], depth, count)
        Right(acc, key) == [Line(acc, "+", key, depth) EXCEPT !.added = @ + (IF count THEN 1 ELSE 0)]
    IN  IF ~ IsKeys(left) \/ ~ IsKeys(right) THEN plan
        ELSE FoldLeft(Right, FoldLeft(Left, plan, SetToSeq(DOMAIN left.keys)),
                      SetToSeq(DOMAIN right.keys \ DOMAIN left.keys))

\* render_structural_diff; "(no changes)" stands for no lines.
RenderStructuralDiff(left, right) == DiffMapping(NoPlan, left, right, 0, TRUE)

-----------------------------------------------------------------------------

\* The line diff loses nothing: either text is its equal hunks together with
\* its own, in order, and "changed" is false only for equal texts.
LineDiffReplays(left, right) ==
    LET hunks == NaiveLineDiff(left, right)
        Texts(kind, side) == LET mine == SelectSeq(hunks, LAMBDA h : h.kind \in {"equal", kind})
                             IN  [i \in DOMAIN mine |-> mine[i][side]]
    IN  /\ Texts("delete", "left") = left
        /\ Texts("insert", "right") = right
        /\ DiffConfig(left, right).changed <=> (left # right)

\* Two lists of named entries that differ in order, or in an entry that repeats
\* an earlier name.
SameEntries(left, right) ==
    /\ IsNameKeyed(left) /\ IsNameKeyed(right)
    /\ {ItemName(left.items[i]) : i \in DOMAIN left.items} = {ItemName(right.items[i]) : i \in DOMAIN right.items}
    /\ \A i \in DOMAIN left.items :
          left.items[i] = right.items[SelectInSeq(right.items, LAMBDA x : ItemName(x) = ItemName(left.items[i]))]

\* The plan view of two mappings is empty exactly when each key holds equal
\* values or the same named entries, and its counters never exceed the
\* top-level lines it prints.
PlanShowsChange(left, right) ==
    LET plan == RenderStructuralDiff(left, right)
        top == Len(SelectSeq(plan.lines, LAMBDA l : l.depth = 0))
    IN  /\ (plan.lines = <<>>) <=>
              /\ DOMAIN left.keys = DOMAIN right.keys
              /\ \A k \in DOMAIN left.keys :
                    left.keys[k] = right.keys[k] \/ SameEntries(left.keys[k], right.keys[k])
        /\ plan.removed + plan.added + plan.modified <= top
===========================================================================
