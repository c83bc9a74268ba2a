------------------------ MODULE SubscriptionFormats ------------------------
(***************************************************************************)
(* From the body of a subscription to its display nodes and its routing:   *)
(* crates/caly-subscription/src (format.rs, pipeline.rs, clash.rs,         *)
(* chain.rs, sip008.rs, userinfo.rs).                                      *)
(*                                                                         *)
(* A body is [size, utf8, lines, decoded]: `decoded' is <<>> or the body   *)
(* its base64 stands for.  A line is [indent, dash, word, frag, node]:     *)
(* its first word (a YAML key, a URI scheme, "{", "#" or ""), whether it   *)
(* has a '#' further on, and the node NodeForms would parse it to.  A node *)
(* is [id, name, dialer].                                                  *)
(***************************************************************************)
EXTENDS Integers, Sequences, FiniteSets, SequencesExt, TLC

CONSTANTS
    MaxLines,   \* MAX_SUBSCRIPTION_LINES
    MaxNodes,   \* MAX_SUBSCRIPTION_NODES
    MaxGroups,  \* MAX_PROXY_GROUPS
    MaxMembers  \* MAX_PROXY_GROUP_MEMBERS

NoNode == [id |-> 0, name |-> "", dialer |-> 0]
Failed(why) == [error |-> why]
Ok(result) == "error" \notin DOMAIN result

-----------------------------------------------------------------------------
(* What a body is: format.rs.                                               *)

\* is_clash_yaml: an unindented "proxies:" key.
IsClashYaml(lines) == \E i \in DOMAIN lines : ~ lines[i].indent /\ ~ lines[i].dash /\ lines[i].word = "proxies"

\* trim_start takes the blank lines in front, and the first line's indent.
Trimmed(lines) ==
    LET full == {i \in DOMAIN lines : lines[i].word # ""}
    IN  IF full = {} THEN <<>>
        ELSE LET rest == SubSeq(lines, Min(full), Len(lines)) IN [rest EXCEPT ![1].indent = FALSE]

IsSip008Json(lines) ==
    LET trimmed == Trimmed(lines)
        has(words) == \E i \in DOMAIN trimmed : trimmed[i].word \in words
        envelope == \E i \in DOMAIN trimmed : ~ trimmed[i].indent /\ ~ trimmed[i].dash /\ trimmed[i].word = "servers"
    IN  /\ trimmed # <<>>
        /\ has({"server"}) /\ has({"method", "password"})
        /\ trimmed[1].word = "{" \/ envelope \/ trimmed[1].dash

Noise == {"", "#"}

IsUrlList(lines) ==
    LET said == SelectSeq(lines, LAMBDA l : l.word \notin Noise \/ l.dash)
    IN  said # <<>> /\ \A i \in DOMAIN said : said[i].word \in {"http", "https"} /\ ~ said[i].dash /\ ~ said[i].frag

SupportedSchemes == {"ss", "ssr", "vmess", "vless", "trojan", "hysteria2", "hy2", "tuic", "wireguard", "http", "https",
                     "socks", "socks5"}

ContainsSupportedUri(lines) == \E i \in DOMAIN lines : ~ lines[i].dash /\ lines[i].word \in SupportedSchemes

\* parse_lines: every line that is neither blank nor a comment.
ParseLines(lines) ==
    LET said == SelectSeq(lines, LAMBDA l : l.word \notin Noise \/ l.dash)
    IN  CASE \E i \in DOMAIN said : said[i].word = "long" -> Failed("LineTooLong")
          [] Len(said) > MaxLines -> Failed("TooManyLines")
          [] said = <<>> -> Failed("Empty")
          [] OTHER -> [lines |-> said]

Lined(kind, format, lines) ==
    LET parsed == ParseLines(lines)
    IN  IF Ok(parsed) THEN [kind |-> kind, format |-> format, lines |-> parsed.lines] ELSE parsed

Document(kind, lines) == [kind |-> kind, format |-> "plain", lines |-> lines]

\* decode_document: the sniffs in order, then the same sniffs on what the
\* base64 of the body without its comments stands for.
DecodeDocument(body) ==
    CASE body.size = "huge" -> Failed("BodyTooLarge")
      [] body.size = "empty" -> Failed("Empty")
      [] ~ body.utf8 -> Failed("InvalidUtf8")
      [] IsClashYaml(body.lines) -> Document("ClashYaml", body.lines)
      [] IsSip008Json(body.lines) -> Document("Sip008", body.lines)
      [] IsUrlList(body.lines) -> Lined("UrlList", "plain", body.lines)
      [] ContainsSupportedUri(body.lines) -> Lined("UriLines", "plain", body.lines)
      [] body.decoded = <<>> -> Failed("Base64Rejected")
      [] OTHER ->
           LET inner == body.decoded[1]
           IN  (CASE inner.size = "huge" -> Failed("DecodedBodyTooLarge")
                  [] ~ inner.utf8 -> Failed("InvalidUtf8")
                  [] IsClashYaml(inner.lines) -> Document("ClashYaml", inner.lines)
                  [] IsSip008Json(inner.lines) -> Document("Sip008", inner.lines)
                  [] ~ ContainsSupportedUri(inner.lines) -> Failed("UnknownFormat")
                  [] OTHER -> Lined("UriLines", "base64", inner.lines))

-----------------------------------------------------------------------------
(* Dialer chains: chain.rs.                                                 *)

RECURSIVE Walk(_, _, _, _)
\* walk_chain: `visiting' is the path walked, `done' what earlier walks ended on.
Walk(node, next, visiting, done) ==
    CASE node = 0 \/ node \in done -> [done |-> done \cup visiting]
      [] node \in visiting -> Failed("Cycle")
      [] OTHER -> Walk(next[node], next, visiting \cup {node}, done)

RECURSIVE WalkAll(_, _, _)
WalkAll(starts, next, done) ==
    IF starts = {} THEN [done |-> done]
    ELSE LET start == Min(starts)
             walked == Walk(start, next, {}, done)
         IN  IF Ok(walked) THEN WalkAll(starts \ {start}, next, walked.done) ELSE walked

\* The dependency map keeps the last node of an identity.
Dependencies(nodes) ==
    [id \in {nodes[i].id : i \in DOMAIN nodes} |->
        nodes[Max({i \in DOMAIN nodes : nodes[i].id = id})].dialer]

ValidateChains(nodes) ==
    LET next == Dependencies(nodes)
    IN  IF \E id \in DOMAIN next : next[id] \notin DOMAIN next \cup {0} THEN Failed("MissingDependency")
        ELSE WalkAll(DOMAIN next, next, {})

-----------------------------------------------------------------------------
(* Projection: pipeline.rs.                                                 *)

\* dedupe: the first node of an identity, in first-seen order.
Dedupe(nodes) ==
    IF Len(nodes) > MaxNodes THEN Failed("TooManyNodes")
    ELSE LET firsts == {i \in DOMAIN nodes : \A j \in 1 .. i - 1 : nodes[j].id # nodes[i].id}
             order == SetToSortSeq(firsts, <)
         IN  [nodes |-> [k \in DOMAIN order |-> nodes[order[k]]], duplicates |-> Len(nodes) - Len(order)]

\* dedupe_name_tags: the n-th use of a name is "name #n"; a name at the cap
\* makes room for the suffix.
Cut(name) == IF name = "at the cap" THEN "at the" ELSE name
DedupeNameTags(names) ==
    [i \in DOMAIN names |->
        LET seen == Cardinality({j \in 1 .. i : names[j] = names[i]})
        IN  IF seen = 1 THEN names[i] ELSE Cut(names[i]) \o " #" \o ToString(seen)]

\* project_display: chains on the raw nodes, then duplicates, then tags.
ProjectDisplay(nodes) ==
    LET chains == ValidateChains(nodes)
        deduped == Dedupe(nodes)
    IN  CASE ~ Ok(chains) -> chains
          [] Ok(chains) /\ ~ Ok(deduped) -> deduped
          [] OTHER -> LET tags == DedupeNameTags([i \in DOMAIN deduped.nodes |-> deduped.nodes[i].name])
                      IN  [display |-> [i \in DOMAIN tags |-> [id |-> deduped.nodes[i].id, tag |-> tags[i]]]]

\* parse_clash_yaml refuses the document for one bad proxy, parse_sip008 and
\* the URI lines skip what they cannot parse.  Each entry is one line here.
Proxies(lines) == SelectSeq(lines, LAMBDA l : l.dash)
Parsed(lines) == LET good == SelectSeq(lines, LAMBDA l : l.node # NoNode) IN [i \in DOMAIN good |-> good[i].node]
AllParse(lines) == \A i \in DOMAIN lines : lines[i].node # NoNode

ParseClashYaml(lines) ==
    LET proxies == Proxies(lines)
    IN  IF Len(proxies) > MaxNodes \/ ~ AllParse(proxies) THEN Failed("Clash") ELSE [nodes |-> Parsed(proxies)]

Lossy(nodes, rejected, ssr) ==
    LET shown == ProjectDisplay(nodes)
    IN  CASE nodes = <<>> -> Failed(IF ssr > 0 /\ rejected = 0 THEN "SsrOnly" ELSE "Uri")
          [] nodes # <<>> /\ ~ Ok(shown) -> shown
          [] OTHER -> [display |-> shown.display, rejected |-> rejected, ssr |-> ssr]

\* parse_document_to_display_lossy.
ParseDocumentToDisplayLossy(document) ==
    LET lines == SelectSeq(document.lines, LAMBDA l : l.word # "ssr")
        proxies == Proxies(document.lines)
        clash == ParseClashYaml(document.lines)
    IN  CASE document.kind = "UriLines" ->
               Lossy(Parsed(lines), Len(lines) - Len(Parsed(lines)), Len(document.lines) - Len(lines))
          [] document.kind = "ClashYaml" /\ ~ Ok(clash) -> clash
          [] document.kind = "ClashYaml" /\ Ok(clash) -> Lossy(clash.nodes, 0, 0)
          [] document.kind = "Sip008" -> Lossy(Parsed(proxies), Len(proxies) - Len(Parsed(proxies)), 0)
          [] document.kind = "UrlList" -> Failed("UnsupportedDocument")

\* document_dialable: strict on URI lines and Clash, not on SIP008.
DocumentDialable(document) ==
    CASE document.kind = "UrlList" -> Failed("UnsupportedDocument")
      [] document.kind = "Sip008" -> [nodes |-> Parsed(Proxies(document.lines))]
      [] document.kind = "UriLines" ->
           IF \A i \in DOMAIN document.lines : document.lines[i].word # "ssr" /\ document.lines[i].node # NoNode
           THEN [nodes |-> Parsed(document.lines)] ELSE Failed("Uri")
      [] document.kind = "ClashYaml" -> ParseClashYaml(document.lines)

\* parse_uri_body_to_display, parse_uri_body_to_display_lossy.
ParseUriBodyToDisplay(body) ==
    LET document == DecodeDocument(body)
        dialable == DocumentDialable(document)
    IN  CASE ~ Ok(document) -> document
          [] Ok(document) /\ ~ Ok(dialable) -> dialable
          [] OTHER -> ProjectDisplay(dialable.nodes)
ParseUriBodyToDisplayLossy(body) ==
    LET document == DecodeDocument(body)
    IN  IF Ok(document) THEN ParseDocumentToDisplayLossy(document) ELSE document

\* diff.
Diff(previous, current) == [added |-> current \ previous, removed |-> previous \ current]

-----------------------------------------------------------------------------
(* Groups and rules of a Clash document [proxies, groups, rules]: clash.rs. *)

\* convert_group_member: a name that is no group is taken for a node.
ConvertGroupMember(name, groupNames) ==
    CASE name = "DIRECT" -> [kind |-> "direct"]
      [] name = "REJECT" -> [kind |-> "reject"]
      [] name \in groupNames \ {"DIRECT", "REJECT"} -> [kind |-> "group", name |-> name]
      [] OTHER -> [kind |-> "node", name |-> name]

NeedsUrl(type) == type \in {"url-test", "fallback", "load-balance"}

\* convert_probe: defaults for what the group leaves out.
ConvertProbe(group) ==
    [url |-> IF group.url = "none" THEN "default" ELSE group.url,
     interval |-> IF group.interval = -1 THEN 300 ELSE group.interval]

ConvertGroup(group, groupNames) ==
    IF \/ group.type \notin {"select", "url-test", "fallback", "load-balance", "relay"}
       \/ Len(group.members) > MaxMembers
       \/ \E i \in DOMAIN group.members : group.members[i] = ""
       \/ NeedsUrl(group.type) /\ group.url = "bad"
    THEN Failed("Group")
    ELSE [name |-> group.name, type |-> group.type,
          members |-> [i \in DOMAIN group.members |-> ConvertGroupMember(group.members[i], groupNames)],
          probe |-> IF NeedsUrl(group.type) THEN <<ConvertProbe(group)>> ELSE <<>>]

\* convert_rules: a policy is an outcome, a group or a proxy of the document.
PolicyResolves(policy, groupNames, proxyNames) ==
    policy \in {"DIRECT", "REJECT"} \cup groupNames \cup proxyNames
ConvertRules(rules, groupNames, proxyNames) ==
    IF \A i \in DOMAIN rules : rules[i].parses /\ PolicyResolves(rules[i].policy, groupNames, proxyNames)
    THEN [rules |-> rules] ELSE Failed("Rule")

\* parse_clash_config.
ParseClashConfig(document) ==
    LET names == {document.groups[i].name : i \in DOMAIN document.groups}
        proxyNames == {document.proxies[i].name : i \in DOMAIN document.proxies}
        groups == [i \in DOMAIN document.groups |-> ConvertGroup(document.groups[i], names)]
        rules == ConvertRules(document.rules, names, proxyNames)
    IN  CASE Len(document.proxies) > MaxNodes -> Failed("TooManyNodes")
          [] Len(document.groups) > MaxGroups -> Failed("TooManyGroups")
          [] Cardinality(names) # Len(document.groups) -> Failed("DuplicateGroupName")
          [] \E i \in DOMAIN document.proxies : ~ document.proxies[i].parses -> Failed("Proxy")
          [] \E i \in DOMAIN groups : ~ Ok(groups[i]) -> Failed("Group")
          [] ~ Ok(rules) -> rules
          [] OTHER -> [proxies |-> document.proxies, groups |-> groups, rules |-> rules.rules]

\* clash_routing_from_body, clash_routing_from_document: a document without
\* groups has no routing, its rules are dropped with it.
ClashRouting(document) ==
    LET import == ParseClashConfig(document)
    IN  IF Ok(import) /\ import.groups # <<>> THEN [groups |-> import.groups, rules |-> import.rules] ELSE Failed("None")

-----------------------------------------------------------------------------
(* Quota headers: userinfo.rs.  A field is -1 when absent.                  *)

\* parse_subscription_userinfo: the last use of a key counts, and one that is
\* no number erases what came before.
ParseUserInfo(parts) ==
    [key \in {"upload", "download", "total", "expire"} |->
        LET uses == {i \in DOMAIN parts : parts[i][1] = key}
        IN  IF uses = {} THEN -1 ELSE parts[Max(uses)][2]]

OrZero(n) == IF n = -1 THEN 0 ELSE n

\* render_usage_human; the sums saturate.
RenderUsage(info) ==
    LET used == OrZero(info.upload) + OrZero(info.download)
    IN  IF info.total = -1 THEN Failed("nothing to say")
        ELSE [used |-> used, total |-> info.total, remaining |-> IF used > info.total THEN 0 ELSE info.total - used]

-----------------------------------------------------------------------------
(* Properties.                                                              *)

Wrapped(body) == [size |-> "ok", utf8 |-> TRUE, decoded |-> <<body>>,
                  lines |-> <<[indent |-> FALSE, dash |-> FALSE, word |-> "text", frag |-> FALSE, node |-> NoNode]>>]

\* Base64 around a body changes neither what it is taken for nor its lines; the
\* exception is a list of URLs, whose lines are then http proxies
\* (format.rs:52-94).
WrappingIsTransparent(body) ==
    LET plain == DecodeDocument(body)
        inner == DecodeDocument(Wrapped(body))
    IN  Ok(plain) /\ plain.kind # "UrlList" /\ plain.format = "plain" =>
            Ok(inner) /\ inner.kind = plain.kind /\ inner.lines = plain.lines

\* Nothing of a document is lost without a count: nodes shown, duplicates,
\* lines rejected and SSR links add up to its entries, every identity is shown
\* once, at its first place, and a strict parse that succeeds shows the same
\* (pipeline.rs:77-219).
PipelineAccounts(body) ==
    LET document == DecodeDocument(body)
        lossy == ParseUriBodyToDisplayLossy(body)
        strict == ParseUriBodyToDisplay(body)
        entries == IF document.kind = "UriLines" THEN document.lines ELSE Proxies(document.lines)
        good == Parsed(SelectSeq(entries, LAMBDA l : l.word # "ssr"))
        named(i) == good[Min({k \in DOMAIN good : good[k].id = lossy.display[i].id})].name
    IN  Ok(lossy) =>
          /\ Len(lossy.display) + Dedupe(good).duplicates + lossy.rejected + lossy.ssr = Len(entries)
          /\ {lossy.display[i].id : i \in DOMAIN lossy.display} = {good[i].id : i \in DOMAIN good}
          /\ \A i, j \in DOMAIN lossy.display : lossy.display[i].id = lossy.display[j].id => i = j
          /\ \A i \in DOMAIN lossy.display :
                lossy.display[i].tag = named(i) \/ \E j \in 1 .. i - 1 : named(j) = named(i)
          /\ Ok(strict) => strict.display = lossy.display
          /\ lossy.rejected = 0 /\ lossy.ssr = 0 => Ok(strict)

\* The chain gate lets a document through exactly when every dialer exists and
\* no node dials, through others, by way of itself (chain.rs:33-80).
ChainVerdict(nodes) ==
    LET next == Dependencies(nodes)
        ids == DOMAIN next
        hop(S) == S \cup {next[n] : n \in {m \in S : m \in ids}}
        after(n) == hop(hop(hop(hop({next[n]}))))
    IN  Ok(ValidateChains(nodes)) <=>
            \A n \in ids : next[n] \in ids \cup {0} /\ n \notin after(n)

\* The routing of a document refers to nothing outside it: a rule's policy and
\* a group's group exist, and its proxies parse (clash.rs:157-293, 482-510).
RoutingClosed(document) ==
    LET routing == ClashRouting(document)
        names == {routing.groups[i].name : i \in DOMAIN routing.groups}
    IN  Ok(routing) =>
          /\ \A i \in DOMAIN routing.rules :
                routing.rules[i].policy \in {"DIRECT", "REJECT"} \cup names
                    \cup {document.proxies[k].name : k \in DOMAIN document.proxies}
          /\ \A i \in DOMAIN routing.groups : \A m \in DOMAIN routing.groups[i].members :
                routing.groups[i].members[m].kind = "group" => routing.groups[i].members[m].name \in names
          /\ \A i, j \in DOMAIN routing.groups : routing.groups[i].name = routing.groups[j].name => i = j

\* What is left of a quota is what was not used, and nothing once it is
\* exceeded, whatever the header leaves out or repeats (userinfo.rs:22-65).
QuotaAddsUp(parts) ==
    LET usage == RenderUsage(ParseUserInfo(parts))
    IN  Ok(usage) => usage.remaining >= 0 /\ (usage.used <= usage.total => usage.used + usage.remaining = usage.total)
                     /\ (usage.used > usage.total => usage.remaining = 0)
=============================================================================
