--------------------------- MODULE KernelDocuments ---------------------------
(***************************************************************************)
(* From routing rules and proxy groups to the two kernels' documents:      *)
(* merged_routing_with_declared (caly-backends/src/core.rs), the Mihomo    *)
(* sections (caly-coreconf/src/mihomo/proxy_sections.rs) and the sing-box  *)
(* route and outbounds (caly-coreconf/src/rules.rs, sing_box/*.rs).        *)
(*                                                                         *)
(* A plan is a record                                                      *)
(*   rules      the rules of config.yaml                                   *)
(*   declared   the enabled groups of config.yaml                          *)
(*   subs       per subscription its [groups, rules], in id order          *)
(*   providers  the declared rule providers' names                         *)
(*   nodes      the registered nodes in id order: [name, singbox]          *)
(*                                                                         *)
(* A rule is [kind, arg, policy, src]; the traffic a value stands for is   *)
(* given by the constant Traffic, a set of requests for each argument.     *)
(*                                                                         *)
(* The kernel's DNS section: the settings and their validation             *)
(* (crates/caly-dns/src/settings.rs, crates/caly-profile/src/schema/dns.rs,*)
(* crates/caly-backends/src/dns_env.rs) and the two renderings             *)
(* (caly-coreconf/src/mihomo/mod.rs, sing_box/dns_render.rs).              *)
(*                                                                         *)
(* A name server is [host, ok]: its host is "ip", "domain" or "local", and *)
(* ok says whether Nameserver::new accepts the text.  A filter pattern is  *)
(* <<prefix, host>>, its prefix one of "+.", "*." and "".                  *)
(***************************************************************************)
EXTENDS Integers, Sequences, FiniteSets, SequencesExt

CONSTANTS
    Requests,       \* connections to be routed
    Traffic,        \* [rule arguments -> SUBSET Requests]
    Lower,          \* [rule arguments -> rule arguments], the lower-case spelling
    Private         \* the arguments that spell "private"

\* The Clash kinds sing-box has no matcher for.
MihomoOnly == {"process", "source"}

\* Groups of config.yaml first; a subscription's group of a known name is left
\* out, its rules are all kept.
MergedRouting(plan) ==
    LET Take(groups, group) ==
            IF \E i \in DOMAIN groups : groups[i].name = group.name
            THEN groups ELSE Append(groups, group)
        groups == FoldLeft(Take, plan.declared,
                           FoldLeft(LAMBDA all, sub : all \o sub.groups, <<>>, plan.subs))
    IN  IF groups = <<>> THEN [owned |-> FALSE, groups |-> <<>>, rules |-> plan.rules]
        ELSE [owned |-> TRUE, groups |-> groups,
              rules |-> FoldLeft(LAMBDA all, sub : all \o sub.rules, plan.rules, plan.subs)]

IsCatchAll(rule) == rule.kind = "match"

HasCatchAll(rules) == \E i \in DOMAIN rules : IsCatchAll(rules[i])

CatchAll(policy) == [kind |-> "match", arg |-> "none", policy |-> policy, src |-> FALSE]

\* The group of the closing MATCH line when the table has none.
MatchFallback(routing) ==
    LET selects == {i \in DOMAIN routing.groups : routing.groups[i].type = "select"}
    IN  CASE ~ routing.owned -> "AUTO"
          [] selects # {} -> routing.groups[Min(selects)].name
          [] OTHER -> routing.groups[1].name

\* build_settings and render_sections: nothing without nodes, the implicit
\* url-test group only when nobody declares groups, a closing catch-all always.
MihomoDocument(plan) ==
    LET routing  == MergedRouting(plan)
        names    == [i \in DOMAIN plan.nodes |-> plan.nodes[i].name]
        implicit == [name |-> "AUTO", type |-> "url-test", members |-> names]
    IN  IF plan.nodes = <<>> THEN [proxies |-> <<>>, groups |-> <<>>, rules |-> <<>>]
        ELSE
        [proxies |-> names,
         groups  |-> IF routing.owned THEN routing.groups ELSE <<implicit>>,
         rules   |-> IF HasCatchAll(routing.rules) THEN routing.rules
                     ELSE Append(routing.rules, CatchAll(MatchFallback(routing)))]

-----------------------------------------------------------------------------
(* sing-box.                                                                *)

NodeTag(i) == <<"node", i>>

Tag(name) == <<"tag", name>>

\* A member of a group as an outbound tag, or NoTag when its node has no
\* sing-box outbound; of two nodes with one name the later is taken.
NoTag == <<"no tag">>

MemberTag(nodes, member) ==
    LET named == {i \in DOMAIN nodes : nodes[i].singbox /\ nodes[i].name = member.name}
    IN  CASE member.kind = "node"   -> IF named = {} THEN NoTag ELSE NodeTag(Max(named))
          [] member.kind = "group"  -> Tag(member.name)
          [] member.kind = "direct" -> Tag("direct")
          [] member.kind = "reject" -> Tag("block")

\* proxy_group_to_sing_box_outbound: the members that resolve; no outbound for a
\* group without any.
GroupOutbound(nodes, group) ==
    [tag     |-> Tag(group.name),
     kind    |-> IF group.type \in {"select", "relay"} THEN "selector" ELSE "urltest",
     members |-> SelectSeq([i \in DOMAIN group.members |-> MemberTag(nodes, group.members[i])],
                           LAMBDA tag : tag # NoTag)]

\* A policy as an outbound tag: a name outside the rendered groups folds into
\* the PROXY selector.
OutboundTagForPolicy(policy, groupTags) ==
    CASE policy = "DIRECT" -> Tag("direct")
      [] policy = "REJECT" -> Tag("block")
      [] Tag(policy) \in groupTags \/ policy = "GLOBAL" -> Tag(policy)
      [] OTHER -> Tag("PROXY")

\* A geo rule that is rendered as a reference to a rule set.
IsGeo(rule) == rule.kind = "geosite" \/ (rule.kind = "geoip" /\ rule.arg \notin Private)

\* matcher_object: a geo rule needs a provider of that name, however spelled.
Representable(rule, providers) ==
    /\ rule.kind \notin MihomoOnly
    /\ IsGeo(rule) => \E i \in DOMAIN providers : Lower[providers[i]] = Lower[rule.arg]

NoRuleSet == "no rule set"

\* One route rule.  The rule set it refers to is spelled as in the rule, where the
\* sources are tagged with the providers' own spelling.
MatcherObject(rule, groupTags) ==
    [match    |-> rule,
     ruleSet  |-> IF IsGeo(rule) \/ rule.kind = "rule-set" THEN rule.arg ELSE NoRuleSet,
     outbound |-> OutboundTagForPolicy(rule.policy, groupTags)]

RenderedRules(rules, providers, groupTags, final) ==
    LET plain == SelectSeq(rules, LAMBDA r : ~ IsCatchAll(r) /\ Representable(r, providers))
    IN  [rules |-> [i \in DOMAIN plain |-> MatcherObject(plain[i], groupTags)],
         final |-> final,
         block |-> \/ final = Tag("block")
                   \/ \E i \in DOMAIN rules : rules[i].policy = "REJECT" /\ ~ IsCatchAll(rules[i])]

\* A renderer that lets the last catch-all decide.
RenderSingBoxRules_LastMatch(rules, providers, groupTags) ==
    LET catchAlls == SelectSeq(rules, IsCatchAll)
    IN  RenderedRules(rules, providers, groupTags,
                      IF catchAlls = <<>> THEN Tag("PROXY")
                      ELSE OutboundTagForPolicy(catchAlls[Len(catchAlls)].policy, groupTags))

\* render_sing_box_rules for a document with proxy outbounds: catch-alls leave
\* the list, the first of them decides route.final; a REJECT anywhere but in a
\* dead catch-all asks for the block outbound.
RenderSingBoxRules(rules, providers, groupTags) ==
    LET catchAlls == SelectSeq(rules, IsCatchAll)
    IN  RenderedRules(rules, providers, groupTags,
                      IF catchAlls = <<>> THEN Tag("PROXY")
                      ELSE OutboundTagForPolicy(catchAlls[1].policy, groupTags))

\* build_document and sing_box_document: nodes, groups, builtins, then the PROXY
\* and GLOBAL selectors over every node and group.
SingBoxDocument(plan) ==
    LET routing   == MergedRouting(plan)
        nodeTags  == {NodeTag(i) : i \in {j \in DOMAIN plan.nodes : plan.nodes[j].singbox}}
        groups    == SelectSeq([i \in DOMAIN routing.groups |->
                                   GroupOutbound(plan.nodes, routing.groups[i])],
                               LAMBDA outbound : outbound.members # <<>>)
        groupTags == {groups[i].tag : i \in DOMAIN groups}
        route     == RenderSingBoxRules(routing.rules, plan.providers, groupTags)
        everyone  == SetToSeq(nodeTags \cup groupTags \cup {Tag("direct")})
    IN  [plain  |-> nodeTags \cup {Tag("direct")}
                    \cup (IF route.block THEN {Tag("block")} ELSE {}),
         groups |-> groups \o <<[tag |-> Tag("PROXY"), kind |-> "selector", members |-> everyone],
                                [tag |-> Tag("GLOBAL"), kind |-> "selector", members |-> everyone]>>,
         ruleSets |-> {plan.providers[i] : i \in DOMAIN plan.providers},
         rules  |-> route.rules,
         final  |-> route.final]

\* The two renderings of a plan.
RenderedRouting(plan) == [mihomo |-> MihomoDocument(plan), singBox |-> SingBoxDocument(plan)]

-----------------------------------------------------------------------------
(* What the two kernels do with their documents (external).                 *)

Hits(rule, request) == IsCatchAll(rule) \/ request \in Traffic[rule.arg]

FirstHit(rules, request) == Min({i \in DOMAIN rules : Hits(rules[i], request)})

MihomoRoutes(document, request) == document.rules[FirstHit(document.rules, request)].policy

SingBoxRoutes(document, request) ==
    LET hit == {i \in DOMAIN document.rules : Hits(document.rules[i].match, request)}
    IN  IF hit = {} THEN document.final ELSE document.rules[Min(hit)].outbound

\* sing-box refuses a document with a reference to a rule set that is not in it.
RuleSetsResolve(document) ==
    \A i \in DOMAIN document.rules : document.rules[i].ruleSet \in document.ruleSets \cup {NoRuleSet}

\* Only catch-alls, dead ones, follow the first catch-all.
EndsWithCatchAll(rules) ==
    /\ HasCatchAll(rules)
    /\ \A i, j \in DOMAIN rules : i < j /\ IsCatchAll(rules[i]) => IsCatchAll(rules[j])

\* Both kernels route every request the same way: whatever sing-box does with a
\* request is what Mihomo does with it under the rules sing-box can express, the
\* first catch-all deciding in both, for every rule table that closes with its
\* catch-alls and a document sing-box loads.
RoutesAgree(plan, rendered) ==
    LET routing == MergedRouting(plan)
        kept    == [plan EXCEPT !.rules = SelectSeq(routing.rules,
                                              LAMBDA r : Representable(r, plan.providers)),
                                !.subs = [i \in DOMAIN plan.subs |->
                                             [plan.subs[i] EXCEPT !.rules = <<>>]]]
        singBox == rendered.singBox
        tags    == {singBox.groups[i].tag : i \in DOMAIN singBox.groups}
    IN  EndsWithCatchAll(routing.rules) /\ plan.nodes # <<>> /\ RuleSetsResolve(singBox) =>
            \A request \in Requests :
                SingBoxRoutes(singBox, request)
                    = OutboundTagForPolicy(MihomoRoutes(MihomoDocument(kept), request), tags)

\* Config groups and rules come first: a group of config.yaml is rendered as
\* config.yaml declares it, each name once, and a request that a rule of
\* config.yaml matches goes where the first such rule says.
ConfigComesFirst(plan, rendered) ==
    LET routing == MergedRouting(plan)
        mihomo  == rendered.mihomo
    IN  /\ \A i \in DOMAIN plan.declared : plan.declared[i] = routing.groups[i]
        /\ IsInjective([i \in DOMAIN routing.groups |-> routing.groups[i].name])
        /\ plan.nodes # <<>> => \A request \in Requests :
              (\E i \in DOMAIN plan.rules : Hits(plan.rules[i], request))
              => MihomoRoutes(mihomo, request)
                    = plan.rules[FirstHit(plan.rules, request)].policy

\* Every outbound a group of the sing-box document lists is in the document.
GroupsResolve(document) ==
    LET tags == document.plain \cup {document.groups[i].tag : i \in DOMAIN document.groups}
    IN  \A i \in DOMAIN document.groups :
            {document.groups[i].members[j] : j \in DOMAIN document.groups[i].members} \subseteq tags

\* What rules steer to is in the sing-box document; so is what they match by, where
\* a geo rule spells its provider as declared, and what groups list, as long as no
\* group lists REJECT and no group is left without members.
SingBoxResolves(plan, rendered) ==
    LET document == rendered.singBox
        routing  == MergedRouting(plan)
        tags     == document.plain \cup {document.groups[i].tag : i \in DOMAIN document.groups}
        complete == \A i \in DOMAIN routing.groups :
                       /\ GroupOutbound(plan.nodes, routing.groups[i]).members # <<>>
                       /\ \A j \in DOMAIN routing.groups[i].members :
                             routing.groups[i].members[j].kind # "reject"
        spelt    == \A i \in DOMAIN routing.rules : LET rule == routing.rules[i] IN
                       IsGeo(rule) /\ Representable(rule, plan.providers) => rule.arg \in document.ruleSets
    IN  /\ document.final \in tags
        /\ \A i \in DOMAIN document.rules : document.rules[i].outbound \in tags
        /\ complete => GroupsResolve(document)
        /\ spelt => RuleSetsResolve(document)

(***************************************************************************)
(* The kernel's DNS section                                                *)
(***************************************************************************)
CONSTANT MaxDnsServers      \* MAX_DNS_SERVERS

DnsGroups == <<"nameserver", "fallback", "direct", "default">>

\* DNS is off: the builder's and the validation's Ok(None).
NoDns == [mode |-> "off"]

\* The configuration is refused.
DnsError == [mode |-> "error"]

\* The four push_ operations of the builder, for one group of servers.
GroupBuilds(servers) ==
    Len(servers) <= MaxDnsServers /\ \A i \in DOMAIN servers : servers[i].ok

\* DnsSettingsBuilder::build.
Build(settings) ==
    IF settings.nameserver = <<>> \/ (settings.mode = "fake-ip" /\ settings.range = "none")
    THEN DnsError ELSE settings

\* validated_dns_settings.
ValidatedDnsSettings(config) ==
    CASE config.flag # "on" -> NoDns
      [] \/ config.mode \notin {"standard", "fake-ip", "redir-host"}
         \/ \E i \in DOMAIN DnsGroups : ~ GroupBuilds(config[DnsGroups[i]])
         \/ config.range = "bad" \/ config.listen = "bad" \/ config.filters = "bad" -> DnsError
      [] OTHER -> Build(config)

\* dns_from_provider: the CALY_DNS_* variables; anything invalid turns DNS off.
DnsFromEnv(env) ==
    LET mode     == IF env.mode = "unset" THEN "fake-ip" ELSE env.mode
        settings == [env EXCEPT !.mode = mode, !.listen = "none", !.filters = <<>>]
    IN  IF \/ env.flag # "on"
           \/ mode \notin {"standard", "fake-ip", "redir-host"}
           \/ \E i \in DOMAIN DnsGroups : ~ GroupBuilds(env[DnsGroups[i]])
           \/ env.range = "bad"
           \/ Build(settings) = DnsError
        THEN NoDns ELSE settings

\* dns_settings_from_config: CALY_DNS_ENABLE decides alone when it is set, even
\* to switch DNS off; to_settings maps an unusable section to none.
EffectiveDns(env, config) ==
    IF env.flag # "unset" THEN DnsFromEnv(env)
    ELSE IF ValidatedDnsSettings(config) = DnsError THEN NoDns ELSE ValidatedDnsSettings(config)

\* default_tun_dns.
DefaultTunDns ==
    [flag |-> "on", mode |-> "fake-ip", nameserver |-> <<[host |-> "ip", ok |-> TRUE]>>,
     fallback |-> <<>>, direct |-> <<>>, default |-> <<>>, range |-> "ok", listen |-> "none",
     filters |-> <<>>]

-----------------------------------------------------------------------------
(* Mihomo.                                                                  *)

\* render: with TUN there is a DNS section even when none is configured.
MihomoDns(dns, tun) ==
    IF dns # NoDns THEN dns ELSE IF tun THEN DefaultTunDns ELSE NoDns

\* The fake-ip-filter list: the operator's patterns, then every node host that
\* no pattern names.
FakeIpFilter(dns, nodeHosts) ==
    LET user == {dns.filters[i][2] : i \in DOMAIN dns.filters}
    IN  dns.filters \o SetToSeq({<<"+.", host>> : host \in nodeHosts \ user})

\* What a pattern covers of a host itself (external): "*." only covers names
\* below it.
Covers(pattern, host) == pattern[2] = host /\ pattern[1] # "*."

-----------------------------------------------------------------------------
(* sing-box.                                                                *)

DnsEntries(dns) ==
    FoldLeft(LAMBDA all, group : all \o [i \in DOMAIN dns[group] |->
                                            [tag |-> <<group, i>>, host |-> dns[group][i].host]],
             <<>>, DnsGroups)

NoResolver == <<"none", 0>>

\* find_resolver: an address literal of the direct group, else of any group.
FindResolver(entries) ==
    LET usable == {i \in DOMAIN entries : entries[i].host = "ip"}
        direct == {i \in usable : entries[i].tag[1] = "direct"}
    IN  IF usable = {} THEN NoResolver
        ELSE entries[Min(IF direct = {} THEN usable ELSE direct)].tag

\* render_dns_object: one server per entry, a domain-hosted one points to the
\* resolver; the first name server answers what no rule claims.
SingBoxDns(dns) ==
    LET entries  == DnsEntries(dns)
        resolver == FindResolver(entries)
    IN  [servers  |-> [tag \in {entries[i].tag : i \in DOMAIN entries} |->
                          LET entry == entries[CHOOSE i \in DOMAIN entries : entries[i].tag = tag]
                          IN  [host |-> entry.host,
                               via  |-> IF entry.host = "domain" THEN resolver ELSE NoResolver]],
         final    |-> IF dns.nameserver = <<>> THEN NoResolver ELSE <<"nameserver", 1>>,
         fakeIp   |-> dns.mode = "fake-ip" /\ dns.range # "none",
         resolver |-> resolver]

\* render_tuned: the document of the daemon without a subscription.
SingBoxBaseDns(dns, tun) == MihomoDns(dns, tun)

\* sing_box_document: the document with a subscription's outbounds.
SingBoxSubscriptionDns(dns, tun) == dns

\* The DNS sections of the documents rendered for one plan.
DnsSections(plan) ==
    LET dns    == EffectiveDns(plan.env, plan.config)
        mihomo == MihomoDns(dns, plan.tun)
    IN  [base         |-> SingBoxBaseDns(dns, plan.tun),
         subscription |-> SingBoxSubscriptionDns(dns, plan.tun),
         mihomo       |-> mihomo,
         filter       |-> IF mihomo = NoDns THEN <<>> ELSE FakeIpFilter(mihomo, plan.nodeHosts),
         servers      |-> IF mihomo = NoDns THEN <<>> ELSE SingBoxDns(mihomo)]

-----------------------------------------------------------------------------
(* What the sections promise.                                               *)

\* A DNS section works as rendered: TUN is never without one, it has a server
\* to ask, it synthesises addresses in fake-ip mode, a server known by name is
\* looked up through one known by address whenever there is one (of the direct
\* group by preference), and the host of a node never gets a synthesised
\* address unless the operator's own "*." pattern shadows it.
DnsUsable(plan, sections) ==
    LET mihomo  == sections.mihomo
        singBox == sections.servers
        hosted(host) == {tag \in DOMAIN singBox.servers : singBox.servers[tag].host = host}
    IN  /\ plan.tun => mihomo # NoDns /\ sections.base # NoDns
        /\ mihomo # NoDns =>
              /\ singBox.final \in DOMAIN singBox.servers
              /\ mihomo.mode = "fake-ip" => singBox.fakeIp
              /\ \A tag \in hosted("domain") :
                    IF hosted("ip") = {} THEN singBox.servers[tag].via = NoResolver
                    ELSE singBox.servers[tag].via \in hosted("ip")
              /\ (\E tag \in hosted("ip") : tag[1] = "direct") => singBox.resolver[1] = "direct"
              /\ \A host \in plan.nodeHosts :
                    \/ \E i \in DOMAIN sections.filter : Covers(sections.filter[i], host)
                    \/ \E i \in DOMAIN mihomo.filters : mihomo.filters[i] = <<"*.", host>>
=============================================================================
