---------------------------- MODULE MCDocuments ----------------------------
(***************************************************************************)
(* The pure algorithms on bounded sets of inputs: edits and loads of the   *)
(* configuration, the kernels' documents, what the command line makes of   *)
(* its words and prints, what subscriptions and nodes are turned into, the *)
(* control protocol and a kernel's answers.  A state is a subject and one  *)
(* of its inputs; a step hands a subject an input, the next one takes its  *)
(* answer.                                                                 *)
(***************************************************************************)
EXTENDS ConfigDocuments, KernelDocuments

VARIABLES
    subject,    \* the algorithm
    given,      \* whether it has its input
    input       \* what it is given

documentVars == <<subject, given, input>>

Cli == INSTANCE CommandLine WITH InlineFlags <- [w \in {"--format=tree"} |-> "--format"],
                                 UnknownFlags <- {"--bogus"}
Views == INSTANCE EntryViews
Nodes == INSTANCE NodeForms
Subs == INSTANCE SubscriptionFormats WITH MaxLines <- 3, MaxNodes <- 3, MaxGroups <- 2, MaxMembers <- 2
Wire == INSTANCE WireCodec WITH MaxNodes <- 2, MaxGroups <- 2, MaxCapabilities <- 9, MaxTextBytes <- 3, MaxStringBytes <- 4,
            MaxMessageBytes <- 14, IdBytes <- 1, HeaderBytes <- 2, ByteValues <- 2
Kernel == INSTANCE KernelControl WITH MaxCount <- 7, MaxFailure <- 5, MaxSamples <- 3, DefaultSamples <- 3

-----------------------------------------------------------------------------
(* List edits.                                                              *)

MCHeight == [v \in {"a", "b"} |-> IF v = "a" THEN 1 ELSE 2]

Entries(at, v) == IF v = "a" THEN {<<Item(at, v)>>}
                  ELSE {<<Item(at, v), More(at + 2, v)>>,
                        <<Item(at, v), Comment("inner"), More(at + 2, v)>>}
Gap == {<<>>, <<Comment("c")>>, <<Blank>>}
Lists(at) == {<<>>} \cup UNION {Entries(at, v) : v \in {"a", "b"}}
             \cup {x \o g \o y : x \in Entries(at, "a"), g \in Gap,
                                 y \in Entries(at, "b") \cup Entries(at, "a")}
KeyLines(at, name) == {Key(at, name, i, n) : i \in {"empty", "[]", "[a, b]", "other"}, n \in BOOLEAN}
ListBlocks(at) ==
    {<<k>> \o l : k \in {l \in KeyLines(at, "l") : l.inline = "empty"},
                  l \in UNION {Lists(at + d) : d \in {0, 2, 4}}}
    \cup {<<k>> : k \in {l \in KeyLines(at, "l") : l.inline # "empty"}}
Other == <<Key(0, "o", "empty", TRUE), Item(2, "a"), Comment("o")>>
Flat == {pre \o b \o post : pre \in {<<>>, Other}, b \in ListBlocks(0) \cup {<<>>},
                            post \in {<<>>, <<Comment("end")>> \o Other}}
Sibling(at) == <<Key(at, "s", "other", FALSE)>>
Nested == {<<Key(0, "p", "empty", TRUE)>> \o x \o y :
             x \in {Sibling(2), Sibling(4)}, y \in {<<>>, Other}}
          \cup {<<Key(0, "p", "empty", FALSE)>> \o pre \o b \o post \o y :
                  pre \in {<<>>, Sibling(2)}, b \in ListBlocks(2), post \in {<<>>, Sibling(2)},
                  y \in {<<>>, Other}}
          \cup {<<Key(0, "p", i, FALSE)>> \o y : i \in {"other", "[]", "empty"}, y \in {<<>>, Other}}
MCDocs == {d \in Flat \cup Nested :
             \A i, j \in DOMAIN d : (d[i] = Key(0, "o", "empty", TRUE) /\ d[j] = d[i]) => i = j}
MCEdits == [original : MCDocs, keyPath : {<<"l">>, <<"p", "l">>},
            after : {<<>>, <<"a">>, <<"b">>, <<"a", "a">>, <<"a", "b">>, <<"b", "a">>,
                     <<"a", "b", "b">>}]

-----------------------------------------------------------------------------
(* Layered loads.                                                           *)

Absent == Whole(<<"absent">>)
Entry(key, value) == IF value = Absent THEN {} ELSE {<<key, value>>}
Doc(k, profiles) ==
    LET pairs == Entry("k", k) \cup Entry("profiles", profiles)
    IN  Mapping([key \in {pair[1] : pair \in pairs} |->
                    (CHOOSE pair \in pairs : pair[1] = key)[2]])
X == Whole(<<"x">>)
Y == Whole(<<"y">>)
Deep(value) == Mapping([a |-> Mapping([b |-> value])])
Bases == {Doc(k, profiles) : k \in {Absent, X, Mapping([a |-> X, b |-> Y]), Deep(X)},
                             profiles \in {Absent, Whole(<<"p">>), Whole(<<"p", "q">>)}}
Overlays == {Doc(k, Absent) : k \in {Y, Mapping([a |-> Y]), Deep(Y), Mapping([b |-> X])}}
            \cup {Doc(Absent, Whole(<<"q">>)), Doc(X, Mapping([p |-> X]))}
MCLoads == [base : Bases, active : Overlays \cup {NoDocument},
            fragments : SeqOf(Overlays, 2),
            bodies : [{"p", "q"} -> {EmptyBody, NoBodyFor, Doc(Deep(X), Absent), Doc(Y, X)}]]
MCPaths == {<<>>, <<"k">>, <<"profiles">>, <<"k", "a">>, <<"k", "b">>, <<"k", "a", "b">>,
            <<"profiles", "p">>}

-----------------------------------------------------------------------------
(* Schemas.                                                                 *)

Sound ==
    [schemaVersion |-> 1, listen |-> "local", tls |-> FALSE, tlsMaterial |-> FALSE,
     authToken |-> FALSE, tunMtu |-> 9000, controllers |-> TRUE, logLevel |-> TRUE,
     telemetryInterval |-> 100, legacyUrl |-> "none", sources |-> <<[url |-> "web"]>>,
     kernel |-> [mixedPort |-> 1, logLevel |-> "info", initialBackoff |-> 100, maxBackoff |-> 100,
                 transparent |-> FALSE, transparentPort |-> 0, startTimeout |-> 100,
                 stopTimeout |-> 100],
     dns |-> TRUE, fetch |-> [connectTimeout |-> 100, requestTimeout |-> 1000, maxBodyMb |-> 1],
     proxyHost |-> TRUE, proxyPort |-> 1, rules |-> <<[kind |-> "set", name |-> "a"]>>,
     ruleProviders |-> <<[name |-> "a", kind |-> "file", content |-> TRUE]>>,
     providers |-> <<>>, profiles |-> <<>>, groups |-> <<>>, sniffer |-> TRUE,
     escalation |-> "auto"]
Merge(id, parts) == [id |-> id, kind |-> "merge", parts |-> parts]
Local(id) == [id |-> id, kind |-> "local", path |-> "inside", parts |-> <<>>]
MCProfiles == {Merge(id, parts) : id \in {"a", "b", "c"},
                  parts \in {<<"a">>, <<"b">>, <<"c">>, <<"b", "c">>, <<"c", "a">>, <<"d">>}}
              \cup {Local(id) : id \in {"a", "c", "../x"}}
MCGroup(name, type, members) ==
    [name |-> name, type |-> type, members |-> members,
     probe |-> IF type = "url-test" THEN "web" ELSE "none"]
MCGroups == {MCGroup(name, "relay", members) : name \in {"a", "b", "c"},
                members \in {<<"a">>, <<"node", "b">>, <<"b", "c">>, <<"c", "node", "a">>}}
            \cup {MCGroup(name, type, members) : name \in {"a", "c"},
                    type \in {"select", "url-test"}, members \in {<<"a">>, <<"b", "c">>, <<>>}}
MCConfigs == {[Sound EXCEPT !.profiles = profiles] : profiles \in SeqOf(MCProfiles, 3)}
             \cup {[Sound EXCEPT !.groups = groups] : groups \in SeqOf(MCGroups, 3)}
             \cup {[Sound EXCEPT !.ruleProviders = <<>>],
                   [Sound EXCEPT !.listen = "remote"],
                   [Sound EXCEPT !.kernel.maxBackoff = 99]}
MCSafe == {"a", "b", "c", "d"}

-----------------------------------------------------------------------------
(* Routing.                                                                 *)

MCRequests == {"r1", "r2"}
MCTraffic == [arg \in {"Ads", "ads", "lan", "none"} |->
                CASE arg \in {"Ads", "ads"} -> {"r1"} [] arg = "lan" -> {"r2"} [] OTHER -> {}]
MCLower == [arg \in {"Ads", "ads", "lan", "none"} |-> IF arg = "Ads" THEN "ads" ELSE arg]
Rule(kind, arg, policy) == [kind |-> kind, arg |-> arg, policy |-> policy, src |-> FALSE]
Routed == {Rule("geosite", "Ads", "REJECT"), Rule("domain", "lan", "g1"),
           Rule("process", "lan", "DIRECT"), CatchAll("g1"), CatchAll("DIRECT"),
           CatchAll("REJECT")}
Member(kind, name) == [kind |-> kind, name |-> name]
RGroup(name, type, members) == [name |-> name, type |-> type, members |-> members]
MCRouted == {RGroup("g1", "select", <<Member("node", "n1"), Member("direct", "")>>),
             RGroup("g1", "url-test", <<Member("node", "n2")>>),
             RGroup("g2", "select", <<Member("group", "g1"), Member("reject", "")>>)}
Subscription(groups, rules) == [groups |-> groups, rules |-> rules]
MCSubs == {Subscription(groups, rules) : groups \in SeqOf(MCRouted, 1),
              rules \in {<<>>, <<Rule("domain", "lan", "g2")>>, <<CatchAll("g2")>>,
                         <<Rule("domain", "lan", "DIRECT"), CatchAll("g1")>>}}
MCNodes == {<<>>, <<[name |-> "n1", singbox |-> TRUE], [name |-> "n2", singbox |-> FALSE]>>,
            <<[name |-> "n1", singbox |-> TRUE], [name |-> "n1", singbox |-> TRUE]>>}
MCPlans == [rules : SeqOf(Routed, 2), declared : {groups \in SeqOf(MCRouted, 2) :
                IsInjective([i \in DOMAIN groups |-> groups[i].name])},
            subs : SeqOf(MCSubs, 1), providers : {<<>>, <<"ads">>, <<"Ads">>}, nodes : MCNodes]

-----------------------------------------------------------------------------
(* DNS.                                                                     *)

Server(host) == [host |-> host, ok |-> TRUE]
MCServers == {<<>>, <<Server("ip")>>, <<Server("domain")>>, <<Server("local"), Server("domain")>>}
MCDns == [flag : {"on", "off"}, mode : {"standard", "fake-ip", "other"},
          nameserver : MCServers \cup {<<[host |-> "ip", ok |-> FALSE]>>},
          fallback : {<<>>, <<Server("ip")>>, <<Server("ip"), Server("ip"), Server("ip")>>},
          direct : MCServers, default : {<<>>},
          range : {"none", "ok", "bad"}, listen : {"none"},
          filters : {<<>>, <<<<"+.", "h1">>>>, <<<<"*.", "h1">>, <<"", "h2">>>>}]
NoEnv == [flag |-> "unset"]
MCEnvs == {[flag |-> flag, mode |-> mode, nameserver |-> nameserver, fallback |-> <<>>,
            direct |-> <<>>, default |-> <<>>, range |-> range, listen |-> "none",
            filters |-> <<>>] :
              flag \in {"on", "off"}, mode \in {"unset", "standard", "other"},
              nameserver \in MCServers, range \in {"none", "ok"}}
MCSections == [env : {NoEnv}, config : MCDns, tun : BOOLEAN, nodeHosts : {{}, {"h1", "h2"}}]
              \cup [env : MCEnvs, config : {dns \in MCDns : dns.flag = "off" /\ dns.direct = <<>>
                                              /\ dns.fallback = <<>> /\ dns.filters = <<>>},
                    tun : BOOLEAN, nodeHosts : {{"h1"}}]

-----------------------------------------------------------------------------
(* Command lines.                                                           *)

MCWords == {"show", "core", "nodes", "set", "tun", "tool", "dns", "n", "s", "x"}
Alias(key, to) == [key |-> key, to |-> to]
MCTables == {{}, {Alias(<<"x">>, <<"tool">>), Alias(<<"s">>, <<"config", "diff">>)},
             {Alias(<<"tool">>, <<"node">>), Alias(<<"n", "s">>, <<"node">>), Alias(<<"x">>, <<"op">>)},
             {Alias(<<"set">>, <<"sub", "list">>), Alias(<<"n">>, <<"node", "list">>),
              Alias(<<"dns">>, <<"node">>)}}
MCGlobals == {<<>>, <<"--json">>, <<"--socket", "set">>, <<"--format=tree">>, <<"--bogus">>, <<"--">>}
MCArgs == {g \o a : g \in MCGlobals, a \in SeqOf(MCWords, 3) \ {<<>>}}
MCLeaves == UNION {{<<head, leaf>> : leaf \in Cli!ClapCommand(head)} : head \in Cli!BuiltinHeads}
MCFlags == {"apply", "dry-run", "verbose", "offline", "type", "arg"}
MCCommands == {c \in [at : MCLeaves, flags : SUBSET MCFlags,
                      target : {"node", "selector", "urltest", "relay", "clash", "none"},
                      options : SUBSET {"fresh", "json"}] :
                 Cli!Accepts(c.at[1], c.at[2], c.flags)}
MCSpellings == [word : {"a", "b"}, spelling : {"u", "l"}]
MCPicks == [kind : {"selector", "urltest"}, members : SeqOf(MCSpellings, 3)]
GroupG(spelling) == [word |-> "g", spelling |-> spelling]

-----------------------------------------------------------------------------
(* Trees and plans.                                                         *)

MCProxies == [name : {"n", "m"}, kind : {"vless"}, shows : BOOLEAN]
TGroup(name, members) == [name |-> name, kind |-> "select", probe |-> "none", enabled |-> TRUE, members |-> members]
Ref(is, name) == [is |-> is, name |-> name]
MCMembers == {<<>>, <<Ref("node", "n"), Ref("direct", "")>>, <<Ref("node", "x"), Ref("group", "g")>>,
              <<Ref("group", "h"), Ref("node", "m")>>, <<Ref("group", "k")>>}
MCTreeGroups == {TGroup(name, members) : name \in {"g", "h", "k"}, members \in MCMembers}
MCTreeRules == {<<>>, <<[text |-> "t", policy |-> "g", parses |-> TRUE]>>}
MCImports == [proxies : SeqOf(MCProxies, 2), groups : SeqOf(MCTreeGroups, 2), rules : MCTreeRules]
             \cup [proxies : {<<[name |-> "n", kind |-> "vless", shows |-> TRUE]>>}, rules : {<<>>},
                   groups : {groups \in SeqOf(MCTreeGroups, 3) : Len(groups) = 3}]
MCDeclared == [inline : SeqOf(MCProxies, 1), groups : SeqOf(MCTreeGroups, 1), rules : MCTreeRules,
               bodies : SeqOf([routed : BOOLEAN, proxies : {<<>>, <<[name |-> "m", kind |-> "ss", shows |-> TRUE]>>},
                               groups : SeqOf(MCTreeGroups, 1)], 1)]

Named(name, v) == Views!Keys([name |-> Views!Scalar(name), v |-> Views!Scalar(v)])
MCValues == {Views!Scalar("x"), Views!Scalar("y"), Views!Keys([k |-> Views!Scalar("x")]),
             Views!Keys([k |-> Views!Scalar("y"), l |-> Views!Items(<<>>)])}
            \cup {Views!Items(items) : items \in SeqOf({Named("a", "x"), Named("a", "y"), Named("b", "x"), Views!Scalar("x")}, 2)}
MCTops == {Views!Keys([k |-> v]) : v \in MCValues} \cup {Views!Keys([k |-> v, m |-> Views!Scalar("x")]) : v \in MCValues}
          \cup {Views!Keys([m |-> Views!Scalar("x")])}
MCDiffs == [left : MCTops, right : MCTops]
MCTexts == [left : SeqOf({"a", "b", "c"}, 3), right : SeqOf({"a", "b", "c"}, 4)]

-----------------------------------------------------------------------------
(* Nodes.                                                                   *)

MCTransports == {Nodes!NoTransport, Nodes!PlainTransport("tcp"), Nodes!PlainTransport("quic"), Nodes!Grpc("p"),
                 Nodes!WebSocket("p", "none", "none", 0), Nodes!WebSocket("p", "a", "none", 0),
                 Nodes!WebSocket("p", "a", "eh", 7), Nodes!WebSocket("p", "none", "eh", 7),
                 Nodes!Http2("p", <<>>), Nodes!Http2("p", <<"a">>), Nodes!Http2("p", <<"a", "b">>)}
MCReality == {Nodes!NoReality, [key |-> "k", sid |-> "none", spx |-> "a"], [key |-> "k", sid |-> "a", spx |-> "none"]}
MCTls == {Nodes!NoTls} \cup {Nodes!Tls(sni, alpn, insecure, fp, reality) : sni \in {"none", "a"},
              alpn \in {<<>>, <<"a">>}, insecure \in BOOLEAN, fp \in {"none", "a"}, reality \in MCReality}
MCProtocols == {Nodes!Vless("u", flow) : flow \in {"none", "a"}} \cup {Nodes!Trojan("u")}
    \cup {Nodes!Vmess("u", aid, c) : aid \in {0, 1}, c \in {"auto", "none-cipher"}}
    \cup {Nodes!Shadowsocks(m, "u", "none", "none") : m \in {"aes-128-gcm", "aes-128-cfb"}}
    \cup {Nodes!Shadowsocks("aes-128-gcm", "u", "a", "o")}
    \cup {Nodes!Hysteria2("u", up, down, obfs) : up \in {-1, 5}, down \in {-1, 5}, obfs \in {"none", "a"}}
    \cup {Nodes!Tuic("u", "p", c) : c \in {"bbr", "cubic"}}
    \cup {Nodes!WireGuard("u", "p", r) : r \in {"none", "three"}}
    \cup {Nodes!UserPassword(l, u, p) : l \in {"http", "socks5"}, u, p \in {"none", "a"}}
    \cup {[label |-> "shadow-tls", password |-> "u", version |-> v, sni |-> sni] : v \in {1, 3}, sni \in {"none", "a"}}
    \cup {[label |-> "anytls", password |-> "u", sni |-> sni] : sni \in {"none", "a"}}
MCNode(name, host, protocol, transport, tls) == Nodes!Build(name, host, 1, protocol, transport, tls)
MCBuilt == {MCNode("n", "h", p, t, tls) : p \in {Nodes!Vless("u", "none"), Nodes!Hysteria2("u", 5, -1, "none")},
                                          t \in MCTransports, tls \in MCTls}
           \cup {MCNode(name, host, p, t, tls) : name \in {"n", "m"}, host \in {"h", "a"}, p \in MCProtocols,
                     t \in {Nodes!NoTransport, Nodes!Grpc("p")},
                     tls \in {Nodes!NoTls, Nodes!Tls("a", <<>>, FALSE, "none", Nodes!NoReality)}}
\* One node of each shape to compare the others with.
MCPeers == {n \in MCBuilt : n.host = "h" /\ n.name = "n" /\ (n.tls.on => n.tls.alpn = <<>> /\ ~ n.tls.insecure)}

With(f, key, values) == UNION {{[k \in DOMAIN g \cup {key} |-> IF k = key THEN v ELSE g[k]] : v \in values} : g \in f} \cup f
MCEntryBase == [type : {"vless", "vmess", "trojan", "hysteria2", "hy2", "tuic", "http", "socks5", "other"}, name : {"n", ""},
                server : {"h"}, port : {0, 80, 443}, tls : BOOLEAN]
MCSsEntries == [type : {"ss"}, name : {"n", ""}, server : {"h", "with space", "ipv6"}, port : {0, 80}, tls : {FALSE}]
MCHostEntries == [type : {"vless", "vmess", "trojan", "tuic", "http", "socks5"}, name : {"n"},
                  server : {"H", "ipv6", "non-ascii", "with space"}, port : {8080}, tls : BOOLEAN,
                  uuid : {"u"}, password : {"u"}]
MCEntries == With(With(With(With(With(With(MCEntryBase, "uuid", {"u", "long"}), "password", {"u"}), "network", {"tcp", "ws", "grpc", "quic"}),
                            "servername", {"a", "long"}), "flow", {"a"}), "host_header", {"a"})
             \cup MCHostEntries
             \cup With(With(MCSsEntries, "cipher", {"aes-128-gcm", "rc4"}), "password", {"", "long", "u"})

-----------------------------------------------------------------------------
(* Subscriptions.                                                           *)

SNode(id, name) == [id |-> id, name |-> name, dialer |-> 0]
SLine(indent, dash, word, frag, node) == [indent |-> indent, dash |-> dash, word |-> word, frag |-> frag, node |-> node]
MCNoise == {SLine(FALSE, FALSE, word, FALSE, Subs!NoNode) : word \in {"", "#", "text", "long", "{"}}
MCKeys == {SLine(indent, FALSE, word, FALSE, Subs!NoNode) : indent \in BOOLEAN, word \in {"proxies", "servers"}}
MCUris == {SLine(FALSE, FALSE, word, FALSE, node) : word \in {"vless"}, node \in {SNode(1, "a"), SNode(2, "a"), Subs!NoNode}}
          \cup {SLine(FALSE, FALSE, "http", frag, SNode(3, "b")) : frag \in BOOLEAN}
          \cup {SLine(FALSE, FALSE, "ssr", FALSE, Subs!NoNode)}
MCItems == {SLine(TRUE, TRUE, word, FALSE, node) : word \in {"server", "name"}, node \in {SNode(1, "a"), SNode(2, "b"), Subs!NoNode}}
           \cup {SLine(TRUE, FALSE, "method", FALSE, Subs!NoNode)}
SBody(size, utf8, lines, decoded) == [size |-> size, utf8 |-> utf8, lines |-> lines, decoded |-> decoded]
MCBodies == {SBody("ok", TRUE, lines, <<>>) : lines \in SeqOf(MCNoise \cup MCKeys \cup MCUris \cup MCItems, 3)}
            \cup {SBody("ok", TRUE, lines, <<>>) : lines \in {l \in SeqOf(MCUris, 4) : Len(l) = 4}}
            \cup {SBody(size, utf8, <<>>, <<>>) : size \in {"ok", "huge", "empty"}, utf8 \in BOOLEAN}
MCChains == UNION {{[i \in 1 .. n |-> [id |-> i, name |-> "a", dialer |-> next[i]]] : next \in [1 .. n -> 0 .. n + 1]} : n \in 1 .. 4}
MCClashGroups == [name : {"g", "h"}, type : {"select", "url-test"}, members : {<<>>, <<"h">>, <<"x", "DIRECT">>, <<"">>,
                  <<"g", "h", "REJECT">>}, url : {"none", "bad"}, interval : {-1}]
MCClash == [proxies : SeqOf([name : {"n"}, parses : BOOLEAN], 1), groups : SeqOf(MCClashGroups, 2),
            rules : SeqOf([parses : {TRUE}, policy : {"g", "n", "DIRECT", "x"}], 1) \cup {<<[parses |-> FALSE, policy |-> "g"]>>}]
MCQuotas == SeqOf({"upload", "download", "total"} \X {-1, 0, 1, 2}, 3)

-----------------------------------------------------------------------------
(* The wire.                                                                *)

WNodes == SeqOf([id : {1}, name : {1, 3}, protocol : {1, 2}, available : {TRUE}, latency : {-1, 7}], 2)
WApplied == {a \in [core : {"None", "Mihomo", "SingBox", "Xray"}, run : DOMAIN Wire!RunCode, node : {"None", "n"}, generation : {-1, 3}] :
               Wire!AppliedOk(a)}
MCSnapshots ==
    [daemon : {"d"}, revision : {4}, cursor : {[daemon |-> "d", sequence |-> 4]}, observed : {[upload |-> 1, restarts |-> 2]},
     desired : [mode : DOMAIN Wire!ModeCode, node : {"None"}, subscription : {"s"}, tun : {TRUE}, proxy : {FALSE}],
     applied : {a \in WApplied : a.run # "Stopped" => a.generation = 3 /\ a.node = "n"}, platform : [proxy : {TRUE}, tun : {FALSE}, pending : {TRUE}, reason : {-1, 2}],
     capabilities : {Wire!CoreCapabilitySet(core, dns) : core \in {"Mihomo", "SingBox", "Xray"}, dns \in {TRUE}},
     nodes : {<<>>} \cup {n \in WNodes : Len(n) = 2 /\ n[1].latency = 7 /\ n[1].protocol = n[2].protocol},
     groups : {<<>>, <<"g", "h", "i">>}]
MCFailures == {<<>>} \cup {<<f>> : f \in [code : DOMAIN Wire!FailureCode, message : {1, 3}, action : {1, 3}]}
MCStatuses == [kind : {1, 2}, state : DOMAIN Wire!StateCode, created : {0, 1}, updated : {0, 1, 2}, failure : MCFailures]
MCFrames == [payloads : SeqOf({<<>>, <<0>>, <<1, 0>>, <<1, 1, 1>>, <<0, 0, 0, 0>>}, 3), cut : 0 .. 15, ceiling : 0 .. 3]
MCHex == SeqOf([digit : -1 .. 15, upper : BOOLEAN], 3)
MCHandshakes == [version : [major : {1, 2}, minor : {0, 1}], own : [major : {2}, minor : {0, 1}],
                 requested : SeqOf({1, 2, 9}, 3), supported : SeqOf({1, 2, 5}, 2)]
MCVerbs == [verb : {"mode", "switch-core", "core"}, word : {"", "rule", "global", "direct", "mihomo", "sing-box", "xray", "x"},
            action : DOMAIN Wire!ActionCode, active : {"None", "Mihomo", "SingBox"}, env : {"", "xray", "x"}]
MCWidths == SeqOf({1, 2, 3, 4}, 4)

-----------------------------------------------------------------------------

-----------------------------------------------------------------------------
(* Answers of a kernel's controller.                                        *)

MCTalk == [connect |-> "ok", reads |-> <<"bytes">>, utf8 |-> TRUE, status |-> 200, chunked |-> FALSE,
           json |-> TRUE, delay |-> 1]
MCAnswers == {MCTalk, [MCTalk EXCEPT !.delay = 3], [MCTalk EXCEPT !.status = 404], [MCTalk EXCEPT !.status = 503],
              [MCTalk EXCEPT !.reads = <<"bytes", "cut">>], [MCTalk EXCEPT !.utf8 = FALSE],
              [MCTalk EXCEPT !.connect = "refused"], [MCTalk EXCEPT !.chunked = TRUE],
              [MCTalk EXCEPT !.reads = <<"late", "bytes">>, !.delay = -1]}
MCTalks == [talks : [1..4 -> MCAnswers], asked : {-1, 0, 2}]
MCPieces == SeqOf({"1", "r", "n"}, 2) \ {<<>>}
MCChunks == [texts : SeqOf(MCPieces, 2), extension : {<<>>, <<";", "1">>}]
MCHalves == <<Kernel!Half(0, TRUE)>> \o
            [i \in 1..6 |-> Kernel!Half((i + 1) \div 2, i % 2 = 0)]
Cuts(cuts) ==
    LET ends == cuts \cup {7}
        nth(i) == CHOOSE e \in ends \cup {0} : Cardinality({x \in ends : x <= e}) = i
    IN  [i \in 1..Cardinality(ends) |-> SubSeq(MCHalves, nth(i - 1) + 1, nth(i))]
MCStreams == [reads : {Cuts(cuts) : cuts \in SUBSET (1..6)},
              frames : [1..3 -> [down : {0, 2, 3}, total : {-1}]] \cup [1..3 -> [down : {2}, total : {4, 6}]]]
MCKernelProxies == [{"A", "B", "n"} -> [type : {"Selector", "URLTest", "Direct", "Vless"}, now : {"n"},
                                      all : {<<>>, <<"n", "direct">>, <<"A", "m">>, <<"">>}]]
MCConnections == [host : {"none", "", "h"}, ip : {"none", "i"}, metaOutbound : {"none", "x"}, topOutbound : {"y"},
                  metaChain : {<<>>, <<"g">>}, topChain : {<<"t">>}, upload : {-1, 0, 5}, download : {0, 4}]

-----------------------------------------------------------------------------

Give(of, inputs) == subject = of /\ given' = TRUE /\ input' \in inputs
Given(of) == subject = of /\ given

Subjects ==
    {"edit", "load", "schema", "route", "dns", "args", "alias", "leaf", "pick", "import", "declared", "diff",
     "text", "node", "entry", "body", "chain", "clash", "quota", "snapshot", "status", "frames", "hex", "hello",
     "verb", "widths", "talks", "samples", "chunks", "stream", "proxies", "connections"}

DocumentsInit ==
    /\ given = FALSE
    /\ input = <<>>
    /\ subject \in Subjects

Present ==
    /\ ~ given
    /\ UNCHANGED subject
    /\ \/ Give("edit", MCEdits)
       \/ Give("load", MCLoads)
       \/ Give("schema", MCConfigs)
       \/ Give("route", MCPlans)
       \/ Give("dns", MCSections)
       \/ Give("args", [args : MCArgs, entries : MCTables])
       \/ Give("alias", Cli!DEPRECATED)
       \/ Give("leaf", MCCommands)
       \/ Give("pick", MCPicks)
       \/ Give("import", MCImports)
       \/ Give("declared", MCDeclared)
       \/ Give("diff", MCDiffs)
       \/ Give("text", MCTexts)
       \/ Give("node", MCBuilt)
       \/ Give("entry", MCEntries)
       \/ Give("body", MCBodies)
       \/ Give("chain", MCChains)
       \/ Give("clash", MCClash)
       \/ Give("quota", MCQuotas)
       \/ Give("snapshot", MCSnapshots)
       \/ Give("status", MCStatuses)
       \/ Give("frames", MCFrames)
       \/ Give("hex", MCHex)
       \/ Give("hello", MCHandshakes)
       \/ Give("verb", MCVerbs)
       \/ Give("widths", MCWidths)
       \/ Give("talks", MCTalks)
       \/ Give("samples", SeqOf({0, 1, 2, 5, 9}, 4) \ {<<>>})
       \/ Give("chunks", MCChunks)
       \/ Give("stream", MCStreams)
       \/ Give("proxies", MCKernelProxies)
       \/ Give("connections", SeqOf(MCConnections, 2))

\* The answer is given and the algorithm is free for another input.
Answer ==
    /\ given
    /\ given' = FALSE
    /\ input' = <<>>
    /\ UNCHANGED subject

DocumentsSpec == DocumentsInit /\ [][Present \/ Answer]_documentVars

(***************************************************************************)
(* Properties                                                              *)
(***************************************************************************)
\* edit_yaml_list leaves the list that was asked for, every other key as it was,
\* and the foreign lines of a surgical edit in place.
EditsAreExact ==
    Given("edit") =>
        LET edited == EditYamlList(input.original, input.keyPath, input.after)
        IN  EditExact(input, edited) /\ ForeignLinesKept(input, edited)

\* load_layered_yaml_with: the last layer that has a path decides it.
LayersWin == Given("load") => LastLayerWins(input, LoadLayered(input), MCPaths)

\* validate accepts exactly the configurations whose references resolve without
\* cycles.
SchemaDecides == Given("schema") => AcceptedIsResolvable(input, Validate(input))

\* The two kernels' documents route alike, what config.yaml says comes first,
\* and the outbounds that rules and complete groups name are there.
RoutingAgrees ==
    Given("route") =>
        LET rendered == RenderedRouting(input)
        IN  RoutesAgree(input, rendered) /\ ConfigComesFirst(input, rendered) /\ SingBoxResolves(input, rendered)

\* The DNS sections that are rendered work.
DnsWorks == Given("dns") => DnsUsable(input, DnsSections(input))

\* Aliases of the user and of earlier releases expand once, to commands that
\* exist, and touch neither global flags nor operands.
SpellingsAgree ==
    /\ Given("args") => Cli!ExpansionStable(input.args, Cli!LoadFrom(input.entries))
    /\ Given("alias") => Cli!AliasLeads(input)

\* Without --apply, or with --dry-run, no command writes, but for the default
\* layout of a fresh install; one that writes is in the operation log; a pick
\* names exactly one member of a selector.
CommandsAreCareful ==
    /\ Given("leaf") =>
          /\ Cli!NoApplyNoWrite(input.at[1], input.at[2], input.flags, input.target, input.options)
          /\ Cli!WritesAreRecorded(input.at[1], input.at[2], input.flags, input.target, input.options)
    /\ Given("pick") => \A member \in MCSpellings :
          Cli!PickIsUnambiguous(<<[name |-> GroupG("u"), kind |-> input.kind, members |-> input.members]>>,
                                GroupG("l"), member)

\* The printed trees list every node once, with its groups and its cycles.
TreesAddUp ==
    /\ Given("import") =>
          LET nodes == Views!NodeKinds(input.proxies)
          IN  Views!TreeAddsUp(nodes, Views!FromClashImport(input)) /\ Views!TreeAddsUp(nodes, Views!FromUriNodes(nodes))
    /\ Given("declared") =>
          Views!TreeAddsUp(Views!DeclaredGroups(input, TRUE).nodes, Views!RenderDeclaredTree(input, TRUE))

\* config diff shows a change exactly when there is one.
DiffsShowChange ==
    /\ Given("text") => Views!LineDiffReplays(input.left, input.right)
    /\ Given("diff") => Views!PlanShowsChange(input.left, input.right)

\* A node's identity is its server and how it is dialled, in every format.
NodesKeepIdentity ==
    /\ Given("node") => \A peer \in MCPeers : Nodes!IdentityIsExact(input, peer)
    /\ Given("entry") => Nodes!FormatsAgree(input)

\* The two kernels dial a node alike.
KernelsAgreeOnNodes == Given("node") => Nodes!KernelsDialAlike(input)

\* A subscription loses nothing uncounted, plain or in base64.
SubscriptionsAccount ==
    /\ Given("body") => Subs!WrappingIsTransparent(input) /\ Subs!PipelineAccounts(input)
    /\ Given("quota") => Subs!QuotaAddsUp(input)

\* Dialer chains and Clash routing that are accepted are closed.
ReferencesClosed ==
    /\ Given("chain") => Subs!ChainVerdict(input)
    /\ Given("clash") => Subs!RoutingClosed(input)

\* Snapshots, events, statuses, identities, commands and errors mean the same
\* on both sides of the control protocol.
WireKeepsMeaning ==
    /\ Given("snapshot") => Wire!SnapshotSurvives(input) /\ Wire!SectionsAgree(input)
    /\ Given("status") => Wire!StatusSurvives(input)
    /\ Given("hex") => Wire!IdentitySurvives(input)
    /\ Given("hello") => Wire!HandshakeAgrees(input.version, input.requested, input.own, input.supported)
    /\ Given("verb") => 
          /\ Wire!WordsReachTheCore(input.verb, input.word, input.action, input.active, input.env)
          /\ Wire!ErrorsKeepMeaning

\* A stream cut anywhere yields whole frames in order.
StreamsKeepFrames == Given("frames") => Wire!FramesAreWhole(input.payloads, input.cut, input.ceiling)

\* A latency probe tells a dead node from a refused name and a broken controller,
\* and its summaries agree.
ProbesAreTruthful ==
    /\ Given("talks") => Kernel!ProbeIsTruthful(input.talks, 2, input.asked)
    /\ Given("samples") => Kernel!SummariesAgree(input)

\* What a controller sends is read whole, once and alike by every reader.
AnswersAreRead ==
    /\ Given("chunks") => Kernel!ChunksAreWhole(input.texts, input.extension)
    /\ Given("stream") => Kernel!TrafficIsCounted(input.reads, input.frames)
    /\ Given("proxies") => Kernel!ProxiesAgree(input)
    /\ Given("connections") => Kernel!ConnectionsAgree(input)
    /\ Given("widths") => Kernel!FailuresKeepCharacters(input)

\* An edit or a load of the configuration keeps what it does not change, lets the
\* last layer win and accepts what resolves: EditsAreExact, LayersWin, SchemaDecides.
ConfigDocumentsExact == [][Answer => EditsAreExact /\ LayersWin /\ SchemaDecides]_documentVars

\* What the two kernels are given says the same: RoutingAgrees, DnsWorks,
\* KernelsAgreeOnNodes, ReferencesClosed.
KernelDocumentsAgree == [][Answer => RoutingAgrees /\ DnsWorks /\ KernelsAgreeOnNodes /\ ReferencesClosed]_documentVars

\* A command line means one thing and writes only when told to, and what it prints
\* of groups, nodes and changes is complete: SpellingsAgree, CommandsAreCareful,
\* TreesAddUp, DiffsShowChange.
CommandLineFaithful == [][Answer => SpellingsAgree /\ CommandsAreCareful /\ TreesAddUp /\ DiffsShowChange]_documentVars

\* Nodes and subscriptions keep their identity and lose nothing uncounted:
\* NodesKeepIdentity, SubscriptionsAccount.
NodesAccounted == [][Answer => NodesKeepIdentity /\ SubscriptionsAccount]_documentVars


\* Clamping a text, such as what a kernel's validation printed, never aborts the
\* daemon.
ClampIsTotal == Given("widths") =>
    Wire!ClampNeverAborts(Kernel!Validate([code |-> 1, stderr |-> input, stdout |-> <<1>>]).diagnostic)
=============================================================================
