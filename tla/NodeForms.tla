----------------------------- MODULE NodeForms -----------------------------
(***************************************************************************)
(* A proxy node from its share link or Clash entry to its identity and to  *)
(* the two kernels' documents: crates/caly-subscription/src (uri.rs,       *)
(* special_uri.rs, clash.rs, sip008.rs), crates/caly-domain/src/node and   *)
(* crates/caly-coreconf/src (sing_box/node.rs, mihomo/render.rs).          *)
(*                                                                         *)
(* A link or entry is a function from the names of its parameters to their *)
(* values; an absent parameter is "none".  Texts are "" when empty and     *)
(* "long" when they exceed their bound; both are refused by BoundedText    *)
(* and SecretText.                                                         *)
(***************************************************************************)
EXTENDS Integers, Sequences, FiniteSets, SequencesExt

Rejected == [rejected |-> TRUE]
IsNode(node) == node # Rejected
Get(form, key) == IF key \in DOMAIN form THEN form[key] ELSE "none"
Given(form, key) == key \in DOMAIN form
Either(a, b) == IF a # "none" THEN a ELSE b
Text(v) == v \notin {"", "long", "none"}
OptText(v) == v \notin {"", "long"}

-----------------------------------------------------------------------------
(* Building a node.                                                         *)

\* EndpointHost::new and NonZeroU16: ASCII without white space, in lower case, a
\* port.
Lowered(host) == IF host = "H" THEN "h" ELSE host
EndpointOk(host, port) == Text(host) /\ host \notin {"non-ascii", "with space"} /\ port \in 1 .. 65535

\* validation::validate; the builder sets no tags.
ValidProtocol(protocol) ==
    CASE protocol.label = "hysteria2" -> protocol.up # 0 /\ protocol.down # 0
      [] protocol.label = "shadow-tls" -> protocol.version \in 1 .. 3
      [] OTHER -> TRUE

\* sanitized_display_name drops control characters; nothing may be left.
NameOk(name) == Text(name) /\ name # "control"

Build(name, host, port, protocol, transport, tls) ==
    IF /\ NameOk(name) /\ EndpointOk(host, port)
       /\ Rejected \notin {protocol, transport, tls}
       /\ ValidProtocol(protocol)
    THEN [name |-> name, host |-> Lowered(host), port |-> port, protocol |-> protocol, transport |-> transport, tls |-> tls]
    ELSE Rejected

NoTransport == [kind |-> "none"]
NoTls == [on |-> FALSE]
Tls(sni, alpn, insecure, fingerprint, reality) ==
    [on |-> TRUE, sni |-> sni, alpn |-> alpn, insecure |-> insecure, fingerprint |-> fingerprint, reality |-> reality]
NoReality == [key |-> "none", sid |-> "none", spx |-> "none"]

WebSocket(path, host, header, early) ==
    IF Text(path) /\ OptText(host) /\ OptText(header)
    THEN [kind |-> "ws", path |-> path, host |-> host, header |-> header, early |-> early] ELSE Rejected
Grpc(service) == IF Text(service) THEN [kind |-> "grpc", service |-> service] ELSE Rejected
Http2(path, hosts) ==
    IF Text(path) /\ \A i \in DOMAIN hosts : Text(hosts[i]) THEN [kind |-> "h2", path |-> path, hosts |-> hosts]
    ELSE Rejected
PlainTransport(kind) == [kind |-> kind]

Congestion(v) == CASE v \in {"none", "bbr"} -> "bbr" [] v = "cubic" -> "cubic"
                   [] v \in {"new_reno", "new-reno"} -> "new_reno" [] OTHER -> "bad"

ShadowsocksCiphers == {"aes-128-gcm", "aes-256-gcm", "chacha20-ietf-poly1305", "xchacha20-ietf-poly1305",
                       "aes-128-cfb", "aes-256-cfb", "none-cipher"}

Vless(user, flow) == IF Text(user) /\ OptText(flow) THEN [label |-> "vless", user |-> user, flow |-> flow] ELSE Rejected
Trojan(password) == IF Text(password) THEN [label |-> "trojan", password |-> password] ELSE Rejected
Shadowsocks(method, password, plugin, options) ==
    IF method \in ShadowsocksCiphers /\ Text(password)
    THEN [label |-> "shadowsocks", method |-> method, password |-> password, plugin |-> plugin, options |-> options]
    ELSE Rejected
Hysteria2(password, up, down, obfs) ==
    IF Text(password) /\ OptText(obfs)
    THEN [label |-> "hysteria2", password |-> password, up |-> up, down |-> down, obfs |-> obfs] ELSE Rejected
Tuic(user, password, congestion) ==
    IF Text(user) /\ Text(password) /\ congestion # "bad"
    THEN [label |-> "tuic", user |-> user, password |-> password, congestion |-> congestion] ELSE Rejected
WireGuard(private, public, reserved) ==
    IF Text(private) /\ Text(public)
    THEN [label |-> "wireguard", private |-> private, public |-> public, reserved |-> reserved] ELSE Rejected
UserPassword(label, user, password) ==
    IF OptText(user) /\ OptText(password) THEN [label |-> label, user |-> user, password |-> password] ELSE Rejected
Vmess(user, alterId, cipher) ==
    IF Text(user) /\ cipher # "bad" THEN [label |-> "vmess", user |-> user, alterId |-> alterId, cipher |-> cipher]
    ELSE Rejected

-----------------------------------------------------------------------------
(* Share links: uri.rs.                                                     *)

\* Optional numbers are -1 when absent; a value that is no number is refused.
UriNumber(uri, key) == IF Given(uri, key) THEN uri[key] ELSE -1

UriTransport(uri) ==
    LET kind == Either(Get(uri, "type"), Get(uri, "network"))
        early == UriNumber(uri, "ed")
    IN  CASE kind \in {"none", "tcp"} -> PlainTransport("tcp")
          [] kind \in {"ws", "websocket"} ->
               WebSocket(Either(Get(uri, "path"), "/"), Get(uri, "host_header"),
                         IF early > 0 THEN Either(Get(uri, "eh"), "Sec-WebSocket-Protocol") ELSE "none",
                         IF early > 0 THEN early ELSE 0)
          [] kind = "grpc" -> Grpc(Either(Either(Get(uri, "serviceName"), Get(uri, "service-name")), "grpc"))
          [] kind = "httpupgrade" ->
               Http2(Either(Get(uri, "path"), "/"), IF Given(uri, "host_header") THEN <<uri["host_header"]>> ELSE <<>>)
          [] kind = "quic" -> PlainTransport("quic")
          [] OTHER -> Rejected

UriProtocol(uri) ==
    LET user == Get(uri, "user")
        password == Get(uri, "password")
    IN  CASE uri.scheme = "vless" -> Vless(user, Get(uri, "flow"))
          [] uri.scheme = "trojan" -> Trojan(user)
          [] uri.scheme \in {"hysteria2", "hy2"} ->
               Hysteria2(user, UriNumber(uri, "upmbps"), UriNumber(uri, "downmbps"), Get(uri, "obfs-password"))
          [] uri.scheme = "tuic" -> Tuic(user, password, Congestion(Get(uri, "congestion_control")))
          [] uri.scheme = "wireguard" -> WireGuard(Get(uri, "private-key"), Get(uri, "public-key"), "none")
          [] uri.scheme \in {"http", "https"} -> UserPassword("http", user, password)
          [] uri.scheme \in {"socks", "socks5"} -> UserPassword("socks5", user, password)
          [] OTHER -> Rejected

\* tls: only security=tls, security=reality and https carry a TLS section.
UriTls(uri) ==
    LET security == Get(uri, "security")
        sni == Either(Get(uri, "sni"), Get(uri, "peer"))
        reality == IF security # "reality" THEN NoReality
                   ELSE [key |-> Get(uri, "pbk"), sid |-> Get(uri, "sid"), spx |-> Get(uri, "spx")]
        alpn == IF Given(uri, "alpn") THEN uri["alpn"] ELSE <<>>
    IN  IF security \notin {"tls", "reality"} /\ uri.scheme # "https" THEN NoTls
        ELSE IF /\ OptText(sni) /\ OptText(Get(uri, "fp")) /\ OptText(reality.sid) /\ OptText(reality.spx)
                /\ (security = "reality" => Text(reality.key))
                /\ \A i \in DOMAIN alpn : Text(alpn[i])
             THEN Tls(sni, alpn, Get(uri, "allowInsecure") \in {"1", "true", "yes"}, Get(uri, "fp"), reality)
             ELSE Rejected

\* endpoint: the URL library hides the default port of its own schemes.
UriPort(uri) == IF <<uri.scheme, uri.port>> \in {<<"http", 80>>, <<"https", 443>>} THEN 0 ELSE uri.port

\* host_str of the URL library: an IPv6 address keeps the brackets a link writes it
\* in, a name that is not ASCII is encoded.
HostStr(scheme, host) ==
    CASE host = "ipv6" -> "[ipv6]"
      [] host = "non-ascii" -> IF scheme \in {"http", "https"} THEN "punycode" ELSE "percent"
      [] OTHER -> host

\* display_name: the fragment, or the scheme and host.
ParseProxyUri(uri) ==
    Build(IF Get(uri, "fragment") \in {"none", ""} THEN "scheme-host" ELSE uri["fragment"],
          HostStr(uri.scheme, uri.host), UriPort(uri), UriProtocol(uri), UriTransport(uri), UriTls(uri))

-----------------------------------------------------------------------------
(* vmess and Shadowsocks links: special_uri.rs.                             *)

\* json_optional_text: an empty text is as good as none.
Json(form, key) == IF Given(form, key) /\ form[key] # "" THEN form[key] ELSE "none"

VmessCipher(v) == CASE v \in {"none", "auto"} -> "auto" [] v \in {"aes-128-gcm", "chacha20-poly1305"} -> v
                    [] v \in {"none-cipher", "zero"} -> "none-cipher" [] OTHER -> "bad"

\* A list is written with commas.
Labels(v) == CASE v = "none" -> <<>> [] v = "a,b" -> <<"a", "b">> [] OTHER -> <<v>>

VmessTransport(form) ==
    LET net == Json(form, "net")
    IN  CASE net \in {"none", "tcp"} -> PlainTransport("tcp")
          [] net = "ws" -> WebSocket(Either(Json(form, "path"), "/"), Json(form, "host_header"), "none", 0)
          [] net = "grpc" -> Grpc(Either(Json(form, "path"), "grpc"))
          [] net \in {"http", "h2"} ->
               Http2(Either(Json(form, "path"), "/"), Labels(Json(form, "host_header")))
          [] OTHER -> Rejected

\* vmess_tls: the server name falls back to the host header.
VmessTls(form) ==
    LET sni == Either(Json(form, "sni"), Json(form, "host_header"))
    IN  IF Json(form, "tls") \notin {"tls", "reality"} THEN NoTls
        ELSE IF OptText(sni) /\ OptText(Json(form, "alpn"))
             THEN Tls(sni, Labels(Json(form, "alpn")), FALSE, "none", NoReality)
             ELSE Rejected

\* parse_vmess: base64 of a JSON object.
ParseVmess(form) ==
    Build(Either(Json(form, "ps"), "vmess"), form.host, form.port,
          Vmess(Json(form, "id"), IF Given(form, "aid") THEN form["aid"] ELSE 0, VmessCipher(Json(form, "scy"))),
          VmessTransport(form), VmessTls(form))

\* parse_shadowsocks: the credential may be base64, percent-encoded base64 or
\* plain; a plugin needs a name and options.
ParseShadowsocks(form) ==
    LET plugin == Get(form, "plugin")
        options == IF plugin = "none" THEN "none" ELSE Either(Get(form, "plugin-opts"), "")
    IN  IF ~ form.decodes \/ ~ OptText(plugin) \/ ~ OptText(options) THEN Rejected
        ELSE Build(Either(Json(form, "fragment"), "shadowsocks"), HostStr("ss", form.host), form.port,
                   Shadowsocks(Get(form, "method"), Get(form, "password"), plugin, options), NoTransport, NoTls)

\* parse_any_proxy_uri.
ParseAnyProxyUri(uri) ==
    CASE uri.scheme = "vmess" -> ParseVmess(uri)
      [] uri.scheme = "ss" -> ParseShadowsocks(uri)
      [] OTHER -> ParseProxyUri(uri)

\* sip008.rs parse_entry: an empty "remarks" hides a "remark".
ParseSip008Entry(form) ==
    LET name == Either(Get(form, "remarks"), Get(form, "remark"))
    IN  Build(IF name \in {"none", ""} THEN "host-port" ELSE name, form.host, form.port,
              Shadowsocks(Get(form, "method"), Get(form, "password"), "none", "none"), NoTransport, NoTls)

-----------------------------------------------------------------------------
(* Clash entries: clash.rs.                                                 *)

ClashTransport(proxy) ==
    LET network == Get(proxy, "network")
    IN  CASE network \in {"none", "tcp"} -> PlainTransport("tcp")
          [] network = "ws" -> WebSocket(Either(Get(proxy, "path"), "/"), Get(proxy, "host_header"), "none", 0)
          [] network = "grpc" -> Grpc(Either(Get(proxy, "grpc-service-name"), "grpc"))
          [] network = "quic" -> PlainTransport("quic")
          [] OTHER -> Rejected

ClashTls(proxy) ==
    LET sni == Either(Get(proxy, "servername"), Get(proxy, "sni"))
    IN  CASE ~ proxy.tls -> NoTls
          [] proxy.tls /\ OptText(sni) -> Tls(sni, <<>>, FALSE, "none", NoReality)
          [] OTHER -> Rejected

ClashProtocol(proxy) ==
    LET secret(key) == Get(proxy, key)
        number(key) == IF Given(proxy, key) THEN proxy[key] ELSE -1
    IN  CASE proxy.type = "vmess" -> Vmess(secret("uuid"), IF Given(proxy, "alterId") THEN proxy["alterId"] ELSE 0, "auto")
          [] proxy.type = "vless" -> Vless(secret("uuid"), Get(proxy, "flow"))
          [] proxy.type = "trojan" -> Trojan(secret("password"))
          [] proxy.type \in {"ss", "shadowsocks"} ->
               Shadowsocks(Get(proxy, "cipher"), secret("password"), "none", "none")
          [] proxy.type \in {"hysteria2", "hy2"} ->
               Hysteria2(secret("password"), number("up"), number("down"), secret("obfs-password"))
          [] proxy.type = "tuic" ->
               Tuic(secret("uuid"), secret("password"), Congestion(Get(proxy, "congestion-controller")))
          [] proxy.type = "wireguard" ->
               IF Given(proxy, "reserved") /\ proxy["reserved"] # "three" THEN Rejected
               ELSE WireGuard(secret("private-key"), secret("public-key"), Get(proxy, "reserved"))
          [] proxy.type = "http" -> UserPassword("http", secret("username"), secret("password"))
          [] proxy.type \in {"socks5", "socks"} -> UserPassword("socks5", secret("username"), secret("password"))
          [] OTHER -> Rejected

ConvertProxy(proxy) ==
    Build(proxy.name, proxy.server, proxy.port, ClashProtocol(proxy), ClashTransport(proxy), ClashTls(proxy))

-----------------------------------------------------------------------------
(* Identity: canonical/mod.rs and canonical/protocol_encode.rs feed a hash  *)
(* with length-prefixed items; the hash is taken to be injective.  The     *)
(* place of an item fixes what it is, so an item carries its type.          *)

Item(type, v) == <<type, v>>
Optional_Bare(v) == IF v = "none" THEN <<>> ELSE <<Item("text", v)>>

Optional(v) == IF v = "none" THEN <<Item("u8", 0)>> ELSE <<Item("u8", 1), Item("text", v)>>
OptionalNumber(n) == IF n = -1 THEN <<Item("u8", 0)>> ELSE <<Item("u8", 1), Item("u32", n)>>
Listed(seq) == <<Item("u32", Len(seq))>> \o [i \in DOMAIN seq |-> Item("text", seq[i])]

EncodeProtocol(p) ==
    <<Item("text", p.label)>> \o
    (CASE p.label = "vmess" -> <<Item("text", p.user), Item("u16", p.alterId), Item("cipher", p.cipher)>>
       [] p.label = "vless" -> <<Item("text", p.user)>> \o Optional(p.flow)
       [] p.label = "trojan" -> <<Item("text", p.password)>>
       [] p.label = "shadowsocks" -> <<Item("cipher", p.method), Item("text", p.password)>> \o
              (IF p.plugin = "none" THEN <<Item("u8", 0)>>
               ELSE <<Item("u8", 1), Item("text", p.plugin), Item("text", p.options)>>)
       [] p.label = "hysteria2" -> <<Item("text", p.password)>> \o OptionalNumber(p.up) \o OptionalNumber(p.down) \o
              Optional(p.obfs)
       [] p.label = "tuic" -> <<Item("text", p.user), Item("text", p.password), Item("cipher", p.congestion)>>
       [] p.label = "wireguard" -> <<Item("text", p.private), Item("text", p.public)>> \o Optional(p.reserved)
       [] p.label = "shadow-tls" -> <<Item("text", p.password), Item("u8", p.version)>> \o Optional(p.sni)
       [] p.label = "anytls" -> <<Item("text", p.password)>> \o Optional(p.sni)
       [] p.label \in {"http", "socks5"} -> Optional(p.user) \o Optional(p.password))

\* A WebSocket without early data writes a zero, one with it a header and a size.
EncodeTransport(t) ==
    IF t.kind = "none" THEN <<Item("u8", 0)>>
    ELSE <<Item("u8", 1), Item("text", t.kind)>> \o
         (CASE t.kind = "ws" -> <<Item("text", t.path)>> \o Optional(t.host) \o
                 (IF t.early = 0 THEN <<Item("u32", 0)>> ELSE <<Item("text", t.header), Item("u32", t.early)>>)
            [] t.kind = "grpc" -> <<Item("text", t.service)>>
            [] t.kind = "h2" -> <<Item("text", t.path)>> \o Listed(t.hosts)
            [] OTHER -> <<>>)

EncodeTls(tls) ==
    IF ~ tls.on THEN <<Item("u8", 0)>>
    ELSE <<Item("u8", 1)>> \o Optional(tls.sni) \o Listed(tls.alpn) \o <<Item("bool", tls.insecure)>> \o
         Optional(tls.fingerprint) \o
         (IF tls.reality.key = "none" THEN <<Item("u8", 0)>>
          ELSE <<Item("u8", 1), Item("text", tls.reality.key)>> \o Optional(tls.reality.sid) \o Optional(tls.reality.spx))

\* node_id: the display name, the source and the tags are no part of it, and
\* no builder sets a dialer proxy.
NodeId(node) ==
    <<Item("text", node.host), Item("u16", node.port)>> \o EncodeProtocol(node.protocol) \o
    EncodeTransport(node.transport) \o EncodeTls(node.tls)

-----------------------------------------------------------------------------
(* The kernels' documents.  A field that a document leaves out is "none".   *)

\* sing_box_fingerprint: an unknown browser is a random one.
SingBoxFingerprint(label) ==
    IF label \in {"none", "chrome", "firefox", "safari", "ios", "edge", "random", "randomized"} THEN label ELSE "random"

\* tls_json_from: no alpn, no spider path.
TlsJson(tls) ==
    IF ~ tls.on THEN [enabled |-> FALSE]
    ELSE [enabled |-> TRUE, insecure |-> tls.insecure, key |-> tls.reality.key, sid |-> tls.reality.sid,
          server_name |-> tls.sni, utls |-> SingBoxFingerprint(tls.fingerprint)]

TlsOrHostFallback(node) ==
    IF node.tls.on THEN TlsJson(node.tls)
    ELSE [enabled |-> TRUE, insecure |-> FALSE, key |-> "none", sid |-> "none", server_name |-> node.host, utls |-> "none"]

\* transport_json: TCP is the absence of a transport; only the first host of an
\* HTTP/2 transport is kept.
FirstHost(t) == IF t.hosts = <<>> THEN "none" ELSE Head(t.hosts)
TransportJson(t) ==
    CASE t.kind \in {"none", "tcp"} -> [type |-> "none"]
      [] t.kind = "ws" -> [type |-> "ws", path |-> t.path, host |-> t.host, header |-> t.header, early |-> t.early]
      [] t.kind = "grpc" -> [type |-> "grpc", service |-> t.service]
      [] t.kind = "h2" -> [type |-> "httpupgrade", path |-> t.path, host |-> FirstHost(t)]
      [] t.kind = "quic" -> [type |-> "quic"]

\* ss_cipher_supported.
SsCipherSupported(method) == method \notin {"aes-128-cfb", "aes-256-cfb"}

\* The credentials of a protocol, written the same way by both kernels.
Credentials(p) ==
    CASE p.label = "hysteria2" -> <<p.password, p.obfs, p.up, p.down>>
      [] p.label = "tuic" -> <<p.user, p.password, p.congestion>>
      [] p.label = "vmess" -> <<p.user, p.alterId, p.cipher>>
      [] p.label = "vless" -> <<p.user, p.flow>>
      [] p.label = "trojan" -> <<p.password>>
      [] p.label = "shadowsocks" -> <<p.method, p.password>>
      [] p.label \in {"http", "socks5"} -> <<p.user, p.password>>

\* node_outbound: the tag is the identity, so two nodes never share one.
NodeOutbound(node) ==
    LET p == node.protocol
        with(tls, transport) == [type |-> p.label, server |-> node.host, server_port |-> node.port, tag |-> NodeId(node),
                                 credentials |-> Credentials(p), tls |-> tls, transport |-> transport]
    IN  CASE p.label \in {"vless", "trojan", "vmess"} -> with(TlsJson(node.tls), TransportJson(node.transport))
          [] p.label = "shadowsocks" /\ p.plugin = "none" /\ SsCipherSupported(p.method) ->
               with([enabled |-> FALSE], [type |-> "none"])
          [] p.label \in {"hysteria2", "tuic"} -> with(TlsOrHostFallback(node), [type |-> "none"])
          [] p.label \in {"http", "socks5"} -> with(TlsJson(node.tls), [type |-> "none"])
          [] OTHER -> Rejected

\* mihomo_tls_lines: no fingerprint, no insecure flag, no alpn.
MihomoTls(tls) ==
    IF ~ tls.on THEN [enabled |-> FALSE]
    ELSE [enabled |-> TRUE, key |-> tls.reality.key, sid |-> tls.reality.sid, server_name |-> tls.sni]

\* mihomo_transport_lines: early data is left out.
MihomoTransport(t) ==
    CASE t.kind \in {"none", "tcp"} -> [type |-> "none"]
      [] t.kind = "ws" -> [type |-> "ws", path |-> t.path, host |-> t.host]
      [] t.kind = "grpc" -> [type |-> "grpc", service |-> t.service]
      [] t.kind = "h2" -> [type |-> "httpupgrade", path |-> t.path, host |-> FirstHost(t)]
      [] t.kind = "quic" -> [type |-> "quic"]

\* proxy_to_entry.
ProxyToEntry(node, tag) ==
    LET p == node.protocol
        with(tls, transport, plugin) ==
            [type |-> p.label, server |-> node.host, port |-> node.port, name |-> tag, credentials |-> Credentials(p),
             tls |-> tls, transport |-> transport, plugin |-> plugin]
    IN  CASE p.label \in {"vless", "vmess", "trojan"} -> with(MihomoTls(node.tls), MihomoTransport(node.transport), "none")
          [] p.label = "shadowsocks" -> with([enabled |-> FALSE], [type |-> "none"], p.plugin)
          [] p.label \in {"hysteria2", "tuic"} -> with([enabled |-> FALSE], [type |-> "none"], "none")
          [] p.label \in {"http", "socks5"} -> with(MihomoTls(node.tls), [type |-> "none"], "none")
          [] OTHER -> Rejected

-----------------------------------------------------------------------------
(* Properties.                                                              *)

SameServer(a, b) == [a EXCEPT !.name = "any"] = [b EXCEPT !.name = "any"]

\* Two nodes have one identity exactly when they dial the same server the same
\* way, whatever they are called (node/canonical/mod.rs:9-21).
IdentityIsExact(a, b) == NodeId(a) = NodeId(b) <=> SameServer(a, b)

\* A node that sing-box is given mihomo is given too, and the two dial the same
\* server with the same credentials, over the same transport and TLS server
\* name; sing-box is refused exactly plugins, CFB ciphers, WireGuard,
\* ShadowTLS and AnyTLS (sing_box/node.rs:29-202, mihomo/render.rs:7-90).
KernelsDialAlike(node) ==
    LET s == NodeOutbound(node)
        m == ProxyToEntry(node, "tag")
        p == node.protocol
    IN  /\ IsNode(s) => IsNode(m)
        /\ IsNode(s) <=> /\ p.label \notin {"wireguard", "shadow-tls", "anytls"}
                         /\ (p.label = "shadowsocks" => p.plugin = "none" /\ SsCipherSupported(p.method))
        /\ IsNode(s) =>
              /\ s.server = m.server /\ s.server_port = m.port /\ s.credentials = m.credentials
              /\ \A f \in DOMAIN m.transport : m.transport[f] = s.transport[f]
              /\ p.label \notin {"hysteria2", "tuic"} => \A f \in DOMAIN m.tls : m.tls[f] = s.tls[f]
              /\ p.label \in {"hysteria2", "tuic"} =>
                    s.tls.enabled /\ s.tls.server_name = IF node.tls.on THEN node.tls.sni ELSE node.host

\* The share link that says what a document's entry says.
LinkOf(entry) ==
    LET scheme == CASE entry.type = "http" -> IF entry.tls THEN "https" ELSE "http"
                    [] entry.type = "hy2" -> "hysteria2" [] OTHER -> entry.type
        user == CASE entry.type \in {"vless", "tuic"} -> "uuid"
                  [] entry.type \in {"trojan", "hysteria2", "hy2"} -> "password" [] OTHER -> "username"
        renamed == CASE entry.type = "vmess" ->
                          [ps |-> "name", id |-> "uuid", net |-> "network", path |-> "path",
                           host_header |-> "host_header", sni |-> "servername"]
                     [] entry.type = "ss" -> [fragment |-> "name", method |-> "cipher", password |-> "password"]
                     [] OTHER ->
                          [fragment |-> "name", user |-> user, password |-> "password", flow |-> "flow",
                           type |-> "network", path |-> "path", host_header |-> "host_header",
                           serviceName |-> "grpc-service-name", sni |-> "servername"]
        said == [k \in {k \in DOMAIN renamed : renamed[k] \in DOMAIN entry} |-> entry[renamed[k]]]
    IN  said @@ [scheme |-> scheme, host |-> entry.server, port |-> entry.port, decodes |-> TRUE,
                 security |-> IF entry.tls THEN "tls" ELSE "none", tls |-> IF entry.tls THEN "tls" ELSE ""]

\* The entry in its document: SIP008 for Shadowsocks, Clash for the rest.
DocumentNode(entry) ==
    IF entry.type # "ss" THEN ConvertProxy(entry)
    ELSE ParseSip008Entry([host |-> entry.server, port |-> entry.port, remarks |-> entry.name,
                           method |-> Get(entry, "cipher"), password |-> Get(entry, "password")])

\* A server listed by a document and by a share link is one node: the selection
\* and the duplicate filter recognise it in either form.  A link may go without
\* a name, the URL library hides its default ports, a vmess link has no QUIC and
\* takes a missing server name from its host header.  An IPv6 address and a name
\* that is not ASCII are excepted where the link is a URL: there the first is
\* another node, in brackets, and the second a node only in the link
\* (clash.rs:295-321, uri.rs:34-222, special_uri.rs:30-250, sip008.rs:45-69).
FormatsAgree(entry) ==
    LET node == DocumentNode(entry)
        link == ParseAnyProxyUri(LinkOf(entry))
        vmess == entry.type = "vmess"
        spelt == vmess \/ HostStr(LinkOf(entry).scheme, entry.server) = entry.server
    IN  /\ spelt /\ entry.name # "" /\ UriPort(LinkOf(entry)) = entry.port /\ ~(vmess /\ Get(entry, "network") = "quic")
              => (IsNode(node) <=> IsNode(link))
        /\ spelt /\ IsNode(node) /\ IsNode(link) /\ ~(vmess /\ entry.tls /\ Given(entry, "host_header") /\ ~Given(entry, "servername"))
              => NodeId(node) = NodeId(link)
=============================================================================
