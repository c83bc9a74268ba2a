----------------------------- MODULE WireCodec -----------------------------
(***************************************************************************)
(* What the control protocol says on the wire: the numbers of the          *)
(* enumerations, the presentation snapshot, its events and an operation's  *)
(* status in both directions, the bounded collections and texts they carry,*)
(* identities as hexadecimal, the frames on the stream, the handshake and  *)
(* the errors.  A text stands for its length in bytes; an absent value is  *)
(* "None", or -1 for a number.                                             *)
(***************************************************************************)
EXTENDS Integers, Sequences, SequencesExt

CONSTANTS
    MaxNodes,           \* MAX_WIRE_NODES
    MaxGroups,          \* MAX_WIRE_PROXY_GROUPS
    MaxCapabilities,    \* MAX_CAPABILITIES
    MaxTextBytes,       \* the N of a BoundedText<N>
    MaxStringBytes,     \* DecodeLimits::max_string_bytes
    MaxMessageBytes,    \* DecodeLimits::max_message_bytes
    IdBytes,            \* ID_BYTES
    HeaderBytes,        \* framing::HEADER_BYTES
    ByteValues          \* how many values a byte of a frame's header has

-----------------------------------------------------------------------------
(* Enumerations: the number written, and the value read from a number. *)

ModeCode == [Rule |-> 1, Global |-> 2, Direct |-> 3]
ModeOf == <<"Rule", "Global", "Direct">>
ModeLabel == [rule |-> "Rule", global |-> "Global", direct |-> "Direct"]

CoreCode == [Mihomo |-> 1, SingBox |-> 2, Xray |-> 3]
CoreOf == <<"Mihomo", "SingBox", "Xray">>

ActionCode == [Start |-> 1, Stop |-> 2, Restart |-> 3]
ActionOf == <<"Start", "Stop", "Restart">>

RunCode == [Stopped |-> 1, Starting |-> 2, Running |-> 3, Stopping |-> 4,
            Crashed |-> 5, Failed |-> 6]
RunOf == <<"Stopped", "Starting", "Running", "Stopping", "Crashed", "Failed">>

StateCode == [Pending |-> 1, Running |-> 2, Completed |-> 3, Failed |-> 4,
              Cancelled |-> 5]
StateOf == <<"Pending", "Running", "Completed", "Failed", "Cancelled">>

FailureCode == [InvalidInput |-> 1, Conflict |-> 2, ResourceExhausted |-> 3,
                Unsupported |-> 4, DeadlineExceeded |-> 5,
                TooLateToCancel |-> 6, Infrastructure |-> 7,
                RecoveryRequired |-> 8]
FailureOf == <<"InvalidInput", "Conflict", "ResourceExhausted", "Unsupported",
               "DeadlineExceeded", "TooLateToCancel", "Infrastructure",
               "RecoveryRequired">>


CapabilityCode ==
    [TunConfiguration |-> 1, DnsConfiguration |-> 2, RuntimeModeSwitch |-> 3,
     ProxyGroups |-> 4, ProxySelection |-> 5, UrlTest |-> 6, Connections |-> 7,
     ConnectionClose |-> 8, Traffic |-> 9, Logs |-> 10, Rules |-> 11]
CapabilityOf ==
    <<"TunConfiguration", "DnsConfiguration", "RuntimeModeSwitch",
      "ProxyGroups", "ProxySelection", "UrlTest", "Connections",
      "ConnectionClose", "Traffic", "Logs", "Rules">>

ConfiguredCode == [Unsupported |-> 1, Supported |-> 2, Partial |-> 3]
ConfiguredOf == <<"Unsupported", "Supported", "Partial">>

RuntimeCode == [NotRequired |-> 1, Available |-> 2, Unavailable |-> 3,
                Unknown |-> 4]
RuntimeOf == <<"NotRequired", "Available", "Unavailable", "Unknown">>

\* What the adapter writes for a CancelDecision, and what the client reads.
CancelCode == [Cancelled |-> 1, AlreadyTerminal |-> 2, TooLateToCancel |-> 3]
CancelOutcome == <<"Requested", "AlreadyTerminal", "TooLateToCancel">>

-----------------------------------------------------------------------------
(* Bounded collections and texts of the domain. *)

TryFromVec(values, capacity) == Len(values) <= capacity

FromVecTruncated(values, capacity) ==
    IF Len(values) > capacity THEN SubSeq(values, 1, capacity) ELSE values

TryExtend(vec, values, capacity) ==
    IF Len(vec) + Len(values) > capacity THEN vec ELSE vec \o values

TextOk(len) == len # 0 /\ len <= MaxTextBytes

\* A text as the widths of its characters: what from_nonempty_clamped keeps.
\* String::truncate panics unless the cut falls between two characters.
ByteLen(widths) == FoldLeft(LAMBDA sum, w : sum + w, 0, widths)

\* No character has no bytes: this text stands for the panic.
Panicked == <<0>>

FromNonemptyClamped(widths, fallback) ==
    LET kept == {n \in 0 .. Len(widths) :
                    ByteLen(SubSeq(widths, 1, n)) = MaxTextBytes}
    IN  CASE widths = <<>> -> fallback
          [] ByteLen(widths) <= MaxTextBytes -> widths
          [] kept = {} -> Panicked
          [] OTHER -> SubSeq(widths, 1, CHOOSE n \in kept : TRUE)

CapabilitySetOk(statuses) ==
    /\ TryFromVec(statuses, MaxCapabilities)
    /\ \A i, j \in DOMAIN statuses :
          statuses[i].capability = statuses[j].capability => i = j

\* The truncation comes before the duplicates are dropped.
FromBoundedDedup(statuses) ==
    LET bounded == FromVecTruncated(statuses, MaxCapabilities)
        Keep(kept, status) ==
            IF \E k \in DOMAIN kept : kept[k].capability = status.capability
            THEN kept ELSE Append(kept, status)
    IN  FoldLeft(Keep, <<>>, bounded)

AppliedOk(applied) ==
    IF applied.run = "Stopped"
    THEN applied.core = "None" /\ applied.node = "None" /\ applied.generation = -1
    ELSE applied.core # "None"

OperationStatusOk(status) ==
    /\ status.created <= status.updated
    /\ (status.state = "Failed") <=> (status.failure # <<>>)

-----------------------------------------------------------------------------
(* Capabilities the daemon publishes for a core. *)

RendererSupported(core) == IF core = "Xray" THEN "Unsupported" ELSE "Supported"

Status(capability, configured, caveat) ==
    [capability |-> capability, configured |-> configured,
     runtime |-> "NotRequired", caveat |-> caveat]

\* A caveat is a text of one byte here, -1 when there is none.
AssessControl(capability, core) ==
    Status(capability, RendererSupported(core),
           IF core = "Xray" THEN 1 ELSE -1)

AssessDns(core, enabled) ==
    Status("DnsConfiguration", RendererSupported(core),
           IF core # "Xray" /\ enabled THEN -1 ELSE 1)

AssessStream(capability, core) ==
    Status(capability,
           CASE core = "Mihomo" -> "Supported"
             [] core = "SingBox" -> "Partial"
             [] core = "Xray" -> "Unsupported",
           IF core = "Mihomo" THEN -1 ELSE 1)

CoreCapabilitySet(core, dns) ==
    FromBoundedDedup(
        <<AssessControl("TunConfiguration", core), AssessDns(core, dns),
          AssessControl("RuntimeModeSwitch", core),
          AssessControl("ProxyGroups", core),
          AssessControl("ProxySelection", core),
          AssessControl("UrlTest", core),
          AssessControl("ConnectionClose", core),
          AssessStream("Connections", core), AssessStream("Traffic", core)>>)

-----------------------------------------------------------------------------
(* The snapshot and its sections, written. *)

DesiredToWire(d) == [d EXCEPT !.mode = ModeCode[d.mode]]

AppliedToWire(a) ==
    [a EXCEPT !.core = IF a.core = "None" THEN -1 ELSE CoreCode[a.core],
              !.run = RunCode[a.run]]

CapabilityToWire(status) ==
    [capability |-> CapabilityCode[status.capability],
     configured |-> ConfiguredCode[status.configured],
     runtime |-> RuntimeCode[status.runtime],
     caveat |-> status.caveat]

CapabilitiesToWire(statuses) ==
    [i \in DOMAIN statuses |-> CapabilityToWire(statuses[i])]

\* Groups beyond the bound are left out, one at a time.
ProxyGroupsToWire(groups) ==
    FoldLeft(LAMBDA wire, group : TryExtend(wire, <<group>>, MaxGroups),
             <<>>, groups)

SnapshotToWire(s) ==
    [s EXCEPT !.desired = DesiredToWire(s.desired),
              !.applied = AppliedToWire(s.applied),
              !.capabilities = CapabilitiesToWire(s.capabilities),
              !.groups = ProxyGroupsToWire(s.groups)]

\* An event replaces one section; the section is a field of the snapshot.
EventToWire(section, s) ==
    [section |-> section, value |-> SnapshotToWire(s)[section]]

OperationStatusToWire(status) ==
    [status EXCEPT
        !.state = StateCode[status.state],
        !.failure = [i \in DOMAIN status.failure |->
                        [status.failure[i] EXCEPT !.code = FailureCode[@]]]]

-----------------------------------------------------------------------------
(* The snapshot and its sections, read.  A decoder stops at its first      *)
(* error; the budget counts the bytes of the texts read before.            *)

\* "None", or the first error of a sequence of checks.
First(errors) ==
    LET failed == {i \in DOMAIN errors : errors[i] # "None"}
    IN  IF failed = {} THEN "None" ELSE errors[Min(failed)]

Unless(condition, error) == IF condition THEN "None" ELSE error

EnumError(table, raw) == Unless(raw \in DOMAIN table, "UnknownEnum")

\* check_string, charge_bytes: the budget after `before` bytes.
ChargeError(before, len) ==
    Unless(len <= MaxStringBytes /\ before + len <= MaxMessageBytes, "Budget")

\* bounded_text, of a text that may be absent.
TextError(before, len) ==
    IF len = -1 THEN "None"
    ELSE First(<<ChargeError(before, len), Unless(TextOk(len), "InvalidText")>>)

Bytes(texts) == ByteLen(SelectSeq(texts, LAMBDA len : len # -1))

BytesBefore(start, texts, i) == start + Bytes(SubSeq(texts, 1, i - 1))

AppliedFromWire(w) ==
    [w EXCEPT !.core = IF w.core = -1 THEN "None" ELSE CoreOf[w.core],
              !.run = RunOf[w.run]]

AppliedError(w) ==
    LET codes == First(<<IF w.core = -1 THEN "None" ELSE EnumError(CoreOf, w.core),
                         EnumError(RunOf, w.run)>>)
    IN  IF codes # "None" THEN codes
        ELSE Unless(AppliedOk(AppliedFromWire(w)), "InvalidState")

CapabilityFromWire(w) ==
    [capability |-> CapabilityOf[w.capability],
     configured |-> ConfiguredOf[w.configured],
     runtime |-> RuntimeOf[w.runtime],
     caveat |-> w.caveat]

CapabilitiesFromWire(values) ==
    [i \in DOMAIN values |-> CapabilityFromWire(values[i])]

Caveats(values) == [i \in DOMAIN values |-> values[i].caveat]

CapabilitiesError(start, values) ==
    LET Each(i) == First(<<TextError(BytesBefore(start, Caveats(values), i), values[i].caveat),
                           EnumError(CapabilityOf, values[i].capability),
                           EnumError(ConfiguredOf, values[i].configured),
                           EnumError(RuntimeOf, values[i].runtime)>>)
        each == First([i \in DOMAIN values |-> Each(i)])
    IN  IF each # "None" THEN each
        ELSE Unless(CapabilitySetOk(CapabilitiesFromWire(values)), "InvalidState")

NodesError(start, values) ==
    LET texts == FlattenSeq([i \in DOMAIN values |-> <<values[i].name, values[i].protocol>>])
    IN  First([i \in DOMAIN texts |-> TextError(BytesBefore(start, texts, i), texts[i])]
              \o <<Unless(TryFromVec(values, MaxNodes), "InvalidState")>>)

\* One section of a snapshot or of an event; the others cannot be refused.
SectionError(start, section, w) ==
    CASE section = "desired" -> EnumError(ModeOf, w.mode)
      [] section = "applied" -> AppliedError(w)
      [] section = "platform" -> TextError(start, w.reason)
      [] section = "capabilities" -> CapabilitiesError(start, w)
      [] section = "nodes" -> NodesError(start, w)
      [] OTHER -> "None"

SectionFromWire(section, w) ==
    CASE section = "desired" -> [w EXCEPT !.mode = ModeOf[w.mode]]
      [] section = "applied" -> AppliedFromWire(w)
      [] section = "capabilities" -> CapabilitiesFromWire(w)
      [] OTHER -> w

Sections == {"desired", "applied", "observed", "platform", "capabilities", "nodes"}

\* The groups of a snapshot are not read; the constructor leaves them empty.
SnapshotFromWire(w) ==
    LET reason == Bytes(<<w.platform.reason>>)
        caveats == reason + Bytes(Caveats(w.capabilities))
        error == First(<<Unless(Len(w.nodes) <= MaxNodes, "Budget"),
                         Unless(w.cursor.daemon = w.daemon, "EpochMismatch"),
                         SectionError(0, "desired", w.desired),
                         SectionError(0, "applied", w.applied),
                         SectionError(0, "platform", w.platform),
                         SectionError(reason, "capabilities", w.capabilities),
                         SectionError(caveats, "nodes", w.nodes)>>)
    IN  IF error # "None" THEN [error |-> error]
        ELSE [error |-> "None",
              value |-> [f \in DOMAIN w |-> IF f = "groups" THEN <<>>
                                            ELSE SectionFromWire(f, w[f])]]

EventFromWire(event) ==
    LET error == SectionError(0, event.section, event.value)
    IN  IF error # "None" THEN [error |-> error]
        ELSE [error |-> "None", value |-> SectionFromWire(event.section, event.value)]

FailureFromWire(f) == [f EXCEPT !.code = FailureOf[f.code]]

\* failure_from_wire charges both texts before it looks at either.
FailureError(start, f) ==
    First(<<ChargeError(start, f.message), ChargeError(start + f.message, f.action),
            Unless(TextOk(f.message) /\ TextOk(f.action), "InvalidText"),
            EnumError(FailureOf, f.code)>>)

OperationStatusFromWire(w) ==
    LET error == First(<<TextError(0, w.kind), EnumError(StateOf, w.state)>>
                       \o [i \in DOMAIN w.failure |-> FailureError(w.kind, w.failure[i])])
        Value == [w EXCEPT !.state = StateOf[w.state],
                           !.failure = [i \in DOMAIN w.failure |-> FailureFromWire(w.failure[i])]]
    IN  IF error # "None" THEN [error |-> error]
        ELSE IF ~OperationStatusOk(Value) THEN [error |-> "InvalidState"]
        ELSE [error |-> "None", value |-> Value]

-----------------------------------------------------------------------------
(* Identities: bytes as pairs of hexadecimal digits.  A digit of a text is *)
(* its value and its case; any other character has the value -1.           *)

ToHex(bytes) ==
    [i \in 1 .. 2 * Len(bytes) |->
        LET byte == bytes[(i + 1) \div 2]
        IN  [digit |-> IF i % 2 = 1 THEN byte \div 16 ELSE byte % 16,
             upper |-> FALSE]]

ParseHex(text) ==
    IF Len(text) # 2 * IdBytes \/ \E i \in DOMAIN text : text[i].digit = -1
    THEN <<>>
    ELSE [i \in 1 .. IdBytes |-> 16 * text[2 * i - 1].digit + text[2 * i].digit]

-----------------------------------------------------------------------------
(* Frames: a little-endian length and the payload. *)

RECURSIVE ToLeBytes(_, _)
ToLeBytes(n, count) ==
    IF count = 0 THEN <<>>
    ELSE <<n % ByteValues>> \o ToLeBytes(n \div ByteValues, count - 1)

\* Nothing is written when the length does not fit the header.
WriteFrame(payload) ==
    IF Len(payload) >= ByteValues ^ HeaderBytes THEN <<>>
    ELSE ToLeBytes(Len(payload), HeaderBytes) \o payload

FromLeBytes(bytes) ==
    FoldRight(LAMBDA byte, n : n * ByteValues + byte, bytes, 0)

ReadFrame(stream, ceiling) ==
    IF Len(stream) < HeaderBytes THEN [error |-> "Closed"]
    ELSE LET length == FromLeBytes(SubSeq(stream, 1, HeaderBytes))
             last == HeaderBytes + length
         IN  CASE length > ceiling -> [error |-> "Oversized"]
               [] length <= ceiling /\ Len(stream) < last -> [error |-> "Closed"]
               [] OTHER ->
                    [error |-> "None", payload |-> SubSeq(stream, HeaderBytes + 1, last),
                     rest |-> SubSeq(stream, last + 1, Len(stream))]

\* A connection is read until its first error.
RECURSIVE ReadFrames(_, _)
ReadFrames(stream, ceiling) ==
    LET frame == ReadFrame(stream, ceiling)
    IN  IF frame.error # "None" THEN [frames |-> <<>>, end |-> frame.error]
        ELSE LET more == ReadFrames(frame.rest, ceiling)
             IN  [more EXCEPT !.frames = <<frame.payload>> \o @]

-----------------------------------------------------------------------------
(* Handshake. *)

Negotiate(own, peer) ==
    IF own.major # peer.major THEN [major |-> 0, minor |-> 0]
    ELSE [major |-> own.major, minor |-> IF own.minor < peer.minor
                                         THEN own.minor ELSE peer.minor]

FeatureOf == <<"Operations", "OperationCancellation", "EventReplay",
               "FullSnapshotRecovery", "UnknownEnumPreservation">>

\* The lists cannot overflow: the request is bounded as they are.
NegotiateHandshake(version, requested, own, supported) ==
    [version |-> Negotiate(own, version),
     unknown |-> SelectSeq(requested, LAMBDA f : f \notin DOMAIN FeatureOf),
     enabled |-> SelectSeq(requested, LAMBDA f : /\ f \in DOMAIN FeatureOf
                                                 /\ f \in Range(supported))]

-----------------------------------------------------------------------------
(* Commands: what the client sends for a word, what the server makes of it.*)

\* execute_core's target: the word of --core, else the kernel the daemon's
\* snapshot reports, else CALY_CORE, else Mihomo; "" where a word names no core.
CoreWords == [mihomo |-> "Mihomo", xray |-> "Xray"] @@ ("sing-box" :> "SingBox")
CoreTarget(word, active, env) ==
    LET named(w) == IF w \in DOMAIN CoreWords THEN CoreWords[w] ELSE ""
    IN  CASE word # "" -> named(word)
          [] word = "" /\ active # "None" -> active
          [] word = "" /\ active = "None" /\ env # "" -> named(env)
          [] OTHER -> "Mihomo"

SentCommand(verb, word, action, active, env) ==
    CASE verb = "mode" ->
            IF word \notin DOMAIN ModeLabel THEN <<>>
            ELSE <<[kind |-> "SetMode", mode |-> ModeCode[ModeLabel[word]]]>>
      [] verb = "switch-core" ->
            (CASE word = "sing-box" ->
                    <<[kind |-> "SwitchCore", core |-> CoreCode.SingBox,
                       action |-> ActionCode.Restart]>>
               [] word = "mihomo" ->
                    <<[kind |-> "SwitchCore", core |-> CoreCode.Mihomo,
                       action |-> ActionCode.Restart]>>
               [] OTHER -> <<>>)
      [] verb = "core" ->
            (LET kind == CoreTarget(word, active, env)
             IN  IF kind = "" THEN <<>>
                 ELSE <<[kind |-> "SwitchCore", core |-> CoreCode[kind],
                         action |-> ActionCode[action]]>>)

CommandFromWire(w) ==
    CASE w.kind = "SwitchCore" ->
            IF w.core \notin DOMAIN CoreOf THEN [error |-> "UnknownCore"]
            ELSE IF w.action \notin DOMAIN ActionOf THEN [error |-> "UnknownAction"]
            ELSE [error |-> "None", kind |-> "SwitchCore",
                  target |-> CoreOf[w.core], action |-> ActionOf[w.action]]
      [] w.kind = "SetMode" ->
            IF w.mode \notin DOMAIN ModeOf THEN [error |-> "UnknownMode"]
            ELSE [error |-> "None", kind |-> "SetMode", mode |-> ModeOf[w.mode]]
      [] w.kind = "Unknown" -> [error |-> "UnknownCommand"]
      [] OTHER -> [error |-> "None", kind |-> w.kind]

-----------------------------------------------------------------------------
(* Errors: from the application or the session registry to the client. *)

ServiceErrorOf ==
    [ResourceExhausted |-> "ResourceExhausted",
     OperationNotFound |-> "InvalidArgument",
     IdempotencyConflict |-> "InvalidArgument",
     InvalidCommand |-> "InvalidArgument",
     Unavailable |-> "ApplicationUnavailable",
     InternalInvariant |-> "ApplicationUnavailable"]

ErrorCode ==
    [Unauthenticated |-> 1, PermissionDenied |-> 2, ResourceExhausted |-> 3,
     InvalidArgument |-> 4, IncompatibleVersion |-> 5, HandshakeRequired |-> 6,
     ApplicationUnavailable |-> 7]
ErrorOf ==
    <<"Unauthenticated", "PermissionDenied", "ResourceExhausted",
      "InvalidArgument", "IncompatibleVersion", "HandshakeRequired",
      "ApplicationUnavailable">>

ServiceToWire(error) ==
    ErrorCode[IF error = "HandshakeRequired" THEN "Unauthenticated" ELSE error]

SessionToWire(error) ==
    ErrorCode[IF error = "CapacityReached" THEN "ResourceExhausted"
              ELSE "Unauthenticated"]

MapWireError(code) ==
    LET known == IF code \in DOMAIN ErrorOf THEN ErrorOf[code] ELSE "None"
    IN  CASE known \in {"Unauthenticated", "HandshakeRequired"} -> "AuthenticationRejected"
          [] known \in {"ResourceExhausted", "IncompatibleVersion"} -> known
          [] known \in {"PermissionDenied", "ApplicationUnavailable"} -> "TransportUnavailable"
          [] OTHER -> "DecodeRejected"

-----------------------------------------------------------------------------
(* Properties. *)

\* Reading back a written snapshot (snapshot_to_wire, snapshot_from_wire)
\* gives the snapshot without its groups; only the byte budget refuses one.
SnapshotSurvives(s) ==
    LET read == SnapshotFromWire(SnapshotToWire(s))
    IN  IF read.error = "None" THEN read.value = [s EXCEPT !.groups = <<>>]
        ELSE read.error = "Budget"

\* A watcher that replaces a section by an event (event_to_wire,
\* event_from_wire) holds what one that reads the whole snapshot holds; the
\* event carries the groups as well, up to the bound of the wire.
SectionsAgree(s) ==
    LET whole == SnapshotFromWire(SnapshotToWire(s))
    IN  \A section \in Sections \cup {"groups"} :
          LET event == EventFromWire(EventToWire(section, s))
          IN  IF section = "groups"
              THEN event.value = SubSeq(s.groups, 1, Len(event.value))
                   /\ (Len(s.groups) <= MaxGroups => event.value = s.groups)
              ELSE whole.error = "None" => event.error = "None"
                                           /\ event.value = whole.value[section]

\* A status the store hands out (operation_status_to_wire) is read back as it
\* was by operation_status_from_wire, and one the domain forbids is refused.
StatusSurvives(status) ==
    LET read == OperationStatusFromWire(OperationStatusToWire(status))
    IN  CASE read.error = "None" -> read.value = status /\ OperationStatusOk(status)
          [] read.error = "InvalidState" -> ~OperationStatusOk(status)
          [] OTHER -> read.error = "Budget"

\* However the stream is cut (write_frame, read_frame), the reader gets whole
\* payloads in their order, none above its ceiling, and misses none that
\* arrived whole before one above the ceiling.
FramesAreWhole(offered, cut, ceiling) ==
    LET payloads == SelectSeq(offered, LAMBDA p : WriteFrame(p) # <<>>)
        Sent(n) == FlattenSeq([i \in 1 .. n |-> WriteFrame(payloads[i])])
        sent == Sent(Len(payloads))
        stream == SubSeq(sent, 1, IF cut < Len(sent) THEN cut ELSE Len(sent))
        read == ReadFrames(stream, ceiling)
        taken == Len(read.frames)
    IN  /\ IsPrefix(read.frames, payloads)
        /\ \A i \in DOMAIN read.frames : Len(read.frames[i]) <= ceiling
        /\ taken < Len(payloads) =>
              IF read.end = "Oversized" THEN Len(payloads[taken + 1]) > ceiling
              ELSE Len(Sent(taken + 1)) > Len(stream)

\* An identity printed by to_hex is parsed back by parse_hex, whatever the
\* case of its digits; a text of another length is no identity.
IdentitySurvives(text) ==
    LET bytes == ParseHex(text)
    IN  IF bytes = <<>>
        THEN Len(text) # 2 * IdBytes \/ \E i \in DOMAIN text : text[i].digit = -1
        ELSE ToHex(bytes) = [i \in DOMAIN text |-> [text[i] EXCEPT !.upper = FALSE]]

\* Client and server negotiate the same version whoever computes it, and a
\* feature is enabled only when both sides know it (negotiate_handshake).
HandshakeAgrees(version, requested, own, supported) ==
    LET answer == NegotiateHandshake(version, requested, own, supported)
    IN  /\ answer.version = Negotiate(version, own)
        /\ Range(answer.enabled) =
              Range(requested) \cap Range(supported) \cap DOMAIN FeatureOf
        /\ Range(answer.unknown) \cap Range(answer.enabled) = {}

\* The core and the action a user names reach the application unchanged, and a
\* core action that names none acts on the kernel that runs, never on another one:
\* "restarts the kernel the user actually switched to"
\* (execute_set_mode, execute_switch_core, execute_core, command_from_wire).
WordsReachTheCore(verb, word, action, active, env) ==
    LET sent == SentCommand(verb, word, action, active, env)
        got == CommandFromWire(sent[1])
    IN  /\ sent # <<>> =>
              /\ got.error = "None"
              /\ verb = "mode" => got.kind = "SetMode" /\ got.mode = ModeLabel[word]
              /\ word \in DOMAIN CoreWords => got.target = CoreWords[word]
              /\ verb = "core" => got.action = action
        /\ verb = "core" /\ word = "" /\ active # "None" => sent # <<>> /\ got.target = active

\* A client is told to authenticate exactly when the session or the handshake
\* was refused, and to retry later only when something was full
\* (service_to_wire, session_to_wire, map_wire_error).
ErrorsKeepMeaning ==
    LET session == {"CapacityReached", "TokenCollision", "InvalidToken", "Missing", "Expired"}
    IN  /\ \A e \in DOMAIN ErrorCode :
              LET told == MapWireError(ServiceToWire(e))
              IN  /\ told = "AuthenticationRejected" <=>
                        e \in {"Unauthenticated", "HandshakeRequired"}
                  /\ told = "ResourceExhausted" <=> e = "ResourceExhausted"
        /\ \A e \in session :
              MapWireError(SessionToWire(e)) =
                IF e = "CapacityReached" THEN "ResourceExhausted"
                ELSE "AuthenticationRejected"
        /\ \A e \in DOMAIN ServiceErrorOf :
              LET told == MapWireError(ServiceToWire(ServiceErrorOf[e]))
              IN  /\ told = "ResourceExhausted" <=> e = "ResourceExhausted"
                  /\ told = "TransportUnavailable" <=> e \in {"Unavailable", "InternalInvariant"}
        /\ \A d \in DOMAIN CancelCode :
              CancelOutcome[CancelCode[d]] = IF d = "Cancelled" THEN "Requested" ELSE d

\* text.rs:64 "over-long input is truncated at a UTF-8 character boundary so
\* a runtime value can never abort the daemon" (from_nonempty_clamped).
ClampNeverAborts(widths) == FromNonemptyClamped(widths, <<1>>) # Panicked
=============================================================================
