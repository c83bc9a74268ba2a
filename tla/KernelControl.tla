--------------------------- MODULE KernelControl ---------------------------
(***************************************************************************)
(* What the kernels' HTTP controllers answer and what the program makes of *)
(* it (caly-corectl/src/mihomo/http.rs and api.rs, which sing_box/http.rs  *)
(* delegates to, and the latency probe of caly-cli's client/query/         *)
(* probe.rs).  A conversation is what one request meets: the connection,   *)
(* its reads up to end of file, and the response they carried.             *)
(***************************************************************************)
EXTENDS Integers, Sequences, FiniteSets, SequencesExt, FiniteSetsExt

CONSTANTS
    MaxCount,       \* u64::MAX, scaled
    MaxFailure,     \* bytes of a failure's message
    MaxSamples,     \* the sample clamp of probe_delay
    DefaultSamples

(***************************************************************************)
(* Requests                                                                *)
(***************************************************************************)
\* A read returns bytes in time, returns them after the overall deadline, is
\* cut (reset, aborted, timed out), or fails otherwise.
Ok == [kind |-> "ok", ms |-> -1]
Fails(kind) == [kind |-> kind, ms |-> -1]
Success(status) == status \in 200..299

\* The first read that is not plain bytes, "bytes" when every one is.
Ending(reads, harmless) ==
    LET bad == {i \in DOMAIN reads : reads[i] \notin harmless}
    IN  IF bad = {} THEN "bytes" ELSE reads[Min(bad)]

\* request_method: resolve, connect and write, then read_response, which checks
\* its deadline before every read and takes the status from the first line.
RequestMethod(c) ==
    LET ending == Ending(c.reads, {"bytes"})
    IN  IF c.connect # "ok" THEN Fails("api")
        ELSE IF ending = "late" THEN Fails("deadline")
        ELSE IF ending # "bytes" THEN Fails("api")
        ELSE IF c.status = -1 THEN Fails("decode")
        ELSE IF ~Success(c.status) THEN Fails("api") ELSE Ok

\* probe_delay's own reading: no overall deadline; a cut connection, a response
\* without a status line or not UTF-8 is a probe that did not complete.
ProbeRequest(c) ==
    LET ending == Ending(c.reads, {"bytes", "late"})
    IN  IF c.connect # "ok" THEN Fails("api")
        ELSE IF ending = "cut" THEN Fails("deadline")
        ELSE IF ending # "bytes" THEN Fails("api")
        ELSE IF ~c.utf8 \/ c.status = -1 THEN Fails("deadline") ELSE Ok

\* 404 is a name the kernel does not have and any other status that is neither 2xx
\* nor 5xx an error, whatever the function's comment says of a "non-2xx status";
\* 5xx is a probe that got no answer; the body is parsed as it stands, so a
\* chunked one is no JSON.
TestDelay(c) ==
    IF ProbeRequest(c) # Ok THEN ProbeRequest(c)
    ELSE IF c.status \in 500..599 THEN Fails("none")
    ELSE IF ~Success(c.status) THEN Fails("api")
    ELSE IF c.chunked \/ ~c.json THEN Fails("decode")
    ELSE IF c.delay = -1 THEN Fails("none") ELSE [kind |-> "some", ms |-> c.delay]

(***************************************************************************)
(* The latency probe                                                       *)
(***************************************************************************)
ResolveSamples(asked) ==
    LET n == IF asked = -1 THEN DefaultSamples ELSE asked
    IN  IF n < 1 THEN 1 ELSE IF n > MaxSamples THEN MaxSamples ELSE n

Stalls == {"none", "deadline"}

\* collect_samples: the answers from one call on, up to the first that is no
\* number; an error that is not a stall fails the probe.
CollectSamples(answers, from, samples) ==
    LET calls == from..(from + samples - 1)
        lost == {i \in calls : answers[i].kind # "some"}
        stop == IF lost = {} THEN from + samples ELSE Min(lost)
        got == [i \in 1..(stop - from) |-> answers[from + i - 1].ms]
    IN  IF lost # {} /\ answers[stop].kind \notin Stalls
        THEN [kind |-> "failed", samples |-> <<>>]
        ELSE [kind |-> IF got = <<>> /\ samples > 0 THEN "none" ELSE "some", samples |-> got]

Sorted(samples) == SortSeq(samples, LAMBDA a, b : a < b)
NoSamples == [outcome |-> "unreachable", samples |-> <<>>, url |-> 0]

\* probe_delay: one sample decides a URL; the first that answers is topped up.
\* Answers are numbered as the calls are made, so URL n is asked by call n.
ProbeDelay(answers, urls, asked) ==
    LET samples == ResolveSamples(asked)
        answered == {u \in 1..urls : answers[u].kind \notin Stalls}
        first == Min(answered)
        tail == CollectSamples(answers, first + 1, samples - 1)
    IN  IF answered = {} THEN NoSamples
        ELSE IF answers[first].kind # "some" \/ (samples > 1 /\ tail.kind = "failed")
        THEN [NoSamples EXCEPT !.outcome = "failed"]
        ELSE [outcome |-> "reachable", url |-> first,
              samples |-> Sorted(<<answers[first].ms>> \o tail.samples)]

\* The lower of the two middle samples.
Median(samples) == Sorted(samples)[((Len(samples) - 1) \div 2) + 1]
Jitter(samples) == samples[Len(samples)] - samples[1]

\* The population deviation, rounded: with V the variance times the square of the
\* count, the whole number nearest to its root over the count.
Stdev(samples) ==
    LET n == Len(samples)
        sum == SumFunction(samples)
        v == n * SumFunction([i \in 1..n |-> samples[i] * samples[i]]) - sum * sum
    IN  CHOOSE s \in 0..Jitter(samples) :
            /\ s = 0 \/ (2 * s - 1) * (2 * s - 1) * n * n <= 4 * v
            /\ 4 * v < (2 * s + 1) * (2 * s + 1) * n * n

\* delay --all and `core select --delay` tell four outcomes apart.  A node is
\* called unreachable only when every call asked ended in a stall the kernel or
\* the network caused, never when the controller refused the name; it is
\* reachable with samples of a single URL; a broken controller fails the probe;
\* and the probe completes wherever a plain request of the controller does.
ProbeIsTruthful(talks, urls, asked) ==
    LET answers == [i \in DOMAIN talks |-> TestDelay(talks[i])]
        probe == ProbeDelay(answers, urls, asked)
        refused(i) == talks[i].connect # "ok" \/ (ProbeRequest(talks[i]) = Ok /\ talks[i].status \in 400..499)
    IN  /\ \A i \in DOMAIN talks : RequestMethod(talks[i]) = Ok /\ talks[i].utf8 => ProbeRequest(talks[i]) = Ok
        /\ probe.outcome = "unreachable" => \A u \in 1..urls : ~refused(u)
        /\ probe.outcome = "failed" => \E i \in DOMAIN answers : answers[i].kind \in {"api", "decode"}
        /\ probe.outcome = "reachable" =>
              /\ Len(probe.samples) \in 1..ResolveSamples(asked)
              /\ ToSet(probe.samples) \subseteq {answers[i].ms : i \in probe.url..Len(answers)}
              /\ \A u \in 1..(probe.url - 1) : ~refused(u)

\* The summaries of a probe agree with each other: the median is the least
\* sample with at least half of them at or below it, and the deviation is at most
\* half of the jitter, rounded up.
SummariesAgree(raw) ==
    LET samples == Sorted(raw)
        below(m) == Cardinality({i \in DOMAIN samples : samples[i] <= m})
    IN  /\ 2 * below(Median(samples)) >= Len(samples)
        /\ \A i \in DOMAIN samples : samples[i] < Median(samples) => 2 * below(samples[i]) < Len(samples)
        /\ Len(samples) >= 2 => 2 * Stdev(samples) <= Jitter(samples) + 1

(***************************************************************************)
(* Chunked bodies                                                          *)
(***************************************************************************)
HexDigits == <<"0", "1", "2", "3">>
HexValue(digit) == CHOOSE n \in 0..3 : HexDigits[n + 1] = digit
Crlf == <<"r", "n">>
Lines(body) == {i \in 1..(Len(body) - 1) : SubSeq(body, i, i + 1) = Crlf}
Rejected == <<"rejected">>

\* The size before a chunk extension, -1 when it is no number.
ChunkSize(line) ==
    LET ext == {i \in DOMAIN line : line[i] = ";"}
        digits == SubSeq(line, 1, IF ext = {} THEN Len(line) ELSE Min(ext) - 1)
    IN  IF digits = <<>> \/ ~(ToSet(digits) \subseteq ToSet(HexDigits)) THEN -1
        ELSE FoldLeft(LAMBDA n, d : 16 * n + HexValue(d), 0, digits)

\* A chunk's data must be there and be followed by CRLF.
ChunkFits(rest, size) == Len(rest) >= size + 2 /\ SubSeq(rest, size + 1, size + 2) = Crlf

RECURSIVE DecodeChunked(_, _)
\* decode_chunked_body: a size line, its data, and again, up to size zero.
DecodeChunked(body, decoded) ==
    IF Lines(body) = {} THEN Rejected
    ELSE LET end == Min(Lines(body))
             size == ChunkSize(SubSeq(body, 1, end - 1))
             rest == SubSeq(body, end + 2, Len(body))
         IN  IF size = -1 THEN Rejected
             ELSE IF size = 0 THEN decoded
             ELSE IF ~ChunkFits(rest, size) THEN Rejected
             ELSE DecodeChunked(SubSeq(rest, size + 3, Len(rest)), decoded \o SubSeq(rest, 1, size))

\* What a server sends for a text cut into pieces, the size line with an
\* extension when asked.
Chunk(text, extension) == <<HexDigits[Len(text) + 1]>> \o extension \o Crlf \o text \o Crlf
Encode(texts, extension) ==
    FoldLeft(LAMBDA sent, text : sent \o Chunk(text, extension), <<>>, texts) \o <<"0">> \o Crlf

\* However the server cuts a body, even inside a line break of it, the reader
\* gets the body back; what a lost connection left of it is refused, not shortened.
ChunksAreWhole(texts, extension) ==
    LET sent == Encode(texts, extension)
    IN  /\ DecodeChunked(sent, <<>>) = FlattenSeq(texts)
        /\ \A cut \in 0..(Len(sent) - 2) : DecodeChunked(SubSeq(sent, 1, cut), <<>>) = Rejected

(***************************************************************************)
(* The traffic stream                                                      *)
(***************************************************************************)
\* A stream is a header line, then frames in two halves; a read returns any
\* piece.  first_complete_frame: the first opening half, once its other half
\* follows; anything before it is skipped.
Half(frame, closes) == [frame |-> frame, closes |-> closes]
FirstComplete(buffer) ==
    LET opens == {i \in DOMAIN buffer : buffer[i].frame > 0 /\ ~buffer[i].closes}
    IN  IF opens = {} \/ Min(opens) = Len(buffer) THEN 0 ELSE buffer[Min(opens)].frame

RECURSIVE FramesRead(_, _)
\* read_first_sse_frame again and again: each call starts with an empty buffer,
\* so what followed a frame in its last read is dropped.
FramesRead(reads, buffer) ==
    IF FirstComplete(buffer) # 0 THEN <<FirstComplete(buffer)>> \o FramesRead(reads, <<>>)
    ELSE IF reads = <<>> THEN <<>>
    ELSE FramesRead(Tail(reads), buffer \o Head(reads))

Saturating(a, b) == IF a + b > MaxCount THEN MaxCount ELSE a + b

\* traffic_bytes: totals are returned as they stand, rates are added up.  The
\* window is as long as the reads it is given.
TrafficBytes(reads, frames) ==
    LET got == FramesRead(reads, <<>>)
    IN  IF got = <<>> THEN -1
        ELSE IF frames[got[1]].total # -1 THEN frames[got[1]].total
        ELSE FoldLeft(LAMBDA sum, f : Saturating(sum, frames[f].down), 0, got)

\* Frames are read in order, none twice and none in part.  The figure never exceeds
\* what the stream carried, and it is that when each frame came in a read of its
\* own; frames that share a read are dropped.
TrafficIsCounted(reads, frames) ==
    LET got == FramesRead(reads, <<>>)
        sent == FoldLeft(LAMBDA sum, f : Saturating(sum, f.down), 0, frames)
        alone == \A i \in DOMAIN reads : Cardinality({h.frame : h \in ToSet(reads[i])} \ {0}) <= 1
                    /\ reads[i] # <<>> /\ ~reads[i][1].closes
        rates == \A f \in DOMAIN frames : frames[f].total = -1
    IN  /\ \A i, j \in DOMAIN got : i < j => got[i] < got[j]
        /\ rates /\ got # <<>> => TrafficBytes(reads, frames) <= sent
        /\ rates /\ alone /\ got # <<>> => TrafficBytes(reads, frames) = sent
        /\ ~rates /\ got # <<>> => \E f \in DOMAIN frames : TrafficBytes(reads, frames) = frames[f].total

(***************************************************************************)
(* Documents                                                               *)
(***************************************************************************)
GroupTypes == {"Selector", "URLTest", "Fallback", "LoadBalance"}
SpecialTypes == GroupTypes \cup {"Direct", "Reject", "Compatible", "Pass"}

\* proxy_names_from_json: entries that are neither groups nor built in, and every
\* member of a group but "direct".
ProxyNames(proxies) ==
    {name \in DOMAIN proxies : proxies[name].type \notin SpecialTypes} \cup
    UNION {ToSet(proxies[g].all) \ {"", "direct"} : g \in {n \in DOMAIN proxies : proxies[n].type \in GroupTypes}}

\* parse_proxy_groups.
ProxyGroups(proxies) ==
    {[name |-> n, kind |-> proxies[n].type, selected |-> proxies[n].now, members |-> proxies[n].all] :
        n \in {m \in DOMAIN proxies : proxies[m].type \in GroupTypes}}

\* meta_or_top_string.
MetaOrTop(meta, top) == IF meta # "none" THEN meta ELSE IF top # "none" THEN top ELSE ""
Numeric(value) == IF value < 0 THEN 0 ELSE value

\* parse_connection_json: host, else the address; metadata before the top level.
ConnectionDetail(c) ==
    [host |-> IF c.host \notin {"none", ""} THEN c.host ELSE IF c.ip # "none" THEN c.ip ELSE "",
     outbound |-> MetaOrTop(c.metaOutbound, c.topOutbound),
     chain |-> IF c.metaChain # <<>> THEN c.metaChain ELSE c.topChain,
     upload |-> Numeric(c.upload), download |-> Numeric(c.download)]

ConnectionDetails(list) == [i \in DOMAIN list |-> ConnectionDetail(list[i])]

\* connection_summary.
ConnectionSummary(list) ==
    [active |-> Len(list),
     upload |-> FoldLeft(LAMBDA sum, c : Saturating(sum, Numeric(c.upload)), 0, list),
     download |-> FoldLeft(LAMBDA sum, c : Saturating(sum, Numeric(c.download)), 0, list)]

\* The two readers of /connections agree: as many rows as the summary counts, and
\* its totals are those of the rows as far as a u64 reaches.
ConnectionsAgree(list) ==
    LET rows == ConnectionDetails(list)
        most(field(_)) == Min({MaxCount, SumFunction([i \in DOMAIN rows |-> field(rows[i])])})
        up(r) == r.upload
        down(r) == r.download
    IN  ConnectionSummary(list) = [active |-> Len(rows), upload |-> most(up), download |-> most(down)]

\* The two readers of /proxies agree: a name that a sweep may probe is in some group
\* or an entry of its own, and no member of a group is missed but the built-in.
ProxiesAgree(proxies) ==
    LET members == UNION {ToSet(g.members) : g \in ProxyGroups(proxies)}
    IN  /\ members \ {"", "direct"} \subseteq ProxyNames(proxies)
        /\ \A n \in DOMAIN proxies : n \in ProxyNames(proxies) \ members => proxies[n].type \notin SpecialTypes

(***************************************************************************)
(* Failure texts                                                           *)
(***************************************************************************)
Bytes(text) == SumFunction(text)

\* clamp: whole characters, given by their widths, while they fit.
Clamp(text) ==
    LET fits == {n \in 0..Len(text) : Bytes(SubSeq(text, 1, n)) <= MaxFailure}
    IN  SubSeq(text, 1, Max(fits))

\* KernelFailure::new never cuts a character and never gives up one that fits.
FailuresKeepCharacters(text) ==
    /\ Bytes(Clamp(text)) <= MaxFailure /\ IsPrefix(Clamp(text), text)
    /\ Bytes(Clamp(text)) + 4 <= MaxFailure => Clamp(text) = text

\* LinuxCommandValidator: the exit code decides; stderr speaks before stdout.
Validate(result) ==
    [accepted |-> result.code = 0,
     diagnostic |-> IF result.code = 0 THEN <<>> ELSE IF result.stderr # <<>> THEN result.stderr ELSE result.stdout]
=============================================================================
