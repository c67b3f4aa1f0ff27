-------------------------------- MODULE Proxy --------------------------------
(***************************************************************************)
(* The request handler `proxy' of crates/privacy_proxy_proxy/src/lib.rs,   *)
(* one instance per request, with the client that sends the request, the   *)
(* upstream the redacted request goes to, and the shared ProxyMetrics.     *)
(*                                                                         *)
(* A handler yields at three awaits: reading the body, sending upstream    *)
(* and reading the response.  Between them it runs on, but on one thread   *)
(* of several: every access to a shared counter or to the map is a step of *)
(* its own, and only there do handlers interleave.                         *)
(*                                                                         *)
(* A message is abstracted to what the handler's decisions and the         *)
(* metrics depend on: its path and query, its sizes, its encoding, whether *)
(* it decodes, and the reports the engine returns for its body and for     *)
(* each header value.                                                      *)
(*                                                                         *)
(* The HTTP client is reqwest::Client::new(): inside send() it follows     *)
(* redirects, so that one request of the client may go out several times.  *)
(***************************************************************************)
EXTENDS ScanReport, Sequences, FiniteSets, Functions

CONSTANTS Request,        \* the requests that may arrive
          Scraper,        \* the connections on which metrics are read
          Message,        \* what a request may carry
          Location,       \* where upstreams redirect to
          MaxRedirects,   \* how many redirects reqwest follows: 10
          MaxBody         \* config.max_body_bytes

ASSUME ActorAssumption == Request \cap Scraper = {}
ASSUME MaxBodyAssumption == MaxBody \in Nat \ {0}
ASSUME RedirectsAssumption == MaxRedirects \in Nat

Encoding == {"identity", "gzip", "unsupported", "unreadable"}

\* wire: the body as sent; plain: its first gzip member decoded, or the body
\* itself; rest: the later gzip members; redacted: the length redact_body
\* gives it; engine: redact_body gets as far as calling the engine.
Body == [encoding: Encoding, wire: Nat, plain: Nat, rest: Nat, valid: BOOLEAN,
         utf8: BOOLEAN, engine: BOOLEAN, found: Report, redacted: Nat]

\* class: what apply_headers makes of the name; kind: sensitive_header_kind's
\* answer; visible: to_str succeeds; found: redact_str's report on the value.
Header == [class: {"skipped", "sensitive", "other"}, kind: DetectorKind,
           visible: BOOLEAN, found: Report]

BodyReports == {m.body.found : m \in Message}
HeaderReports == UNION {{m.headers[i].found : i \in DOMAIN m.headers} : m \in Message}

\* The reports are the engine's (ReportWalk), with fewer than 2^64 detections.
ASSUME EngineAssumption ==
    \A rep \in BodyReports \cup HeaderReports :
       TotalIsSaturatedSum(rep) /\ SumOver(rep.by_type) <= MaxU64
ASSUME MessageAssumption ==
    \A m \in Message :
       /\ m.body \in Body /\ m.headers \in Seq(Header)
       /\ m.body.encoding = "identity" => m.body.plain = m.body.wire
       /\ m.body.encoding # "gzip" => m.body.rest = 0

VARIABLES
    pc,          \* where each handler is
    input,       \* the message it handles
    at,          \* the header apply_headers has come to
    built,       \* the headers of the outgoing request so far
    sent,        \* what went out for each request: first it, then its redirects
    wire,        \* <<r, n>>: the n-th of sent[r] is on its way
    upstream,    \* which of them have arrived, in the order they did
    outcome,     \* how each request ended
    keyless,     \* the mode is "hash" and the environment holds no hash key
    value, held, by_type, lock_view, view, pending, copied, scrape,
    added_at, credited

handler == <<pc, input, at, built, sent, wire, upstream, outcome, keyless>>
metrics == <<value, held, by_type, lock_view, view, pending, copied, scrape,
             added_at, credited>>
vars == <<handler, metrics>>

KindReport(kind) == Record(EmptyReport, kind)

\* What handlers record, and what they add to which counters.
HandlerReports == BodyReports \cup HeaderReports \cup {EmptyReport}
                     \cup {KindReport(k) : k \in DetectorKind}
HandlerCounters == {"requests", "upstream_errors", "rejected_payloads",
                    "request_bytes", "forwarded_bytes"}
HandlerAmounts == {0, 1} \cup UNION {{m.body.wire, m.body.redacted} : m \in Message}

M == INSTANCE ProxyMetrics WITH
        Task <- Request, Reports <- HandlerReports,
        Counted <- HandlerCounters, Amount <- HandlerAmounts

Init == /\ pc = [r \in Request |-> "idle"]
        /\ input \in [Request -> Message]
        /\ at = [r \in Request |-> 1]
        /\ built = [r \in Request |-> << >>]
        /\ sent = [r \in Request |-> << >>]
        /\ wire = {}
        /\ upstream = [r \in Request |-> << >>]
        /\ outcome = [r \in Request |-> "open"]
        /\ keyless \in BOOLEAN
        /\ M!Init

Goto(r, label) == pc' = [pc EXCEPT ![r] = label]

\* The handler returns its response.
End(r, result) == /\ Goto(r, "over")
                  /\ outcome' = [outcome EXCEPT ![r] = result]

\* A request arrives; the handler counts it and starts reading its body.
Arrive(r) ==
    /\ pc[r] = "idle"
    /\ M!Count(r, "requests", 1)
    /\ Goto(r, "reading")
    /\ UNCHANGED <<input, at, built, sent, wire, upstream, outcome, keyless>>

\* to_bytes(body, max_body_bytes) returns the body ...
BodyRead(r) ==
    /\ pc[r] = "reading"
    /\ input[r].body.wire <= MaxBody
    /\ M!Count(r, "request_bytes", input[r].body.wire)
    /\ Goto(r, "received")
    /\ UNCHANGED <<input, at, built, sent, wire, upstream, outcome, keyless>>

\* ... or fails: the body is too long, or the client's connection broke.  The
\* handler cannot tell the two apart.
BodyFails(r) ==
    /\ pc[r] = "reading"
    /\ M!Count(r, "rejected_payloads", 1)
    /\ End(r, "too_large")
    /\ UNCHANGED <<input, at, built, sent, wire, upstream, keyless>>

\* Mutant of Decoded: the limit is one byte too high.
DecodedLate(b) ==
    IF b.encoding \in {"unsupported", "unreadable"} THEN "unsupported"
    ELSE IF b.encoding = "identity" THEN "ok"
    ELSE IF b.plain > MaxBody + 1 THEN "too_large"
    ELSE IF ~b.valid THEN "bad_gzip"
    ELSE "ok"

\* decode_request_body: what it returns for a body.
Decoded(b) ==
    IF b.encoding \in {"unsupported", "unreadable"} THEN "unsupported"
    ELSE IF b.encoding = "identity" THEN "ok"
    ELSE IF b.plain > MaxBody THEN "too_large"    \* stops after max + 1 bytes
    ELSE IF ~b.valid THEN "bad_gzip"
    ELSE "ok"

\* redact_body: an empty body is returned before anything is looked at; an
\* engine `fails' when ReplacementPolicy::from_config finds no key.
Redacted(b, fails) ==
    IF b.plain = 0 THEN "ok"
    ELSE IF ~b.utf8 THEN "not_utf8"
    ELSE IF b.engine /\ fails THEN "redaction_failed"
    ELSE "ok"

BodyReport(b) == IF b.plain = 0 THEN EmptyReport ELSE b.found
RedactedLength(b) == IF b.plain = 0 THEN 0 ELSE b.redacted

\* Mutant of Refuse: every refusal is counted as an upstream error.
RefuseAsError(r) ==
    /\ pc[r] = "received"
    /\ LET b == input[r].body
           verdict == IF Decoded(b) # "ok" THEN Decoded(b) ELSE Redacted(b, keyless)
       IN /\ verdict # "ok"
          /\ M!Count(r, "upstream_errors", 1)
          /\ End(r, verdict)
    /\ UNCHANGED <<input, at, built, sent, wire, upstream, keyless>>

\* The body is refused by decode_request_body or redact_body.
Refuse(r) ==
    /\ pc[r] = "received"
    /\ LET b == input[r].body
           verdict == IF Decoded(b) # "ok" THEN Decoded(b) ELSE Redacted(b, keyless)
       IN /\ verdict # "ok"
          /\ M!Count(r, IF verdict = "redaction_failed" THEN "upstream_errors"
                        ELSE "rejected_payloads", 1)
          /\ End(r, verdict)
    /\ UNCHANGED <<input, at, built, sent, wire, upstream, keyless>>

\* The body is redacted; record_report starts with the total.
RedactBody(r) ==
    /\ pc[r] = "received"
    /\ Decoded(input[r].body) = "ok"
    /\ Redacted(input[r].body, keyless) = "ok"
    /\ M!RecordTotal(r, BodyReport(input[r].body))
    /\ Goto(r, "recorded")
    /\ UNCHANGED <<input, at, built, sent, wire, upstream, outcome, keyless>>

\* Mutant of FinishReport: try_lock, and return when another handler has
\* begun a report too.
FinishReportAlone(r) ==
    /\ \A t \in Request \ {r} : pending[t] = M!NoKinds
    /\ M!RecordTypes(r)
    /\ UNCHANGED handler

\* Mutant of FinishReport: the lock is not taken and the counts are dropped.
FinishReportDrops(r) ==
    /\ pending[r] # M!NoKinds
    /\ pending' = [pending EXCEPT ![r] = M!NoKinds]
    /\ UNCHANGED <<handler, value, held, by_type, lock_view, view, copied,
                   scrape, added_at, credited>>

\* The second half of whichever record_report or record_kind is under way.
FinishReport(r) == M!RecordTypes(r) /\ UNCHANGED handler

\* forwarded_bytes is counted before anything is forwarded.
CountForwarded(r) ==
    /\ pc[r] = "recorded"
    /\ M!Count(r, "forwarded_bytes", RedactedLength(input[r].body))
    /\ Goto(r, "headers")
    /\ UNCHANGED <<input, at, built, sent, wire, upstream, outcome, keyless>>

\* apply_headers, one header: what becomes of it ...
Rewritten(h, fails) ==
    IF h.class = "skipped" THEN << >>
    ELSE IF h.class = "sensitive" THEN <<"replaced">>
    ELSE IF h.visible /\ ~fails THEN <<"redacted">>
    ELSE <<"raw">>                \* the value goes on as it came

\* ... and what is recorded for it.
HeaderReport(h, fails) ==
    IF h.class = "sensitive" THEN KindReport(h.kind)
    ELSE IF Rewritten(h, fails) = <<"redacted">> THEN h.found
    ELSE EmptyReport

\* Mutant of NextHeader: the loop takes every other header.
NextHeaderButOne(r) ==
    /\ pc[r] = "headers"
    /\ at[r] <= Len(input[r].headers)
    /\ LET h == input[r].headers[at[r]]
       IN /\ built' = [built EXCEPT ![r] = @ \o Rewritten(h, keyless)]
          /\ IF Rewritten(h, keyless) \in {<<"replaced">>, <<"redacted">>}
             THEN M!RecordTotal(r, HeaderReport(h, keyless))
             ELSE pending[r] = M!NoKinds /\ UNCHANGED metrics
    /\ at' = [at EXCEPT ![r] = @ + 2]
    /\ UNCHANGED <<pc, input, sent, wire, upstream, outcome, keyless>>

NextHeader(r) ==
    /\ pc[r] = "headers"
    /\ at[r] <= Len(input[r].headers)
    /\ LET h == input[r].headers[at[r]]
       IN /\ built' = [built EXCEPT ![r] = @ \o Rewritten(h, keyless)]
          /\ IF Rewritten(h, keyless) \in {<<"replaced">>, <<"redacted">>}
             THEN M!RecordTotal(r, HeaderReport(h, keyless))
             ELSE pending[r] = M!NoKinds /\ UNCHANGED metrics
    /\ at' = [at EXCEPT ![r] = @ + 1]
    /\ UNCHANGED <<pc, input, sent, wire, upstream, outcome, keyless>>

\* target_url: the target's scheme, host and path, and after them the path and
\* the query as the client sent them.
TargetUrl(url) == <<"target", url>>

\* The outgoing request: method, URL, body and headers are complete.
Outgoing(r) == [url |-> TargetUrl(input[r].url), referer |-> {},
                body |-> RedactedLength(input[r].body), headers |-> built[r]]

\* Mutant of Send: reports are recorded in the background.
SendEarly(r) ==
    /\ pc[r] = "headers"
    /\ at[r] > Len(input[r].headers)
    /\ sent' = [sent EXCEPT ![r] = <<Outgoing(r)>>]
    /\ wire' = wire \cup {<<r, 1>>}
    /\ Goto(r, "awaiting")
    /\ UNCHANGED <<input, at, built, upstream, outcome, keyless, metrics>>

\* builder.send(): the request goes on the wire; the handler awaits.
Send(r) ==
    /\ pc[r] = "headers"
    /\ at[r] > Len(input[r].headers)
    /\ pending[r] = M!NoKinds
    /\ sent' = [sent EXCEPT ![r] = <<Outgoing(r)>>]
    /\ wire' = wire \cup {<<r, 1>>}
    /\ Goto(r, "awaiting")
    /\ UNCHANGED <<input, at, built, upstream, outcome, keyless, metrics>>

\* The last request that went out may be answered, perhaps before its
\* recipient has read it to its end.
Answerable(r) == LET n == Len(sent[r])
                 IN n > 0 /\ (<<r, n>> \in wire \/ n \in Range(upstream[r]))

\* What reqwest makes of a request that is answered with a redirect to l: 307
\* and 308 keep the body, 303 drops it, 301 and 302 do the one or the other;
\* headers on the body go with it, credentials when the host changes.  The
\* Referer is the URL before, unless that was https and the new one is not.
Redirections(last, l) ==
    {[url |-> <<"location", l>>, referer |-> referer, body |-> body,
      headers |-> Restrict(last.headers, kept)] :
        referer \in {{}, {last.url}}, body \in {0, last.body},
        kept \in SUBSET DOMAIN last.headers}

\* send() follows a redirect: the handler goes on waiting, and learns nothing.
Redirect(r) ==
    /\ pc[r] = "awaiting"
    /\ Answerable(r)
    /\ LET n == Len(sent[r])
       IN /\ n <= MaxRedirects
          /\ \E l \in Location : \E next \in Redirections(sent[r][n], l) :
                sent' = [sent EXCEPT ![r] = Append(@, next)]
          /\ wire' = wire \cup {<<r, n + 1>>}
    /\ UNCHANGED <<pc, input, at, built, upstream, outcome, keyless, metrics>>

\* A request that went out arrives, however late; or never does.
Deliver(r) ==
    \E n \in DOMAIN sent[r] :
        /\ <<r, n>> \in wire
        /\ wire' = wire \ {<<r, n>>}
        /\ upstream' = [upstream EXCEPT ![r] = Append(@, n)]
        /\ UNCHANGED <<pc, input, at, built, sent, outcome, keyless, metrics>>

Lose(r) ==
    \E n \in DOMAIN sent[r] :
        /\ <<r, n>> \in wire
        /\ wire' = wire \ {<<r, n>>}
        /\ UNCHANGED <<pc, input, at, built, sent, upstream, outcome, keyless, metrics>>

Delivered(r) == upstream[r] # << >>

\* send() returns the head of the last response.
Respond(r) ==
    /\ pc[r] = "awaiting"
    /\ Answerable(r)
    /\ Goto(r, "relaying")
    /\ UNCHANGED <<input, at, built, sent, wire, upstream, outcome, keyless, metrics>>

\* Mutant of SendFails: a request that got lost is waited for.
SendFailsOnWire(r) ==
    /\ pc[r] = "awaiting"
    /\ Answerable(r)
    /\ M!Count(r, "upstream_errors", 1)
    /\ End(r, "upstream_failed")
    /\ UNCHANGED <<input, at, built, sent, wire, upstream, keyless>>

\* send() fails, also at one redirect too many; whether the upstream has the
\* request is not known.
SendFails(r) ==
    /\ pc[r] = "awaiting"
    /\ M!Count(r, "upstream_errors", 1)
    /\ End(r, "upstream_failed")
    /\ UNCHANGED <<input, at, built, sent, wire, upstream, keyless>>

\* into_axum_response: the client gets the upstream's status, with its body
\* or, when that cannot be read, with a message in its place.
Relay(r) ==
    /\ pc[r] = "relaying"
    /\ \E result \in {"relayed", "relay_broken"} : End(r, result)
    /\ UNCHANGED <<input, at, built, sent, wire, upstream, keyless, metrics>>

\* The client goes away: the handler's future is dropped where it awaits.
Abandon(r) ==
    /\ pc[r] \in {"reading", "awaiting", "relaying"}
    /\ End(r, "abandoned")
    /\ UNCHANGED <<input, at, built, sent, wire, upstream, keyless, metrics>>

\* GET /metrics and /metrics/prometheus.
Scrape(s) == (M!CopyTypes(s) \/ M!LoadCounters(s)) /\ UNCHANGED handler

\* Nothing is left to happen: no handler runs, nothing is on the wire.
Idle == /\ \A r \in Request : pc[r] = "over"
        /\ wire = {}
        /\ UNCHANGED vars

\* The steps of a handler between two awaits, and those its peers decide on.
Handle(r) == \/ Refuse(r) \/ RedactBody(r) \/ FinishReport(r)
             \/ CountForwarded(r) \/ NextHeader(r) \/ Send(r)
ClientSends(r) == BodyRead(r) \/ BodyFails(r)
UpstreamAnswers(r) == Respond(r) \/ SendFails(r) \/ Relay(r)

Next == \/ \E r \in Request : \/ Arrive(r) \/ Handle(r)
                              \/ ClientSends(r) \/ UpstreamAnswers(r)
                              \/ Redirect(r) \/ Deliver(r) \/ Lose(r)
                              \/ Abandon(r)
        \/ \E s \in Scraper : Scrape(s)
        \/ Idle

Spec == Init /\ [][Next]_vars

\* What the code and the runtime guarantee: a handler that can run, runs.
HandlersFair == \A r \in Request : WF_vars(Handle(r))

\* What they do not: that clients finish sending and upstreams answer.  There
\* is no timeout on either (reqwest::Client::new(), to_bytes).
PeersFair == \A r \in Request : WF_vars(ClientSends(r)) /\ WF_vars(UpstreamAnswers(r))

HandlerSpec == Spec /\ HandlersFair
-----------------------------------------------------------------------------
Label == {"idle", "reading", "received", "recorded", "headers", "awaiting",
          "relaying", "over"}
Refusal == {"too_large", "unsupported", "bad_gzip", "not_utf8"}
Outcome == Refusal \cup {"open", "redaction_failed", "upstream_failed",
                         "relayed", "relay_broken", "abandoned"}
Word == {"replaced", "redacted", "raw"}
Position == UNION {DOMAIN m.headers : m \in Message}
Url == {TargetUrl(m.url) : m \in Message} \cup {<<"location", l>> : l \in Location}

\* A redirected request has some of the headers, at their old positions.
Sent == [url: Url, referer: SUBSET Url, body: Nat,
         headers: UNION {[kept -> Word] : kept \in SUBSET Position}]

TypeOK ==
    /\ pc \in [Request -> Label]
    /\ input \in [Request -> Message]
    /\ \A r \in Request : at[r] \in 1 .. Len(input[r].headers) + 1
    /\ built \in [Request -> Seq(Word)]
    /\ sent \in [Request -> Seq(Sent)]
    /\ wire \in SUBSET (Request \X Nat)
    /\ upstream \in [Request -> Seq(Nat)]
    /\ outcome \in [Request -> Outcome]
    /\ keyless \in BOOLEAN
    /\ M!TypeOK

Ended(results) == {r \in Request : outcome[r] \in results}
InFlight == {r \in Request : pc[r] \notin {"idle", "over"}}
Reached == {r \in Request : Delivered(r)}

\* Each request is counted once when it starts and, if it fails, under one
\* error counter when it ends, however handlers interleave and wherever
\* clients go away: no failure is counted twice, under both, or for a request
\* that goes on.
OutcomesAreCounted ==
    /\ value["requests"]
          = Cardinality(InFlight) + Cardinality(Ended(Outcome \ {"open"}))
    /\ value["rejected_payloads"] = Cardinality(Ended(Refusal))
    /\ value["upstream_errors"]
          = Cardinality(Ended({"redaction_failed", "upstream_failed"}))

HeaderCounts(r, k) ==
    [i \in DOMAIN input[r].headers |-> HeaderReport(input[r].headers[i], keyless).by_type[k]]
Reported(r, k) == BodyReport(input[r].body).by_type[k] + SumFunction(HeaderCounts(r, k))

\* The body's bytes may count as forwarded.
Forwarding == {r \in Request :
                  \/ pc[r] \in {"headers", "awaiting", "relaying"}
                  \/ outcome[r] \in {"upstream_failed", "relayed", "relay_broken", "abandoned"}}

\* Metrics are never behind what the upstream has seen: whatever was removed
\* from a request that has reached it is in the counts by kind, and its bytes
\* in forwarded_bytes, before it gets there (lib.rs:281-293).  Nor are bytes
\* counted of a request that was refused, or those of any other twice, however
\* often redirects have the body sent again; those of a send that failed stay
\* in, though lib.rs:413 says "forwarded".
DeliveredIsCounted ==
    LET bytes == [r \in Request |-> RedactedLength(input[r].body)]
    IN /\ value["forwarded_bytes"] \in SumFunctionOnSet(bytes, Reached)
                                       .. SumFunctionOnSet(bytes, Forwarding)
       /\ \A k \in DetectorKind :
             by_type[k] >= SumFunctionOnSet([r \in Request |-> Reported(r, k)], Reached)

\* A header value goes on replaced or redacted, if it can be.
IsHidden(h, word, fails) ==
    /\ h.class = "sensitive" => word = "replaced"
    /\ h.class = "other" /\ h.visible /\ ~fails => word = "redacted"

\* The headers `out' are those of `given' that are not skipped, in their order,
\* place[j] the header the j-th comes from, each hidden.
IsRewriting(out, given, place, fails) ==
    /\ \A j, k \in DOMAIN out : j < k => place[j] < place[k]
    /\ \A i \in DOMAIN given :
          given[i].class # "skipped" <=> \E j \in DOMAIN out : place[j] = i
    /\ \A j \in DOMAIN out : IsHidden(given[place[j]], out[j], fails)

\* The first request that went out is the whole of input[r], redacted.
IsWhole(r) ==
    /\ sent[r][1].body = RedactedLength(input[r].body)
    /\ sent[r][1].referer = {}
    /\ \E place \in [DOMAIN sent[r][1].headers -> DOMAIN input[r].headers] :
          IsRewriting(sent[r][1].headers, input[r].headers, place, keyless)

\* A later one is a part of the first, with the URL before it as its Referer
\* at most.
IsPart(r, n) ==
    /\ sent[r][n].body \in {0, sent[r][1].body}
    /\ DOMAIN sent[r][n].headers \subseteq DOMAIN sent[r][1].headers
    /\ \A i \in DOMAIN sent[r][n].headers : sent[r][n].headers[i] = sent[r][1].headers[i]
    /\ sent[r][n].referer \subseteq {sent[r][n - 1].url}

\* The client's path and query are in what went out as they came: in the URL
\* of the first, and in the Referer of its first redirect at most.
GivesUrlAway(r, n) == TargetUrl(input[r].url) \in {sent[r][n].url} \cup sent[r][n].referer

\* What arrives anywhere for a request is the whole request, redacted, and,
\* when it is redirected (lib.rs:57, 293), parts of it: at most once each, in
\* any order, however many are lost.  Three things may be in it as the client sent
\* them: the path and query, which no detector sees (lib.rs:192, 289), in the
\* first two of them; a header value that is not visible ASCII; and, when the
\* engine has no key, any header value that its name does not give away.  Of
\* a request that is refused, for its size, its encoding or for want of a
\* key, nothing arrives.
DeliveredIsRedacted ==
    \A r \in Reached :
        LET b == input[r].body
        IN /\ outcome[r] \notin Refusal \cup {"redaction_failed"}
           /\ b.wire <= MaxBody /\ b.plain <= MaxBody
           /\ b.utf8 \/ b.plain = 0
           /\ IsInjective(upstream[r]) /\ Range(upstream[r]) \subseteq DOMAIN sent[r]
           /\ Len(sent[r]) <= MaxRedirects + 1
           /\ IsWhole(r)
           /\ \A n \in DOMAIN sent[r] \ {1} : IsPart(r, n)
           /\ \A n \in DOMAIN sent[r] : GivesUrlAway(r, n) => n <= 2

\* The handlers' steps are steps of the metrics: every theorem about
\* ProxyMetrics holds of them.
UsesMetrics == M!Spec

\* Once the body is in, the handler gets to its next await or its end, and
\* the report it has begun to record gets into the map; nothing it shares
\* with other handlers can hold it up.
HandlersProceed ==
    \A r \in Request :
        pc[r] \in {"received", "recorded", "headers"}
            ~> (pc[r] \in {"awaiting", "over"} /\ pending[r] = M!NoKinds)

\* Every request ends, when clients finish or close and upstreams answer or
\* close: no path of the handler waits for anything else.
RequestsEnd == PeersFair => \A r \in Request : pc[r] = "reading" ~> pc[r] = "over"
=============================================================================
