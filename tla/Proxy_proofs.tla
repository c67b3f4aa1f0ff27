---------------------------- MODULE Proxy_proofs ----------------------------
(***************************************************************************)
(* The handlers use the metrics as ProxyMetrics describes, whatever the    *)
(* requests, messages, limits and mode.                                    *)
(***************************************************************************)
EXTENDS Proxy, Basics_proofs

\* What the handler adds to a counter is among the amounts ProxyMetrics is
\* instantiated with.
LEMMA BodyAmounts ==
    ASSUME NEW m \in Message
    PROVE  /\ m.body.wire \in HandlerAmounts
           /\ RedactedLength(m.body) \in HandlerAmounts
  BY DEF HandlerAmounts, RedactedLength

\* So are the reports it records, for the body ...
LEMMA BodyReportIsRecorded ==
    ASSUME NEW m \in Message
    PROVE  BodyReport(m.body) \in HandlerReports
  BY DEF BodyReport, HandlerReports, BodyReports

\* ... and for each header.
LEMMA HeaderReportIsRecorded ==
    ASSUME NEW m \in Message, NEW i \in 1 .. Len(m.headers), NEW fails
    PROVE  HeaderReport(m.headers[i], fails) \in HandlerReports
  <1> DEFINE h == m.headers[i]
  <1>1. m.headers \in Seq(Header)
    BY MessageAssumption
  <1>2. h \in Header /\ i \in DOMAIN m.headers
    BY <1>1
  <1>3. h.kind \in DetectorKind
    BY <1>2 DEF Header
  <1>4. h.found \in HeaderReports
    BY <1>2 DEF HeaderReports
  <1>5. KindReport(h.kind) \in {KindReport(k) : k \in DetectorKind}
    BY <1>3
  <1> HIDE DEF h
  <1> QED
    BY <1>4, <1>5 DEF HeaderReport, HandlerReports, h

\* What is recorded for one sensitive header is a report of one detection.
LEMMA KindReportFacts ==
    ASSUME NEW k \in DetectorKind
    PROVE  /\ KindReport(k) \in Report
           /\ TotalIsSaturatedSum(KindReport(k))
           /\ SumOver(KindReport(k).by_type) <= MaxU64
  <1> DEFINE zero == [j \in DetectorKind |-> 0]
             one == [zero EXCEPT ![k] = SatAdd(@, 1)]
  <1>1. KindReport(k) \in Report /\ TotalIsSaturatedSum(KindReport(k))
    BY EmptyReportFacts, RecordFacts DEF KindReport
  <1>2. one[k] = 1 /\ \A j \in DetectorKind : j # k => one[j] = 0
    BY MaxU64Assumption DEF SatAdd, Capped
  <1>3. KindReport(k).by_type = one
    BY DEF KindReport, Record, EmptyReport
  <1> HIDE DEF one
  <1>4. SumOver(one) = 1
    BY <1>2 DEF SumOver, DetectorKind
  <1> QED
    BY <1>1, <1>3, <1>4, MaxU64Assumption

\* Everything handlers record is a report of the engine, below saturation.
LEMMA HandlerReportsFacts ==
    \A rep \in HandlerReports : /\ rep \in Report
                                /\ TotalIsSaturatedSum(rep)
                                /\ SumOver(rep.by_type) <= MaxU64
  <1> SUFFICES ASSUME NEW rep \in HandlerReports
               PROVE  /\ rep \in Report
                      /\ TotalIsSaturatedSum(rep)
                      /\ SumOver(rep.by_type) <= MaxU64
    OBVIOUS
  <1>1. CASE rep \in BodyReports
    BY <1>1, EngineAssumption, MessageAssumption DEF BodyReports, Body
  <1>2. CASE rep \in HeaderReports
    <2>1. PICK m \in Message :
             \E i \in DOMAIN m.headers : rep = m.headers[i].found
      BY <1>2 DEF HeaderReports
    <2>2. \A i \in DOMAIN m.headers : m.headers[i] \in Header
      BY MessageAssumption
    <2> QED
      BY <1>2, <2>1, <2>2, EngineAssumption DEF Header
  <1>3. CASE rep = EmptyReport
    <2>1. SumOver(EmptyReport.by_type) = 0
      BY DEF EmptyReport, SumOver, DetectorKind
    <2> QED
      BY <1>3, <2>1, EmptyReportFacts, MaxU64Assumption
  <1>4. CASE rep \in {KindReport(k) : k \in DetectorKind}
    BY <1>4, KindReportFacts
  <1> QED
    BY <1>1, <1>2, <1>3, <1>4 DEF HandlerReports

\* The handler's place in the message.
HandlerInv == /\ input \in [Request -> Message]
              /\ at \in [Request -> Nat \ {0}]

LEMMA HandlerInvHolds == Spec => []HandlerInv
  <1>1. Init => HandlerInv
    BY DEF Init, HandlerInv
  <1>2. HandlerInv /\ [Next]_vars => HandlerInv'
    <2> SUFFICES ASSUME HandlerInv, [Next]_vars PROVE HandlerInv'
      OBVIOUS
    <2>1. CASE UNCHANGED vars
      BY <2>1 DEF vars, handler, HandlerInv
    <2>2. ASSUME NEW r \in Request, NextHeader(r) PROVE HandlerInv'
      BY <2>2 DEF NextHeader, HandlerInv
    <2>3. ASSUME NEW r \in Request,
                 \/ Arrive(r) \/ Refuse(r) \/ RedactBody(r) \/ FinishReport(r)
                 \/ CountForwarded(r) \/ Send(r) \/ ClientSends(r)
                 \/ UpstreamAnswers(r) \/ Redirect(r) \/ Deliver(r) \/ Lose(r) \/ Abandon(r)
          PROVE  UNCHANGED <<input, at>>
      BY <2>3 DEF Arrive, Refuse, RedactBody, FinishReport, CountForwarded,
                  Send, ClientSends, BodyRead, BodyFails, UpstreamAnswers,
                  Respond, SendFails, Relay, Redirect, Deliver, Lose, Abandon, handler
    <2>4. ASSUME NEW s \in Scraper, Scrape(s) PROVE UNCHANGED <<input, at>>
      BY <2>4 DEF Scrape, handler
    <2>5. CASE Idle
      BY <2>5 DEF Idle, vars, handler, HandlerInv
    <2> QED
      BY <2>1, <2>2, <2>3, <2>4, <2>5 DEF Next, Handle, HandlerInv
  <1> QED
    BY <1>1, <1>2, PTL DEF Spec

\* One step of the proxy is one step of the metrics, or leaves them alone.
LEMMA StepUsesMetrics ==
    ASSUME HandlerInv, Next
    PROVE  [M!Next]_(M!vars)
  <1> DEFINE MStep == [M!Next]_(M!vars)
  <1>1. ASSUME UNCHANGED metrics PROVE MStep
    BY <1>1 DEF metrics, M!vars
  <1>2. ASSUME NEW r \in Request, NEW c \in HandlerCounters,
               NEW n \in HandlerAmounts, M!Count(r, c, n)
        PROVE  MStep
    BY <1>2 DEF M!Next
  <1>3. ASSUME NEW r \in Request, NEW rep \in HandlerReports, M!RecordTotal(r, rep)
        PROVE  MStep
    BY <1>3 DEF M!Next
  <1>4. ASSUME NEW r \in Request, FinishReport(r) PROVE MStep
    BY <1>4 DEF FinishReport, M!Next
  <1>5. ASSUME NEW s \in Scraper, Scrape(s) PROVE MStep
    BY <1>5 DEF Scrape, M!Next
  <1> HIDE DEF MStep
  <1>6. \A r \in Request : input[r] \in Message
    BY DEF HandlerInv
  <1>7. 1 \in HandlerAmounts
    BY DEF HandlerAmounts
  <1>8. ASSUME NEW r \in Request,
               \/ Arrive(r) \/ BodyFails(r) \/ Refuse(r) \/ SendFails(r)
        PROVE  MStep
    <2>1. \E c \in HandlerCounters : M!Count(r, c, 1)
      BY <1>8 DEF Arrive, BodyFails, Refuse, SendFails, HandlerCounters
    <2> QED
      BY <1>2, <1>7, <2>1
  <1>9. ASSUME NEW r \in Request, BodyRead(r) \/ CountForwarded(r)
        PROVE  MStep
    <2>1. \E c \in HandlerCounters, n \in HandlerAmounts : M!Count(r, c, n)
      BY <1>6, <1>9, BodyAmounts DEF BodyRead, CountForwarded, HandlerCounters
    <2> QED
      BY <1>2, <2>1
  <1>10. ASSUME NEW r \in Request, RedactBody(r) PROVE MStep
    BY <1>3, <1>6, <1>10, BodyReportIsRecorded DEF RedactBody
  <1>11. ASSUME NEW r \in Request, NextHeader(r) PROVE MStep
    <2>1. at[r] \in 1 .. Len(input[r].headers)
      <3>1. Len(input[r].headers) \in Nat
        BY <1>6, MessageAssumption
      <3> QED
        BY <1>11, <3>1 DEF NextHeader, HandlerInv
    <2>2. HeaderReport(input[r].headers[at[r]], keyless) \in HandlerReports
      BY <1>6, <2>1, HeaderReportIsRecorded
    <2>3. \/ M!RecordTotal(r, HeaderReport(input[r].headers[at[r]], keyless))
          \/ UNCHANGED metrics
      BY <1>11 DEF NextHeader
    <2> QED
      BY <1>1, <1>3, <2>2, <2>3
  <1>12. ASSUME NEW r \in Request,
                \/ Send(r) \/ Redirect(r) \/ Deliver(r) \/ Lose(r) \/ Respond(r)
                \/ Relay(r) \/ Abandon(r)
         PROVE  MStep
    BY <1>1, <1>12 DEF Send, Redirect, Deliver, Lose, Respond, Relay, Abandon
  <1>13. ASSUME Idle PROVE MStep
    BY <1>1, <1>13 DEF Idle, vars
  <1>14. MStep
    BY <1>4, <1>5, <1>8, <1>9, <1>10, <1>11, <1>12, <1>13
    DEF Next, Handle, ClientSends, UpstreamAnswers
  <1> QED
    BY <1>14 DEF MStep

\* The proxy implements ProxyMetrics: its handlers change the counters and
\* the map only by the steps ProxyMetrics allows, so that its invariants,
\* proved once for any tasks, hold of the proxy.
THEOREM ProxyUsesMetrics == Spec => UsesMetrics
  <1>1. Init => M!Init
    BY DEF Init
  <1>2. HandlerInv /\ [Next]_vars => [M!Next]_(M!vars)
    <2>1. CASE UNCHANGED vars
      BY <2>1 DEF vars, metrics, M!vars
    <2> QED
      BY <2>1, StepUsesMetrics
  <1> QED
    BY <1>1, <1>2, HandlerInvHolds, PTL DEF Spec, UsesMetrics, M!Spec

MP == INSTANCE ProxyMetrics_proofs WITH
        Task <- Request, Reports <- HandlerReports,
        Counted <- HandlerCounters, Amount <- HandlerAmounts



\* The two instances of ProxyMetrics are one specification.
LEMMA OneMetrics ==
    /\ M!Init <=> MP!Init
    /\ [M!Next]_(M!vars) <=> [MP!Next]_(MP!vars)
    /\ M!SnapshotCoversTypes <=> MP!SnapshotCoversTypes
  <1>1. M!Init <=> MP!Init
    BY DEF M!Init, MP!Init, M!Nothing, MP!Nothing, M!NoSnapshot, MP!NoSnapshot,
       M!NoCopy, MP!NoCopy, M!NoKinds, MP!NoKinds, M!Counter, MP!Counter,
       M!Actor, MP!Actor, M!EmptyReport, MP!EmptyReport, M!DetectorKind, MP!DetectorKind,
       M!SumOver, MP!SumOver, M!MergeTypes, MP!MergeTypes, M!SatAdd, MP!SatAdd,
       M!Capped, MP!Capped
  <1>2. M!Next <=> MP!Next
    BY DEF M!Next, MP!Next, M!Count, MP!Count, M!RecordTotal, MP!RecordTotal,
       M!RecordTypes, MP!RecordTypes, M!CopyTypes, MP!CopyTypes, M!LoadCounters, MP!LoadCounters,
       M!FetchAdd, MP!FetchAdd, M!Units, MP!Units, M!Visible, MP!Visible,
       M!JoinViews, MP!JoinViews, M!counters, MP!counters, M!NoCopy, MP!NoCopy,
       M!NoKinds, MP!NoKinds, M!Counter, MP!Counter, M!EmptyReport, MP!EmptyReport,
       M!DetectorKind, MP!DetectorKind, M!SumOver, MP!SumOver, M!MergeTypes, MP!MergeTypes,
       M!SatAdd, MP!SatAdd, M!Capped, MP!Capped
  <1>3. M!vars = MP!vars
    BY DEF M!vars, MP!vars
  <1>4. M!SnapshotCoversTypes <=> MP!SnapshotCoversTypes
    BY DEF M!SnapshotCoversTypes, MP!SnapshotCoversTypes, M!SumOver, MP!SumOver
  <1>5. [M!Next]_(M!vars) <=> [MP!Next]_(MP!vars)
    BY <1>2 DEF M!vars, MP!vars
  <1> QED
    BY <1>1, <1>4, <1>5

\* The proxy instantiates the metrics as they assume.
LEMMA MetricsAssumptions ==
    /\ MP!ReportsAssumption /\ MP!CountedAssumption
    /\ MP!ActorAssumption /\ MP!MaxU64Assumption
  <1>1. MP!ReportsAssumption
    BY HandlerReportsFacts
    DEF MP!ReportsAssumption, MP!Report, Report, MP!U64, U64, MP!DetectorKind,
        DetectorKind, MP!TotalIsSaturatedSum, TotalIsSaturatedSum,
        MP!Capped, Capped, MP!SumOver, SumOver
  <1>2. MP!CountedAssumption
    <2>1. HandlerAmounts \subseteq Nat
      BY MessageAssumption DEF HandlerAmounts, Body
    <2> QED
      BY <2>1 DEF MP!CountedAssumption, MP!Counter, HandlerCounters
  <1>3. MP!ActorAssumption
    BY ActorAssumption DEF MP!ActorAssumption
  <1>4. MP!MaxU64Assumption
    BY MaxU64Assumption DEF MP!MaxU64Assumption
  <1> QED
    BY <1>1, <1>2, <1>3, <1>4

\* Whatever requests arrive, however their handlers interleave and whatever
\* the relaxed loads return, no answer of the proxy's /metrics shows more
\* redactions by kind than in total.
THEOREM ProxySnapshotsCoverTypes == Spec => []M!SnapshotCoversTypes
  <1>1. MP!Spec => []MP!SnapshotCoversTypes
    BY MetricsAssumptions, MP!SnapshotsCoverTypes
  <1> QED
    BY <1>1, OneMetrics, ProxyUsesMetrics, PTL DEF UsesMetrics, M!Spec, MP!Spec

-----------------------------------------------------------------------------
(* What reaches the upstream.  While the handler is in its loop over the   *)
(* headers, `built' is a rewriting of those before `at'.                   *)
First(given, n) == [i \in 1 .. n |-> given[i]]

RewritesFirst(out, given, n, fails) ==
    \E place \in [DOMAIN out -> 1 .. n] : IsRewriting(out, First(given, n), place, fails)

LEMMA NothingRewritten == ASSUME NEW given, NEW fails PROVE RewritesFirst(<< >>, given, 0, fails)
  <1>1. DOMAIN << >> = {} /\ 1 .. 0 = {}
    OBVIOUS
  <1>2. [j \in {} |-> 0] \in [DOMAIN << >> -> 1 .. 0]
    BY <1>1
  <1>3. IsRewriting(<< >>, First(given, 0), [j \in {} |-> 0], fails)
    BY <1>1 DEF IsRewriting, First
  <1> QED
    BY <1>2, <1>3 DEF RewritesFirst

\* One turn of the loop: a header is left out ...
LEMMA NoMoreRewritten ==
    ASSUME NEW n \in Nat, NEW given, NEW fails, given[n + 1].class = "skipped",
           NEW out \in Seq(Word), RewritesFirst(out, given, n, fails)
    PROVE  RewritesFirst(out, given, n + 1, fails)
  <1> PICK place \in [DOMAIN out -> 1 .. n] : IsRewriting(out, First(given, n), place, fails)
    BY DEF RewritesFirst
  <1>1. place \in [DOMAIN out -> 1 .. n + 1]
    OBVIOUS
  <1>2. \A i \in 1 .. n : First(given, n)[i] = given[i] /\ First(given, n + 1)[i] = given[i]
    BY DEF First
  <1>3. \A j \in DOMAIN out : place[j] \in 1 .. n
    OBVIOUS
  <1>4. /\ \A j, k \in DOMAIN out : j < k => place[j] < place[k]
        /\ \A j \in DOMAIN out : IsHidden(First(given, n + 1)[place[j]], out[j], fails)
    BY <1>2, <1>3 DEF IsRewriting
  <1>5. ASSUME NEW i \in 1 .. n + 1
        PROVE  First(given, n + 1)[i].class # "skipped"
                  <=> \E j \in DOMAIN out : place[j] = i
    <2>1. CASE i \in 1 .. n
      <3>1. First(given, n)[i].class # "skipped" <=> \E j \in DOMAIN out : place[j] = i
        BY <2>1 DEF IsRewriting, First
      <3> QED
        BY <1>2, <2>1, <3>1
    <2>2. CASE i = n + 1
      <3>1. First(given, n + 1)[i] = given[n + 1]
        BY <2>2 DEF First
      <3>2. n + 1 \notin 1 .. n
        OBVIOUS
      <3> QED
        BY <1>3, <2>2, <3>1, <3>2
    <2> QED
      BY <2>1, <2>2
  <1>6. IsRewriting(out, First(given, n + 1), place, fails)
    BY <1>4, <1>5 DEF IsRewriting, First
  <1> QED
    BY <1>1, <1>6 DEF RewritesFirst

\* ... or goes on, hidden.
LEMMA OneMoreRewritten ==
    ASSUME NEW n \in Nat, NEW given, NEW fails, given[n + 1].class # "skipped",
           NEW out \in Seq(Word), RewritesFirst(out, given, n, fails),
           NEW w \in Word, IsHidden(given[n + 1], w, fails)
    PROVE  RewritesFirst(out \o <<w>>, given, n + 1, fails)
  <1> DEFINE l == Len(out) + 1
             more == out \o <<w>>
  <1> PICK place \in [DOMAIN out -> 1 .. n] : IsRewriting(out, First(given, n), place, fails)
    BY DEF RewritesFirst
  <1> DEFINE longer == [j \in 1 .. l |-> IF j = l THEN n + 1 ELSE place[j]]
  <1>l. /\ l \in Nat /\ DOMAIN out = 1 .. l - 1 /\ l \notin 1 .. l - 1
        /\ 1 .. l = (1 .. l - 1) \cup {l} /\ \A j \in 1 .. l - 1 : j < l
    BY LenProperties
  <1>n. /\ n + 1 \notin 1 .. n /\ 1 .. n + 1 = (1 .. n) \cup {n + 1}
        /\ \A i \in 1 .. n : i < n + 1 /\ ~(n + 1 < i)
    OBVIOUS
  <1>1. /\ DOMAIN more = 1 .. l /\ more[l] = w
        /\ \A j \in 1 .. l - 1 : more[j] = out[j]
    <2>1. <<w>> \in Seq(Word) /\ Len(<<w>>) = 1 /\ <<w>>[1] = w
      OBVIOUS
    <2>2. /\ more \in Seq(Word) /\ Len(more) = l
          /\ \A j \in 1 .. l : more[j] = IF j <= Len(out) THEN out[j] ELSE <<w>>[j - Len(out)]
      BY <2>1, ConcatProperties
    <2>3. Len(out) \in Nat
      BY LenProperties
    <2>4. more[l] = <<w>>[1]
      BY <2>2, <2>3
    <2> QED
      BY <2>1, <2>2, <2>3, <2>4, LenProperties
  <1>2. /\ longer[l] = n + 1
        /\ \A j \in 1 .. l - 1 : longer[j] = place[j] /\ longer[j] \in 1 .. n
    BY <1>l
  <1>3. longer \in [DOMAIN more -> 1 .. n + 1]
    BY <1>l, <1>n, <1>1
  <1>4. /\ \A i \in 1 .. n : First(given, n)[i] = given[i] /\ First(given, n + 1)[i] = given[i]
        /\ First(given, n + 1)[n + 1] = given[n + 1]
    BY DEF First
  <1> HIDE DEF more, longer, l
  <1>5. ASSUME NEW j \in 1 .. l, NEW k \in 1 .. l, j < k PROVE longer[j] < longer[k]
    <2>1. CASE k \in 1 .. l - 1
      <3>1. j \in 1 .. l - 1
        BY <1>l, <1>5, <2>1
      <3>2. place[j] < place[k]
        BY <1>l, <1>5, <2>1, <3>1 DEF IsRewriting
      <3> QED
        BY <1>2, <2>1, <3>1, <3>2
    <2>2. CASE k = l
      BY <1>l, <1>n, <1>2, <1>5, <2>2
    <2> QED
      BY <1>l, <2>1, <2>2
  <1>6. ASSUME NEW j \in 1 .. l PROVE IsHidden(First(given, n + 1)[longer[j]], more[j], fails)
    <2>1. CASE j \in 1 .. l - 1
      <3>1. IsHidden(First(given, n)[place[j]], out[j], fails)
        BY <1>l, <2>1 DEF IsRewriting
      <3> QED
        BY <1>1, <1>2, <1>4, <2>1, <3>1
    <2>2. CASE j = l
      BY <1>1, <1>2, <1>4, <2>2
    <2> QED
      BY <1>l, <2>1, <2>2
  <1>7. ASSUME NEW i \in 1 .. n + 1
        PROVE  First(given, n + 1)[i].class # "skipped" <=> \E j \in 1 .. l : longer[j] = i
    <2>1. CASE i \in 1 .. n
      <3>1. First(given, n)[i].class # "skipped" <=> \E j \in 1 .. l - 1 : place[j] = i
        BY <1>l, <2>1 DEF IsRewriting, First
      <3>2. (\E j \in 1 .. l - 1 : place[j] = i) <=> \E j \in 1 .. l : longer[j] = i
        BY <1>l, <1>n, <1>2, <2>1
      <3> QED
        BY <1>4, <2>1, <3>1, <3>2
    <2>2. CASE i = n + 1
      BY <1>l, <1>2, <1>4, <2>2
    <2> QED
      BY <1>n, <2>1, <2>2
  <1>8. IsRewriting(more, First(given, n + 1), longer, fails)
    BY <1>1, <1>5, <1>6, <1>7 DEF IsRewriting, First
  <1> QED
    BY <1>3, <1>8 DEF RewritesFirst, more

\* Nothing stood in the body's way.
Passed(r) == LET b == input[r].body
             IN b.wire <= MaxBody /\ Decoded(b) = "ok" /\ Redacted(b, keyless) = "ok"

HandedOver(r) == sent[r] # << >>

Redirected == {<<"location", l>> : l \in Location}

\* What went out: the whole request, and parts of it to other URLs.
OutInv(r) ==
    HandedOver(r) => /\ Len(sent[r]) <= MaxRedirects + 1
                     /\ sent[r][1] = Outgoing(r)
                     /\ \A n \in 2 .. Len(sent[r]) : IsPart(r, n) /\ sent[r][n].url \in Redirected

\* What arrived is no longer on the wire.
ArrivedInv(r) ==
    /\ \A n : <<r, n>> \in wire => n \in 1 .. Len(sent[r]) /\ n \notin Range(upstream[r])
    /\ Range(upstream[r]) \subseteq 1 .. Len(sent[r])
    /\ IsInjective(upstream[r])

RequestInv(r) ==
    /\ at[r] - 1 <= Len(input[r].headers) /\ Len(built[r]) <= at[r] - 1
    /\ RewritesFirst(built[r], input[r].headers, at[r] - 1, keyless)
    /\ pc[r] # "over" => outcome[r] = "open"
    /\ pc[r] = "received" => input[r].body.wire <= MaxBody
    /\ pc[r] \in {"recorded", "headers", "awaiting", "relaying"} \/ HandedOver(r) => Passed(r)
    /\ pc[r] \in {"awaiting", "relaying"} \/ HandedOver(r) => at[r] - 1 = Len(input[r].headers)
    /\ HandedOver(r) => /\ pc[r] \in {"awaiting", "relaying", "over"}
                        /\ outcome[r] \notin Refusal \cup {"redaction_failed"}
    /\ OutInv(r) /\ ArrivedInv(r)

DeliveryTypes == /\ HandlerInv
                 /\ pc \in [Request -> Label]
                 /\ built \in [Request -> Seq(Word)]
                 /\ sent \in [Request -> Seq(Sent)]
                 /\ wire \subseteq Request \X Nat
                 /\ upstream \in [Request -> Seq(Nat)]
                 /\ outcome \in [Request -> Outcome]
                 /\ keyless \in BOOLEAN

DeliveryInv == DeliveryTypes /\ \A r \in Request : RequestInv(r)

\* What has arrived has been sent.
LEMMA ArrivedWasSent ==
    ASSUME DeliveryInv, NEW r \in Request, Delivered(r)
    PROVE  HandedOver(r)
  <1>1. upstream[r] \in Seq(Nat) /\ upstream[r] # << >> /\ sent[r] \in Seq(Sent)
    BY DEF DeliveryInv, DeliveryTypes, Delivered
  <1>2. upstream[r][1] \in Range(upstream[r])
    BY <1>1 DEF Range
  <1>3. Len(sent[r]) # 0
    BY <1>2 DEF DeliveryInv, RequestInv, ArrivedInv
  <1> QED
    BY <1>1, <1>3 DEF HandedOver

LEMMA InitDelivery == Init => DeliveryInv
  <1> SUFFICES ASSUME Init PROVE DeliveryInv
    OBVIOUS
  <1>1. DeliveryTypes
    BY EmptySeq DEF Init, DeliveryTypes, HandlerInv, Label, Outcome
  <1>2. ASSUME NEW r \in Request PROVE RequestInv(r)
    <2>1. /\ pc[r] = "idle" /\ outcome[r] = "open" /\ built[r] = << >> /\ at[r] = 1 /\ input[r] \in Message
          /\ sent[r] = << >> /\ wire = {} /\ upstream[r] = << >>
      BY DEF Init
    <2>2. Len(input[r].headers) \in Nat /\ Len(built[r]) = 0
      BY <2>1, MessageAssumption, LenProperties
    <2>3. at[r] - 1 = 0
      BY <2>1
    <2>4. RewritesFirst(built[r], input[r].headers, at[r] - 1, keyless)
      BY <2>1, <2>3, NothingRewritten
    <2>5. ~HandedOver(r)
      BY <2>1 DEF HandedOver
    <2>6. ArrivedInv(r)
      BY <2>1 DEF ArrivedInv, Range, IsInjective
    <2> QED
      BY <2>1, <2>2, <2>3, <2>4, <2>5, <2>6 DEF RequestInv, OutInv
  <1> QED
    BY <1>1, <1>2 DEF DeliveryInv

\* What went out and what arrived stay as they are, ...
LEMMA SameOut ==
    ASSUME NEW q, OutInv(q), ArrivedInv(q), input'[q] = input[q],
           built'[q] = built[q] \/ ~HandedOver(q),
           sent'[q] = sent[q], upstream'[q] = upstream[q],
           \A n : <<q, n>> \in wire' <=> <<q, n>> \in wire
    PROVE  /\ OutInv(q)' /\ ArrivedInv(q)'
           /\ HandedOver(q)' <=> HandedOver(q)
  <1>1. HandedOver(q)' <=> HandedOver(q)
    BY DEF HandedOver
  <1>2. ArrivedInv(q)'
    BY DEF ArrivedInv
  <1>3. OutInv(q)'
    <2>1. \A n : IsPart(q, n)' <=> IsPart(q, n)
      BY DEF IsPart
    <2>2. HandedOver(q) => Outgoing(q)' = Outgoing(q)
      BY DEF Outgoing
    <2> QED
      BY <1>1, <2>1, <2>2 DEF OutInv
  <1> QED
    BY <1>1, <1>2, <1>3

\* ... and with them all of the request.
LEMMA SameRequest ==
    ASSUME NEW q \in Request, RequestInv(q), keyless' = keyless,
           pc'[q] = pc[q], input'[q] = input[q], at'[q] = at[q], built'[q] = built[q],
           \A n : <<q, n>> \in wire' <=> <<q, n>> \in wire,
           sent'[q] = sent[q], upstream'[q] = upstream[q], outcome'[q] = outcome[q]
    PROVE  RequestInv(q)'
  <1>1. OutInv(q)' /\ ArrivedInv(q)' /\ (HandedOver(q)' <=> HandedOver(q))
    BY SameOut DEF RequestInv
  <1> QED
    BY <1>1 DEF RequestInv, Passed

\* What every handler's step does to the handlers' state, whichever it is.
LEMMA OnlyOne ==
    ASSUME DeliveryTypes, NEW r \in Request,
           \/ Arrive(r) \/ Handle(r) \/ ClientSends(r) \/ UpstreamAnswers(r)
           \/ Redirect(r) \/ Deliver(r) \/ Lose(r) \/ Abandon(r)
    PROVE  /\ input' = input /\ keyless' = keyless
           /\ \A q \in Request \ {r} :
                 /\ pc'[q] = pc[q] /\ at'[q] = at[q] /\ built'[q] = built[q]
                 /\ sent'[q] = sent[q] /\ \A n : <<q, n>> \in wire' <=> <<q, n>> \in wire
                 /\ upstream'[q] = upstream[q] /\ outcome'[q] = outcome[q]
  <1>1. CASE Arrive(r) \/ ClientSends(r) \/ UpstreamAnswers(r) \/ Abandon(r)
    BY <1>1 DEF DeliveryTypes, Arrive, ClientSends, BodyRead, BodyFails, UpstreamAnswers,
                Respond, SendFails, Relay, Abandon, Goto, End
  <1>2. CASE Redirect(r) \/ Deliver(r) \/ Lose(r)
    BY <1>2 DEF DeliveryTypes, Redirect, Deliver, Lose
  <1>3. CASE Handle(r)
    BY <1>3 DEF DeliveryTypes, HandlerInv, Handle, Refuse, RedactBody, FinishReport,
                CountForwarded, NextHeader, Send, Goto, End, handler
  <1> QED
    BY <1>1, <1>2, <1>3

\* What goes out first ...
LEMMA SendOut ==
    ASSUME DeliveryTypes, NEW r \in Request, RequestInv(r), Send(r)
    PROVE  sent' \in [Request -> Seq(Sent)] /\ OutInv(r)' /\ ArrivedInv(r)'
  <1> DEFINE out == Outgoing(r)
  <1>1. /\ input[r] \in Message /\ input[r].headers \in Seq(Header) /\ built[r] \in Seq(Word)
        /\ Len(built[r]) \in Nat /\ Len(input[r].headers) \in Nat /\ at[r] \in Nat
    BY MessageAssumption, LenProperties DEF DeliveryTypes, HandlerInv
  <1>2. RedactedLength(input[r].body) \in Nat
    BY <1>1, MessageAssumption DEF RedactedLength, Body
  <1>3. 1 .. Len(built[r]) \in SUBSET Position
    <2>1. 1 .. Len(built[r]) \subseteq DOMAIN input[r].headers
      BY <1>1 DEF RequestInv
    <2> QED
      BY <1>1, <2>1 DEF Position
  <1>4. built[r] \in [1 .. Len(built[r]) -> Word]
    BY <1>1
  <1>5. out \in Sent
    <2>1. built[r] \in UNION {[kept -> Word] : kept \in SUBSET Position}
      BY <1>3, <1>4
    <2>2. TargetUrl(input[r].url) \in Url
      BY <1>1 DEF Url
    <2> QED
      BY <1>2, <2>1, <2>2 DEF Outgoing, Sent
  <1>6. ~HandedOver(r) /\ pc[r] = "headers"
    BY DEF Send, RequestInv
  <1>7. /\ sent' = [sent EXCEPT ![r] = <<out>>] /\ wire' = wire \cup {<<r, 1>>}
        /\ UNCHANGED <<input, built, upstream>>
    BY DEF Send
  <1>8. sent'[r] = <<out>> /\ Len(sent'[r]) = 1 /\ sent'[r][1] = out
    BY <1>7 DEF DeliveryTypes
  <1>9. sent' \in [Request -> Seq(Sent)]
    <2> HIDE DEF out
    <2>1. <<out>> \in Seq(Sent)
      BY <1>5
    <2> QED
      BY <1>7, <2>1 DEF DeliveryTypes
  <1>10. Outgoing(r)' = out
    BY <1>7 DEF Outgoing
  <1>11. OutInv(r)'
    <2>1. 2 .. Len(sent'[r]) = {}
      BY <1>8
    <2>2. Len(sent'[r]) <= MaxRedirects + 1
      BY <1>8, RedirectsAssumption
    <2> HIDE DEF out
    <2> QED
      BY <1>8, <1>10, <2>1, <2>2 DEF OutInv
  <1>12. upstream[r] = << >>
    <2>1. Len(sent[r]) = 0
      BY <1>6 DEF HandedOver
    <2>2. Range(upstream[r]) = {}
      BY <2>1 DEF RequestInv, ArrivedInv
    <2>3. upstream[r] \in Seq(Nat)
      BY DEF DeliveryTypes
    <2>4. Len(upstream[r]) = 0
      <3> SUFFICES ASSUME Len(upstream[r]) # 0 PROVE FALSE
        OBVIOUS
      <3>1. 1 \in DOMAIN upstream[r]
        BY <2>3, LenProperties
      <3> QED
        BY <2>2, <3>1 DEF Range
    <2> QED
      BY <2>3, <2>4, EmptySeq
  <1>13. ArrivedInv(r)'
    <2>1. Len(sent[r]) = 0
      BY <1>6 DEF HandedOver
    <2>2. \A n : <<r, n>> \in wire' => n = 1
      BY <1>7, <2>1 DEF RequestInv, ArrivedInv
    <2>3. upstream'[r] = << >> /\ Range(upstream'[r]) = {} /\ IsInjective(upstream'[r])
      BY <1>7, <1>12 DEF Range, IsInjective
    <2> QED
      BY <1>8, <2>2, <2>3 DEF ArrivedInv
  <1> QED
    BY <1>9, <1>11, <1>13

\* ... and what goes out next.
LEMMA RedirectOut ==
    ASSUME DeliveryTypes, NEW r \in Request, RequestInv(r), Redirect(r)
    PROVE  /\ sent' \in [Request -> Seq(Sent)] /\ OutInv(r)' /\ ArrivedInv(r)'
           /\ HandedOver(r) /\ HandedOver(r)'
  <1> DEFINE n == Len(sent[r])
             last == sent[r][n]
  <1>1. /\ sent[r] \in Seq(Sent) /\ n \in Nat /\ n > 0 /\ n <= MaxRedirects
        /\ wire' = wire \cup {<<r, n + 1>>} /\ UNCHANGED <<input, built, upstream>>
    BY LenProperties DEF Redirect, Answerable, DeliveryTypes
  <1>l. PICK l \in Location : \E next \in Redirections(last, l) :
           sent' = [sent EXCEPT ![r] = Append(@, next)]
    BY DEF Redirect
  <1>2. PICK next \in Redirections(last, l) : sent' = [sent EXCEPT ![r] = Append(@, next)]
    BY <1>l
  <1>3. PICK referer \in {{}, {last.url}}, body \in {0, last.body},
             kept \in SUBSET DOMAIN last.headers :
           next = [url |-> <<"location", l>>, referer |-> referer, body |-> body,
                   headers |-> Restrict(last.headers, kept)]
    <2> HIDE DEF last
    <2> QED
      BY <1>2 DEF Redirections
  <1>4. last \in Sent
    BY <1>1
  <1>5. PICK had \in SUBSET Position : last.headers \in [had -> Word]
    BY <1>4 DEF Sent
  <1>6. /\ next.headers \in [kept -> Word] /\ kept \subseteq had
        /\ \A i \in kept : next.headers[i] = last.headers[i]
    BY <1>3, <1>5 DEF Restrict
  <1>7. next \in Sent
    <2>1. next.url \in Url /\ next.referer \in SUBSET Url /\ next.body \in Nat
      BY <1>3, <1>4 DEF Sent, Url
    <2>2. next.headers \in UNION {[had2 -> Word] : had2 \in SUBSET Position}
      BY <1>5, <1>6
    <2> QED
      BY <1>3, <2>1, <2>2 DEF Sent
  <1>8. /\ next.url \in Redirected /\ next.referer \subseteq {last.url}
        /\ next.body \in {0, last.body}
    BY <1>3 DEF Redirected
  <1>9. sent' = [sent EXCEPT ![r] = Append(sent[r], next)]
    BY <1>2
  <1> HIDE DEF last
  <1>10. /\ Append(sent[r], next) \in Seq(Sent) /\ Len(Append(sent[r], next)) = n + 1
         /\ Append(sent[r], next)[n + 1] = next
         /\ \A i \in 1 .. n : Append(sent[r], next)[i] = sent[r][i]
    BY <1>1, <1>7, AppendProperties
  <1>11. sent'[r] = Append(sent[r], next)
    BY <1>9 DEF DeliveryTypes
  <1>12. sent' \in [Request -> Seq(Sent)]
    BY <1>9, <1>10 DEF DeliveryTypes
  <1>13. HandedOver(r) /\ HandedOver(r)'
    <2>1. sent[r] # << >>
      BY <1>1
    <2>2. Len(sent'[r]) # 0
      BY <1>1, <1>10, <1>11
    <2> QED
      BY <2>1, <2>2 DEF HandedOver
  <1>14. ASSUME NEW k, k = n + 1 PROVE IsPart(r, k)'
    <2>1. sent'[r][k] = next /\ sent'[r][k - 1] = last /\ sent'[r][1] = sent[r][1]
      BY <1>1, <1>10, <1>11, <1>14 DEF last
    <2>2. /\ last.body \in {0, sent[r][1].body}
          /\ DOMAIN last.headers \subseteq DOMAIN sent[r][1].headers
          /\ \A i \in DOMAIN last.headers : last.headers[i] = sent[r][1].headers[i]
      <3>1. CASE n = 1
        BY <3>1 DEF last
      <3>2. CASE n # 1
        <4>1. n \in 2 .. Len(sent[r])
          <5> DEFINE m == Len(sent[r])
          <5>1. m \in Nat /\ m > 0 /\ m # 1
            BY <1>1, <3>2
          <5> HIDE DEF m
          <5>2. m \in 2 .. m
            BY <5>1
          <5> QED
            BY <5>2 DEF m
        <4>2. IsPart(r, n)
          BY <1>13, <4>1 DEF RequestInv, OutInv
        <4> QED
          BY <4>2 DEF IsPart, last
      <3> QED
        BY <3>1, <3>2
    <2>3. DOMAIN next.headers = kept /\ DOMAIN last.headers = had
      BY <1>5, <1>6
    <2>4. next.body \in {0, sent[r][1].body}
      BY <1>8, <2>2
    <2>5. DOMAIN next.headers \subseteq DOMAIN sent[r][1].headers
      BY <1>6, <2>2, <2>3
    <2>6. \A i \in DOMAIN next.headers : next.headers[i] = sent[r][1].headers[i]
      BY <1>6, <2>2, <2>3
    <2> QED
      BY <1>8, <2>1, <2>4, <2>5, <2>6 DEF IsPart
  <1>15. ASSUME NEW i \in 2 .. n PROVE IsPart(r, i)'
    <2>1. IsPart(r, i)
      BY <1>13 DEF RequestInv, OutInv
    <2>2. sent'[r][i] = sent[r][i] /\ sent'[r][i - 1] = sent[r][i - 1] /\ sent'[r][1] = sent[r][1]
      BY <1>1, <1>10, <1>11
    <2> QED
      BY <2>1, <2>2 DEF IsPart
  <1>16. OutInv(r)'
    <2>1. 2 .. Len(sent'[r]) = (2 .. n) \cup {n + 1} /\ Len(sent'[r]) = n + 1
      BY <1>1, <1>10, <1>11
    <2>2. Len(sent'[r]) <= MaxRedirects + 1
      BY <1>1, <2>1, RedirectsAssumption
    <2>3. sent'[r][1] = Outgoing(r)'
      BY <1>1, <1>10, <1>11, <1>13 DEF RequestInv, OutInv, Outgoing
    <2>4. \A i \in 2 .. Len(sent'[r]) : sent'[r][i].url \in Redirected
      <3>1. \A i \in 2 .. n : sent[r][i].url \in Redirected /\ sent'[r][i] = sent[r][i]
        BY <1>1, <1>10, <1>11, <1>13 DEF RequestInv, OutInv
      <3> QED
        BY <1>8, <1>10, <1>11, <2>1, <3>1
    <2>5. \A i \in 2 .. Len(sent'[r]) : IsPart(r, i)'
      BY <1>14, <1>15, <2>1
    <2> QED
      BY <2>2, <2>3, <2>4, <2>5 DEF OutInv
  <1>17. ArrivedInv(r)'
    <2>1. Len(sent'[r]) = n + 1 /\ upstream'[r] = upstream[r]
      BY <1>1, <1>10, <1>11
    <2>2. Range(upstream[r]) \subseteq 1 .. n
      BY DEF RequestInv, ArrivedInv
    <2>3. ASSUME NEW i, <<r, i>> \in wire'
          PROVE  i \in 1 .. n + 1 /\ i \notin Range(upstream[r])
      <3>1. CASE <<r, i>> \in wire
        BY <1>1, <3>1 DEF RequestInv, ArrivedInv
      <3>2. CASE i = n + 1
        BY <1>1, <2>2, <3>2
      <3> QED
        BY <1>1, <2>3, <3>1, <3>2
    <2>4. 1 .. n \subseteq 1 .. n + 1
      BY <1>1
    <2> QED
      BY <2>1, <2>2, <2>3, <2>4 DEF RequestInv, ArrivedInv
  <1> QED
    BY <1>12, <1>13, <1>16, <1>17

\* Delivery and loss take a request off the wire.
LEMMA WireOut ==
    ASSUME DeliveryTypes, NEW r \in Request, RequestInv(r), Deliver(r) \/ Lose(r)
    PROVE  /\ wire' \subseteq Request \X Nat /\ upstream' \in [Request -> Seq(Nat)]
           /\ OutInv(r)' /\ ArrivedInv(r)' /\ (HandedOver(r)' <=> HandedOver(r))
  <1>1. /\ UNCHANGED <<input, built, sent>>
        /\ \E n \in DOMAIN sent[r] :
              /\ <<r, n>> \in wire /\ wire' = wire \ {<<r, n>>}
              /\ \/ upstream' = upstream
                 \/ upstream' = [upstream EXCEPT ![r] = Append(@, n)]
    BY DEF Deliver, Lose
  <1>2. PICK n \in DOMAIN sent[r] :
              /\ <<r, n>> \in wire /\ wire' = wire \ {<<r, n>>}
              /\ \/ upstream' = upstream
                 \/ upstream' = [upstream EXCEPT ![r] = Append(@, n)]
    BY <1>1
  <1>3. (HandedOver(r)' <=> HandedOver(r)) /\ OutInv(r)'
    BY <1>1 DEF HandedOver, RequestInv, OutInv, IsPart, Outgoing
  <1>4. n \in Nat /\ n \in 1 .. Len(sent[r]) /\ n \notin Range(upstream[r])
    BY <1>2 DEF RequestInv, ArrivedInv
  <1>5. CASE upstream' = upstream
    <2>1. ArrivedInv(r)'
      BY <1>1, <1>2, <1>5 DEF RequestInv, ArrivedInv
    <2> QED
      BY <1>2, <1>3, <1>5, <2>1 DEF DeliveryTypes
  <1>6. CASE upstream' = [upstream EXCEPT ![r] = Append(@, n)]
    <2> DEFINE u == upstream[r]
               k == Len(u)
    <2>1. u \in Seq(Nat) /\ k \in Nat /\ upstream'[r] = Append(u, n)
      BY <1>6, LenProperties DEF DeliveryTypes
    <2>2. /\ Append(u, n) \in Seq(Nat) /\ DOMAIN Append(u, n) = 1 .. k + 1
          /\ Append(u, n)[k + 1] = n /\ DOMAIN u = 1 .. k
          /\ \A i \in 1 .. k : Append(u, n)[i] = u[i]
      BY <1>4, <2>1, AppendProperties, LenProperties
    <2>3. 1 .. k + 1 = (1 .. k) \cup {k + 1} /\ \A i \in 1 .. k : u[i] # n
      <3>1. \A i \in 1 .. k : u[i] \in Range(u)
        BY <2>2 DEF Range
      <3>2. k \in Nat
        BY <2>1
      <3> HIDE DEF u, k
      <3>3. 1 .. k + 1 = (1 .. k) \cup {k + 1}
        BY <3>2
      <3> QED
        BY <1>4, <3>1, <3>3 DEF u
    <2>4. Range(upstream'[r]) = Range(u) \cup {n}
      BY <2>1, <2>2, <2>3 DEF Range
    <2>5. IsInjective(upstream'[r])
      <3>1. \A i, j \in 1 .. k : u[i] = u[j] => i = j
        BY <2>2 DEF RequestInv, ArrivedInv, IsInjective
      <3> HIDE DEF u, k
      <3> QED
        BY <2>1, <2>2, <2>3, <3>1 DEF IsInjective
    <2>6. ArrivedInv(r)'
      BY <1>1, <1>2, <1>4, <2>4, <2>5 DEF RequestInv, ArrivedInv
    <2>7. upstream' \in [Request -> Seq(Nat)]
      BY <1>6, <2>1, <2>2 DEF DeliveryTypes
    <2> QED
      BY <1>2, <1>3, <2>6, <2>7 DEF DeliveryTypes
  <1> QED
    BY <1>2, <1>5, <1>6

LEMMA NextDelivery ==
    ASSUME DeliveryInv, Next
    PROVE  DeliveryInv'
  <1> USE DEF DeliveryInv
  <1>m. \A r \in Request : /\ input[r] \in Message /\ input[r].body \in Body
                           /\ input[r].headers \in Seq(Header)
                           /\ Len(input[r].headers) \in Nat
                           /\ at[r] \in Nat \ {0}
                           /\ built[r] \in Seq(Word) /\ Len(built[r]) \in Nat
    BY MessageAssumption, LenProperties DEF DeliveryTypes, HandlerInv
  <1>n. ASSUME UNCHANGED handler PROVE DeliveryInv'
    <2>1. DeliveryTypes'
      BY <1>n DEF handler, DeliveryTypes, HandlerInv
    <2> QED
      BY <1>n, <2>1, SameRequest DEF handler
  <1>r. ASSUME NEW r \in Request,
               \/ Arrive(r) \/ Handle(r) \/ ClientSends(r) \/ UpstreamAnswers(r)
               \/ Redirect(r) \/ Deliver(r) \/ Lose(r) \/ Abandon(r)
        PROVE  DeliveryInv'
    <2>o. \A q \in Request \ {r} : RequestInv(q)'
      BY <1>r, OnlyOne, SameRequest
    <2>i. RequestInv(r) /\ input' = input /\ keyless' = keyless
      BY <1>r, OnlyOne
    <2>q. ASSUME UNCHANGED <<sent, wire, upstream>>, built'[r] = built[r] \/ ~HandedOver(r)
          PROVE  OutInv(r)' /\ ArrivedInv(r)' /\ (HandedOver(r)' <=> HandedOver(r))
      BY <2>i, <2>q, SameOut DEF RequestInv
    <2> SUFFICES DeliveryTypes' /\ RequestInv(r)'
      BY <2>o
    <2>1. CASE Arrive(r) \/ BodyRead(r)
      <3>1. DeliveryTypes'
        BY <2>1 DEF Arrive, BodyRead, Goto, DeliveryTypes, HandlerInv, Label
      <3>2. OutInv(r)' /\ ArrivedInv(r)' /\ (HandedOver(r)' <=> HandedOver(r))
        BY <2>1, <2>q DEF Arrive, BodyRead
      <3>3. RequestInv(r)'
        BY <2>1, <2>i, <3>2 DEF Arrive, BodyRead, Goto, DeliveryTypes, RequestInv, Passed
      <3> QED
        BY <3>1, <3>3
    <2>2. CASE BodyFails(r) \/ Refuse(r)
      <3>1. \E o \in Outcome : End(r, o) /\ UNCHANGED <<input, at, built, sent, wire, upstream, keyless>>
        BY <2>2 DEF BodyFails, Refuse, Outcome, Refusal, Decoded, Redacted
      <3>2. DeliveryTypes'
        BY <3>1 DEF End, Goto, DeliveryTypes, HandlerInv, Label
      <3>3. ~HandedOver(r) /\ pc[r] \in {"reading", "received"}
        BY <2>2, <2>i DEF BodyFails, Refuse, RequestInv
      <3>4. OutInv(r)' /\ ArrivedInv(r)' /\ ~HandedOver(r)'
        BY <2>q, <3>1, <3>3
      <3>5. RequestInv(r)'
        BY <2>i, <3>1, <3>3, <3>4 DEF End, Goto, DeliveryTypes, RequestInv
      <3> QED
        BY <3>2, <3>5
    <2>3. CASE RedactBody(r) \/ CountForwarded(r) \/ Respond(r)
      <3>1. DeliveryTypes'
        BY <2>3 DEF RedactBody, CountForwarded, Respond, Goto, DeliveryTypes, HandlerInv, Label
      <3>2. OutInv(r)' /\ ArrivedInv(r)' /\ (HandedOver(r)' <=> HandedOver(r))
        BY <2>3, <2>q DEF RedactBody, CountForwarded, Respond
      <3>3. RequestInv(r)'
        BY <2>3, <2>i, <3>2 DEF RedactBody, CountForwarded, Respond, Goto, DeliveryTypes,
                                RequestInv, Passed
      <3> QED
        BY <3>1, <3>3
    <2>4. CASE NextHeader(r)
      <3> DEFINE h == input[r].headers[at[r]]
                 more == Rewritten(h, keyless)
      <3>1. h \in Header /\ at[r] = (at[r] - 1) + 1 /\ at[r] - 1 \in Nat
        BY <1>m, <2>4 DEF NextHeader
      <3>2. /\ pc[r] = "headers" /\ ~HandedOver(r) /\ at[r] <= Len(input[r].headers)
            /\ built'[r] = built[r] \o more /\ at'[r] = at[r] + 1
            /\ pc' = pc /\ sent' = sent /\ wire' = wire /\ upstream' = upstream /\ outcome' = outcome
        BY <2>4, <2>i DEF NextHeader, DeliveryTypes, HandlerInv, RequestInv
      <3>3. RewritesFirst(built[r] \o more, input[r].headers, at[r], keyless)
        <4>1. CASE h.class = "skipped"
          <5>1. built[r] \o more = built[r]
            BY <1>m, <4>1, ConcatEmptySeq DEF Rewritten
          <5> QED
            BY <1>m, <2>i, <3>1, <4>1, <5>1, NoMoreRewritten DEF RequestInv
        <4>2. CASE h.class # "skipped"
          <5>w. PICK w \in Word : more = <<w>> /\ IsHidden(h, w, keyless)
            BY <4>2 DEF Rewritten, IsHidden, Word
          <5> HIDE DEF more
          <5>1. RewritesFirst(built[r], input[r].headers, at[r] - 1, keyless)
            BY <2>i DEF RequestInv
          <5>2. RewritesFirst(built[r] \o <<w>>, input[r].headers, at[r] - 1 + 1, keyless)
            BY <1>m, <3>1, <4>2, <5>w, <5>1, OneMoreRewritten
          <5> QED
            BY <3>1, <5>w, <5>2
        <4> QED
          BY <4>1, <4>2
      <3>w. more \in Seq(Word) /\ Len(more) \in {0, 1}
        <4>1. more \in {<< >>, <<"replaced">>, <<"redacted">>, <<"raw">>}
          BY DEF Rewritten
        <4>2. {<< >>, <<"replaced">>, <<"redacted">>, <<"raw">>} \subseteq Seq(Word)
          BY EmptySeq DEF Word
        <4> HIDE DEF h, more
        <4>3. Len(more) \in {0, 1}
          BY <4>1
        <4> QED
          BY <4>1, <4>2, <4>3
      <3> HIDE DEF h, more
      <3>c. built[r] \o more \in Seq(Word) /\ Len(built[r] \o more) <= at[r]
        <4>1. built[r] \o more \in Seq(Word) /\ Len(built[r] \o more) = Len(built[r]) + Len(more)
          BY <1>m, <3>w, ConcatProperties
        <4>2. Len(built[r]) <= at[r] - 1
          BY <2>i DEF RequestInv
        <4>3. /\ Len(built[r]) \in Nat /\ at[r] \in Nat
              /\ Len(more) = 0 \/ Len(more) = 1
          BY <1>m, <3>w
        <4>4. Len(built[r]) + Len(more) <= at[r]
          <5>1. \A i, j \in Nat : i <= j - 1 => i + 0 <= j /\ i + 1 <= j
            OBVIOUS
          <5> QED
            BY <4>2, <4>3, <5>1
        <4> QED
          BY <4>1, <4>4
      <3>4. DeliveryTypes'
        <4>1. /\ built' = [built EXCEPT ![r] = built[r] \o more]
              /\ at' = [at EXCEPT ![r] = at[r] + 1]
              /\ UNCHANGED <<pc, input, sent, wire, upstream, outcome, keyless>>
          BY <2>4 DEF NextHeader, h, more
        <4>2. at' \in [Request -> Nat \ {0}] /\ built' \in [Request -> Seq(Word)]
          BY <1>m, <3>c, <4>1 DEF DeliveryTypes, HandlerInv
        <4> QED
          BY <4>1, <4>2 DEF DeliveryTypes, HandlerInv
      <3>5. at'[r] - 1 = at[r]
        BY <1>m, <3>2
      <3>6. OutInv(r)' /\ ArrivedInv(r)' /\ ~HandedOver(r)'
        BY <2>q, <3>2
      <3> QED
        BY <1>m, <2>i, <3>2, <3>3, <3>c, <3>4, <3>5, <3>6 DEF RequestInv, Passed
    <2>5. CASE Send(r)
      <3>1. sent' \in [Request -> Seq(Sent)] /\ OutInv(r)' /\ ArrivedInv(r)'
        BY <2>5, <2>i, SendOut
      <3>2. DeliveryTypes'
        BY <2>5, <3>1 DEF Send, Goto, DeliveryTypes, HandlerInv, Label
      <3>3. at[r] - 1 = Len(input[r].headers) /\ outcome[r] \notin Refusal \cup {"redaction_failed"}
        BY <1>m, <2>5, <2>i DEF Send, RequestInv, Refusal
      <3>4. RequestInv(r)'
        BY <2>5, <2>i, <3>1, <3>3 DEF Send, Goto, DeliveryTypes, RequestInv, Passed
      <3> QED
        BY <3>2, <3>4
    <2>6. CASE Redirect(r)
      <3>1. /\ sent' \in [Request -> Seq(Sent)] /\ OutInv(r)' /\ ArrivedInv(r)'
            /\ HandedOver(r) /\ HandedOver(r)'
        BY <2>6, <2>i, RedirectOut
      <3>2. wire' \subseteq Request \X Nat
        <4>1. Len(sent[r]) + 1 \in Nat
          BY LenProperties DEF DeliveryTypes
        <4> QED
          BY <2>6, <4>1 DEF Redirect, DeliveryTypes
      <3>3. DeliveryTypes'
        BY <2>6, <3>1, <3>2 DEF Redirect, DeliveryTypes, HandlerInv
      <3>4. RequestInv(r)'
        BY <2>6, <2>i, <3>1 DEF Redirect, RequestInv, Passed
      <3> QED
        BY <3>3, <3>4
    <2>7. CASE Deliver(r) \/ Lose(r)
      <3>1. /\ wire' \subseteq Request \X Nat /\ upstream' \in [Request -> Seq(Nat)]
            /\ OutInv(r)' /\ ArrivedInv(r)' /\ (HandedOver(r)' <=> HandedOver(r))
        BY <2>7, <2>i, WireOut
      <3>2. UNCHANGED <<pc, input, at, built, sent, outcome, keyless>>
        BY <2>7 DEF Deliver, Lose
      <3>3. DeliveryTypes'
        BY <3>1, <3>2 DEF DeliveryTypes, HandlerInv
      <3>4. RequestInv(r)'
        BY <2>i, <3>1, <3>2 DEF RequestInv, Passed
      <3> QED
        BY <3>3, <3>4
    <2>8. CASE SendFails(r) \/ Relay(r) \/ Abandon(r)
      <3>1. \E o \in {"upstream_failed", "relayed", "relay_broken", "abandoned"} :
               End(r, o) /\ UNCHANGED <<input, at, built, sent, wire, upstream, keyless>>
        BY <2>8 DEF SendFails, Relay, Abandon
      <3>2. DeliveryTypes'
        BY <3>1 DEF End, Goto, DeliveryTypes, HandlerInv, Label, Outcome
      <3>3. OutInv(r)' /\ ArrivedInv(r)' /\ (HandedOver(r)' <=> HandedOver(r))
        BY <2>q, <3>1
      <3>4. RequestInv(r)'
        BY <2>i, <3>1, <3>3 DEF End, Goto, DeliveryTypes, RequestInv, Passed, Refusal
      <3> QED
        BY <3>2, <3>4
    <2>9. CASE FinishReport(r)
      BY <2>9, <1>n DEF FinishReport
    <2> QED
      BY <1>r, <2>1, <2>2, <2>3, <2>4, <2>5, <2>6, <2>7, <2>8, <2>9
      DEF Handle, ClientSends, UpstreamAnswers
  <1>s. ASSUME NEW s \in Scraper, Scrape(s) PROVE DeliveryInv'
    BY <1>n, <1>s DEF Scrape
  <1>i. ASSUME Idle PROVE DeliveryInv'
    BY <1>n, <1>i DEF Idle, vars
  <1> QED
    BY <1>r, <1>s, <1>i DEF Next

LEMMA DeliveryHolds == Spec => []DeliveryInv
  <1>1. DeliveryInv /\ UNCHANGED vars => DeliveryInv'
    <2> SUFFICES ASSUME DeliveryInv, UNCHANGED vars PROVE DeliveryInv'
      OBVIOUS
    <2>1. DeliveryTypes'
      BY DEF vars, handler, DeliveryInv, DeliveryTypes, HandlerInv
    <2> QED
      BY <2>1, SameRequest DEF vars, handler, DeliveryInv
  <1>2. DeliveryInv /\ [Next]_vars => DeliveryInv'
    BY <1>1, NextDelivery
  <1> QED
    BY <1>2, InitDelivery, PTL DEF Spec

\* The invariant says it: a message goes out when all of its headers are
\* rewritten and its body has passed.
LEMMA DeliveryImplies == DeliveryInv => DeliveredIsRedacted
  <1> SUFFICES ASSUME DeliveryInv, NEW r \in Request, Delivered(r)
               PROVE  LET b == input[r].body
                      IN /\ outcome[r] \notin Refusal \cup {"redaction_failed"}
                         /\ b.wire <= MaxBody /\ b.plain <= MaxBody
                         /\ b.utf8 \/ b.plain = 0
                         /\ IsInjective(upstream[r]) /\ Range(upstream[r]) \subseteq DOMAIN sent[r]
                         /\ Len(sent[r]) <= MaxRedirects + 1
                         /\ IsWhole(r)
                         /\ \A n \in DOMAIN sent[r] \ {1} : IsPart(r, n)
                         /\ \A n \in DOMAIN sent[r] : GivesUrlAway(r, n) => n <= 2
    BY DEF DeliveredIsRedacted, Reached
  <1>1. RequestInv(r) /\ HandedOver(r) /\ input[r] \in Message
    BY ArrivedWasSent DEF DeliveryInv, DeliveryTypes, HandlerInv
  <1>2. Passed(r)
    BY <1>1 DEF RequestInv
  <1>3. input[r].body.plain <= MaxBody
    <2>1. input[r].body \in Body /\ MaxBody \in Nat
      BY <1>1, MessageAssumption, MaxBodyAssumption
    <2> QED
      BY <1>1, <1>2, <2>1, MessageAssumption DEF Passed, Decoded, Body, Encoding
  <1>4. input[r].body.utf8 \/ input[r].body.plain = 0
    BY <1>2 DEF Passed, Redacted
  <1>5. /\ input[r].headers \in Seq(Header)
        /\ DOMAIN input[r].headers = 1 .. Len(input[r].headers)
    BY <1>1, MessageAssumption, LenProperties
  <1>6. First(input[r].headers, Len(input[r].headers)) = input[r].headers
    BY <1>5 DEF First
  <1>7. RewritesFirst(built[r], input[r].headers, Len(input[r].headers), keyless)
    BY <1>1 DEF RequestInv
  <1>o. OutInv(r) /\ ArrivedInv(r)
    BY <1>1 DEF RequestInv
  <1>8. sent[r][1] = Outgoing(r)
    BY <1>1, <1>o DEF OutInv
  <1>9. IsWhole(r)
    BY <1>5, <1>6, <1>7, <1>8 DEF IsWhole, Outgoing, RewritesFirst
  <1>d. /\ DOMAIN sent[r] = 1 .. Len(sent[r]) /\ Len(sent[r]) \in Nat
        /\ (1 .. Len(sent[r])) \ {1} \subseteq 2 .. Len(sent[r])
    <2>1. sent[r] \in Seq(Sent)
      BY DEF DeliveryInv, DeliveryTypes
    <2> QED
      BY <2>1, LenProperties
  <1>10. \A n \in DOMAIN sent[r] \ {1} : IsPart(r, n)
    BY <1>1, <1>o, <1>d DEF OutInv
  <1>11. ASSUME NEW n \in DOMAIN sent[r], GivesUrlAway(r, n) PROVE n <= 2
    <2> SUFFICES ASSUME n > 2 PROVE FALSE
      BY <1>d
    <2>1. n \in 2 .. Len(sent[r]) /\ n - 1 \in 2 .. Len(sent[r])
      BY <1>d
    <2>2. sent[r][n].url \in Redirected /\ sent[r][n - 1].url \in Redirected /\ IsPart(r, n)
      BY <1>1, <1>o, <2>1 DEF OutInv
    <2>3. TargetUrl(input[r].url) \notin Redirected
      BY DEF TargetUrl, Redirected
    <2> QED
      BY <1>11, <2>2, <2>3 DEF GivesUrlAway, IsPart
  <1>12. Range(upstream[r]) \subseteq DOMAIN sent[r] /\ IsInjective(upstream[r])
    BY <1>o, <1>d DEF ArrivedInv
  <1>13. Len(sent[r]) <= MaxRedirects + 1
    BY <1>1, <1>o DEF OutInv
  <1>14. outcome[r] \notin Refusal \cup {"redaction_failed"}
    BY <1>1 DEF RequestInv
  <1>15. input[r].body.wire <= MaxBody
    BY <1>2 DEF Passed
  <1> QED
    BY <1>3, <1>4, <1>9, <1>10, <1>11, <1>12, <1>13, <1>14, <1>15

\* Whatever requests arrive however handlers interleave, wherever upstreams
\* redirect, and whether requests get lost or arrive late or clients go away:
\* what arrives anywhere for a request has the redacted body or none, and of
\* its headers, in order, some, and in the first all, that go on, replaced or
\* redacted unless their values cannot be; and the path and query, which go on
\* as they are, are in no more than the first two requests.
THEOREM DeliveredAlwaysRedacted == Spec => []DeliveredIsRedacted
  BY DeliveryHolds, DeliveryImplies, PTL

-----------------------------------------------------------------------------
(* The counts by outcome.  However many requests may arrive, finitely many  *)
(* have.                                                                    *)
Begun == {r \in Request : pc[r] # "idle"}

CountTypes == /\ pc \in [Request -> Label]
              /\ outcome \in [Request -> Outcome]
              /\ \A r \in Request : pc[r] = "over" <=> outcome[r] # "open"
              /\ value \in [M!Counter -> Nat]
              /\ IsFiniteSet(Begun)

CountsInv ==
    /\ CountTypes
    /\ value["requests"] = Cardinality(Begun)
    /\ value["rejected_payloads"] = Cardinality(Ended(Refusal))
    /\ value["upstream_errors"]
          = Cardinality(Ended({"redaction_failed", "upstream_failed"}))

LEMMA InitCounts == Init => CountsInv
  <1> SUFFICES ASSUME Init PROVE CountsInv
    OBVIOUS
  <1>1. /\ Begun = {} /\ Ended(Refusal) = {}
        /\ Ended({"redaction_failed", "upstream_failed"}) = {}
    BY DEF Init, Begun, Ended, Refusal
  <1>2. value = [c \in M!Counter |-> 0]
    BY DEF Init, M!Init, M!Nothing
  <1>3. IsFiniteSet({}) /\ Cardinality({}) = 0
    BY FS_EmptySet
  <1>4. pc \in [Request -> Label] /\ outcome \in [Request -> Outcome]
    BY DEF Init, Label, Outcome
  <1>5. \A r \in Request : pc[r] # "over" /\ outcome[r] = "open"
    BY DEF Init
  <1> QED
    BY <1>1, <1>2, <1>3, <1>4, <1>5 DEF CountsInv, CountTypes, M!Counter

\* A request that ends is counted among those that ended as it did.
LEMMA EndCounts ==
    ASSUME CountTypes, NEW r \in Request, pc[r] \notin {"idle", "over"},
           NEW o \in Outcome \ {"open"}, End(r, o)
    PROVE  /\ pc' \in [Request -> Label] /\ outcome' \in [Request -> Outcome]
           /\ \A q \in Request : pc'[q] = "over" <=> outcome'[q] # "open"
           /\ Begun' = Begun
           /\ \A R \in SUBSET (Outcome \ {"open"}) :
                 /\ Cardinality(Ended(R)) \in Nat
                 /\ Cardinality(Ended(R)') = Cardinality(Ended(R)) + (IF o \in R THEN 1 ELSE 0)
  <1>1. /\ pc' = [pc EXCEPT ![r] = "over"] /\ outcome' = [outcome EXCEPT ![r] = o]
        /\ outcome[r] = "open"
    BY DEF End, Goto, CountTypes
  <1>2. pc' \in [Request -> Label] /\ outcome' \in [Request -> Outcome]
    BY <1>1 DEF CountTypes, Label
  <1>3. \A q \in Request : pc'[q] = "over" <=> outcome'[q] # "open"
    BY <1>1 DEF CountTypes
  <1>4. Begun' = Begun
    BY <1>1 DEF CountTypes, Begun
  <1>5. ASSUME NEW R \in SUBSET (Outcome \ {"open"})
        PROVE  /\ Cardinality(Ended(R)) \in Nat
               /\ Cardinality(Ended(R)') = Cardinality(Ended(R)) + (IF o \in R THEN 1 ELSE 0)
    <2>1. Ended(R) \subseteq Begun
      BY DEF Ended, Begun, CountTypes
    <2>2. IsFiniteSet(Ended(R)) /\ Cardinality(Ended(R)) \in Nat
      BY <2>1, FS_Subset, FS_CardinalityType DEF CountTypes
    <2>3. r \notin Ended(R)
      BY <1>1 DEF Ended
    <2>4. Ended(R)' = IF o \in R THEN Ended(R) \cup {r} ELSE Ended(R)
      BY <1>1, <2>3 DEF Ended, CountTypes
    <2>5. Cardinality(Ended(R) \cup {r}) = Cardinality(Ended(R)) + 1
      BY <2>2, <2>3, FS_AddElement
    <2> QED
      BY <2>2, <2>4, <2>5
  <1> QED
    BY <1>2, <1>3, <1>4, <1>5

\* One step of the counters.
LEMMA CountAdds ==
    ASSUME CountTypes, NEW r, NEW c \in M!Counter, NEW n \in Nat, M!FetchAdd(r, c, n)
    PROVE  /\ value' \in [M!Counter -> Nat]
           /\ value'[c] = value[c] + n
           /\ \A d \in M!Counter \ {c} : value'[d] = value[d]
  BY DEF CountTypes, M!FetchAdd

\* Nobody's place and no counter of requests has changed.
LEMMA CountsKept ==
    ASSUME CountsInv, UNCHANGED outcome, pc' \in [Request -> Label],
           \A r \in Request : /\ pc'[r] = "idle" <=> pc[r] = "idle"
                              /\ pc'[r] = "over" <=> pc[r] = "over",
           value' \in [M!Counter -> Nat],
           \A c \in {"requests", "rejected_payloads", "upstream_errors"} : value'[c] = value[c]
    PROVE  CountsInv'
  <1>1. Begun' = Begun
    BY DEF Begun
  <1>2. \A R : Ended(R)' = Ended(R)
    BY DEF Ended
  <1>3. CountTypes'
    BY <1>1 DEF CountsInv, CountTypes
  <1> QED
    BY <1>1, <1>2, <1>3 DEF CountsInv

LEMMA NextCounts ==
    ASSUME HandlerInv, CountsInv, [Next]_vars
    PROVE  CountsInv'
  <1>t. CountTypes
    BY DEF CountsInv
  <1>c. {"requests", "rejected_payloads", "upstream_errors", "request_bytes",
         "forwarded_bytes", "redactions_total"} \subseteq M!Counter
    BY DEF M!Counter
  <1>k. /\ Refusal \in SUBSET (Outcome \ {"open"})
        /\ {"redaction_failed", "upstream_failed"} \in SUBSET (Outcome \ {"open"})
        /\ "redaction_failed" \notin Refusal /\ "upstream_failed" \notin Refusal
    BY DEF Refusal, Outcome
  <1>n. ASSUME UNCHANGED <<pc, outcome>>, value' \in [M!Counter -> Nat],
               \A c \in {"requests", "rejected_payloads", "upstream_errors"} :
                  value'[c] = value[c]
        PROVE  CountsInv'
    BY <1>n, <1>t, CountsKept DEF CountTypes
  <1>e. ASSUME NEW r \in Request, pc[r] \notin {"idle", "over"},
               NEW o \in Outcome \ {"open"}, End(r, o), value' \in [M!Counter -> Nat],
               value'["requests"] = value["requests"],
               value'["rejected_payloads"]
                  = value["rejected_payloads"] + (IF o \in Refusal THEN 1 ELSE 0),
               value'["upstream_errors"]
                  = value["upstream_errors"]
                       + (IF o \in {"redaction_failed", "upstream_failed"} THEN 1 ELSE 0)
        PROVE  CountsInv'
    <2>1. /\ Cardinality(Ended(Refusal)')
                = Cardinality(Ended(Refusal)) + (IF o \in Refusal THEN 1 ELSE 0)
          /\ Cardinality(Ended({"redaction_failed", "upstream_failed"})')
                = Cardinality(Ended({"redaction_failed", "upstream_failed"}))
                     + (IF o \in {"redaction_failed", "upstream_failed"} THEN 1 ELSE 0)
      BY <1>t, <1>k, <1>e, EndCounts
    <2>2. CountTypes' /\ Begun' = Begun
      BY <1>t, <1>e, EndCounts DEF CountTypes
    <2> QED
      BY <1>e, <2>1, <2>2 DEF CountsInv
  <1>1. ASSUME NEW r \in Request, Arrive(r) PROVE CountsInv'
    <2>1. /\ value' \in [M!Counter -> Nat]
          /\ value'["requests"] = value["requests"] + 1
          /\ value'["rejected_payloads"] = value["rejected_payloads"]
          /\ value'["upstream_errors"] = value["upstream_errors"]
      BY <1>t, <1>c, <1>1, CountAdds DEF Arrive, M!Count
    <2>2. r \notin Begun /\ Begun' = Begun \cup {r}
      BY <1>t, <1>1 DEF Arrive, Goto, Begun, CountTypes
    <2>3. IsFiniteSet(Begun') /\ Cardinality(Begun') = Cardinality(Begun) + 1
      BY <1>t, <2>2, FS_AddElement DEF CountTypes
    <2>4. pc' \in [Request -> Label] /\ UNCHANGED outcome
      BY <1>t, <1>1 DEF Arrive, Goto, CountTypes, Label
    <2>5. \A q \in Request : pc'[q] = "over" <=> pc[q] = "over"
      BY <1>t, <1>1 DEF Arrive, Goto, CountTypes
    <2>6. \A R : Ended(R)' = Ended(R)
      BY <2>4 DEF Ended
    <2> QED
      BY <1>t, <2>1, <2>3, <2>4, <2>5, <2>6 DEF CountsInv, CountTypes
  <1>2. ASSUME NEW r \in Request,
               BodyRead(r) \/ RedactBody(r) \/ CountForwarded(r) \/ NextHeader(r)
        PROVE  CountsInv'
    <2>1. input[r] \in Message
      BY DEF HandlerInv
    <2>2. \/ UNCHANGED metrics
          \/ \E c \in {"request_bytes", "forwarded_bytes", "redactions_total"}, n \in Nat :
                M!FetchAdd(r, c, n)
      <3>1. input[r].body.wire \in Nat /\ RedactedLength(input[r].body) \in Nat
        BY <2>1, MessageAssumption DEF Body, RedactedLength
      <3>2. \A rep \in HandlerReports : rep.total \in Nat
        BY HandlerReportsFacts, MaxU64Assumption DEF Report, U64
      <3>3. CASE BodyRead(r) \/ CountForwarded(r)
        BY <3>1, <3>3 DEF BodyRead, CountForwarded, M!Count
      <3>4. CASE RedactBody(r)
        BY <2>1, <3>2, <3>4, BodyReportIsRecorded DEF RedactBody, M!RecordTotal
      <3>5. CASE NextHeader(r)
        <4>1. Len(input[r].headers) \in Nat /\ at[r] \in Nat \ {0}
          BY <2>1, MessageAssumption, LenProperties DEF HandlerInv
        <4>2. at[r] \in 1 .. Len(input[r].headers)
          BY <3>5, <4>1 DEF NextHeader
        <4>3. HeaderReport(input[r].headers[at[r]], keyless) \in HandlerReports
          BY <2>1, <4>2, HeaderReportIsRecorded
        <4> QED
          BY <3>2, <3>5, <4>3 DEF NextHeader, M!RecordTotal
      <3> QED
        BY <1>2, <3>3, <3>4, <3>5
    <2>3. /\ value' \in [M!Counter -> Nat]
          /\ \A c \in {"requests", "rejected_payloads", "upstream_errors"} :
                value'[c] = value[c]
      <3>1. CASE UNCHANGED metrics
        BY <1>t, <3>1 DEF metrics, CountTypes
      <3>2. ASSUME NEW c \in {"request_bytes", "forwarded_bytes", "redactions_total"},
                   NEW n \in Nat, M!FetchAdd(r, c, n)
            PROVE  /\ value' \in [M!Counter -> Nat]
                   /\ \A d \in {"requests", "rejected_payloads", "upstream_errors"} :
                         value'[d] = value[d]
        BY <1>t, <1>c, <3>2, CountAdds
      <3> QED
        BY <2>2, <3>1, <3>2
    <2>4. /\ UNCHANGED outcome /\ pc' \in [Request -> Label]
          /\ \A q \in Request : /\ pc'[q] = "idle" <=> pc[q] = "idle"
                                /\ pc'[q] = "over" <=> pc[q] = "over"
      BY <1>t, <1>2 DEF BodyRead, RedactBody, CountForwarded, NextHeader, Goto,
                        CountTypes, Label
    <2> QED
      BY <2>3, <2>4, CountsKept
  <1>3. ASSUME NEW r \in Request, BodyFails(r) \/ Refuse(r) \/ SendFails(r) PROVE CountsInv'
    <2>1. PICK o \in Refusal \cup {"redaction_failed", "upstream_failed"} :
             /\ pc[r] \in {"reading", "received", "awaiting"} /\ End(r, o)
             /\ M!Count(r, IF o \in Refusal THEN "rejected_payloads"
                           ELSE "upstream_errors", 1)
      <3>1. CASE BodyFails(r)
        BY <3>1 DEF BodyFails, Refusal
      <3>2. CASE Refuse(r)
        BY <3>2 DEF Refuse, Refusal, Decoded, Redacted
      <3>3. CASE SendFails(r)
        BY <3>3 DEF SendFails, Refusal
      <3> QED
        BY <1>3, <3>1, <3>2, <3>3
    <2>2. CASE o \in Refusal
      <3>1. M!FetchAdd(r, "rejected_payloads", 1)
        BY <2>1, <2>2 DEF M!Count
      <3> QED
        BY <1>t, <1>c, <1>e, <1>k, <2>1, <2>2, <3>1, CountAdds
    <2>3. CASE o \notin Refusal
      <3>1. M!FetchAdd(r, "upstream_errors", 1)
        BY <2>1, <2>3 DEF M!Count
      <3> QED
        BY <1>t, <1>c, <1>e, <1>k, <2>1, <2>3, <3>1, CountAdds
    <2> QED
      BY <2>2, <2>3
  <1>4. ASSUME NEW r \in Request, Relay(r) \/ Abandon(r) PROVE CountsInv'
    <2>1. PICK o \in {"relayed", "relay_broken", "abandoned"} :
             pc[r] \in {"reading", "awaiting", "relaying"} /\ End(r, o) /\ UNCHANGED value
      BY <1>4 DEF Relay, Abandon, metrics
    <2>2. o \in Outcome \ {"open"} /\ o \notin Refusal
      BY DEF Outcome, Refusal
    <2>3. value' \in [M!Counter -> Nat] /\ \A c \in M!Counter : value[c] \in Nat
      BY <1>t, <2>1 DEF CountTypes
    <2> QED
      BY <1>c, <1>e, <2>1, <2>2, <2>3
  <1>5. ASSUME NEW r \in Request, Send(r) \/ Respond(r) PROVE CountsInv'
    <2>1. /\ UNCHANGED <<outcome, value>> /\ pc' \in [Request -> Label]
          /\ \A q \in Request : /\ pc'[q] = "idle" <=> pc[q] = "idle"
                                /\ pc'[q] = "over" <=> pc[q] = "over"
      BY <1>t, <1>5 DEF Send, Respond, Goto, CountTypes, Label, metrics
    <2> QED
      BY <1>t, <2>1, CountsKept DEF CountTypes
  <1>6. ASSUME NEW r \in Request, 
               Redirect(r) \/ Deliver(r) \/ Lose(r) \/ FinishReport(r)
        PROVE  CountsInv'
    <2>1. UNCHANGED <<pc, outcome, value>>
      BY <1>6 DEF Redirect, Deliver, Lose, FinishReport, M!RecordTypes, M!counters, handler, metrics
    <2> QED
      BY <1>t, <1>n, <2>1 DEF CountTypes
  <1>7. ASSUME NEW s \in Scraper, Scrape(s) PROVE CountsInv'
    <2>1. UNCHANGED <<pc, outcome, value>>
      BY <1>7 DEF Scrape, M!CopyTypes, M!LoadCounters, M!counters, handler
    <2> QED
      BY <1>t, <1>n, <2>1 DEF CountTypes
  <1>8. CASE UNCHANGED vars
    BY <1>t, <1>n, <1>8 DEF CountTypes, vars, handler, metrics
  <1> QED
    BY <1>1, <1>2, <1>3, <1>4, <1>5, <1>6, <1>7, <1>8
    DEF Next, Idle, Handle, ClientSends, UpstreamAnswers

\* However many requests arrive and however their handlers interleave, each
\* is counted when it starts, and once more, under one counter, if it fails.
THEOREM OutcomesAlwaysCounted == Spec => []OutcomesAreCounted
  <1>1. CountsInv => OutcomesAreCounted
    <2> SUFFICES ASSUME CountsInv PROVE OutcomesAreCounted
      OBVIOUS
    <2> DEFINE ended == Ended(Outcome \ {"open"})
    <2>1. InFlight \cup ended = Begun /\ InFlight \cap ended = {}
      BY DEF CountsInv, CountTypes, InFlight, Ended, Begun
    <2>2. IsFiniteSet(Begun) /\ InFlight \subseteq Begun /\ ended \subseteq Begun
      BY <2>1 DEF CountsInv, CountTypes
    <2>3. IsFiniteSet(InFlight) /\ IsFiniteSet(ended)
      BY <2>2, FS_Subset
    <2>4. Cardinality(InFlight) \in Nat /\ Cardinality(ended) \in Nat
      BY <2>3, FS_CardinalityType
    <2> HIDE DEF ended
    <2>5. Cardinality(InFlight \cup ended)
             = Cardinality(InFlight) + Cardinality(ended) - Cardinality(InFlight \cap ended)
      BY <2>3, FS_Union
    <2>6. Cardinality(Begun) = Cardinality(InFlight) + Cardinality(ended)
      <3>1. Cardinality(InFlight \cap ended) = 0
        BY <2>1, FS_EmptySet
      <3>2. InFlight \cup ended = Begun
        BY <2>1
      <3>3. Cardinality(Begun) = Cardinality(InFlight) + Cardinality(ended) - 0
        BY <2>5, <3>1, <3>2
      <3>4. Cardinality(InFlight) + Cardinality(ended) - 0 = Cardinality(InFlight) + Cardinality(ended)
        BY <2>4
      <3> QED
        BY <3>3, <3>4
    <2> QED
      BY <2>6 DEF CountsInv, OutcomesAreCounted, ended
  <1> QED
    BY <1>1, InitCounts, NextCounts, HandlerInvHolds, PTL DEF Spec

-----------------------------------------------------------------------------
LEMMA SameTypes == M!TypeOK <=> MP!TypeOK
  BY DEF M!TypeOK, MP!TypeOK, M!Values, MP!Values, M!Snapshot, MP!Snapshot,
     M!Counter, MP!Counter, M!Actor, MP!Actor, M!U64, MP!U64,
     M!DetectorKind, MP!DetectorKind

\* At every moment handlers, requests and metrics are as declared; above all,
\* no handler is past the headers of its request.
THEOREM ProxyIsTyped == Spec => []TypeOK
  <1>1. DeliveryInv /\ M!TypeOK => TypeOK
    <2> SUFFICES ASSUME DeliveryInv, M!TypeOK PROVE TypeOK
      OBVIOUS
    <2>1. ASSUME NEW r \in Request PROVE at[r] \in 1 .. Len(input[r].headers) + 1
      <3>1. at[r] \in Nat \ {0} /\ Len(input[r].headers) \in Nat
        BY MessageAssumption, LenProperties DEF DeliveryInv, DeliveryTypes, HandlerInv
      <3> QED
        BY <3>1 DEF DeliveryInv, RequestInv
    <2> QED
      BY <2>1 DEF TypeOK, DeliveryInv, DeliveryTypes, HandlerInv
  <1>2. MP!Spec => []MP!TypeOK
    BY MetricsAssumptions, MP!MetricsTypeOK
  <1> QED
    BY <1>1, <1>2, DeliveryHolds, OneMetrics, SameTypes, ProxyUsesMetrics, PTL
    DEF Spec, UsesMetrics, M!Spec, MP!Spec

-----------------------------------------------------------------------------
(* The account of what was counted for whom.  The metrics do not keep it, so *)
(* the invariant says that there is one: `done', the requests whose bytes    *)
(* are in forwarded_bytes, and `credit', what each has added to the map.     *)
Bytes == [r \in Request |-> RedactedLength(input[r].body)]
Own(credit, k) == [r \in Request |-> credit[r][k]]
Before(r, k) == SumFunctionOnSet(HeaderCounts(r, k), 1 .. at[r] - 1)
Unread == {"idle", "reading", "received"}
Sending == {"headers", "awaiting", "relaying"}

AccountInv(r, done, credit) ==
    /\ r \in done => r \in Forwarding
    /\ pc[r] \in Sending \/ HandedOver(r) => r \in done
    /\ pc[r] \in Unread \cup {"recorded"} => at[r] = 1
    /\ pc[r] \in Unread => \A k \in DetectorKind : credit[r][k] = 0 /\ pending[r][k] = 0
    /\ pc[r] \in {"awaiting", "relaying"} \/ HandedOver(r)
          => \A k \in DetectorKind : pending[r][k] = 0
    /\ pc[r] \in Sending \cup {"recorded"} \/ HandedOver(r)
          => \A k \in DetectorKind :
                credit[r][k] + pending[r][k]
                   = BodyReport(input[r].body).by_type[k] + Before(r, k)

Accounts(done, credit) ==
    /\ value["forwarded_bytes"] = SumFunctionOnSet(Bytes, done)
    /\ \A k \in DetectorKind : by_type[k] = SumFunctionOnSet(Own(credit, k), Begun)
    /\ \A r \in Request : AccountInv(r, done, credit)

Credits == [Request -> [DetectorKind -> Nat]]

AccountsInv == \E done \in SUBSET Begun, credit \in Credits : Accounts(done, credit)

\* What the counts are: natural numbers, finitely many of them.
LEMMA CountsOfRequest ==
    ASSUME DeliveryInv, NEW r \in Request, NEW k \in DetectorKind
    PROVE  /\ input[r] \in Message /\ Len(input[r].headers) \in Nat
           /\ DOMAIN input[r].headers = 1 .. Len(input[r].headers)
           /\ at[r] \in Nat \ {0} /\ at[r] - 1 <= Len(input[r].headers)
           /\ RedactedLength(input[r].body) \in Nat
           /\ BodyReport(input[r].body).by_type[k] \in Nat
           /\ \A i \in 1 .. Len(input[r].headers) : HeaderCounts(r, k)[i] \in Nat
           /\ \A i \in 1 .. Len(input[r].headers) :
                 HeaderCounts(r, k)[i] = HeaderReport(input[r].headers[i], keyless).by_type[k]
  <1>1. /\ input[r] \in Message /\ at[r] \in Nat \ {0}
        /\ at[r] - 1 <= Len(input[r].headers)
    BY DEF DeliveryInv, DeliveryTypes, HandlerInv, RequestInv
  <1>2. /\ Len(input[r].headers) \in Nat
        /\ DOMAIN input[r].headers = 1 .. Len(input[r].headers)
        /\ RedactedLength(input[r].body) \in Nat
    BY <1>1, MessageAssumption, LenProperties DEF Body, RedactedLength
  <1>3. \A rep \in HandlerReports : rep.by_type[k] \in Nat
    BY HandlerReportsFacts, CountsAreNat
  <1>4. BodyReport(input[r].body).by_type[k] \in Nat
    BY <1>1, <1>3, BodyReportIsRecorded
  <1>5. \A i \in 1 .. Len(input[r].headers) :
           HeaderCounts(r, k)[i] = HeaderReport(input[r].headers[i], keyless).by_type[k]
    BY <1>2 DEF HeaderCounts
  <1>6. \A i \in 1 .. Len(input[r].headers) : HeaderReport(input[r].headers[i], keyless).by_type[k] \in Nat
    BY <1>1, <1>3, HeaderReportIsRecorded
  <1> QED
    BY <1>1, <1>2, <1>4, <1>5, <1>6

\* What is counted for one header more, and for all of them.
LEMMA HeaderByHeader ==
    ASSUME DeliveryInv, NEW r \in Request, NEW k \in DetectorKind
    PROVE  /\ Before(r, k) \in Nat
           /\ at[r] = 1 => Before(r, k) = 0
           /\ at[r] <= Len(input[r].headers) =>
                 SumFunctionOnSet(HeaderCounts(r, k), 1 .. at[r])
                    = Before(r, k) + HeaderReport(input[r].headers[at[r]], keyless).by_type[k]
           /\ at[r] - 1 = Len(input[r].headers) =>
                 Reported(r, k) = BodyReport(input[r].body).by_type[k] + Before(r, k)
  <1> DEFINE n == at[r]
             f == HeaderCounts(r, k)
             all == 1 .. Len(input[r].headers)
  <1>1. /\ n \in Nat \ {0} /\ n - 1 <= Len(input[r].headers) /\ Len(input[r].headers) \in Nat
        /\ DOMAIN input[r].headers = all /\ \A i \in all : f[i] \in Nat
        /\ \A i \in all : f[i] = HeaderReport(input[r].headers[i], keyless).by_type[k]
    BY CountsOfRequest
  <1>2. 1 .. n - 1 \subseteq all /\ IsFiniteSet(1 .. n - 1) /\ n - 1 \in Int
    <2>1. 1 \in Int /\ n - 1 \in Int
      BY <1>1
    <2>2. IsFiniteSet(1 .. n - 1)
      BY <2>1, FS_Interval
    <2> QED
      BY <1>1, <2>1, <2>2
  <1>3. Before(r, k) \in Nat
    BY <1>1, <1>2, SumTakesOut DEF Before
  <1>4. n = 1 => Before(r, k) = 0
    <2>1. n = 1 => 1 .. n - 1 = {}
      OBVIOUS
    <2>2. SumFunctionOnSet(f, {}) = 0
      BY <1>1, <1>2, SumTakesOut
    <2> QED
      BY <2>1, <2>2 DEF Before
  <1>5. ASSUME n <= Len(input[r].headers)
        PROVE  SumFunctionOnSet(f, 1 .. n) = Before(r, k) + f[n]
    <2>1. n \in all /\ n \notin 1 .. n - 1 /\ (1 .. n - 1) \cup {n} = 1 .. n
      BY <1>1, <1>5
    <2>2. \A y \in (1 .. n - 1) \cup {n} : f[y] \in Nat
      BY <1>1, <1>2, <2>1
    <2>3. SumFunctionOnSet(f, (1 .. n - 1) \cup {n}) = f[n] + SumFunctionOnSet(f, 1 .. n - 1)
      <3> HIDE DEF n, f
      <3> QED
        BY <1>2, <2>1, <2>2, SumPutsIn
    <2>4. f[n] \in Nat
      BY <1>1, <2>1
    <2>5. Before(r, k) = SumFunctionOnSet(f, 1 .. n - 1)
      BY DEF Before
    <2> HIDE DEF n, f
    <2>6. SumFunctionOnSet(f, 1 .. n) = f[n] + Before(r, k)
      BY <2>1, <2>3, <2>5
    <2> QED
      BY <1>3, <2>4, <2>6
  <1>6. n - 1 = Len(input[r].headers)
           => Reported(r, k) = BodyReport(input[r].body).by_type[k] + Before(r, k)
    <2>1. DOMAIN f = all
      BY <1>1 DEF HeaderCounts
    <2> QED
      BY <2>1 DEF Reported, Before, SumFunction
  <1> QED
    BY <1>1, <1>3, <1>4, <1>5, <1>6

\* Nobody has counted anything yet.
LEMMA InitAccounts == ASSUME Init, DeliveryInv PROVE AccountsInv
  <1> DEFINE nobody == [r \in Request |-> [k \in DetectorKind |-> 0]]
  <1>1. Begun = {} /\ {} \in SUBSET Begun
    BY DEF Init, Begun
  <1>2. /\ value["forwarded_bytes"] = 0
        /\ \A k \in DetectorKind : /\ by_type[k] = 0
                                   /\ \A r \in Request : pending[r][k] = 0
    BY DEF Init, M!Init, M!Nothing, M!Counter, M!NoKinds, M!EmptyReport, M!DetectorKind, DetectorKind
  <1>3. SumFunctionOnSet(Bytes, {}) = 0 /\ \A f : SumFunctionOnSet(f, {}) = 0
    <2>1. \A f : SumFunctionOnSet(f, {}) = 0
      <3> SUFFICES ASSUME NEW f PROVE SumFunctionOnSet(f, {}) = 0
        OBVIOUS
      <3>1. IsFiniteSet({}) /\ \A x \in {} : f[x] \in Nat
        BY FS_EmptySet
      <3> QED
        BY <3>1, SumTakesOut
    <2> QED
      BY <2>1
  <1>4. nobody \in Credits
    BY DEF Credits
  <1>5. ASSUME NEW r \in Request PROVE AccountInv(r, {}, nobody)
    <2>1. pc[r] = "idle" /\ at[r] = 1 /\ ~HandedOver(r)
      BY DEF Init, HandedOver
    <2> QED
      BY <1>2, <2>1 DEF AccountInv, Unread, Sending
  <1>6. Accounts({}, nobody)
    BY <1>1, <1>2, <1>3, <1>5 DEF Accounts
  <1> QED
    BY <1>1, <1>4, <1>6 DEF AccountsInv

\* A handler's step leaves the others' accounts alone, ...
LEMMA SameAccount ==
    ASSUME NEW q \in Request, NEW done, NEW credit, NEW done2, NEW credit2,
           AccountInv(q, done, credit), q \in done2 <=> q \in done, credit2[q] = credit[q],
           input' = input, keyless' = keyless,
           pc'[q] = pc[q], at'[q] = at[q], sent'[q] = sent[q], outcome'[q] = outcome[q], pending'[q] = pending[q]
    PROVE  AccountInv(q, done2, credit2)'
  <1>1. \A k : Before(q, k)' = Before(q, k)
    BY DEF Before, HeaderCounts
  <1>2. /\ HandedOver(q)' <=> HandedOver(q)
        /\ (q \in Forwarding)' <=> q \in Forwarding
    BY DEF HandedOver, Forwarding
  <1> QED
    BY <1>1, <1>2 DEF AccountInv

\* ... so that its own remains to be settled.
LEMMA AccountsStep ==
    ASSUME DeliveryInv, NEW done \in SUBSET Begun, NEW credit \in Credits,
           Accounts(done, credit), NEW r \in Request,
           \/ Arrive(r) \/ Handle(r) \/ ClientSends(r) \/ UpstreamAnswers(r)
           \/ Redirect(r) \/ Deliver(r) \/ Lose(r) \/ Abandon(r),
           \A q \in Request \ {r} : pending'[q] = pending[q],
           NEW done2 \in SUBSET Begun', NEW credit2 \in Credits,
           \A q \in Request \ {r} : (q \in done2 <=> q \in done) /\ credit2[q] = credit[q],
           value'["forwarded_bytes"] = SumFunctionOnSet(Bytes, done2),
           \A k \in DetectorKind : by_type'[k] = SumFunctionOnSet(Own(credit2, k), Begun'),
           AccountInv(r, done2, credit2)'
    PROVE  AccountsInv'
  <1>1. /\ input' = input /\ keyless' = keyless
        /\ \A q \in Request \ {r} :
              /\ pc'[q] = pc[q] /\ at'[q] = at[q] /\ sent'[q] = sent[q] /\ outcome'[q] = outcome[q]
    BY OnlyOne DEF DeliveryInv
  <1>2. \A q \in Request \ {r} : AccountInv(q, done2, credit2)'
    <2> SUFFICES ASSUME NEW q \in Request \ {r} PROVE AccountInv(q, done2, credit2)'
      OBVIOUS
    <2>1. AccountInv(q, done, credit)
      BY DEF Accounts
    <2> QED
      BY <1>1, <2>1, SameAccount
  <1>3. Bytes' = Bytes /\ \A k : Own(credit2, k)' = Own(credit2, k)
    BY <1>1 DEF Bytes, Own
  <1>4. Accounts(done2, credit2)'
    BY <1>2, <1>3 DEF Accounts
  <1> QED
    BY <1>4 DEF AccountsInv, Credits

\* What the steps of the handlers leave alone: the map, the requests begun.
LEMMA QuietSteps ==
    ASSUME DeliveryInv, CountsInv, AccountsInv, NEW r \in Request,
           \/ ClientSends(r) \/ Refuse(r) \/ Send(r) \/ UpstreamAnswers(r)
           \/ Redirect(r) \/ Deliver(r) \/ Lose(r) \/ Abandon(r)
    PROVE  AccountsInv'
  <1> PICK done \in SUBSET Begun, credit \in Credits : Accounts(done, credit)
    BY DEF AccountsInv
  <1>o. HandedOver(r) => pc[r] \in {"awaiting", "relaying", "over"}
    BY DEF DeliveryInv, RequestInv
  <1>d. Deliver(r) \/ Lose(r) => HandedOver(r)
    <2>1. DOMAIN << >> = {}
      OBVIOUS
    <2> QED
      BY <2>1 DEF Deliver, Lose, HandedOver
  <1>1. /\ UNCHANGED <<input, at, keyless, by_type, pending>>
        /\ pc' \in [Request -> Label] /\ pc[r] # "idle" /\ pc'[r] # "idle"
        /\ \A q \in Request \ {r} : pc'[q] = pc[q]
    <2>1. CASE Redirect(r) \/ Deliver(r) \/ Lose(r)
      <3>1. UNCHANGED <<pc, input, at, keyless, by_type, pending>>
        BY <2>1 DEF Redirect, Deliver, Lose, metrics
      <3>2. pc[r] # "idle"
        BY <1>d, <1>o, <2>1 DEF Redirect
      <3> QED
        BY <3>1, <3>2 DEF DeliveryInv, DeliveryTypes
    <2>2. CASE ClientSends(r) \/ Refuse(r) \/ Send(r) \/ UpstreamAnswers(r) \/ Abandon(r)
      BY <2>2 DEF ClientSends, BodyRead, BodyFails, Refuse, Send, UpstreamAnswers, Respond,
                  SendFails, Relay, Abandon, Goto, End, M!Count, DeliveryInv, DeliveryTypes,
                  Label, metrics
    <2> QED
      BY <2>1, <2>2
  <1>2. value'["forwarded_bytes"] = value["forwarded_bytes"]
    <2>1. \/ UNCHANGED value
          \/ \E c \in {"request_bytes", "rejected_payloads", "upstream_errors"}, n \in Nat :
                M!FetchAdd(r, c, n)
      <3>1. input[r].body.wire \in Nat
        BY MessageAssumption DEF DeliveryInv, DeliveryTypes, HandlerInv, Body
      <3> QED
        BY <3>1 DEF ClientSends, BodyRead, BodyFails, Refuse, Send, UpstreamAnswers, Respond,
                    SendFails, Relay, Redirect, Deliver, Lose, Abandon, M!Count, metrics
    <2> QED
      BY <2>1, CountAdds DEF CountsInv, M!Counter
  <1>3. Begun' = Begun
    BY <1>1 DEF Begun
  <1>4. AccountInv(r, done, credit)'
    <2>i. AccountInv(r, done, credit) /\ RequestInv(r) /\ DeliveryTypes
      BY DEF Accounts, DeliveryInv
    <2>b. \A k : Before(r, k)' = Before(r, k)
      BY <1>1 DEF Before, HeaderCounts
    <2>o. pc[r] \in {"reading", "received"} => outcome[r] = "open" /\ r \notin done /\ ~HandedOver(r)
      BY <2>i DEF AccountInv, RequestInv, Forwarding, Sending, HandedOver
    <2>e. ASSUME NEW o, End(r, o) PROVE pc'[r] = "over" /\ outcome'[r] = o
      BY <2>e, <2>i DEF End, Goto, DeliveryTypes
    <2>1. CASE BodyRead(r)
      <3>1. pc[r] = "reading" /\ pc'[r] = "received" /\ UNCHANGED <<outcome, sent>>
        BY <2>1, <2>i DEF BodyRead, Goto, DeliveryTypes
      <3> QED
        BY <1>1, <2>i, <2>b, <2>o, <3>1
        DEF AccountInv, Unread, Sending, HandedOver
    <2>2. CASE BodyFails(r) \/ Refuse(r)
      <3>1. pc[r] \in {"reading", "received"} /\ pc'[r] = "over" /\ UNCHANGED sent
        BY <2>2, <2>e DEF BodyFails, Refuse
      <3> QED
        BY <2>o, <3>1 DEF AccountInv, Unread, Sending, HandedOver
    <2>3. CASE Abandon(r) /\ pc[r] = "reading"
      <3>1. pc[r] \in {"reading", "received"} /\ pc'[r] = "over" /\ UNCHANGED sent
        BY <2>3, <2>e DEF Abandon
      <3> QED
        BY <2>o, <3>1 DEF AccountInv, Unread, Sending, HandedOver
    <2>4. CASE SendFails(r) \/ Relay(r) \/ (Abandon(r) /\ pc[r] # "reading")
      <3>1. /\ pc[r] \in {"awaiting", "relaying"} /\ pc'[r] = "over"
            /\ outcome'[r] \in {"upstream_failed", "relayed", "relay_broken", "abandoned"}
            /\ UNCHANGED sent
        BY <2>4, <2>e DEF SendFails, Relay, Abandon
      <3> QED
        BY <1>1, <2>i, <2>b, <3>1
        DEF AccountInv, Unread, Sending, HandedOver, Forwarding
    <2>5. CASE Send(r)
      <3>1. /\ pc[r] = "headers" /\ pc'[r] = "awaiting" /\ UNCHANGED outcome
            /\ \A k \in DetectorKind : pending[r][k] = 0
        BY <2>5, <2>i DEF Send, Goto, DeliveryTypes, M!NoKinds, M!EmptyReport,
                          M!DetectorKind, DetectorKind
      <3> QED
        BY <1>1, <2>i, <2>b, <3>1
        DEF AccountInv, Unread, Sending, HandedOver, Forwarding
    <2>6. CASE Respond(r)
      <3>1. pc[r] = "awaiting" /\ pc'[r] = "relaying" /\ UNCHANGED <<outcome, sent>>
        BY <2>6, <2>i DEF Respond, Goto, DeliveryTypes
      <3> QED
        BY <1>1, <2>i, <2>b, <3>1
        DEF AccountInv, Unread, Sending, HandedOver, Forwarding
    <2>7. CASE Redirect(r) \/ Deliver(r) \/ Lose(r)
      <3>1. UNCHANGED <<pc, outcome>>
        BY <2>7 DEF Redirect, Deliver, Lose
      <3>2. HandedOver(r)
        <4>1. CASE Redirect(r)
          BY <2>i, <4>1, RedirectOut
        <4> QED
          BY <1>d, <2>7, <4>1
      <3> QED
        BY <1>1, <2>i, <2>b, <3>1, <3>2 DEF AccountInv, Unread, Sending, Forwarding
    <2> HIDE DEF AccountInv
    <2>8. \/ BodyRead(r) \/ BodyFails(r) \/ Refuse(r) \/ Send(r) \/ Respond(r)
          \/ SendFails(r) \/ Relay(r) \/ Redirect(r) \/ Deliver(r) \/ Lose(r) \/ Abandon(r)
      BY DEF ClientSends, UpstreamAnswers
    <2> QED
      BY <2>1, <2>2, <2>3, <2>4, <2>5, <2>6, <2>7, <2>8
  <1> QED
    BY <1>1, <1>2, <1>3, <1>4, AccountsStep DEF Accounts, Handle

\* The request arrives: it has counted nothing.
LEMMA ArriveAccounts ==
    ASSUME DeliveryInv, CountsInv, AccountsInv, NEW r \in Request, Arrive(r)
    PROVE  AccountsInv'
  <1> PICK done \in SUBSET Begun, credit \in Credits : Accounts(done, credit)
    BY DEF AccountsInv
  <1>1. /\ pc[r] = "idle" /\ pc'[r] = "reading" /\ \A q \in Request \ {r} : pc'[q] = pc[q]
        /\ UNCHANGED <<input, at, sent, outcome, keyless, by_type, pending>>
    BY DEF Arrive, Goto, M!Count, DeliveryInv, DeliveryTypes
  <1>2. r \notin Begun /\ Begun' = Begun \cup {r} /\ IsFiniteSet(Begun)
    BY <1>1 DEF Begun, CountsInv, CountTypes
  <1>3. value'["forwarded_bytes"] = value["forwarded_bytes"]
    BY CountAdds DEF Arrive, M!Count, CountsInv, M!Counter
  <1>4. AccountInv(r, done, credit) /\ \A k \in DetectorKind : credit[r][k] = 0
    BY <1>1 DEF Accounts, AccountInv, Unread
  <1>5. AccountInv(r, done, credit)'
    <2>1. \A k : Before(r, k)' = Before(r, k)
      BY <1>1 DEF Before, HeaderCounts
    <2>2. HandedOver(r)' <=> HandedOver(r)
      BY <1>1 DEF HandedOver
    <2>3. r \notin done
      BY <1>2
    <2>4. ~HandedOver(r)
      BY <1>1 DEF DeliveryInv, RequestInv
    <2> QED
      BY <1>1, <1>4, <2>1, <2>2, <2>3, <2>4 DEF AccountInv, Unread, Sending
  <1>6. ASSUME NEW k \in DetectorKind
        PROVE  by_type'[k] = SumFunctionOnSet(Own(credit, k), Begun')
    <2>1. \A q \in Begun \cup {r} : Own(credit, k)[q] \in Nat
      BY DEF Own, Credits, Begun
    <2>2. SumFunctionOnSet(Own(credit, k), Begun \cup {r})
             = Own(credit, k)[r] + SumFunctionOnSet(Own(credit, k), Begun)
      BY <1>2, <2>1, SumPutsIn
    <2>3. Own(credit, k)[r] = 0 /\ SumFunctionOnSet(Own(credit, k), Begun) \in Nat
      BY <1>2, <1>4, <2>1, SumTakesOut DEF Own
    <2> QED
      BY <1>1, <1>2, <2>2, <2>3 DEF Accounts
  <1>7. done \in SUBSET Begun' /\ value'["forwarded_bytes"] = SumFunctionOnSet(Bytes, done)
    BY <1>2, <1>3 DEF Accounts
  <1> QED
    BY <1>1, <1>5, <1>6, <1>7, AccountsStep

\* Its report is put beside what it has in the map already: for the body, ...
LEMMA RedactBodyAccounts ==
    ASSUME DeliveryInv, CountsInv, AccountsInv, NEW r \in Request, RedactBody(r),
           M!TypeOK
    PROVE  AccountsInv'
  <1> PICK done \in SUBSET Begun, credit \in Credits : Accounts(done, credit)
    BY DEF AccountsInv
  <1> DEFINE rep == BodyReport(input[r].body)
  <1>1. /\ pc[r] = "received" /\ pc'[r] = "recorded" /\ \A q \in Request \ {r} : pc'[q] = pc[q]
        /\ UNCHANGED <<input, at, sent, outcome, keyless, by_type>>
        /\ pending'[r] = rep.by_type /\ \A q \in Request \ {r} : pending'[q] = pending[q]
    BY DEF RedactBody, Goto, M!RecordTotal, DeliveryInv, DeliveryTypes, M!TypeOK
  <1>2. Begun' = Begun
    BY <1>1 DEF Begun
  <1>3. value'["forwarded_bytes"] = value["forwarded_bytes"]
    <2>1. rep \in HandlerReports
      BY BodyReportIsRecorded DEF DeliveryInv, DeliveryTypes, HandlerInv
    <2>2. rep.total \in Nat
      BY <2>1, HandlerReportsFacts, CountsAreNat, MaxU64Assumption DEF U64
    <2> QED
      BY <2>2, CountAdds DEF RedactBody, M!RecordTotal, CountsInv, M!Counter
  <1>4. AccountInv(r, done, credit)'
    <2>1. AccountInv(r, done, credit) /\ ~HandedOver(r)
      BY <1>1 DEF Accounts, DeliveryInv, RequestInv
    <2>2. at[r] = 1 /\ r \notin done /\ \A k \in DetectorKind : credit[r][k] = 0
      BY <1>1, <2>1 DEF AccountInv, Unread, Forwarding, DeliveryInv, RequestInv
    <2>3. \A k \in DetectorKind : Before(r, k)' = 0 /\ rep.by_type[k] \in Nat
      <3>1. \A k \in DetectorKind : Before(r, k) = 0 /\ rep.by_type[k] \in Nat
        BY <2>2, HeaderByHeader, CountsOfRequest
      <3>2. \A k : Before(r, k)' = Before(r, k)
        BY <1>1 DEF Before, HeaderCounts
      <3> QED
        BY <3>1, <3>2
    <2>4. ~HandedOver(r)'
      BY <1>1, <2>1 DEF HandedOver
    <2>5. \A k \in DetectorKind :
             credit[r][k] + pending'[r][k] = BodyReport(input'[r].body).by_type[k] + Before(r, k)'
      BY <1>1, <2>2, <2>3
    <2> QED
      BY <1>1, <2>2, <2>4, <2>5 DEF AccountInv, Unread, Sending
  <1> QED
    BY <1>1, <1>2, <1>3, <1>4, AccountsStep DEF Accounts, Handle

\* ... and for a header.
LEMMA NextHeaderAccounts ==
    ASSUME DeliveryInv, CountsInv, AccountsInv, NEW r \in Request, NextHeader(r),
           M!TypeOK
    PROVE  AccountsInv'
  <1> PICK done \in SUBSET Begun, credit \in Credits : Accounts(done, credit)
    BY DEF AccountsInv
  <1> DEFINE h == input[r].headers[at[r]]
             rep == HeaderReport(h, keyless)
  <1>1. /\ pc[r] = "headers" /\ at[r] <= Len(input[r].headers) /\ at'[r] = at[r] + 1
        /\ UNCHANGED <<pc, input, sent, outcome, keyless, by_type>>
        /\ \A q \in Request \ {r} : pending'[q] = pending[q]
    BY DEF NextHeader, M!RecordTotal, DeliveryInv, DeliveryTypes, HandlerInv, M!TypeOK, metrics
  <1>2. Begun' = Begun
    BY <1>1 DEF Begun
  <1>h. at[r] \in 1 .. Len(input[r].headers) /\ input[r] \in Message /\ rep \in HandlerReports
    <2>1. at[r] \in 1 .. Len(input[r].headers) /\ input[r] \in Message
      <3>1. at[r] \in Nat \ {0} /\ input[r] \in Message
        BY DEF DeliveryInv, DeliveryTypes, HandlerInv
      <3>2. Len(input[r].headers) \in Nat
        BY <3>1, MessageAssumption, LenProperties
      <3> QED
        BY <1>1, <3>1, <3>2
    <2> QED
      BY <2>1, HeaderReportIsRecorded
  <1>3. value'["forwarded_bytes"] = value["forwarded_bytes"]
    <2>1. rep.total \in Nat
      BY <1>h, HandlerReportsFacts, CountsAreNat, MaxU64Assumption DEF U64
    <2>2. UNCHANGED value \/ M!FetchAdd(r, "redactions_total", rep.total)
      BY DEF NextHeader, M!RecordTotal, metrics
    <2> QED
      BY <2>1, <2>2, CountAdds DEF CountsInv, M!Counter
  <1>4. \A k \in DetectorKind : /\ pending[r][k] = 0 /\ pending'[r][k] = rep.by_type[k]
                                /\ rep.by_type[k] \in Nat
    <2>1. \A k \in DetectorKind : pending[r][k] = 0
      BY DEF NextHeader, M!RecordTotal, M!NoKinds, M!EmptyReport, M!DetectorKind, DetectorKind
    <2>2. CASE Rewritten(h, keyless) \in {<<"replaced">>, <<"redacted">>}
      <3>1. pending'[r] = rep.by_type
        BY <2>2 DEF NextHeader, M!RecordTotal, M!TypeOK
      <3> QED
        BY <1>h, <2>1, <3>1, HandlerReportsFacts, CountsAreNat
    <2>3. CASE Rewritten(h, keyless) \notin {<<"replaced">>, <<"redacted">>}
      <3>1. pending' = pending
        BY <2>3 DEF NextHeader, metrics
      <3>2. rep = EmptyReport
        BY <2>3 DEF HeaderReport, Rewritten
      <3>3. \A k \in DetectorKind : EmptyReport.by_type[k] = 0
        BY DEF EmptyReport
      <3> HIDE DEF rep
      <3> QED
        BY <2>1, <3>1, <3>2, <3>3
    <2> QED
      BY <2>2, <2>3
  <1>5. AccountInv(r, done, credit)'
    <2>1. AccountInv(r, done, credit) /\ ~HandedOver(r)
      BY <1>1 DEF Accounts, DeliveryInv, RequestInv
    <2>2. r \in done /\ \A k \in DetectorKind :
             credit[r][k] + 0 = BodyReport(input[r].body).by_type[k] + Before(r, k)
      BY <1>1, <1>4, <2>1 DEF AccountInv, Sending
    <2>3. \A k \in DetectorKind : /\ Before(r, k)' = Before(r, k) + rep.by_type[k]
                                  /\ Before(r, k) \in Nat
                                  /\ BodyReport(input[r].body).by_type[k] \in Nat
      <3> SUFFICES ASSUME NEW k \in DetectorKind
                   PROVE  /\ Before(r, k)' = Before(r, k) + rep.by_type[k]
                          /\ Before(r, k) \in Nat
                          /\ BodyReport(input[r].body).by_type[k] \in Nat
        OBVIOUS
      <3>1. /\ SumFunctionOnSet(HeaderCounts(r, k), 1 .. at[r]) = Before(r, k) + rep.by_type[k]
            /\ Before(r, k) \in Nat /\ BodyReport(input[r].body).by_type[k] \in Nat
        BY <1>1, HeaderByHeader, CountsOfRequest
      <3>2. Before(r, k)' = SumFunctionOnSet(HeaderCounts(r, k), 1 .. at[r])
        <4>1. HeaderCounts(r, k)' = HeaderCounts(r, k)
          BY <1>1 DEF HeaderCounts
        <4>2. at'[r] - 1 = at[r]
          BY <1>1, <1>h
        <4> QED
          BY <4>1, <4>2 DEF Before
      <3> QED
        BY <3>1, <3>2
    <2>4. ~HandedOver(r)'
      BY <1>1, <2>1 DEF HandedOver
    <2>5. \A k \in DetectorKind : credit[r][k] \in Nat
      BY DEF Credits
    <2>6. \A k \in DetectorKind :
             credit[r][k] + pending'[r][k] = BodyReport(input'[r].body).by_type[k] + Before(r, k)'
      <3> TAKE k \in DetectorKind
      <3> DEFINE a == credit[r][k]
                 b == BodyReport(input[r].body).by_type[k]
                 c == rep.by_type[k]
      <3>1. pending'[r][k] = c /\ c \in Nat /\ input' = input
        BY <1>1, <1>4
      <3>2. a + 0 = b + Before(r, k) /\ a \in Nat
        BY <2>2, <2>5
      <3>3. Before(r, k)' = Before(r, k) + c /\ Before(r, k) \in Nat /\ b \in Nat
        BY <2>3
      <3> HIDE DEF a, b, c
      <3>4. a + c = b + Before(r, k)'
        BY <3>1, <3>2, <3>3
      <3> QED
        BY <3>1, <3>4 DEF a, b
    <2> QED
      BY <1>1, <2>2, <2>4, <2>6 DEF AccountInv, Unread, Sending, Forwarding
  <1> QED
    BY <1>1, <1>2, <1>3, <1>5, AccountsStep DEF Accounts, Handle

\* The report gets into the map: it is credited.
LEMMA FinishReportAccounts ==
    ASSUME DeliveryInv, CountsInv, AccountsInv, NEW r \in Request, FinishReport(r),
           M!TypeOK,
           \A k \in DetectorKind : /\ by_type[k] \in Nat /\ pending[r][k] \in Nat
                                   /\ by_type[k] + pending[r][k] <= MaxU64
    PROVE  AccountsInv'
  <1> PICK done \in SUBSET Begun, credit \in Credits : Accounts(done, credit)
    BY DEF AccountsInv
  <1>1. /\ UNCHANGED <<pc, input, at, sent, outcome, keyless, value>>
        /\ \A q \in Request \ {r} : pending'[q] = pending[q]
        /\ \A k \in DetectorKind : pending'[r][k] = 0
        /\ \A k \in DetectorKind : by_type'[k] = by_type[k] + pending[r][k]
        /\ pending[r] # M!NoKinds
    <2>1. \A k \in DetectorKind : by_type'[k] = SatAdd(by_type[k], pending[r][k])
      BY DEF FinishReport, M!RecordTypes, M!MergeTypes, M!SatAdd, M!Capped, SatAdd, Capped,
             M!DetectorKind, DetectorKind
    <2>2. \A k \in DetectorKind : by_type'[k] = by_type[k] + pending[r][k]
      BY <2>1, MaxU64Assumption DEF SatAdd, Capped
    <2>3. \A k \in DetectorKind : M!NoKinds[k] = 0
      BY DEF M!NoKinds, M!EmptyReport, M!DetectorKind, DetectorKind
    <2> QED
      BY <2>2, <2>3 DEF FinishReport, M!RecordTypes, M!counters, M!TypeOK, handler
  <1>2. Begun' = Begun /\ IsFiniteSet(Begun)
    BY <1>1 DEF Begun, CountsInv, CountTypes
  <1>3. \A k \in DetectorKind : credit[r][k] \in Nat
    BY DEF Credits
  <1>4. PICK credit2 \in Credits :
           /\ \A k \in DetectorKind : credit2[r][k] = credit[r][k] + pending[r][k]
           /\ \A q \in Request \ {r} : credit2[q] = credit[q]
    <2> DEFINE own == [k \in DetectorKind |-> credit[r][k] + pending[r][k]]
    <2>1. own \in [DetectorKind -> Nat]
      BY <1>3
    <2>2. [credit EXCEPT ![r] = own] \in Credits
      BY <2>1 DEF Credits
    <2> QED
      BY <2>2 DEF Credits
  <1>a. AccountInv(r, done, credit)
    BY DEF Accounts
  <1>5. AccountInv(r, done, credit2)'
    <2>1. \A k : Before(r, k)' = Before(r, k)
      BY <1>1 DEF Before, HeaderCounts
    <2>2. HandedOver(r)' <=> HandedOver(r)
      BY <1>1 DEF HandedOver
    <2>3. \A k \in DetectorKind : /\ credit2[r][k] = credit[r][k] + pending[r][k]
                                  /\ credit2[r][k] \in Nat /\ credit2[r][k] + 0 = credit2[r][k]
      BY <1>3, <1>4
    <2>4. (r \in Forwarding)' <=> r \in Forwarding
      BY <1>1 DEF Forwarding
    <2>5. \A k \in DetectorKind : credit2[r][k] + pending'[r][k] = credit[r][k] + pending[r][k]
      BY <1>1, <2>3
    <2>6. pc[r] \in Unread => \A k \in DetectorKind : credit2[r][k] = 0
      BY <1>a, <2>3 DEF AccountInv
    <2> QED
      BY <1>1, <1>a, <2>1, <2>2, <2>4, <2>5, <2>6 DEF AccountInv
  <1>6. r \in Begun
    <2>1. \A k \in DetectorKind : M!NoKinds[k] = 0
      BY DEF M!NoKinds, M!EmptyReport, M!DetectorKind, DetectorKind
    <2>2. M!NoKinds \in [DetectorKind -> U64] /\ pending[r] \in [DetectorKind -> U64]
      BY MaxU64Assumption DEF M!TypeOK, M!U64, U64, M!DetectorKind, DetectorKind,
                              M!NoKinds, M!EmptyReport
    <2>3. \E k \in DetectorKind : pending[r][k] # 0
      BY <1>1, <2>1, <2>2
    <2> QED
      BY <1>a, <2>3 DEF AccountInv, Unread, Begun
  <1>7. ASSUME NEW k \in DetectorKind
        PROVE  by_type'[k] = SumFunctionOnSet(Own(credit2, k), Begun')
    <2>1. \A q \in Begun : Own(credit, k)[q] \in Nat
      BY DEF Own, Credits, Begun
    <2>2. /\ Own(credit2, k)[r] = Own(credit, k)[r] + pending[r][k]
          /\ \A q \in Begun \ {r} : Own(credit2, k)[q] = Own(credit, k)[q]
      BY <1>4 DEF Own, Begun
    <2>3. SumFunctionOnSet(Own(credit2, k), Begun)
             = SumFunctionOnSet(Own(credit, k), Begun) + pending[r][k]
      BY <1>2, <1>6, <2>1, <2>2, SumGrows
    <2> QED
      BY <1>1, <1>2, <2>3 DEF Accounts
  <1>8. done \in SUBSET Begun' /\ value'["forwarded_bytes"] = SumFunctionOnSet(Bytes, done)
    BY <1>1, <1>2 DEF Accounts
  <1>9. Handle(r) /\ credit2 \in Credits
        /\ \A q \in Request \ {r} : pending'[q] = pending[q] /\ credit2[q] = credit[q]
    BY <1>1, <1>4 DEF Handle
  <1> QED
    BY <1>5, <1>7, <1>8, <1>9, AccountsStep

\* The body's bytes are counted, once.
LEMMA CountForwardedAccounts ==
    ASSUME DeliveryInv, CountsInv, AccountsInv, NEW r \in Request, CountForwarded(r)
    PROVE  AccountsInv'
  <1> PICK done \in SUBSET Begun, credit \in Credits : Accounts(done, credit)
    BY DEF AccountsInv
  <1> DEFINE done2 == done \cup {r}
             n == RedactedLength(input[r].body)
  <1>1. /\ pc[r] = "recorded" /\ pc'[r] = "headers" /\ \A q \in Request \ {r} : pc'[q] = pc[q]
        /\ UNCHANGED <<input, at, sent, outcome, keyless, by_type, pending>>
        /\ \A k \in DetectorKind : pending[r][k] = 0
    BY DEF CountForwarded, Goto, M!Count, DeliveryInv, DeliveryTypes, M!NoKinds, M!EmptyReport,
           M!DetectorKind, DetectorKind
  <1>2. Begun' = Begun /\ r \in Begun /\ IsFiniteSet(done)
    <2>1. Begun' = Begun /\ r \in Begun
      BY <1>1 DEF Begun
    <2>2. IsFiniteSet(done)
      BY FS_Subset DEF CountsInv, CountTypes
    <2> QED
      BY <2>1, <2>2
  <1>n. n \in Nat
    BY MessageAssumption DEF DeliveryInv, DeliveryTypes, HandlerInv, Body, RedactedLength
  <1>3. value'["forwarded_bytes"] = value["forwarded_bytes"] + n
    BY <1>n, CountAdds DEF CountForwarded, M!Count, CountsInv, M!Counter
  <1>4. AccountInv(r, done, credit) /\ ~HandedOver(r) /\ r \notin done
    <2>1. AccountInv(r, done, credit) /\ ~HandedOver(r) /\ outcome[r] = "open"
      BY <1>1 DEF Accounts, DeliveryInv, RequestInv
    <2> QED
      BY <1>1, <2>1 DEF AccountInv, Forwarding
  <1>5. AccountInv(r, done2, credit)'
    <2>1. \A k : Before(r, k)' = Before(r, k)
      BY <1>1 DEF Before, HeaderCounts
    <2>2. ~HandedOver(r)'
      BY <1>1, <1>4 DEF HandedOver
    <2> QED
      BY <1>1, <1>4, <2>1, <2>2 DEF AccountInv, Unread, Sending, Forwarding
  <1>6. value'["forwarded_bytes"] = SumFunctionOnSet(Bytes, done2)
    <2>1. \A q \in done \cup {r} : Bytes[q] \in Nat
      BY MessageAssumption DEF Bytes, Begun, DeliveryInv, DeliveryTypes, HandlerInv, Body,
                               RedactedLength
    <2>2. SumFunctionOnSet(Bytes, done \cup {r}) = Bytes[r] + SumFunctionOnSet(Bytes, done)
      BY <1>2, <1>4, <2>1, SumPutsIn
    <2>3. SumFunctionOnSet(Bytes, done) \in Nat /\ Bytes[r] = n
      BY <1>2, <2>1, SumTakesOut DEF Bytes
    <2> QED
      BY <1>3, <1>n, <2>2, <2>3 DEF Accounts
  <1>7. done2 \in SUBSET Begun'
    BY <1>2
  <1> HIDE DEF done2
  <1>8. \A q \in Request \ {r} : q \in done2 <=> q \in done
    BY DEF done2
  <1> QED
    BY <1>1, <1>2, <1>5, <1>6, <1>7, <1>8, AccountsStep DEF Accounts, Handle

LEMMA NextAccounts ==
    ASSUME DeliveryInv, CountsInv, AccountsInv, MP!TypeOK, MP!IInv, [Next]_vars
    PROVE  AccountsInv'
  <1>m. M!TypeOK
    BY SameTypes
  <1>n. ASSUME UNCHANGED <<handler, value, by_type, pending>> PROVE AccountsInv'
    <2> PICK done \in SUBSET Begun, credit \in Credits : Accounts(done, credit)
      BY DEF AccountsInv
    <2>1. Begun' = Begun /\ Bytes' = Bytes /\ \A k : Own(credit, k)' = Own(credit, k)
      BY <1>n DEF Begun, Bytes, Own, handler
    <2>2. \A q \in Request : AccountInv(q, done, credit)'
      BY <1>n, SameAccount DEF Accounts, handler
    <2>3. Accounts(done, credit)'
      BY <1>n, <2>1, <2>2 DEF Accounts
    <2> QED
      BY <2>1, <2>3 DEF AccountsInv, Credits
  <1>1. ASSUME NEW r \in Request, FinishReport(r) PROVE AccountsInv'
    <2>1. \A k \in DetectorKind : /\ by_type[k] \in Nat /\ pending[r][k] \in Nat
                                  /\ by_type[k] + pending[r][k] <= MaxU64
      BY MetricsAssumptions, MP!PendingFits DEF MP!DetectorKind, DetectorKind
    <2> QED
      BY <1>1, <1>m, <2>1, FinishReportAccounts
  <1>2. ASSUME NEW r \in Request, Handle(r) PROVE AccountsInv'
    BY <1>1, <1>2, <1>m, QuietSteps, RedactBodyAccounts, CountForwardedAccounts,
       NextHeaderAccounts DEF Handle
  <1>3. ASSUME NEW s \in Scraper, Scrape(s) PROVE AccountsInv'
    BY <1>3, <1>n DEF Scrape, M!CopyTypes, M!LoadCounters, M!counters
  <1>4. CASE UNCHANGED vars
    BY <1>4, <1>n DEF vars, metrics
  <1> QED
    BY <1>2, <1>3, <1>4, ArriveAccounts, QuietSteps DEF Next, Idle

\* The account covers what the upstream has seen.
LEMMA AccountsCover ==
    ASSUME DeliveryInv, CountsInv, AccountsInv
    PROVE  DeliveredIsCounted
  <1> PICK done \in SUBSET Begun, credit \in Credits : Accounts(done, credit)
    BY DEF AccountsInv
  <1>1. \A r \in Reached : r \in Request /\ HandedOver(r) /\ r \in done /\ r \in Begun
    <2> SUFFICES ASSUME NEW r \in Reached
                 PROVE r \in Request /\ HandedOver(r) /\ r \in done /\ r \in Begun
      OBVIOUS
    <2>1. r \in Request /\ HandedOver(r)
      BY ArrivedWasSent DEF Reached
    <2> QED
      BY <2>1 DEF Accounts, AccountInv
  <1>2. \A r \in done : r \in Forwarding
    BY DEF Accounts, AccountInv, Begun
  <1>3. /\ IsFiniteSet(Begun) /\ IsFiniteSet(done)
        /\ Reached \in SUBSET done /\ done \in SUBSET Forwarding /\ IsFiniteSet(Forwarding)
    <2>1. Forwarding \subseteq Begun
      BY DEF Forwarding, Begun, CountsInv, CountTypes
    <2> QED
      BY <1>1, <1>2, <2>1, FS_Subset DEF CountsInv, CountTypes
  <1>4. value["forwarded_bytes"] \in SumFunctionOnSet(Bytes, Reached)
                                        .. SumFunctionOnSet(Bytes, Forwarding)
    <2>1. \A q \in Request : Bytes[q] \in Nat /\ Bytes[q] <= Bytes[q]
      BY MessageAssumption DEF Bytes, DeliveryInv, DeliveryTypes, HandlerInv, Body, RedactedLength
    <2>2. Forwarding \subseteq Request
      BY DEF Forwarding
    <2>3. /\ SumFunctionOnSet(Bytes, Reached) <= SumFunctionOnSet(Bytes, done)
          /\ SumFunctionOnSet(Bytes, Reached) \in Nat
      BY <1>3, <2>1, <2>2, SumMonotone
    <2>4. /\ SumFunctionOnSet(Bytes, done) <= SumFunctionOnSet(Bytes, Forwarding)
          /\ SumFunctionOnSet(Bytes, done) \in Nat
          /\ SumFunctionOnSet(Bytes, Forwarding) \in Nat
      BY <1>3, <2>1, <2>2, SumMonotone
    <2> QED
      BY <2>3, <2>4 DEF Accounts
  <1>5. ASSUME NEW k \in DetectorKind
        PROVE  by_type[k] >= SumFunctionOnSet([r \in Request |-> Reported(r, k)], Reached)
    <2> DEFINE reported == [r \in Request |-> Reported(r, k)]
    <2>1. \A r \in Reached : reported[r] \in Nat /\ reported[r] <= Own(credit, k)[r]
      <3> SUFFICES ASSUME NEW r \in Reached
                   PROVE  reported[r] \in Nat /\ reported[r] <= Own(credit, k)[r]
        OBVIOUS
      <3>1. /\ r \in Request /\ HandedOver(r)
            /\ AccountInv(r, done, credit) /\ RequestInv(r)
        BY <1>1 DEF Accounts, DeliveryInv
      <3>2. /\ credit[r][k] + 0 = BodyReport(input[r].body).by_type[k] + Before(r, k)
            /\ credit[r][k] \in Nat
        BY <3>1 DEF AccountInv, Credits
      <3>3. /\ Reported(r, k) = BodyReport(input[r].body).by_type[k] + Before(r, k)
        BY <3>1, HeaderByHeader DEF RequestInv
      <3>4. reported[r] = credit[r][k] /\ Own(credit, k)[r] = credit[r][k]
        BY <3>1, <3>2, <3>3 DEF Own
      <3> QED
        BY <3>2, <3>4
    <2>2. \A q \in Begun : Own(credit, k)[q] \in Nat
      BY DEF Own, Credits, Begun
    <2>3. Reached \in SUBSET Begun
      BY <1>1
    <2> HIDE DEF reported
    <2>4. /\ SumFunctionOnSet(reported, Reached) <= SumFunctionOnSet(Own(credit, k), Begun)
          /\ SumFunctionOnSet(reported, Reached) \in Nat
          /\ SumFunctionOnSet(Own(credit, k), Begun) \in Nat
      BY <1>3, <2>1, <2>2, <2>3, SumMonotone
    <2>5. by_type[k] >= SumFunctionOnSet(reported, Reached)
      BY <2>4 DEF Accounts
    <2> QED
      BY <2>5 DEF reported
  <1> QED
    BY <1>4, <1>5 DEF DeliveredIsCounted, Bytes

\* However many handlers record at once, and whichever requests are lost,
\* delivered late or given up: when the upstream has a request, the metrics have
\* its bytes and everything that was removed from it, and of requests that
\* are never sent on, or not yet, forwarded_bytes has nothing.
THEOREM DeliveredAlwaysCounted == Spec => []DeliveredIsCounted
  <1>1. Init => AccountsInv
    BY InitAccounts, InitDelivery
  <1>2. DeliveryInv /\ CountsInv /\ HandlerInv /\ AccountsInv /\ MP!TypeOK /\ MP!IInv
           /\ [Next]_vars => AccountsInv'
    BY NextAccounts
  <1>3. MP!Spec => []MP!TypeOK /\ []MP!IInv
    BY MetricsAssumptions, MP!MetricsTypeOK, MP!MetricsIInv
  <1>4. Spec => []MP!TypeOK /\ []MP!IInv
    BY <1>3, OneMetrics, ProxyUsesMetrics, PTL DEF UsesMetrics, M!Spec, MP!Spec
  <1>5. Spec => []CountsInv
    BY InitCounts, NextCounts, HandlerInvHolds, PTL DEF Spec
  <1>6. DeliveryInv /\ CountsInv /\ AccountsInv => DeliveredIsCounted
    BY AccountsCover
  <1> QED
    BY <1>1, <1>2, <1>4, <1>5, <1>6, DeliveryHolds, HandlerInvHolds, PTL DEF Spec
=============================================================================
