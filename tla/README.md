# A verification project for privacy-proxy

TLA+ models of privacy-proxy, a Rust program that removes personal data and
secrets from logs on the command line and from HTTP requests on their way to
an upstream. TLC checks the models on small instances, and TLAPS proves the
theorems for every value of the constants. Paths below are relative to the
repository; `lib.rs` is `crates/privacy_proxy_proxy/src/lib.rs`, `main.rs` is
`crates/privacy_proxy_cli/src/main.rs`, and `engine.rs`, `stats.rs`,
`config.rs` and `error.rs` are in `crates/privacy_proxy_core/src/`.

## The system

| Component | State | Operations | Interacts with |
|---|---|---|---|
| Scan report (`stats.rs`) | a total and counts by kind, `u64`, saturating | `record`, `merge`, `is_empty` | built by the engine at every node of a walk; merged by the command line per line, by the proxy per body, per header value and into the metrics |
| Engine (`engine.rs`) | none after construction: detectors switched on, field rules, patterns | `redact_value`, `scan_value`, `redact_str`, `scan_str` | called per line, body and header value; reads the hash key from the environment on each redaction |
| Configuration (`config.rs`, `main.rs:325-369`) | the TOML file | `init` writes it, `load_config` reads it: `from_toml_str`, `validate` | read once when a command starts; several `init` may write it meanwhile |
| Body redaction (`lib.rs:539-640`) | the lines not yet redacted, output and report so far | `redact_body`, `redact_jsonl_or_text` | called by the handler once per body; calls the engine per value, line or text |
| Line reader (`main.rs:492-523`) | a `BufReader`'s chunk, the line gathered | `read_limited_line`, `fill_buf` | driven by the two loops below |
| `redact`, `scan`, `assert` (`main.rs:139-183, 406-489`) | line count, report, output so far | one loop each | engine, line reader, files, exit status |
| Metrics (`lib.rs:95-163`) | six relaxed atomics; counts by kind under a mutex | `fetch_add`, `record_report`, `record_kind`, `snapshot` | shared by all handlers and by `/metrics` |
| Proxy handler (`lib.rs:184-307`) | one future per request | read, decode, redact, count, rewrite headers, build the URL, send and follow redirects, relay | client, upstream and where it redirects to, engine, metrics |
| Response relay (`lib.rs:344-375`) | none | reads the upstream's whole body, copies headers | upstream, client |

What is hard in it:

* **Concurrency.** Handlers run on several threads and share atomics that are
  all accessed with `Ordering::Relaxed`, beside a map behind a mutex. A report
  is added to the total before it is added to the map; a scrape copies the map
  before it loads the counters. Neither order is tested.
* **Failure and departure.** A client may leave at any await, which drops the
  handler's future there; the upstream may get a request whose `send` failed,
  or get it after the client has gone. There is no timeout. `send()` is that of
  `reqwest::Client::new()` (lib.rs:57, 293), which follows up to ten redirects
  by itself, so that one request of the client may go out several times.
* **Chunks.** A line may be cut anywhere by the reads that bring it in; the
  line limit is applied chunk by chunk; the last line may lack its ending; a
  log may grow while it is read.
* **Partial work.** Every error, a full disk or a kill leaves what `redact`
  has written in place.
* **Passes over each other's output.** The detectors run one after another
  over the whole text, so each sees the replacements the others have written.
* **Matches that overlap what was replaced.** The IBAN pattern matches four
  characters and the replacement is longer; the search resumes inside it.
* **Two loops over lines.** The proxy redacts a JSONL body with code of its own,
  beside the command line's.
* **A file written in two steps.** `init` creates or truncates the configuration
  and then writes it; another `init`, a kill or a reader may come in between.
* **Two walks.** Redaction and scanning walk a JSON value with separate code.

What makes each component correct: a report's total agrees with its counts;
every secret that stands apart is hidden, and counted once for each pass that
is to see it, and `scan` agrees with `redact`; lines reach the engine whole; the output is the redacted start
of the input whatever happens, and the same by file or by request; a configuration
torn by a crash hides no less than a whole one, and one read while it is rewritten is
spliced in one setting at most; `assert` passes only what is clean; metrics are
consistent in every scrape, never go back and lose nothing; what reaches the
upstream is counted before, and redacted but for its path and query and the header
values that cannot be; of what goes out for a request, redirects included, each
arrives once at most; every request is counted once, under one outcome, and ends
if its peers do.

## The modules

| Module | Models | State and actions |
|---|---|---|
| `ScanReport` | `stats.rs` | operators: `Record`, `Merge`, saturating at `MaxU64`, a constant |
| `ReportWalk` | how reports are built over a nested value | a stack of reports (the walk's frames); `RecordKind`, `Descend`, `Return`. `direct` is a history variable: what was recorded, wherever it is now |
| `ProxyMetrics` | the metrics under Rust's memory model | per counter its value and the oldest value each task may still load (`view`, and `lock_view` for what the mutex passes on); the map, who holds what still to be recorded (`pending`), the map's copy and the last scrape. One action per access: `Count`, `RecordTotal`, `RecordTypes`, `CopyTypes`, `LoadCounters` |
| `Proxy` | the handler, its client and its upstream | a program counter per request, headers rewritten so far, what went out for it (`sent`: the request and then its redirects), which of these are on the wire and which have arrived, outcomes, and whether the environment lacks the hash key (`keyless`); `Redirect` is external, reqwest's; its metrics are `M == INSTANCE ProxyMetrics` with requests as tasks. One action per await or shared access |
| `LineSource` | what a line reader promises | whole lines, too long, end, unreadable; no chunks |
| `LineReader` | `read_limited_line` over a `BufReader` | how much is fetched and consumed, the line gathered; one action per `fill_buf` and per turn of the loop; `Grow` is another program appending to the input |
| `Lines` | `split_line_ending` and `split_inclusive` | operators on texts |
| `LineRedaction` | what both loops over lines promise | the lines not yet redacted, what is due of the last one, the output: each line redacted by itself, in order, with its ending; giving up at any point leaves a redacted start |
| `BodyRedaction` | `redact_body` | by content type: `Empty`, `InvalidUtf8`, `Whole`, `OneText`, or `EnterLoop` and then `NextLine` (blank, value or text) to `EndOfBody`; without a hash key every call of the engine fails |
| `NumberPasses` | the IBAN and card passes | the text, where the search resumes (`from`), how much is copied (`last_end`), the output; `ReplaceMatch`, `SkipMatch`, `EndPass`, `NextPass`, twice over. `spans` is a history variable: what was replaced |
| `ConfigFile` | `init_config` and `load_config` | the file as a sequence of pieces: settings, whole or in a head and a tail, of the example or of the file there was before, so that the head of an old setting may be followed by the tail of one of the example's (`Splices`); per `init` how much it has written at its own offset; the loading command and what it has read. `opened` is a history variable |
| `Cli` | `redact`, `scan` and `assert` | extends `LineReader`, `Lines` and `ScanReport` with the loops: count, output byte by byte, report, exit status; write errors after any prefix, kills at any step |
| `Engine` | passes, walk, field rules, policies | texts are sequences of spans, each with the place it stands in (after "Bearer ", in a cookie, in a URL parameter, in a cookie as one of these), what it holds, and whether it is glued to the one before, with no word boundary in between; names are strings, letter for letter; values nest to `Depth`; each walk is a function of how deep a value is and then of the value, a level asking the one below. `policy` is the mode with what the key makes of the secrets; the calls are `Redact`, `Scan`, `Rescan` and `RedactAgain` on the result |

In `Cli` and `BodyRedaction` the engine is a set of constant operators (is this
text a JSON value, what `redact_value` and `redact_str` make of it, what they
report), and the runs of both use the small engine of `MCText`. In `Proxy` it is
a verdict, a length and a report per body and header value: `Engine`,
`ReportWalk` and `ScanReport` justify what they assume of it (reports whose
total agrees with their counts), and `BodyRedaction` what it assumes of
`redact_body`.

Three abstract specifications are implemented: `LineSource` by `LineReader`
(`HandsOutLines`), `ProxyMetrics` by `Proxy` (`UsesMetrics`), and
`LineRedaction` by `Cli` and by `BodyRedaction` (`RedactsLines` in each), so that
the same log comes out the same by file and by request. All are checked and
proved. The two map to it differently: the command line writes a line's content
and then its ending, so its ending is `due` in between, and a kill leaves
half a line; the proxy hands over a body or nothing.

Mutants, definitions under a comment "Mutant", are plausible mistakes in the
code; each property fails when one of them replaces what it mutates.

## The runs

| Run | Instance | Shows |
|---|---|---|
| `report_walk` | two kinds, three frames, `MaxU64` small enough to saturate | totals agree with counts at every nesting, saturated or not; each detection is merged exactly once |
| `proxy_metrics` | two handlers, a scraper, reports of up to two kinds, counters to 3 | with loads that may return any value coherence allows, no snapshot shows more redactions by kind than in total; none goes back; nothing is lost |
| `proxy_pair` | two requests at once, three messages, no redirects | outcomes and counters agree; the upstream never has what is not yet counted, and no more is counted as forwarded than was not refused; handlers get to their end |
| `proxy_every` | one request, a message for every branch, with and without a hash key, up to two redirects, and a scraper | what arrives anywhere is redacted but for path and query and the header values that cannot be, within the limits, and each request that goes out arrives once at most; the handler's steps implement `ProxyMetrics` |
| `line_reader` | all inputs of up to 5 bytes, growing, chunks of 1 to 3, lines of up to 3 | whole lines whatever the chunks; calls return |
| `body_redaction` | every body of up to 4 bytes over six, and longer ones: values on several lines, one value over several, both endings; five content types; with and without the key | a body goes by its lines as a file does; no denied field of a JSON or JSONL body stays; the report is that of every line once; without a key nothing but blank bodies passes |
| `number_passes` | texts of up to three pieces: IBANs of 5 and 6 characters, spaced, in small letters, one beginning another, one starting within another; cards of 3 and 4 digits; digits, separators and letters around them; groups of digits behind two IBANs, the second spaced or not; redacted twice | every IBAN and every card by itself is hidden whole; nothing else changes, however matches overlap; no one-digit neighbour of what is hidden is valid; a second redaction finds only IBANs right behind a mark and cards in the run of digits, blanks and dashes behind one |
| `config_file` | two inits, each forced or not, and a load; no file, or one of four; writes and reads that stop short at six places, four of them within a setting | the init that opened the file last leaves the whole example if it ends; an unforced one alters nothing that is there; whatever is loaded hides no less than the example but in settings of which part of the old file was read, and one of those at most is a splice |
| `cli` | all texts of up to 4 bytes that make secrets and lines, and some with CRLF, blank, invalid or overlong lines; limits 0, 1, 2 | output is the start of the redaction, by lines as `LineRedaction` has it, reports cover the sample exactly, exit statuses are true, commands end |
| `engine` | texts of 1 and 2 spans in every place, one in another included, and of 2 and 3 glued ones; arrays, objects of depth 2 with names that meet each rule; three choices of detectors, all modes, with and without a key | each secret that stands apart is hidden and counted, once or as what it is nested in too; scan agrees, glued or not; of secrets that stand apart, redaction is idempotent and a scan of the result finds nothing new |
| `assert_sample`, `whole_hashes` | as `cli` and `engine` | the code departs from what a document says; see below |

Why the bounds are enough. Handlers interact only through the metrics and
each counter is independent, so two of them with one scraper meet every race
of an access with another; the theorems remove the bound. A text of four
bytes holds a secret of two across any chunk boundary, with lines before and
after it; three bytes are a chunk smaller and larger than a line, and one more
byte than `max_line_bytes` is reached. Passes interact pairwise: in one span, through
the counts of two, or where the mark of one frees the one glued to it, in the same redaction or
in the next. Two redirects are what it takes for the client's URL to be neither the
URL nor the Referer any more; reqwest follows ten. `proxy_pair` has
`MaxRedirects` 0, so that of what redirects do to the counts only the theorem
`DeliveredAlwaysCounted` speaks, and in `proxy_every` the constraint
`ScrapesBeforeRedirects` leaves out what follows a scrape behind the first redirect,
since redirects touch no metric. A body of
four bytes has two lines with a value, a secret or a field each, and the longer
ones one value over several. In `NumberPasses` the lengths are constants: an
IBAN of 5 or 6 characters and a card of 3 to 5 digits have the same check
digits as one of 15 to 34 or of 13 to 19, and three pieces put a match before,
within and behind another; the texts in which groups of digits follow two IBANs
are those where a second redaction looks for cards elsewhere. Of a configuration any prefix is one of: empty, cut
between settings, within a list, within a string, within a number; `Breaks` has each.
A read goes over from the old file to the example only between pieces of the same
number, so the old files of the run have their lists, a limit and a comment cut where
the example has its own, and load as a list closed by another's end, a number with
digits behind it, a comment that takes in the rest of a line.
`MaxU64`, `MaxBody`, `MaxRedirects`, `MaxLineBytes`, `Capacity`, `MaxText`, `Depth` and
`Breaks` are the named bounds. Counters in `ProxyMetrics` stop at
`MaxU64` (guard of `FetchAdd`): wrapping at 2^64 is not modelled.

Deadlock is not checked where the system does stop: a command that has ended,
a reader whose answer is final, an engine with no call left to make, a body
redacted, two passes done, inits and a load over.

### Fairness

* `Proxy`: `HandlerSpec` gives each handler weak fairness on the steps it
  takes between awaits, which need nothing but a thread of the runtime; the
  mutex is held for a few instructions and by no one who waits. That a client
  sends its body or closes and that an upstream answers or closes is *not*
  assumed: `RequestsEnd` has it as a hypothesis (`PeersFair`), because the code
  has no timeout and a silent peer holds a handler for ever.
* `LineReader` and `Cli`: weak fairness on the program's own steps, given that
  the input answers each read (a file does; a pipe that stays open and silent
  delays the command). No fairness on failing, growing or being killed.

## What the runs found

* **`assert` passes logs with secrets** (`assert_sample`). README.md:104 says
  it "fails when detections are present". It decides by the first
  `sample_limit` lines, 10000 by default, and ignores `truncated`. In contrast
  `PassIsClean` holds: a pass whose report is not truncated is clean.
* **Hash mode breaks its own digests** (`whole_hashes`). README.md:184
  promises `[HASHED:type:hmac_sha256]`; the IBAN pass takes about one digest
  in a hundred for an IBAN (two letters, two digits, some prefix of 15 to 34
  characters valid mod 97) and replaces part of it.

Read in the code and kept in the models, with a property that says how far it
goes:

* A redacted log fails `assert`, although docs/integrations.md:61-62 runs one
  after the other: denied fields, cookies and URL parameters count by where they
  stand, marks included. `RescanFindsNothingNew`: in mask and drop mode nothing else does and
  no count grows, if the secrets stood apart; for those that did not, see
  `AgainOnlyBehindMarks` below.
* A bearer token in a cookie's value is replaced and counted twice, as a token
  (engine.rs:254) and with the cookie (engine.rs:724). `HidesEachSecret`: nothing else
  is, and in the end the cookie's mark alone is left.
* The client's path and query go into the outgoing URL as they came (lib.rs:192, 289),
  so that `?token=...` reaches the upstream whatever the configuration; if that
  redirects, reqwest may put the URL in the Referer of the next request, to another
  host perhaps. `DeliveredIsRedacted`: no further than that, and what else may go as it
  came are header values, those that are not visible ASCII and, without a hash key,
  those whose name does not give them away.
* Hash mode without a key forwards requests: an empty or blank body needs no
  engine, and a header value the engine fails on is forwarded as it came;
  error.rs:19 says the mode requires a key. `KeylessForwardsBlanks`: of
  bodies, those are all.
* `forwarded_bytes` is raised before the send and stays when the send fails;
  lib.rs:413 calls it bytes forwarded. `DeliveredIsCounted`: it is off by no more
  than requests that got no further, each once.
* Redacting masked text again can change it, which tests/properties.rs:44 tests
  against: two IBANs with nothing between them, or an IBAN and a card, are one word
  to `\b`, so that the second is found only when the first has become a mark. The
  digits behind the second then begin a match that they did not begin before, and
  the search for cards, which goes on behind each match whether it is valid or not, comes
  upon other numbers among them. `AgainOnlyBehindMarks`: only there.
* A configuration cut off by a crash may load: empty as the default, cut in a
  number with a smaller limit, `sample_limit = 1` for 10000 in the worst case,
  and `assert` then looks at one line. `TornIsExamplePrefix` and
  `LoadedHidesEnough`: it hides what the example hides, since the default
  denies every field the example does.
* A command that loads the configuration while `init --force` rewrites it may read the
  old file up to some place and the example from there on, and load what that makes. An
  old `fields_deny` whose end is where the example's list ends is loaded with the
  example's end, `["ssn", "cookie", "set-cookie"]` say, which hides less than either; an
  old `fields_allow` may get names that were to be denied, an old limit more digits.
  `LoadedHidesEnough`: of what says what to hide one setting at most is spliced so, one
  of which part of the old file was read.

Read in the code, without a property: a gzip body's members after the first
are dropped (README.md:119; `Body.rest`); the HELP texts of
`rejected_payloads` (lib.rs:401) and `upstream_errors` (lib.rs:395) are wider
than what is counted, since a redaction error is no rejection and a response
that breaks off no upstream error; `redact` with its input as output under
another spelling empties the input (`same_file`; main.rs:140 compares paths as
spelled); one snapshot may show more rejections than requests; JSON sent without
a JSON content type is redacted as a text, its denied fields with it; a JSONL body
of one line under `application/jsonl` starts with "application/json", is parsed
whole and loses its newline; `prefer_jsonl` is true in both calls of
`redact_jsonl_or_text`, so the ways out of its loop into `redact_str`
(lib.rs:617-623, 635-639) are never taken; of a repeated response header only the
last value is relayed.

## The proofs

All proofs are in modules named `..._proofs`, which extend the module they are
about; those about `LineReader` are in `Cli_proofs`, since `Cli` extends it, and those
about `ReportWalk`, which builds the reports of a walk, in `Engine_proofs`.
Assumptions on constants are those named `ASSUME` in the modules, and TLC
evaluates them in the runs. Of the 40 properties the runs check, 36 are theorems;
the other four are about liveness.

**What the proofs share** is in `Basics_proofs`. The lemmas on `Record`, `Merge` and
the saturating sum; the step that matters: saturating addition is associative on
naturals, so the saturated sum of saturated sums is the saturated sum. The lines of a
text (`LinesOf`, cut behind each of `LineEnds`), the first line and what follows it;
`NextLineIsNext`: whoever has cut a text at the end of its `n`-th line, and takes what
is up to the next newline or the end, takes the line `n + 1`. Sums over a finite set,
from which any member may be taken out first (`SumTakesOut`).

It also has what takes the place of induction over data. The properties compare a
count, a report or an output with a fold over the whole input (`FoldLeft`,
`FoldSet`, `FlattenSeq`), and the library's induction theorems cannot be
instantiated here. So induction is derived from finite sets: `SmallestSet` (of a
set of sets some finite one has no smaller within it), from that `LeastNat` and
`InductionOverNat`, with the induction hypothesis as a *set* of numbers, and then
that a fold exists (`FoldExists`) and goes step by step (`FoldRuns`): a
function `f` on `0 .. n` with `f[0]` the base and `f[i]` one step from `f[i - 1]`, of
which the fold is the last value, and any two such functions agree (`RunsAgree`).
An invariant then says where on that run the program is.

* `Engine_proofs`, the texts: a pass does with a span what it would do with it alone, as
  long as none is glued (`TextPassed`). Of the passes, one at most replaces a raw span,
  and it is the one the span's place or kind calls for (`RawPassed`), but for a bearer
  token in a cookie, which the first two passes replace (`DoublePassed`); so of
  each span it is known what it is after each pass (`RawRuns`, `TextHidden`). What that
  leaves, no other pass takes for its own, and its own only if it goes by the place, as
  those of cookies and of URL parameters do (`HiddenPassed`, `TextAgain`, `TextSettles`).
  In hash mode this needs `DigestsHold`: no digest is
  taken for an IBAN. The condition is part of the properties, and `whole_hashes` shows
  what happens without it. So is `StandApart`: of glued secrets the properties are
  false, as the second of two IBANs with nothing between them goes in the next
  redaction. `ScansAgree` has no such condition: texts that are alike but for the mode
  of their marks stay alike in each pass, glued or not (`PassAlike`, `TextAlike`), so a
  scan, which masks, counts what redaction counts (`AgreeingEverywhere`).
* `Engine_proofs`, the values: `Sound` says of a level that raw values in it are hidden as
  `Hidden` says and counted as `Secrets` says, that a scan counts the same, and that what is
  hidden is settled: redacted again it stays, scanned again it counts no more. The walks at
  a level are sound if those below are (`SoundNext`; `LevelFacts` and `AgainFacts` for the
  three shapes of a value), nothing is below the first, so they are at every depth
  (`SoundEverywhere`). That a walk is what its own recursion says is a theorem and not a
  definition (`RedactLevels` and the other four): there is a function for each depth by
  induction, and any two agree. The calls then come down to `EngineInv`: each result is
  that of the call on the value given, or on what redaction made of it, in any order.
  So `SecretsHidden`, `ScansAgree`, `RedactionIsIdempotent`, `RescansFindNothingNew`,
  for every value of any depth, every set of names, which are any strings, and choice
  of detectors. Assumed
  is what the code's types give: `Values` are JSON over raw spans no deeper than `Depth`,
  and `fields_deny` and `fields_allow` have no empty name.
* `Engine_proofs`, the reports: `TotalsAlwaysAgree`, by the type invariant and the lemmas;
  `WalkAlwaysMergesAll`: the reports of the open frames, merged from the outermost in,
  are the report on which each detection was recorded directly. Recording at the top
  changes the last merge only, and a return merges two neighbours, which is
  associative, saturated or not.
* `ProxyMetrics_proofs`: `SnapshotsCoverTypes` and `TypesAddUp`. "No snapshot
  shows more by kind than in total" is far from inductive: a relaxed load may
  return an old total. The strengthening `IInv` numbers each unit added to
  `redactions_total` (`added_at`) and remembers which of them the map has
  been credited with (`credited`): every credited unit was added before the
  crediting task took the lock, so it is below `lock_view`, what any later
  holder of the lock must see. A copy of the map made under the lock therefore
  shows only units that the loads after it cannot miss. `added_at` and
  `credited` are history variables; no guard reads them. `ScrapesGoForward` needs
  another invariant, `ShownInv`: what a scraper has been shown is behind its view,
  and the map it was shown behind the map it has cloned, which is behind the map.
* `Proxy_proofs`: `ProxyUsesMetrics`, each action of the handler is an action of
  `ProxyMetrics` or leaves the metrics alone, for any requests and messages;
  `ProxySnapshotsCoverTypes` carries the metrics theorem over by instantiating
  the proof module, and `ProxyIsTyped` its type invariant.
  `DeliveredAlwaysRedacted`: the invariant `RequestInv` says for each request that
  `built` rewrites the headers before `at` (one lemma for a header that is left
  out, one for a header that goes on), that whoever is past `received` has
  passed the checks, and that what went out first is `built` when
  `at` is past the last header. Cutting the headers at `at` is what makes it
  inductive. `OutInv` has the rest: what went out later is part of the first, with
  the URL of the one before as its Referer at most, and only the first has the
  target's URL, so that the client's path and query are in the first two alone; what is on
  the wire has gone out and has not arrived, so that nothing arrives twice
  (`ArrivedInv`). `OutcomesAlwaysCounted`: the counters are the sizes of the sets of
  requests that have begun, were refused, have failed; `Request` may be infinite,
  the invariant says that finitely many have begun. `DeliveredAlwaysCounted` takes
  the sums over the requests that got that far: what each has had removed is in the
  counts by kind, less what it is still about to record, and each one's bytes are in
  `forwarded_bytes` once from its own step on; a sum over a finite set gains one
  member's share when that member joins it.
* `BodyRedaction_proofs`: `BodyIsTyped`, `BodyRedactsLines` and
  `ReportAlwaysCoversBody`, for any engine whose answers are texts and whose reports
  are reports (`EngineAnswers`, an assumption of the theorems: the engine is a
  constant here, and TLC's instance has it). The type invariant carries what the
  refinement needs: in the loop the body goes by lines and `rest` is what is left of
  it, so each turn is `RedactNext` with nothing left due, the end is `Finish`, an
  engine error `GiveUp`, and a body that goes another way stutters but for its end.
  `ReportInv` adds that `rest` is what follows some line of the body and `stats`
  the run of the fold up to that line.
  `DeniedFieldsAlwaysHidden`: `OutInv` says that the output is that of the lines so
  far, or of the whole value; so of an announced body it is a value without a denied
  field, or one such on each line. Two things are assumed of constants there and hold
  in TLC's instance. `HidesFields`: what `redact_value` makes of a value is one without a
  denied field (of the walk this is `SecretsHidden`). `ValuesStandApart`: where each
  line is blank or a whole value without one, and only the last may lack its ending, the
  text has none; so it is of JSON, where a sequence of whole values is read in one way.
  `KeylessOnlyBlanks`: without a key the loop gets over blank lines only, so that
  the body is `output` followed by `rest` and `output` is blank; it needs that
  `str::trim` removes \n and \r (`WhitespaceAssumption`).
* `Cli_proofs`, the reader: `AlwaysGathered` and `ReaderHandsOutLines`. The invariant
  says that the line gathered is the part of the input before the point
  consumed, without a newline but as its last byte; concatenating adjacent parts
  preserves it, and appending to the input changes no part already read. With
  it every step is a step of `LineSource` or a stutter: `Take` is `HandOut`
  when it meets a newline, `Exhausted` hands out the last line, `Overflow` is
  `TooLong` because what is gathered and what follows have no newline.
* `Cli_proofs`, the commands: `CliRedactsLines`. The reader's invariant also holds of
  `Cli`, whose every step is one of the reader's or leaves it alone. `CliInv` adds
  what ties the two state machines together: whose turn it is, that the
  gathered line is handed out only at `line`, that no call is open elsewhere.
  `rest` is what follows the last line written, so that the reader's own steps
  are stutters; `WriteContent` is `RedactNext`, `WriteEnding` is `Emit`, a failing
  write or a kill is `GiveUp`. Of the engine nothing is assumed but that its answers
  are texts (`EngineAnswers`) and its reports counters (`EngineReports`).
* `Cli_proofs`, what the commands say of the input: `Kept` has the types and the bounds,
  `Progress` the place: the lines taken end with line `count`, the output is there on
  the run of `FlattenSeq` and the report on that of `FoldLeft`, except that a line's
  content may be written and its ending not. `Results` carries that to where
  the command ends. So `CliAlwaysTypeOK`, `OutputAlwaysRedaction`,
  `SuccessAlwaysWhole`, `ReportAlwaysCoversSample` and, since a saturating total of
  reports is zero only if each is, `PassAlwaysClean`.
* `ConfigFile_proofs`: `LastInitAlwaysWins`, `PlainAlwaysKeepsConfig`,
  `LoadedAlwaysHidesEnough` and `TornAlwaysExamplePrefix`, for any number of inits and
  any old file. The first: what the init that opened the file last has
  written is in its place (`WriteInv`), because the others, at offsets of their
  own, can only put there what belongs there; so nothing is known of the *other*
  inits' parts, which may be zero bytes. The last two: what is read comes, piece by
  piece, from such files (`LoadInv`): pieces of the old file up to some place and none
  behind it (`Seamed`), since an old file that has been truncated does not come back. In a
  text that parses, a setting is the default, or what the old file or the example has,
  or the number the text ends in, or spliced where the text goes over from the one to
  the other (`ValueFacts`). There is one such place, so that one setting at most is
  spliced (`OneSplice`).
* `NumberPasses_proofs`, the loops: `OnlySpansAlwaysChange`, by `PassInv`: the spans end
  in order before `last_end`, and the output is what they make of the text up to there.
  `FoundInv` says of each match behind `from` that can be replaced that it is, from its
  start or, for IBANs, within another span; that it is inductive rests on
  `NoneInside`: no match that stands apart begins between a match and where the
  search goes on. That takes the shapes of the two patterns, and is why a card behind a
  separator that another digit precedes is left out of `CardsHidden`.
* `NumberPasses_proofs`, the check digits: `RemainderOfNumber`, the loop of
  `is_valid_iban` comes to the whole number modulo 97, of any length; `LuhnIsCheckSum`,
  that of `is_luhn_valid` to the sum ISO 7812 asks for. With them
  `IbansAlwaysHidden` and `CardsAlwaysHidden`. `MistypedDigitsAlwaysShow`: what has been
  replaced was valid (`ValidInv`); another digit in its place makes the remainders
  part there (10 and 97 have no common factor, so that they never meet again) and
  changes the sum of digits by another number modulo 10.
* `NumberPasses_proofs`, the second redaction: `AgainAlwaysBehindMarks`. Each character
  of an output has its source in the text (`SourcesExist`), and between two marks the
  output is a stretch of the text in which nothing was replaced (`StretchExists`). So an
  IBAN of the output that no mark precedes was one in the text (`IbanWasThere`),
  and the pass would have replaced it; the card pass brings none about. A card is found
  by a search whose next turn starts where the last match ended, so that it is not
  enough that the number was in the text. `Search` is the set of the matches that such a search
  comes upon; in a run of digits, blanks and dashes that no mark precedes that set is the
  same in the output as in the text (`SearchesAgree`), because no match reaches into a
  run from before it, nor, where the search comes upon it, into a span. `AgainInv` says so
  of the texts of all passes: after the first, none has an IBAN but behind a mark
  (`NoIban`); after the second, no search from the start of such a run comes upon a
  card (`NoCard`). Doing it corrected the property twice: that every span of a second
  redaction is right behind a mark is false of cards, and so is that there are only
  digits and single separators between two of them in between, as the mark may end where a
  blank follows. The run has texts that show both.

Only model-checked is liveness (`HandlersProceed`, `RequestsEnd`, `CallsReturn`,
`CommandEnds`), which with ENABLED is outside what the prover does.

The type invariants of `LineReader` and `ProxyMetrics` are checked as parts of those
of `Cli` and `Proxy`, and proved.

## Not modelled, and why

* The regular expressions but for those of IBANs and cards, JSON and TOML
  parsing, UTF-8 decoding and gzip: libraries; the models take their verdicts
  as inputs. A span of a text in `Engine` stands for what one pattern matches,
  and for a place in which it may be nested. Left out there are matches of two patterns
  that overlap in part, other nests (three deep; several secrets in one cookie's value;
  a cookie header inside a URL parameter, where rewriting "cookie:" to "cookie: "
  also moves the end of the URL), glued secrets that need no boundary in front, as
  an IPv6 address does not, or one behind, that the mark on their right would give
  them, the layout of a cookie header, and inputs that have the program's own marks in
  them. A header of the form
  "[HASHED:cookie:..." that a hash leaves may be taken for a cookie's, so that the
  second redaction and the scan of the result are not spoken of in hash mode.
  `NumberPasses` has overlaps and marks for its two patterns, in mask mode and
  without digits and spaces of other scripts.
* Of redirects, what reqwest decides by itself: methods, which of the headers go on and
  whether the body does is left open, and so is whether the Referer does. Its
  sending again of a request that the connection had not taken is not modelled.
* Configurations cut in other places: each list and number is cut in one, `mode` and
  the names of keys in none.
* Response headers (lib.rs:355-366): a loop that copies them.
* Formatting: Prometheus and JSON output, logs, error messages, completions,
  `demo`, `generate-corpus`, the joining of target URLs (`TargetUrl` has what goes into
  one) and method conversion. They keep no
  state and are tested directly.
* Counters wrapping at 2^64, and a poisoned mutex: `record_kind`'s map update
  does not panic.

## Plan

Done, in this order: reports; metrics and their theorem; the proxy handler and
its refinement; the line reader and its refinement; the command line; the
engine; body redaction, the abstract specification of line redaction and its two
refinements; the IBAN and card passes; the configuration file; the theorems about
what the proxy delivers and counts, about scrapes, and about hash mode without a
key; induction over finite sets, and with it the theorems about walks, sums, the
commands' outputs and reports; the configuration file's theorems; those about IBANs and
cards, and about a second redaction; the engine's walks as functions of depth, and its
theorems; denied fields in bodies.

What is left: the partial overlaps of other patterns than IBANs and cards, as
`NumberPasses` does for these.
