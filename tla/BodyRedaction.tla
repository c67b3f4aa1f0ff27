---------------------------- MODULE BodyRedaction ----------------------------
(***************************************************************************)
(* redact_body of crates/privacy_proxy_proxy/src/lib.rs: what becomes of a *)
(* request's body, already decoded, by its content type.  A JSON type has  *)
(* it redacted as one value if it is one; a JSON type otherwise, and a     *)
(* JSONL type, line by line; any other as one text.  (prefer_jsonl is TRUE *)
(* in both calls of redact_jsonl_or_text, so that the ways out of its loop *)
(* into redact_str are never taken.)                                       *)
(*                                                                         *)
(* A content type is the set of the strings the code looks for in it; the  *)
(* first of them at its start.  The engine is a pair of operators.         *)
(***************************************************************************)
EXTENDS Lines, ScanReport, SequencesExt

CONSTANTS Byte,
          Utf8(_),                     \* a body is valid UTF-8
          Json(_), OfValue(_), OfText(_),            \* as in LineRedaction
          ReportOfValue(_), ReportOfText(_),         \* and the reports
          Denied(_),                   \* a value in it has a field to be hidden
          Bodies, ContentTypes

ASSUME BodiesAssumption == Bodies \subseteq Seq(Byte)
ASSUME WhitespaceAssumption == {Newline, Carriage} \subseteq Whitespace
ASSUME TypesAssumption ==
    ContentTypes \subseteq SUBSET {"application/json", "+json", "jsonl", "ndjson"}

VARIABLES body, content_type,
          keyless,      \* hash mode, without a key in the environment
          pc,           \* where redact_body is
          rest,         \* what the loop over the lines has not reached
          output, stats,
          result        \* "none" until it returns

given == <<body, content_type, keyless>>
vars == <<given, pc, rest, output, stats, result>>

Init == /\ body \in Bodies
        /\ content_type \in ContentTypes
        /\ keyless \in BOOLEAN
        /\ pc = "start"
        /\ rest = body
        /\ output = << >>
        /\ stats = EmptyReport
        /\ result = "none"

IsJsonMediaType(t) == "application/json" \in t \/ "+json" \in t
IsJsonlMediaType(t) == "jsonl" \in t \/ "ndjson" \in t

Returns(outcome) == pc' = "over" /\ result' = outcome

\* Nothing is redacted, so that no key is missed.
Empty == /\ pc = "start"
         /\ body = << >>
         /\ Returns("ok")
         /\ UNCHANGED <<given, rest, output, stats>>

InvalidUtf8 == /\ pc = "start"
               /\ body # << >> /\ ~Utf8(body)
               /\ Returns("invalid_utf8")
               /\ UNCHANGED <<given, rest, output, stats>>

Redactable == body # << >> /\ Utf8(body)

\* Mutant: only JSON's own media type is parsed as a whole.
IsWholeIfPlain == /\ Redactable
                  /\ "application/json" \in content_type
                  /\ Json(body)

IsWhole == Redactable /\ IsJsonMediaType(content_type) /\ Json(body)

GoesByLines == /\ Redactable /\ ~IsWhole
               /\ IsJsonMediaType(content_type) \/ IsJsonlMediaType(content_type)

IsOneText == Redactable /\ ~IsWhole /\ ~GoesByLines

\* Mutant: what is redacted so far is returned.
EngineFailsSoftly == /\ keyless
                     /\ Returns("ok")
                     /\ UNCHANGED <<given, rest, output, stats>>

\* The engine's error goes to the caller, and the output with it.
EngineFails == /\ keyless
               /\ Returns("engine")
               /\ UNCHANGED <<given, rest, output, stats>>

RedactsWhole(new, report) == /\ ~keyless
                             /\ output' = new
                             /\ stats' = report
                             /\ Returns("ok")
                             /\ UNCHANGED <<given, rest>>

Whole == /\ pc = "start" /\ IsWhole
         /\ EngineFails \/ RedactsWhole(OfValue(body), ReportOfValue(body))

OneText == /\ pc = "start" /\ IsOneText
           /\ EngineFails \/ RedactsWhole(OfText(body), ReportOfText(body))

EnterLoop == /\ pc = "start" /\ GoesByLines
             /\ pc' = "lines"
             /\ UNCHANGED <<given, rest, output, stats, result>>

-----------------------------------------------------------------------------
(* The loop of redact_jsonl_or_text: a line is the next of split_inclusive, *)
(* and new what becomes of its content.                                     *)
Line(n) == SubSeq(rest, 1, n)

\* Mutant: lines are joined by newlines, as lines() and join would.
GivesJoined(n, new) ==
    /\ output' = output \o new \o (IF n = Len(rest) THEN << >> ELSE <<Newline>>)
    /\ rest' = After(rest, n)
    /\ UNCHANGED <<given, pc, result>>

Gives(n, new) == /\ output' = output \o new \o Ending(Line(n))
                 /\ rest' = After(rest, n)
                 /\ UNCHANGED <<given, pc, result>>

\* Mutant: the line's report replaces those of the lines before it.
AddsAfresh(report) == stats' = report

Adds(report) == stats' = Merge(stats, report)

BlankLine(n) == /\ Blank(Content(Line(n)))
                /\ Gives(n, Content(Line(n)))
                /\ UNCHANGED stats

ValueLine(n) ==
    LET c == Content(Line(n))
    IN  /\ ~Blank(c) /\ Json(c)
        /\ EngineFails \/ (~keyless /\ Gives(n, OfValue(c)) /\ Adds(ReportOfValue(c)))

TextLine(n) ==
    LET c == Content(Line(n))
    IN  /\ ~Blank(c) /\ ~Json(c)
        /\ EngineFails \/ (~keyless /\ Gives(n, OfText(c)) /\ Adds(ReportOfText(c)))

NextLine == /\ pc = "lines"
            /\ \E n \in 1 .. Len(rest) : /\ IsFirstLine(rest, n)
                                         /\ BlankLine(n) \/ ValueLine(n) \/ TextLine(n)

EndOfBody == /\ pc = "lines"
             /\ rest = << >>
             /\ Returns("ok")
             /\ UNCHANGED <<given, rest, output, stats>>

Next == \/ Empty \/ InvalidUtf8 \/ Whole \/ OneText
        \/ EnterLoop \/ NextLine \/ EndOfBody

Spec == Init /\ [][Next]_vars

-----------------------------------------------------------------------------
TypeOK == /\ body \in Bodies /\ content_type \in ContentTypes /\ keyless \in BOOLEAN
          /\ pc \in {"start", "lines", "over"}
          /\ rest \in Seq(Byte) /\ output \in Seq(Byte)
          /\ stats \in Report
          /\ result \in {"none", "ok", "invalid_utf8", "engine"}
          /\ (result = "none") <=> (pc # "over")
          /\ pc = "start" => rest = body
          /\ pc = "lines" => GoesByLines

\* A body that goes by lines is redacted as LineRedaction says, as the command
\* line redacts a file of the same bytes (Cli!RedactsLines).
ByLines == INSTANCE LineRedaction WITH
              rest <- IF GoesByLines /\ result = "none" THEN rest ELSE << >>,
              due <- << >>,
              output <- IF GoesByLines THEN output ELSE << >>,
              outcome <- CASE result = "none" -> "working"
                           [] result = "ok" -> "done"
                           [] OTHER -> "failed"

RedactsLines == ByLines!Spec

\* The body is what its content type announces: one value, spread over lines
\* or not, or a value on each line.
Announced ==
    \/ content_type \cap {"application/json", "+json"} # {} /\ Json(body)
    \/ /\ content_type # {}
       /\ \A j \in DOMAIN LinesOf(body) : LET c == Content(LinesOf(body)[j])
                                          IN  Blank(c) \/ Json(c)

\* Such a body is forwarded with no denied field left in it, whatever its
\* lines look like by themselves and whichever JSON type it is sent under.
DeniedFieldsHidden == result = "ok" /\ Announced => ~Denied(output)

\* A report and that of one line more; that of some lines.
WithLine(rep, l) ==
    LET c == Content(l)
    IN  IF Blank(c) THEN rep
        ELSE Merge(rep, IF Json(c) THEN ReportOfValue(c) ELSE ReportOfText(c))
ReportOfLines(lines) == FoldLeft(WithLine, EmptyReport, lines)

\* The report that goes into the metrics is that of every line once.
ReportCoversBody == result = "ok" /\ GoesByLines => stats = ReportOfLines(LinesOf(body))

\* error.rs:19: without the key that hash mode requires nothing is forwarded but
\* blank lines, whole: no line that was due for redaction is left out.
KeylessForwardsBlanks == keyless /\ result = "ok" => Blank(body) /\ output = body
=============================================================================
