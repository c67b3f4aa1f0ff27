-------------------------------- MODULE Cli ---------------------------------
(***************************************************************************)
(* The redact, scan and assert commands of                                 *)
(* crates/privacy_proxy_cli/src/main.rs: the loops of redact_jsonl and     *)
(* scan_jsonl over read_limited_line (LineReader), the output written as   *)
(* they go, and the exit status.  The process may be killed at any step,   *)
(* and the disk may fill up.                                               *)
(*                                                                         *)
(* The engine appears as operators on a line's content: what it makes of   *)
(* it, as a JSON value or as a text, and how many detections it reports.   *)
(***************************************************************************)
EXTENDS LineReader, ScanReport, SequencesExt

CONSTANTS Utf8(_),           \* a line is valid UTF-8
          Json(_),           \* a content is one JSON value
          OfValue(_), OfText(_),              \* the engine's redactions
          FoundInValue(_), FoundInText(_),    \* the totals of its reports, in U64
          Texts,             \* the inputs
          Limits             \* config.sample_limit; 0 is no limit

ASSUME TextsAssumption == Texts \subseteq Seq(Byte)
ASSUME LimitsAssumption == Limits \subseteq Nat

Commands == {"redact", "scan", "assert"}

VARIABLES command, sample_limit,
          keyless,         \* hash mode, without a key in the environment
          same_file,       \* the output path is another name of the input
          given,           \* the input's contents before the command
          pc,              \* where the command is
          count,           \* lines redacted or scanned
          output,          \* the bytes written
          detections,      \* the report's total
          truncated,
          exit             \* "none" while it runs

run == <<command, sample_limit, keyless, same_file, given>>
loop == <<pc, count, output, detections, truncated, exit>>
reader == <<text, fetched, consumed, buffer, status>>
cliVars == <<reader, run, loop>>

CliInit == /\ command \in Commands
           /\ sample_limit \in Limits
           /\ keyless \in BOOLEAN
           /\ same_file \in BOOLEAN /\ (same_file => command = "redact")
           /\ given \in Texts
           /\ text = given
           /\ fetched = 0 /\ consumed = 0 /\ buffer = << >> /\ status = "idle"
           /\ pc = "start"
           /\ count = 0 /\ output = << >> /\ detections = 0 /\ truncated = FALSE
           /\ exit = "none"

\* Mutant: a line is redacted as text, whatever it is.
RedactLineAsText(content) == IF Blank(content) THEN content ELSE OfText(content)

\* redact_line and scan_line leave a blank line to itself; only redact_line
\* needs the hash key.
RedactLine(content) == IF Blank(content) THEN content
                       ELSE IF Json(content) THEN OfValue(content) ELSE OfText(content)
ScanTotal(content) == IF Blank(content) THEN 0
                      ELSE IF Json(content) THEN FoundInValue(content)
                      ELSE FoundInText(content)
Refuses(content) == keyless /\ ~Blank(content)

\* main: an error is printed and the process exits with status 1.
Fail == pc' = "over" /\ exit' = "failed"

\* Both files are opened; File::create empties the output, whatever it is.
Open == /\ pc = "start"
        /\ text' = IF same_file THEN << >> ELSE text
        /\ pc' = "loop"
        /\ UNCHANGED <<fetched, consumed, buffer, status, run, count, output,
                       detections, truncated, exit>>

\* The configuration, the input or the output cannot be opened, or both paths
\* are spelled alike.
OpenFails == /\ pc = "start"
             /\ Fail
             /\ UNCHANGED <<reader, run, count, output, detections, truncated>>

\* Mutant: the limit is checked after one line too many.
AtLimitLate == command # "redact" /\ sample_limit > 0 /\ count > sample_limit

AtLimit == command # "redact" /\ sample_limit > 0 /\ count >= sample_limit

NextLine == /\ pc = "loop"
            /\ ~AtLimit
            /\ Ask
            /\ pc' = "line"
            /\ UNCHANGED <<run, count, output, detections, truncated, exit>>

\* scan_jsonl has scanned sample_limit lines: is anything left?
LookAhead == /\ pc = "loop"
             /\ AtLimit
             /\ Peek
             /\ pc' = "ahead"
             /\ UNCHANGED <<run, count, output, detections, truncated, exit>>

Read == /\ pc \in {"line", "ahead"}
        /\ Step
        /\ UNCHANGED <<run, loop>>

ReadError == /\ pc \in {"line", "ahead"}
             /\ ReadFails
             /\ UNCHANGED <<run, loop>>

\* Mutant: stopping at the limit is taken for truncating.
LimitedIsTruncated == /\ pc = "ahead"
                      /\ status \in {"more", "end"}
                      /\ truncated' = TRUE
                      /\ pc' = "finish"
                      /\ UNCHANGED <<reader, run, count, output, detections, exit>>

Limited == /\ pc = "ahead"
           /\ status \in {"more", "end"}
           /\ truncated' = (status = "more")
           /\ pc' = "finish"
           /\ UNCHANGED <<reader, run, count, output, detections, exit>>

\* Mutant: a line that is too long ends the input.
EndOfReadable == /\ pc = "line"
                 /\ status \in {"end", "too_long"}
                 /\ pc' = "finish"
                 /\ UNCHANGED <<reader, run, count, output, detections, truncated, exit>>

EndOfInput == /\ pc = "line"
              /\ status = "end"
              /\ pc' = "finish"
              /\ UNCHANGED <<reader, run, count, output, detections, truncated, exit>>

InputFails == /\ pc \in {"line", "ahead"}
              /\ status \in {"too_long", "failed"}
              /\ Fail
              /\ UNCHANGED <<reader, run, count, output, detections, truncated>>

GotLine == pc = "line" /\ status = "line"

\* The line is not UTF-8, or the engine refuses it.
BadLine == /\ GotLine
           /\ \/ ~Utf8(buffer)
              \/ command = "redact" /\ Refuses(Content(buffer))
           /\ Fail
           /\ UNCHANGED <<reader, run, count, output, detections, truncated>>

\* Mutant: a line's report replaces the one so far.
ScanLineAfresh == /\ GotLine
                  /\ command # "redact"
                  /\ Utf8(buffer)
                  /\ detections' = ScanTotal(Content(buffer))
                  /\ count' = count + 1
                  /\ pc' = "loop"
                  /\ UNCHANGED <<reader, run, output, truncated, exit>>

ScanLine == /\ GotLine
            /\ command # "redact"
            /\ Utf8(buffer)
            /\ detections' = SatAdd(detections, ScanTotal(Content(buffer)))
            /\ count' = count + 1
            /\ pc' = "loop"
            /\ UNCHANGED <<reader, run, output, truncated, exit>>

\* redact_jsonl writes the redacted content, then the ending it came with.
Writes(bytes, next) == /\ output' = output \o bytes
                       /\ pc' = next
                       /\ UNCHANGED <<reader, run, detections, truncated, exit>>

WriteContent == /\ GotLine
                /\ command = "redact"
                /\ Utf8(buffer) /\ ~Refuses(Content(buffer))
                /\ count' = count + 1
                /\ Writes(RedactLine(Content(buffer)), "ending")

\* Mutant: every line is ended alike.
WriteNewline == /\ pc = "ending"
                /\ Writes(<<Newline>>, "loop")
                /\ UNCHANGED count

WriteEnding == /\ pc = "ending"
               /\ Writes(Ending(buffer), "loop")
               /\ UNCHANGED count

\* write_all fails with some of the bytes written.
WriteFails ==
    /\ \/ GotLine /\ command = "redact" /\ Utf8(buffer) /\ ~Refuses(Content(buffer))
       \/ pc = "ending"
    /\ LET bytes == IF pc = "ending" THEN Ending(buffer)
                                     ELSE RedactLine(Content(buffer))
       IN  \E n \in 0 .. Len(bytes) - 1 : output' = output \o SubSeq(bytes, 1, n)
    /\ Fail
    /\ UNCHANGED <<reader, run, count, detections, truncated>>

\* redact flushes; scan and assert print the report, and assert fails if
\* anything was detected.
Finish == /\ pc = "finish"
          /\ pc' = "over"
          /\ exit' = IF command = "assert" /\ detections > 0 THEN "failed" ELSE "ok"
          /\ UNCHANGED <<reader, run, count, output, detections, truncated>>

FinishFails == /\ pc = "finish"
               /\ Fail
               /\ UNCHANGED <<reader, run, count, output, detections, truncated>>

Killed == /\ pc # "over"
          /\ pc' = "over" /\ exit' = "killed"
          /\ UNCHANGED <<reader, run, count, output, detections, truncated>>

\* What the process does by itself when nothing fails.
Works == \/ Open \/ NextLine \/ LookAhead \/ Read
         \/ Limited \/ EndOfInput \/ InputFails \/ BadLine \/ ScanLine
         \/ WriteContent \/ WriteEnding \/ Finish

CliNext == Works \/ OpenFails \/ ReadError \/ WriteFails \/ FinishFails \/ Killed

CliSpec == CliInit /\ [][CliNext]_cliVars /\ WF_cliVars(Works)

-----------------------------------------------------------------------------
CliTypeOK ==
    /\ TypeOK
    /\ pc \in {"start", "loop", "line", "ahead", "ending", "finish", "over"}
    /\ count \in 0 .. Len(given)
    /\ sample_limit > 0 /\ command # "redact" => count <= sample_limit
    /\ output \in Seq(Byte)
    /\ detections \in U64
    /\ truncated \in BOOLEAN
    /\ exit \in {"none", "ok", "failed", "killed"} /\ (exit = "none" <=> pc # "over")

RedactedLines(t) == [j \in DOMAIN LinesOf(t) |->
                       RedactLine(Content(LinesOf(t)[j])) \o Ending(LinesOf(t)[j])]
RedactionOf(t) == FlattenSeq(RedactedLines(t))

DetectionsIn(t, n) == FoldLeft(LAMBDA sum, l : SatAdd(sum, ScanTotal(Content(l))),
                               0, SubSeq(LinesOf(t), 1, n))

\* At every moment, killed or out of disk included, what redact_jsonl has
\* written is the start of the input redacted line by line: no chunk boundary
\* splits a secret, and no line is written twice, out of order or unredacted.
OutputIsRedaction == IsPrefix(output, RedactionOf(given))

\* The command is redact, at work on a file that is not its output.
Redacting == command = "redact" /\ ~same_file /\ exit = "none"

\* redact implements LineRedaction, as a request's body sent line by line does
\* (BodyRedaction!RedactsLines): both make the same of the same lines.
Redaction == INSTANCE LineRedaction WITH
                rest <- IF ~Redacting THEN << >>
                        ELSE IF pc = "line" THEN After(text, consumed - Len(buffer))
                        ELSE After(text, consumed),
                due <- IF pc = "ending" THEN Ending(buffer) ELSE << >>,
                outcome <- CASE exit = "none" -> "working"
                             [] exit = "ok" -> "done"
                             [] OTHER -> "failed"

RedactsLines == Redaction!Spec

\* redact exits with 0 only after all of its input, redacted.
SuccessIsWhole ==
    command = "redact" /\ exit = "ok" /\ ~same_file => output = RedactionOf(given)

\* The report scan_jsonl returns covers the first sample_limit lines, no more
\* and no fewer, and says it is truncated exactly when lines are left.
ReportCoversSample ==
    command # "redact" /\ pc = "finish" =>
       LET lines == Len(LinesOf(given))
           sample == IF sample_limit = 0 \/ lines <= sample_limit THEN lines
                                                                 ELSE sample_limit
       IN  /\ count = sample
           /\ detections = DetectionsIn(given, sample)
           /\ truncated <=> sample < lines

\* assert exits with 0, its report not truncated, only when scan_line finds
\* nothing in any line.
PassIsClean ==
    command = "assert" /\ exit = "ok" /\ ~truncated =>
       DetectionsIn(given, Len(LinesOf(given))) = 0

\* A command ends when its input keeps answering.
CommandEnds == <>(pc = "over")

\* README.md:104 of assert, without its sample limit: "it exits successfully
\* when no supported sensitive values are found and fails when detections are
\* present".
AssertFailsOnDetections ==
    command = "assert" /\ exit = "ok" => DetectionsIn(given, Len(LinesOf(given))) = 0
=============================================================================
