------------------------ MODULE BodyRedaction_proofs -------------------------
(***************************************************************************)
(* For bodies of any length, any content types and any engine: what        *)
(* redact_body makes of a body by its lines is LineRedaction, what it      *)
(* reports is the lines' reports merged, and no denied field is left in a  *)
(* body that is JSON or JSONL as announced.                                *)
(***************************************************************************)
EXTENDS BodyRedaction, Basics_proofs

\* All that is asked of the engine: texts for texts, and reports.
EngineAnswers == \A t \in Seq(Byte) :
    /\ OfValue(t) \in Seq(Byte) /\ ReportOfValue(t) \in Report
    /\ OfText(t) \in Seq(Byte) /\ ReportOfText(t) \in Report

LEMMA InitTypeOK == Init => TypeOK
  BY BodiesAssumption, EmptyReportFacts, EmptySeq DEF Init, TypeOK

\* What one line gives: its content and ending are texts, and so is what is
\* left of the body.
LEMMA LineFacts ==
    ASSUME TypeOK, NEW n \in 1 .. Len(rest)
    PROVE  /\ Line(n) \in Seq(Byte)
           /\ Content(Line(n)) \in Seq(Byte) /\ Ending(Line(n)) \in Seq(Byte)
           /\ After(rest, n) \in Seq(Byte)
<1>1. rest \in Seq(Byte) /\ Len(rest) \in Nat
  BY LenProperties DEF TypeOK
<1>2. 1 \in 1 .. Len(rest) + 1 /\ n \in 1 - 1 .. Len(rest) /\ n \in 0 .. Len(rest)
  BY <1>1
<1>3. Line(n) \in Seq(Byte)
  BY <1>1, <1>2, PartIsText DEF Line
<1>. QED  BY <1>1, <1>2, <1>3, LinePartsAreTexts, AfterIsText

\* A line in the loop: what it gives is a text, what it adds a report.
LEMMA LineKeepsType ==
    ASSUME TypeOK, pc = "lines", NEW n \in 1 .. Len(rest), NEW new \in Seq(Byte),
           Gives(n, new), stats' \in Report
    PROVE  TypeOK'
<1>1. new \o Ending(Line(n)) \in Seq(Byte) /\ After(rest, n) \in Seq(Byte)
  BY LineFacts, ConcatProperties
<1>2. output \o new \o Ending(Line(n)) \in Seq(Byte)
  <2>1. output \o new \in Seq(Byte)
    BY ConcatProperties DEF TypeOK
  <2>. QED  BY <2>1, LineFacts, ConcatProperties
<1>. QED  BY <1>1, <1>2 DEF Gives, TypeOK, given, GoesByLines, IsWhole, Redactable

LEMMA NextKeepsType ==
    ASSUME EngineAnswers, TypeOK, [Next]_vars
    PROVE  TypeOK'
<1>b. body \in Seq(Byte)
  BY BodiesAssumption DEF TypeOK
<1>f. ASSUME EngineFails, pc \in {"start", "lines"} PROVE TypeOK'
  BY <1>f DEF EngineFails, Returns, TypeOK, given
<1>1. CASE Empty \/ InvalidUtf8 \/ EndOfBody
  BY <1>1 DEF Empty, InvalidUtf8, EndOfBody, Returns, TypeOK, given
<1>2. CASE Whole
  <2>1. CASE EngineFails
    BY <1>2, <1>f, <2>1 DEF Whole
  <2>2. CASE RedactsWhole(OfValue(body), ReportOfValue(body))
    BY <1>b, <2>2 DEF EngineAnswers, RedactsWhole, Returns, TypeOK, given
  <2>. QED  BY <1>2, <2>1, <2>2 DEF Whole
<1>3. CASE OneText
  <2>1. CASE EngineFails
    BY <1>3, <1>f, <2>1 DEF OneText
  <2>2. CASE RedactsWhole(OfText(body), ReportOfText(body))
    BY <1>b, <2>2 DEF EngineAnswers, RedactsWhole, Returns, TypeOK, given
  <2>. QED  BY <1>3, <2>1, <2>2 DEF OneText
<1>4. CASE EnterLoop
  BY <1>4 DEF EnterLoop, TypeOK, given, GoesByLines, IsWhole, Redactable
<1>5. CASE NextLine
  <2>. PICK n \in 1 .. Len(rest) : BlankLine(n) \/ ValueLine(n) \/ TextLine(n)
    BY <1>5 DEF NextLine
  <2>. DEFINE c == Content(Line(n))
  <2>p. pc = "lines"
    BY <1>5 DEF NextLine
  <2>c. c \in Seq(Byte)
    BY LineFacts
  <2>1. CASE BlankLine(n)
    <3>1. Gives(n, c) /\ stats' \in Report
      BY <2>1 DEF BlankLine, TypeOK
    <3>. QED  BY <2>p, <2>c, <3>1, LineKeepsType
  <2>2. CASE ValueLine(n)
    <3>1. CASE EngineFails
      BY <2>p, <3>1, <1>f
    <3>2. CASE Gives(n, OfValue(c)) /\ Adds(ReportOfValue(c))
      <4>1. OfValue(c) \in Seq(Byte) /\ ReportOfValue(c) \in Report
        BY <2>c DEF EngineAnswers
      <4>2. stats' \in Report
        BY <3>2, <4>1, MergeFacts DEF Adds, TypeOK
      <4>. QED  BY <2>p, <3>2, <4>1, <4>2, LineKeepsType
    <3>. QED  BY <2>2, <3>1, <3>2 DEF ValueLine
  <2>3. CASE TextLine(n)
    <3>1. CASE EngineFails
      BY <2>p, <3>1, <1>f
    <3>2. CASE Gives(n, OfText(c)) /\ Adds(ReportOfText(c))
      <4>1. OfText(c) \in Seq(Byte) /\ ReportOfText(c) \in Report
        BY <2>c DEF EngineAnswers
      <4>2. stats' \in Report
        BY <3>2, <4>1, MergeFacts DEF Adds, TypeOK
      <4>. QED  BY <2>p, <3>2, <4>1, <4>2, LineKeepsType
    <3>. QED  BY <2>3, <3>1, <3>2 DEF TextLine
  <2>. QED  BY <2>1, <2>2, <2>3
<1>6. CASE UNCHANGED vars
  BY <1>6 DEF vars, TypeOK, given, GoesByLines, IsWhole, Redactable
<1>. QED  BY <1>1, <1>2, <1>3, <1>4, <1>5, <1>6 DEF Next

\* At every moment the body's report is a report, the output a text, and the
\* loop is entered only for a body that goes by lines.
THEOREM BodyIsTyped == ASSUME EngineAnswers PROVE Spec => []TypeOK
  BY InitTypeOK, NextKeepsType, PTL DEF Spec

-----------------------------------------------------------------------------
(* The refinement.  Only NextLine takes steps of LineRedaction while the    *)
(* outcome is open; every return is a Finish or a GiveUp.                   *)
LEMMA InitLines == Init => ByLines!Init
<1>1. Init => body \in Seq(Byte) /\ rest = body /\ output = << >> /\ result = "none"
  BY BodiesAssumption DEF Init
<1>. QED  BY <1>1, EmptySeq DEF ByLines!Init

\* LineRedaction cuts lines as redact_body does.
LEMMA SameLines ==
    /\ \A l : ByLines!Content(l) = Content(l) /\ ByLines!Ending(l) = Ending(l)
    /\ \A t, n : ByLines!IsFirstLine(t, n) <=> IsFirstLine(t, n)
    /\ \A t, n : ByLines!After(t, n) = After(t, n)
    /\ \A c : ByLines!Blank(c) <=> Blank(c)
<1>1. \A l : ByLines!EndingLength(l) = EndingLength(l)
  BY DEF ByLines!EndingLength, EndingLength
<1>. QED
  BY <1>1 DEF ByLines!Content, Content, ByLines!Ending, Ending, ByLines!IsFirstLine,
              IsFirstLine, ByLines!After, After, ByLines!Blank, Blank

\* A line of the loop comes out whole.
LEMMA LineIsRedacted ==
    ASSUME TypeOK, pc = "lines", NEW n \in 1 .. Len(rest), IsFirstLine(rest, n),
           NEW new \in Seq(Byte), Gives(n, new),
           new = ByLines!RedactedContent(Content(Line(n)))
    PROVE  ByLines!RedactNext
<1>. DEFINE whole == new \o Ending(Line(n))
<1>1. GoesByLines /\ GoesByLines' /\ result = "none" /\ result' = "none"
  BY DEF TypeOK, Gives, given, GoesByLines, IsWhole, Redactable
<1>2. whole = ByLines!RedactedLine(SubSeq(rest, 1, n))
  BY SameLines DEF ByLines!RedactedLine, Line
<1>3. whole \in Seq(Byte)
  BY LineFacts, ConcatProperties
<1>4. SubSeq(whole, 1, Len(whole)) = whole /\ After(whole, Len(whole)) = << >>
  BY <1>3, SubSeqFull, NothingAfterAll
<1>5. Len(whole) \in 0 .. Len(whole)
  BY <1>3, LenProperties
<1>6. output' = output \o whole
  <2>1. output \o (new \o Ending(Line(n))) = (output \o new) \o Ending(Line(n))
    <3>1. output \in Seq(Byte) /\ Ending(Line(n)) \in Seq(Byte)
      BY LineFacts DEF TypeOK
    <3>. QED  BY <3>1, ConcatAssociative
  <2>. QED  BY <2>1 DEF Gives
<1>. HIDE DEF whole
<1>. QED
  BY <1>1, <1>2, <1>4, <1>5, <1>6, SameLines
     DEF ByLines!RedactNext, ByLines!Emits, Gives

\* The abstract state once redact_body has returned.
LEMMA ReturnEnds ==
    ASSUME TypeOK, pc \in {"start", "lines"}, NEW o \in {"ok", "invalid_utf8", "engine"},
           Returns(o), UNCHANGED given,
           GoesByLines => UNCHANGED output,
           o = "ok" => (GoesByLines => rest = << >>)
    PROVE  ByLines!Next
<1>. DEFINE outcome == CASE result = "none" -> "working"
                         [] result = "ok" -> "done"
                         [] OTHER -> "failed"
<1>1. result = "none" /\ result' = o /\ outcome = "working"
  BY DEF TypeOK, Returns
<1>2. GoesByLines' <=> GoesByLines
  BY DEF given, GoesByLines, IsWhole, Redactable
<1>3. CASE o = "ok"
  <2>1. outcome' = "done"
    BY <1>1, <1>3
  <2>2. ByLines!Finish
    BY <1>1, <1>2, <1>3, <2>1 DEF ByLines!Finish
  <2>. QED  BY <2>2 DEF ByLines!Next
<1>4. CASE o # "ok"
  <2>1. outcome' = "failed"
    BY <1>1, <1>4
  <2>2. ByLines!GiveUp
    BY <1>1, <1>2, <1>4, <2>1 DEF ByLines!GiveUp
  <2>. QED  BY <2>2 DEF ByLines!Next
<1>. QED  BY <1>3, <1>4

LEMMA StepLines ==
    ASSUME EngineAnswers, TypeOK, [Next]_vars
    PROVE  [ByLines!Next]_ByLines!vars
<1>f. ASSUME EngineFails, pc \in {"start", "lines"} PROVE ByLines!Next
  BY <1>f, ReturnEnds DEF EngineFails
<1>1. CASE Empty
  <2>1. ~GoesByLines
    BY <1>1 DEF Empty, GoesByLines, Redactable
  <2>. QED  BY <1>1, <2>1, ReturnEnds DEF Empty
<1>2. CASE InvalidUtf8
  <2>1. ~GoesByLines
    BY <1>2 DEF InvalidUtf8, GoesByLines, Redactable
  <2>. QED  BY <1>2, <2>1, ReturnEnds DEF InvalidUtf8
<1>3. CASE Whole \/ OneText
  <2>1. ~GoesByLines /\ pc = "start"
    BY <1>3 DEF Whole, OneText, GoesByLines, IsOneText
  <2>2. CASE EngineFails
    BY <2>1, <2>2, <1>f
  <2>3. ASSUME NEW new, NEW report, RedactsWhole(new, report) PROVE ByLines!Next
    BY <2>1, <2>3, ReturnEnds DEF RedactsWhole
  <2>. QED  BY <1>3, <2>2, <2>3 DEF Whole, OneText
<1>4. CASE EnterLoop
  BY <1>4 DEF EnterLoop, ByLines!vars, given, GoesByLines, IsWhole, Redactable
<1>5. CASE NextLine
  <2>. PICK n \in 1 .. Len(rest) : /\ IsFirstLine(rest, n)
                                   /\ BlankLine(n) \/ ValueLine(n) \/ TextLine(n)
    BY <1>5 DEF NextLine
  <2>. DEFINE c == Content(Line(n))
  <2>p. pc = "lines"
    BY <1>5 DEF NextLine
  <2>c. c \in Seq(Byte) /\ OfValue(c) \in Seq(Byte) /\ OfText(c) \in Seq(Byte)
    BY LineFacts DEF EngineAnswers
  <2>1. CASE BlankLine(n)
    <3>1. Gives(n, c) /\ c = ByLines!RedactedContent(c)
      BY <2>1, SameLines DEF BlankLine, ByLines!RedactedContent
    <3>2. ByLines!RedactNext
      BY <2>p, <2>c, <3>1, LineIsRedacted
    <3>. QED  BY <3>2 DEF ByLines!Next
  <2>2. CASE ValueLine(n) /\ ~EngineFails
    <3>1. Gives(n, OfValue(c)) /\ OfValue(c) = ByLines!RedactedContent(c)
      BY <2>2, SameLines DEF ValueLine, ByLines!RedactedContent
    <3>2. ByLines!RedactNext
      BY <2>p, <2>c, <3>1, LineIsRedacted
    <3>. QED  BY <3>2 DEF ByLines!Next
  <2>3. CASE TextLine(n) /\ ~EngineFails
    <3>1. Gives(n, OfText(c)) /\ OfText(c) = ByLines!RedactedContent(c)
      BY <2>3, SameLines DEF TextLine, ByLines!RedactedContent
    <3>2. ByLines!RedactNext
      BY <2>p, <2>c, <3>1, LineIsRedacted
    <3>. QED  BY <3>2 DEF ByLines!Next
  <2>4. CASE EngineFails
    BY <2>p, <2>4, <1>f
  <2>. QED  BY <2>1, <2>2, <2>3, <2>4
<1>6. CASE EndOfBody
  BY <1>6, ReturnEnds DEF EndOfBody
<1>7. CASE UNCHANGED vars
  BY <1>7 DEF vars, given, ByLines!vars, GoesByLines, IsWhole, Redactable
<1>. QED  BY <1>1, <1>2, <1>3, <1>4, <1>5, <1>6, <1>7 DEF Next

\* A body of any length that goes by lines, under any content type, is
\* redacted line by line, in order, each line as the value or text it is.
THEOREM BodyRedactsLines == ASSUME EngineAnswers PROVE Spec => RedactsLines
<1>1. Spec => []TypeOK
  BY BodyIsTyped
<1>. QED  BY <1>1, InitLines, StepLines, PTL DEF Spec, RedactsLines, ByLines!Spec

-----------------------------------------------------------------------------
(* Hash mode without a key.  The loop gets over blank lines only, so that   *)
(* what it has given out is what it has passed, all of it blank.            *)
KeylessInv ==
    keyless => /\ pc = "start" => output = << >>
               /\ pc = "lines" => body = output \o rest /\ Blank(output)
               /\ result = "ok" => Blank(body) /\ output = body

LEMMA BlankTogether ==
    ASSUME NEW s \in Seq(Byte), NEW t \in Seq(Byte), Blank(s), Blank(t)
    PROVE  Blank(s \o t)
<1>1. /\ Len(s) \in Nat /\ DOMAIN s = 1 .. Len(s)
      /\ Len(t) \in Nat /\ DOMAIN t = 1 .. Len(t)
  BY LenProperties
<1>2. /\ DOMAIN (s \o t) = 1 .. Len(s) + Len(t)
      /\ \A i \in 1 .. Len(s) + Len(t) :
            (s \o t)[i] = IF i <= Len(s) THEN s[i] ELSE t[i - Len(s)]
  BY <1>1, ConcatProperties, LenProperties
<1>3. ASSUME NEW i \in 1 .. Len(s) + Len(t) PROVE (s \o t)[i] \in Whitespace
  <2>1. CASE i <= Len(s)
    BY <1>1, <1>2, <2>1 DEF Blank
  <2>2. CASE i > Len(s)
    <3>1. i - Len(s) \in 1 .. Len(t) /\ ~(i <= Len(s))
      BY <1>1, <2>2
    <3>. QED  BY <1>1, <1>2, <3>1 DEF Blank
  <2>. QED  BY <1>1, <2>1, <2>2
<1>. QED  BY <1>2, <1>3 DEF Blank

LEMMA KeylessNext ==
    ASSUME TypeOK, KeylessInv, [Next]_vars
    PROVE  KeylessInv'
<1>b. body \in Seq(Byte) /\ rest \in Seq(Byte) /\ output \in Seq(Byte)
  BY BodiesAssumption DEF TypeOK
<1>f. ASSUME EngineFails PROVE KeylessInv'
  BY <1>f DEF EngineFails, Returns, KeylessInv, given
<1>1. CASE Empty
  <2>1. Blank(<< >>)
    BY DEF Blank
  <2>. QED  BY <1>1, <2>1 DEF Empty, Returns, KeylessInv, given
<1>2. CASE InvalidUtf8
  BY <1>2 DEF InvalidUtf8, Returns, KeylessInv, given
<1>3. CASE Whole \/ OneText
  BY <1>3, <1>f DEF Whole, OneText, RedactsWhole, KeylessInv, given
<1>4. CASE EnterLoop
  <2>1. Blank(<< >>) /\ << >> \o body = body
    BY <1>b, ConcatEmptySeq DEF Blank
  <2>. QED  BY <1>4, <2>1 DEF EnterLoop, KeylessInv, TypeOK, given
<1>5. CASE NextLine
  <2>. PICK n \in 1 .. Len(rest) : BlankLine(n) \/ ValueLine(n) \/ TextLine(n)
    BY <1>5 DEF NextLine
  <2>1. CASE BlankLine(n)
    <3>. DEFINE c == Content(Line(n))
                e == Ending(Line(n))
    <3>1. /\ Line(n) \in Seq(Byte) /\ c \in Seq(Byte) /\ e \in Seq(Byte)
          /\ After(rest, n) \in Seq(Byte)
      BY LineFacts
    <3>2. c \o e = Line(n) /\ Blank(c) /\ Blank(e)
      <4>1. Blank(c)
        BY <2>1 DEF BlankLine
      <4>2. c \o e = Line(n) /\ \A i \in DOMAIN e : e[i] \in {Newline, Carriage}
        BY <3>1, LineIsItsParts
      <4>. QED  BY <4>1, <4>2, WhitespaceAssumption DEF Blank
    <3>3. output' = output \o c \o e /\ rest' = After(rest, n) /\ UNCHANGED <<given, pc, result>>
      BY <2>1 DEF BlankLine, Gives
    <3>. HIDE DEF c, e
    <3>a. \A s, t, u \in Seq(Byte) : (s \o t) \o u = s \o (t \o u)
      BY ConcatAssociative
    <3>4. output' = output \o Line(n)
      <4>1. output \in Seq(Byte)
        BY <1>b
      <4>2. (output \o c) \o e = output \o (c \o e)
        BY ONLY <3>1, <3>a, <4>1
      <4>. QED  BY <3>2, <3>3, <4>2
    <3>5. ASSUME Blank(output), body = output \o rest
          PROVE  Blank(output') /\ body = output' \o rest'
      <4>1. Blank(output')
        BY <1>b, <3>1, <3>2, <3>4, <3>5, BlankTogether
      <4>2. n \in 0 .. Len(rest)
        OBVIOUS
      <4>3. Line(n) \o After(rest, n) = rest
        BY <1>b, <4>2, TextIsItsParts DEF Line
      <4>4. (output \o Line(n)) \o After(rest, n) = output \o (Line(n) \o After(rest, n))
        BY <1>b, <3>1, <3>a
      <4>. QED  BY <3>3, <3>4, <3>5, <4>1, <4>3, <4>4
    <3>. QED  BY <1>5, <3>3, <3>5 DEF NextLine, KeylessInv, TypeOK, given
  <2>2. CASE ValueLine(n) \/ TextLine(n)
    BY <1>5, <1>f, <2>2 DEF NextLine, ValueLine, TextLine, Gives, KeylessInv, given
  <2>. QED  BY <2>1, <2>2
<1>6. CASE EndOfBody
  <2>1. output \o << >> = output
    BY <1>b, ConcatEmptySeq
  <2>. QED  BY <1>6, <2>1 DEF EndOfBody, Returns, KeylessInv, given
<1>7. CASE UNCHANGED vars
  BY <1>7 DEF vars, KeylessInv, given
<1>. QED  BY <1>1, <1>2, <1>3, <1>4, <1>5, <1>6, <1>7 DEF Next

\* For bodies of any length: in hash mode without a key, which error.rs:19 says
\* is an error, a body is forwarded only if it is blank, and then as it came.
THEOREM KeylessOnlyBlanks == ASSUME EngineAnswers PROVE Spec => []KeylessForwardsBlanks
<1>1. Spec => []TypeOK
  BY BodyIsTyped
<1>2. Init => KeylessInv
  BY DEF Init, KeylessInv
<1>3. KeylessInv => KeylessForwardsBlanks
  BY DEF KeylessInv, KeylessForwardsBlanks
<1>. QED  BY <1>1, <1>2, <1>3, KeylessNext, PTL DEF Spec

-----------------------------------------------------------------------------
(* The report of a body that goes by lines.                                  *)
LEMMA WithLineFacts ==
    ASSUME EngineAnswers, NEW rep \in Report, NEW l \in Seq(Byte)
    PROVE  WithLine(rep, l) \in Report
<1>1. Content(l) \in Seq(Byte)
  BY LinePartsAreTexts
<1>. QED  BY <1>1, MergeFacts DEF EngineAnswers, WithLine

\* The fold over lines as a running report.
LEMMA ReportPrefixes ==
    ASSUME EngineAnswers, NEW s \in Seq(Seq(Byte))
    PROVE  \E f \in [0 .. Len(s) -> Report] :
              /\ f[0] = EmptyReport
              /\ \A j \in 1 .. Len(s) : f[j] = WithLine(f[j - 1], s[j])
              /\ ReportOfLines(s) = f[Len(s)]
<1>. DEFINE n == Len(s)
            D == DOMAIN s
            last == [d \in SUBSET D |-> Max(d)]
            step == [p \in D \X Report |-> WithLine(p[2], s[p[1]])]
            Value(g, d) == IF d = {} THEN EmptyReport
                           ELSE LET x == Max(d) IN WithLine(g[d \ {x}], s[x])
            iter == CHOOSE g : g = [d \in SUBSET D |-> Value(g, d)]
<1>1. ReportOfLines(s) = iter[D]
  BY DEF FoldLeft, MapThenFoldSet, ReportOfLines
<1>2. n \in Nat /\ D = 1 .. n /\ \A i \in D : s[i] \in Seq(Byte)
  BY LenProperties, ElementOfSeq
<1>3. ASSUME NEW d \in SUBSET D, d # {} PROVE Max(d) \in d /\ \A y \in d : Max(d) >= y
  <2>1. \E x \in d : \A y \in d : x >= y
    BY <1>2, <1>3, GreatestUpTo
  <2>. QED  BY <2>1 DEF Max
<1>4. step \in [D \X Report -> Report] /\ TakesLast(last, n)
  BY <1>2, <1>3, WithLineFacts DEF TakesLast
<1>5. PICK g \in [SUBSET D -> Report] : IsFold(g, D, EmptyReport, last, step)
  <2>. HIDE DEF step, last, D
  <2>. QED  BY <1>2, <1>4, LeftFoldExists, EmptyReportFacts
<1>6. ASSUME NEW d \in SUBSET D PROVE g[d] = Value(g, d)
  <2>1. d # {} => Max(d) \in D /\ d \ {Max(d)} \in SUBSET D
    BY <1>3
  <2>. QED  BY <1>5, <2>1 DEF IsFold
<1>7. iter = [d \in SUBSET D |-> Value(iter, d)]
  <2>. HIDE DEF Value, D
  <2>1. g = [d \in SUBSET D |-> Value(g, d)]
    BY <1>6
  <2>. QED  BY <2>1
<1>. HIDE DEF iter
<1>8. Follows(iter, D, Report, EmptyReport, last, step)
  <2>1. ASSUME NEW d \in SUBSET D PROVE iter[d] = Value(iter, d)
    <3>. HIDE DEF Value, D
    <3>. QED  BY <1>7
  <2>2. ASSUME NEW d \in SUBSET D, d # {}, iter[d \ {last[d]}] \in Report
        PROVE  iter[d] = step[<<last[d], iter[d \ {last[d]}]>>]
    <3>1. last[d] = Max(d) /\ Max(d) \in D
      BY <1>3, <2>2
    <3>. QED  BY <2>1, <2>2, <3>1
  <2>. QED  BY <2>1, <2>2 DEF Follows
<1>9. PICK f \in [0 .. n -> Report] : RunsTo(f, n, EmptyReport, step, iter[D])
  <2>. HIDE DEF step, last, D
  <2>. QED  BY <1>2, <1>4, <1>8, FoldRuns, EmptyReportFacts
<1>10. ASSUME NEW j \in 1 .. n PROVE f[j] = WithLine(f[j - 1], s[j])
  <2>1. j \in D /\ j - 1 \in 0 .. n
    BY <1>2
  <2>. QED  BY <1>9, <2>1 DEF RunsTo, IsRun
<1>. QED  BY <1>1, <1>9, <1>10 DEF RunsTo, IsRun

\* The report of the first n lines of a text.
ReportTo(t, n) == ReportOfLines(SubSeq(LinesOf(t), 1, n))

LEMMA ReportToEnds ==
    ASSUME EngineAnswers, NEW t \in Seq(Byte)
    PROVE  /\ ReportTo(t, 0) = EmptyReport
           /\ ReportTo(t, Cardinality(LineEnds(t))) = ReportOfLines(LinesOf(t))
<1>1. LinesOf(t) \in Seq(Seq(Byte)) /\ Len(LinesOf(t)) = Cardinality(LineEnds(t))
  BY LinesOfType
<1>2. SubSeq(LinesOf(t), 1, 0) = << >> /\ << >> \in Seq(Seq(Byte)) /\ Len(<< >>) = 0
  BY SubSeqEmpty, EmptySeq, LenProperties
<1>3. PICK f \in [0 .. 0 -> Report] : f[0] = EmptyReport /\ ReportOfLines(<< >>) = f[0]
  BY <1>2, ReportPrefixes
<1>. QED  BY <1>1, <1>2, <1>3, SubSeqFull DEF ReportTo

\* The report of one line more.
LEMMA ReportToNext ==
    ASSUME EngineAnswers, NEW t \in Seq(Byte), NEW n \in Nat,
           n + 1 \in 1 .. Cardinality(LineEnds(t))
    PROVE  ReportTo(t, n + 1) = WithLine(ReportTo(t, n), LinesOf(t)[n + 1])
<1>. DEFINE L == LinesOf(t)
            s == SubSeq(L, 1, n)
            u == SubSeq(L, 1, n + 1)
<1>1. L \in Seq(Seq(Byte)) /\ Len(L) \in Nat /\ n + 1 <= Len(L) /\ n <= Len(L)
  BY LinesOfType, LenProperties
<1>. HIDE DEF L
<1>2. ASSUME NEW m \in Nat, m <= Len(L)
      PROVE  /\ SubSeq(L, 1, m) \in Seq(Seq(Byte)) /\ Len(SubSeq(L, 1, m)) = m
             /\ \A i \in 1 .. m : SubSeq(L, 1, m)[i] = L[i]
  <2>1. 0 + m = m /\ 0 + 1 = 1 /\ \A i \in 1 .. m : 0 + i = i
    OBVIOUS
  <2>2. /\ SubSeq(L, 0 + 1, 0 + m) \in Seq(Seq(Byte)) /\ Len(SubSeq(L, 0 + 1, 0 + m)) = m
        /\ \A i \in 1 .. m : SubSeq(L, 0 + 1, 0 + m)[i] = L[0 + i]
    BY <1>1, <1>2, <2>1, PartBytes
  <2>. QED  BY <2>1, <2>2
<1>3. n + 1 \in Nat
  OBVIOUS
<1>4. /\ s \in Seq(Seq(Byte)) /\ Len(s) = n /\ \A i \in 1 .. n : s[i] = L[i]
      /\ u \in Seq(Seq(Byte)) /\ Len(u) = n + 1 /\ \A i \in 1 .. n + 1 : u[i] = L[i]
  BY <1>1, <1>2, <1>3
<1>. HIDE DEF s, u
<1>5. PICK f \in [0 .. n -> Report] :
        /\ f[0] = EmptyReport
        /\ \A j \in 1 .. n : f[j] = WithLine(f[j - 1], s[j])
        /\ ReportOfLines(s) = f[n]
  BY <1>4, ReportPrefixes
<1>6. PICK g \in [0 .. n + 1 -> Report] :
        /\ g[0] = EmptyReport
        /\ \A j \in 1 .. n + 1 : g[j] = WithLine(g[j - 1], u[j])
        /\ ReportOfLines(u) = g[n + 1]
  BY <1>4, ReportPrefixes
<1>7. f[n] = g[n]
  <2>1. ASSUME NEW j \in 1 .. n, f[j - 1] = g[j - 1] PROVE f[j] = g[j]
    <3>1. j \in 1 .. n + 1
      OBVIOUS
    <3>. QED  BY <1>4, <1>5, <1>6, <2>1, <3>1
  <2>2. f[0] = g[0] /\ \A j \in 1 .. n : f[j - 1] = g[j - 1] => f[j] = g[j]
    BY <1>5, <1>6, <2>1
  <2>. HIDE DEF L
  <2>. QED  BY ONLY n \in Nat, <2>2, RunsAgree
<1>8. n + 1 \in 1 .. n + 1 /\ (n + 1) - 1 = n
  OBVIOUS
<1>9. ReportOfLines(u) = WithLine(ReportOfLines(s), L[n + 1])
  BY <1>4, <1>5, <1>6, <1>7, <1>8
<1>. QED  BY <1>9 DEF ReportTo, L, s, u

\* How far the loop over the lines is, and what has been reported on the way.
Reached == Len(body) - Len(rest)

ReportInv ==
    /\ result = "none" =>
          /\ Reached \in {0} \cup LineEnds(body) /\ rest = After(body, Reached)
          /\ stats = ReportTo(body, LinesTo(body, Reached))
    /\ ReportCoversBody

LEMMA InitReported == ASSUME EngineAnswers, Init PROVE ReportInv
<1>1. body \in Seq(Byte) /\ rest = body /\ stats = EmptyReport /\ result = "none"
  BY BodiesAssumption DEF Init
<1>2. Reached = 0
  BY <1>1, LenProperties DEF Reached
<1>3. After(body, 0) = body
  BY <1>1, SubSeqFull DEF After
<1>4. LinesTo(body, 0) = 0 /\ ReportTo(body, 0) = EmptyReport
  BY <1>1, EndsFacts, ReportToEnds
<1>. QED  BY <1>1, <1>2, <1>3, <1>4 DEF ReportInv, ReportCoversBody

\* One line of the loop is the next of the body's.
LEMMA LineTaken ==
    ASSUME TypeOK, ReportInv, pc = "lines",
           NEW n \in 1 .. Len(rest), IsFirstLine(rest, n), NEW new, Gives(n, new)
    PROVE  LET k == LinesTo(body, Reached)
           IN  /\ k \in Nat /\ k + 1 \in 1 .. Cardinality(LineEnds(body))
               /\ LinesOf(body)[k + 1] = Line(n)
               /\ Reached' \in LineEnds(body) /\ LinesTo(body, Reached') = k + 1
               /\ rest' = After(body, Reached')
               /\ body' = body /\ result = "none" /\ result' = "none"
<1>. DEFINE c == Reached
            k == LinesTo(body, c)
<1>1. /\ body \in Seq(Byte) /\ body' = body /\ result = "none" /\ result' = "none"
      /\ rest' = After(rest, n)
  BY BodiesAssumption DEF TypeOK, Gives, given
<1>2. c \in {0} \cup LineEnds(body) /\ rest = After(body, c)
  BY <1>1 DEF ReportInv
<1>3. /\ Len(body) \in Nat /\ LineEnds(body) \subseteq 1 .. Len(body) /\ c \in 0 .. Len(body)
      /\ Len(rest) \in Nat
  BY <1>1, <1>2, EndsFacts, LenProperties DEF TypeOK
<1>. HIDE DEF c
<1>4. /\ Len(rest) = Len(body) - c /\ n \in 0 .. Len(body) - c /\ n \in Nat
  BY <1>1, <1>2, <1>3, AfterAfter
<1>5. rest' = After(body, c + n)
  BY <1>1, <1>2, <1>3, <1>4, AfterAfter
<1>6. /\ c + n \in LineEnds(body) /\ k + 1 = LinesTo(body, c + n)
      /\ k + 1 \in 1 .. Cardinality(LineEnds(body))
      /\ LinesOf(body)[k + 1] = SubSeq(rest, 1, n)
  BY <1>1, <1>2, <1>4, NextLineIsNext
<1>7. k \in Nat
  <2>1. c \in Nat
    BY <1>3
  <2>2. k \in 0 .. Cardinality(LineEnds(body))
    BY <1>1, <2>1, EndsFacts
  <2>. QED  BY <2>2
<1>8. Reached' = c + n
  <2>1. c + n \in 0 .. Len(body) /\ 0 \in 0 .. Len(body) - (c + n)
    BY <1>3, <1>6
  <2>2. Len(After(body, c + n)) = Len(body) - (c + n)
    BY <1>1, <2>1, AfterAfter
  <2>. QED  BY <1>1, <1>3, <1>5, <2>1, <2>2 DEF Reached
<1>. QED  BY <1>1, <1>5, <1>6, <1>7, <1>8 DEF Line, c

\* What it reports is added to that of the lines before it.
LEMMA LineReported ==
    ASSUME EngineAnswers, TypeOK, ReportInv, pc = "lines",
           NEW n \in 1 .. Len(rest), IsFirstLine(rest, n),
           NEW new, Gives(n, new), stats' = WithLine(stats, Line(n))
    PROVE  ReportInv'
<1>. DEFINE k == LinesTo(body, Reached)
<1>1. /\ k \in Nat /\ k + 1 \in 1 .. Cardinality(LineEnds(body))
      /\ LinesOf(body)[k + 1] = Line(n)
      /\ Reached' \in LineEnds(body) /\ LinesTo(body, Reached') = k + 1
      /\ rest' = After(body, Reached')
      /\ body' = body /\ result = "none" /\ result' = "none"
  BY LineTaken
<1>2. body \in Seq(Byte) /\ stats = ReportTo(body, k)
  BY <1>1, BodiesAssumption DEF TypeOK, ReportInv
<1>3. stats' = ReportTo(body, k + 1)
  <2>. HIDE DEF k
  <2>. QED  BY <1>1, <1>2, ReportToNext
<1>4. result' # "ok"
  BY <1>1
<1>. HIDE DEF k
<1>. QED  BY <1>1, <1>3, <1>4 DEF ReportInv, ReportCoversBody

LEMMA NextReported ==
    ASSUME EngineAnswers, TypeOK, ReportInv, [Next]_vars
    PROVE  ReportInv'
<1>b. body \in Seq(Byte) /\ rest \in Seq(Byte) /\ Len(rest) \in Nat /\ Len(body) \in Nat
  BY BodiesAssumption, LenProperties DEF TypeOK
<1>f. ASSUME EngineFails PROVE ReportInv'
  BY <1>f DEF EngineFails, Returns, ReportInv, ReportCoversBody
<1>g. body' = body /\ content_type' = content_type => (GoesByLines' <=> GoesByLines)
  BY DEF GoesByLines, IsWhole, Redactable
<1>1. CASE Empty \/ InvalidUtf8
  BY <1>1, <1>g DEF Empty, InvalidUtf8, Returns, given, ReportInv, ReportCoversBody,
                    GoesByLines, Redactable
<1>2. CASE Whole \/ OneText
  <2>1. ~GoesByLines
    BY <1>2 DEF Whole, OneText, IsOneText, GoesByLines
  <2>2. ASSUME NEW new, NEW report, RedactsWhole(new, report) PROVE ReportInv'
    BY <1>g, <2>1, <2>2 DEF RedactsWhole, Returns, given, ReportInv, ReportCoversBody
  <2>. QED  BY <1>2, <1>f, <2>2 DEF Whole, OneText
<1>3. CASE EnterLoop
  <2>1. UNCHANGED <<body, rest, stats, result>> /\ result = "none"
    BY <1>3 DEF EnterLoop, given, TypeOK
  <2>2. Reached' = Reached
    BY <2>1 DEF Reached
  <2>. QED  BY <2>1, <2>2 DEF ReportInv, ReportCoversBody
<1>4. CASE NextLine
  <2>. PICK n \in 1 .. Len(rest) : /\ IsFirstLine(rest, n)
                                   /\ BlankLine(n) \/ ValueLine(n) \/ TextLine(n)
    BY <1>4 DEF NextLine
  <2>p. pc = "lines"
    BY <1>4 DEF NextLine
  <2>. DEFINE c == Content(Line(n))
  <2>1. CASE BlankLine(n)
    <3>1. Gives(n, c) /\ stats' = WithLine(stats, Line(n))
      BY <2>1 DEF BlankLine, WithLine
    <3>. QED  BY <2>p, <3>1, LineReported
  <2>2. CASE ValueLine(n)
    <3>1. CASE Gives(n, OfValue(c)) /\ Adds(ReportOfValue(c))
      <4>1. stats' = WithLine(stats, Line(n))
        BY <2>2, <3>1 DEF ValueLine, WithLine, Adds
      <4>. QED  BY <2>p, <3>1, <4>1, LineReported
    <3>. QED  BY <2>2, <3>1, <1>f DEF ValueLine
  <2>3. CASE TextLine(n)
    <3>1. CASE Gives(n, OfText(c)) /\ Adds(ReportOfText(c))
      <4>1. stats' = WithLine(stats, Line(n))
        BY <2>3, <3>1 DEF TextLine, WithLine, Adds
      <4>. QED  BY <2>p, <3>1, <4>1, LineReported
    <3>. QED  BY <2>3, <3>1, <1>f DEF TextLine
  <2>. QED  BY <2>1, <2>2, <2>3
<1>5. CASE EndOfBody
  <2>1. /\ UNCHANGED <<body, stats>> /\ result = "none" /\ result' = "ok"
        /\ Reached = Len(body)
    <3>1. Len(<< >>) = 0 /\ rest = << >>
      BY <1>5, EmptySeq DEF EndOfBody
    <3>. QED  BY <1>5, <1>b, <3>1 DEF EndOfBody, Returns, given, TypeOK, Reached
  <2>2. stats = ReportTo(body, LinesTo(body, Len(body)))
    BY <2>1 DEF ReportInv
  <2>3. stats = ReportOfLines(LinesOf(body))
    BY <1>b, <2>2, EndsFacts, ReportToEnds
  <2>. QED  BY <2>1, <2>3 DEF ReportInv, ReportCoversBody
<1>6. CASE UNCHANGED vars
  <2>1. UNCHANGED <<body, content_type, rest, stats, result>>
    BY <1>6 DEF vars, given
  <2>2. Reached' = Reached
    BY <2>1 DEF Reached
  <2>. QED  BY <1>g, <2>1, <2>2 DEF ReportInv, ReportCoversBody
<1>. QED  BY <1>1, <1>2, <1>3, <1>4, <1>5, <1>6 DEF Next

\* For bodies of any length and counters of any width: the report that goes
\* into the metrics for a body that goes by lines is that of each of its lines
\* once, in order.
THEOREM ReportAlwaysCoversBody == ASSUME EngineAnswers PROVE Spec => []ReportCoversBody
<1>1. Spec => []TypeOK
  BY BodyIsTyped
<1>2. ReportInv => ReportCoversBody
  BY DEF ReportInv
<1>. QED  BY <1>1, <1>2, InitReported, NextReported, PTL DEF Spec

-----------------------------------------------------------------------------
(* Denied fields.  Of the engine it is asked here that no field it denies   *)
(* is left in a value (SecretsHidden, in Engine_proofs), and of JSON        *)
(* that values on lines of their own stay apart: none reaches over the      *)
(* newline behind another, so that a field in all of them is in one.        *)
HidesFields == \A t \in Seq(Byte) : Json(t) => Json(OfValue(t)) /\ ~Denied(OfValue(t))

Endings == {<< >>, <<Newline>>, <<Carriage, Newline>>}

ValuesStandApart ==
    \A n \in Nat : \A contents \in [1 .. n -> Seq(Byte)], endings \in [1 .. n -> Endings] :
       /\ \A i \in 1 .. n : \/ Blank(contents[i])
                            \/ Json(contents[i]) /\ ~Denied(contents[i])
       /\ \A i \in 1 .. n - 1 : endings[i] # << >>
       => ~Denied(FlattenSeq([i \in 1 .. n |-> contents[i] \o endings[i]]))

\* What a line comes out as, and all the lines of a body.
RedactedAs(c) == IF Blank(c) THEN c ELSE IF Json(c) THEN OfValue(c) ELSE OfText(c)
LinesOut(t) == [i \in 1 .. Cardinality(LineEnds(t)) |->
                   RedactedAs(Content(LinesOf(t)[i])) \o Ending(LinesOf(t)[i])]

\* An ending is one of the three, and is there if the line ends in a newline.
LEMMA EndingFacts ==
    ASSUME NEW S, NEW l \in Seq(S), S # {}
    PROVE  /\ Ending(l) \in Endings
           /\ Len(l) # 0 /\ l[Len(l)] = Newline => Ending(l) # << >>
<1>1. Len(l) \in Nat /\ \A i \in 1 .. Len(l) : l[i] \in S
  BY LenProperties, ElementOfSeq
<1>. DEFINE e == EndingLength(l)
<1>2. /\ e \in {0, 1, 2} /\ e <= Len(l)
      /\ e >= 1 => l[Len(l)] = Newline
      /\ e = 2 => l[Len(l) - 1] = Carriage
      /\ Len(l) # 0 /\ l[Len(l)] = Newline => e # 0
  BY <1>1 DEF EndingLength
<1>. HIDE DEF e
<1>3. LET m == Len(l) - e
      IN  /\ SubSeq(l, m + 1, m + e) \in Seq(S) /\ Len(SubSeq(l, m + 1, m + e)) = e
          /\ \A k \in 1 .. e : SubSeq(l, m + 1, m + e)[k] = l[m + k]
  <2>. DEFINE m == Len(l) - e
  <2>1. m \in Nat /\ e \in Nat /\ m + e <= Len(l)
    BY <1>1, <1>2
  <2>. HIDE DEF m
  <2>2. /\ SubSeq(l, m + 1, m + e) \in Seq(S) /\ Len(SubSeq(l, m + 1, m + e)) = e
        /\ \A k \in 1 .. e : SubSeq(l, m + 1, m + e)[k] = l[m + k]
    BY ONLY l \in Seq(S), <2>1, PartBytes
  <2>. QED  BY <2>2 DEF m
<1>. DEFINE u == Ending(l)
<1>4. /\ u \in Seq(S) /\ Len(u) = e /\ \A k \in 1 .. e : u[k] = l[Len(l) - e + k]
  <2>1. (Len(l) - e) + e = Len(l)
    BY <1>1, <1>2
  <2>. QED  BY <1>3, <2>1 DEF Ending, e
<1>. HIDE DEF u
<1>5. CASE e = 0
  BY <1>2, <1>4, <1>5, EmptySeq DEF Endings, u
<1>6. CASE e = 1
  <2>1. u[1] = Newline
    BY <1>1, <1>2, <1>4, <1>6
  <2>2. u = <<Newline>>
    BY <1>4, <1>6, <2>1
  <2>. QED  BY <2>2 DEF Endings, u
<1>7. CASE e = 2
  <2>1. u[1] = Carriage /\ u[2] = Newline
    BY <1>1, <1>2, <1>4, <1>7
  <2>2. u = <<Carriage, Newline>>
    BY <1>4, <1>7, <2>1
  <2>. QED  BY <2>2 DEF Endings, u
<1>. QED  BY <1>2, <1>5, <1>6, <1>7

\* Only the last line may lack its ending.
LEMMA LinesEnded ==
    ASSUME NEW t \in Seq(Byte), NEW j \in 1 .. Cardinality(LineEnds(t)) - 1
    PROVE  Ending(LinesOf(t)[j]) # << >>
<1>1. /\ Len(t) \in Nat /\ LineEnds(t) \subseteq 1 .. Len(t) /\ DOMAIN t = 1 .. Len(t)
      /\ Cardinality(LineEnds(t)) \in Nat
      /\ LinesTo(t, Len(t)) = Cardinality(LineEnds(t))
  BY EndsFacts, LenProperties
<1>. DEFINE a == EndOf(t, j - 1)
            b == EndOf(t, j)
            l == LinesOf(t)[j]
<1>2. j - 1 \in 0 .. Cardinality(LineEnds(t)) /\ j \in 0 .. Cardinality(LineEnds(t))
  BY <1>1
<1>3. /\ a \in 0 .. Len(t) /\ LinesTo(t, a) = j - 1
      /\ b \in {0} \cup LineEnds(t) /\ LinesTo(t, b) = j
  BY <1>1, <1>2, EveryLineEnds
<1>4. l = SubSeq(t, a + 1, b)
  <2>1. j \in 1 .. Cardinality(LineEnds(t))
    BY <1>1
  <2>. QED  BY <2>1 DEF LinesOf
<1>. HIDE DEF a, b, l
<1>5. a < b
  <2>1. a \in Nat /\ b \in Nat
    BY <1>1, <1>3
  <2>2. b <= a => LinesTo(t, b) <= LinesTo(t, a)
    BY <2>1, LinesToGrows
  <2>. QED  BY <1>2, <1>3, <2>1, <2>2
<1>6. t[b] = Newline
  <2>1. b \in LineEnds(t)
    BY <1>1, <1>3, <1>5
  <2>2. b # Len(t)
    <3>1. j # LinesTo(t, Len(t))
      BY <1>1
    <3>. QED  BY <1>3, <3>1
  <2>. QED  BY <2>1, <2>2 DEF LineEnds
<1>7. l \in Seq(Byte) /\ Len(l) = b - a /\ l[b - a] = t[b]
  <2>. DEFINE m == b - a
  <2>1. m \in Nat /\ m \in 1 .. m /\ a + m = b /\ a \in Nat /\ a + m <= Len(t)
    BY <1>1, <1>3, <1>5
  <2>. HIDE DEF m
  <2>2. /\ SubSeq(t, a + 1, a + m) \in Seq(Byte) /\ Len(SubSeq(t, a + 1, a + m)) = m
        /\ \A k \in 1 .. m : SubSeq(t, a + 1, a + m)[k] = t[a + k]
    BY ONLY t \in Seq(Byte), <2>1, PartBytes
  <2>. QED  BY <1>4, <2>1, <2>2 DEF m
<1>8. Len(l) # 0 /\ l[Len(l)] = Newline
  BY <1>1, <1>3, <1>5, <1>6, <1>7
<1>9. Byte # {}
  BY <1>1, <1>3, <1>5, ElementOfSeq
<1>. QED  BY <1>7, <1>8, <1>9, EndingFacts DEF l

\* The lines come out as texts.
LEMMA LinesOutFacts ==
    ASSUME EngineAnswers, NEW t \in Seq(Byte)
    PROVE  /\ Cardinality(LineEnds(t)) \in Nat
           /\ \A i \in 1 .. Cardinality(LineEnds(t)) :
                 /\ LinesOf(t)[i] \in Seq(Byte)
                 /\ RedactedAs(Content(LinesOf(t)[i])) \in Seq(Byte)
                 /\ LinesOut(t)[i] \in Seq(Byte)
                 /\ LinesOut(t)[i] =
                      RedactedAs(Content(LinesOf(t)[i])) \o Ending(LinesOf(t)[i])
<1>1. Cardinality(LineEnds(t)) \in Nat
  BY EndsFacts, LenProperties
<1>2. ASSUME NEW i \in 1 .. Cardinality(LineEnds(t))
      PROVE  /\ LinesOf(t)[i] \in Seq(Byte)
             /\ RedactedAs(Content(LinesOf(t)[i])) \in Seq(Byte)
             /\ Ending(LinesOf(t)[i]) \in Seq(Byte)
  <2>1. LinesOf(t)[i] \in Seq(Byte)
    BY <1>2, LinesOfType, ElementOfSeq
  <2>2. Content(LinesOf(t)[i]) \in Seq(Byte) /\ Ending(LinesOf(t)[i]) \in Seq(Byte)
    BY <2>1, LinePartsAreTexts
  <2>. QED  BY <2>1, <2>2 DEF RedactedAs, EngineAnswers
<1>3. ASSUME NEW i \in 1 .. Cardinality(LineEnds(t))
      PROVE  RedactedAs(Content(LinesOf(t)[i])) \o Ending(LinesOf(t)[i]) \in Seq(Byte)
  BY <1>2, ConcatProperties
<1>. QED  BY <1>1, <1>2, <1>3 DEF LinesOut

\* What has come out of the first n lines.
OutTo(t, n) == FlatTo(LinesOut(t), n)

\* It grows by a line at a time.
LEMMA OutToFacts ==
    ASSUME EngineAnswers, NEW t \in Seq(Byte)
    PROVE  /\ OutTo(t, 0) = << >>
           /\ \A n \in Nat : n + 1 \in 1 .. Cardinality(LineEnds(t)) =>
                 OutTo(t, n + 1) = OutTo(t, n) \o LinesOut(t)[n + 1]
<1>. DEFINE N == Cardinality(LineEnds(t))
            F == LinesOut(t)
<1>1. N \in Nat /\ \A i \in 1 .. N : F[i] \in Seq(Byte)
  BY LinesOutFacts
<1>. HIDE DEF N, F
<1>2. /\ FlatTo(F, 0) = << >>
      /\ \A n \in 0 .. N - 1 : FlatTo(F, n + 1) = FlatTo(F, n) \o F[n + 1]
  BY ONLY <1>1, FlatFacts
<1>3. ASSUME NEW n \in Nat, n + 1 \in 1 .. N PROVE n \in 0 .. N - 1
  BY <1>1, <1>3
<1>. QED  BY <1>2, <1>3 DEF OutTo, N, F

\* A body in which every line is a value, or blank, comes out without a denied
\* field.
LEMMA FieldsGone ==
    ASSUME EngineAnswers, HidesFields, ValuesStandApart, NEW t \in Seq(Byte),
           \A j \in DOMAIN LinesOf(t) : LET c == Content(LinesOf(t)[j])
                                        IN  Blank(c) \/ Json(c)
    PROVE  ~Denied(OutTo(t, Cardinality(LineEnds(t))))
<1>. DEFINE N == Cardinality(LineEnds(t))
            contents == [i \in 1 .. N |-> RedactedAs(Content(LinesOf(t)[i]))]
            endings == [i \in 1 .. N |-> Ending(LinesOf(t)[i])]
<1>1. N \in Nat /\ DOMAIN LinesOf(t) = 1 .. N /\ \A i \in 1 .. N : LinesOf(t)[i] \in Seq(Byte)
  BY LinesOutFacts, LinesOfType
<1>2. ASSUME NEW i \in 1 .. N
      PROVE  /\ RedactedAs(Content(LinesOf(t)[i])) \in Seq(Byte)
             /\ \/ Blank(contents[i])
                \/ Json(contents[i]) /\ ~Denied(contents[i])
  <2>. DEFINE c == Content(LinesOf(t)[i])
  <2>1. c \in Seq(Byte) /\ RedactedAs(c) \in Seq(Byte) /\ (Blank(c) \/ Json(c))
    BY <1>1, LinePartsAreTexts, LinesOutFacts
  <2>2. contents[i] = RedactedAs(c)
    OBVIOUS
  <2>. HIDE DEF c, contents
  <2>3. Blank(RedactedAs(c)) \/ (Json(RedactedAs(c)) /\ ~Denied(RedactedAs(c)))
    BY <2>1 DEF RedactedAs, HidesFields
  <2>. QED  BY <2>1, <2>2, <2>3 DEF c
<1>3. ASSUME NEW i \in 1 .. N PROVE Ending(LinesOf(t)[i]) \in Endings
  <2>1. LinesOf(t)[i] \in Seq(Byte)
    BY <1>1
  <2>2. CASE Byte # {}
    BY <2>1, <2>2, EndingFacts
  <2>3. CASE Byte = {}
    <3>1. Ending(LinesOf(t)[i]) \in Seq(Byte)
      BY <2>1, LinePartsAreTexts
    <3>2. Ending(LinesOf(t)[i]) = << >>
      BY <2>3, <3>1
    <3>. QED  BY <3>2 DEF Endings
  <2>. QED  BY <2>2, <2>3
<1>4. ASSUME NEW i \in 1 .. N - 1 PROVE endings[i] # << >>
  <2>1. Ending(LinesOf(t)[i]) # << >> /\ i \in 1 .. N
    BY <1>1, LinesEnded
  <2>. QED  BY <2>1
<1>5. contents \in [1 .. N -> Seq(Byte)] /\ endings \in [1 .. N -> Endings]
  BY <1>2, <1>3
<1>6. [i \in 1 .. N |-> LinesOut(t)[i]] = [i \in 1 .. N |-> contents[i] \o endings[i]]
  BY LinesOutFacts
<1>. HIDE DEF contents, endings, N
<1>7. ~Denied(FlattenSeq([i \in 1 .. N |-> contents[i] \o endings[i]]))
  BY <1>1, <1>2, <1>4, <1>5 DEF ValuesStandApart
<1>. QED  BY <1>6, <1>7 DEF OutTo, FlatTo, N

\* What has come out, in the loop, at its end, and of a body that is redacted
\* as a whole.
OutInv ==
    /\ result = "none" => output = OutTo(body, LinesTo(body, Reached))
    /\ result = "ok" =>
          /\ body = << >> => output = << >>
          /\ body # << >> => Redactable
          /\ IsWhole => output = OfValue(body)
          /\ GoesByLines => output = OutTo(body, Cardinality(LineEnds(body)))

\* Nothing has come out at first.
LEMMA InitOut == ASSUME EngineAnswers, Init PROVE OutInv
<1>1. body \in Seq(Byte) /\ rest = body /\ output = << >> /\ result = "none"
  BY BodiesAssumption DEF Init
<1>2. Reached = 0
  BY <1>1, LenProperties DEF Reached
<1>3. LinesTo(body, 0) = 0 /\ OutTo(body, 0) = << >>
  BY <1>1, EndsFacts, OutToFacts
<1>. QED  BY <1>1, <1>2, <1>3 DEF OutInv

\* Concatenation of texts is associative.
LEMMA TextsAssociate == \A s, t, u \in Seq(Byte) : (s \o t) \o u = s \o (t \o u)
  BY ConcatAssociative

\* A line more, blank, value or text, and what has come out is a line more.
LEMMA LineOut ==
    ASSUME EngineAnswers, TypeOK, ReportInv, OutInv, pc = "lines",
           NEW n \in 1 .. Len(rest), IsFirstLine(rest, n),
           NEW new, Gives(n, new), new = RedactedAs(Content(Line(n)))
    PROVE  OutInv'
<1>. DEFINE k == LinesTo(body, Reached)
<1>1. /\ k \in Nat /\ k + 1 \in 1 .. Cardinality(LineEnds(body))
      /\ LinesOf(body)[k + 1] = Line(n)
      /\ LinesTo(body, Reached') = k + 1
      /\ body' = body /\ result = "none" /\ result' = "none"
  BY LineTaken
<1>2. body \in Seq(Byte) /\ output \in Seq(Byte) /\ output = OutTo(body, k)
  BY <1>1, BodiesAssumption DEF TypeOK, OutInv
<1>. HIDE DEF k
<1>3. /\ LinesOut(body)[k + 1] = new \o Ending(Line(n))
      /\ new \in Seq(Byte) /\ Ending(Line(n)) \in Seq(Byte)
  <2>1. /\ LinesOut(body)[k + 1] =
             RedactedAs(Content(LinesOf(body)[k + 1])) \o Ending(LinesOf(body)[k + 1])
        /\ RedactedAs(Content(LinesOf(body)[k + 1])) \in Seq(Byte)
    BY <1>1, <1>2, LinesOutFacts
  <2>. QED  BY <1>1, <2>1, LineFacts
<1>4. OutTo(body, k + 1) = OutTo(body, k) \o LinesOut(body)[k + 1]
  BY <1>1, <1>2, OutToFacts
<1>5. output' = OutTo(body, k + 1)
  <2>. DEFINE e == Ending(Line(n))
  <2>1. output \in Seq(Byte) /\ new \in Seq(Byte) /\ e \in Seq(Byte)
    BY <1>2, <1>3
  <2>2. output' = (output \o new) \o e
    BY DEF Gives
  <2>3. OutTo(body, k + 1) = output \o (new \o e)
    BY ONLY <1>2, <1>3, <1>4
  <2>. HIDE DEF e
  <2>4. output \o (new \o e) = (output \o new) \o e
    BY ONLY <2>1, TextsAssociate
  <2>. QED  BY ONLY <2>2, <2>3, <2>4
<1>6. result' # "ok"
  BY <1>1
<1>. QED  BY <1>1, <1>5, <1>6 DEF OutInv

\* Every step keeps to what has come out.
LEMMA NextOut ==
    ASSUME EngineAnswers, TypeOK, ReportInv, OutInv, [Next]_vars
    PROVE  OutInv'
<1>b. body \in Seq(Byte) /\ rest \in Seq(Byte) /\ Len(rest) \in Nat /\ Len(body) \in Nat
  BY BodiesAssumption, LenProperties DEF TypeOK
<1>f. ASSUME EngineFails PROVE OutInv'
  BY <1>f DEF EngineFails, Returns, OutInv
<1>g. body' = body /\ content_type' = content_type =>
         /\ GoesByLines' <=> GoesByLines
         /\ IsWhole' <=> IsWhole
         /\ Redactable' <=> Redactable
  BY DEF GoesByLines, IsWhole, Redactable
<1>s. pc = "start" => result = "none" /\ output = << >>
  <2>1. ASSUME pc = "start" PROVE Reached = 0 /\ result = "none"
    BY <1>b, <2>1 DEF TypeOK, Reached
  <2>. QED  BY <1>b, <2>1, EndsFacts, OutToFacts DEF OutInv
<1>1. CASE Empty
  BY <1>1, <1>g, <1>s DEF Empty, Returns, given, OutInv, GoesByLines, IsWhole, Redactable
<1>2. CASE InvalidUtf8
  BY <1>2 DEF InvalidUtf8, Returns, OutInv
<1>3. CASE Whole \/ OneText
  <2>1. ~GoesByLines /\ Redactable /\ (Whole \/ ~IsWhole)
    BY <1>3 DEF Whole, OneText, IsOneText, GoesByLines, IsWhole
  <2>2. ASSUME NEW new, NEW report, RedactsWhole(new, report), IsWhole => new = OfValue(body)
        PROVE  OutInv'
    BY <1>g, <2>1, <2>2 DEF RedactsWhole, Returns, given, OutInv, Redactable
  <2>3. IsOneText => ~IsWhole
    BY DEF IsOneText
  <2>. QED  BY <1>3, <1>f, <2>2, <2>3 DEF Whole, OneText
<1>4. CASE EnterLoop
  <2>1. UNCHANGED <<body, rest, output, result>> /\ result = "none"
    BY <1>4 DEF EnterLoop, given, TypeOK
  <2>2. Reached' = Reached
    BY <2>1 DEF Reached
  <2>. QED  BY <2>1, <2>2 DEF OutInv
<1>5. CASE NextLine
  <2>. PICK n \in 1 .. Len(rest) : /\ IsFirstLine(rest, n)
                                   /\ BlankLine(n) \/ ValueLine(n) \/ TextLine(n)
    BY <1>5 DEF NextLine
  <2>. DEFINE c == Content(Line(n))
  <2>1. pc = "lines"
    BY <1>5 DEF NextLine
  <2>2. ASSUME NEW new, Gives(n, new), new = RedactedAs(c) PROVE OutInv'
    BY <2>1, <2>2, LineOut
  <2>3. CASE BlankLine(n)
    BY <2>2, <2>3 DEF BlankLine, RedactedAs
  <2>4. CASE ValueLine(n)
    BY <1>f, <2>2, <2>4 DEF ValueLine, RedactedAs
  <2>5. CASE TextLine(n)
    BY <1>f, <2>2, <2>5 DEF TextLine, RedactedAs
  <2>. QED  BY <2>3, <2>4, <2>5
<1>6. CASE EndOfBody
  <2>1. /\ UNCHANGED <<body, content_type, output>> /\ result = "none" /\ result' = "ok"
        /\ Reached = Len(body) /\ GoesByLines
    <3>1. Len(<< >>) = 0 /\ rest = << >>
      BY <1>6, EmptySeq DEF EndOfBody
    <3>. QED  BY <1>6, <1>b, <3>1 DEF EndOfBody, Returns, given, TypeOK, Reached
  <2>2. output = OutTo(body, Cardinality(LineEnds(body)))
    BY <1>b, <2>1, EndsFacts DEF OutInv
  <2>. QED  BY <1>g, <2>1, <2>2 DEF OutInv, GoesByLines, Redactable
<1>7. CASE UNCHANGED vars
  <2>1. UNCHANGED <<body, content_type, rest, output, result>>
    BY <1>7 DEF vars, given
  <2>2. Reached' = Reached
    BY <2>1 DEF Reached
  <2>. QED  BY <1>g, <2>1, <2>2 DEF OutInv
<1>. QED  BY <1>1, <1>2, <1>3, <1>4, <1>5, <1>6, <1>7 DEF Next

\* For bodies of any length, under any content type: a body that is what the
\* content type announces, one value or a value on each line, is forwarded with
\* no denied field in it.  Which way through redact_body it goes does not matter,
\* nor do blank lines, endings, or values that take several lines.
THEOREM DeniedFieldsAlwaysHidden ==
    ASSUME EngineAnswers, HidesFields, ValuesStandApart
    PROVE  Spec => []DeniedFieldsHidden
<1>1. Spec => []TypeOK
  BY BodyIsTyped
<1>2. ASSUME TypeOK, OutInv PROVE DeniedFieldsHidden
  <2>. USE <1>2
  <2>. SUFFICES ASSUME result = "ok", Announced PROVE ~Denied(output)
    BY DEF DeniedFieldsHidden
  <2>1. body \in Seq(Byte)
    BY BodiesAssumption DEF TypeOK
  <2>2. CASE body = << >>
    <3>1. Cardinality(LineEnds(body)) = 0
      BY <2>1, <2>2, EndsFacts, EmptySeq
    <3>2. \A j \in DOMAIN LinesOf(body) : FALSE
      BY <2>1, <3>1, LinesOfType
    <3>3. ~Denied(OutTo(body, 0))
      BY <2>1, <3>1, <3>2, FieldsGone
    <3>. QED  BY <2>1, <2>2, <3>3, OutToFacts DEF OutInv
  <2>3. CASE body # << >> /\ IsWhole
    BY <2>1, <2>3 DEF OutInv, IsWhole, HidesFields
  <2>4. CASE body # << >> /\ ~IsWhole
    <3>1. Redactable /\ content_type # {}
          /\ content_type \subseteq {"application/json", "+json", "jsonl", "ndjson"}
      BY <2>4, TypesAssumption DEF OutInv, TypeOK, Announced
    <3>2. GoesByLines
      BY <2>4, <3>1 DEF GoesByLines, IsJsonMediaType, IsJsonlMediaType
    <3>3. \A j \in DOMAIN LinesOf(body) : LET c == Content(LinesOf(body)[j])
                                          IN  Blank(c) \/ Json(c)
      BY <2>4, <3>1 DEF Announced, IsWhole, IsJsonMediaType
    <3>4. ~Denied(OutTo(body, Cardinality(LineEnds(body))))
      BY <2>1, <3>3, FieldsGone
    <3>. QED  BY <3>2, <3>4 DEF OutInv
  <2>. QED  BY <2>2, <2>3, <2>4
<1>. QED  BY <1>1, <1>2, InitReported, NextReported, InitOut, NextOut, PTL DEF Spec
=============================================================================
