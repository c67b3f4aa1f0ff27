----------------------------- MODULE Cli_proofs ------------------------------
(***************************************************************************)
(* For inputs of any length, chunks of any size, any line limit and any    *)
(* engine: read_limited_line hands out the input's lines, what redact      *)
(* writes is LineRedaction, its output at every moment the input's first   *)
(* lines redacted, and what scan and assert report is what their sample of *)
(* the lines holds.                                                        *)
(***************************************************************************)
EXTENDS Cli, Basics_proofs

-----------------------------------------------------------------------------
(* LineReader, whatever drives it, keeps its invariant and implements       *)
(* LineSource.                                                              *)

IInv == TypeOK /\ Gathered

\* What has been read of the input is not changed by what is appended to it.
LEMMA AppendKeepsParts ==
    ASSUME NEW s \in Seq(Byte), NEW b \in Byte,
           NEW i \in 1 .. Len(s) + 1, NEW j \in i - 1 .. Len(s)
    PROVE  /\ Append(s, b) \in Seq(Byte)
           /\ Len(Append(s, b)) = Len(s) + 1
           /\ \A k \in 1 .. Len(s) : Append(s, b)[k] = s[k]
           /\ SubSeq(Append(s, b), i, j) = SubSeq(s, i, j)
<1>1. /\ Append(s, b) \in Seq(Byte)
      /\ Len(Append(s, b)) = Len(s) + 1
      /\ \A k \in 1 .. Len(s) : Append(s, b)[k] = s[k]
  BY AppendProperties
<1>2. SubSeq(Append(s, b), i, j) = SubSeq(s, i, j)
  <2>1. /\ \A k \in i .. j : s[k] \in Byte
        /\ \A k \in i .. j : Append(s, b)[k] \in Byte
    BY <1>1, ElementOfSeq
  <2>2. /\ SubSeq(s, i, j) \in Seq(Byte)
        /\ SubSeq(Append(s, b), i, j) \in Seq(Byte)
        /\ Len(SubSeq(s, i, j)) = Len(SubSeq(Append(s, b), i, j))
        /\ Len(SubSeq(s, i, j)) = IF i <= j THEN j - i + 1 ELSE 0
        /\ \A k \in 1 .. j - i + 1 :
              SubSeq(s, i, j)[k] = SubSeq(Append(s, b), i, j)[k]
    <3>1. /\ SubSeq(s, i, j) \in Seq(Byte)
          /\ Len(SubSeq(s, i, j)) = IF i <= j THEN j - i + 1 ELSE 0
          /\ \A k \in 1 .. j - i + 1 : SubSeq(s, i, j)[k] = s[i + k - 1]
      BY <2>1, SubSeqProperties
    <3>2. /\ SubSeq(Append(s, b), i, j) \in Seq(Byte)
          /\ Len(SubSeq(Append(s, b), i, j)) = IF i <= j THEN j - i + 1 ELSE 0
          /\ \A k \in 1 .. j - i + 1 :
                SubSeq(Append(s, b), i, j)[k] = Append(s, b)[i + k - 1]
      BY <2>1, SubSeqProperties
    <3>3. \A k \in 1 .. j - i + 1 : i + k - 1 \in 1 .. Len(s)
      OBVIOUS
    <3>. QED  BY <1>1, <3>1, <3>2, <3>3
  <2>. QED  BY <2>2, SeqEqual
<1>. QED  BY <1>1, <1>2

LEMMA InitIInv == Init => IInv
<1>. SUFFICES ASSUME Init PROVE IInv
  OBVIOUS
<1>1. text \in Seq(Byte)
  BY DEF Init
<1>2. TypeOK
  BY <1>1, EmptySeq, LenProperties DEF Init, TypeOK
<1>3. Gathered
  BY <1>1, SubSeqEmpty, MaxLineAssumption DEF Init, Gathered
<1>. QED  BY <1>2, <1>3 DEF IInv

LEMMA IInvNext == IInv /\ [Next]_vars => IInv'
<1>. SUFFICES ASSUME IInv, [Next]_vars PROVE IInv'
  OBVIOUS
<1>. USE DEF IInv
<1>e. \A m, n \in Int : n < m => SubSeq(text, m, n) = << >>
  BY SubSeqEmpty
<1>1. CASE Ask \/ Peek
  <2>1. /\ buffer' = << >> /\ UNCHANGED <<text, fetched, consumed>>
        /\ status' \in {"reading", "peeking"}
    BY <1>1 DEF Ask, Peek
  <2>2. TypeOK'
    BY <2>1, EmptySeq DEF TypeOK
  <2>3. consumed \in Nat /\ SubSeq(text, consumed + 1, consumed) = << >>
    BY <1>e, LenProperties DEF TypeOK
  <2>4. Len(buffer') = 0
    BY <2>1, EmptySeq
  <2>5. Gathered'
    BY <2>1, <2>3, <2>4, MaxLineAssumption DEF Gathered
  <2>. QED  BY <2>2, <2>5
<1>2. CASE Fetch
  BY <1>2, CapacityAssumption DEF Fetch, Waiting, TypeOK, Gathered
<1>3. CASE Exhausted \/ ReadFails \/ Overflow \/ PeekSees
  BY <1>3 DEF Exhausted, ReadFails, Overflow, PeekSees, Waiting, TypeOK, Gathered
<1>4. CASE Take
  <2>. PICK n \in 1 .. fetched - consumed :
          /\ Takes(n)
          /\ Len(buffer) + n <= MaxLineBytes
          /\ buffer' = buffer \o SubSeq(text, consumed + 1, consumed + n)
          /\ consumed' = consumed + n
          /\ status' = IF text[consumed + n] = Newline THEN "line" ELSE "reading"
    BY <1>4 DEF Take
  <2>0. /\ status = "reading" /\ UNCHANGED <<text, fetched>>
    BY <1>4 DEF Take
  <2>1. /\ text \in Seq(Byte) /\ Len(text) \in Nat /\ Len(buffer) \in Nat
        /\ consumed \in Nat /\ consumed + n \in 1 .. Len(text)
        /\ consumed - Len(buffer) + 1 \in 1 .. Len(text) + 1
        /\ consumed \in consumed - Len(buffer) .. Len(text)
        /\ consumed + n \in consumed .. Len(text)
    BY LenProperties DEF TypeOK, Gathered
  <2>2. buffer' = SubSeq(text, consumed - Len(buffer) + 1, consumed + n)
    <3>1. buffer = SubSeq(text, consumed - Len(buffer) + 1, consumed)
      BY DEF Gathered
    <3>2. SubSeq(text, consumed - Len(buffer) + 1, consumed) \o SubSeq(text, consumed + 1, consumed + n)
          = SubSeq(text, consumed - Len(buffer) + 1, consumed + n)
      <4>. DEFINE i == consumed - Len(buffer) + 1
      <4>1. i \in 1 .. Len(text) + 1 /\ consumed \in i - 1 .. Len(text)
        BY <2>1
      <4>. HIDE DEF i
      <4>. QED  BY ONLY <2>1, <4>1, ConcatAdjacentSubSeq DEF i
    <3>. QED  BY <3>1, <3>2
  <2>3. /\ buffer' \in Seq(Byte) /\ Len(buffer') = Len(buffer) + n
    <3>1. \A k \in consumed - Len(buffer) + 1 .. consumed + n : text[k] \in Byte
      BY <2>1, ElementOfSeq
    <3>2. buffer' \in Seq(Byte)
      <4>. DEFINE first == consumed - Len(buffer) + 1
                  last == consumed + n
      <4>1. first \in Int /\ last \in Int /\ \A k \in first .. last : text[k] \in Byte
        BY <2>1, <3>1
      <4>2. buffer' = SubSeq(text, first, last)
        BY <2>2
      <4>. HIDE DEF first, last
      <4>3. SubSeq(text, first, last) \in Seq(Byte)
        BY <4>1, SubSeqProperties
      <4>. QED  BY <4>2, <4>3
    <3>3. Len(buffer') = (consumed + n) - (consumed - Len(buffer) + 1) + 1
      <4>. DEFINE first == consumed - Len(buffer) + 1
                  last == consumed + n
      <4>1. /\ first \in Int /\ last \in Int /\ first <= last
            /\ \A k \in first .. last : text[k] \in Byte
        BY <2>1, <3>1
      <4>2. buffer' = SubSeq(text, first, last)
        BY <2>2
      <4>. HIDE DEF first, last
      <4>3. Len(SubSeq(text, first, last)) = last - first + 1
        BY <4>1, SubSeqProperties
      <4>. QED  BY <4>2, <4>3 DEF first, last
    <3>. QED  BY <2>1, <3>2, <3>3
  <2>4. TypeOK'
    BY <2>0, <2>1, <2>3 DEF TypeOK
  <2>5. Gathered'
    <3>1. consumed' - Len(buffer') = consumed - Len(buffer)
      BY <2>1, <2>3
    <3>2. buffer' = SubSeq(text, consumed' - Len(buffer') + 1, consumed')
      BY <2>2, <3>1
    <3>3. \A k \in consumed' - Len(buffer') + 1 .. consumed' :
             text[k] = Newline => k = consumed' /\ status' = "line"
      <4>. SUFFICES ASSUME NEW k \in consumed' - Len(buffer') + 1 .. consumed',
                           text[k] = Newline
                    PROVE  k = consumed' /\ status' = "line"
        OBVIOUS
      <4>1. k \notin consumed - Len(buffer) + 1 .. consumed
        BY <2>0 DEF Gathered
      <4>2. k \in consumed + 1 .. consumed + n
        BY <2>1, <3>1, <4>1
      <4>3. k = consumed + n
        BY <2>1, <4>2 DEF Takes
      <4>. QED  BY <4>3
    <3>. QED  BY <2>0, <2>1, <2>3, <3>2, <3>3 DEF Gathered
  <2>. QED  BY <2>4, <2>5
<1>5. CASE Grow
  <2>. PICK b \in Byte : text' = Append(text, b)
    BY <1>5 DEF Grow
  <2>0. UNCHANGED <<fetched, consumed, buffer, status>>
    BY <1>5 DEF Grow
  <2>1. /\ text \in Seq(Byte) /\ Len(text) \in Nat /\ Len(buffer) \in Nat
        /\ consumed - Len(buffer) + 1 \in 1 .. Len(text) + 1
        /\ consumed \in consumed - Len(buffer) .. Len(text)
    BY LenProperties DEF TypeOK, Gathered
  <2>2. /\ text' \in Seq(Byte) /\ Len(text') = Len(text) + 1
        /\ \A k \in 1 .. Len(text) : text'[k] = text[k]
        /\ SubSeq(text', consumed - Len(buffer) + 1, consumed)
              = SubSeq(text, consumed - Len(buffer) + 1, consumed)
    <3>. DEFINE i == consumed - Len(buffer) + 1
    <3>1. i \in 1 .. Len(text) + 1 /\ consumed \in i - 1 .. Len(text)
      BY <2>1
    <3>. HIDE DEF i
    <3>2. /\ Append(text, b) \in Seq(Byte) /\ Len(Append(text, b)) = Len(text) + 1
          /\ \A k \in 1 .. Len(text) : Append(text, b)[k] = text[k]
          /\ SubSeq(Append(text, b), i, consumed) = SubSeq(text, i, consumed)
      BY <2>1, <3>1, AppendKeepsParts
    <3>. QED  BY <3>2 DEF i
  <2>3. TypeOK'
    BY <2>0, <2>1, <2>2 DEF TypeOK
  <2>4. Gathered'
    <3>1. \A k \in consumed - Len(buffer) + 1 .. consumed :
             k \in 1 .. Len(text) /\ text'[k] = text[k]
      BY <2>1, <2>2
    <3>. QED  BY <2>0, <2>2, <3>1 DEF Gathered
  <2>. QED  BY <2>3, <2>4
<1>6. CASE UNCHANGED vars
  BY <1>6 DEF vars, TypeOK, Gathered
<1>. QED  BY <1>1, <1>2, <1>3, <1>4, <1>5, <1>6 DEF Next, Step

\* What read_limited_line has gathered is always the bytes of the input just
\* before the point reached, and never more than max_line_bytes of them.
THEOREM AlwaysGathered == Spec => []Gathered
<1>1. IInv => Gathered
  BY DEF IInv
<1>. QED  BY InitIInv, IInvNext, <1>1, PTL DEF Spec

-----------------------------------------------------------------------------
(* LineReader implements LineSource.                                       *)

\* The line gathered so far and the bytes about to be taken, as LineSource
\* sees them: n more bytes follow those gathered, none a newline but the last.
LEMMA TakenTogether ==
    ASSUME IInv, status = "reading", NEW n \in 1 .. fetched - consumed, Takes(n)
    PROVE  /\ consumed - Len(buffer) \in Nat
           /\ consumed + n <= Len(text)
           /\ \A k \in consumed - Len(buffer) + 1 .. consumed + n - 1 : text[k] # Newline
<1>1. /\ Len(buffer) \in Nat /\ consumed \in Nat /\ Len(text) \in Nat
      /\ consumed - Len(buffer) \in Nat /\ consumed + n <= Len(text)
  BY LenProperties DEF IInv, TypeOK, Gathered
<1>2. \A k \in consumed - Len(buffer) + 1 .. consumed : text[k] # Newline
  BY DEF IInv, Gathered
<1>. QED  BY <1>1, <1>2 DEF Takes

LEMMA InitLines == Init => Lines!Init
<1>. SUFFICES ASSUME Init PROVE Lines!Init
  OBVIOUS
<1>1. text \in Seq(Byte)
  BY DEF Init
<1>2. consumed = 0 /\ buffer = << >> /\ status = "idle"
  BY DEF Init
<1>3. Len(buffer) = 0
  BY <1>2, EmptySeq
<1>4. /\ (IF status = "line" THEN consumed ELSE consumed - Len(buffer)) = 0
      /\ (IF status = "line" THEN buffer ELSE << >>) = << >>
  <2>1. status # "line"
    BY <1>2
  <2>2. consumed - Len(buffer) = 0
    <3>1. consumed = 0
      BY <1>2
    <3>. QED  BY <1>3, <3>1
  <2>. QED  BY <1>2, <2>1, <2>2, Zenon
<1>. QED  BY <1>1, <1>2, <1>4, Zenon DEF Lines!Init

LEMMA StepLines == IInv /\ IInv' /\ [Next]_vars => [Lines!Next]_(Lines!vars)
<1>. SUFFICES ASSUME IInv, IInv', [Next]_vars PROVE [Lines!Next]_(Lines!vars)
  OBVIOUS
<1>. DEFINE taken == IF status = "line" THEN consumed ELSE consumed - Len(buffer)
            line == IF status = "line" THEN buffer ELSE << >>
<1>t. /\ text \in Seq(Byte) /\ Len(text) \in Nat /\ Len(buffer) \in Nat
      /\ consumed \in Nat /\ fetched \in Nat
      /\ Len(buffer) <= MaxLineBytes /\ consumed <= fetched /\ fetched <= Len(text)
  BY LenProperties DEF IInv, TypeOK, Gathered
<1>1. CASE Ask
  <2>1. taken' = taken /\ line' = << >>
    BY <1>1, <1>t, EmptySeq DEF Ask, IInv, Gathered
  <2>. QED  BY <1>1, <2>1 DEF Ask, Lines!Next, Lines!Ask
<1>2. CASE Peek
  <2>1. taken' = taken /\ line' = << >>
    BY <1>2, <1>t, EmptySeq DEF Peek, IInv, Gathered
  <2>. QED  BY <1>2, <2>1 DEF Peek, Lines!Next, Lines!Peek
<1>3. CASE Fetch
  BY <1>3 DEF Fetch, Lines!vars
<1>4. CASE Exhausted
  <2>1. CASE buffer = << >>
    <3>1. taken' = taken /\ line' = line /\ taken = Len(text)
      BY <1>4, <2>1, <1>t, EmptySeq DEF Exhausted, Waiting
    <3>. QED  BY <1>4, <2>1, <3>1 DEF Exhausted, Waiting, Lines!Next, Lines!AtEnd
  <2>2. CASE buffer # << >>
    <3>. DEFINE n == Len(buffer)
    <3>1. status = "reading" /\ status' = "line" /\ UNCHANGED <<text, consumed, buffer>>
      BY <1>4, <2>2 DEF Exhausted, Waiting, IInv, Gathered
    <3>2. n \in 1 .. MaxLineBytes /\ taken + n = Len(text) /\ taken' = taken + n
      <4>1. n # 0
        BY <2>2, EmptySeq DEF IInv, TypeOK
      <4>. QED  BY <1>4, <1>t, <3>1, <4>1, MaxLineAssumption DEF Exhausted
    <3>3. Lines!Unbroken(taken, n - 1)
      BY <1>t, <3>1 DEF IInv, Gathered, Lines!Unbroken
    <3>4. line' = SubSeq(text, taken + 1, taken + n)
      <4>1. taken + 1 = consumed - Len(buffer) + 1 /\ taken + n = consumed
        BY <1>t, <3>1
      <4>. QED  BY <3>1, <4>1 DEF IInv, Gathered
    <3>. HIDE DEF n, taken, line
    <3>5. Lines!HandOut
      BY <1>t, <3>1, <3>2, <3>3, <3>4 DEF Lines!HandOut, taken, line
    <3>. QED  BY <3>5 DEF Lines!Next
  <2>. QED  BY <2>1, <2>2
<1>5. CASE ReadFails
  <2>1. taken' = taken /\ line' = line
    BY <1>5, <1>t DEF ReadFails, Waiting
  <2>. QED  BY <1>5, <2>1 DEF ReadFails, Waiting, Lines!Next, Lines!Unreadable
<1>6. CASE Take
  <2>. PICK n \in 1 .. fetched - consumed :
          /\ Takes(n)
          /\ Len(buffer) + n <= MaxLineBytes
          /\ buffer' = buffer \o SubSeq(text, consumed + 1, consumed + n)
          /\ consumed' = consumed + n
          /\ status' = IF text[consumed + n] = Newline THEN "line" ELSE "reading"
    BY <1>6 DEF Take
  <2>0. status = "reading" /\ UNCHANGED <<text, fetched>>
    BY <1>6 DEF Take
  <2>1. Len(buffer') = Len(buffer) + n
    <3>1. SubSeq(text, consumed + 1, consumed + n) \in Seq(Byte)
          /\ Len(SubSeq(text, consumed + 1, consumed + n)) = n
      <4>1. \A k \in consumed + 1 .. consumed + n : text[k] \in Byte
        BY <1>t, ElementOfSeq
      <4>. DEFINE first == consumed + 1  last == consumed + n
      <4>2. first \in Int /\ last \in Int /\ last - first + 1 = n /\ first <= last
        BY <1>t
      <4>. HIDE DEF first, last
      <4>3. SubSeq(text, first, last) \in Seq(Byte) /\ Len(SubSeq(text, first, last)) = n
        <5>1. \A k \in first .. last : text[k] \in Byte
          BY <4>1 DEF first, last
        <5>. QED  BY <4>2, <5>1, SubSeqProperties
      <4>. QED  BY <4>3 DEF first, last
    <3>. QED  BY <3>1, ConcatProperties DEF IInv, TypeOK
  <2>2. CASE status' = "reading"
    <3>1. taken' = taken /\ line' = line
      BY <1>t, <2>0, <2>1, <2>2
    <3>. QED  BY <2>0, <2>2, <3>1 DEF Lines!vars
  <2>3. CASE status' = "line"
    <3>. DEFINE m == Len(buffer) + n
    <3>1. /\ m \in 1 .. MaxLineBytes /\ taken + m = consumed + n /\ taken' = taken + m
          /\ taken + m <= Len(text) /\ text[taken + m] = Newline
      BY <1>t, <2>0, <2>3, MaxLineAssumption
    <3>2. Lines!Unbroken(taken, m - 1)
      BY <1>t, <2>0, TakenTogether DEF Lines!Unbroken
    <3>3. line' = SubSeq(text, taken + 1, taken + m)
      <4>1. buffer' = SubSeq(text, consumed' - Len(buffer') + 1, consumed')
        BY <2>0 DEF IInv, Gathered
      <4>2. consumed' - Len(buffer') + 1 = taken + 1 /\ consumed' = taken + m
        BY <1>t, <2>0, <2>1
      <4>. QED  BY <2>3, <4>1, <4>2
    <3>. HIDE DEF m, taken, line
    <3>4. Lines!HandOut
      BY <2>0, <2>3, <3>1, <3>2, <3>3 DEF Lines!HandOut, taken, line
    <3>. QED  BY <3>4 DEF Lines!Next
  <2>. QED  BY <2>2, <2>3
<1>7. CASE Overflow
  <2>. PICK n \in 1 .. fetched - consumed : Takes(n) /\ Len(buffer) + n > MaxLineBytes
    BY <1>7 DEF Overflow
  <2>1. /\ status = "reading" /\ status' = "too_long"
        /\ UNCHANGED <<text, consumed, buffer>>
    BY <1>7 DEF Overflow
  <2>2. taken' = taken /\ line' = line /\ taken + MaxLineBytes < Len(text)
    BY <1>t, <2>1, MaxLineAssumption
  <2>3. Lines!Unbroken(taken, MaxLineBytes)
    BY <1>t, <2>1, TakenTogether, MaxLineAssumption DEF Lines!Unbroken
  <2>. QED  BY <2>1, <2>2, <2>3 DEF Lines!Next, Lines!TooLong
<1>8. CASE PeekSees
  <2>1. taken' = taken /\ line' = line /\ taken < Len(text)
    BY <1>8, <1>t, EmptySeq DEF PeekSees
  <2>. QED  BY <1>8, <2>1 DEF PeekSees, Lines!Next, Lines!SomeLeft
<1>9. CASE Grow
  BY <1>9 DEF Grow, Lines!Next, Lines!Grow
<1>10. CASE UNCHANGED vars
  BY <1>10 DEF vars, Lines!vars
<1>. QED  BY <1>1, <1>2, <1>3, <1>4, <1>5, <1>6, <1>7, <1>8, <1>9, <1>10 DEF Next, Step

\* Whatever the chunks, the lengths and the limit, read_limited_line hands out
\* the input's lines whole and in order, or stops where a line is too long.
THEOREM ReaderHandsOutLines == Spec => HandsOutLines
<1>1. Spec => []IInv
  BY InitIInv, IInvNext, PTL DEF Spec
<1>. QED  BY <1>1, InitLines, StepLines, PTL DEF Spec, HandsOutLines, Lines!Spec

-----------------------------------------------------------------------------
(* The commands.                                                            *)

\* All that is asked of the engine.
EngineAnswers == \A t \in Seq(Byte) : OfValue(t) \in Seq(Byte) /\ OfText(t) \in Seq(Byte)

\* Where the command is and where its reader is.  The last two conjuncts hold
\* only because no other program appends to the input meanwhile.
CliInv ==
    /\ command \in Commands
    /\ same_file => command = "redact"
    /\ output \in Seq(Byte)
    /\ pc \in {"start", "loop", "line", "ahead", "ending", "finish", "over"}
    /\ exit \in {"none", "ok", "failed", "killed"}
    /\ (exit = "none") <=> (pc # "over")
    /\ pc = "start" => /\ fetched = 0 /\ consumed = 0
                       /\ buffer = << >> /\ status = "idle"
    /\ same_file /\ pc \notin {"start", "over"} => text = << >>
    /\ pc = "loop" => status \in {"idle", "line"}
    /\ pc = "line" => status \in {"reading", "line", "end", "too_long", "failed"}
    /\ pc = "ahead" => command # "redact"
    /\ pc = "ending" => status = "line" /\ command = "redact"
    /\ pc = "finish" /\ command = "redact" => consumed = Len(text)
    /\ status = "line" => /\ buffer # << >>
                          /\ text[consumed] = Newline \/ consumed = Len(text)
    /\ status = "end" => consumed = Len(text)

LEMMA CliInitInv == CliInit => IInv /\ CliInv
<1>. SUFFICES ASSUME CliInit PROVE IInv /\ CliInv
  OBVIOUS
<1>1. text \in Seq(Byte) /\ Len(text) \in Nat
  BY TextsAssumption, LenProperties DEF CliInit
<1>2. TypeOK
  BY <1>1, EmptySeq DEF CliInit, TypeOK
<1>3. Gathered
  <2>1. SubSeq(text, 1, 0) = << >> /\ Len(<< >>) = 0
    BY SubSeqEmpty
  <2>. QED  BY <1>1, <2>1, MaxLineAssumption DEF CliInit, Gathered
<1>. QED  BY <1>2, <1>3, EmptySeq DEF CliInit, CliInv, IInv, Commands

\* The reader's invariant: the command takes the reader's steps, or leaves it
\* alone, or has just emptied the file before reading any of it.
LEMMA CliKeepsIInv == IInv /\ CliInv /\ [CliNext]_cliVars => IInv'
<1>. SUFFICES ASSUME IInv, CliInv, [CliNext]_cliVars PROVE IInv'
  OBVIOUS
<1>1. ASSUME UNCHANGED reader PROVE IInv'
  BY <1>1, IInvNext DEF reader, vars
<1>2. CASE Open
  <2>1. CASE ~same_file
    BY <1>1, <1>2, <2>1 DEF Open, reader
  <2>2. CASE same_file
    <3>1. /\ text' = << >> /\ fetched' = 0 /\ consumed' = 0
          /\ buffer' = << >> /\ status' = "idle"
      BY <1>2, <2>2 DEF Open, CliInv
    <3>2. SubSeq(<< >>, 1, 0) = << >> /\ Len(<< >>) = 0
      BY SubSeqEmpty
    <3>3. TypeOK'
      BY <3>1, <3>2, EmptySeq DEF TypeOK
    <3>4. Gathered'
      BY <3>1, <3>2, MaxLineAssumption DEF Gathered
    <3>. QED  BY <3>3, <3>4 DEF IInv
  <2>. QED  BY <2>1, <2>2
<1>3. CASE NextLine \/ LookAhead \/ Read \/ ReadError
  BY <1>3, IInvNext DEF NextLine, LookAhead, Read, ReadError, Next
<1>4. CASE \/ OpenFails \/ Limited \/ EndOfInput \/ InputFails \/ BadLine \/ ScanLine
           \/ Finish \/ FinishFails \/ Killed \/ WriteFails
  BY <1>1, <1>4 DEF OpenFails, Limited, EndOfInput, InputFails, BadLine, ScanLine,
                    Finish, FinishFails, Killed, WriteFails
<1>5. CASE WriteContent \/ WriteEnding
  BY <1>1, <1>5 DEF WriteContent, WriteEnding, Writes
<1>6. CASE UNCHANGED cliVars
  BY <1>1, <1>6 DEF cliVars
<1>. QED  BY <1>2, <1>3, <1>4, <1>5, <1>6 DEF CliNext, Works

-----------------------------------------------------------------------------
\* The parts of the line the reader has handed out, and what comes of it.
LEMMA ContentFacts ==
    ASSUME EngineAnswers, NEW l \in Seq(Byte)
    PROVE  /\ Content(l) \in Seq(Byte) /\ Ending(l) \in Seq(Byte)
           /\ RedactLine(Content(l)) \in Seq(Byte)
<1>1. Content(l) \in Seq(Byte) /\ Ending(l) \in Seq(Byte)
  BY LinePartsAreTexts
<1>. QED  BY <1>1 DEF EngineAnswers, RedactLine

\* What is gathered grows by what is consumed.
LEMMA TakeGathersSome ==
    ASSUME IInv, Take
    PROVE  buffer' # << >> /\ consumed' - Len(buffer') = consumed - Len(buffer)
<1>. PICK n \in 1 .. fetched - consumed :
        /\ buffer' = buffer \o SubSeq(text, consumed + 1, consumed + n)
        /\ consumed' = consumed + n
  BY DEF Take
<1>t. /\ text \in Seq(Byte) /\ Len(text) \in Nat /\ fetched \in 0 .. Len(text)
      /\ consumed \in 0 .. fetched /\ buffer \in Seq(Byte) /\ Len(buffer) \in Nat
  BY LenProperties DEF IInv, TypeOK
<1>. DEFINE part == SubSeq(text, consumed + 1, consumed + n)
<1>1. consumed + 1 \in 1 .. Len(text) + 1 /\ consumed + n \in (consumed + 1) - 1 .. Len(text)
  BY <1>t
<1>2. part \in Seq(Byte)
  BY <1>t, <1>1, PartIsText
<1>3. \A k \in consumed + 1 .. consumed + n : text[k] \in Byte
  BY <1>t, ElementOfSeq
<1>4. Len(part) = n
  <2>. DEFINE first == consumed + 1  last == consumed + n
  <2>1. first \in Int /\ last \in Int /\ first <= last /\ last - first + 1 = n
    BY <1>t
  <2>2. \A k \in first .. last : text[k] \in Byte
    BY <1>3
  <2>. HIDE DEF first, last
  <2>3. Len(SubSeq(text, first, last)) = n
    BY <2>1, <2>2, SubSeqProperties
  <2>. QED  BY <2>3 DEF first, last
<1>5. Len(buffer \o part) = Len(buffer) + n
  BY <1>t, <1>2, <1>4, ConcatProperties
<1>6. buffer' = buffer \o part
  OBVIOUS
<1>. HIDE DEF part
<1>7. /\ Len(buffer') \in Nat /\ Len(buffer') # 0
      /\ consumed' - Len(buffer') = consumed - Len(buffer)
  BY <1>t, <1>5, <1>6
<1>8. Len(<< >>) = 0
  BY EmptySeq
<1>. QED  BY <1>7, <1>8

LEMMA CliKeepsCliInv ==
    ASSUME EngineAnswers, IInv, CliInv, [CliNext]_cliVars
    PROVE  CliInv'
<1>t. /\ text \in Seq(Byte) /\ Len(text) \in Nat /\ fetched \in 0 .. Len(text)
      /\ consumed \in 0 .. fetched /\ buffer \in Seq(Byte)
  BY LenProperties DEF IInv, TypeOK
<1>1. CASE Open
  BY <1>1, EmptySeq DEF Open, CliInv, run
<1>2. CASE NextLine
  BY <1>2 DEF NextLine, Ask, CliInv, run
<1>3. CASE LookAhead
  BY <1>3 DEF LookAhead, AtLimit, Peek, CliInv, run
<1>4. CASE Read
  <2>1. CASE Fetch
    BY <1>4, <2>1 DEF Read, Fetch, CliInv, run, loop
  <2>2. CASE Exhausted
    BY <1>4, <2>2 DEF Read, Exhausted, Waiting, CliInv, run, loop
  <2>3. CASE Take
    <3>1. buffer' # << >> /\ text' = text
      BY <2>3, TakeGathersSome DEF Take
    <3>2. \/ status' = "reading"
          \/ status' = "line" /\ text'[consumed'] = Newline
      BY <2>3, <3>1 DEF Take
    <3>. QED  BY <1>4, <2>3, <3>1, <3>2 DEF Read, Take, CliInv, run, loop
  <2>4. CASE Overflow \/ PeekSees
    BY <1>4, <2>4 DEF Read, Overflow, PeekSees, CliInv, run, loop
  <2>. QED  BY <1>4, <2>1, <2>2, <2>3, <2>4 DEF Read, Step
<1>5. CASE ReadError
  BY <1>5 DEF ReadError, ReadFails, Waiting, CliInv, run, loop
<1>6. CASE OpenFails \/ InputFails \/ BadLine \/ FinishFails \/ Killed \/ Finish
  <2>1. /\ UNCHANGED <<reader, run, output>>
        /\ pc' = "over" /\ exit' \in {"ok", "failed", "killed"}
    <3>1. CASE OpenFails
      BY <3>1 DEF OpenFails, Fail
    <3>2. CASE InputFails
      BY <3>2 DEF InputFails, Fail
    <3>3. CASE BadLine
      BY <3>3 DEF BadLine, Fail
    <3>4. CASE FinishFails
      BY <3>4 DEF FinishFails, Fail
    <3>5. CASE Killed
      BY <3>5 DEF Killed
    <3>6. CASE Finish
      BY <3>6 DEF Finish
    <3>. QED  BY <1>6, <3>1, <3>2, <3>3, <3>4, <3>5, <3>6
  <2>2. UNCHANGED <<text, fetched, consumed, buffer, status, command, same_file, output>>
    BY <2>1 DEF run, reader
  <2>. QED  BY <2>1, <2>2 DEF CliInv
<1>7. CASE Limited \/ EndOfInput \/ ScanLine
  <2>1. CASE Limited
    BY <2>1 DEF Limited, CliInv, run, reader
  <2>2. CASE EndOfInput
    BY <2>2 DEF EndOfInput, CliInv, run, reader
  <2>3. CASE ScanLine
    BY <2>3 DEF ScanLine, GotLine, CliInv, run, reader
  <2>. QED  BY <1>7, <2>1, <2>2, <2>3
<1>8. CASE WriteContent
  <2>1. output \o RedactLine(Content(buffer)) \in Seq(Byte)
    BY <1>t, ContentFacts, ConcatProperties DEF CliInv
  <2>. QED  BY <1>8, <2>1 DEF WriteContent, GotLine, Writes, CliInv, run, reader
<1>9. CASE WriteEnding
  <2>1. output \o Ending(buffer) \in Seq(Byte)
    BY <1>t, ContentFacts, ConcatProperties DEF CliInv
  <2>. QED  BY <1>9, <2>1 DEF WriteEnding, Writes, CliInv, run, reader
<1>10. CASE WriteFails
  <2>. DEFINE bytes == IF pc = "ending" THEN Ending(buffer) ELSE RedactLine(Content(buffer))
  <2>. PICK n \in 0 .. Len(bytes) - 1 : output' = output \o SubSeq(bytes, 1, n)
    BY <1>10 DEF WriteFails
  <2>1. bytes \in Seq(Byte) /\ Len(bytes) \in Nat
    BY <1>t, ContentFacts, LenProperties
  <2>2. 1 \in 1 .. Len(bytes) + 1 /\ n \in 1 - 1 .. Len(bytes)
    BY <2>1
  <2>3. SubSeq(bytes, 1, n) \in Seq(Byte)
    BY <2>1, <2>2, PartIsText
  <2>4. output' \in Seq(Byte)
    BY <2>3, ConcatProperties DEF CliInv
  <2>. QED  BY <1>10, <2>4 DEF WriteFails, Fail, GotLine, CliInv, run, reader
<1>11. CASE UNCHANGED cliVars
  BY <1>11 DEF cliVars, CliInv, run, loop, reader
<1>. QED  BY <1>1, <1>2, <1>3, <1>4, <1>5, <1>6, <1>7, <1>8, <1>9, <1>10, <1>11
          DEF CliNext, Works

-----------------------------------------------------------------------------
(* The refinement.  A line is taken by LineRedaction when its content is     *)
(* written; its ending is then due.                                          *)
LEMMA SameLines ==
    /\ \A l : Redaction!Content(l) = Content(l) /\ Redaction!Ending(l) = Ending(l)
    /\ \A t, n : Redaction!IsFirstLine(t, n) <=> IsFirstLine(t, n)
    /\ \A t, n : Redaction!After(t, n) = After(t, n)
    /\ \A c : Redaction!RedactedContent(c) = RedactLine(c)
<1>1. \A l : Redaction!EndingLength(l) = EndingLength(l)
  BY DEF Redaction!EndingLength, EndingLength
<1>2. \A c : Redaction!Blank(c) <=> Blank(c)
  BY DEF Redaction!Blank, Blank
<1>. QED
  BY <1>1, <1>2 DEF Redaction!Content, Content, Redaction!Ending, Ending,
     Redaction!IsFirstLine, IsFirstLine, Redaction!After, After,
     Redaction!RedactedContent, RedactLine

LEMMA InitRedacts == CliInit => Redaction!Init
<1>. SUFFICES ASSUME CliInit PROVE Redaction!Init
  OBVIOUS
<1>1. text \in Seq(Byte) /\ consumed = 0 /\ pc = "start" /\ output = << >> /\ exit = "none"
  BY TextsAssumption DEF CliInit
<1>2. After(text, 0) = text
  BY <1>1, SubSeqFull DEF After
<1>. QED  BY <1>1, <1>2, EmptySeq DEF Redaction!Init

\* When a line is in hand, it is the first of those not yet redacted.
LEMMA LineInHand ==
    ASSUME IInv, CliInv, status = "line"
    PROVE  LET r == After(text, consumed - Len(buffer))
               n == Len(buffer)
           IN  /\ n \in 1 .. Len(r) /\ IsFirstLine(r, n)
               /\ SubSeq(r, 1, n) = buffer
               /\ After(r, n) = After(text, consumed)
<1>. DEFINE n == Len(buffer)
            start == consumed - n
            r == After(text, start)
<1>t. /\ text \in Seq(Byte) /\ Len(text) \in Nat /\ consumed \in 0 .. Len(text)
      /\ buffer \in Seq(Byte) /\ n \in Nat
  BY LenProperties DEF IInv, TypeOK
<1>1. n \in 1 .. consumed /\ start \in 0 .. Len(text) /\ start + n = consumed
  <2>1. n # 0
    BY <1>t, EmptySeq DEF CliInv
  <2>. QED  BY <1>t, <2>1 DEF IInv, Gathered
<1>2. /\ r \in Seq(Byte) /\ Len(r) = Len(text) - start
      /\ \A k \in 1 .. Len(text) - start : r[k] = text[start + k]
  <2>. DEFINE first == start + 1  last == Len(text)
  <2>1. first \in Int /\ last \in Int /\ last - first + 1 = Len(text) - start
    BY <1>t, <1>1
  <2>2. \A k \in first .. last : text[k] \in Byte
    BY <1>t, <1>1, ElementOfSeq
  <2>3. \A k \in Int : first + k - 1 = start + k
    BY <1>t, <1>1
  <2>4. Len(text) - start = IF first <= last THEN last - first + 1 ELSE 0
    BY <1>t, <1>1
  <2>. HIDE DEF first, last
  <2>5. /\ SubSeq(text, first, last) \in Seq(Byte)
        /\ Len(SubSeq(text, first, last)) = IF first <= last THEN last - first + 1 ELSE 0
        /\ \A k \in 1 .. last - first + 1 : SubSeq(text, first, last)[k] = text[first + k - 1]
    BY <2>1, <2>2, SubSeqProperties
  <2>6. r = SubSeq(text, first, last)
    BY DEF After, first, last
  <2>7. r \in Seq(Byte) /\ Len(r) = Len(text) - start
    BY <2>4, <2>5, <2>6
  <2>8. ASSUME NEW k \in 1 .. Len(text) - start PROVE r[k] = text[start + k]
    <3>1. k \in 1 .. last - first + 1 /\ k \in Int
      BY <2>1
    <3>. QED  BY <2>3, <2>5, <2>6, <3>1
  <2>. HIDE DEF r
  <2>. QED  BY <2>7, <2>8
<1>. HIDE DEF r
<1>3. n \in 1 .. Len(r)
  BY <1>t, <1>1, <1>2
<1>4. IsFirstLine(r, n)
  <2>1. \A k \in 1 .. n - 1 : r[k] # Newline
    <3>1. \A k \in consumed - n + 1 .. consumed : text[k] = Newline => k = consumed
      BY DEF IInv, Gathered
    <3>2. ASSUME NEW k \in 1 .. n - 1 PROVE r[k] # Newline
      <4>1. /\ k \in 1 .. Len(text) - start /\ start + k \in consumed - n + 1 .. consumed
            /\ start + k # consumed
        BY <1>t, <1>1
      <4>. QED  BY <1>2, <3>1, <4>1
    <3>. QED  BY <3>2
  <2>2. r[n] = Newline \/ n = Len(r)
    <3>1. text[consumed] = Newline \/ consumed = Len(text)
      BY DEF CliInv
    <3>2. n \in 1 .. Len(text) - start /\ start + n = consumed
      BY <1>t, <1>1
    <3>3. r[n] = text[consumed]
      BY <1>2, <3>2
    <3>4. consumed = Len(text) => n = Len(r)
      BY <1>t, <1>1, <1>2
    <3>. QED  BY <3>1, <3>3, <3>4
  <2>. QED  BY <1>3, <2>1, <2>2 DEF IsFirstLine
<1>5. SubSeq(r, 1, n) = buffer
  <2>1. start + 1 \in 1 .. Len(text) /\ Len(text) \in 1 .. Len(text)
        /\ 1 \in 1 .. Len(text) - (start + 1) + 1 /\ n \in 1 .. Len(text) - (start + 1) + 1
    BY <1>t, <1>1
  <2>2. SubSeq(SubSeq(text, start + 1, Len(text)), 1, n)
          = SubSeq(text, (start + 1) + 1 - 1, (start + 1) + n - 1)
    BY <1>t, <2>1, SubSeqOfSubSeq
  <2>3. (start + 1) + 1 - 1 = consumed - n + 1 /\ (start + 1) + n - 1 = consumed
    BY <1>t, <1>1
  <2>4. buffer = SubSeq(text, consumed - n + 1, consumed)
    BY DEF IInv, Gathered
  <2>. QED  BY <2>2, <2>3, <2>4 DEF r, After
<1>6. After(r, n) = After(text, consumed)
  <2>1. CASE consumed = Len(text)
    <3>1. Len(r) = n /\ n < n + 1 /\ consumed < consumed + 1
      BY <1>t, <1>1, <1>2, <2>1
    <3>. QED  BY <1>t, <2>1, <3>1, SubSeqEmpty DEF After
  <2>2. CASE consumed # Len(text)
    <3>1. start + 1 \in 1 .. Len(text) /\ Len(text) \in 1 .. Len(text)
          /\ n + 1 \in 1 .. Len(text) - (start + 1) + 1
          /\ Len(r) \in 1 .. Len(text) - (start + 1) + 1
      BY <1>t, <1>1, <1>2, <2>2
    <3>2. SubSeq(SubSeq(text, start + 1, Len(text)), n + 1, Len(r))
            = SubSeq(text, (start + 1) + (n + 1) - 1, (start + 1) + Len(r) - 1)
      BY <1>t, <3>1, SubSeqOfSubSeq
    <3>3. (start + 1) + (n + 1) - 1 = consumed + 1 /\ (start + 1) + Len(r) - 1 = Len(text)
      BY <1>t, <1>1, <1>2
    <3>. QED  BY <3>2, <3>3 DEF r, After
  <2>. QED  BY <2>1, <2>2
<1>. QED  BY <1>3, <1>4, <1>5, <1>6 DEF r

\* A file that is its own output is empty once opened, so that no line is.
LEMMA LineNeedsText ==
    ASSUME IInv, CliInv, status = "line", pc \notin {"start", "over"} PROVE ~same_file
<1>1. buffer \in Seq(Byte) /\ buffer # << >> /\ Len(buffer) <= Len(text)
  BY LenProperties DEF IInv, TypeOK, Gathered, CliInv
<1>2. Len(buffer) \in Nat \ {0} /\ Len(<< >>) = 0
  BY <1>1, EmptySeq
<1>. QED  BY <1>1, <1>2 DEF CliInv

\* The command ends, with nothing written.
LEMMA EndsQuietly ==
    ASSUME IInv, CliInv, exit = "none", exit' \in {"ok", "failed", "killed"},
           pc' = "over", UNCHANGED output,
           exit' = "ok" => pc = "finish"
    PROVE  Redaction!Next
<1>. DEFINE r == IF ~Redacting THEN << >>
                 ELSE IF pc = "line" THEN After(text, consumed - Len(buffer))
                 ELSE After(text, consumed)
            d == IF pc = "ending" THEN Ending(buffer) ELSE << >>
            o == CASE exit = "none" -> "working" [] exit = "ok" -> "done" [] OTHER -> "failed"
<1>1. r' = << >> /\ d' = << >> /\ o = "working"
  BY DEF Redacting
<1>2. CASE exit' = "ok"
  <2>1. o' = "done" /\ d = << >>
    BY <1>2
  <2>2. r = << >>
    <3>1. Redacting => consumed = Len(text)
      BY <1>2 DEF CliInv, Redacting
    <3>2. Len(text) < Len(text) + 1 /\ Len(text) + 1 \in Int /\ Len(text) \in Int
      BY LenProperties DEF IInv, TypeOK
    <3>3. After(text, Len(text)) = << >>
      BY <3>2, SubSeqEmpty DEF After
    <3>. QED  BY <1>2, <3>1, <3>3
  <2>3. Redaction!Finish
    BY <1>1, <2>1, <2>2 DEF Redaction!Finish
  <2>. QED  BY <2>3 DEF Redaction!Next
<1>3. CASE exit' # "ok"
  <2>1. o' = "failed"
    BY <1>3
  <2>2. Redaction!GiveUp
    BY <1>1, <2>1 DEF Redaction!GiveUp
  <2>. QED  BY <2>2 DEF Redaction!Next
<1>. QED  BY <1>2, <1>3

\* What a line in hand becomes, and its parts.
LEMMA LineRedacts ==
    ASSUME EngineAnswers, IInv
    PROVE  LET new == RedactLine(Content(buffer))
               whole == Redaction!RedactedLine(buffer)
           IN  /\ whole = new \o Ending(buffer)
               /\ new \in Seq(Byte) /\ Len(new) \in 0 .. Len(whole) /\ whole \in Seq(Byte)
               /\ SubSeq(whole, 1, Len(new)) = new
               /\ Redaction!After(whole, Len(new)) = Ending(buffer)
               /\ \A n \in 1 .. Len(new) : SubSeq(whole, 1, n) = SubSeq(new, 1, n)
<1>. DEFINE new == RedactLine(Content(buffer))
            end == Ending(buffer)
            whole == new \o end
<1>1. new \in Seq(Byte) /\ end \in Seq(Byte) /\ Len(new) \in Nat /\ Len(end) \in Nat
  BY ContentFacts, LenProperties DEF IInv, TypeOK
<1>2. Redaction!RedactedLine(buffer) = whole
  BY SameLines DEF Redaction!RedactedLine
<1>. HIDE DEF new, end
<1>3. whole \in Seq(Byte) /\ Len(whole) = Len(new) + Len(end)
  BY <1>1, ConcatProperties
<1>4. ASSUME NEW n \in 1 .. Len(new) PROVE SubSeq(whole, 1, n) = SubSeq(new, 1, n)
  <2>1. 1 \in 1 .. Len(new)
    BY <1>1
  <2>. QED  BY <1>1, <2>1, SubSeqOfConcat1
<1>5. SubSeq(whole, 1, Len(new)) = new
  <2>1. CASE Len(new) = 0
    <3>1. new = << >>
      BY <1>1, <2>1, EmptySeq
    <3>2. SubSeq(whole, 1, 0) = << >>
      BY SubSeqEmpty
    <3>. QED  BY <2>1, <3>1, <3>2
  <2>2. CASE Len(new) # 0
    <3>1. SubSeq(new, 1, Len(new)) = new
      BY <1>1, SubSeqFull
    <3>. QED  BY <1>1, <1>4, <2>2, <3>1
  <2>. QED  BY <2>1, <2>2
<1>6. SubSeq(whole, Len(new) + 1, Len(whole)) = end
  <2>1. CASE Len(end) = 0
    <3>1. end = << >>
      BY <1>1, <2>1, EmptySeq
    <3>2. Len(whole) < Len(new) + 1 /\ Len(whole) \in Int /\ Len(new) + 1 \in Int
      BY <1>1, <1>3, <2>1
    <3>. QED  BY <3>1, <3>2, SubSeqEmpty
  <2>2. CASE Len(end) # 0
    <3>1. Len(new) + 1 \in Len(new) + 1 .. Len(new) + Len(end)
          /\ Len(new) + Len(end) \in Len(new) + 1 .. Len(new) + Len(end)
      BY <1>1, <2>2
    <3>2. SubSeq(whole, Len(new) + 1, Len(new) + Len(end))
            = SubSeq(end, Len(new) + 1 - Len(new), Len(new) + Len(end) - Len(new))
      BY <1>1, <3>1, SubSeqOfConcat2
    <3>3. Len(new) + 1 - Len(new) = 1 /\ Len(new) + Len(end) - Len(new) = Len(end)
      BY <1>1
    <3>. QED  BY <1>1, <1>3, <3>2, <3>3, SubSeqFull
  <2>. QED  BY <2>1, <2>2
<1>7. Len(new) \in 0 .. Len(whole)
  BY <1>1, <1>3
<1>8. Redaction!After(whole, Len(new)) = end
  BY <1>6, SameLines DEF After
<1>. HIDE DEF whole
<1>9. /\ whole = new \o end /\ new \in Seq(Byte) /\ Len(new) \in 0 .. Len(whole)
      /\ whole \in Seq(Byte) /\ SubSeq(whole, 1, Len(new)) = new
      /\ Redaction!After(whole, Len(new)) = end
      /\ \A n \in 1 .. Len(new) : SubSeq(whole, 1, n) = SubSeq(new, 1, n)
  BY <1>1, <1>3, <1>4, <1>5, <1>7, <1>8 DEF whole
<1>. QED  BY <1>2, <1>9 DEF new, end

LEMMA StepRedacts ==
    ASSUME EngineAnswers, IInv, CliInv, [CliNext]_cliVars
    PROVE  [Redaction!Next]_Redaction!vars
<1>. DEFINE r == IF ~Redacting THEN << >>
                 ELSE IF pc = "line" THEN After(text, consumed - Len(buffer))
                 ELSE After(text, consumed)
            d == IF pc = "ending" THEN Ending(buffer) ELSE << >>
            o == CASE exit = "none" -> "working" [] exit = "ok" -> "done" [] OTHER -> "failed"
<1>q. ASSUME exit = "none", exit' = exit, r' = r, d' = d, output' = output
      PROVE  UNCHANGED Redaction!vars
  BY <1>q DEF Redaction!vars
<1>c. consumed \in Nat /\ consumed - 0 = consumed /\ Len(<< >>) = 0
  BY EmptySeq DEF IInv, TypeOK
<1>1. CASE Open
  BY <1>1, <1>q DEF Open, run, Redacting, CliInv
<1>2. CASE NextLine
  BY <1>2, <1>c, <1>q DEF NextLine, Ask, run, Redacting, CliInv
<1>3. CASE LookAhead
  BY <1>3, <1>q DEF LookAhead, AtLimit, Peek, run, Redacting, CliInv
<1>4. CASE Read \/ ReadError
  <2>1. exit = "none" /\ UNCHANGED <<exit, pc, output, text, Redacting>>
    BY <1>4 DEF Read, ReadError, Step, Fetch, Exhausted, Take, Overflow, PeekSees,
                ReadFails, run, loop, CliInv, Redacting
  <2>2. pc = "line" => consumed' - Len(buffer') = consumed - Len(buffer)
    <3>1. CASE Take
      BY <3>1, TakeGathersSome
    <3>2. CASE Fetch \/ Exhausted \/ Overflow \/ PeekSees \/ ReadFails
      BY <3>2 DEF Fetch, Exhausted, Overflow, PeekSees, ReadFails
    <3>. QED  BY <1>4, <3>1, <3>2 DEF Read, ReadError, Step
  <2>3. pc \in {"line", "ahead"} /\ (pc = "ahead" => ~Redacting)
    BY <1>4 DEF Read, ReadError, CliInv, Redacting
  <2>. QED  BY <1>q, <2>1, <2>2, <2>3
<1>5. CASE OpenFails \/ InputFails \/ BadLine \/ FinishFails \/ Killed \/ Finish
  <2>1. /\ exit = "none" /\ exit' \in {"ok", "failed", "killed"}
        /\ pc' = "over" /\ UNCHANGED output
        /\ exit' = "ok" => pc = "finish"
    <3>1. CASE OpenFails
      BY <3>1 DEF OpenFails, Fail, CliInv
    <3>2. CASE InputFails
      BY <3>2 DEF InputFails, Fail, CliInv
    <3>3. CASE BadLine
      BY <3>3 DEF BadLine, Fail, GotLine, CliInv
    <3>4. CASE FinishFails
      BY <3>4 DEF FinishFails, Fail, CliInv
    <3>5. CASE Killed
      BY <3>5 DEF Killed, CliInv
    <3>6. CASE Finish
      BY <3>6 DEF Finish, CliInv
    <3>. QED  BY <1>5, <3>1, <3>2, <3>3, <3>4, <3>5, <3>6
  <2>. QED  BY <2>1, EndsQuietly
<1>6. CASE Limited
  BY <1>6, <1>q DEF Limited, run, reader, Redacting, CliInv
<1>7. CASE ScanLine
  BY <1>7, <1>q DEF ScanLine, GotLine, run, reader, Redacting, CliInv
<1>8. CASE EndOfInput
  <2>1. buffer = << >>
    BY <1>8 DEF EndOfInput, IInv, Gathered
  <2>. QED  BY <1>8, <1>c, <1>q, <2>1 DEF EndOfInput, run, reader, Redacting, CliInv
<1>. DEFINE new == RedactLine(Content(buffer))
            whole == Redaction!RedactedLine(buffer)
            n == Len(buffer)
<1>g. ASSUME pc = "line", status = "line", command = "redact"
      PROVE  /\ Redacting /\ d = << >> /\ o = "working"
             /\ r = After(text, consumed - n)
             /\ n \in 1 .. Len(r) /\ Redaction!IsFirstLine(r, n)
             /\ SubSeq(r, 1, n) = buffer
             /\ Redaction!After(r, n) = After(text, consumed)
  <2>1. exit = "none" /\ ~same_file
    BY <1>g, LineNeedsText DEF CliInv
  <2>. QED  BY <1>g, <2>1, LineInHand, SameLines DEF Redacting
<1>9. CASE WriteContent
  <2>1. pc = "line" /\ status = "line" /\ command = "redact"
    BY <1>9 DEF WriteContent, GotLine
  <2>2. /\ output' = output \o new /\ pc' = "ending" /\ exit' = exit
        /\ UNCHANGED <<reader, run>>
    BY <1>9 DEF WriteContent, Writes
  <2>3. r' = After(text, consumed) /\ d' = Ending(buffer) /\ o' = "working"
    BY <1>g, <2>1, <2>2 DEF Redacting, reader, run
  <2>4. /\ Len(new) \in 0 .. Len(whole) /\ SubSeq(whole, 1, Len(new)) = new
        /\ Redaction!After(whole, Len(new)) = Ending(buffer)
    BY LineRedacts
  <2>. HIDE DEF r, d, o, new, whole, n
  <2>5. Redaction!RedactNext
    BY <1>g, <2>1, <2>2, <2>3, <2>4
       DEF Redaction!RedactNext, Redaction!Emits, r, d, o, whole
  <2>. QED  BY <2>5 DEF Redaction!Next
<1>10. CASE WriteEnding
  <2>1. pc = "ending" /\ exit = "none" /\ d = Ending(buffer) /\ o = "working"
    BY <1>10 DEF WriteEnding, CliInv
  <2>2. /\ output' = output \o d /\ pc' = "loop" /\ exit' = exit
        /\ UNCHANGED <<reader, run>>
    BY <1>10, <2>1 DEF WriteEnding, Writes
  <2>3. r' = r /\ d' = << >> /\ o' = "working"
    BY <2>1, <2>2 DEF Redacting, reader, run
  <2>4. d \in Seq(Byte) /\ Len(d) \in Nat
    BY <2>1, ContentFacts, LenProperties DEF IInv, TypeOK
  <2>5. CASE d = << >>
    <3>1. output' = output
      BY <2>2, <2>5, ConcatEmptySeq DEF CliInv
    <3>. QED  BY <1>q, <2>1, <2>2, <2>3, <2>5, <3>1
  <2>6. CASE d # << >>
    <3>1. Len(d) \in 1 .. Len(d) /\ SubSeq(d, 1, Len(d)) = d
      BY <2>4, <2>6, EmptySeq, SubSeqFull
    <3>2. Redaction!After(d, Len(d)) = << >>
      <4>1. Len(d) < Len(d) + 1 /\ Len(d) + 1 \in Int /\ Len(d) \in Int
        BY <2>4
      <4>. QED  BY <4>1, SubSeqEmpty, SameLines DEF After
    <3>. HIDE DEF r, d, o
    <3>3. Redaction!Emit
      BY <2>1, <2>2, <2>3, <3>1, <3>2 DEF Redaction!Emit, Redaction!Emits, r, d, o
    <3>. QED  BY <3>3 DEF Redaction!Next
  <2>. QED  BY <2>5, <2>6
<1>11. CASE WriteFails
  <2>. DEFINE bytes == IF pc = "ending" THEN Ending(buffer) ELSE new
  <2>. PICK k \in 0 .. Len(bytes) - 1 : output' = output \o SubSeq(bytes, 1, k)
    BY <1>11 DEF WriteFails
  <2>1. /\ exit = "none" /\ exit' = "failed" /\ pc' = "over"
        /\ pc = "ending" \/ (pc = "line" /\ status = "line" /\ command = "redact")
    BY <1>11 DEF WriteFails, Fail, GotLine, CliInv
  <2>2. CASE k = 0
    <3>1. output' = output
      BY <2>2, SubSeqEmpty, ConcatEmptySeq DEF CliInv
    <3>. QED  BY <2>1, <3>1, EndsQuietly
  <2>3. CASE k # 0
    <3>1. r' = << >> /\ d' = << >> /\ o = "working" /\ o' = "failed"
      BY <2>1 DEF Redacting
    <3>2. CASE pc = "ending"
      <4>1. d = Ending(buffer) /\ Len(d) \in Nat /\ k \in 1 .. Len(d)
        BY <2>3, <3>2, ContentFacts, LenProperties DEF IInv, TypeOK
      <4>2. output' = output \o SubSeq(d, 1, k)
        BY <3>2
      <4>. HIDE DEF r, d, o
      <4>3. Redaction!GiveUp
        BY <3>1, <4>1, <4>2 DEF Redaction!GiveUp, Redaction!Emits, r, d, o
      <4>. QED  BY <4>3 DEF Redaction!Next
    <3>3. CASE pc # "ending"
      <4>1. pc = "line" /\ status = "line" /\ command = "redact"
        BY <2>1, <3>3
      <4>2. Len(new) \in Nat /\ Len(new) <= Len(whole) /\ Len(whole) \in Nat
        BY LineRedacts, LenProperties
      <4>3. k \in 1 .. Len(whole) /\ output' = output \o SubSeq(whole, 1, k)
        <5>1. k \in 1 .. Len(new) /\ output' = output \o SubSeq(new, 1, k)
          BY <2>3, <3>3, <4>2
        <5>2. \A i \in 1 .. Len(new) : SubSeq(whole, 1, i) = SubSeq(new, 1, i)
          BY LineRedacts
        <5>. HIDE DEF new, whole, bytes, n
        <5>3. k \in 1 .. Len(whole)
          BY <4>2, <5>1
        <5>. QED  BY <5>1, <5>2, <5>3
      <4>. HIDE DEF r, d, o, whole, n, new
      <4>4. Redaction!GiveUp
        BY <1>g, <3>1, <4>1, <4>3 DEF Redaction!GiveUp, Redaction!Emits, r, d, o, whole
      <4>. QED  BY <4>4 DEF Redaction!Next
    <3>. QED  BY <3>2, <3>3
  <2>. QED  BY <2>2, <2>3
<1>12. CASE UNCHANGED cliVars
  BY <1>12 DEF cliVars, reader, run, loop, Redaction!vars, Redacting
<1>. QED  BY <1>1, <1>2, <1>3, <1>4, <1>5, <1>6, <1>7, <1>8, <1>9, <1>10, <1>11, <1>12
          DEF CliNext, Works

\* Whatever the input, its chunks and its end, and whatever fails or is killed,
\* redact's output is the start of its input redacted line by line, and all of
\* it when redact succeeds.
THEOREM CliRedactsLines == ASSUME EngineAnswers PROVE CliSpec => RedactsLines
<1>1. CliSpec => [](IInv /\ CliInv)
  <2>1. CliInit => IInv /\ CliInv
    BY CliInitInv
  <2>2. IInv /\ CliInv /\ [CliNext]_cliVars => (IInv /\ CliInv)'
    BY CliKeepsIInv, CliKeepsCliInv
  <2>. QED  BY <2>1, <2>2, PTL DEF CliSpec
<1>2. IInv /\ CliInv /\ [CliNext]_cliVars => [Redaction!Next]_Redaction!vars
  BY StepRedacts
<1>. QED  BY <1>1, <1>2, InitRedacts, PTL DEF CliSpec, RedactsLines, Redaction!Spec

-----------------------------------------------------------------------------
(* The lines of the input.  Of the reports, too, all that is asked is that   *)
(* their totals are counters.                                                *)
EngineReports == \A t \in Seq(Byte) : FoundInValue(t) \in U64 /\ FoundInText(t) \in U64

\* The lines of a text, their redactions, and the totals of their reports.
LEMMA LinesFacts ==
    ASSUME NEW t \in Seq(Byte)
    PROVE  /\ LinesOf(t) \in Seq(Seq(Byte))
           /\ DOMAIN LinesOf(t) = 1 .. Len(LinesOf(t)) /\ Len(LinesOf(t)) \in 0 .. Len(t)
           /\ LinesTo(t, 0) = 0 /\ LinesTo(t, Len(t)) = Len(LinesOf(t))
           /\ Len(t) \in {0} \cup LineEnds(t) /\ LineEnds(t) \subseteq 1 .. Len(t)
           /\ \A n \in Nat : LinesTo(t, n) \in 0 .. Len(LinesOf(t))
<1>1. /\ LinesOf(t) \in Seq(Seq(Byte))
      /\ Len(LinesOf(t)) = Cardinality(LineEnds(t))
      /\ DOMAIN LinesOf(t) = 1 .. Cardinality(LineEnds(t))
  BY LinesOfType
<1>2. /\ LineEnds(t) \subseteq 1 .. Len(t) /\ Len(t) \in {0} \cup LineEnds(t)
      /\ Cardinality(LineEnds(t)) \in 0 .. Len(t)
      /\ LinesTo(t, 0) = 0 /\ LinesTo(t, Len(t)) = Cardinality(LineEnds(t))
      /\ \A n \in Nat : LinesTo(t, n) \in 0 .. Cardinality(LineEnds(t))
  BY EndsFacts
<1>. QED  BY <1>1, <1>2

LEMMA LineAnswers ==
    ASSUME EngineAnswers, EngineReports, NEW t \in Seq(Byte), NEW j \in DOMAIN LinesOf(t)
    PROVE  /\ RedactLine(Content(LinesOf(t)[j])) \in Seq(Byte)
           /\ Ending(LinesOf(t)[j]) \in Seq(Byte)
           /\ RedactedLines(t)[j] \in Seq(Byte)
           /\ ScanTotal(Content(LinesOf(t)[j])) \in U64
<1>1. LinesOf(t)[j] \in Seq(Byte)
  BY LinesFacts, ElementOfSeq
<1>2. /\ Content(LinesOf(t)[j]) \in Seq(Byte) /\ Ending(LinesOf(t)[j]) \in Seq(Byte)
      /\ RedactLine(Content(LinesOf(t)[j])) \in Seq(Byte)
  BY <1>1, ContentFacts
<1>3. RedactedLines(t)[j] \in Seq(Byte)
  BY <1>2, ConcatProperties DEF RedactedLines
<1>4. 0 \in U64
  BY MaxU64Assumption DEF U64
<1>. QED  BY <1>2, <1>3, <1>4 DEF EngineReports, ScanTotal

TotalOf(s) == FoldLeft(LAMBDA sum, l : SatAdd(sum, ScanTotal(Content(l))), 0, s)

\* The fold over lines as a running total.
LEMMA TotalPrefixes ==
    ASSUME NEW s \in Seq(Seq(Byte)), \A i \in DOMAIN s : ScanTotal(Content(s[i])) \in U64
    PROVE  \E f \in [0 .. Len(s) -> U64] :
              /\ f[0] = 0
              /\ \A j \in 1 .. Len(s) : f[j] = SatAdd(f[j - 1], ScanTotal(Content(s[j])))
              /\ TotalOf(s) = f[Len(s)]
<1>. DEFINE D == DOMAIN s
            last == [d \in SUBSET D |-> Max(d)]
            step == [p \in D \X U64 |-> SatAdd(p[2], ScanTotal(Content(s[p[1]])))]
            Value(g, d) == IF d = {} THEN 0
                           ELSE LET x == Max(d)
                                IN  SatAdd(g[d \ {x}], ScanTotal(Content(s[x])))
            iter == CHOOSE g : g = [d \in SUBSET D |-> Value(g, d)]
<1>1. TotalOf(s) = iter[D]
  BY DEF FoldLeft, MapThenFoldSet, TotalOf
<1>2. Len(s) \in Nat /\ D = 1 .. Len(s) /\ 0 \in U64
  BY LenProperties, MaxU64Assumption DEF U64
<1>3. ASSUME NEW d \in SUBSET D, d # {} PROVE Max(d) \in d /\ \A y \in d : Max(d) >= y
  <2>1. \E x \in d : \A y \in d : x >= y
    BY <1>2, <1>3, GreatestUpTo
  <2>. QED  BY <2>1 DEF Max
<1>4. step \in [D \X U64 -> U64] /\ TakesLast(last, Len(s))
  BY <1>2, <1>3, SatAddFacts DEF TakesLast
<1>5. PICK g \in [SUBSET D -> U64] : IsFold(g, D, 0, last, step)
  <2>. HIDE DEF step, last, D
  <2>. QED  BY <1>2, <1>4, LeftFoldExists
<1>6. ASSUME NEW d \in SUBSET D PROVE g[d] = Value(g, d)
  <2>1. d # {} => Max(d) \in D /\ d \ {Max(d)} \in SUBSET D
    BY <1>3
  <2>. QED  BY <1>5, <2>1 DEF IsFold
<1>7. iter = [d \in SUBSET D |-> Value(iter, d)]
  <2>. HIDE DEF Value, D
  <2>1. g = [d \in SUBSET D |-> Value(g, d)]
    BY <1>6
  <2>. QED  BY <2>1
<1>. HIDE DEF iter
<1>8. Follows(iter, D, U64, 0, last, step)
  <2>1. ASSUME NEW d \in SUBSET D PROVE iter[d] = Value(iter, d)
    <3>. HIDE DEF Value, D
    <3>. QED  BY <1>7
  <2>2. ASSUME NEW d \in SUBSET D, d # {}, iter[d \ {last[d]}] \in U64
        PROVE  iter[d] = step[<<last[d], iter[d \ {last[d]}]>>]
    <3>1. last[d] = Max(d) /\ Max(d) \in D
      BY <1>3, <2>2
    <3>. QED  BY <2>1, <2>2, <3>1
  <2>. QED  BY <2>1, <2>2 DEF Follows
<1>9. PICK f \in [0 .. Len(s) -> U64] : RunsTo(f, Len(s), 0, step, iter[D])
  <2>. HIDE DEF step, last, D
  <2>. QED  BY <1>2, <1>4, <1>8, FoldRuns
<1>10. ASSUME NEW j \in 1 .. Len(s)
       PROVE  f[j] = SatAdd(f[j - 1], ScanTotal(Content(s[j])))
  <2>1. j \in D /\ j - 1 \in 0 .. Len(s)
    BY <1>2
  <2>. QED  BY <1>9, <2>1 DEF RunsTo, IsRun
<1>. QED  BY <1>1, <1>9, <1>10 DEF RunsTo, IsRun

\* The total of one line more.
LEMMA TotalOfNext ==
    ASSUME EngineAnswers, EngineReports, NEW t \in Seq(Byte), NEW n \in Nat,
           n < Len(LinesOf(t))
    PROVE  /\ DetectionsIn(t, n) \in U64
           /\ DetectionsIn(t, n + 1) = SatAdd(DetectionsIn(t, n),
                                              ScanTotal(Content(LinesOf(t)[n + 1])))
<1>. DEFINE L == LinesOf(t)
            s == SubSeq(L, 1, n)
            u == SubSeq(L, 1, n + 1)
<1>1. L \in Seq(Seq(Byte)) /\ Len(L) \in Nat /\ DOMAIN L = 1 .. Len(L)
  BY LinesFacts, LenProperties
<1>2. \A i \in DOMAIN L : ScanTotal(Content(L[i])) \in U64
  BY LineAnswers
<1>. HIDE DEF L
<1>3. ASSUME NEW m \in Nat, m <= Len(L)
      PROVE  /\ SubSeq(L, 1, m) \in Seq(Seq(Byte)) /\ Len(SubSeq(L, 1, m)) = m
             /\ DOMAIN SubSeq(L, 1, m) = 1 .. m
             /\ \A i \in 1 .. m : SubSeq(L, 1, m)[i] = L[i]
  <2>1. 0 + m = m /\ 0 + 1 = 1 /\ \A i \in 1 .. m : 0 + i = i
    OBVIOUS
  <2>2. /\ SubSeq(L, 0 + 1, 0 + m) \in Seq(Seq(Byte)) /\ Len(SubSeq(L, 0 + 1, 0 + m)) = m
        /\ \A i \in 1 .. m : SubSeq(L, 0 + 1, 0 + m)[i] = L[0 + i]
    BY <1>1, <1>3, <2>1, PartBytes
  <2>. QED  BY <2>1, <2>2, LenProperties
<1>4. n <= Len(L) /\ n + 1 \in Nat /\ n + 1 <= Len(L)
  BY <1>1 DEF L
<1>5. /\ s \in Seq(Seq(Byte)) /\ Len(s) = n /\ DOMAIN s = 1 .. n
      /\ \A i \in 1 .. n : s[i] = L[i]
  BY <1>3, <1>4
<1>6. /\ u \in Seq(Seq(Byte)) /\ Len(u) = n + 1 /\ DOMAIN u = 1 .. n + 1
      /\ \A i \in 1 .. n + 1 : u[i] = L[i]
  BY <1>3, <1>4
<1>. HIDE DEF s, u
<1>t. /\ \A i \in DOMAIN s : ScanTotal(Content(s[i])) \in U64
      /\ \A i \in DOMAIN u : ScanTotal(Content(u[i])) \in U64
  <2>1. 1 .. n \subseteq DOMAIN L /\ 1 .. n + 1 \subseteq DOMAIN L
    BY <1>1, <1>4
  <2>. QED  BY <1>2, <1>5, <1>6, <2>1
<1>7. PICK f \in [0 .. n -> U64] :
        /\ f[0] = 0
        /\ \A j \in 1 .. n : f[j] = SatAdd(f[j - 1], ScanTotal(Content(s[j])))
        /\ TotalOf(s) = f[n]
  BY <1>5, <1>t, TotalPrefixes
<1>8. PICK g \in [0 .. n + 1 -> U64] :
        /\ g[0] = 0
        /\ \A j \in 1 .. n + 1 : g[j] = SatAdd(g[j - 1], ScanTotal(Content(u[j])))
        /\ TotalOf(u) = g[n + 1]
  BY <1>6, <1>t, TotalPrefixes
<1>9. f[n] = g[n]
  <2>1. ASSUME NEW j \in 1 .. n, f[j - 1] = g[j - 1] PROVE f[j] = g[j]
    <3>1. j \in 1 .. n + 1
      OBVIOUS
    <3>. QED  BY <1>5, <1>6, <1>7, <1>8, <2>1, <3>1
  <2>2. f[0] = g[0] /\ \A j \in 1 .. n : f[j - 1] = g[j - 1] => f[j] = g[j]
    BY <1>7, <1>8, <2>1
  <2>. HIDE DEF L
  <2>. QED  BY ONLY n \in Nat, <2>2, RunsAgree
<1>10. n + 1 \in 1 .. n + 1 /\ (n + 1) - 1 = n
  OBVIOUS
<1>11. TotalOf(u) = SatAdd(TotalOf(s), ScanTotal(Content(L[n + 1]))) /\ TotalOf(s) \in U64
  BY <1>6, <1>7, <1>8, <1>9, <1>10
<1>. QED  BY <1>11 DEF TotalOf, DetectionsIn, L, s, u

LEMMA NoLinesNoTotal == \A t \in Seq(Byte) : DetectionsIn(t, 0) = 0
<1>. SUFFICES ASSUME NEW t \in Seq(Byte) PROVE DetectionsIn(t, 0) = 0
  OBVIOUS
<1>1. SubSeq(LinesOf(t), 1, 0) = << >> /\ << >> \in Seq(Seq(Byte)) /\ Len(<< >>) = 0
      /\ DOMAIN << >> = {}
  BY SubSeqEmpty, EmptySeq, LenProperties
<1>2. PICK f \in [0 .. 0 -> U64] : f[0] = 0 /\ TotalOf(<< >>) = f[0]
  BY <1>1, TotalPrefixes
<1>. QED  BY <1>1, <1>2 DEF TotalOf, DetectionsIn

-----------------------------------------------------------------------------
(* The redacted lines one after the other.                                   *)

LEMMA BytesAssociative ==
    ASSUME NEW a \in Seq(Byte), NEW b \in Seq(Byte), NEW c \in Seq(Byte)
    PROVE  (a \o b) \o c = a \o (b \o c)
  BY ConcatAssociative

LEMMA BytesTogether ==
    ASSUME NEW a \in Seq(Byte), NEW b \in Seq(Byte)
    PROVE  a \o b \in Seq(Byte)
  BY ConcatProperties

LEMMA StartIsPrefix ==
    ASSUME NEW s \in Seq(Byte), NEW u \in Seq(Byte)
    PROVE  IsPrefix(s, s \o u)
<1>. DEFINE w == s \o u
<1>1. /\ w \in Seq(Byte) /\ Len(w) = Len(s) + Len(u) /\ Len(s) \in Nat /\ Len(u) \in Nat
      /\ \A i \in 1 .. Len(s) : w[i] = s[i]
  BY ConcatProperties, LenProperties
<1>2. SubSeq(s, 1, Len(s)) = s
  BY SubSeqFull
<1>. HIDE DEF w
<1>3. SubSeq(w, 1, Len(s)) = s
  <2>1. 0 + 1 = 1 /\ 0 + Len(s) = Len(s) /\ Len(s) <= Len(w)
        /\ \A k \in 1 .. Len(s) : 0 + k = k
    BY <1>1
  <2>2. /\ SubSeq(w, 0 + 1, 0 + Len(s)) \in Seq(Byte)
        /\ Len(SubSeq(w, 0 + 1, 0 + Len(s))) = Len(s)
        /\ \A k \in 1 .. Len(s) : SubSeq(w, 0 + 1, 0 + Len(s))[k] = w[0 + k]
    BY <1>1, <2>1, PartBytes
  <2>3. /\ SubSeq(w, 1, Len(s)) \in Seq(Byte) /\ Len(SubSeq(w, 1, Len(s))) = Len(s)
        /\ \A k \in 1 .. Len(s) : SubSeq(w, 1, Len(s))[k] = s[k]
    BY <1>1, <2>1, <2>2
  <2>. QED  BY <2>3, SeqEqual
<1>. QED  BY <1>1, <1>2, <1>3 DEF IsPrefix, w

\* The first n lines of a text, redacted.
RedactedTo(t, n) == FlattenSeq(SubSeq(RedactedLines(t), 1, n))

LEMMA RedactedFacts ==
    ASSUME EngineAnswers, EngineReports, NEW t \in Seq(Byte)
    PROVE  /\ RedactedLines(t) \in Seq(Seq(Byte))
           /\ Len(RedactedLines(t)) = Len(LinesOf(t))
           /\ RedactedTo(t, 0) = << >>
           /\ RedactedTo(t, Len(LinesOf(t))) = RedactionOf(t)
<1>1. LinesOf(t) \in Seq(Seq(Byte)) /\ Len(LinesOf(t)) \in Nat
      /\ DOMAIN LinesOf(t) = 1 .. Len(LinesOf(t))
  BY LinesFacts, LenProperties
<1>2. \A j \in DOMAIN LinesOf(t) : RedactedLines(t)[j] \in Seq(Byte)
  BY LineAnswers
<1>3. /\ DOMAIN RedactedLines(t) = 1 .. Len(LinesOf(t))
      /\ RedactedLines(t) = [j \in 1 .. Len(LinesOf(t)) |-> RedactedLines(t)[j]]
  BY <1>1 DEF RedactedLines
<1>4. RedactedLines(t) \in [1 .. Len(LinesOf(t)) -> Seq(Byte)]
  BY <1>1, <1>2, <1>3
<1>5. RedactedLines(t) \in Seq(Seq(Byte)) /\ Len(RedactedLines(t)) = Len(LinesOf(t))
  BY <1>1, <1>3, <1>4
<1>6. RedactedTo(t, 0) = << >>
  <2>1. SubSeq(RedactedLines(t), 1, 0) = << >> /\ Len(<< >>) = 0
    BY SubSeqEmpty, EmptySeq
  <2>. QED  BY <2>1 DEF RedactedTo, FlattenSeq
<1>7. RedactedTo(t, Len(LinesOf(t))) = RedactionOf(t)
  BY <1>5, SubSeqFull DEF RedactedTo, RedactionOf
<1>. QED  BY <1>5, <1>6, <1>7

\* One line more, and the part of it written so far.
LEMMA RedactedNext ==
    ASSUME EngineAnswers, EngineReports, NEW t \in Seq(Byte), NEW n \in Nat,
           n < Len(LinesOf(t))
    PROVE  /\ RedactedTo(t, n) \in Seq(Byte)
           /\ LET l == LinesOf(t)[n + 1]
              IN  RedactedTo(t, n + 1)
                    = RedactedTo(t, n) \o (RedactLine(Content(l)) \o Ending(l))
<1>1. n + 1 \in DOMAIN LinesOf(t)
  <2>1. DOMAIN LinesOf(t) = 1 .. Len(LinesOf(t)) /\ Len(LinesOf(t)) \in Nat
    BY LinesFacts
  <2>. QED  BY <2>1
<1>2. RedactedLines(t)[n + 1]
        = RedactLine(Content(LinesOf(t)[n + 1])) \o Ending(LinesOf(t)[n + 1])
  BY <1>1 DEF RedactedLines
<1>. QED  BY <1>2, RedactedFacts, FlattenNext DEF RedactedTo

LEMMA WrittenSoFar ==
    ASSUME EngineAnswers, EngineReports, NEW t \in Seq(Byte), NEW n \in Nat,
           n <= Len(LinesOf(t))
    PROVE  RedactedTo(t, n) \in Seq(Byte) /\ IsPrefix(RedactedTo(t, n), RedactionOf(t))
<1>1. PICK u \in Seq(Byte) : RedactionOf(t) = RedactedTo(t, n) \o u
  BY RedactedFacts, FlattenStarts DEF RedactedTo, RedactionOf
<1>2. RedactedTo(t, n) \in Seq(Byte)
  BY RedactedFacts, FlattenStarts DEF RedactedTo
<1>. QED  BY <1>1, <1>2, StartIsPrefix

LEMMA WrittenInLine ==
    ASSUME EngineAnswers, EngineReports, NEW t \in Seq(Byte), NEW n \in Nat,
           n < Len(LinesOf(t)), NEW part \in Seq(Byte), NEW left \in Seq(Byte),
           LET l == LinesOf(t)[n + 1]
           IN  part \o left = RedactLine(Content(l)) \o Ending(l)
    PROVE  IsPrefix(RedactedTo(t, n) \o part, RedactionOf(t))
<1>1. /\ RedactedTo(t, n) \in Seq(Byte)
      /\ RedactedTo(t, n + 1) = RedactedTo(t, n) \o (part \o left)
  BY RedactedNext
<1>2. n + 1 \in Nat /\ n + 1 <= Len(LinesOf(t))
  <2>1. Len(LinesOf(t)) \in Nat
    BY LinesFacts, LenProperties
  <2>. QED  BY <2>1
<1>3. PICK u \in Seq(Byte) : RedactionOf(t) = RedactedTo(t, n + 1) \o u
  BY <1>2, RedactedFacts, FlattenStarts DEF RedactedTo, RedactionOf
<1>. DEFINE a == RedactedTo(t, n)
<1>. HIDE DEF a
<1>4. part \o left \in Seq(Byte) /\ left \o u \in Seq(Byte) /\ a \o part \in Seq(Byte)
  BY <1>1, ConcatProperties DEF a
<1>5. (a \o (part \o left)) \o u = (a \o part) \o (left \o u)
  <2>1. a \in Seq(Byte)
    BY <1>1 DEF a
  <2>. DEFINE p == a \o part
  <2>2. a \o (part \o left) = p \o left
    BY <2>1, BytesAssociative, Zenon
  <2>3. p \in Seq(Byte)
    BY <1>4
  <2>. HIDE DEF p
  <2>4. (p \o left) \o u = p \o (left \o u)
    BY <2>3, BytesAssociative, Zenon
  <2>. QED  BY <2>2, <2>4, Zenon DEF p
<1>6. IsPrefix(a \o part, (a \o part) \o (left \o u))
  BY <1>4, StartIsPrefix
<1>. QED  BY <1>1, <1>3, <1>5, <1>6 DEF a

-----------------------------------------------------------------------------
(* What the command has made of the input so far.                            *)

\* How far the lines the command has taken go: not to the one in the reader.
Taken == IF pc = "line" THEN consumed - Len(buffer) ELSE consumed

Kept ==
    /\ given \in Seq(Byte) /\ sample_limit \in Nat
    /\ pc = "start" \/ ~same_file => text = given
    /\ count \in 0 .. Len(given) /\ detections \in U64 /\ truncated \in BOOLEAN
    /\ pc \notin {"finish", "over"} => truncated = FALSE
    /\ pc = "start" => count = 0 /\ output = << >> /\ detections = 0
    /\ same_file => count = 0 /\ output = << >>
    /\ command # "redact" => output = << >>
    /\ command # "redact" /\ sample_limit > 0 =>
          count <= sample_limit /\ (pc = "line" => count < sample_limit)
    /\ pc = "ahead" => AtLimit /\ status \in {"peeking", "more", "end", "failed"}
    /\ status = "more" => consumed < Len(text)

Progress ==
    ~same_file /\ pc # "over" =>
       /\ Taken \in {0} \cup LineEnds(given) /\ count = LinesTo(given, Taken)
       /\ command # "redact" => detections = DetectionsIn(given, count)
       /\ command = "redact" /\ pc # "ending" => output = RedactedTo(given, count)
       /\ pc = "ending" =>
             /\ count > 0 /\ LinesOf(given)[count] = buffer
             /\ output = RedactedTo(given, count - 1) \o RedactLine(Content(buffer))

Results ==
    /\ ReportCoversSample
    /\ pc = "over" => OutputIsRedaction /\ SuccessIsWhole /\ PassIsClean

LEMMA CliInitKept ==
    ASSUME EngineAnswers, EngineReports, CliInit PROVE Kept /\ Progress /\ Results
<1>1. given \in Seq(Byte) /\ sample_limit \in Nat /\ Len(given) \in Nat
  BY TextsAssumption, LimitsAssumption, LenProperties DEF CliInit
<1>2. 0 \in U64
  BY MaxU64Assumption DEF U64
<1>3. Kept
  <2>1. /\ text = given /\ count = 0 /\ detections = 0 /\ output = << >> /\ pc = "start"
        /\ truncated = FALSE /\ status = "idle"
    BY DEF CliInit
  <2>2. 0 \in 0 .. Len(given) /\ (sample_limit > 0 => 0 <= sample_limit)
    BY <1>1
  <2>. QED  BY <1>1, <1>2, <2>1, <2>2 DEF Kept
<1>4. /\ LinesTo(given, 0) = 0 /\ DetectionsIn(given, 0) = 0
      /\ RedactedTo(given, 0) = << >>
  BY <1>1, LinesFacts, NoLinesNoTotal, RedactedFacts
<1>5. Progress
  BY <1>4 DEF CliInit, Progress, Taken
<1>6. Results
  BY DEF CliInit, Results, ReportCoversSample
<1>. QED  BY <1>3, <1>5, <1>6

\* The line in hand is the next one of the input.
LEMMA LineIsNext ==
    ASSUME IInv, CliInv, Kept, Progress, pc = "line", status = "line"
    PROVE  /\ ~same_file /\ given \in Seq(Byte) /\ text = given
           /\ count \in Nat /\ count < Len(LinesOf(given)) /\ count + 1 \in 0 .. Len(given)
           /\ consumed \in LineEnds(given) /\ LinesTo(given, consumed) = count + 1
           /\ LinesOf(given)[count + 1] = buffer
<1>1. ~same_file /\ given \in Seq(Byte) /\ text = given /\ count \in Nat
  BY LineNeedsText DEF Kept
<1>. DEFINE n == Len(buffer)
            c == consumed - n
<1>2. c \in {0} \cup LineEnds(given) /\ count = LinesTo(given, c)
  BY <1>1 DEF Progress, Taken
<1>3. /\ n \in 1 .. Len(After(given, c)) /\ IsFirstLine(After(given, c), n)
      /\ SubSeq(After(given, c), 1, n) = buffer
  BY <1>1, LineInHand
<1>4. n \in Nat /\ c + n = consumed
  BY LenProperties DEF IInv, TypeOK
<1>. HIDE DEF n, c
<1>5. /\ c + n \in LineEnds(given) /\ LinesTo(given, c) + 1 = LinesTo(given, c + n)
      /\ LinesTo(given, c) + 1 \in 1 .. Cardinality(LineEnds(given))
      /\ LinesOf(given)[LinesTo(given, c) + 1] = SubSeq(After(given, c), 1, n)
  BY <1>1, <1>2, <1>3, <1>4, NextLineIsNext
<1>6. Cardinality(LineEnds(given)) = Len(LinesOf(given))
  BY <1>1, LinesOfType
<1>7. Len(LinesOf(given)) \in 0 .. Len(given) /\ Len(given) \in Nat
  BY <1>1, LinesFacts, LenProperties
<1>8. count + 1 \in 1 .. Len(LinesOf(given))
  BY <1>2, <1>5, <1>6
<1>9. count < Len(LinesOf(given)) /\ count + 1 \in 0 .. Len(given)
  BY <1>1, <1>7, <1>8
<1>10. /\ consumed \in LineEnds(given) /\ LinesTo(given, consumed) = count + 1
       /\ LinesOf(given)[count + 1] = buffer
  BY <1>2, <1>3, <1>4, <1>5
<1>. QED  BY <1>1, <1>9, <1>10

\* The process stops, whichever way.
Stops == OpenFails \/ InputFails \/ BadLine \/ FinishFails \/ Killed \/ Finish

LEMMA StopsQuietly ==
    ASSUME Stops
    PROVE  /\ UNCHANGED <<reader, run, count, output, detections, truncated>>
           /\ pc' = "over" /\ exit' \in {"ok", "failed", "killed"}
           /\ exit' = "ok" => Finish
<1>1. CASE OpenFails
  BY <1>1 DEF OpenFails, Fail
<1>2. CASE InputFails
  BY <1>2 DEF InputFails, Fail
<1>3. CASE BadLine
  BY <1>3 DEF BadLine, Fail
<1>4. CASE FinishFails
  BY <1>4 DEF FinishFails, Fail
<1>5. CASE Killed
  BY <1>5 DEF Killed
<1>6. CASE Finish
  BY <1>6 DEF Finish
<1>. QED  BY <1>1, <1>2, <1>3, <1>4, <1>5, <1>6 DEF Stops

LEMMA KeptNext ==
    ASSUME EngineAnswers, EngineReports, IInv, CliInv, Kept, Progress, [CliNext]_cliVars
    PROVE  Kept'
<1>1. CASE Open
  BY <1>1 DEF Open, CliInv, Kept, AtLimit, run
<1>2. CASE NextLine
  BY <1>2 DEF NextLine, Ask, CliInv, Kept, AtLimit, run
<1>3. CASE LookAhead
  BY <1>3 DEF LookAhead, Peek, CliInv, Kept, AtLimit, run
<1>4. CASE Read
  <2>1. UNCHANGED <<text, run, loop>> /\ UNCHANGED <<pc, count, output, detections, truncated,
                   command, sample_limit, same_file, given>>
    BY <1>4 DEF Read, Step, Fetch, Exhausted, Take, Overflow, PeekSees, run, loop
  <2>2. pc = "ahead" => status' \in {"peeking", "more", "end", "failed"}
    <3>1. status = "peeking" => buffer = << >>
      BY DEF IInv, Gathered
    <3>. QED  BY <1>4, <3>1 DEF Read, Step, Fetch, Exhausted, Take, Overflow, PeekSees,
                                Waiting, Kept
  <2>3. status' = "more" => consumed' < Len(text')
    <3>1. fetched \in 0 .. Len(text) /\ consumed \in 0 .. fetched /\ Len(text) \in Nat
      BY LenProperties DEF IInv, TypeOK
    <3>. QED  BY <1>4, <2>1, <3>1
              DEF Read, Step, Fetch, Exhausted, Take, Overflow, PeekSees, Waiting
  <2>. QED  BY <1>4, <2>1, <2>2, <2>3 DEF Kept, AtLimit, Read
<1>5. CASE ReadError
  BY <1>5 DEF ReadError, ReadFails, Kept, AtLimit, run, loop
<1>6. CASE Stops
  BY <1>6, StopsQuietly DEF Kept, CliInv, run, reader
<1>7. CASE Limited
  BY <1>7 DEF Limited, Kept, run, reader
<1>8. CASE EndOfInput
  BY <1>8 DEF EndOfInput, Kept, run, reader
<1>9. CASE ScanLine
  <2>1. pc = "line" /\ status = "line" /\ command # "redact"
    BY <1>9 DEF ScanLine, GotLine
  <2>2. ~same_file /\ count \in Nat /\ count + 1 \in 0 .. Len(given)
    BY <2>1, LineIsNext
  <2>3. ScanTotal(Content(buffer)) \in U64
    <3>1. /\ given \in Seq(Byte) /\ LinesOf(given)[count + 1] = buffer
          /\ count \in Nat /\ count < Len(LinesOf(given))
      BY <2>1, LineIsNext
    <3>2. count + 1 \in DOMAIN LinesOf(given)
      <4>1. Len(LinesOf(given)) \in Nat /\ DOMAIN LinesOf(given) = 1 .. Len(LinesOf(given))
        BY <3>1, LinesFacts, LenProperties
      <4>. QED  BY <3>1, <4>1
    <3>. QED  BY <3>1, <3>2, LineAnswers
  <2>4. detections' \in U64
    BY <1>9, <2>3, SatAddFacts DEF ScanLine, Kept
  <2>5. sample_limit > 0 => count + 1 <= sample_limit
    BY <2>1, <2>2 DEF Kept
  <2>. QED  BY <1>9, <2>1, <2>2, <2>4, <2>5 DEF ScanLine, Kept, run, reader
<1>10. CASE WriteContent
  <2>1. pc = "line" /\ status = "line" /\ command = "redact"
    BY <1>10 DEF WriteContent, GotLine
  <2>2. ~same_file /\ count + 1 \in 0 .. Len(given)
    BY <2>1, LineIsNext
  <2>. QED  BY <1>10, <2>1, <2>2 DEF WriteContent, Writes, Kept, run, reader
<1>11. CASE WriteEnding
  <2>1. pc = "ending" /\ command = "redact" /\ ~same_file
    BY <1>11, LineNeedsText DEF WriteEnding, CliInv
  <2>. QED  BY <1>11, <2>1 DEF WriteEnding, Writes, Kept, run, reader
<1>12. CASE WriteFails
  <2>1. command = "redact" /\ ~same_file /\ pc' = "over"
    BY <1>12, LineNeedsText DEF WriteFails, GotLine, Fail, CliInv
  <2>2. UNCHANGED <<reader, run, count, detections, truncated>> /\ pc # "start"
    BY <1>12 DEF WriteFails, GotLine
  <2>. QED  BY <2>1, <2>2 DEF Kept, run, reader
<1>13. CASE UNCHANGED cliVars
  BY <1>13 DEF cliVars, Kept, AtLimit, run, loop, reader
<1>. QED  BY <1>1, <1>2, <1>3, <1>4, <1>5, <1>6, <1>7, <1>8, <1>9, <1>10, <1>11, <1>12, <1>13
          DEF CliNext, Works, Stops

LEMMA ProgressNext ==
    ASSUME EngineAnswers, EngineReports, IInv, CliInv, Kept, Progress, [CliNext]_cliVars
    PROVE  Progress'
<1>. SUFFICES ASSUME ~same_file, pc # "over", pc' # "over"
     PROVE  /\ Taken' \in {0} \cup LineEnds(given') /\ count' = LinesTo(given', Taken')
            /\ command' # "redact" => detections' = DetectionsIn(given', count')
            /\ command' = "redact" /\ pc' # "ending" => output' = RedactedTo(given', count')
            /\ pc' = "ending" =>
                  /\ count' > 0 /\ LinesOf(given')[count'] = buffer'
                  /\ output' = RedactedTo(given', count' - 1) \o RedactLine(Content(buffer'))
  <2>1. UNCHANGED run /\ (pc = "over" => pc' = "over")
    BY DEF CliNext, Works, Open, NextLine, LookAhead, Read, ReadError, Limited, EndOfInput,
           InputFails, BadLine, ScanLine, WriteContent, WriteEnding, Writes, WriteFails,
           OpenFails, FinishFails, Killed, Finish, GotLine, Fail, cliVars, loop, run
  <2>. QED  BY <2>1 DEF Progress, run
<1>k. /\ Taken \in {0} \cup LineEnds(given) /\ count = LinesTo(given, Taken)
      /\ command # "redact" => detections = DetectionsIn(given, count)
      /\ command = "redact" /\ pc # "ending" => output = RedactedTo(given, count)
      /\ pc = "ending" =>
            /\ count > 0 /\ LinesOf(given)[count] = buffer
            /\ output = RedactedTo(given, count - 1) \o RedactLine(Content(buffer))
  BY DEF Progress
<1>q. ASSUME UNCHANGED <<count, output, detections, run>>, Taken' = Taken,
             pc # "ending", pc' # "ending"
      PROVE  /\ Taken' \in {0} \cup LineEnds(given') /\ count' = LinesTo(given', Taken')
             /\ command' # "redact" => detections' = DetectionsIn(given', count')
             /\ command' = "redact" /\ pc' # "ending" => output' = RedactedTo(given', count')
  <2>1. UNCHANGED <<given, command, count, output, detections>>
    BY <1>q DEF run
  <2>. QED  BY <1>k, <1>q, <2>1
<1>c. consumed \in Nat /\ consumed - 0 = consumed /\ Len(<< >>) = 0
  BY EmptySeq DEF IInv, TypeOK
<1>1. CASE Open
  <2>1. Taken' = Taken /\ UNCHANGED <<count, output, detections, run>>
        /\ pc # "ending" /\ pc' # "ending"
    BY <1>1 DEF Open, Taken
  <2>. QED  BY <1>q, <2>1
<1>2. CASE NextLine
  <2>1. Taken' = Taken /\ UNCHANGED <<count, output, detections, run>>
        /\ pc # "ending" /\ pc' # "ending"
    BY <1>2, <1>c DEF NextLine, Ask, Taken
  <2>. QED  BY <1>q, <2>1
<1>3. CASE LookAhead
  <2>1. Taken' = Taken /\ UNCHANGED <<count, output, detections, run>>
        /\ pc # "ending" /\ pc' # "ending"
    BY <1>3 DEF LookAhead, Peek, Taken
  <2>. QED  BY <1>q, <2>1
<1>4. CASE Read \/ ReadError
  <2>1. UNCHANGED <<pc, count, output, detections, run>> /\ pc \in {"line", "ahead"}
    BY <1>4 DEF Read, ReadError, loop
  <2>2. consumed' - Len(buffer') = consumed - Len(buffer)
        /\ (pc = "ahead" => consumed' = consumed)
    <3>1. CASE Take
      BY <3>1, TakeGathersSome DEF Take, Kept
    <3>2. CASE Fetch \/ Exhausted \/ Overflow \/ PeekSees \/ ReadFails
      BY <3>2 DEF Fetch, Exhausted, Overflow, PeekSees, ReadFails
    <3>. QED  BY <1>4, <3>1, <3>2 DEF Read, ReadError, Step
  <2>3. Taken' = Taken
    BY <2>1, <2>2 DEF Taken
  <2>. QED  BY <1>q, <2>1, <2>3
<1>5. CASE Stops
  BY <1>5, StopsQuietly
<1>6. CASE Limited
  <2>1. Taken' = Taken /\ UNCHANGED <<count, output, detections, run>>
        /\ pc # "ending" /\ pc' # "ending"
    BY <1>6 DEF Limited, Taken, reader
  <2>. QED  BY <1>q, <2>1
<1>7. CASE EndOfInput
  <2>1. buffer = << >>
    BY <1>7 DEF EndOfInput, IInv, Gathered
  <2>2. Taken' = Taken /\ UNCHANGED <<count, output, detections, run>>
        /\ pc # "ending" /\ pc' # "ending"
    BY <1>7, <1>c, <2>1 DEF EndOfInput, Taken, reader
  <2>. QED  BY <1>q, <2>2
<1>g. ASSUME pc = "line", status = "line"
      PROVE  /\ given \in Seq(Byte) /\ count \in Nat /\ count < Len(LinesOf(given))
             /\ consumed \in {0} \cup LineEnds(given)
             /\ LinesTo(given, consumed) = count + 1
             /\ LinesOf(given)[count + 1] = buffer
  BY <1>g, LineIsNext
<1>8. CASE ScanLine
  <2>1. /\ pc = "line" /\ status = "line" /\ command # "redact" /\ pc' = "loop"
        /\ UNCHANGED <<consumed, given, command>> /\ count' = count + 1
        /\ detections' = SatAdd(detections, ScanTotal(Content(buffer)))
    BY <1>8 DEF ScanLine, GotLine, reader, run
  <2>2. Taken' = consumed
    BY <2>1 DEF Taken
  <2>3. detections' = DetectionsIn(given, count + 1)
    BY <1>g, <1>k, <2>1, TotalOfNext
  <2>. QED  BY <1>g, <2>1, <2>2, <2>3
<1>9. CASE WriteContent
  <2>1. /\ pc = "line" /\ status = "line" /\ command = "redact" /\ pc' = "ending"
        /\ UNCHANGED <<consumed, buffer, given, command>> /\ count' = count + 1
        /\ output' = output \o RedactLine(Content(buffer))
    BY <1>9 DEF WriteContent, GotLine, Writes, reader, run
  <2>2. Taken' = consumed
    BY <2>1 DEF Taken
  <2>3. (count + 1) - 1 = count /\ count + 1 > 0
    BY <1>g, <2>1
  <2>. QED  BY <1>g, <1>k, <2>1, <2>2, <2>3
<1>10. CASE WriteEnding
  <2>1. /\ pc = "ending" /\ status = "line" /\ command = "redact" /\ pc' = "loop"
        /\ UNCHANGED <<consumed, given, command, count>>
        /\ output' = output \o Ending(buffer)
    BY <1>10 DEF WriteEnding, Writes, reader, run, CliInv
  <2>2. Taken' = Taken
    BY <2>1 DEF Taken
  <2>. DEFINE n == count - 1
  <2>3. given \in Seq(Byte) /\ n \in Nat /\ n < Len(LinesOf(given)) /\ n + 1 = count
    <3>1. given \in Seq(Byte) /\ Len(given) \in Nat /\ Taken \in Nat
          /\ count \in 0 .. Len(given)
      BY <2>1, LenProperties DEF Kept, Taken, IInv, TypeOK
    <3>2. LinesTo(given, Taken) \in 0 .. Len(LinesOf(given)) /\ Len(LinesOf(given)) \in Nat
      BY <3>1, LinesFacts, LenProperties
    <3>. QED  BY <1>k, <2>1, <3>1, <3>2
  <2>. HIDE DEF n
  <2>4. /\ RedactedTo(given, n) \in Seq(Byte)
        /\ RedactedTo(given, n + 1) = RedactedTo(given, n) \o
              (RedactLine(Content(buffer)) \o Ending(buffer))
    <3>1. LinesOf(given)[n + 1] = buffer
      BY <1>k, <2>1, <2>3
    <3>. QED  BY <2>3, <3>1, RedactedNext
  <2>5. RedactLine(Content(buffer)) \in Seq(Byte) /\ Ending(buffer) \in Seq(Byte)
    BY ContentFacts DEF IInv, TypeOK
  <2>6. output' = (RedactedTo(given, n) \o RedactLine(Content(buffer))) \o Ending(buffer)
    BY <1>k, <2>1 DEF n
  <2>7. output' = RedactedTo(given, count)
    <3>. DEFINE before == RedactedTo(given, n)
                new == RedactLine(Content(buffer))
                end == Ending(buffer)
    <3>1. before \in Seq(Byte) /\ new \in Seq(Byte) /\ end \in Seq(Byte)
      BY <2>4, <2>5
    <3>2. RedactedTo(given, n + 1) = before \o (new \o end) /\ output' = (before \o new) \o end
      BY <2>4, <2>6
    <3>. HIDE DEF before, new, end
    <3>3. (before \o new) \o end = before \o (new \o end)
      BY <3>1, BytesAssociative, Zenon
    <3>. QED  BY <2>3, <3>2, <3>3
  <2>. QED  BY <1>k, <2>1, <2>2, <2>7
<1>11. CASE WriteFails
  BY <1>11 DEF WriteFails, Fail
<1>12. CASE UNCHANGED cliVars
  <2>1. UNCHANGED <<pc, consumed, buffer, count, output, detections, given, command>>
    BY <1>12 DEF cliVars, reader, run, loop
  <2>2. Taken' = Taken
    BY <2>1 DEF Taken
  <2>. QED  BY <1>k, <2>1, <2>2
<1>. QED  BY <1>1, <1>2, <1>3, <1>4, <1>5, <1>6, <1>7, <1>8, <1>9, <1>10, <1>11, <1>12
          DEF CliNext, Works, Stops

\* While it runs, the command has written the first lines, redacted, and maybe
\* the content of one more.
LEMMA OutputStands ==
    ASSUME EngineAnswers, EngineReports, IInv, CliInv, Kept, Progress, pc # "over"
    PROVE  OutputIsRedaction
<1>1. given \in Seq(Byte) /\ Taken \in Nat
  <2>1. pc = "line" => Len(buffer) \in Nat /\ Len(buffer) <= consumed
    BY LenProperties DEF IInv, TypeOK, Gathered
  <2>. QED  BY <2>1 DEF Kept, IInv, TypeOK, Taken
<1>2. LinesTo(given, Taken) \in 0 .. Len(LinesOf(given)) /\ Len(LinesOf(given)) \in Nat
  BY <1>1, LinesFacts, LenProperties
<1>3. CASE same_file \/ command # "redact"
  <2>1. output = RedactedTo(given, 0) /\ 0 <= Len(LinesOf(given))
    BY <1>1, <1>2, <1>3, RedactedFacts DEF Kept
  <2>. QED  BY <1>1, <2>1, WrittenSoFar DEF OutputIsRedaction
<1>4. CASE ~same_file /\ command = "redact"
  <2>1. CASE pc # "ending"
    <3>1. output = RedactedTo(given, count) /\ count \in Nat /\ count <= Len(LinesOf(given))
      BY <1>2, <1>4, <2>1 DEF Progress
    <3>. QED  BY <1>1, <3>1, WrittenSoFar DEF OutputIsRedaction
  <2>2. CASE pc = "ending"
    <3>. DEFINE n == count - 1
    <3>1. n \in Nat /\ n < Len(LinesOf(given)) /\ n + 1 = count
      BY <1>2, <1>4, <2>2 DEF Progress
    <3>2. /\ LinesOf(given)[count] = buffer
          /\ output = RedactedTo(given, n) \o RedactLine(Content(buffer))
      BY <1>4, <2>2 DEF Progress
    <3>3. RedactLine(Content(buffer)) \in Seq(Byte) /\ Ending(buffer) \in Seq(Byte)
      BY ContentFacts DEF IInv, TypeOK
    <3>. HIDE DEF n
    <3>4. IsPrefix(RedactedTo(given, n) \o RedactLine(Content(buffer)), RedactionOf(given))
      BY <1>1, <3>1, <3>2, <3>3, WrittenInLine
    <3>. QED  BY <3>2, <3>4 DEF OutputIsRedaction
  <2>. QED  BY <2>1, <2>2
<1>. QED  BY <1>3, <1>4

\* A part of a text comes out, and the rest of the line does not.
LEMMA PartAndRest ==
    ASSUME NEW s \in Seq(Byte), NEW n \in 0 .. Len(s)
    PROVE  /\ SubSeq(s, 1, n) \in Seq(Byte) /\ After(s, n) \in Seq(Byte)
           /\ SubSeq(s, 1, n) \o After(s, n) = s
<1>1. After(s, n) \in Seq(Byte) /\ SubSeq(s, 1, n) \o After(s, n) = s
  BY AfterIsText, TextIsItsParts
<1>2. Len(s) \in Nat
  BY LenProperties
<1>3. 1 \in 1 .. Len(s) + 1 /\ n \in 1 - 1 .. Len(s)
  BY <1>2
<1>4. SubSeq(s, 1, n) \in Seq(Byte)
  BY <1>3, PartIsText
<1>. QED  BY <1>1, <1>4

LEMMA FailedWriteIsPrefix ==
    ASSUME EngineAnswers, EngineReports, IInv, CliInv, Kept, Progress, WriteFails
    PROVE  IsPrefix(output', RedactionOf(given))
<1>. DEFINE new == RedactLine(Content(buffer))
            end == Ending(buffer)
            bytes == IF pc = "ending" THEN end ELSE new
<1>1. PICK k \in 0 .. Len(bytes) - 1 : output' = output \o SubSeq(bytes, 1, k)
  BY DEF WriteFails
<1>2. /\ ~same_file /\ command = "redact" /\ pc # "over"
      /\ pc = "ending" \/ (pc = "line" /\ status = "line")
  BY LineNeedsText DEF WriteFails, GotLine, CliInv
<1>3. /\ new \in Seq(Byte) /\ end \in Seq(Byte) /\ Len(new) \in Nat /\ Len(end) \in Nat
      /\ given \in Seq(Byte)
  BY ContentFacts, LenProperties DEF IInv, TypeOK, Kept
<1>4. k \in 0 .. Len(bytes)
  BY <1>1, <1>3
<1>. DEFINE part == SubSeq(bytes, 1, k)
            left == After(bytes, k)
<1>5. part \in Seq(Byte) /\ left \in Seq(Byte) /\ part \o left = bytes
  BY <1>3, <1>4, PartAndRest
<1>. HIDE DEF part, left
<1>6. CASE pc = "ending"
  <2>. DEFINE n == count - 1
  <2>1. n \in Nat /\ n < Len(LinesOf(given)) /\ n + 1 = count
    <3>1. Taken \in Nat /\ count \in Nat
      BY <1>6 DEF IInv, TypeOK, Taken, Kept
    <3>2. LinesTo(given, Taken) \in 0 .. Len(LinesOf(given)) /\ Len(LinesOf(given)) \in Nat
      BY <1>3, <3>1, LinesFacts, LenProperties
    <3>. QED  BY <1>2, <1>6, <3>1, <3>2 DEF Progress
  <2>2. /\ LinesOf(given)[n + 1] = buffer
        /\ output = RedactedTo(given, n) \o new
    BY <1>2, <1>6, <2>1 DEF Progress
  <2>. HIDE DEF n, new, end
  <2>3. RedactedTo(given, n) \in Seq(Byte)
    BY <1>3, <2>1, WrittenSoFar
  <2>. DEFINE before == RedactedTo(given, n)
  <2>4. new \o part \in Seq(Byte) /\ (new \o part) \o left = new \o end
        /\ output' = before \o (new \o part)
    <3>1. /\ before \in Seq(Byte) /\ output = before \o new
          /\ part \o left = end /\ output' = output \o part
      BY <1>1, <1>5, <1>6, <2>2, <2>3 DEF part
    <3>. HIDE DEF before
    <3>2. new \in Seq(Byte) /\ part \in Seq(Byte) /\ left \in Seq(Byte)
      BY <1>3, <1>5
    <3>3. (new \o part) \o left = new \o (part \o left)
      BY <3>2, BytesAssociative, Zenon
    <3>4. (before \o new) \o part = before \o (new \o part)
      BY <3>1, <3>2, BytesAssociative, Zenon
    <3>5. new \o part \in Seq(Byte)
      BY <3>2, BytesTogether, Zenon
    <3>. QED  BY <3>1, <3>3, <3>4, <3>5
  <2>. DEFINE both == new \o part
  <2>. HIDE DEF both
  <2>5. /\ both \in Seq(Byte) /\ output' = RedactedTo(given, n) \o both
        /\ LET l == LinesOf(given)[n + 1]
           IN  both \o left = RedactLine(Content(l)) \o Ending(l)
    BY <2>2, <2>4 DEF both, new, end
  <2>6. IsPrefix(RedactedTo(given, n) \o both, RedactionOf(given))
    BY <1>3, <1>5, <2>1, <2>5, WrittenInLine
  <2>. QED  BY <2>5, <2>6
<1>7. CASE pc # "ending"
  <2>1. /\ count \in Nat /\ count < Len(LinesOf(given)) /\ LinesOf(given)[count + 1] = buffer
        /\ output = RedactedTo(given, count)
    BY <1>2, <1>7, LineIsNext DEF Progress
  <2>. DEFINE rest == left \o end
  <2>2. rest \in Seq(Byte) /\ part \o rest = new \o end
    <3>1. part \o left = new
      BY <1>5, <1>7
    <3>. HIDE DEF new, end
    <3>2. part \in Seq(Byte) /\ left \in Seq(Byte) /\ end \in Seq(Byte)
      BY <1>3, <1>5
    <3>3. (part \o left) \o end = part \o (left \o end)
      BY <3>2, BytesAssociative, Zenon
    <3>4. left \o end \in Seq(Byte)
      BY <3>2, BytesTogether, Zenon
    <3>. QED  BY <3>1, <3>3, <3>4
  <2>. HIDE DEF rest
  <2>3. LET l == LinesOf(given)[count + 1]
        IN  part \o rest = RedactLine(Content(l)) \o Ending(l)
    BY <2>1, <2>2
  <2>4. IsPrefix(RedactedTo(given, count) \o part, RedactionOf(given))
    BY <1>3, <1>5, <2>1, <2>2, <2>3, WrittenInLine
  <2>5. output' = RedactedTo(given, count) \o part
    BY <1>1, <2>1 DEF part
  <2>. QED  BY <2>4, <2>5
<1>. QED  BY <1>6, <1>7

\* The report is made when the input is at its end or the limit is reached.
LEMMA ReportNext ==
    ASSUME EngineAnswers, EngineReports, IInv, CliInv, Kept, Progress, ReportCoversSample,
           [CliNext]_cliVars
    PROVE  ReportCoversSample'
<1>. DEFINE lines == Len(LinesOf(given))
            sample == IF sample_limit = 0 \/ lines <= sample_limit THEN lines ELSE sample_limit
<1>r. ASSUME command' # "redact", pc' = "finish", pc # "finish"
      PROVE  /\ pc \in {"line", "ahead"} /\ UNCHANGED <<reader, run, count, detections>>
             /\ Limited \/ EndOfInput
  BY <1>r DEF CliNext, Works, Open, NextLine, LookAhead, Read, ReadError, Limited, EndOfInput,
         InputFails, BadLine, ScanLine, WriteContent, WriteEnding, Writes, WriteFails,
         OpenFails, FinishFails, Killed, Finish, GotLine, Fail, cliVars, loop, run
<1>1. CASE command' # "redact" /\ pc' = "finish" /\ pc # "finish"
  <2>1. /\ UNCHANGED <<given, sample_limit, command, count, detections>>
        /\ command # "redact" /\ ~same_file
    BY <1>1, <1>r DEF run, CliInv
  <2>2. /\ given \in Seq(Byte) /\ text = given /\ sample_limit \in Nat /\ count \in Nat
        /\ Len(given) \in Nat /\ consumed \in 0 .. Len(given)
    <3>1. Len(text) \in Nat /\ fetched \in 0 .. Len(text) /\ consumed \in 0 .. fetched
      BY LenProperties DEF IInv, TypeOK
    <3>. QED  BY <1>1, <1>r, <2>1, <3>1 DEF Kept
  <2>3. /\ lines \in Nat /\ LinesTo(given, Len(given)) = lines
        /\ Len(given) \in {0} \cup LineEnds(given)
    BY <2>2, LinesFacts, LenProperties
  <2>4. detections = DetectionsIn(given, count) /\ count = LinesTo(given, Taken)
        /\ Taken \in {0} \cup LineEnds(given)
    BY <1>1, <1>r, <2>1 DEF Progress
  <2>5. truncated = FALSE
    BY <1>1, <1>r DEF Kept
  <2>6. buffer = << >> /\ Len(<< >>) = 0 /\ consumed - 0 = consumed /\ Taken = consumed
    <3>1. status \in {"more", "end"}
      BY <1>1, <1>r DEF Limited, EndOfInput
    <3>2. buffer = << >>
      BY <3>1 DEF IInv, Gathered
    <3>. QED  BY <2>2, <3>2, EmptySeq DEF Taken
  <2>7. CASE consumed = Len(given)
    <3>1. count = lines
      BY <2>3, <2>4, <2>6, <2>7
    <3>2. sample = lines
      <4>1. sample_limit > 0 => count <= sample_limit
        BY <2>1 DEF Kept
      <4>. QED  BY <2>2, <2>3, <3>1, <4>1
    <3>3. truncated' = FALSE
      <4>1. CASE EndOfInput
        BY <2>5, <4>1 DEF EndOfInput
      <4>2. CASE Limited
        <5>1. status # "more"
          BY <2>2, <2>7 DEF Kept
        <5>. QED  BY <4>2, <5>1 DEF Limited
      <4>. QED  BY <1>1, <1>r, <4>1, <4>2
    <3>. HIDE DEF lines
    <3>. QED  BY <2>1, <2>3, <2>4, <3>1, <3>2, <3>3 DEF ReportCoversSample, lines
  <2>8. CASE consumed # Len(given)
    <3>1. Limited /\ status = "more" /\ pc = "ahead"
      <4>1. status # "end"
        BY <2>2, <2>8 DEF CliInv
      <4>. QED  BY <1>1, <1>r, <4>1 DEF EndOfInput, Limited
    <3>2. count = sample_limit /\ sample_limit > 0 /\ truncated' = TRUE
      <4>1. sample_limit > 0 /\ count >= sample_limit /\ count <= sample_limit
        BY <2>1, <3>1 DEF Kept, AtLimit
      <4>2. truncated' = TRUE
        BY <3>1 DEF Limited
      <4>. QED  BY <2>2, <4>1, <4>2
    <3>3. count < lines
      <4>1. /\ consumed \in Nat /\ Len(given) \in Nat /\ consumed <= Len(given)
            /\ consumed < Len(given) /\ Len(given) \in LineEnds(given)
        BY <2>2, <2>3, <2>8
      <4>2. LinesTo(given, consumed) < LinesTo(given, Len(given))
        <5>1. Len(given) \in LineEnds(given) /\ Len(given) <= Len(given)
          BY <4>1
        <5>. QED  BY <2>2, <4>1, <5>1, LinesToGrows
      <4>. QED  BY <2>3, <2>4, <2>6, <4>2
    <3>4. sample = sample_limit /\ sample < lines
      BY <2>2, <2>3, <3>2, <3>3
    <3>. HIDE DEF lines
    <3>. QED  BY <2>1, <2>4, <3>2, <3>4 DEF ReportCoversSample, lines
  <2>. QED  BY <2>7, <2>8
<1>2. CASE command' = "redact" \/ pc' # "finish"
  BY <1>2 DEF ReportCoversSample
<1>3. CASE pc = "finish"
  <2>1. pc' = "over" \/ UNCHANGED cliVars
    BY <1>3 DEF CliNext, Works, Open, NextLine, LookAhead, Read, ReadError, Limited,
           EndOfInput, InputFails, BadLine, ScanLine, WriteContent, WriteEnding, Writes,
           WriteFails, OpenFails, FinishFails, Killed, Finish, GotLine, Fail, cliVars, loop, run
  <2>2. CASE UNCHANGED cliVars
    <3>1. UNCHANGED <<command, pc, given, sample_limit, count, detections, truncated>>
      BY <2>2 DEF cliVars, run, loop
    <3>. QED  BY <3>1 DEF ReportCoversSample
  <2>. QED  BY <2>1, <2>2 DEF ReportCoversSample
<1>. QED  BY <1>1, <1>2, <1>3

\* What is left when the command is over.
LEMMA ResultsNext ==
    ASSUME EngineAnswers, EngineReports, IInv, CliInv, Kept, Progress, Results,
           [CliNext]_cliVars
    PROVE  Results'
<1>1. ReportCoversSample'
  BY ReportNext DEF Results
<1>2. CASE pc = "over"
  <2>1. UNCHANGED <<pc, exit, output, given, command, same_file, truncated>>
    BY <1>2 DEF CliNext, Works, Open, NextLine, LookAhead, Read, ReadError, Limited,
           EndOfInput, InputFails, BadLine, ScanLine, WriteContent, WriteEnding, Writes,
           WriteFails, OpenFails, FinishFails, Killed, Finish, GotLine, Fail, cliVars, loop, run
  <2>. QED  BY <1>1, <1>2, <2>1 DEF Results, OutputIsRedaction, SuccessIsWhole, PassIsClean
<1>3. CASE pc # "over" /\ pc' = "over"
  <2>1. given' = given
    BY DEF CliNext, Works, Open, NextLine, LookAhead, Read, ReadError, Limited, EndOfInput,
           InputFails, BadLine, ScanLine, WriteContent, WriteEnding, Writes, WriteFails,
           OpenFails, FinishFails, Killed, Finish, GotLine, Fail, cliVars, loop, run
  <2>2. CASE Stops
    <3>1. UNCHANGED <<output, command, same_file, truncated, detections>>
          /\ (exit' = "ok" => Finish)
      BY <2>2, StopsQuietly DEF run
    <3>2. OutputIsRedaction'
      BY <1>3, <2>1, <3>1, OutputStands DEF OutputIsRedaction
    <3>3. SuccessIsWhole'
      <4>. SUFFICES ASSUME command = "redact", exit' = "ok", ~same_file
                    PROVE  output' = RedactionOf(given)
        BY <2>1, <3>1 DEF SuccessIsWhole
      <4>1. pc = "finish" /\ consumed = Len(text) /\ text = given /\ given \in Seq(Byte)
        BY <3>1 DEF Finish, CliInv, Kept
      <4>2. output = RedactedTo(given, LinesTo(given, Len(given)))
        BY <4>1 DEF Progress, Taken
      <4>. QED  BY <3>1, <4>1, <4>2, LinesFacts, RedactedFacts
    <3>4. PassIsClean'
      <4>. SUFFICES ASSUME command = "assert", exit' = "ok", truncated = FALSE
                    PROVE  DetectionsIn(given, Len(LinesOf(given))) = 0
        BY <2>1, <3>1 DEF PassIsClean, Kept
      <4>1. pc = "finish" /\ ~(detections > 0)
        BY <3>1 DEF Finish
      <4>2. detections = 0
        BY <4>1, MaxU64Assumption DEF Kept, U64
      <4>3. sample_limit \in Nat /\ Len(LinesOf(given)) \in Nat
        BY LinesFacts, LenProperties DEF Kept
      <4>. DEFINE lines == Len(LinesOf(given))
                  sample == IF sample_limit = 0 \/ lines <= sample_limit THEN lines
                                                                    ELSE sample_limit
      <4>4. detections = DetectionsIn(given, sample) /\ ~(sample < lines)
        BY <4>1 DEF Results, ReportCoversSample
      <4>5. sample = lines
        BY <4>3, <4>4
      <4>. QED  BY <4>2, <4>4, <4>5
    <3>. QED  BY <1>1, <3>2, <3>3, <3>4 DEF Results
  <2>3. CASE WriteFails
    <3>1. exit' = "failed"
      BY <2>3 DEF WriteFails, Fail
    <3>2. OutputIsRedaction'
      BY <2>1, <2>3, FailedWriteIsPrefix DEF OutputIsRedaction
    <3>. QED  BY <1>1, <3>1, <3>2 DEF Results, SuccessIsWhole, PassIsClean
  <2>. QED
    BY <1>3, <2>2, <2>3 DEF Stops, CliNext, Works, Open, NextLine, LookAhead, Read,
       ReadError, Limited, EndOfInput, ScanLine, WriteContent, WriteEnding, Writes, loop, cliVars
<1>4. CASE pc' # "over"
  BY <1>1, <1>4 DEF Results
<1>. QED  BY <1>2, <1>3, <1>4

-----------------------------------------------------------------------------
CliAll == IInv /\ CliInv /\ Kept /\ Progress /\ Results

LEMMA CliKeepsAll ==
    ASSUME EngineAnswers, EngineReports PROVE CliSpec => []CliAll
<1>1. CliInit => CliAll
  BY CliInitInv, CliInitKept DEF CliAll
<1>2. CliAll /\ [CliNext]_cliVars => CliAll'
  BY CliKeepsIInv, CliKeepsCliInv, KeptNext, ProgressNext, ResultsNext DEF CliAll
<1>. QED  BY <1>1, <1>2, PTL DEF CliSpec

\* The type invariant of the commands: the lines counted are lines of the input
\* and no more than the sample, and the report's total is a counter.
THEOREM CliAlwaysTypeOK ==
    ASSUME EngineAnswers, EngineReports PROVE CliSpec => []CliTypeOK
<1>1. CliAll => CliTypeOK
  BY DEF CliAll, IInv, CliInv, Kept, CliTypeOK
<1>. QED  BY <1>1, CliKeepsAll, PTL

\* Whenever redact is stopped, by a signal or a full disk too, its output is a
\* prefix of its input redacted line by line: nothing of the input is ever
\* written that redact_line has not been over.
THEOREM OutputAlwaysRedaction ==
    ASSUME EngineAnswers, EngineReports PROVE CliSpec => []OutputIsRedaction
<1>1. CliAll => OutputIsRedaction
  BY OutputStands DEF CliAll, Results
<1>. QED  BY <1>1, CliKeepsAll, PTL

\* redact exits with 0 only when it has written all of its input, redacted.
THEOREM SuccessAlwaysWhole ==
    ASSUME EngineAnswers, EngineReports PROVE CliSpec => []SuccessIsWhole
<1>1. CliAll => SuccessIsWhole
  BY DEF CliAll, CliInv, Results, SuccessIsWhole
<1>. QED  BY <1>1, CliKeepsAll, PTL

\* The report scan and assert print covers the first sample_limit lines, and is
\* truncated exactly when more are left.
THEOREM ReportAlwaysCoversSample ==
    ASSUME EngineAnswers, EngineReports PROVE CliSpec => []ReportCoversSample
<1>1. CliAll => ReportCoversSample
  BY DEF CliAll, Results
<1>. QED  BY <1>1, CliKeepsAll, PTL

\* assert passes a whole input only when no line has anything to report: a
\* total that saturates does not come back to 0.
THEOREM PassAlwaysClean ==
    ASSUME EngineAnswers, EngineReports PROVE CliSpec => []PassIsClean
<1>1. CliAll => PassIsClean
  BY DEF CliAll, CliInv, Results, PassIsClean
<1>. QED  BY <1>1, CliKeepsAll, PTL
=============================================================================
