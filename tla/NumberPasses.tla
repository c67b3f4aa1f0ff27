---------------------------- MODULE NumberPasses -----------------------------
(***************************************************************************)
(* The last two passes of redact_str_with_policy in                        *)
(* crates/privacy_proxy_core/src/engine.rs, the ones that compute: IBANs   *)
(* and credit cards.  Engine takes what a pass finds as given; here a text *)
(* is its characters, and a pass is its loop over the pattern's matches,   *)
(* which may overlap what it has replaced.  The result is redacted again.  *)
(*                                                                         *)
(* A character is a number: a digit itself, a capital letter the value     *)
(* that mod 97 gives it, a small letter 100 more.  Left out: tabs and line *)
(* ends, digits and spaces of other scripts, and hash mode, whose mark has *)
(* word characters in it (Engine's WholeHashes run).                       *)
(***************************************************************************)
EXTENDS Integers, Sequences, FiniteSets, SequencesExt

CONSTANTS MinIban, MaxIban,      \* characters of an IBAN: 15 .. 34
          MinCard, MaxCard,      \* digits of a card: 13 .. 19
          Texts

Digit == 0 .. 9
Capital == 10 .. 35
Small == 110 .. 135
Space == 200
Dash == 201
Stop == 202             \* any other ASCII character
Accent == 203           \* a letter, but not of ASCII
Mark == 204             \* a replacement; it starts and ends with a bracket

Letter == Capital \cup Small
Alphanumeric == Digit \cup Letter
Word == Alphanumeric \cup {Accent}
Character == Word \cup {Space, Dash, Stop, Mark}

ASSUME RangesAssumption == /\ MinIban \in 5 .. MaxIban /\ MaxIban \in Nat
                           /\ MinCard \in 2 .. MaxCard /\ MaxCard \in Nat
ASSUME TextsAssumption == Texts \subseteq Seq(Character \ {Mark})

VARIABLES text,        \* what the pass was given
          round,       \* 1, or 2 when the result is redacted again
          pass, pc,
          from,        \* where the search for the next match resumes
          last_end,    \* how much of the text is in the output
          output,
          spans        \* what was replaced: [first |-> .., last |-> ..]

vars == <<text, round, pass, pc, from, last_end, output, spans>>

Init == /\ text \in Texts
        /\ round = 1 /\ pass = "iban" /\ pc = "scan"
        /\ from = 1 /\ last_end = 0 /\ output = << >> /\ spans = {}

\* \b before the i-th character.
Boundary(t, i) == (i > 1 /\ t[i - 1] \in Word) # (i <= Len(t) /\ t[i] \in Word)

Part(t, i, j) == SubSeq(t, i, j)

\* The characters that are in C.
Filtered(s, C) == FlattenSeq([i \in DOMAIN s |-> IF s[i] \in C THEN <<s[i]>> ELSE << >>])

-----------------------------------------------------------------------------
(* IBANs.                                                                   *)
Normalized(s) == LET solid == Filtered(s, Character \ {Space})
                 IN  [i \in DOMAIN solid |-> IF solid[i] \in Small THEN solid[i] - 100
                                                                   ELSE solid[i]]

\* Mutant: a letter goes in as one digit.
RemainderPlain(rem, c) == (rem * 10 + c) % 97

\* One turn of is_valid_iban's loop; a letter goes in as its two digits.
Remainder(rem, c) == IF c \in Digit THEN (rem * 10 + c) % 97
                     ELSE (((rem * 10 + (c \div 10)) % 97) * 10 + (c % 10)) % 97

Rearranged(n) == SubSeq(n, 5, Len(n)) \o SubSeq(n, 1, 4)

HasIbanShape(n) == /\ Len(n) \in MinIban .. MaxIban
                   /\ n[1] \in Capital /\ n[2] \in Capital
                   /\ n[3] \in Digit /\ n[4] \in Digit
                   /\ \A i \in DOMAIN n : n[i] \in Digit \cup Capital

IsValidIban(s) == LET n == Normalized(s)
                  IN  HasIbanShape(n) /\ FoldLeft(Remainder, 0, Rearranged(n)) = 1

\* Where the pattern \b[A-Z]{2}\d{2} matches.
IbanStart(t, i) == /\ i + 3 <= Len(t) /\ Boundary(t, i)
                   /\ t[i] \in Letter /\ t[i + 1] \in Letter
                   /\ t[i + 2] \in Digit /\ t[i + 3] \in Digit

\* Where valid_iban_span may stop: short of any other character, of the
\* MaxIban-th that counts, and after one that does.
IbanEnds(t, i) ==
    {j \in i .. Len(t) :
        /\ \A k \in i .. j : t[k] \in Alphanumeric \cup {Space}
        /\ t[j] \in Alphanumeric
        /\ Cardinality({k \in i .. j : t[k] \in Alphanumeric}) \in MinIban .. MaxIban
        /\ IsValidIban(Part(t, i, j))}

\* Mutant: the first prefix that is valid is taken.
FirstIbanSpan(t, i) == IF IbanEnds(t, i) = {} THEN {} ELSE {Min(IbanEnds(t, i))}

\* valid_iban_span keeps the last: the set of that, or of none.
ValidIbanSpan(t, i) == IF IbanEnds(t, i) = {} THEN {} ELSE {Max(IbanEnds(t, i))}

-----------------------------------------------------------------------------
(* Credit cards.                                                            *)
DigitsOnly(s) == Filtered(s, Digit)

IsSeparator(t, k) == t[k] \in {Space, Dash} /\ t[k - 1] \in Digit /\ t[k + 1] \in Digit

\* Where \b\d(?:[ -]?\d){12,18}\b may stop that starts at i.
CardEnds(t, i) ==
    {j \in i .. Len(t) :
        /\ t[i] \in Digit /\ t[j] \in Digit
        /\ \A k \in i + 1 .. j - 1 : t[k] \in Digit \/ IsSeparator(t, k)
        /\ Len(DigitsOnly(Part(t, i, j))) \in MinCard .. MaxCard
        /\ Boundary(t, i) /\ Boundary(t, j + 1)}

CardStart(t, i) == CardEnds(t, i) # {}

\* Mutant: the digits are doubled from the left.
LuhnFromLeft(digits) ==
    LET turn(acc, d) == [sum |-> acc.sum + (IF ~acc.double THEN d
                                            ELSE IF 2 * d > 9 THEN 2 * d - 9 ELSE 2 * d),
                         double |-> ~acc.double]
    IN  FoldLeft(turn, [sum |-> 0, double |-> FALSE], digits).sum % 10 = 0

\* Mutant: a doubled digit keeps its tens.
LuhnKeepsTens(digits) ==
    LET turn(acc, d) == [sum |-> acc.sum + (IF acc.double THEN 2 * d ELSE d),
                         double |-> ~acc.double]
    IN  FoldLeft(turn, [sum |-> 0, double |-> FALSE], Reverse(digits)).sum % 10 = 0

IsLuhnValid(digits) ==
    LET turn(acc, d) == [sum |-> acc.sum + (IF ~acc.double THEN d
                                            ELSE IF 2 * d > 9 THEN 2 * d - 9 ELSE 2 * d),
                         double |-> ~acc.double]
    IN  FoldLeft(turn, [sum |-> 0, double |-> FALSE], Reverse(digits)).sum % 10 = 0

-----------------------------------------------------------------------------
(* The loops.                                                               *)
Matches(i) == IF pass = "iban" THEN IbanStart(text, i) ELSE CardStart(text, i)

\* The next match of find_iter or captures_iter starts at i.
IsNext(i) == Matches(i) /\ \A h \in from .. i - 1 : ~Matches(h)

\* It goes on after the match: the four characters, or the digits.
ResumeAfter(i) == IF pass = "iban" THEN i + 4 ELSE Max(CardEnds(text, i)) + 1

\* How far the replacement goes that a match at i gets, if it gets one.
Replaces(i) ==
    IF pass = "iban" THEN ValidIbanSpan(text, i)
    ELSE LET j == Max(CardEnds(text, i))
         IN  IF IsLuhnValid(DigitsOnly(Part(text, i, j))) THEN {j} ELSE {}

\* Mutant: a match inside what has been replaced is not skipped.
ReplaceAnyway == \E i \in from .. Len(text) :
    /\ pc = "scan" /\ IsNext(i)
    /\ \E j \in Replaces(i) :
          /\ output' = Append(output \o Part(text, last_end + 1, i - 1), Mark)
          /\ last_end' = j
          /\ spans' = spans \cup {[first |-> i, last |-> j]}
    /\ from' = ResumeAfter(i)
    /\ UNCHANGED <<text, round, pass, pc>>

\* Mutant: only the first match is replaced, as replace does for replace_all.
ReplaceFirst == \E i \in from .. Len(text) :
    /\ pc = "scan" /\ IsNext(i)
    /\ i > last_end
    /\ \E j \in Replaces(i) :
          /\ output' = Append(output \o Part(text, last_end + 1, i - 1), Mark)
          /\ last_end' = j
          /\ spans' = spans \cup {[first |-> i, last |-> j]}
    /\ from' = Len(text) + 1
    /\ UNCHANGED <<text, round, pass, pc>>

ReplaceMatch == \E i \in from .. Len(text) :
    /\ pc = "scan" /\ IsNext(i)
    /\ i > last_end
    /\ \E j \in Replaces(i) :
          /\ output' = Append(output \o Part(text, last_end + 1, i - 1), Mark)
          /\ last_end' = j
          /\ spans' = spans \cup {[first |-> i, last |-> j]}
    /\ from' = ResumeAfter(i)
    /\ UNCHANGED <<text, round, pass, pc>>

SkipMatch == \E i \in from .. Len(text) :
    /\ pc = "scan" /\ IsNext(i)
    /\ i <= last_end \/ Replaces(i) = {}
    /\ from' = ResumeAfter(i)
    /\ UNCHANGED <<text, round, pass, pc, last_end, output, spans>>

\* The rest of the text is copied.
EndPass == /\ pc = "scan" /\ \A i \in from .. Len(text) : ~IsNext(i)
           /\ output' = output \o Part(text, last_end + 1, Len(text))
           /\ pc' = "end"
           /\ UNCHANGED <<text, round, pass, from, last_end, spans>>

\* The cards follow the IBANs; then all of it once more.
NextPass == /\ pc = "end" /\ ~(round = 2 /\ pass = "credit_card")
            /\ pass' = IF pass = "iban" THEN "credit_card" ELSE "iban"
            /\ round' = IF pass = "iban" THEN round ELSE 2
            /\ text' = output
            /\ pc' = "scan"
            /\ from' = 1 /\ last_end' = 0 /\ output' = << >> /\ spans' = {}

Next == ReplaceMatch \/ SkipMatch \/ EndPass \/ NextPass

Spec == Init /\ [][Next]_vars

-----------------------------------------------------------------------------
Covers(span, i) == span.first <= i /\ i <= span.last

\* Whatever matches overlap: a pass changes nothing but the spans it replaces,
\* each of them by one mark, and no two of them meet.
OnlySpansChange ==
    pc = "end" =>
       /\ \A s, r \in spans : s # r => s.last < r.first \/ r.last < s.first
       /\ output = FlattenSeq([i \in DOMAIN text |->
                                IF \E s \in spans : s.first = i THEN <<Mark>>
                                ELSE IF \E s \in spans : Covers(s, i) THEN << >>
                                ELSE <<text[i]>>])

\* ISO 13616: the number that the characters write is 1 modulo 97.
Number(n) == FoldLeft(LAMBDA sum, c : IF c \in Digit THEN 10 * sum + c ELSE 100 * sum + c, 0, n)

IbanAt(i, j) == /\ IbanStart(text, i) /\ text[j] \in Alphanumeric
                /\ \A k \in i .. j : text[k] \in Alphanumeric \cup {Space}
                /\ LET n == Normalized(Part(text, i, j))
                   IN  HasIbanShape(n) /\ Number(Rearranged(n)) % 97 = 1

\* README.md:198: an IBAN that starts a word, spaced or not, large or small, is
\* hidden from its first character on, and to its last unless it starts inside
\* another span.
IbansHidden ==
    pass = "iban" /\ pc = "end" =>
       \A i, j \in DOMAIN text : i < j /\ IbanAt(i, j) =>
          \E s \in spans : Covers(s, i) /\ (s.first = i => j <= s.last)

\* ISO 7812: of the digits, counted from the right, every second one doubled.
CheckSum(d) == SumFunction([i \in DOMAIN d |->
                              IF (Len(d) - i) % 2 = 0 THEN d[i]
                              ELSE <<0, 2, 4, 6, 8, 1, 3, 5, 7, 9>>[d[i] + 1]])

\* A run of digits, single separators allowed, that no other digit adjoins.
DigitRun(i, j) ==
    /\ text[i] \in Digit /\ text[j] \in Digit
    /\ Boundary(text, i) /\ Boundary(text, j + 1)
    /\ \A k \in i + 1 .. j - 1 : text[k] \in Digit \/ IsSeparator(text, k)
    /\ ~(i > 2 /\ IsSeparator(text, i - 1))
    /\ ~(j + 1 < Len(text) /\ IsSeparator(text, j + 1))

\* README.md:197: a card number by itself is hidden whole.
CardsHidden ==
    pass = "credit_card" /\ pc = "end" =>
       \A i, j \in DOMAIN text :
          /\ i < j /\ DigitRun(i, j)
          /\ Len(DigitsOnly(Part(text, i, j))) \in MinCard .. MaxCard
          /\ CheckSum(DigitsOnly(Part(text, i, j))) % 10 = 0
          => [first |-> i, last |-> j] \in spans

\* What is taken for an IBAN or a card is not so by accident of one digit: no
\* other digit in its place would do.
MistypedDigitsShow ==
    \A s \in spans, i \in DOMAIN text, d \in Digit :
       Covers(s, i) /\ text[i] \in Digit \ {d} =>
          LET typo == Part([text EXCEPT ![i] = d], s.first, s.last)
          IN  IF pass = "iban" THEN ~IsValidIban(typo) ELSE ~IsLuhnValid(DigitsOnly(typo))

\* properties.rs:44, with the exception the code makes: a second redaction only
\* finds what a mark has freed.  An IBAN right behind one, which no word boundary
\* set off before; and a card in the run of digits, blanks and dashes behind one,
\* not always the first of the run, as where one match ends decides where the next
\* is looked for.
AgainOnlyBehindMarks ==
    round = 2 =>
       \A s \in spans : \E k \in 1 .. s.first - 1 :
          /\ text[k] = Mark
          /\ \A h \in k + 1 .. s.first - 1 :
                pass = "credit_card" /\ text[h] \in Digit \cup {Space, Dash}
=============================================================================
