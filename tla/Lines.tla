-------------------------------- MODULE Lines --------------------------------
(***************************************************************************)
(* The lines of a text and what the two copies of split_line_ending make   *)
(* of one: \n or \r\n ends a line, only the last may lack its ending.      *)
(***************************************************************************)
EXTENDS Integers, Sequences, FiniteSets

CONSTANTS Newline, Carriage,     \* the bytes \n and \r
          Whitespace             \* the bytes str::trim removes

\* The first line of a text has n bytes.
IsFirstLine(text, n) == /\ n \in 1 .. Len(text)
                        /\ \A k \in 1 .. n - 1 : text[k] # Newline
                        /\ text[n] = Newline \/ n = Len(text)

After(text, n) == SubSeq(text, n + 1, Len(text))

EndingLength(l) ==
    LET n == Len(l)
    IN  CASE n >= 2 /\ l[n] = Newline /\ l[n - 1] = Carriage -> 2
          [] n >= 1 /\ l[n] = Newline /\ ~(n >= 2 /\ l[n - 1] = Carriage) -> 1
          [] OTHER -> 0

Content(l) == SubSeq(l, 1, Len(l) - EndingLength(l))
Ending(l) == SubSeq(l, Len(l) - EndingLength(l) + 1, Len(l))

Blank(content) == \A i \in DOMAIN content : content[i] \in Whitespace

\* Where a line ends, and how many have ended by position n.
LineEnds(text) == {i \in DOMAIN text : text[i] = Newline \/ i = Len(text)}
LinesTo(text, n) == Cardinality({i \in LineEnds(text) : i <= n})

\* The lines of a text, each with its ending: line j goes from where the lines
\* ended are j - 1 to where they are j.
EndOf(text, j) == CHOOSE e \in {0} \cup LineEnds(text) : LinesTo(text, e) = j
LinesOf(text) == [j \in 1 .. Cardinality(LineEnds(text)) |->
                     SubSeq(text, EndOf(text, j - 1) + 1, EndOf(text, j))]
=============================================================================
