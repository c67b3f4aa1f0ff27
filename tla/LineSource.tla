----------------------------- MODULE LineSource -----------------------------
(***************************************************************************)
(* What the command line's input promises its loops: asked for a line, it  *)
(* hands out the next one whole, with its ending, unless the line is       *)
(* longer than max_line_bytes or the input cannot be read.  Only the last  *)
(* line may lack its ending.  Nothing is said of chunks or buffers.        *)
(***************************************************************************)
EXTENDS Integers, Sequences

CONSTANTS Byte, Newline, MaxLineBytes

VARIABLES text,      \* the input: a file's contents, or what a pipe will carry
          taken,     \* how much of it has been handed out
          line,      \* the line handed out last
          status     \* whose turn it is, and with what answer

vars == <<text, taken, line, status>>

Answers == {"line", "end", "too_long", "failed", "more"}

Init == /\ text \in Seq(Byte)
        /\ taken = 0
        /\ line = << >>
        /\ status = "idle"

\* The caller asks for a line, or whether anything is left.
Ask == /\ status \in {"idle", "line"}
       /\ line' = << >>
       /\ status' = "reading"
       /\ UNCHANGED <<text, taken>>

Peek == /\ status \in {"idle", "line"}
        /\ line' = << >>
        /\ status' = "peeking"
        /\ UNCHANGED <<text, taken>>

\* No line ends among the n bytes after the first i.
Unbroken(i, n) == \A k \in i + 1 .. i + n : text[k] # Newline

HandOut ==
    /\ status = "reading"
    /\ \E n \in 1 .. MaxLineBytes :
          /\ taken + n <= Len(text)
          /\ Unbroken(taken, n - 1)
          /\ text[taken + n] = Newline \/ taken + n = Len(text)
          /\ line' = SubSeq(text, taken + 1, taken + n)
          /\ taken' = taken + n
    /\ status' = "line"
    /\ UNCHANGED text

TooLong == /\ status = "reading"
           /\ taken + MaxLineBytes < Len(text)
           /\ Unbroken(taken, MaxLineBytes)
           /\ status' = "too_long"
           /\ UNCHANGED <<text, taken, line>>

AtEnd == /\ status \in {"reading", "peeking"}
         /\ taken = Len(text)
         /\ status' = "end"
         /\ UNCHANGED <<text, taken, line>>

SomeLeft == /\ status = "peeking"
            /\ taken < Len(text)
            /\ status' = "more"
            /\ UNCHANGED <<text, taken, line>>

Unreadable == /\ status \in {"reading", "peeking"}
              /\ status' = "failed"
              /\ UNCHANGED <<text, taken, line>>

\* Another program appends to the input while it is read.
Grow == /\ \E b \in Byte : text' = Append(text, b)
        /\ UNCHANGED <<taken, line, status>>

Next == Ask \/ Peek \/ HandOut \/ TooLong \/ AtEnd \/ SomeLeft \/ Unreadable \/ Grow

Spec == Init /\ [][Next]_vars
=============================================================================
