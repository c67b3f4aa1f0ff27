---------------------------- MODULE LineRedaction ----------------------------
(***************************************************************************)
(* What privacy-proxy promises of line-delimited logs, on the command line *)
(* and in a request's body: each line is redacted by itself, as the JSON   *)
(* value it is or else as a text, keeps its ending, and comes out in its   *)
(* place; blank lines stay.  The output is complete only when the input is *)
(* used up; whatever else happens, what there is of it is redacted.        *)
(***************************************************************************)
EXTENDS Lines

CONSTANTS Byte,
          Json(_),        \* a text is one JSON value
          OfValue(_),     \* what redact_value makes of it, serialized
          OfText(_)       \* what redact_str makes of a text

VARIABLES rest,       \* the lines not yet redacted
          due,        \* what is still to come out of the line redacted last
          output,
          outcome

vars == <<rest, due, output, outcome>>

Init == /\ rest \in Seq(Byte)
        /\ due = << >> /\ output = << >>
        /\ outcome = "working"

RedactedContent(c) ==
    IF Blank(c) THEN c ELSE IF Json(c) THEN OfValue(c) ELSE OfText(c)

RedactedLine(l) == RedactedContent(Content(l)) \o Ending(l)

\* k bytes of s come out.
Emits(s, k) == output' = output \o SubSeq(s, 1, k)

RedactNext ==
    /\ outcome = "working" /\ due = << >>
    /\ \E n \in 1 .. Len(rest) :
          /\ IsFirstLine(rest, n)
          /\ LET new == RedactedLine(SubSeq(rest, 1, n))
             IN  \E k \in 0 .. Len(new) : Emits(new, k) /\ due' = After(new, k)
          /\ rest' = After(rest, n)
    /\ UNCHANGED outcome

Emit == /\ outcome = "working"
        /\ \E k \in 1 .. Len(due) : Emits(due, k) /\ due' = After(due, k)
        /\ UNCHANGED <<rest, outcome>>

\* A line, or the rest of one, may come out in part when all else is given up.
GiveUp ==
    /\ outcome = "working" /\ outcome' = "failed"
    /\ rest' = << >> /\ due' = << >>
    /\ \/ UNCHANGED output
       \/ \E k \in 1 .. Len(due) : Emits(due, k)
       \/ /\ due = << >>
          /\ \E n \in 1 .. Len(rest) :
                /\ IsFirstLine(rest, n)
                /\ LET new == RedactedLine(SubSeq(rest, 1, n))
                   IN  \E k \in 1 .. Len(new) : Emits(new, k)

Finish == /\ outcome = "working" /\ outcome' = "done"
          /\ rest = << >> /\ due = << >>
          /\ UNCHANGED <<rest, due, output>>

Next == RedactNext \/ Emit \/ GiveUp \/ Finish

Spec == Init /\ [][Next]_vars
=============================================================================
