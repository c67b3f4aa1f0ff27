----------------------------- MODULE LineReader -----------------------------
(***************************************************************************)
(* read_limited_line of crates/privacy_proxy_cli/src/main.rs over a        *)
(* BufReader: the input arrives in chunks of any size, a line is gathered  *)
(* from as many chunks as it spans, and the limit is applied before a      *)
(* chunk's share is copied.  The input may grow while it is read, as a log *)
(* file does.                                                              *)
(***************************************************************************)
EXTENDS Lines

CONSTANTS Byte, MaxLineBytes,
          Capacity,     \* the BufReader's: the most one read may return
          MaxText       \* bound on the input's growth

ASSUME NewlineAssumption == Newline \in Byte
\* Config::validate refuses max_line_bytes = 0.
ASSUME MaxLineAssumption == MaxLineBytes \in Nat \ {0}
ASSUME CapacityAssumption == Capacity \in Nat \ {0}
ASSUME MaxTextAssumption == MaxText \in Nat

VARIABLES text,       \* the input
          fetched,    \* how much of it the BufReader has read so far
          consumed,   \* how much of that has been consumed
          buffer,     \* the line being gathered
          status      \* whose turn it is, and with what answer

vars == <<text, fetched, consumed, buffer, status>>

Init == /\ text \in UNION {[1 .. n -> Byte] : n \in 0 .. MaxText}
        /\ fetched = 0
        /\ consumed = 0
        /\ buffer = << >>
        /\ status = "idle"

\* read_limited_line is called: buffer.clear().
Ask == /\ status \in {"idle", "line"}
       /\ buffer' = << >>
       /\ status' = "reading"
       /\ UNCHANGED <<text, fetched, consumed>>

\* scan_jsonl calls fill_buf itself once sample_limit lines are scanned.  (The
\* last line stays in the buffer, but is not looked at again.)
Peek == /\ status \in {"idle", "line"}
        /\ buffer' = << >>
        /\ status' = "peeking"
        /\ UNCHANGED <<text, fetched, consumed>>

Waiting == status \in {"reading", "peeking"}

\* fill_buf finds the BufReader's buffer empty and reads: some bytes ...
Fetch == /\ Waiting
         /\ fetched = consumed
         /\ \E n \in 1 .. Capacity : /\ fetched + n <= Len(text)
                                     /\ fetched' = fetched + n
         /\ UNCHANGED <<text, consumed, buffer, status>>

\* Mutant: only a newline ends a line.
ExhaustedAfterLine == /\ Waiting
                      /\ fetched = consumed
                      /\ consumed = Len(text)
                      /\ buffer = << >>
                      /\ status' = "end"
                      /\ UNCHANGED <<text, fetched, consumed, buffer>>

\* ... or none, at the end of the input: what was gathered is the last line.
Exhausted == /\ Waiting
             /\ fetched = consumed
             /\ consumed = Len(text)
             /\ status' = IF buffer = << >> THEN "end" ELSE "line"
             /\ UNCHANGED <<text, fetched, consumed, buffer>>

\* ... or an error.
ReadFails == /\ Waiting
             /\ fetched = consumed
             /\ status' = "failed"
             /\ UNCHANGED <<text, fetched, consumed, buffer>>

\* Mutant: the chunk is taken whole, beyond its first newline.
TakesChunk(n) == n = fetched - consumed

\* The n bytes to take: up to and including the first newline, or all.
Takes(n) == /\ consumed + n <= fetched
            /\ \A k \in consumed + 1 .. consumed + n - 1 : text[k] # Newline
            /\ text[consumed + n] = Newline \/ consumed + n = fetched

\* Mutant: each chunk replaces what was gathered.
TakeAfresh ==
    /\ status = "reading"
    /\ \E n \in 1 .. fetched - consumed :
          /\ Takes(n)
          /\ Len(buffer) + n <= MaxLineBytes
          /\ buffer' = SubSeq(text, consumed + 1, consumed + n)
          /\ consumed' = consumed + n
          /\ status' = IF text[consumed + n] = Newline THEN "line" ELSE "reading"
    /\ UNCHANGED <<text, fetched>>

Take == /\ status = "reading"
        /\ \E n \in 1 .. fetched - consumed :
              /\ Takes(n)
              /\ Len(buffer) + n <= MaxLineBytes
              /\ buffer' = buffer \o SubSeq(text, consumed + 1, consumed + n)
              /\ consumed' = consumed + n
              /\ status' = IF text[consumed + n] = Newline THEN "line" ELSE "reading"
        /\ UNCHANGED <<text, fetched>>

Overflow == /\ status = "reading"
            /\ \E n \in 1 .. fetched - consumed :
                  Takes(n) /\ Len(buffer) + n > MaxLineBytes
            /\ status' = "too_long"
            /\ UNCHANGED <<text, fetched, consumed, buffer>>

PeekSees == /\ status = "peeking"
            /\ consumed < fetched
            /\ status' = "more"
            /\ UNCHANGED <<text, fetched, consumed, buffer>>

\* Another program appends to the input while it is read.
Grow == /\ Len(text) < MaxText
        /\ \E b \in Byte : text' = Append(text, b)
        /\ UNCHANGED <<fetched, consumed, buffer, status>>

\* The reader's own steps, once asked, when the input answers.
Step == Fetch \/ Exhausted \/ Take \/ Overflow \/ PeekSees

Next == Ask \/ Peek \/ Step \/ ReadFails \/ Grow

Spec == Init /\ [][Next]_vars

ReaderSpec == Spec /\ WF_vars(Step)

-----------------------------------------------------------------------------
TypeOK ==
    /\ text \in Seq(Byte)
    /\ fetched \in 0 .. Len(text)
    /\ consumed \in 0 .. fetched
    /\ buffer \in Seq(Byte)
    /\ status \in {"idle", "reading", "peeking", "line", "end", "too_long", "failed", "more"}

\* What is gathered is exactly the input's bytes before the point reached: no
\* byte is lost, repeated or reordered between chunks, and the line never
\* outgrows max_line_bytes, nor holds a newline but as its last byte.
Gathered ==
    /\ Len(buffer) <= MaxLineBytes /\ Len(buffer) <= consumed
    /\ buffer = SubSeq(text, consumed - Len(buffer) + 1, consumed)
    /\ \A k \in consumed - Len(buffer) + 1 .. consumed :
          text[k] = Newline => k = consumed /\ status = "line"
    /\ status \notin {"reading", "line", "too_long", "failed"} => buffer = << >>

\* read_limited_line hands out whole lines whatever the chunks: it implements
\* LineSource, in which there are none.
Lines == INSTANCE LineSource WITH
            taken <- IF status = "line" THEN consumed ELSE consumed - Len(buffer),
            line <- IF status = "line" THEN buffer ELSE << >>

HandsOutLines == Lines!Spec

\* A call returns: an input that grows for ever only delays it until the line
\* is too long.
CallsReturn == (status \in {"reading", "peeking"}) ~> (status \notin {"reading", "peeking"})

=============================================================================
