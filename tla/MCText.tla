------------------------------- MODULE MCText -------------------------------
(***************************************************************************)
(* A small engine for texts of a few bytes.  A secret is a k and a v, with *)
(* a newline between them or not; m stands for what replaces it.  JSON     *)
(* values are arrays: [ and ] around bytes that are neither; d is a denied *)
(* field with its value, hidden only by the walk over a value.             *)
(***************************************************************************)
EXTENDS Integers, Sequences, FiniteSets

LOCAL INSTANCE SequencesExt

MCByte == {"k", "v", "m", "d", "[", "]", "x", " ", "\r", "\n"}
MCNewline == "\n"
MCCarriage == "\r"
MCWhitespace == {" ", "\r", "\n"}

\* x is no UTF-8.
MCUtf8(t) == \A i \in DOMAIN t : t[i] # "x"

Solid(t) == SelectSeq(t, LAMBDA b : b \notin MCWhitespace)

MCJson(t) == LET s == Solid(t)
             IN  /\ Len(s) >= 2 /\ s[1] = "[" /\ s[Len(s)] = "]"
                 /\ \A i \in 2 .. Len(s) - 1 : s[i] \notin {"[", "]"}

\* The length of the secret that starts at i, or 0.
SecretAt(t, i) == IF t[i] # "k" THEN 0
                  ELSE IF i < Len(t) /\ t[i + 1] = "v" THEN 2
                  ELSE IF i + 1 < Len(t) /\ t[i + 1] = "\n" /\ t[i + 2] = "v" THEN 3 ELSE 0

Secrets(t) == {i \in DOMAIN t : SecretAt(t, i) > 0}

MCOfText(t) == FlattenSeq([i \in DOMAIN t |->
                  IF i \in Secrets(t) THEN <<"m">>
                  ELSE IF \E h \in Secrets(t) : h < i /\ i < h + SecretAt(t, h) THEN << >>
                  ELSE <<t[i]>>])

\* The walk: serialized again, without the white space.
Walked(t) == [i \in DOMAIN Solid(t) |-> IF Solid(t)[i] = "d" THEN "m" ELSE Solid(t)[i]]
MCOfValue(t) == MCOfText(Walked(t))

MCFoundInText(t) == Cardinality(Secrets(t))
Fields(t) == Cardinality({i \in DOMAIN t : t[i] = "d"})
MCFoundInValue(t) == Fields(t) + MCFoundInText(Walked(t))

\* A value in t has a field that the walk would have hidden.
MCDenied(t) == \E i, j \in DOMAIN t : i <= j /\ MCJson(SubSeq(t, i, j))
                                      /\ Fields(SubSeq(t, i, j)) > 0
=============================================================================
