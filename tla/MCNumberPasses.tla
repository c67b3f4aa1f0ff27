--------------------------- MODULE MCNumberPasses ---------------------------
(***************************************************************************)
(* Texts of up to three pieces: IBANs of five and six characters with the  *)
(* check digits ISO 13616 gives them, one of them so that its first five   *)
(* are an IBAN too, another so that an IBAN starts within it, cards of     *)
(* three and four digits, and what may stand before, between and behind.   *)
(***************************************************************************)
EXTENDS NumberPasses

\* Two letters, two check digits and the rest.
Iban(a, b, rest) ==
    LET check == 98 - (Number(rest \o <<a, b, 0, 0>>) % 97)
    IN  <<a, b, check \div 10, check % 10>> \o rest

Lowered(n) == [i \in DOMAIN n |-> IF n[i] \in Capital THEN n[i] + 100 ELSE n[i]]
Spaced(n) == SubSeq(n, 1, 4) \o <<Space>> \o SubSeq(n, 5, Len(n))

Extending == LET rest == CHOOSE r \in (0 .. 35) \X (0 .. 35) :
                            SubSeq(Iban(16, 11, r), 1, 5) = Iban(16, 11, <<r[1]>>)
             IN  Iban(16, 11, rest)

Pieces == { Iban(16, 11, <<3>>), Iban(14, 28, <<11>>), Spaced(Iban(16, 11, <<8>>)),
            Lowered(Iban(11, 14, <<0>>)), Extending,
            Spaced(Iban(14, 28, <<16, 11>>)), SubSeq(Iban(16, 11, <<5>>), 3, 5),
            <<1, 8, 2>>, <<9, 1, Dash, 8>>, <<4, 2>>, <<7>>, <<5, 9, 1, 1>>,
            <<10, 12, 4, 1>>,
            <<Space>>, <<Dash>>, <<Stop>>, <<Accent>>, <<115>> }

\* Groups of digits behind two IBANs, of which the first redaction hides only one:
\* with the other hidden too, the cards in the groups are looked for elsewhere.
Groups == {<<4, 5>>, <<1, 8>>, <<2>>, <<1>>}
Grouped == {a \o <<Space>> \o b \o <<Space>> \o c \o <<Dash>> \o d \o <<Space>> \o e :
               <<a, b, c, d, e>> \in Groups \X Groups \X Groups \X Groups \X Groups}

\* The same where the second IBAN was spaced, so that the run starts with a blank.
Spread == {a \o b \o c \o <<Space>> \o d :
              <<a, b, c, d>> \in {<<Space>>, <<Dash>>, <<Space, 4, 5>>, <<Dash, 1>>, << >>}
                              \X {<<Space>>, <<Dash, Dash>>, <<Space, 4, 5, Space>>}
                              \X {<<1, 8>>, <<2, 6>>, <<1, 8, Dash, 2>>} \X {<<2>>, <<1, 8>>}}

MCTexts == UNION {{a \o b \o c : a \in Pieces \cup {<< >>}} : b \in Pieces, c \in Pieces}
           \cup {Iban(16, 11, <<3>>) \o Iban(16, 11, <<8>>) \o digits : digits \in Grouped}
           \cup {Iban(16, 11, <<3>>) \o Spaced(Iban(16, 11, <<8>>)) \o digits :
                    digits \in Spread}
=============================================================================
