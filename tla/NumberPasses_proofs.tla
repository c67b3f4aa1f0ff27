------------------------ MODULE NumberPasses_proofs -------------------------
(***************************************************************************)
(* What the loops of the number passes do to a text, and to what they have *)
(* made of it, for texts of any length and any lengths of IBANs and cards. *)
(***************************************************************************)
EXTENDS NumberPasses, Basics_proofs

LEMMA CharactersAssociative ==
    ASSUME NEW a \in Seq(Character), NEW b \in Seq(Character), NEW c \in Seq(Character)
    PROVE  (a \o b) \o c = a \o (b \o c)
  BY ConcatAssociative

\* What a pass that replaces the spans sp makes of character i, ...
Shown(t, sp, i) == IF \E s \in sp : s.first = i THEN <<Mark>>
                   ELSE IF \E s \in sp : Covers(s, i) THEN << >>
                   ELSE <<t[i]>>

\* ... and of the first n.
ShownTo(t, sp, n) == FlattenSeq([i \in 1 .. n |-> Shown(t, sp, i)])

LEMMA ShownFacts ==
    ASSUME NEW t \in Seq(Character), NEW sp
    PROVE  /\ \A i \in 1 .. Len(t) : Shown(t, sp, i) \in Seq(Character)
           /\ ShownTo(t, sp, 0) = << >>
           /\ \A n \in 0 .. Len(t) : ShownTo(t, sp, n) \in Seq(Character)
           /\ \A n \in 0 .. Len(t) - 1 :
                 ShownTo(t, sp, n + 1) = ShownTo(t, sp, n) \o Shown(t, sp, n + 1)
<1>1. Len(t) \in Nat /\ \A i \in 1 .. Len(t) : t[i] \in Character
  BY LenProperties, ElementOfSeq
<1>2. \A i \in 1 .. Len(t) : Shown(t, sp, i) \in Seq(Character)
  <2>1. Mark \in Character
    BY DEF Character
  <2>2. ASSUME NEW c \in Character PROVE <<c>> \in Seq(Character)
    OBVIOUS
  <2>. QED  BY <1>1, <2>1, <2>2, EmptySeq DEF Shown
<1>. DEFINE F == [i \in 1 .. Len(t) |-> Shown(t, sp, i)]
<1>3. \A i \in 1 .. Len(t) : F[i] \in Seq(Character) /\ F[i] = Shown(t, sp, i)
  BY <1>2
<1>4. ASSUME NEW n \in 0 .. Len(t) PROVE ShownTo(t, sp, n) = FlatTo(F, n)
  <2>1. [i \in 1 .. n |-> F[i]] = [i \in 1 .. n |-> Shown(t, sp, i)]
    BY <1>1
  <2>. QED  BY <2>1 DEF ShownTo, FlatTo
<1>. HIDE DEF F
<1>5. /\ FlatTo(F, 0) = << >>
      /\ \A n \in 0 .. Len(t) : FlatTo(F, n) \in Seq(Character)
      /\ \A n \in 0 .. Len(t) - 1 : FlatTo(F, n + 1) = FlatTo(F, n) \o F[n + 1]
  BY ONLY <1>1, <1>3, FlatFacts
<1>6. \A n \in 0 .. Len(t) - 1 : n \in 0 .. Len(t) /\ n + 1 \in 0 .. Len(t) /\ n + 1 \in 1 .. Len(t)
  BY <1>1
<1>7. 0 \in 0 .. Len(t)
  BY <1>1
<1>. QED  BY <1>2, <1>3, <1>4, <1>5, <1>6, <1>7

\* Spans that do the same to the first n characters show the same of them.
LEMMA ShownAlike ==
    ASSUME NEW t, NEW sp, NEW sq, NEW n \in Nat,
           \A i \in 1 .. n : Shown(t, sp, i) = Shown(t, sq, i)
    PROVE  ShownTo(t, sp, n) = ShownTo(t, sq, n)
<1>1. [i \in 1 .. n |-> Shown(t, sp, i)] = [i \in 1 .. n |-> Shown(t, sq, i)]
  OBVIOUS
<1>. QED  BY <1>1 DEF ShownTo

\* Characters in no span are copied, ...
LEMMA ShownCopies ==
    ASSUME NEW t \in Seq(Character), NEW sp, NEW m \in 0 .. Len(t), NEW n \in m .. Len(t),
           \A i \in m + 1 .. n : Shown(t, sp, i) = <<t[i]>>
    PROVE  ShownTo(t, sp, n) = ShownTo(t, sp, m) \o SubSeq(t, m + 1, n)
<1>. DEFINE To(k) == ShownTo(t, sp, k)
            Copied(k) == To(m + k) = To(m) \o SubSeq(t, m + 1, m + k)
            T == {k \in Nat : m + k <= n => Copied(k)}
<1>1. Len(t) \in Nat /\ To(m) \in Seq(Character)
  BY LenProperties, ShownFacts
<1>2. 0 \in T
  <2>1. m + 0 = m /\ m + 1 \in Int /\ m \in Int /\ m < m + 1
    BY <1>1
  <2>2. SubSeq(t, m + 1, m) = << >>
    BY <2>1, SubSeqEmpty
  <2>3. To(m) = To(m) \o << >>
    BY <1>1, ConcatEmptySeq
  <2>. HIDE DEF To
  <2>. QED  BY <2>1, <2>2, <2>3
<1>3. ASSUME NEW k \in Nat, k \in T PROVE k + 1 \in T
  <2>. SUFFICES ASSUME m + (k + 1) <= n PROVE Copied(k + 1)
    <3>. HIDE DEF Copied
    <3>. QED  OBVIOUS
  <2>. DEFINE e == m + k
              part == SubSeq(t, m + 1, e)
  <2>1. /\ e \in 0 .. Len(t) - 1 /\ m + (k + 1) = e + 1 /\ e + 1 \in m + 1 .. n
        /\ m + k <= n /\ m + 1 \in 1 .. Len(t) + 1 /\ e \in (m + 1) - 1 .. Len(t)
        /\ e + 1 \in e .. Len(t) /\ e \in Nat /\ e + 1 \in 1 .. Len(t) /\ m + 1 <= e + 1
        /\ m + 1 \in Int /\ e + 1 \in Int
    BY <1>1
  <2>2. To(e) = To(m) \o part
    BY <1>3, <2>1
  <2>. HIDE DEF e
  <2>3. To(e + 1) = To(e) \o <<t[e + 1]>>
    BY <2>1, ShownFacts
  <2>4. part \in Seq(Character) /\ <<t[e + 1]>> \in Seq(Character)
    <3>1. t[e + 1] \in Character
      BY <2>1, ElementOfSeq
    <3>2. part \in Seq(Character)
      BY <2>1, PartIsText
    <3>. QED  BY <3>1, <3>2
  <2>5. SubSeq(t, m + 1, e + 1) = part \o <<t[e + 1]>>
    <3>1. m + 1 \in 1 .. Len(t) /\ e + 1 \in m + 1 .. Len(t) /\ (e + 1) - 1 = e
      BY <1>1, <2>1
    <3>. QED  BY <3>1, SubSeqRecursiveSecond
  <2>. DEFINE one == <<t[e + 1]>>
  <2>. HIDE DEF To, part, one
  <2>6. (To(m) \o part) \o one = To(m) \o (part \o one)
    <3>1. To(m) \in Seq(Character) /\ part \in Seq(Character) /\ one \in Seq(Character)
      BY <1>1, <2>4 DEF one
    <3>. QED  BY <3>1, CharactersAssociative, Zenon
  <2>. QED  BY <2>1, <2>2, <2>3, <2>5, <2>6 DEF one
<1>4. n - m \in T
  <2>1. n - m \in Nat
    BY <1>1
  <2>. HIDE DEF T
  <2>. QED  BY <1>2, <1>3, <2>1, InductionOverNat
<1>5. m + (n - m) = n /\ n - m \in Nat
  BY <1>1
<1>6. Copied(n - m)
  <2>. HIDE DEF Copied
  <2>. QED  BY <1>4, <1>5
<1>. QED  BY <1>5, <1>6

\* ... and those in a span, but for its first, go.
LEMMA ShownDrops ==
    ASSUME NEW t \in Seq(Character), NEW sp, NEW m \in 0 .. Len(t), NEW n \in m .. Len(t),
           \A i \in m + 1 .. n : Shown(t, sp, i) = << >>
    PROVE  ShownTo(t, sp, n) = ShownTo(t, sp, m)
<1>. DEFINE To(k) == ShownTo(t, sp, k)
            T == {k \in Nat : m + k <= n => To(m + k) = To(m)}
<1>1. Len(t) \in Nat /\ To(m) \in Seq(Character)
  BY LenProperties, ShownFacts
<1>2. 0 \in T
  OBVIOUS
<1>3. ASSUME NEW k \in Nat, k \in T PROVE k + 1 \in T
  <2>. SUFFICES ASSUME m + (k + 1) <= n PROVE To(m + (k + 1)) = To(m)
    OBVIOUS
  <2>. DEFINE e == m + k
  <2>1. /\ e \in 0 .. Len(t) - 1 /\ m + (k + 1) = e + 1 /\ e + 1 \in m + 1 .. n /\ m + k <= n
    BY <1>1
  <2>2. To(e) = To(m)
    BY <1>3, <2>1
  <2>. HIDE DEF e
  <2>3. To(e + 1) = To(e) \o << >>
    BY <2>1, ShownFacts
  <2>. HIDE DEF To
  <2>. QED  BY <1>1, <2>1, <2>2, <2>3, ConcatEmptySeq
<1>4. n - m \in T
  <2>1. n - m \in Nat
    BY <1>1
  <2>. HIDE DEF T
  <2>. QED  BY <1>2, <1>3, <2>1, InductionOverNat
<1>5. m + (n - m) = n
  BY <1>1
<1>. QED  BY <1>4, <1>5

-----------------------------------------------------------------------------
(* The loops.                                                                *)
PassInv ==
    /\ text \in Seq(Character) /\ pass \in {"iban", "credit_card"} /\ pc \in {"scan", "end"}
    /\ from \in Nat \ {0} /\ last_end \in 0 .. Len(text)
    /\ \A s \in spans : s.first \in 1 .. Len(text) /\ s.last \in s.first .. last_end
    /\ \A s, r \in spans : s # r => s.last < r.first \/ r.last < s.first
    /\ pc = "scan" => output = ShownTo(text, spans, last_end)
    /\ pc = "end" => output = ShownTo(text, spans, Len(text))

\* A match is replaced up to somewhere in the text, and the search goes on
\* behind its first character.
LEMMA MatchFacts ==
    ASSUME text \in Seq(Character), from \in Nat \ {0}, NEW i \in from .. Len(text), Matches(i)
    PROVE  /\ Replaces(i) \subseteq i .. Len(text)
           /\ ResumeAfter(i) \in Nat /\ i < ResumeAfter(i)
<1>1. Len(text) \in Nat /\ i \in 1 .. Len(text)
  BY LenProperties
<1>2. IbanEnds(text, i) \subseteq i .. Len(text) /\ CardEnds(text, i) \subseteq i .. Len(text)
  BY DEF IbanEnds, CardEnds
<1>3. i .. Len(text) \subseteq 1 .. Len(text)
  BY <1>1
<1>4. CASE pass = "iban"
  <2>1. IbanEnds(text, i) # {} => Max(IbanEnds(text, i)) \in IbanEnds(text, i)
    BY <1>1, <1>2, <1>3, MaxFacts
  <2>2. Replaces(i) \subseteq i .. Len(text)
    BY <1>2, <1>4, <2>1 DEF Replaces, ValidIbanSpan
  <2>. QED  BY <1>1, <1>4, <2>2 DEF ResumeAfter
<1>5. CASE pass # "iban"
  <2>1. CardEnds(text, i) # {}
    BY <1>5 DEF Matches, CardStart
  <2>2. Max(CardEnds(text, i)) \in CardEnds(text, i)
    BY <1>1, <1>2, <1>3, <2>1, MaxFacts
  <2>3. Replaces(i) \subseteq i .. Len(text)
    BY <1>2, <1>5, <2>2 DEF Replaces
  <2>. QED  BY <1>1, <1>2, <1>5, <2>2, <2>3 DEF ResumeAfter
<1>. QED  BY <1>4, <1>5

LEMMA InitPassInv == Init => PassInv
<1>. SUFFICES ASSUME Init PROVE PassInv
  OBVIOUS
<1>1. text \in Seq(Character)
  <2>1. text \in Seq(Character \ {Mark})
    BY TextsAssumption DEF Init
  <2>2. \A i \in 1 .. Len(text) : text[i] \in Character
    BY <2>1, ElementOfSeq
  <2>3. text = [i \in 1 .. Len(text) |-> text[i]] /\ Len(text) \in Nat
    BY <2>1, LenProperties
  <2>. QED  BY <2>2, <2>3, IsASeq
<1>2. Len(text) \in Nat /\ ShownTo(text, {}, 0) = << >>
  BY <1>1, LenProperties, ShownFacts
<1>. QED  BY <1>1, <1>2 DEF Init, PassInv

\* A replacement behind the last, up to e, adds what is between and the mark,
\* and nothing of what it covers, i to j.
GoesOn(t, sp, e, sq, i, j) ==
    ShownTo(t, sq, j) = Append(ShownTo(t, sp, e) \o SubSeq(t, e + 1, i - 1), Mark)

LEMMA ReplacedOnce ==
    ASSUME NEW t \in Seq(Character), NEW sp, NEW e \in 0 .. Len(t),
           \A s \in sp : s.first \in 1 .. Len(t) /\ s.last \in s.first .. e,
           NEW i \in e + 1 .. Len(t), NEW j \in i .. Len(t), NEW sq,
           sp \subseteq sq, \A s \in sq : s \in sp \/ (s.first = i /\ s.last = j),
           \E s \in sq : s.first = i /\ s.last = j
    PROVE  GoesOn(t, sp, e, sq, i, j)
<1>1. Len(t) \in Nat /\ e \in Nat
  BY LenProperties
<1>. DEFINE New(s) == s.first = i /\ s.last = j
<1>2. ASSUME NEW k \in 1 .. e PROVE Shown(t, sq, k) = Shown(t, sp, k)
  <2>1. \A s \in sq : New(s) => s.first # k /\ ~Covers(s, k)
    BY <1>1 DEF Covers
  <2>. QED  BY <2>1 DEF Shown
<1>3. ASSUME NEW k \in e + 1 .. i - 1 PROVE Shown(t, sq, k) = <<t[k]>>
  <2>1. \A s \in sq : s.first # k /\ ~Covers(s, k)
    BY <1>1 DEF Covers
  <2>. QED  BY <2>1 DEF Shown
<1>4. Shown(t, sq, i) = <<Mark>>
  BY DEF Shown
<1>5. ASSUME NEW k \in i + 1 .. j PROVE Shown(t, sq, k) = << >>
  <2>1. \A s \in sq : s.first # k
    BY <1>1
  <2>2. \E s \in sq : Covers(s, k)
    <3>1. PICK s \in sq : New(s)
      OBVIOUS
    <3>. QED  BY <1>1, <3>1 DEF Covers
  <2>. QED  BY <2>1, <2>2 DEF Shown
<1>6. ShownTo(t, sq, e) = ShownTo(t, sp, e)
  BY <1>1, <1>2, ShownAlike
<1>. DEFINE h == i - 1
<1>7. h \in e .. Len(t) /\ h \in 0 .. Len(t) /\ h \in 0 .. Len(t) - 1 /\ h + 1 = i /\ i \in 0 .. Len(t)
  BY <1>1
<1>8. ShownTo(t, sq, h) = ShownTo(t, sq, e) \o SubSeq(t, e + 1, h)
  BY <1>3, <1>7, ShownCopies
<1>. HIDE DEF h
<1>9. ShownTo(t, sq, i) = ShownTo(t, sq, h) \o <<Mark>> /\ ShownTo(t, sq, h) \in Seq(Character)
  <2>1. ShownTo(t, sq, h + 1) = ShownTo(t, sq, h) \o Shown(t, sq, h + 1)
    BY <1>7, ShownFacts
  <2>2. ShownTo(t, sq, h) \in Seq(Character)
    BY <1>7, ShownFacts
  <2>. QED  BY <1>4, <1>7, <2>1, <2>2
<1>10. ShownTo(t, sq, j) = ShownTo(t, sq, i)
  BY <1>5, <1>7, ShownDrops
<1>11. ShownTo(t, sq, h) \o <<Mark>> = Append(ShownTo(t, sq, h), Mark)
  <2>1. Mark \in Character
    BY DEF Character
  <2>. QED  BY <1>9, <2>1, AppendIsConcat
<1>. QED  BY <1>6, <1>8, <1>9, <1>10, <1>11 DEF h, GoesOn

LEMMA PassInvNext == PassInv /\ [Next]_vars => PassInv'
<1>. SUFFICES ASSUME PassInv, [Next]_vars PROVE PassInv'
  OBVIOUS
<1>0. Len(text) \in Nat
  BY LenProperties DEF PassInv
<1>1. CASE ReplaceMatch
  <2>1. PICK i \in from .. Len(text) :
          /\ pc = "scan" /\ IsNext(i) /\ i > last_end
          /\ \E j \in Replaces(i) :
                /\ output' = Append(output \o Part(text, last_end + 1, i - 1), Mark)
                /\ last_end' = j
                /\ spans' = spans \cup {[first |-> i, last |-> j]}
          /\ from' = ResumeAfter(i)
          /\ UNCHANGED <<text, round, pass, pc>>
    BY <1>1 DEF ReplaceMatch
  <2>2. PICK j \in Replaces(i) :
          /\ output' = Append(output \o Part(text, last_end + 1, i - 1), Mark)
          /\ last_end' = j
          /\ spans' = spans \cup {[first |-> i, last |-> j]}
    BY <2>1
  <2>. DEFINE new == [first |-> i, last |-> j]
  <2>3. /\ j \in i .. Len(text) /\ from' \in Nat \ {0} /\ i \in last_end + 1 .. Len(text)
        /\ new.first = i /\ new.last = j
    <3>1. Replaces(i) \subseteq i .. Len(text) /\ from' \in Nat /\ i < from'
      BY <2>1, MatchFacts DEF PassInv, IsNext
    <3>. QED  BY <1>0, <2>1, <3>1 DEF PassInv
  <2>. HIDE DEF new
  <2>4. spans' = spans \cup {new} /\ new = [first |-> i, last |-> j]
    BY <2>2 DEF new
  <2>5. \A s \in spans' : s.first \in 1 .. Len(text) /\ s.last \in s.first .. last_end'
    <3>1. \A s \in spans : s.first \in 1 .. Len(text) /\ s.last \in s.first .. j
      BY <1>0, <2>3 DEF PassInv
    <3>. QED  BY <1>0, <2>2, <2>3, <2>4, <3>1 DEF PassInv
  <2>6. \A s, r \in spans' : s # r => s.last < r.first \/ r.last < s.first
    <3>1. \A s \in spans : s.last < new.first
      BY <1>0, <2>3 DEF PassInv
    <3>. QED  BY <2>4, <3>1 DEF PassInv
  <2>7. output' = ShownTo(text, spans', last_end')
    <3>1. /\ text \in Seq(Character) /\ last_end \in 0 .. Len(text)
          /\ output = ShownTo(text, spans, last_end)
          /\ \A s \in spans : s.first \in 1 .. Len(text) /\ s.last \in s.first .. last_end
      BY <2>1 DEF PassInv
    <3>2. GoesOn(text, spans, last_end, spans', i, j)
      <4>1. /\ spans \subseteq spans' /\ \A s \in spans' : s \in spans \/ (s.first = i /\ s.last = j)
            /\ \E s \in spans' : s.first = i /\ s.last = j
        BY <2>3, <2>4
      <4>. QED  BY ONLY <2>3, <3>1, <4>1, ReplacedOnce
    <3>. QED  BY <2>2, <2>4, <3>1, <3>2 DEF GoesOn, Part
  <2>8. /\ pc = "scan" /\ UNCHANGED <<text, pass, pc>> /\ last_end' \in 0 .. Len(text)
        /\ text \in Seq(Character) /\ pass \in {"iban", "credit_card"}
    BY <1>0, <2>1, <2>2, <2>3 DEF PassInv
  <2>. QED  BY ONLY <2>3, <2>5, <2>6, <2>7, <2>8 DEF PassInv
<1>2. CASE SkipMatch
  <2>1. PICK i \in from .. Len(text) :
          /\ pc = "scan" /\ IsNext(i) /\ from' = ResumeAfter(i)
          /\ UNCHANGED <<text, round, pass, pc, last_end, output, spans>>
    BY <1>2 DEF SkipMatch
  <2>2. from' \in Nat \ {0}
    <3>1. from' \in Nat /\ i < from'
      BY <2>1, MatchFacts DEF PassInv, IsNext
    <3>. QED  BY <1>0, <2>1, <3>1 DEF PassInv
  <2>. QED  BY <2>1, <2>2 DEF PassInv
<1>3. CASE EndPass
  <2>1. /\ pc = "scan" /\ pc' = "end" /\ UNCHANGED <<text, round, pass, from, last_end, spans>>
        /\ output' = output \o Part(text, last_end + 1, Len(text))
    BY <1>3 DEF EndPass
  <2>2. ASSUME NEW k \in last_end + 1 .. Len(text) PROVE Shown(text, spans, k) = <<text[k]>>
    <3>1. \A s \in spans : s.first # k /\ ~Covers(s, k)
      BY <1>0 DEF PassInv, Covers
    <3>. QED  BY <3>1 DEF Shown
  <2>3. ShownTo(text, spans, Len(text))
           = ShownTo(text, spans, last_end) \o SubSeq(text, last_end + 1, Len(text))
    <3>1. /\ text \in Seq(Character) /\ last_end \in 0 .. Len(text)
          /\ Len(text) \in last_end .. Len(text)
      BY <1>0 DEF PassInv
    <3>. QED  BY <2>2, <3>1, ShownCopies
  <2>. QED  BY <2>1, <2>3 DEF PassInv, Part
<1>4. CASE NextPass
  <2>1. /\ pc = "end" /\ pc' = "scan" /\ text' = output
        /\ pass' \in {"iban", "credit_card"}
        /\ from' = 1 /\ last_end' = 0 /\ output' = << >> /\ spans' = {}
    BY <1>4 DEF NextPass
  <2>2. text' \in Seq(Character)
    <3>1. text \in Seq(Character) /\ text' = ShownTo(text, spans, Len(text))
      BY <2>1 DEF PassInv
    <3>2. Len(text) \in 0 .. Len(text)
      BY <1>0
    <3>. QED  BY <3>1, <3>2, ShownFacts
  <2>3. Len(text') \in Nat /\ ShownTo(text', {}, 0) = << >>
    BY <2>2, LenProperties, ShownFacts
  <2>. QED  BY <2>1, <2>2, <2>3 DEF PassInv
<1>5. CASE UNCHANGED vars
  BY <1>5 DEF vars, PassInv
<1>. QED  BY <1>1, <1>2, <1>3, <1>4, <1>5 DEF Next

\* Whatever the matches overlap, a pass changes nothing but the spans it
\* replaces, each by one mark, and no two of them meet.
THEOREM OnlySpansAlwaysChange == Spec => []OnlySpansChange
<1>1. PassInv => OnlySpansChange
  <2>. SUFFICES ASSUME PassInv, pc = "end"
                PROVE  output = FlattenSeq([i \in DOMAIN text |->
                                  IF \E s \in spans : s.first = i THEN <<Mark>>
                                  ELSE IF \E s \in spans : Covers(s, i) THEN << >>
                                  ELSE <<text[i]>>])
    BY DEF PassInv, OnlySpansChange
  <2>1. DOMAIN text = 1 .. Len(text)
    BY LenProperties DEF PassInv
  <2>2. output = ShownTo(text, spans, Len(text))
    BY DEF PassInv
  <2>. QED  BY <2>1, <2>2 DEF ShownTo, Shown
<1>. QED  BY <1>1, InitPassInv, PassInvNext, PTL DEF Spec

-----------------------------------------------------------------------------
(* IBANs: the remainder of the number an IBAN's characters write.            *)
IbanCharacter == Digit \cup Capital
Remainders == 0 .. 96

\* The number so far, with one more character.
Written(sum, c) == IF c \in Digit THEN 10 * sum + c ELSE 100 * sum + c

LEMMA RemainderFacts ==
    ASSUME NEW r \in Remainders, NEW c \in IbanCharacter
    PROVE  Remainder(r, c) \in Remainders
<1>1. c \in Nat /\ c \div 10 \in Nat /\ c % 10 \in Nat
  BY DEF IbanCharacter, Digit, Capital
<1>2. \A k \in Nat : k % 97 \in 0 .. 96
  OBVIOUS
<1>. QED  BY <1>1, <1>2 DEF Remainder, Remainders

LEMMA WrittenFacts ==
    ASSUME NEW m \in Nat, NEW c \in IbanCharacter
    PROVE  Written(m, c) \in Nat /\ Remainder(m % 97, c) = Written(m, c) % 97
<1>1. c \in Nat
  BY DEF IbanCharacter, Digit, Capital
<1>2. CASE c \in Digit
  BY <1>2 DEF Written, Remainder, Digit
<1>3. CASE c \notin Digit
  <2>. DEFINE a == c \div 10
              b == c % 10
  <2>1. c = 10 * a + b /\ a \in 0 .. 9 /\ b \in 0 .. 9
    BY <1>3 DEF IbanCharacter, Digit, Capital
  <2>. HIDE DEF a, b
  <2>2. ((m % 97) * 10 + a) % 97 = (10 * m + a) % 97
    BY <2>1
  <2>. DEFINE k == 10 * m + a
  <2>3. k \in Nat /\ 10 * k + b = 100 * m + c
    BY <2>1
  <2>. HIDE DEF k
  <2>4. ((k % 97) * 10 + b) % 97 = (10 * k + b) % 97
    BY <2>1, <2>3
  <2>5. Remainder(m % 97, c) = ((((m % 97) * 10 + a) % 97) * 10 + b) % 97
    BY <1>3 DEF Remainder, a, b
  <2>. QED  BY <1>1, <1>3, <2>2, <2>3, <2>4, <2>5 DEF Written, k
<1>. QED  BY <1>2, <1>3

\* is_valid_iban's loop and the number it is about, character by character.
LEMMA RemainderRuns ==
    ASSUME NEW n \in Seq(IbanCharacter)
    PROVE  \E f \in [0 .. Len(n) -> Remainders] :
              /\ f[0] = 0 /\ \A j \in 1 .. Len(n) : f[j] = Remainder(f[j - 1], n[j])
              /\ FoldLeft(Remainder, 0, n) = f[Len(n)]
<1>. DEFINE D == 1 .. Len(n)
            step == [p \in D \X (Remainders) |-> Remainder(p[2], n[p[1]])]
            Value(g, d) == IF d = {} THEN 0
                           ELSE LET x == Max(d) IN Remainder(g[d \ {x}], n[x])
            iter == CHOOSE g : g = [d \in SUBSET D |-> Value(g, d)]
<1>0. DOMAIN n = D
  BY LenProperties
<1>1. FoldLeft(Remainder, 0, n) = iter[D]
  BY <1>0 DEF FoldLeft, MapThenFoldSet
<1>2. Len(n) \in Nat /\ 0 \in Remainders /\ \A i \in D : n[i] \in IbanCharacter
  BY LenProperties, ElementOfSeq DEF Remainders
<1>3. step \in [D \X (Remainders) -> Remainders]
  BY <1>2, RemainderFacts
<1>4. PICK g \in [SUBSET D -> Remainders] : IsMaxFold(g, Len(n), 0, step)
  <2>. HIDE DEF step
  <2>. QED  BY <1>2, <1>3, MaxFoldExists
<1>5. ASSUME NEW d \in SUBSET D PROVE g[d] = Value(g, d)
  <2>1. d # {} => Max(d) \in D /\ d \ {Max(d)} \in SUBSET D
    BY <1>4 DEF IsMaxFold
  <2>. QED  BY <1>4, <2>1 DEF IsMaxFold
<1>6. iter = [d \in SUBSET D |-> Value(iter, d)]
  <2>. HIDE DEF Value, D
  <2>1. g = [d \in SUBSET D |-> Value(g, d)]
    BY <1>5
  <2>. QED  BY <2>1
<1>. HIDE DEF iter
<1>7. ASSUME NEW d \in SUBSET D PROVE iter[d] = Value(iter, d)
  <2>. HIDE DEF Value, D
  <2>. QED  BY <1>6
<1>8. ASSUME NEW d \in SUBSET D, d # {}, iter[d \ {Max(d)}] \in Remainders
      PROVE  iter[d] = step[<<Max(d), iter[d \ {Max(d)}]>>]
  <2>1. Max(d) \in D
    BY <1>4, <1>8 DEF IsMaxFold
  <2>. QED  BY <1>7, <1>8, <2>1
<1>9. iter[{}] = 0
  BY <1>7
<1>10. PICK f \in [0 .. Len(n) -> Remainders] : RunsTo(f, Len(n), 0, step, iter[D])
  <2>. HIDE DEF step
  <2>1. /\ iter[{}] = 0 /\ Len(n) \in Nat /\ 0 \in Remainders
        /\ step \in [(1 .. Len(n)) \X (Remainders) -> Remainders]
        /\ \A d \in SUBSET (1 .. Len(n)) : d # {} /\ iter[d \ {Max(d)}] \in Remainders =>
              iter[d] = step[<<Max(d), iter[d \ {Max(d)}]>>]
    BY <1>2, <1>3, <1>8, <1>9
  <2>2. \E f \in [0 .. Len(n) -> Remainders] : RunsTo(f, Len(n), 0, step, iter[1 .. Len(n)])
    BY ONLY <2>1, MaxFoldRuns
  <2>. QED  BY <2>2
<1>11. ASSUME NEW j \in 1 .. Len(n) PROVE f[j] = Remainder(f[j - 1], n[j])
  <2>1. j \in D /\ j - 1 \in 0 .. Len(n)
    BY <1>2
  <2>. QED  BY <1>10, <2>1 DEF RunsTo, IsRun
<1>. QED  BY <1>1, <1>10, <1>11 DEF RunsTo, IsRun

LEMMA NumberRuns ==
    ASSUME NEW n \in Seq(IbanCharacter)
    PROVE  \E f \in [0 .. Len(n) -> Nat] :
              /\ f[0] = 0 /\ \A j \in 1 .. Len(n) : f[j] = Written(f[j - 1], n[j])
              /\ Number(n) = f[Len(n)]
<1>. DEFINE D == 1 .. Len(n)
            step == [p \in D \X (Nat) |-> Written(p[2], n[p[1]])]
            Value(g, d) == IF d = {} THEN 0
                           ELSE LET x == Max(d) IN Written(g[d \ {x}], n[x])
            iter == CHOOSE g : g = [d \in SUBSET D |-> Value(g, d)]
<1>0. DOMAIN n = D
  BY LenProperties
<1>1. Number(n) = iter[D]
  BY <1>0 DEF FoldLeft, MapThenFoldSet, Number, Written
<1>2. Len(n) \in Nat /\ 0 \in Nat /\ \A i \in D : n[i] \in IbanCharacter
  BY LenProperties, ElementOfSeq DEF Remainders
<1>3. step \in [D \X (Nat) -> Nat]
  BY <1>2, WrittenFacts
<1>4. PICK g \in [SUBSET D -> Nat] : IsMaxFold(g, Len(n), 0, step)
  <2>. HIDE DEF step
  <2>. QED  BY <1>2, <1>3, MaxFoldExists
<1>5. ASSUME NEW d \in SUBSET D PROVE g[d] = Value(g, d)
  <2>1. d # {} => Max(d) \in D /\ d \ {Max(d)} \in SUBSET D
    BY <1>4 DEF IsMaxFold
  <2>. QED  BY <1>4, <2>1 DEF IsMaxFold
<1>6. iter = [d \in SUBSET D |-> Value(iter, d)]
  <2>. HIDE DEF Value, D
  <2>1. g = [d \in SUBSET D |-> Value(g, d)]
    BY <1>5
  <2>. QED  BY <2>1
<1>. HIDE DEF iter
<1>7. ASSUME NEW d \in SUBSET D PROVE iter[d] = Value(iter, d)
  <2>. HIDE DEF Value, D
  <2>. QED  BY <1>6
<1>8. ASSUME NEW d \in SUBSET D, d # {}, iter[d \ {Max(d)}] \in Nat
      PROVE  iter[d] = step[<<Max(d), iter[d \ {Max(d)}]>>]
  <2>1. Max(d) \in D
    BY <1>4, <1>8 DEF IsMaxFold
  <2>. QED  BY <1>7, <1>8, <2>1
<1>9. iter[{}] = 0
  BY <1>7
<1>10. PICK f \in [0 .. Len(n) -> Nat] : RunsTo(f, Len(n), 0, step, iter[D])
  <2>. HIDE DEF step
  <2>1. /\ iter[{}] = 0 /\ Len(n) \in Nat /\ 0 \in Nat
        /\ step \in [(1 .. Len(n)) \X (Nat) -> Nat]
        /\ \A d \in SUBSET (1 .. Len(n)) : d # {} /\ iter[d \ {Max(d)}] \in Nat =>
              iter[d] = step[<<Max(d), iter[d \ {Max(d)}]>>]
    BY <1>2, <1>3, <1>8, <1>9
  <2>2. \E f \in [0 .. Len(n) -> Nat] : RunsTo(f, Len(n), 0, step, iter[1 .. Len(n)])
    BY ONLY <2>1, MaxFoldRuns
  <2>. QED  BY <2>2
<1>11. ASSUME NEW j \in 1 .. Len(n) PROVE f[j] = Written(f[j - 1], n[j])
  <2>1. j \in D /\ j - 1 \in 0 .. Len(n)
    BY <1>2
  <2>. QED  BY <1>10, <2>1 DEF RunsTo, IsRun
<1>. QED  BY <1>1, <1>10, <1>11 DEF RunsTo, IsRun

LEMMA RemainderOfNumber ==
    ASSUME NEW n \in Seq(IbanCharacter)
    PROVE  FoldLeft(Remainder, 0, n) = Number(n) % 97
<1>1. PICK f \in [0 .. Len(n) -> Remainders] :
         /\ f[0] = 0 /\ \A j \in 1 .. Len(n) : f[j] = Remainder(f[j - 1], n[j])
         /\ FoldLeft(Remainder, 0, n) = f[Len(n)]
  BY RemainderRuns
<1>2. PICK h \in [0 .. Len(n) -> Nat] :
         /\ h[0] = 0 /\ \A j \in 1 .. Len(n) : h[j] = Written(h[j - 1], n[j])
         /\ Number(n) = h[Len(n)]
  BY NumberRuns
<1>. DEFINE m == [j \in 0 .. Len(n) |-> h[j] % 97]
<1>3. Len(n) \in Nat /\ \A j \in 1 .. Len(n) : n[j] \in IbanCharacter
  BY LenProperties, ElementOfSeq
<1>4. f[0] = m[0]
  BY <1>1, <1>2, <1>3
<1>5. ASSUME NEW j \in 1 .. Len(n), f[j - 1] = m[j - 1] PROVE f[j] = m[j]
  <2>0. j - 1 \in 0 .. Len(n) /\ j \in 0 .. Len(n)
    BY <1>3
  <2>1. n[j] \in IbanCharacter /\ h[j - 1] \in Nat
    BY <1>3, <2>0
  <2>2. Remainder(h[j - 1] % 97, n[j]) = Written(h[j - 1], n[j]) % 97
    BY <2>1, WrittenFacts
  <2>. QED  BY <1>1, <1>2, <1>5, <2>0, <2>2
<1>6. f[Len(n)] = m[Len(n)]
  <2>. HIDE DEF m
  <2>. QED  BY <1>3, <1>4, <1>5, RunsAgree
<1>. QED  BY <1>1, <1>2, <1>3, <1>6

-----------------------------------------------------------------------------
(* What is left of a part of a text when the characters outside C go.        *)
\* What each character leaves.
Pieces(t, i, j, C) ==
    [k \in 1 .. j - i + 1 |-> IF t[i + k - 1] \in C THEN <<t[i + k - 1]>> ELSE << >>]

LEMMA PiecesFacts ==
    ASSUME NEW t \in Seq(Character), NEW i \in 1 .. Len(t), NEW j \in i .. Len(t), NEW C
    PROVE  /\ FlatTo(Pieces(t, i, j, C), 0) = << >>
           /\ \A n \in 0 .. j - i + 1 : FlatTo(Pieces(t, i, j, C), n) \in Seq(Character \cap C)
           /\ \A n \in 0 .. (j - i + 1) - 1 :
                 FlatTo(Pieces(t, i, j, C), n + 1)
                    = FlatTo(Pieces(t, i, j, C), n) \o Pieces(t, i, j, C)[n + 1]
           /\ \A k \in 1 .. j - i + 1 : Pieces(t, i, j, C)[k] \in Seq(Character \cap C)
           /\ Filtered(Part(t, i, j), C) = FlatTo(Pieces(t, i, j, C), j - i + 1)
<1>. DEFINE N == j - i + 1
            G == Pieces(t, i, j, C)
            s == Part(t, i, j)
            S == Character \cap C
<1>1. Len(t) \in Nat /\ N \in Nat /\ i \in Nat /\ i + N - 1 = j /\ N - 1 = j - i
  BY LenProperties
<1>2. ASSUME NEW k \in 1 .. N PROVE t[i + k - 1] \in Character
  BY <1>1, ElementOfSeq
<1>3. ASSUME NEW k \in 1 .. N PROVE G[k] \in Seq(S)
  <2>1. ASSUME NEW c \in Character \cap C PROVE <<c>> \in Seq(Character \cap C)
    OBVIOUS
  <2>. QED  BY <1>2, <2>1, EmptySeq DEF Pieces
<1>4. Filtered(s, C) = FlatTo(G, N)
  <2>1. Len(s) = N /\ DOMAIN s = 1 .. N /\ \A k \in 1 .. N : s[k] = t[i + k - 1]
    BY <1>1, SubSeqProperties DEF Part
  <2>2. [k \in DOMAIN s |-> IF s[k] \in C THEN <<s[k]>> ELSE << >>] = [k \in 1 .. N |-> G[k]]
    <3>. HIDE DEF s
    <3>. QED  BY <2>1 DEF Pieces
  <2>. QED  BY <2>2 DEF Filtered, FlatTo
<1>. HIDE DEF G, N, S
<1>5. /\ FlatTo(G, 0) = << >>
      /\ \A n \in 0 .. N : FlatTo(G, n) \in Seq(S)
      /\ \A n \in 0 .. N - 1 : FlatTo(G, n + 1) = FlatTo(G, n) \o G[n + 1]
  <2>1. N \in Nat /\ \A k \in 1 .. N : G[k] \in Seq(S)
    BY ONLY <1>1, <1>3
  <2>. QED  BY ONLY <2>1, FlatFacts
<1>. QED  BY <1>1, <1>3, <1>4, <1>5 DEF G, N, S

LEMMA FilteredPart ==
    ASSUME NEW t \in Seq(Character), NEW i \in 1 .. Len(t), NEW j \in i .. Len(t), NEW C
    PROVE  /\ Filtered(Part(t, i, j), C) \in Seq(Character \cap C)
           /\ Len(Filtered(Part(t, i, j), C)) = Cardinality({k \in i .. j : t[k] \in C})
<1>. DEFINE N == j - i + 1
            G == Pieces(t, i, j, C)
            s == Part(t, i, j)
            Kept(n) == {k \in i .. i + n - 1 : t[k] \in C}
            Agrees(n) == IsFiniteSet(Kept(n)) /\ Len(FlatTo(G, n)) = Cardinality(Kept(n))
            T == {n \in Nat : n <= N => Agrees(n)}
<1>1. Len(t) \in Nat /\ N \in Nat /\ i \in Nat /\ i + N - 1 = j /\ N - 1 = j - i
  BY LenProperties
<1>2. ASSUME NEW k \in 1 .. N
      PROVE  G[k] = IF t[i + k - 1] \in C THEN <<t[i + k - 1]>> ELSE << >>
  BY DEF Pieces
<1>3. \A k \in 1 .. N : G[k] \in Seq(Character \cap C)
  BY PiecesFacts
<1>4. /\ FlatTo(G, 0) = << >>
      /\ \A n \in 0 .. N : FlatTo(G, n) \in Seq(Character \cap C)
      /\ \A n \in 0 .. N - 1 : FlatTo(G, n + 1) = FlatTo(G, n) \o G[n + 1]
  BY PiecesFacts
<1>5. Filtered(s, C) = FlatTo(G, N)
  BY PiecesFacts
<1>6. 0 \in T
  <2>1. Kept(0) = {}
    BY <1>1
  <2>2. Agrees(0)
    <3>. HIDE DEF Kept, G
    <3>. QED  BY <1>4, <2>1, FS_EmptySet, EmptySeq
  <2>. HIDE DEF Agrees
  <2>. QED  BY <2>2
<1>7. ASSUME NEW n \in Nat, n \in T PROVE n + 1 \in T
  <2>. SUFFICES ASSUME n + 1 <= N PROVE Agrees(n + 1)
    <3>. HIDE DEF Agrees, N
    <3>. QED  OBVIOUS
  <2>. DEFINE k == i + n
              old == FlatTo(G, n)
  <2>1. /\ n \in 0 .. N - 1 /\ n \in 0 .. N /\ n + 1 \in 1 .. N /\ i + (n + 1) - 1 = k
        /\ k \notin Kept(n)
    BY <1>1
  <2>2. IsFiniteSet(Kept(n)) /\ Len(old) = Cardinality(Kept(n)) /\ old \in Seq(Character \cap C)
    <3>1. Agrees(n)
      <4>. HIDE DEF Agrees
      <4>. QED  BY <1>1, <1>7, <2>1
    <3>. HIDE DEF G, Kept, N
    <3>. QED  BY <1>4, <2>1, <3>1
  <2>3. FlatTo(G, n + 1) = old \o G[n + 1]
    BY <1>4, <2>1
  <2>4. Cardinality(Kept(n)) \in Nat
    BY <2>2, FS_CardinalityType
  <2>5. CASE t[k] \in C
    <3>1. Kept(n + 1) = Kept(n) \cup {k}
      BY <1>1, <2>1, <2>5
    <3>2. IsFiniteSet(Kept(n + 1)) /\ Cardinality(Kept(n + 1)) = Cardinality(Kept(n)) + 1
      <4>. HIDE DEF Kept, k
      <4>. QED  BY <2>1, <2>2, <3>1, FS_AddElement
    <3>3. G[n + 1] = <<t[k]>>
      BY <1>2, <2>1, <2>5
    <3>4. <<t[k]>> \in Seq(Character \cap C) /\ Len(<<t[k]>>) = 1
      BY <1>3, <2>1, <3>3
    <3>5. Len(FlatTo(G, n + 1)) = Len(old) + 1
      <4>. HIDE DEF G, k, old
      <4>. QED  BY <2>2, <2>3, <3>3, <3>4, ConcatProperties
    <3>. QED  BY <2>2, <3>2, <3>5
  <2>6. CASE t[k] \notin C
    <3>1. Kept(n + 1) = Kept(n)
      BY <1>1, <2>1, <2>6
    <3>2. G[n + 1] = << >>
      BY <1>2, <2>1, <2>6
    <3>3. FlatTo(G, n + 1) = old
      <4>. HIDE DEF G, old
      <4>. QED  BY <2>2, <2>3, <3>2, ConcatEmptySeq
    <3>. QED  BY <2>2, <3>1, <3>3
  <2>. QED  BY <2>5, <2>6
<1>8. N \in T
  <2>. HIDE DEF T
  <2>. QED  BY <1>1, <1>6, <1>7, InductionOverNat
<1>9. Kept(N) = {k \in i .. j : t[k] \in C} /\ N \in 0 .. N
  BY <1>1
<1>10. Filtered(s, C) \in Seq(Character \cap C) /\ Len(Filtered(s, C)) = Cardinality(Kept(N))
  <2>1. Agrees(N)
    <3>. HIDE DEF Agrees, N
    <3>. QED  BY <1>1, <1>8
  <2>. HIDE DEF N, G, s, Kept
  <2>. QED  BY <1>4, <1>5, <1>9, <2>1
<1>. QED  BY <1>9, <1>10

\* What has the shape of an IBAN is a sequence of its characters, as long as
\* what it was before its letters became large.
Solid(s) == Filtered(s, Character \ {Space})

LEMMA ShapeFacts ==
    ASSUME NEW t \in Seq(Character), NEW i \in 1 .. Len(t), NEW j \in i .. Len(t),
           HasIbanShape(Normalized(Part(t, i, j)))
    PROVE  /\ Solid(Part(t, i, j)) \in Seq(Character)
           /\ Normalized(Part(t, i, j)) \in Seq(IbanCharacter)
           /\ Len(Normalized(Part(t, i, j))) = Len(Solid(Part(t, i, j)))
           /\ 5 <= Len(Normalized(Part(t, i, j)))
<1>. DEFINE solid == Solid(Part(t, i, j))
            n == Normalized(Part(t, i, j))
            C == Character \ {Space}
<1>1. solid \in Seq(Character)
  <2>1. solid \in Seq(Character \cap C)
    <3>. HIDE DEF C
    <3>1. Filtered(Part(t, i, j), C) \in Seq(Character \cap C)
      BY FilteredPart
    <3>. QED  BY <3>1 DEF C, Solid
  <2>. HIDE DEF solid, C
  <2>2. \A k \in 1 .. Len(solid) : solid[k] \in Character
    BY <2>1, ElementOfSeq
  <2>3. solid = [k \in 1 .. Len(solid) |-> solid[k]] /\ Len(solid) \in Nat
    BY <2>1, LenProperties
  <2>. QED  BY <2>2, <2>3, IsASeq
<1>2. DOMAIN n = 1 .. Len(solid) /\ Len(solid) \in Nat
  BY <1>1, LenProperties DEF Normalized, Solid
<1>3. n \in Seq(IbanCharacter) /\ Len(n) = Len(solid)
  <2>1. \A k \in 1 .. Len(solid) : n[k] \in IbanCharacter
    BY <1>2 DEF HasIbanShape, IbanCharacter
  <2>2. n = [k \in 1 .. Len(solid) |-> n[k]]
    BY <1>2 DEF Normalized
  <2>. HIDE DEF n, solid
  <2>3. n \in Seq(IbanCharacter)
    BY <1>2, <2>1, <2>2, IsASeq
  <2>. QED  BY <1>2, <2>3, LenProperties
<1>4. 5 <= Len(n)
  <2>. HIDE DEF n
  <2>. QED  BY <1>3, LenProperties, RangesAssumption DEF HasIbanShape, n
<1>. HIDE DEF n, solid
<1>. QED  BY <1>1, <1>3, <1>4 DEF n, solid

LEMMA RearrangedFacts ==
    ASSUME NEW n \in Seq(IbanCharacter), 5 <= Len(n)
    PROVE  /\ Rearranged(n) \in Seq(IbanCharacter) /\ Len(Rearranged(n)) = Len(n)
           /\ \A k \in 1 .. Len(n) :
                 Rearranged(n)[k] = IF k <= Len(n) - 4 THEN n[k + 4] ELSE n[k - (Len(n) - 4)]
<1>. DEFINE N == Len(n)
            a == SubSeq(n, 5, N)
            b == SubSeq(n, 1, 4)
<1>1. N \in Nat /\ \A k \in 1 .. N : n[k] \in IbanCharacter
  BY LenProperties, ElementOfSeq
<1>2. a \in Seq(IbanCharacter) /\ Len(a) = N - 4 /\ \A k \in 1 .. N - 4 : a[k] = n[k + 4]
  <2>1. \A k \in 5 .. N : n[k] \in IbanCharacter
    BY <1>1
  <2>2. /\ 5 \in Int /\ N \in Int /\ 5 <= N /\ N - 5 + 1 = N - 4
        /\ \A k \in 1 .. N - 4 : 5 + k - 1 = k + 4
    BY <1>1
  <2>. HIDE DEF N
  <2>. QED  BY <2>1, <2>2, SubSeqProperties
<1>3. b \in Seq(IbanCharacter) /\ Len(b) = 4 /\ \A k \in 1 .. 4 : b[k] = n[k]
  <2>1. \A k \in 1 .. 4 : n[k] \in IbanCharacter
    BY <1>1
  <2>. QED  BY <2>1, SubSeqProperties
<1>4. (N - 4) + 4 = N /\ N - 4 \in Nat
  BY <1>1
<1>5. /\ a \o b \in Seq(IbanCharacter) /\ Len(a \o b) = N
      /\ \A k \in 1 .. N : (a \o b)[k] = IF k <= N - 4 THEN a[k] ELSE b[k - (N - 4)]
  <2>. DEFINE c == a \o b
  <2>1. /\ c \in Seq(IbanCharacter) /\ Len(c) = Len(a) + Len(b)
        /\ \A k \in 1 .. Len(a) + Len(b) : c[k] = IF k <= Len(a) THEN a[k] ELSE b[k - Len(a)]
    <3>. HIDE DEF a, b
    <3>. QED  BY <1>2, <1>3, ConcatProperties
  <2>2. Len(a) = N - 4 /\ Len(a) + Len(b) = N
    BY <1>2, <1>3, <1>4
  <2>. HIDE DEF a, b, c, N
  <2>3. /\ c \in Seq(IbanCharacter) /\ Len(c) = N
        /\ \A k \in 1 .. N : c[k] = IF k <= N - 4 THEN a[k] ELSE b[k - (N - 4)]
    BY <2>1, <2>2
  <2>. QED  BY <2>3 DEF c
<1>6. \A k \in 1 .. N : /\ k <= N - 4 => k \in 1 .. N - 4
                        /\ ~(k <= N - 4) => k - (N - 4) \in 1 .. 4
  BY <1>1
<1>. HIDE DEF a, b
<1>. QED  BY <1>2, <1>3, <1>5, <1>6 DEF Rearranged, a, b

\* What ISO 13616 calls an IBAN is one of those that valid_iban_span considers.
LEMMA IbanIsAnEnd ==
    ASSUME text \in Seq(Character), NEW i \in 1 .. Len(text), NEW j \in i .. Len(text), IbanAt(i, j)
    PROVE  j \in IbanEnds(text, i)
<1>. DEFINE s == Part(text, i, j)
            n == Normalized(s)
            m == Rearranged(n)
<1>1. /\ \A k \in i .. j : text[k] \in Alphanumeric \cup {Space}
      /\ text[j] \in Alphanumeric /\ HasIbanShape(n) /\ Number(m) % 97 = 1
  BY DEF IbanAt
<1>2. Len(Solid(s)) = Cardinality({k \in i .. j : text[k] \in Alphanumeric})
  <2>1. Len(Solid(s)) = Cardinality({k \in i .. j : text[k] \in Character \ {Space}})
    <3>. DEFINE C == Character \ {Space}
    <3>. HIDE DEF C
    <3>1. Len(Filtered(Part(text, i, j), C)) = Cardinality({k \in i .. j : text[k] \in C})
      BY FilteredPart
    <3>. QED  BY <3>1 DEF C, Solid
  <2>2. Alphanumeric \subseteq Character \ {Space}
    BY DEF Alphanumeric, Letter, Capital, Small, Digit, Character, Word, Space
  <2>3. {k \in i .. j : text[k] \in Character \ {Space}} = {k \in i .. j : text[k] \in Alphanumeric}
    BY <1>1, <2>2
  <2>. QED  BY <2>1, <2>3
<1>3. n \in Seq(IbanCharacter) /\ Len(n) = Len(Solid(s)) /\ 5 <= Len(n)
  BY <1>1, ShapeFacts
<1>4. m \in Seq(IbanCharacter)
  <2>. HIDE DEF n
  <2>. QED  BY <1>3, RearrangedFacts
<1>5. FoldLeft(Remainder, 0, m) = 1
  <2>. HIDE DEF m
  <2>. QED  BY <1>1, <1>4, RemainderOfNumber
<1>6. IsValidIban(s)
  BY <1>1, <1>5 DEF IsValidIban
<1>7. Cardinality({k \in i .. j : text[k] \in Alphanumeric}) \in MinIban .. MaxIban
  <2>1. Len(n) \in MinIban .. MaxIban
    BY <1>1 DEF HasIbanShape
  <2>. HIDE DEF n
  <2>. QED  BY <1>2, <1>3, <2>1
<1>. HIDE DEF n, m
<1>. QED  BY <1>1, <1>6, <1>7 DEF IbanEnds

-----------------------------------------------------------------------------
(* What a pass has found.                                                    *)

\* Not behind a separator that could belong to a longer card number.
Apart(i) == pass = "iban" \/ ~(i > 2 /\ IsSeparator(text, i - 1))

\* A match that can be replaced is, from its start, or an IBAN in another span.
Found(i) == \E s \in spans : /\ Covers(s, i)
                             /\ s.first = i \/ pass = "iban"
                             /\ s.first = i => s.last \in Replaces(i)

FoundInv ==
    /\ \A s \in spans : s = [first |-> s.first, last |-> s.last]
    /\ \A i \in 1 .. Len(text) : i < from /\ Matches(i) /\ Apart(i) /\ Replaces(i) # {} => Found(i)
    /\ from <= last_end => \E s \in spans : s.first < from /\ s.last = last_end
    /\ pass = "credit_card" => last_end < from
    /\ pc = "end" => \A i \in from .. Len(text) : ~Matches(i)

\* The search goes on behind a match, and misses none that stands apart.
LEMMA NoneInside ==
    ASSUME text \in Seq(Character), pass \in {"iban", "credit_card"},
           NEW i \in 1 .. Len(text), Matches(i),
           NEW h \in i + 1 .. ResumeAfter(i) - 1, h \in 1 .. Len(text), Matches(h)
    PROVE  ~Apart(h)
<1>1. Len(text) \in Nat
  BY LenProperties
<1>2. Digit \cap Letter = {} /\ Digit \subseteq Word /\ Space \notin Digit /\ Dash \notin Digit
  BY DEF Digit, Letter, Capital, Small, Word, Alphanumeric, Space, Dash
<1>3. CASE pass = "iban"
  <2>1. text[i + 1] \in Letter /\ text[i + 2] \in Digit /\ text[i + 3] \in Digit
    BY <1>3 DEF Matches, IbanStart
  <2>2. text[h] \in Letter /\ text[h + 1] \in Letter
    BY <1>3 DEF Matches, IbanStart
  <2>3. h \in i + 1 .. i + 3
    BY <1>1, <1>3 DEF ResumeAfter
  <2>4. h = i + 1 \/ h = i + 2 \/ h = i + 3
    BY <1>1, <2>3
  <2>5. (i + 1) + 1 = i + 2
    BY <1>1
  <2>. QED  BY <1>2, <2>1, <2>2, <2>4, <2>5
<1>4. CASE pass # "iban"
  <2>. DEFINE e == Max(CardEnds(text, i))
  <2>1. e \in CardEnds(text, i)
    <3>1. CardEnds(text, i) # {} /\ CardEnds(text, i) \in SUBSET (1 .. Len(text))
      BY <1>1, <1>4 DEF Matches, CardStart, CardEnds
    <3>. QED  BY <1>1, <3>1, MaxFacts
  <2>2. /\ e \in i .. Len(text) /\ text[i] \in Digit
        /\ \A k \in i + 1 .. e - 1 : text[k] \in Digit \/ IsSeparator(text, k)
    BY <2>1 DEF CardEnds
  <2>3. h \in i + 1 .. e
    BY <1>1, <1>4, <2>2 DEF ResumeAfter
  <2>4. text[h] \in Digit /\ Boundary(text, h)
    BY <1>4 DEF Matches, CardStart, CardEnds
  <2>5. text[h - 1] \notin Word
    BY <1>1, <1>2, <2>3, <2>4 DEF Boundary
  <2>6. h - 1 # i
    BY <1>2, <2>2, <2>5
  <2>7. h - 1 \in i + 1 .. e - 1 /\ h > 2
    BY <1>1, <2>2, <2>3, <2>6
  <2>8. IsSeparator(text, h - 1)
    BY <1>2, <2>2, <2>5, <2>7
  <2>. QED  BY <1>4, <2>7, <2>8 DEF Apart
<1>. QED  BY <1>3, <1>4

LEMMA InitFoundInv == Init => FoundInv
  BY DEF Init, FoundInv

LEMMA FoundInvNext == PassInv /\ FoundInv /\ [Next]_vars => FoundInv'
<1>. SUFFICES ASSUME PassInv, FoundInv, [Next]_vars PROVE FoundInv'
  OBVIOUS
<1>0. /\ Len(text) \in Nat /\ text \in Seq(Character) /\ pass \in {"iban", "credit_card"}
      /\ from \in Nat \ {0} /\ last_end \in 0 .. Len(text)
      /\ \A s \in spans : s.first \in 1 .. Len(text) /\ s.last \in s.first .. last_end
  BY LenProperties DEF PassInv
<1>a. ASSUME UNCHANGED <<text, pass>>, NEW i
      PROVE  /\ Matches(i)' <=> Matches(i)
             /\ Replaces(i)' = Replaces(i)
             /\ Apart(i)' <=> Apart(i)
  BY <1>a DEF Matches, Replaces, Apart
<1>b. ASSUME UNCHANGED <<text, pass>>, spans \subseteq spans', NEW i, Found(i) PROVE Found(i)'
  <2>1. PICK s \in spans : /\ Covers(s, i)
                           /\ s.first = i \/ pass = "iban"
                           /\ s.first = i => s.last \in Replaces(i)
    BY <1>b DEF Found
  <2>. QED  BY <1>a, <1>b, <2>1 DEF Found
<1>1. CASE ReplaceMatch
  <2>1. PICK i \in from .. Len(text) :
          /\ pc = "scan" /\ IsNext(i) /\ i > last_end
          /\ \E j \in Replaces(i) :
                /\ last_end' = j
                /\ spans' = spans \cup {[first |-> i, last |-> j]}
          /\ from' = ResumeAfter(i)
          /\ UNCHANGED <<text, round, pass, pc>>
    BY <1>1 DEF ReplaceMatch
  <2>2. PICK j \in Replaces(i) : last_end' = j /\ spans' = spans \cup {[first |-> i, last |-> j]}
    BY <2>1
  <2>. DEFINE new == [first |-> i, last |-> j]
  <2>3. new \in spans' /\ new.first = i /\ new.last = j
    BY <2>2
  <2>4. j \in i .. Len(text) /\ from' \in Nat /\ i < from' /\ i \in 1 .. Len(text) /\ Matches(i)
    BY <1>0, <2>1, MatchFacts DEF IsNext
  <2>5. \A s \in spans' : s = [first |-> s.first, last |-> s.last]
    BY <2>2 DEF FoundInv
  <2>6. ASSUME NEW h \in 1 .. Len(text), h < from', Matches(h), Apart(h), Replaces(h) # {}
        PROVE  Found(h)'
    <3>1. CASE h < from
      BY <1>b, <2>1, <2>2, <2>6, <3>1 DEF FoundInv
    <3>2. CASE h = i
      <4>1. Covers(new, h)
        BY <1>0, <2>3, <2>4, <3>2 DEF Covers
      <4>2. Replaces(h)' = Replaces(h)
        BY <1>a, <2>1
      <4>. HIDE DEF new
      <4>. QED  BY <2>2, <2>3, <3>2, <4>1, <4>2 DEF Found
    <3>3. CASE h \in from .. i - 1
      BY <2>1, <2>6, <3>3 DEF IsNext
    <3>4. CASE h \in i + 1 .. from' - 1
      BY <1>0, <2>1, <2>4, <2>6, <3>4, NoneInside
    <3>. QED  BY <1>0, <2>1, <2>4, <2>6, <3>1, <3>2, <3>3, <3>4
  <2>7. \E s \in spans' : s.first < from' /\ s.last = last_end'
    <3>. HIDE DEF new
    <3>. QED  BY <2>2, <2>3, <2>4
  <2>8. pass = "credit_card" => last_end' < from'
    <3>. SUFFICES ASSUME pass = "credit_card" PROVE j < from'
      BY <2>2
    <3>1. j = Max(CardEnds(text, i)) /\ from' = Max(CardEnds(text, i)) + 1
      BY <2>1 DEF Replaces, ResumeAfter
    <3>. QED  BY <1>0, <2>4, <3>1
  <2>9. UNCHANGED <<text, pass>> /\ pc' # "end"
    BY <2>1
  <2>. HIDE DEF new
  <2>10. \A h \in 1 .. Len(text') :
            h < from' /\ Matches(h)' /\ Apart(h)' /\ Replaces(h)' # {} => Found(h)'
    BY <1>a, <2>6, <2>9
  <2>. QED  BY <2>5, <2>7, <2>8, <2>9, <2>10 DEF FoundInv
<1>2. CASE SkipMatch
  <2>1. PICK i \in from .. Len(text) :
          /\ pc = "scan" /\ IsNext(i)
          /\ i <= last_end \/ Replaces(i) = {}
          /\ from' = ResumeAfter(i)
          /\ UNCHANGED <<text, round, pass, pc, last_end, output, spans>>
    BY <1>2 DEF SkipMatch
  <2>2. from' \in Nat /\ i < from' /\ i \in 1 .. Len(text) /\ Matches(i)
    BY <1>0, <2>1, MatchFacts DEF IsNext
  <2>3. ASSUME NEW h \in 1 .. Len(text), h < from', Matches(h), Apart(h), Replaces(h) # {}
        PROVE  Found(h)'
    <3>1. CASE h < from
      BY <1>b, <2>1, <2>3, <3>1 DEF FoundInv
    <3>2. CASE h = i
      <4>1. i <= last_end /\ from <= last_end
        BY <1>0, <2>1, <2>3, <3>2
      <4>2. PICK s \in spans : s.first < from /\ s.last = last_end
        BY <4>1 DEF FoundInv
      <4>3. pass = "iban"
        BY <1>0, <4>1 DEF FoundInv
      <4>4. Covers(s, i) /\ s.first # i
        BY <1>0, <2>1, <4>1, <4>2 DEF Covers
      <4>5. Found(h)
        BY <3>2, <4>3, <4>4 DEF Found
      <4>. QED  BY <1>b, <2>1, <4>5
    <3>3. CASE h \in from .. i - 1
      BY <2>1, <2>3, <3>3 DEF IsNext
    <3>4. CASE h \in i + 1 .. from' - 1
      BY <1>0, <2>1, <2>2, <2>3, <3>4, NoneInside
    <3>. QED  BY <1>0, <2>1, <2>2, <2>3, <3>1, <3>2, <3>3, <3>4
  <2>4. from' <= last_end => \E s \in spans : s.first < from' /\ s.last = last_end
    <3>. SUFFICES ASSUME from' <= last_end PROVE \E s \in spans : s.first < from' /\ s.last = last_end
      OBVIOUS
    <3>1. from <= last_end /\ from < from'
      BY <1>0, <2>1, <2>2
    <3>2. PICK s \in spans : s.first < from /\ s.last = last_end
      BY <3>1 DEF FoundInv
    <3>. QED  BY <1>0, <2>2, <3>1, <3>2
  <2>5. pass = "credit_card" => last_end < from'
    BY <1>0, <2>1, <2>2 DEF FoundInv
  <2>6. \A h \in 1 .. Len(text') :
            h < from' /\ Matches(h)' /\ Apart(h)' /\ Replaces(h)' # {} => Found(h)'
    BY <1>a, <2>1, <2>3
  <2>. QED  BY <2>1, <2>4, <2>5, <2>6 DEF FoundInv
<1>3. CASE EndPass
  <2>1. /\ pc = "scan" /\ UNCHANGED <<text, round, pass, from, last_end, spans>>
        /\ \A i \in from .. Len(text) : ~IsNext(i)
    BY <1>3 DEF EndPass
  <2>2. ASSUME NEW i \in from .. Len(text), Matches(i) PROVE FALSE
    <3>. DEFINE T == {k \in from .. Len(text) : Matches(k)}
    <3>1. T \in SUBSET Nat /\ T # {}
      BY <1>0, <2>2
    <3>2. PICK k \in T : \A m \in T : k <= m
      BY <3>1, LeastNat
    <3>3. \A h \in from .. k - 1 : ~Matches(h)
      BY <1>0, <3>2
    <3>. QED  BY <2>1, <3>2, <3>3 DEF IsNext
  <2>3. \A i : Found(i) => Found(i)'
    BY <1>b, <2>1
  <2>. QED  BY <1>a, <2>1, <2>2, <2>3 DEF FoundInv
<1>4. CASE NextPass
  <2>1. /\ pc' = "scan" /\ from' = 1 /\ last_end' = 0 /\ spans' = {}
    BY <1>4 DEF NextPass
  <2>2. \A i \in 1 .. Len(text') : ~(i < 1)
    OBVIOUS
  <2>. QED  BY <2>1, <2>2 DEF FoundInv
<1>5. CASE UNCHANGED vars
  <2>1. UNCHANGED <<text, pass, pc, from, last_end, spans>>
    BY <1>5 DEF vars
  <2>2. \A i : Found(i) => Found(i)'
    BY <1>b, <2>1
  <2>. QED  BY <1>a, <2>1, <2>2 DEF FoundInv
<1>. QED  BY <1>1, <1>2, <1>3, <1>4, <1>5 DEF Next

\* An IBAN that starts a word, spaced or not, is hidden from its first character
\* on, and to its last unless it starts inside another span.
THEOREM IbansAlwaysHidden == Spec => []IbansHidden
<1>1. PassInv /\ FoundInv => IbansHidden
  <2>. SUFFICES ASSUME PassInv, FoundInv, pass = "iban", pc = "end",
                       NEW i \in DOMAIN text, NEW j \in DOMAIN text, i < j, IbanAt(i, j)
                PROVE  \E s \in spans : Covers(s, i) /\ (s.first = i => j <= s.last)
    BY DEF IbansHidden
  <2>1. /\ text \in Seq(Character) /\ Len(text) \in Nat /\ from \in Nat \ {0}
        /\ i \in 1 .. Len(text) /\ j \in i .. Len(text)
    BY LenProperties DEF PassInv
  <2>2. j \in IbanEnds(text, i) /\ IbanEnds(text, i) \in SUBSET (1 .. Len(text))
    <3>1. j \in IbanEnds(text, i)
      BY <2>1, IbanIsAnEnd
    <3>2. IbanEnds(text, i) \subseteq i .. Len(text) /\ i .. Len(text) \subseteq 1 .. Len(text)
      BY <2>1 DEF IbanEnds
    <3>. QED  BY <3>1, <3>2
  <2>3. j <= Max(IbanEnds(text, i))
    BY <2>1, <2>2, MaxFacts
  <2>4. Matches(i) /\ Apart(i) /\ Replaces(i) = {Max(IbanEnds(text, i))}
    BY <2>2 DEF Matches, Apart, Replaces, ValidIbanSpan, IbanAt
  <2>5. i < from
    BY <2>1, <2>4 DEF FoundInv
  <2>6. Found(i)
    BY <2>1, <2>4, <2>5 DEF FoundInv
  <2>. QED  BY <2>3, <2>4, <2>6 DEF Found
<1>. QED  BY <1>1, InitPassInv, PassInvNext, InitFoundInv, FoundInvNext, PTL DEF Spec

-----------------------------------------------------------------------------
(* Cards: is_luhn_valid's loop and the sum that ISO 7812 asks for.           *)
Accounts == [sum : Nat, double : BOOLEAN]
Nothing == [sum |-> 0, double |-> FALSE]

\* A digit that is doubled, with its tens added.
Doubled(c) == IF 2 * c > 9 THEN 2 * c - 9 ELSE 2 * c

LuhnTurn(acc, c) == [sum |-> acc.sum + (IF ~acc.double THEN c ELSE Doubled(c)),
                     double |-> ~acc.double]

LEMMA LuhnTurnFacts ==
    ASSUME NEW a \in Accounts, NEW c \in Digit
    PROVE  LuhnTurn(a, c) \in Accounts
<1>1. Doubled(c) \in Nat /\ c \in Nat
  BY DEF Doubled, Digit
<1>. QED  BY <1>1 DEF LuhnTurn, Accounts

LEMMA LuhnRuns ==
    ASSUME NEW n \in Seq(Digit)
    PROVE  \E f \in [0 .. Len(n) -> Accounts] :
              /\ f[0] = Nothing /\ \A j \in 1 .. Len(n) : f[j] = LuhnTurn(f[j - 1], n[j])
              /\ FoldLeft(LuhnTurn, Nothing, n) = f[Len(n)]
<1>. DEFINE D == 1 .. Len(n)
            step == [p \in D \X (Accounts) |-> LuhnTurn(p[2], n[p[1]])]
            Value(g, d) == IF d = {} THEN Nothing
                           ELSE LET x == Max(d) IN LuhnTurn(g[d \ {x}], n[x])
            iter == CHOOSE g : g = [d \in SUBSET D |-> Value(g, d)]
<1>0. DOMAIN n = D
  BY LenProperties
<1>1. FoldLeft(LuhnTurn, Nothing, n) = iter[D]
  BY <1>0 DEF FoldLeft, MapThenFoldSet
<1>2. Len(n) \in Nat /\ Nothing \in Accounts /\ \A i \in D : n[i] \in Digit
  BY LenProperties, ElementOfSeq DEF Accounts, Nothing
<1>3. step \in [D \X (Accounts) -> Accounts]
  BY <1>2, LuhnTurnFacts
<1>4. PICK g \in [SUBSET D -> Accounts] : IsMaxFold(g, Len(n), Nothing, step)
  <2>. HIDE DEF step
  <2>. QED  BY <1>2, <1>3, MaxFoldExists
<1>5. ASSUME NEW d \in SUBSET D PROVE g[d] = Value(g, d)
  <2>1. d # {} => Max(d) \in D /\ d \ {Max(d)} \in SUBSET D
    BY <1>4 DEF IsMaxFold
  <2>. QED  BY <1>4, <2>1 DEF IsMaxFold
<1>6. iter = [d \in SUBSET D |-> Value(iter, d)]
  <2>. HIDE DEF Value, D
  <2>1. g = [d \in SUBSET D |-> Value(g, d)]
    BY <1>5
  <2>. QED  BY <2>1
<1>. HIDE DEF iter
<1>7. ASSUME NEW d \in SUBSET D PROVE iter[d] = Value(iter, d)
  <2>. HIDE DEF Value, D
  <2>. QED  BY <1>6
<1>8. ASSUME NEW d \in SUBSET D, d # {}, iter[d \ {Max(d)}] \in Accounts
      PROVE  iter[d] = step[<<Max(d), iter[d \ {Max(d)}]>>]
  <2>1. Max(d) \in D
    BY <1>4, <1>8 DEF IsMaxFold
  <2>. QED  BY <1>7, <1>8, <2>1
<1>9. iter[{}] = Nothing
  BY <1>7
<1>10. PICK f \in [0 .. Len(n) -> Accounts] : RunsTo(f, Len(n), Nothing, step, iter[D])
  <2>. HIDE DEF step
  <2>. QED  BY <1>2, <1>3, <1>8, <1>9, MaxFoldRuns
<1>11. ASSUME NEW j \in 1 .. Len(n) PROVE f[j] = LuhnTurn(f[j - 1], n[j])
  <2>1. j \in D /\ j - 1 \in 0 .. Len(n)
    BY <1>2
  <2>. QED  BY <1>10, <2>1 DEF RunsTo, IsRun
<1>. QED  BY <1>1, <1>10, <1>11 DEF RunsTo, IsRun

\* What a digit adds to the sum ISO 7812 asks for.
Weights(d) == [i \in DOMAIN d |-> IF (Len(d) - i) % 2 = 0 THEN d[i]
                                  ELSE <<0, 2, 4, 6, 8, 1, 3, 5, 7, 9>>[d[i] + 1]]

LEMMA WeightFacts ==
    ASSUME NEW d \in Seq(Digit), NEW i \in 1 .. Len(d)
    PROVE  /\ Weights(d)[i] = IF (Len(d) - i) % 2 = 0 THEN d[i] ELSE Doubled(d[i])
           /\ Weights(d)[i] \in 0 .. 9
<1>1. d[i] \in Digit /\ DOMAIN d = 1 .. Len(d)
  BY LenProperties, ElementOfSeq
<1>2. ASSUME NEW c \in Digit
      PROVE  <<0, 2, 4, 6, 8, 1, 3, 5, 7, 9>>[c + 1] = Doubled(c) /\ Doubled(c) \in 0 .. 9 /\ c \in 0 .. 9
  <2>1. \/ c = 0 \/ c = 1 \/ c = 2 \/ c = 3 \/ c = 4 \/ c = 5 \/ c = 6 \/ c = 7 \/ c = 8 \/ c = 9
    BY DEF Digit
  <2>. QED  BY <2>1 DEF Doubled
<1>. QED  BY <1>1, <1>2 DEF Weights

\* The loop goes from the last digit to the first.
LEMMA LuhnIsCheckSum ==
    ASSUME NEW d \in Seq(Digit)
    PROVE  IsLuhnValid(d) <=> CheckSum(d) % 10 = 0
<1>. DEFINE N == Len(d)
            r == Reverse(d)
            W == Weights(d)
            SumOf(j) == SumFunctionOnSet(W, N - j + 1 .. N)
<1>1. N \in Nat /\ DOMAIN d = 1 .. N /\ \A i \in 1 .. N : d[i] \in Digit
  BY LenProperties, ElementOfSeq
<1>2. r \in Seq(Digit) /\ Len(r) = N /\ \A j \in 1 .. N : r[j] = d[N - j + 1]
  <2>1. \A j \in 1 .. N : d[N - j + 1] \in Digit
    BY <1>1
  <2>2. r = [j \in 1 .. N |-> d[N - j + 1]]
    BY DEF Reverse
  <2>3. r \in Seq(Digit)
    BY <1>1, <2>1, <2>2, IsASeq
  <2>. QED  BY <1>1, <2>2, <2>3, LenProperties
<1>3. PICK f \in [0 .. N -> Accounts] :
         /\ f[0] = Nothing /\ \A j \in 1 .. N : f[j] = LuhnTurn(f[j - 1], r[j])
         /\ FoldLeft(LuhnTurn, Nothing, r) = f[N]
  <2>. HIDE DEF r, N
  <2>. QED  BY <1>2, LuhnRuns
<1>4. IsLuhnValid(d) <=> f[N].sum % 10 = 0
  BY <1>3 DEF IsLuhnValid, LuhnTurn, Doubled, Nothing
<1>. DEFINE Agrees(j) == (f[j].double <=> j % 2 = 1) /\ f[j].sum = SumOf(j)
            T == {j \in Nat : j <= N => Agrees(j)}
<1>5. 0 \in T
  <2>1. N - 0 + 1 .. N = {} /\ IsFiniteSet({})
    BY <1>1, FS_EmptySet
  <2>2. SumFunctionOnSet(W, {}) = 0
    <3>. HIDE DEF W
    <3>1. \A x \in {} : W[x] \in Nat
      OBVIOUS
    <3>. QED  BY <2>1, <3>1, SumTakesOut
  <2>3. f[0].sum = 0 /\ ~f[0].double
    BY <1>3 DEF Nothing
  <2>4. Agrees(0)
    <3>. HIDE DEF W
    <3>. QED  BY <2>1, <2>2, <2>3
  <2>. HIDE DEF Agrees
  <2>. QED  BY <2>4
<1>6. ASSUME NEW j \in Nat, j \in T PROVE j + 1 \in T
  <2>. SUFFICES ASSUME j + 1 <= N PROVE Agrees(j + 1)
    <3>. HIDE DEF Agrees, N
    <3>. QED  OBVIOUS
  <2>. DEFINE i == N - j
  <2>1. /\ i \in 1 .. N /\ N - i = j /\ N - (j + 1) + 1 = i /\ N - j + 1 = i + 1
        /\ j + 1 \in 1 .. N /\ (j + 1) - 1 = j /\ j \in 0 .. N /\ i + 1 .. N = (i .. N) \ {i}
        /\ i \in i .. N /\ i .. N \subseteq 1 .. N
    BY <1>1
  <2>2. f[j] \in Accounts /\ (f[j].double <=> j % 2 = 1) /\ f[j].sum = SumOf(j)
    <3>1. Agrees(j)
      <4>. HIDE DEF Agrees, N
      <4>. QED  BY <1>6, <2>1
    <3>. QED  BY <2>1, <3>1
  <2>. HIDE DEF i
  <2>3. f[j + 1] = LuhnTurn(f[j], d[i])
    BY <1>2, <1>3, <2>1
  <2>4. W[i] = IF j % 2 = 0 THEN d[i] ELSE Doubled(d[i])
    <3>1. W[i] = IF (Len(d) - i) % 2 = 0 THEN d[i] ELSE Doubled(d[i])
      BY <2>1, WeightFacts
    <3>. QED  BY <2>1, <3>1
  <2>5. j % 2 = 0 <=> ~(j % 2 = 1)
    OBVIOUS
  <2>6. f[j + 1].sum = f[j].sum + W[i]
    <3>. HIDE DEF W, SumOf
    <3>. QED  BY <2>2, <2>3, <2>4, <2>5 DEF LuhnTurn
  <2>7. f[j + 1].double <=> (j + 1) % 2 = 1
    <3>1. (j + 1) % 2 = 1 <=> ~(j % 2 = 1)
      OBVIOUS
    <3>2. f[j + 1].double = ~f[j].double
      BY <2>3 DEF LuhnTurn
    <3>. HIDE DEF SumOf
    <3>. QED  BY <2>2, <3>1, <3>2
  <2>8. SumOf(j + 1) = W[i] + SumOf(j) /\ W[i] \in Nat /\ SumOf(j) \in Nat
    <3>1. ASSUME NEW x \in i .. N PROVE W[x] \in Nat
      <4>1. x \in 1 .. Len(d)
        BY <2>1
      <4>2. W[x] \in 0 .. 9
        BY <4>1, WeightFacts
      <4>. HIDE DEF W
      <4>. QED  BY <4>2
    <3>2. IsFiniteSet(i .. N) /\ IsFiniteSet(i + 1 .. N)
      BY <1>1, <2>1, FS_Interval
    <3>. HIDE DEF W, N
    <3>3. SumFunctionOnSet(W, i .. N) = W[i] + SumFunctionOnSet(W, (i .. N) \ {i})
      <4>1. i \in i .. N
        BY ONLY <1>1, <2>1
      <4>2. \A x \in i .. N : W[x] \in Nat
        BY ONLY <3>1
      <4>. QED  BY ONLY <3>2, <4>1, <4>2, SumTakesOut
    <3>4. SumFunctionOnSet(W, i + 1 .. N) \in Nat
      <4>1. \A x \in i + 1 .. N : W[x] \in Nat
        BY <2>1, <3>1
      <4>. QED  BY ONLY <3>2, <4>1, SumTakesOut
    <3>. QED  BY <2>1, <3>1, <3>3, <3>4
  <2>9. f[j + 1].sum = SumOf(j + 1)
    <3>. HIDE DEF SumOf, W
    <3>. QED  BY <2>2, <2>6, <2>8
  <2>. QED  BY <2>7, <2>9
<1>7. Agrees(N)
  <2>1. N \in T
    <3>. HIDE DEF T
    <3>. QED  BY <1>1, <1>5, <1>6, InductionOverNat
  <2>. HIDE DEF Agrees
  <2>. QED  BY <1>1, <2>1
<1>8. CheckSum(d) = SumOf(N)
  <2>1. N - N + 1 .. N = DOMAIN d /\ DOMAIN W = DOMAIN d
    BY <1>1 DEF Weights
  <2>. QED  BY <2>1 DEF CheckSum, SumFunction, Weights
<1>. HIDE DEF SumOf
<1>. QED  BY <1>4, <1>7, <1>8

LEMMA DigitsOnlyFacts ==
    ASSUME NEW t \in Seq(Character), NEW i \in 1 .. Len(t), NEW j \in i .. Len(t)
    PROVE  DigitsOnly(Part(t, i, j)) \in Seq(Digit)
<1>1. Character \cap Digit = Digit
  BY DEF Character, Word, Alphanumeric
<1>2. Filtered(Part(t, i, j), Digit) \in Seq(Character \cap Digit)
  BY FilteredPart
<1>. QED  BY <1>1, <1>2 DEF DigitsOnly

\* A card number by itself is hidden whole.
THEOREM CardsAlwaysHidden == Spec => []CardsHidden
<1>1. PassInv /\ FoundInv => CardsHidden
  <2>. SUFFICES ASSUME PassInv, FoundInv, pass = "credit_card", pc = "end",
                       NEW i \in DOMAIN text, NEW j \in DOMAIN text, i < j, DigitRun(i, j),
                       Len(DigitsOnly(Part(text, i, j))) \in MinCard .. MaxCard,
                       CheckSum(DigitsOnly(Part(text, i, j))) % 10 = 0
                PROVE  [first |-> i, last |-> j] \in spans
    BY DEF CardsHidden
  <2>. DEFINE ends == CardEnds(text, i)
  <2>1. /\ text \in Seq(Character) /\ Len(text) \in Nat /\ from \in Nat \ {0}
        /\ i \in 1 .. Len(text) /\ j \in i .. Len(text) /\ j \in 1 .. Len(text)
    BY LenProperties DEF PassInv
  <2>2. j \in ends
    BY <2>1 DEF CardEnds, DigitRun
  <2>3. ends \in SUBSET (1 .. Len(text))
    <3>1. ends \subseteq i .. Len(text) /\ i .. Len(text) \subseteq 1 .. Len(text)
      BY <2>1 DEF CardEnds
    <3>. QED  BY <3>1
  <2>4. Max(ends) \in ends /\ j <= Max(ends)
    <3>. HIDE DEF ends
    <3>. QED  BY <2>1, <2>2, <2>3, MaxFacts
  <2>. DEFINE e == Max(ends)
  <2>5. e = j
    <3>. SUFFICES ASSUME e # j PROVE FALSE
      OBVIOUS
    <3>1. /\ e \in j + 1 .. Len(text) /\ text[e] \in Digit
          /\ \A k \in i + 1 .. e - 1 : text[k] \in Digit \/ IsSeparator(text, k)
      <4>1. e \in ends /\ j <= e
        BY <2>4
      <4>. HIDE DEF e
      <4>2. /\ e \in i .. Len(text) /\ text[e] \in Digit
            /\ \A k \in i + 1 .. e - 1 : text[k] \in Digit \/ IsSeparator(text, k)
        BY <4>1 DEF CardEnds
      <4>. QED  BY <2>1, <4>1, <4>2
    <3>2. text[j] \in Word /\ Boundary(text, j + 1) /\ (j + 1) - 1 = j /\ j + 1 > 1 /\ j + 1 <= Len(text)
      BY <2>1, <3>1 DEF DigitRun, Word, Alphanumeric
    <3>3. text[j + 1] \notin Word
      BY <3>2 DEF Boundary
    <3>4. text[j + 1] \notin Digit
      BY <3>3 DEF Word, Alphanumeric
    <3>5. j + 1 \in i + 1 .. e - 1 /\ j + 1 < Len(text)
      <4>1. e # j + 1
        BY <3>1, <3>4
      <4>. HIDE DEF e
      <4>. QED  BY <2>1, <3>1, <4>1
    <3>6. IsSeparator(text, j + 1)
      BY <3>1, <3>4, <3>5
    <3>. QED  BY <3>5, <3>6 DEF DigitRun
  <2>6. IsLuhnValid(DigitsOnly(Part(text, i, j)))
    BY <2>1, DigitsOnlyFacts, LuhnIsCheckSum
  <2>7. Matches(i) /\ Apart(i) /\ Replaces(i) = {j}
    <3>1. Matches(i)
      BY <2>2 DEF Matches, CardStart
    <3>2. Apart(i)
      BY DEF Apart, DigitRun
    <3>3. Replaces(i) = {j}
      BY <2>5, <2>6 DEF Replaces
    <3>. QED  BY <3>1, <3>2, <3>3
  <2>8. i < from
    BY <2>1, <2>7 DEF FoundInv
  <2>9. Found(i)
    BY <2>1, <2>7, <2>8 DEF FoundInv
  <2>10. PICK s \in spans : s.first = i /\ s.last = j
    BY <2>7, <2>9 DEF Found
  <2>. QED  BY <2>10 DEF FoundInv
<1>. QED  BY <1>1, InitPassInv, PassInvNext, InitFoundInv, FoundInvNext, PTL DEF Spec

-----------------------------------------------------------------------------
(* One digit for another.                                                    *)

\* Two sequences differ in one place, where one has x and the other y.
OneDiffers(a, b, q, x, y) ==
    /\ Len(a) = Len(b) /\ q \in 1 .. Len(a) /\ a[q] = x /\ b[q] = y
    /\ \A k \in 1 .. Len(a) : k # q => a[k] = b[k]

LEMMA OneDiffersLast ==
    ASSUME NEW S, NEW a \in Seq(S), NEW x \in S, NEW y \in S
    PROVE  OneDiffers(a \o <<x>>, a \o <<y>>, Len(a) + 1, x, y)
<1>1. <<x>> \in Seq(S) /\ <<y>> \in Seq(S) /\ Len(a) \in Nat
  BY LenProperties
<1>2. /\ Len(a \o <<x>>) = Len(a) + 1 /\ Len(a \o <<y>>) = Len(a) + 1
      /\ \A k \in 1 .. Len(a) + 1 : (a \o <<x>>)[k] = IF k <= Len(a) THEN a[k] ELSE <<x>>[k - Len(a)]
      /\ \A k \in 1 .. Len(a) + 1 : (a \o <<y>>)[k] = IF k <= Len(a) THEN a[k] ELSE <<y>>[k - Len(a)]
  BY <1>1, ConcatProperties
<1>3. (Len(a) + 1) - Len(a) = 1 /\ <<x>>[1] = x /\ <<y>>[1] = y /\ Len(a) + 1 \in 1 .. Len(a) + 1
  BY <1>1
<1>4. (a \o <<x>>)[Len(a) + 1] = x /\ (a \o <<y>>)[Len(a) + 1] = y
  BY <1>1, <1>2, <1>3
<1>5. \A k \in 1 .. Len(a) + 1 : k # Len(a) + 1 => k <= Len(a)
  BY <1>1
<1>. QED  BY <1>2, <1>3, <1>4, <1>5 DEF OneDiffers

LEMMA OneDiffersThen ==
    ASSUME NEW S, NEW a \in Seq(S), NEW b \in Seq(S), NEW c \in Seq(S), NEW q, NEW x, NEW y,
           OneDiffers(a, b, q, x, y)
    PROVE  OneDiffers(a \o c, b \o c, q, x, y)
<1>1. Len(a) \in Nat /\ Len(c) \in Nat /\ Len(b) = Len(a) /\ q \in 1 .. Len(a)
  BY LenProperties DEF OneDiffers
<1>. DEFINE N == Len(a) + Len(c)
<1>2. /\ Len(a \o c) = N /\ Len(b \o c) = N
      /\ \A k \in 1 .. N : (a \o c)[k] = IF k <= Len(a) THEN a[k] ELSE c[k - Len(a)]
      /\ \A k \in 1 .. N : (b \o c)[k] = IF k <= Len(a) THEN b[k] ELSE c[k - Len(a)]
  <2>1. /\ Len(a \o c) = N
        /\ \A k \in 1 .. N : (a \o c)[k] = IF k <= Len(a) THEN a[k] ELSE c[k - Len(a)]
    BY ConcatProperties
  <2>2. /\ Len(b \o c) = Len(b) + Len(c)
        /\ \A k \in 1 .. Len(b) + Len(c) :
              (b \o c)[k] = IF k <= Len(b) THEN b[k] ELSE c[k - Len(b)]
    BY ConcatProperties
  <2>. QED  BY <1>1, <2>1, <2>2
<1>3. q \in 1 .. N /\ q <= Len(a) /\ \A k \in 1 .. N : k <= Len(a) => k \in 1 .. Len(a)
  BY <1>1
<1>. HIDE DEF N
<1>. QED  BY <1>1, <1>2, <1>3 DEF OneDiffers

\* Of one of the characters that are kept, another: what is kept differs there.
LEMMA FilteredTypo ==
    ASSUME NEW t \in Seq(Character), NEW u \in Seq(Character), Len(u) = Len(t),
           NEW i \in 1 .. Len(t), NEW j \in i .. Len(t), NEW C, NEW h \in i .. j,
           t[h] \in C, u[h] \in C, \A k \in i .. j : k # h => u[k] = t[k]
    PROVE  \E q \in Nat : OneDiffers(Filtered(Part(t, i, j), C), Filtered(Part(u, i, j), C),
                                     q, t[h], u[h])
<1>. DEFINE N == j - i + 1
            m == h - i
            G == Pieces(t, i, j, C)
            H == Pieces(u, i, j, C)
            S == Character \cap C
            q == Len(FlatTo(G, m)) + 1
            Agrees(n) == OneDiffers(FlatTo(G, m + 1 + n), FlatTo(H, m + 1 + n), q, t[h], u[h])
            T == {n \in Nat : m + 1 + n <= N => Agrees(n)}
<1>1. /\ Len(t) \in Nat /\ N \in Nat /\ m \in 0 .. N - 1 /\ m + 1 \in 1 .. N /\ i + (m + 1) - 1 = h
      /\ i \in 1 .. Len(u) /\ j \in i .. Len(u) /\ h \in 1 .. Len(t)
  BY LenProperties
<1>2. /\ \A n \in 0 .. N : FlatTo(G, n) \in Seq(S) /\ FlatTo(H, n) \in Seq(S)
      /\ \A n \in 0 .. N - 1 : /\ FlatTo(G, n + 1) = FlatTo(G, n) \o G[n + 1]
                               /\ FlatTo(H, n + 1) = FlatTo(H, n) \o H[n + 1]
      /\ \A k \in 1 .. N : G[k] \in Seq(S)
      /\ Filtered(Part(t, i, j), C) = FlatTo(G, N) /\ Filtered(Part(u, i, j), C) = FlatTo(H, N)
  <2>1. /\ \A n \in 0 .. N : FlatTo(G, n) \in Seq(S)
        /\ \A n \in 0 .. N - 1 : FlatTo(G, n + 1) = FlatTo(G, n) \o G[n + 1]
        /\ \A k \in 1 .. N : G[k] \in Seq(S)
        /\ Filtered(Part(t, i, j), C) = FlatTo(G, N)
    BY PiecesFacts
  <2>2. /\ \A n \in 0 .. N : FlatTo(H, n) \in Seq(S)
        /\ \A n \in 0 .. N - 1 : FlatTo(H, n + 1) = FlatTo(H, n) \o H[n + 1]
        /\ Filtered(Part(u, i, j), C) = FlatTo(H, N)
    BY <1>1, PiecesFacts
  <2>. QED  BY <2>1, <2>2
<1>3. \A k \in 1 .. N : k # m + 1 => G[k] = H[k]
  <2>. SUFFICES ASSUME NEW k \in 1 .. N, k # m + 1 PROVE G[k] = H[k]
    OBVIOUS
  <2>1. i + k - 1 \in i .. j /\ i + k - 1 # h
    BY <1>1
  <2>2. u[i + k - 1] = t[i + k - 1]
    BY <2>1
  <2>. QED  BY <2>2 DEF Pieces
<1>4. G[m + 1] = <<t[h]>> /\ H[m + 1] = <<u[h]>>
  BY <1>1 DEF Pieces
<1>5. t[h] \in S /\ u[h] \in S
  BY <1>1, ElementOfSeq
<1>6. FlatTo(G, m) = FlatTo(H, m)
  <2>1. \A k \in 1 .. m : G[k] = H[k]
    BY <1>1, <1>3
  <2>. HIDE DEF G, H, m
  <2>2. [k \in 1 .. m |-> G[k]] = [k \in 1 .. m |-> H[k]]
    BY <2>1
  <2>. QED  BY <2>2 DEF FlatTo
<1>7. 0 \in T
  <2>. DEFINE p == FlatTo(G, m)
  <2>1. p \in Seq(S) /\ FlatTo(G, m + 1) = p \o <<t[h]>> /\ FlatTo(H, m + 1) = p \o <<u[h]>>
    <3>1. m \in 0 .. N
      BY <1>1
    <3>. HIDE DEF G, H, m, N, S
    <3>. QED  BY <1>1, <1>2, <1>4, <1>6, <3>1
  <2>. HIDE DEF p, S
  <2>2. OneDiffers(p \o <<t[h]>>, p \o <<u[h]>>, Len(p) + 1, t[h], u[h])
    BY <1>5, <2>1, OneDiffersLast
  <2>3. m + 1 + 0 = m + 1 /\ q = Len(p) + 1
    BY <1>1 DEF p
  <2>. HIDE DEF q, G, H, m
  <2>. QED  BY <2>1, <2>2, <2>3
<1>8. ASSUME NEW n \in Nat, n \in T PROVE n + 1 \in T
  <2>. SUFFICES ASSUME m + 1 + (n + 1) <= N PROVE Agrees(n + 1)
    <3>. HIDE DEF Agrees, N, m
    <3>. QED  OBVIOUS
  <2>. DEFINE e == m + 1 + n
  <2>1. /\ e \in 0 .. N /\ e \in 0 .. N - 1 /\ m + 1 + (n + 1) = e + 1 /\ e + 1 \in 1 .. N
        /\ e + 1 # m + 1 /\ e <= N
    BY <1>1
  <2>2. OneDiffers(FlatTo(G, e), FlatTo(H, e), q, t[h], u[h])
    <3>1. Agrees(n)
      <4>. HIDE DEF Agrees, N
      <4>. QED  BY <1>8, <2>1
    <3>. QED  BY <3>1
  <2>. HIDE DEF e, G, H, q, S, N, m
  <2>3. /\ FlatTo(G, e + 1) = FlatTo(G, e) \o G[e + 1]
        /\ FlatTo(H, e + 1) = FlatTo(H, e) \o G[e + 1]
        /\ FlatTo(G, e) \in Seq(S) /\ FlatTo(H, e) \in Seq(S) /\ G[e + 1] \in Seq(S)
    BY <1>2, <1>3, <2>1
  <2>4. OneDiffers(FlatTo(G, e) \o G[e + 1], FlatTo(H, e) \o G[e + 1], q, t[h], u[h])
    BY ONLY <2>2, <2>3, OneDiffersThen
  <2>. QED  BY <2>1, <2>3, <2>4
<1>9. N - m - 1 \in Nat /\ m + 1 + (N - m - 1) = N
  BY <1>1
<1>10. Agrees(N - m - 1)
  <2>1. N - m - 1 \in T
    <3>. HIDE DEF T, N, m
    <3>. QED  BY <1>7, <1>8, <1>9, InductionOverNat
  <2>. HIDE DEF Agrees, N, m
  <2>. QED  BY <1>1, <1>9, <2>1
<1>11. q \in Nat
  <2>1. m \in 0 .. N
    BY <1>1
  <2>. HIDE DEF G, S, m, N
  <2>. QED  BY <1>2, <2>1, LenProperties
<1>. HIDE DEF q, G, H, N, m
<1>. QED  BY <1>2, <1>9, <1>10, <1>11

\* Letters aside, what is valid for mod 97 is not so with another digit: the
\* remainders part there, and never meet again.
LEMMA RemainderPartsAtDigit ==
    ASSUME NEW r \in Remainders, NEW x \in Digit, NEW y \in Digit, x # y
    PROVE  Remainder(r, x) # Remainder(r, y)
<1>1. r \in 0 .. 96 /\ x \in 0 .. 9 /\ y \in 0 .. 9
  BY DEF Remainders, Digit
<1>2. (r * 10 + x) % 97 # (r * 10 + y) % 97
  BY <1>1
<1>. QED  BY <1>2 DEF Remainder

LEMMA RemainderKeepsApart ==
    ASSUME NEW r \in Remainders, NEW p \in Remainders, r # p, NEW c \in IbanCharacter
    PROVE  Remainder(r, c) # Remainder(p, c)
<1>1. ASSUME NEW a \in 0 .. 96, NEW b \in 0 .. 96, a # b, NEW d \in 0 .. 35
      PROVE  (a * 10 + d) % 97 # (b * 10 + d) % 97
  BY <1>1
<1>2. r \in 0 .. 96 /\ p \in 0 .. 96 /\ c \in 0 .. 35
  BY DEF Remainders, IbanCharacter, Digit, Capital
<1>3. CASE c \in Digit
  <2>1. (r * 10 + c) % 97 # (p * 10 + c) % 97
    BY <1>1, <1>2
  <2>. QED  BY <1>3, <2>1 DEF Remainder
<1>4. CASE c \notin Digit
  <2>. DEFINE a == (r * 10 + (c \div 10)) % 97
              b == (p * 10 + (c \div 10)) % 97
  <2>1. c \div 10 \in 0 .. 35 /\ c % 10 \in 0 .. 35
    BY <1>2
  <2>2. a # b
    BY <1>1, <1>2, <2>1
  <2>3. a \in 0 .. 96 /\ b \in 0 .. 96
    BY <1>2, <2>1
  <2>. HIDE DEF a, b
  <2>4. (a * 10 + (c % 10)) % 97 # (b * 10 + (c % 10)) % 97
    BY <1>1, <2>1, <2>2, <2>3
  <2>. QED  BY <1>4, <2>4 DEF Remainder, a, b
<1>. QED  BY <1>3, <1>4

LEMMA RemainderOfTypo ==
    ASSUME NEW a \in Seq(IbanCharacter), NEW b \in Seq(IbanCharacter), NEW q,
           NEW x \in Digit, NEW y \in Digit, x # y, OneDiffers(a, b, q, x, y)
    PROVE  FoldLeft(Remainder, 0, a) # FoldLeft(Remainder, 0, b)
<1>. DEFINE N == Len(a)
<1>1. PICK f \in [0 .. N -> Remainders] :
         /\ f[0] = 0 /\ \A j \in 1 .. N : f[j] = Remainder(f[j - 1], a[j])
         /\ FoldLeft(Remainder, 0, a) = f[N]
  BY RemainderRuns
<1>2. /\ Len(b) = N /\ N \in Nat /\ q \in 1 .. N /\ a[q] = x /\ b[q] = y
      /\ \A k \in 1 .. N : k # q => a[k] = b[k]
      /\ \A k \in 1 .. N : a[k] \in IbanCharacter
  BY LenProperties, ElementOfSeq DEF OneDiffers
<1>3. PICK g \in [0 .. N -> Remainders] :
         /\ g[0] = 0 /\ \A j \in 1 .. N : g[j] = Remainder(g[j - 1], b[j])
         /\ FoldLeft(Remainder, 0, b) = g[N]
  <2>1. \E h \in [0 .. Len(b) -> Remainders] :
           /\ h[0] = 0 /\ \A j \in 1 .. Len(b) : h[j] = Remainder(h[j - 1], b[j])
           /\ FoldLeft(Remainder, 0, b) = h[Len(b)]
    BY RemainderRuns
  <2>. HIDE DEF N
  <2>. QED  BY <1>2, <2>1
<1>. HIDE DEF N
<1>4. f[q - 1] = g[q - 1]
  <2>1. q - 1 \in Nat /\ \A j \in 1 .. q - 1 : j \in 1 .. N /\ j # q
    BY <1>2
  <2>2. ASSUME NEW j \in 1 .. q - 1, f[j - 1] = g[j - 1] PROVE f[j] = g[j]
    BY <1>1, <1>2, <1>3, <2>1, <2>2
  <2>3. f[0] = g[0] /\ \A j \in 1 .. q - 1 : f[j - 1] = g[j - 1] => f[j] = g[j]
    BY <1>1, <1>3, <2>2
  <2>. QED  BY ONLY <2>1, <2>3, RunsAgree
<1>. DEFINE T == {n \in Nat : q + n <= N => f[q + n] # g[q + n]}
<1>5. 0 \in T
  <2>1. q \in 1 .. N /\ q - 1 \in 0 .. N /\ q + 0 = q
    BY <1>2
  <2>2. f[q] = Remainder(f[q - 1], x) /\ g[q] = Remainder(f[q - 1], y) /\ f[q - 1] \in Remainders
    BY <1>1, <1>2, <1>3, <1>4, <2>1
  <2>3. f[q] # g[q]
    BY <2>2, RemainderPartsAtDigit
  <2>. QED  BY <2>1, <2>3
<1>6. ASSUME NEW n \in Nat, n \in T PROVE n + 1 \in T
  <2>. SUFFICES ASSUME q + (n + 1) <= N PROVE f[q + (n + 1)] # g[q + (n + 1)]
    OBVIOUS
  <2>. DEFINE e == q + n
  <2>1. /\ e \in 0 .. N /\ e + 1 \in 1 .. N /\ e + 1 # q /\ (e + 1) - 1 = e
        /\ q + (n + 1) = e + 1 /\ e <= N
    BY <1>2
  <2>2. f[e] # g[e]
    BY <1>6, <2>1
  <2>. HIDE DEF e
  <2>3. /\ f[e + 1] = Remainder(f[e], a[e + 1]) /\ g[e + 1] = Remainder(g[e], a[e + 1])
        /\ f[e] \in Remainders /\ g[e] \in Remainders /\ a[e + 1] \in IbanCharacter
    BY <1>1, <1>2, <1>3, <2>1
  <2>4. f[e + 1] # g[e + 1]
    BY <2>2, <2>3, RemainderKeepsApart
  <2>. QED  BY <2>1, <2>4
<1>7. N - q \in Nat /\ q + (N - q) = N
  BY <1>2
<1>8. N - q \in T
  <2>. HIDE DEF T
  <2>. QED  BY <1>5, <1>6, <1>7, InductionOverNat
<1>9. f[N] # g[N]
  BY <1>2, <1>7, <1>8
<1>. QED  BY <1>1, <1>3, <1>9

LEMMA RearrangedTypo ==
    ASSUME NEW a \in Seq(IbanCharacter), NEW b \in Seq(IbanCharacter), 5 <= Len(a),
           NEW q, NEW x, NEW y, OneDiffers(a, b, q, x, y)
    PROVE  \E r \in Nat : OneDiffers(Rearranged(a), Rearranged(b), r, x, y)
<1>. DEFINE N == Len(a)
            Old(k) == IF k <= N - 4 THEN k + 4 ELSE k - (N - 4)
            r == IF q >= 5 THEN q - 4 ELSE q + (N - 4)
<1>1. /\ N \in Nat /\ 5 <= N /\ Len(b) = N /\ q \in 1 .. N /\ a[q] = x /\ b[q] = y
      /\ \A k \in 1 .. N : k # q => a[k] = b[k]
  BY LenProperties DEF OneDiffers
<1>2. /\ r \in 1 .. N /\ Old(r) = q
      /\ \A k \in 1 .. N : Old(k) \in 1 .. N /\ (k # r => Old(k) # q)
  BY <1>1
<1>3. Len(Rearranged(a)) = N /\ \A k \in 1 .. N : Rearranged(a)[k] = a[Old(k)]
  <2>1. /\ Len(Rearranged(a)) = Len(a)
        /\ \A k \in 1 .. Len(a) :
              Rearranged(a)[k] = IF k <= Len(a) - 4 THEN a[k + 4] ELSE a[k - (Len(a) - 4)]
    BY RearrangedFacts
  <2>. QED  BY <2>1
<1>4. Len(Rearranged(b)) = N /\ \A k \in 1 .. N : Rearranged(b)[k] = b[Old(k)]
  <2>1. /\ Len(Rearranged(b)) = Len(b)
        /\ \A k \in 1 .. Len(b) :
              Rearranged(b)[k] = IF k <= Len(b) - 4 THEN b[k + 4] ELSE b[k - (Len(b) - 4)]
    BY <1>1, RearrangedFacts
  <2>. QED  BY <1>1, <2>1
<1>. HIDE DEF Old, r, N
<1>5. OneDiffers(Rearranged(a), Rearranged(b), r, x, y)
  BY <1>1, <1>2, <1>3, <1>4 DEF OneDiffers
<1>6. r \in Nat
  BY <1>1, <1>2
<1>. QED  BY <1>5, <1>6

\* Not an IBAN any more, with another digit in one place.
LEMMA IbanTypo ==
    ASSUME NEW t \in Seq(Character), NEW u \in Seq(Character), Len(u) = Len(t),
           NEW i \in 1 .. Len(t), NEW j \in i .. Len(t), NEW h \in i .. j,
           t[h] \in Digit, u[h] \in Digit, t[h] # u[h], \A k \in i .. j : k # h => u[k] = t[k],
           IsValidIban(Part(t, i, j))
    PROVE  ~IsValidIban(Part(u, i, j))
<1>. SUFFICES ASSUME IsValidIban(Part(u, i, j)) PROVE FALSE
  OBVIOUS
<1>. DEFINE a == Solid(Part(t, i, j))
            b == Solid(Part(u, i, j))
            n == Normalized(Part(t, i, j))
            m == Normalized(Part(u, i, j))
<1>1. /\ HasIbanShape(n) /\ FoldLeft(Remainder, 0, Rearranged(n)) = 1
      /\ HasIbanShape(m) /\ FoldLeft(Remainder, 0, Rearranged(m)) = 1
  BY DEF IsValidIban
<1>2. a \in Seq(Character) /\ n \in Seq(IbanCharacter) /\ Len(n) = Len(a) /\ 5 <= Len(n)
  BY <1>1, ShapeFacts
<1>3. b \in Seq(Character) /\ m \in Seq(IbanCharacter) /\ Len(m) = Len(b) /\ 5 <= Len(m)
  BY <1>1, ShapeFacts
<1>4. PICK q \in Nat : OneDiffers(a, b, q, t[h], u[h])
  <2>. DEFINE C == Character \ {Space}
  <2>1. t[h] \in C /\ u[h] \in C
    BY DEF Character, Word, Alphanumeric, Digit, Space
  <2>. HIDE DEF C
  <2>2. \E q \in Nat : OneDiffers(Filtered(Part(t, i, j), C), Filtered(Part(u, i, j), C),
                                  q, t[h], u[h])
    BY <2>1, FilteredTypo
  <2>. QED  BY <2>2 DEF Solid, C
<1>5. \A k \in 1 .. Len(a) : n[k] = IF a[k] \in Small THEN a[k] - 100 ELSE a[k]
  BY <1>2, LenProperties DEF Normalized, Solid
<1>6. \A k \in 1 .. Len(b) : m[k] = IF b[k] \in Small THEN b[k] - 100 ELSE b[k]
  BY <1>3, LenProperties DEF Normalized, Solid
<1>7. OneDiffers(n, m, q, t[h], u[h])
  <2>1. t[h] \notin Small /\ u[h] \notin Small
    <3>1. \A c \in Digit : c \notin Small
      BY DEF Digit, Small
    <3>. QED  BY <3>1
  <2>. HIDE DEF a, b, n, m
  <2>. QED  BY <1>2, <1>3, <1>4, <1>5, <1>6, <2>1 DEF OneDiffers
<1>. HIDE DEF a, b, n, m
<1>8. PICK r \in Nat : OneDiffers(Rearranged(n), Rearranged(m), r, t[h], u[h])
  BY <1>2, <1>3, <1>7, RearrangedTypo
<1>9. Rearranged(n) \in Seq(IbanCharacter) /\ Rearranged(m) \in Seq(IbanCharacter)
  BY <1>2, <1>3, RearrangedFacts
<1>10. FoldLeft(Remainder, 0, Rearranged(n)) # FoldLeft(Remainder, 0, Rearranged(m))
  BY <1>8, <1>9, RemainderOfTypo
<1>. QED  BY <1>1, <1>10

\* Every digit adds its own amount to the sum, doubled or not.
LEMMA CardTypo ==
    ASSUME NEW t \in Seq(Character), NEW u \in Seq(Character), Len(u) = Len(t),
           NEW i \in 1 .. Len(t), NEW j \in i .. Len(t), NEW h \in i .. j,
           t[h] \in Digit, u[h] \in Digit, t[h] # u[h], \A k \in i .. j : k # h => u[k] = t[k],
           IsLuhnValid(DigitsOnly(Part(t, i, j)))
    PROVE  ~IsLuhnValid(DigitsOnly(Part(u, i, j)))
<1>. DEFINE a == DigitsOnly(Part(t, i, j))
            b == DigitsOnly(Part(u, i, j))
            N == Len(a)
            V == Weights(a)
            W == Weights(b)
<1>1. a \in Seq(Digit) /\ b \in Seq(Digit)
  BY DigitsOnlyFacts
<1>2. PICK q \in Nat : OneDiffers(a, b, q, t[h], u[h])
  <2>1. \E q \in Nat : OneDiffers(Filtered(Part(t, i, j), Digit), Filtered(Part(u, i, j), Digit),
                                  q, t[h], u[h])
    BY FilteredTypo
  <2>. QED  BY <2>1 DEF DigitsOnly
<1>3. /\ Len(b) = N /\ N \in Nat /\ q \in 1 .. N /\ a[q] = t[h] /\ b[q] = u[h]
      /\ \A k \in 1 .. N : k # q => a[k] = b[k]
      /\ DOMAIN a = 1 .. N /\ DOMAIN b = 1 .. N
  <2>. HIDE DEF a, b
  <2>. QED  BY <1>1, <1>2, LenProperties DEF OneDiffers
<1>. HIDE DEF a, b
<1>4. CheckSum(a) = SumFunctionOnSet(V, 1 .. N) /\ CheckSum(b) = SumFunctionOnSet(W, 1 .. N)
  BY <1>3 DEF CheckSum, SumFunction, Weights
<1>5. ASSUME NEW k \in 1 .. N
      PROVE  /\ V[k] = IF (N - k) % 2 = 0 THEN a[k] ELSE Doubled(a[k])
             /\ W[k] = IF (N - k) % 2 = 0 THEN b[k] ELSE Doubled(b[k])
             /\ V[k] \in 0 .. 9 /\ W[k] \in 0 .. 9
  <2>1. /\ V[k] = IF (Len(a) - k) % 2 = 0 THEN a[k] ELSE Doubled(a[k])
        /\ V[k] \in 0 .. 9
    BY <1>1, WeightFacts
  <2>2. /\ W[k] = IF (Len(b) - k) % 2 = 0 THEN b[k] ELSE Doubled(b[k])
        /\ W[k] \in 0 .. 9
    BY <1>1, <1>3, WeightFacts
  <2>. HIDE DEF V, W
  <2>. QED  BY <1>3, <2>1, <2>2
<1>. HIDE DEF V, W, N
<1>6. V[q] # W[q]
  <2>1. ASSUME NEW x \in Digit, NEW y \in Digit, x # y PROVE Doubled(x) # Doubled(y)
    <3>1. x \in 0 .. 9 /\ y \in 0 .. 9
      BY DEF Digit
    <3>. QED  BY <2>1, <3>1 DEF Doubled
  <2>2. Doubled(t[h]) # Doubled(u[h])
    BY <2>1
  <2>. QED  BY <1>3, <1>5, <2>2
<1>7. \A k \in 1 .. N : k # q => V[k] = W[k]
  BY <1>3, <1>5
<1>. DEFINE rest == SumFunctionOnSet(V, (1 .. N) \ {q})
<1>8. IsFiniteSet(1 .. N) /\ IsFiniteSet((1 .. N) \ {q}) /\ q \in 1 .. N
  <2>1. 1 \in Int /\ N \in Int /\ (1 .. N) \ {q} \in SUBSET (1 .. N)
    BY <1>3
  <2>2. IsFiniteSet(1 .. N)
    BY <2>1, FS_Interval
  <2>. QED  BY <1>3, <2>1, <2>2, FS_Subset
<1>9. ASSUME NEW k \in 1 .. N
      PROVE  V[k] \in Nat /\ W[k] \in Nat
  <2>1. V[k] \in 0 .. 9 /\ W[k] \in 0 .. 9
    BY <1>5
  <2>. QED  BY ONLY <2>1
<1>10. rest \in Nat
  <2>1. \A k \in (1 .. N) \ {q} : V[k] \in Nat
    BY <1>9
  <2>. QED  BY ONLY <1>8, <2>1, SumTakesOut
<1>11. SumFunctionOnSet(W, (1 .. N) \ {q}) = rest
  <2>1. \A k \in (1 .. N) \ {q} : V[k] \in Nat /\ V[k] = W[k]
    BY <1>7, <1>9
  <2>. QED  BY ONLY <1>8, <2>1, SumAgrees
<1>12. SumFunctionOnSet(V, 1 .. N) = V[q] + rest
  BY ONLY <1>8, <1>9, SumTakesOut
<1>13. SumFunctionOnSet(W, 1 .. N) = W[q] + rest
  <2>1. SumFunctionOnSet(W, 1 .. N) = W[q] + SumFunctionOnSet(W, (1 .. N) \ {q})
    BY ONLY <1>8, <1>9, SumTakesOut
  <2>. QED  BY <1>11, <2>1
<1>. HIDE DEF rest
<1>14. V[q] \in 0 .. 9 /\ W[q] \in 0 .. 9
  BY <1>3, <1>5
<1>15. ~((V[q] + rest) % 10 = 0 /\ (W[q] + rest) % 10 = 0)
  <2>1. ASSUME NEW v \in 0 .. 9, NEW w \in 0 .. 9, v # w, NEW k \in Nat
        PROVE  ~((v + k) % 10 = 0 /\ (w + k) % 10 = 0)
    BY <2>1
  <2>. QED  BY <1>6, <1>10, <1>14, <2>1
<1>16. ~(CheckSum(a) % 10 = 0 /\ CheckSum(b) % 10 = 0)
  BY <1>4, <1>12, <1>13, <1>15
<1>. QED  BY <1>1, <1>16, LuhnIsCheckSum DEF a, b

\* What has been replaced was valid.
ValidInv ==
    \A s \in spans : IF pass = "iban" THEN IsValidIban(Part(text, s.first, s.last))
                     ELSE IsLuhnValid(DigitsOnly(Part(text, s.first, s.last)))

LEMMA InitValidInv == Init => ValidInv
  BY DEF Init, ValidInv

LEMMA ValidInvNext == PassInv /\ ValidInv /\ [Next]_vars => ValidInv'
<1>. SUFFICES ASSUME PassInv, ValidInv, [Next]_vars PROVE ValidInv'
  OBVIOUS
<1>1. CASE ReplaceMatch
  <2>1. PICK i \in from .. Len(text) :
          /\ IsNext(i) /\ UNCHANGED <<text, pass>>
          /\ \E j \in Replaces(i) : spans' = spans \cup {[first |-> i, last |-> j]}
    BY <1>1 DEF ReplaceMatch
  <2>2. PICK j \in Replaces(i) : spans' = spans \cup {[first |-> i, last |-> j]}
    BY <2>1
  <2>3. CASE pass = "iban"
    <3>. DEFINE ends == IbanEnds(text, i)
    <3>1. Len(text) \in Nat /\ i \in 1 .. Len(text)
      BY LenProperties DEF PassInv
    <3>2. ends # {} /\ j = Max(ends) /\ ends \in SUBSET (1 .. Len(text))
      <4>1. ends # {} /\ j = Max(ends)
        BY <2>3 DEF Replaces, ValidIbanSpan
      <4>2. ends \subseteq i .. Len(text) /\ i .. Len(text) \subseteq 1 .. Len(text)
        BY <3>1 DEF IbanEnds
      <4>. QED  BY <4>1, <4>2
    <3>3. j \in ends
      <4>. HIDE DEF ends
      <4>. QED  BY <3>1, <3>2, MaxFacts
    <3>4. IsValidIban(Part(text, i, j))
      BY <3>3 DEF IbanEnds
    <3>. QED  BY <2>1, <2>2, <2>3, <3>4 DEF ValidInv
  <2>4. CASE pass # "iban"
    <3>1. IsLuhnValid(DigitsOnly(Part(text, i, j)))
      BY <2>4 DEF Replaces
    <3>. QED  BY <2>1, <2>2, <2>4, <3>1 DEF ValidInv
  <2>. QED  BY <2>3, <2>4
<1>2. CASE SkipMatch
  BY <1>2 DEF SkipMatch, ValidInv
<1>3. CASE EndPass
  BY <1>3 DEF EndPass, ValidInv
<1>4. CASE NextPass
  BY <1>4 DEF NextPass, ValidInv
<1>5. CASE UNCHANGED vars
  BY <1>5 DEF vars, ValidInv
<1>. QED  BY <1>1, <1>2, <1>3, <1>4, <1>5 DEF Next

\* What is taken for an IBAN or a card is not so by accident of one digit.
THEOREM MistypedDigitsAlwaysShow == Spec => []MistypedDigitsShow
<1>1. PassInv /\ ValidInv => MistypedDigitsShow
  <2>. SUFFICES ASSUME PassInv, ValidInv,
                       NEW s \in spans, NEW i \in DOMAIN text, NEW d \in Digit,
                       Covers(s, i), text[i] \in Digit \ {d}
                PROVE  LET typo == Part([text EXCEPT ![i] = d], s.first, s.last)
                       IN  IF pass = "iban" THEN ~IsValidIban(typo) ELSE ~IsLuhnValid(DigitsOnly(typo))
    BY DEF MistypedDigitsShow
  <2>. DEFINE u == [text EXCEPT ![i] = d]
  <2>1. /\ text \in Seq(Character) /\ Len(text) \in Nat /\ i \in 1 .. Len(text)
        /\ s.first \in 1 .. Len(text) /\ s.last \in s.first .. Len(text) /\ i \in s.first .. s.last
    BY LenProperties DEF PassInv, Covers
  <2>2. /\ u \in Seq(Character) /\ Len(u) = Len(text) /\ u[i] = d
        /\ \A k \in 1 .. Len(text) : k # i => u[k] = text[k]
    BY <2>1 DEF Character, Word, Alphanumeric
  <2>. HIDE DEF u
  <2>3. /\ text[i] \in Digit /\ u[i] \in Digit /\ text[i] # u[i]
        /\ \A k \in s.first .. s.last : k # i => u[k] = text[k]
    BY <2>1, <2>2
  <2>4. CASE pass = "iban"
    <3>1. IsValidIban(Part(text, s.first, s.last))
      BY <2>4 DEF ValidInv
    <3>2. ~IsValidIban(Part(u, s.first, s.last))
      BY ONLY <2>1, <2>2, <2>3, <3>1, IbanTypo
    <3>. QED  BY <2>4, <3>2 DEF u
  <2>5. CASE pass # "iban"
    <3>1. IsLuhnValid(DigitsOnly(Part(text, s.first, s.last)))
      BY <2>5 DEF ValidInv
    <3>2. ~IsLuhnValid(DigitsOnly(Part(u, s.first, s.last)))
      BY ONLY <2>1, <2>2, <2>3, <3>1, CardTypo
    <3>. QED  BY <2>5, <3>2 DEF u
  <2>. QED  BY <2>4, <2>5
<1>. QED  BY <1>1, InitPassInv, PassInvNext, InitValidInv, ValidInvNext, PTL DEF Spec

-----------------------------------------------------------------------------
(* Where the characters of an output come from.                              *)
Uncovered(sp, m) == \A s \in sp : ~Covers(s, m)

\* Each of the characters that n of t show is from one of these, g in their
\* order, and nothing else is shown.
SourcesTo(g, t, sp, u, n) ==
    /\ g \in [1 .. Len(u) -> 1 .. n]
    /\ \A p, q \in 1 .. Len(u) : p < q => g[p] < g[q]
    /\ \A p \in 1 .. Len(u) : Shown(t, sp, g[p]) = <<u[p]>>
    /\ \A m \in 1 .. n : Shown(t, sp, m) = << >> \/ \E p \in 1 .. Len(u) : g[p] = m

\* One more character of the text adds its source, or none.
LEMMA SourcesGoOn ==
    ASSUME NEW t \in Seq(Character), NEW sp, NEW u \in Seq(Character), NEW n \in Nat, NEW g,
           SourcesTo(g, t, sp, u, n), NEW v,
           \/ Shown(t, sp, n + 1) = << >> /\ v = u
           \/ \E c \in Character : Shown(t, sp, n + 1) = <<c>> /\ v = Append(u, c)
    PROVE  \E h : SourcesTo(h, t, sp, v, n + 1)
<1>1. Len(u) \in Nat
  BY LenProperties
<1>2. CASE Shown(t, sp, n + 1) = << >> /\ v = u
  <2>1. g \in [1 .. Len(u) -> 1 .. n + 1]
    BY DEF SourcesTo
  <2>2. \A m \in 1 .. n + 1 : m \in 1 .. n \/ m = n + 1
    OBVIOUS
  <2>3. SourcesTo(g, t, sp, v, n + 1)
    BY <1>2, <2>1, <2>2 DEF SourcesTo
  <2>. QED  BY <2>3
<1>3. CASE \E c \in Character : Shown(t, sp, n + 1) = <<c>> /\ v = Append(u, c)
  <2>1. PICK c \in Character : Shown(t, sp, n + 1) = <<c>> /\ v = Append(u, c)
    BY <1>3
  <2>2. Len(v) = Len(u) + 1 /\ v[Len(u) + 1] = c /\ \A p \in 1 .. Len(u) : v[p] = u[p]
    BY <2>1, AppendProperties
  <2>. DEFINE h == [p \in 1 .. Len(v) |-> IF p <= Len(u) THEN g[p] ELSE n + 1]
  <2>3. \A p \in 1 .. Len(u) : p \in 1 .. Len(v) /\ h[p] = g[p] /\ g[p] \in 1 .. n
    <3>1. \A p \in 1 .. Len(u) : g[p] \in 1 .. n
      BY DEF SourcesTo
    <3>2. \A p \in 1 .. Len(u) : p \in 1 .. Len(v) /\ p <= Len(u)
      BY <1>1, <2>2
    <3>. QED  BY <3>1, <3>2
  <2>4. Len(v) \in 1 .. Len(v) /\ h[Len(v)] = n + 1
    BY <1>1, <2>2
  <2>5. \A p \in 1 .. Len(v) : p \in 1 .. Len(u) \/ p = Len(v)
    BY <1>1, <2>2
  <2>6. DOMAIN h = 1 .. Len(v) /\ h = [p \in 1 .. Len(v) |-> h[p]]
    OBVIOUS
  <2>. HIDE DEF h
  <2>7. h \in [1 .. Len(v) -> 1 .. n + 1]
    <3>1. \A p \in 1 .. Len(v) : h[p] \in 1 .. n + 1
      BY <2>3, <2>4, <2>5
    <3>. QED  BY <2>6, <3>1
  <2>8. ASSUME NEW p \in 1 .. Len(v), NEW q \in 1 .. Len(v), p < q PROVE h[p] < h[q]
    <3>1. p \in 1 .. Len(u) /\ g[p] \in 1 .. n
      BY <1>1, <2>2, <2>3, <2>8
    <3>2. CASE q \in 1 .. Len(u)
      BY <2>3, <2>8, <3>1, <3>2 DEF SourcesTo
    <3>3. CASE q = Len(v)
      BY <2>3, <2>4, <3>1, <3>3
    <3>. QED  BY <2>5, <3>2, <3>3
  <2>9. ASSUME NEW p \in 1 .. Len(v) PROVE Shown(t, sp, h[p]) = <<v[p]>>
    <3>1. CASE p \in 1 .. Len(u)
      BY <2>2, <2>3, <3>1 DEF SourcesTo
    <3>2. CASE p = Len(v)
      BY <2>1, <2>2, <2>4, <3>2
    <3>. QED  BY <2>5, <3>1, <3>2
  <2>10. ASSUME NEW m \in 1 .. n + 1, Shown(t, sp, m) # << >>
         PROVE  \E p \in 1 .. Len(v) : h[p] = m
    <3>1. CASE m = n + 1
      BY <2>4, <3>1
    <3>2. CASE m \in 1 .. n
      <4>1. PICK p \in 1 .. Len(u) : g[p] = m
        BY <2>10, <3>2 DEF SourcesTo
      <4>. QED  BY <2>3, <4>1
    <3>. QED  BY <3>1, <3>2
  <2>. QED  BY <2>7, <2>8, <2>9, <2>10 DEF SourcesTo
<1>. QED  BY <1>2, <1>3

\* Every character of an output has its source.
LEMMA SourcesExist ==
    ASSUME NEW t \in Seq(Character), NEW sp
    PROVE  \E g : SourcesTo(g, t, sp, ShownTo(t, sp, Len(t)), Len(t))
<1>. DEFINE Ok(n) == \E g : SourcesTo(g, t, sp, ShownTo(t, sp, n), n)
            T == {n \in Nat : n <= Len(t) => Ok(n)}
<1>1. Len(t) \in Nat
  BY LenProperties
<1>2. 0 \in T
  <2>1. ShownTo(t, sp, 0) = << >> /\ Len(<< >>) = 0
    BY ShownFacts
  <2>. DEFINE g == [p \in 1 .. 0 |-> 1]
  <2>2. SourcesTo(g, t, sp, << >>, 0)
    BY <2>1 DEF SourcesTo
  <2>. QED  BY <2>1, <2>2
<1>3. ASSUME NEW n \in Nat, n \in T PROVE n + 1 \in T
  <2>. SUFFICES ASSUME n + 1 <= Len(t) PROVE Ok(n + 1)
    <3>. HIDE DEF Ok
    <3>. QED  OBVIOUS
  <2>. DEFINE u == ShownTo(t, sp, n)
              v == ShownTo(t, sp, n + 1)
  <2>1. n \in 0 .. Len(t) /\ n \in 0 .. Len(t) - 1 /\ n + 1 \in 1 .. Len(t)
    BY <1>1
  <2>2. u \in Seq(Character) /\ v = u \o Shown(t, sp, n + 1)
    BY <2>1, ShownFacts
  <2>3. PICK g : SourcesTo(g, t, sp, u, n)
    BY <1>3, <2>1
  <2>. HIDE DEF u, v
  <2>4. \/ Shown(t, sp, n + 1) = << >>
        \/ \E c \in Character : Shown(t, sp, n + 1) = <<c>>
    <3>1. Mark \in Character /\ t[n + 1] \in Character
      BY <2>1, ElementOfSeq DEF Character
    <3>. QED  BY <3>1 DEF Shown
  <2>5. CASE Shown(t, sp, n + 1) = << >>
    <3>1. v = u
      BY <2>2, <2>5, ConcatEmptySeq
    <3>2. \E h : SourcesTo(h, t, sp, v, n + 1)
      BY <2>2, <2>3, <2>5, <3>1, SourcesGoOn
    <3>. QED  BY <3>2 DEF v
  <2>6. CASE \E c \in Character : Shown(t, sp, n + 1) = <<c>>
    <3>1. PICK c \in Character : Shown(t, sp, n + 1) = <<c>>
      BY <2>6
    <3>2. v = Append(u, c)
      BY <2>2, <3>1, AppendIsConcat
    <3>3. \E h : SourcesTo(h, t, sp, v, n + 1)
      BY <2>2, <2>3, <3>1, <3>2, SourcesGoOn
    <3>. QED  BY <3>3 DEF v
  <2>. QED  BY <2>4, <2>5, <2>6
<1>4. Len(t) \in T
  <2>. HIDE DEF T
  <2>. QED  BY <1>1, <1>2, <1>3, InductionOverNat
<1>. QED  BY <1>1, <1>4


\* A stretch of the output u without a mark in it, p to q, is a stretch of the
\* text t, d characters on, in which nothing is replaced; at the ends of the
\* output it reaches the end of the text, and before a mark there is one in the
\* text or a span.
Stretch(t, sp, u, p, q, d) ==
    /\ d \in Int
    /\ \A k \in p .. q : k + d \in 1 .. Len(t) /\ t[k + d] = u[k] /\ Uncovered(sp, k + d)
    /\ p = 1 => d = 0
    /\ q = Len(u) => q + d = Len(t)
    /\ q < Len(u) /\ u[q + 1] = Mark =>
          /\ q + d < Len(t)
          /\ t[q + 1 + d] = Mark \/ \E s \in sp : s.first = q + 1 + d

SpansOf(t, sp) == \A s \in sp : s.first \in 1 .. Len(t) /\ s.last \in s.first .. Len(t)

\* What is shown tells whether it is in a span.
LEMMA ShownTells ==
    ASSUME NEW t \in Seq(Character), NEW sp, SpansOf(t, sp), NEW m \in 1 .. Len(t)
    PROVE  /\ Shown(t, sp, m) = << >> =>
                 \E s \in sp : Covers(s, m) /\ s.first < m
           /\ \A c : Shown(t, sp, m) = <<c>> /\ c # Mark => Uncovered(sp, m) /\ t[m] = c
           /\ Shown(t, sp, m) = <<Mark>> => t[m] = Mark \/ \E s \in sp : s.first = m
           /\ Uncovered(sp, m) => Shown(t, sp, m) = <<t[m]>>
<1>1. Len(t) \in Nat /\ m \in Nat
  BY LenProperties
<1>2. \A s \in sp : s.first \in Nat /\ s.last \in Nat /\ Covers(s, s.first)
  BY <1>1 DEF SpansOf, Covers
<1>3. Shown(t, sp, m) = << >> => \E s \in sp : Covers(s, m) /\ s.first < m
  <2>. SUFFICES ASSUME Shown(t, sp, m) = << >> PROVE \E s \in sp : Covers(s, m) /\ s.first < m
    OBVIOUS
  <2>1. PICK s \in sp : Covers(s, m) /\ s.first # m
    BY DEF Shown
  <2>. QED  BY <1>1, <1>2, <2>1 DEF Covers
<1>4. \A c, e : <<c>> = <<e>> => c = e
  OBVIOUS
<1>5. ASSUME NEW c, Shown(t, sp, m) = <<c>>, c # Mark PROVE Uncovered(sp, m) /\ t[m] = c
  BY <1>4, <1>5 DEF Shown, Uncovered
<1>6. Shown(t, sp, m) = <<Mark>> => t[m] = Mark \/ \E s \in sp : s.first = m
  BY <1>4 DEF Shown
<1>7. Uncovered(sp, m) => Shown(t, sp, m) = <<t[m]>>
  BY <1>2 DEF Shown, Uncovered
<1>. QED  BY <1>3, <1>5, <1>6, <1>7

\* The source of the next character is the next one, where nothing is replaced.
LEMMA SourcesAdjoin ==
    ASSUME NEW t \in Seq(Character), NEW sp, SpansOf(t, sp), NEW u \in Seq(Character), NEW g,
           SourcesTo(g, t, sp, u, Len(t)), NEW p \in 1 .. Len(u), Uncovered(sp, g[p])
    PROVE  /\ p < Len(u) => g[p + 1] = g[p] + 1
           /\ p = Len(u) => g[p] = Len(t)
<1>. DEFINE m == g[p]
<1>1. Len(t) \in Nat /\ Len(u) \in Nat /\ m \in 1 .. Len(t) /\ m \in Nat /\ p \in Nat
  <2>1. Len(t) \in Nat /\ Len(u) \in Nat
    BY LenProperties
  <2>2. m \in 1 .. Len(t)
    BY DEF SourcesTo
  <2>. HIDE DEF m
  <2>. QED  BY <2>1, <2>2
<1>2. \A a, b \in 1 .. Len(u) : a < b => g[a] < g[b]
  BY DEF SourcesTo
<1>3. \A a \in 1 .. Len(u) : g[a] \in 1 .. Len(t)
  BY DEF SourcesTo
<1>. HIDE DEF m
<1>4. ASSUME m + 1 <= Len(t) PROVE \E q \in 1 .. Len(u) : p < q /\ g[q] = m + 1
  <2>1. m + 1 \in 1 .. Len(t)
    BY <1>1, <1>4
  <2>2. Shown(t, sp, m + 1) # << >>
    <3>. SUFFICES ASSUME Shown(t, sp, m + 1) = << >> PROVE FALSE
      OBVIOUS
    <3>1. PICK s \in sp : Covers(s, m + 1) /\ s.first < m + 1
      BY <2>1, ShownTells
    <3>2. s.first \in Nat /\ s.last \in Nat
      BY <1>1 DEF SpansOf
    <3>3. Covers(s, m)
      BY <1>1, <3>1, <3>2 DEF Covers
    <3>. QED  BY <3>3 DEF Uncovered, m
  <2>3. PICK q \in 1 .. Len(u) : g[q] = m + 1
    BY <2>1, <2>2 DEF SourcesTo
  <2>4. p < q
    <3>. SUFFICES ASSUME q <= p PROVE FALSE
      BY <1>1
    <3>1. g[q] <= m
      BY <1>1, <1>2, <1>3 DEF m
    <3>. QED  BY <1>1, <2>3, <3>1
  <2>. QED  BY <2>3, <2>4
<1>5. ASSUME p < Len(u) PROVE g[p + 1] = m + 1
  <2>1. p + 1 \in 1 .. Len(u) /\ m < g[p + 1] /\ g[p + 1] \in 1 .. Len(t)
    BY <1>1, <1>2, <1>3, <1>5 DEF m
  <2>2. m + 1 <= Len(t)
    BY <1>1, <2>1
  <2>3. PICK q \in 1 .. Len(u) : p < q /\ g[q] = m + 1
    BY <1>4, <2>2
  <2>4. q = p + 1 \/ p + 1 < q
    BY <1>1, <2>3
  <2>5. g[p + 1] <= g[q]
    BY <1>2, <1>3, <2>1, <2>4
  <2>. QED  BY <1>1, <2>1, <2>3, <2>5
<1>6. ASSUME p = Len(u) PROVE m = Len(t)
  <2>. SUFFICES ASSUME m + 1 <= Len(t) PROVE FALSE
    BY <1>1
  <2>1. PICK q \in 1 .. Len(u) : p < q /\ g[q] = m + 1
    BY <1>4
  <2>. QED  BY <1>1, <1>6, <2>1
<1>. QED  BY <1>5, <1>6 DEF m

\* The first character, where it is no mark, is the text's first.
LEMMA FirstSource ==
    ASSUME NEW t \in Seq(Character), NEW sp, SpansOf(t, sp), NEW u \in Seq(Character), NEW g,
           SourcesTo(g, t, sp, u, Len(t)), 1 <= Len(u), Uncovered(sp, g[1])
    PROVE  g[1] = 1
<1>. DEFINE m == g[1]
<1>1. Len(t) \in Nat /\ Len(u) \in Nat /\ 1 \in 1 .. Len(u) /\ m \in 1 .. Len(t)
  <2>1. Len(t) \in Nat /\ Len(u) \in Nat
    BY LenProperties
  <2>2. 1 \in 1 .. Len(u)
    BY <2>1
  <2>3. m \in 1 .. Len(t)
    BY <2>2 DEF SourcesTo
  <2>. QED  BY ONLY <2>1, <2>2, <2>3
<1>2. \A q \in 1 .. Len(u) : m <= g[q]
  <2>1. \A q \in 1 .. Len(u) : (q = 1 \/ 1 < q) /\ g[q] \in 1 .. Len(t)
    BY <1>1 DEF SourcesTo
  <2>2. \A q \in 1 .. Len(u) : 1 < q => g[1] < g[q]
    BY <1>1 DEF SourcesTo
  <2>. QED  BY <1>1, <2>1, <2>2
<1>. HIDE DEF m
<1>3. ASSUME NEW k \in 1 .. Len(t), Shown(t, sp, k) # << >> PROVE m <= k
  BY <1>2, <1>3 DEF SourcesTo
<1>. SUFFICES ASSUME 1 < m PROVE FALSE
  BY <1>1 DEF m
<1>4. m - 1 \in 1 .. Len(t) /\ ~(m <= m - 1)
  BY <1>1
<1>5. Shown(t, sp, m - 1) = << >>
  BY <1>3, <1>4
<1>6. PICK s \in sp : Covers(s, m - 1) /\ s.first < m - 1
  BY <1>4, <1>5, ShownTells
<1>7. s.first \in 1 .. Len(t) /\ ~(m <= s.first)
  BY <1>1, <1>6 DEF SpansOf
<1>8. Shown(t, sp, s.first) # << >>
  <2>1. <<Mark>> # << >>
    OBVIOUS
  <2>. QED  BY <2>1 DEF Shown
<1>. QED  BY <1>3, <1>7, <1>8

\* What is between two marks of an output is a stretch of the text.
LEMMA StretchExists ==
    ASSUME NEW t \in Seq(Character), NEW sp, SpansOf(t, sp), NEW u, u = ShownTo(t, sp, Len(t)),
           NEW p \in 1 .. Len(u), NEW q \in p .. Len(u), \A k \in p .. q : u[k] # Mark
    PROVE  \E d : Stretch(t, sp, u, p, q, d)
<1>1. Len(t) \in Nat /\ u \in Seq(Character) /\ Len(u) \in Nat /\ p \in Nat /\ q \in Nat
  <2>1. Len(t) \in Nat /\ Len(t) \in 0 .. Len(t)
    BY LenProperties
  <2>2. u \in Seq(Character)
    BY <2>1, ShownFacts
  <2>. QED  BY <2>1, <2>2, LenProperties
<1>2. PICK g : SourcesTo(g, t, sp, u, Len(t))
  BY SourcesExist
<1>3. \A k \in p .. q : k \in 1 .. Len(u)
  BY <1>1
<1>4. \A k \in 1 .. Len(u) : g[k] \in 1 .. Len(t) /\ Shown(t, sp, g[k]) = <<u[k]>>
  BY <1>2 DEF SourcesTo
<1>5. ASSUME NEW k \in p .. q PROVE Uncovered(sp, g[k]) /\ t[g[k]] = u[k]
  <2>1. g[k] \in 1 .. Len(t) /\ Shown(t, sp, g[k]) = <<u[k]>> /\ u[k] # Mark
    BY <1>3, <1>4
  <2>. QED  BY <2>1, ShownTells
<1>. DEFINE d == g[p] - p
            T == {n \in Nat : p + n <= q => g[p + n] = p + n + d}
<1>6. d \in Int /\ g[p] \in Int
  BY <1>1, <1>4
<1>7. 0 \in T
  BY <1>1, <1>6
<1>8. ASSUME NEW n \in Nat, n \in T PROVE n + 1 \in T
  <2>. SUFFICES ASSUME p + (n + 1) <= q PROVE g[p + (n + 1)] = p + (n + 1) + d
    OBVIOUS
  <2>1. g[p + n] = p + n + d
    BY <1>1, <1>8
  <2>. DEFINE k == p + n
  <2>. HIDE DEF d
  <2>2. k \in p .. q /\ k \in 1 .. Len(u) /\ k < Len(u) /\ p + (n + 1) = k + 1 /\ k \in Int
    BY <1>1
  <2>3. g[k + 1] = g[k] + 1
    BY <1>1, <1>2, <1>5, <2>2, SourcesAdjoin
  <2>. QED  BY <1>6, <2>1, <2>2, <2>3
<1>9. Nat \subseteq T
  <2>. HIDE DEF T
  <2>. QED  BY <1>7, <1>8, InductionOverNat
<1>. HIDE DEF d
<1>10. ASSUME NEW k \in p .. q PROVE g[k] = k + d
  <2>1. k - p \in Nat /\ p + (k - p) = k /\ k <= q
    BY <1>1
  <2>. QED  BY <1>9, <2>1
<1>11. p = 1 => d = 0
  <2>. SUFFICES ASSUME p = 1 PROVE d = 0
    OBVIOUS
  <2>1. p \in p .. q /\ 1 <= Len(u)
    BY <1>1
  <2>2. g[1] = 1
    BY <1>1, <1>2, <1>5, <2>1, FirstSource
  <2>. QED  BY <1>6, <1>10, <2>1, <2>2
<1>12. q \in p .. q /\ q \in 1 .. Len(u) /\ g[q] = q + d /\ Uncovered(sp, g[q])
  BY <1>1, <1>5, <1>10
<1>13. q = Len(u) => q + d = Len(t)
  BY <1>1, <1>2, <1>12, SourcesAdjoin
<1>14. ASSUME q < Len(u), u[q + 1] = Mark
       PROVE  q + d < Len(t) /\ (t[q + 1 + d] = Mark \/ \E s \in sp : s.first = q + 1 + d)
  <2>1. g[q + 1] = g[q] + 1
    BY <1>1, <1>2, <1>12, <1>14, SourcesAdjoin
  <2>2. g[q + 1] = q + 1 + d /\ q + 1 \in 1 .. Len(u)
    BY <1>1, <1>6, <1>12, <1>14, <2>1
  <2>3. q + 1 + d \in 1 .. Len(t) /\ Shown(t, sp, q + 1 + d) = <<Mark>>
    BY <1>4, <1>14, <2>2
  <2>. QED  BY <1>1, <1>6, <2>3, ShownTells
<1>15. \A k \in p .. q : k + d \in 1 .. Len(t) /\ t[k + d] = u[k] /\ Uncovered(sp, k + d)
  BY <1>3, <1>4, <1>5, <1>10
<1>16. Stretch(t, sp, u, p, q, d)
  BY <1>6, <1>11, <1>13, <1>14, <1>15 DEF Stretch
<1>. QED  BY <1>16


\* From p on, as far as there is no mark.
LEMMA StretchFrom ==
    ASSUME NEW u \in Seq(Character), NEW p \in 1 .. Len(u), NEW n \in p .. Len(u),
           \A k \in p .. n : u[k] # Mark
    PROVE  \E q \in n .. Len(u) : /\ \A k \in p .. q : u[k] # Mark
                                  /\ q = Len(u) \/ u[q + 1] = Mark
<1>. DEFINE S == {q \in n .. Len(u) : \A k \in p .. q : u[k] # Mark}
<1>1. Len(u) \in Nat /\ n \in S /\ S \in SUBSET (1 .. Len(u))
  <2>1. Len(u) \in Nat
    BY LenProperties
  <2>2. n \in n .. Len(u) /\ n .. Len(u) \subseteq 1 .. Len(u)
    BY <2>1
  <2>. QED  BY <2>1, <2>2
<1>2. Max(S) \in S /\ \A y \in S : y <= Max(S)
  <2>. HIDE DEF S
  <2>. QED  BY <1>1, MaxFacts
<1>3. PICK q \in S : \A y \in S : y <= q
  BY <1>2
<1>4. ASSUME q # Len(u), u[q + 1] # Mark PROVE FALSE
  <2>1. q + 1 \in n .. Len(u) /\ \A k \in p .. q + 1 : k \in p .. q \/ k = q + 1
    BY <1>1, <1>4
  <2>2. q + 1 \in S
    BY <1>3, <1>4, <2>1
  <2>. QED  BY <1>1, <1>3, <2>2
<1>. QED  BY <1>3, <1>4

\* A part of a stretch is a part of the text.
LEMMA PartsMove ==
    ASSUME NEW t \in Seq(Character), NEW u \in Seq(Character), NEW sp, NEW p \in Nat \ {0}, NEW q \in Nat, NEW d,
           Stretch(t, sp, u, p, q, d), NEW i \in 1 .. Len(u), NEW j \in i .. Len(u),
           i \in p .. q, j \in p .. q
    PROVE  Part(u, i, j) = Part(t, i + d, j + d)
<1>1. /\ Len(t) \in Nat /\ Len(u) \in Nat /\ d \in Int /\ i + d \in 1 .. Len(t)
      /\ j + d \in 1 .. Len(t) /\ \A k \in p .. q : t[k + d] = u[k]
  BY LenProperties DEF Stretch
<1>2. /\ i + d \in 1 .. Len(t) + 1 /\ j + d \in (i + d) - 1 .. Len(t)
      /\ i \in 1 .. Len(u) + 1 /\ j \in i - 1 .. Len(u) /\ j - i + 1 \in Nat
      /\ (j + d) - (i + d) + 1 = j - i + 1
  BY <1>1
<1>. DEFINE a == Part(u, i, j)
            b == Part(t, i + d, j + d)
<1>3. a \in Seq(Character) /\ Len(a) = j - i + 1 /\ \A k \in 1 .. j - i + 1 : a[k] = u[i + k - 1]
  BY <1>1, <1>2, SubSeqProperties, PartIsText DEF Part
<1>4. /\ b \in Seq(Character) /\ Len(b) = j - i + 1
      /\ \A k \in 1 .. j - i + 1 : b[k] = t[(i + d) + k - 1]
  BY <1>1, <1>2, SubSeqProperties, PartIsText DEF Part
<1>5. ASSUME NEW k \in 1 .. j - i + 1 PROVE u[i + k - 1] = t[(i + d) + k - 1]
  <2>1. i + k - 1 \in p .. q /\ (i + k - 1) + d = (i + d) + k - 1
    BY <1>1
  <2>. QED  BY <1>1, <2>1
<1>. HIDE DEF a, b
<1>6. a = b
  BY <1>2, <1>3, <1>4, <1>5, SeqEqual
<1>. QED  BY <1>6 DEF a, b

-----------------------------------------------------------------------------
(* An IBAN in an output that no mark precedes was one in the text.           *)
BehindMark(t, i) == i > 1 /\ t[i - 1] = Mark

NoIban(t) == \A i \in 1 .. Len(t) : IbanStart(t, i) /\ IbanEnds(t, i) # {} => BehindMark(t, i)

\* Whether a word starts or ends before i is told by what is on either side.
LEMMA BoundaryMoves ==
    ASSUME NEW t \in Seq(Character), NEW u \in Seq(Character), NEW sp, NEW p \in Nat \ {0}, NEW q \in Nat, NEW d,
           Stretch(t, sp, u, p, q, d), NEW i \in 1 .. Len(u), i \in p .. q, i = 1 \/ i - 1 \in p .. q
    PROVE  Boundary(u, i) <=> Boundary(t, i + d)
<1>1. /\ Len(t) \in Nat /\ Len(u) \in Nat /\ d \in Int /\ i + d \in 1 .. Len(t)
      /\ t[i + d] = u[i] /\ (p = 1 => d = 0)
  BY LenProperties DEF Stretch
<1>2. CASE i = 1 /\ i - 1 \notin p .. q
  <2>1. d = 0 /\ i + d = 1 /\ ~(1 > 1) /\ 1 <= Len(u) /\ 1 <= Len(t) /\ t[1] = u[1]
    BY <1>1, <1>2
  <2>2. Boundary(u, 1) <=> Boundary(t, 1)
    BY <2>1 DEF Boundary
  <2>. QED  BY <1>2, <2>1, <2>2
<1>3. CASE i - 1 \in p .. q
  <2>1. (i - 1) + d \in 1 .. Len(t) /\ t[(i - 1) + d] = u[i - 1]
    BY <1>3 DEF Stretch
  <2>2. /\ (i + d) - 1 = (i - 1) + d /\ i > 1 /\ i + d > 1
        /\ i <= Len(u) /\ i + d <= Len(t) /\ t[(i + d) - 1] = u[i - 1]
    BY <1>1, <1>3, <2>1
  <2>. QED  BY <1>1, <2>2 DEF Boundary
<1>. QED  BY <1>2, <1>3

CountOf(t, i, j) == Cardinality({k \in i .. j : t[k] \in Alphanumeric})

\* The characters counted in a part are those that are left of it.
LEMMA CountIsLength ==
    ASSUME NEW t \in Seq(Character), NEW i \in 1 .. Len(t), NEW j \in i .. Len(t)
    PROVE  CountOf(t, i, j) = Len(Filtered(Part(t, i, j), Alphanumeric))
<1>. DEFINE C == Alphanumeric
<1>. HIDE DEF C
<1>1. Len(Filtered(Part(t, i, j), C)) = Cardinality({k \in i .. j : t[k] \in C})
  BY FilteredPart
<1>. QED  BY <1>1 DEF C, CountOf

\* What is an IBAN in the output, and not behind a mark, was one, and not behind a
\* mark, in the text.
LEMMA IbanWasThere ==
    ASSUME NEW t \in Seq(Character), NEW sp, SpansOf(t, sp), NEW u, u = ShownTo(t, sp, Len(t)),
           NEW i \in 1 .. Len(u), IbanStart(u, i), IbanEnds(u, i) # {}, ~BehindMark(u, i)
    PROVE  \E m \in 1 .. Len(t) : /\ Uncovered(sp, m) /\ IbanStart(t, m)
                                  /\ IbanEnds(t, m) # {} /\ ~BehindMark(t, m)
<1>1. Len(t) \in Nat /\ u \in Seq(Character) /\ Len(u) \in Nat
  <2>1. Len(t) \in Nat /\ Len(t) \in 0 .. Len(t)
    BY LenProperties
  <2>2. u \in Seq(Character)
    BY <2>1, ShownFacts
  <2>. QED  BY <2>1, <2>2, LenProperties
<1>2. PICK j \in i .. Len(u) :
        /\ \A k \in i .. j : u[k] \in Alphanumeric \cup {Space}
        /\ u[j] \in Alphanumeric
        /\ Cardinality({k \in i .. j : u[k] \in Alphanumeric}) \in MinIban .. MaxIban
        /\ IsValidIban(Part(u, i, j))
  BY DEF IbanEnds
<1>3. /\ i + 3 <= Len(u) /\ Boundary(u, i) /\ u[i] \in Letter /\ u[i + 1] \in Letter
      /\ u[i + 2] \in Digit /\ u[i + 3] \in Digit
  BY DEF IbanStart
<1>. DEFINE e == IF j < i + 3 THEN i + 3 ELSE j
            p == IF i = 1 THEN 1 ELSE i - 1
<1>4. /\ e \in p .. Len(u) /\ p \in 1 .. Len(u) /\ i \in p .. e /\ j \in p .. e
      /\ i + 1 \in p .. e /\ i + 2 \in p .. e /\ i + 3 \in p .. e
      /\ (i = 1 \/ i - 1 \in p .. e)
      /\ \A k \in p .. e : k \in i .. j \/ k \in i .. i + 3 \/ (i > 1 /\ k = i - 1)
      /\ \A k \in i .. i + 3 : k = i \/ k = i + 1 \/ k = i + 2 \/ k = i + 3
  BY <1>1, <1>3
<1>5. Mark \notin Alphanumeric \cup {Space} /\ Letter \subseteq Alphanumeric /\ Digit \subseteq Alphanumeric
  BY DEF Mark, Alphanumeric, Letter, Capital, Small, Digit, Space
<1>6. \A k \in p .. e : u[k] # Mark
  BY <1>2, <1>3, <1>4, <1>5 DEF BehindMark
<1>7. /\ e \in Nat /\ p \in Nat \ {0} /\ i \in Int /\ j \in Int
      /\ \A k \in i .. j : k \in p .. e
  BY <1>1, <1>4
<1>. HIDE DEF e, p
<1>8. PICK d : Stretch(t, sp, u, p, e, d)
  BY <1>4, <1>6, StretchExists
<1>9. /\ d \in Int /\ (p = 1 => d = 0)
      /\ \A k \in p .. e : k + d \in 1 .. Len(t) /\ t[k + d] = u[k] /\ Uncovered(sp, k + d)
  BY <1>8 DEF Stretch
<1>10. i + d \in 1 .. Len(t) /\ j + d \in 1 .. Len(t) /\ j + d \in i + d .. Len(t)
  BY <1>1, <1>4, <1>9
<1>11. Uncovered(sp, i + d)
  BY <1>4, <1>9
<1>12. IbanStart(t, i + d)
  <2>1. Boundary(t, i + d)
    BY <1>1, <1>3, <1>4, <1>7, <1>8, BoundaryMoves
  <2>2. /\ (i + d) + 1 = (i + 1) + d /\ (i + d) + 2 = (i + 2) + d /\ (i + d) + 3 = (i + 3) + d
        /\ (i + 3) + d <= Len(t)
    <3>1. (i + 3) + d \in 1 .. Len(t)
      BY <1>4, <1>9
    <3>2. d \in Int
      BY <1>9
    <3>. QED  BY ONLY <1>1, <1>7, <3>1, <3>2
  <2>3. /\ t[i + d] = u[i] /\ t[(i + 1) + d] = u[i + 1]
        /\ t[(i + 2) + d] = u[i + 2] /\ t[(i + 3) + d] = u[i + 3]
    BY <1>4, <1>9
  <2>. QED  BY <1>3, <2>1, <2>2, <2>3 DEF IbanStart
<1>13. j + d \in IbanEnds(t, i + d)
  <2>1. Part(u, i, j) = Part(t, i + d, j + d)
    BY <1>1, <1>4, <1>7, <1>8, PartsMove
  <2>2. ASSUME NEW k \in i + d .. j + d PROVE t[k] \in Alphanumeric \cup {Space}
    <3>0. d \in Int
      BY <1>9
    <3>1. k - d \in i .. j /\ (k - d) + d = k
      BY ONLY <1>7, <2>2, <3>0
    <3>2. k - d \in p .. e
      BY <1>7, <3>1
    <3>. QED  BY <1>2, <1>9, <3>1, <3>2
  <2>3. t[j + d] \in Alphanumeric
    BY <1>2, <1>4, <1>9
  <2>4. CountOf(t, i + d, j + d) = CountOf(u, i, j)
    <3>1. t \in Seq(Character) /\ i \in 1 .. Len(u) /\ j \in i .. Len(u)
      OBVIOUS
    <3>2. CountOf(u, i, j) = Len(Filtered(Part(u, i, j), Alphanumeric))
      BY ONLY <1>1, <3>1, CountIsLength
    <3>3. CountOf(t, i + d, j + d) = Len(Filtered(Part(t, i + d, j + d), Alphanumeric))
      BY ONLY <1>10, <3>1, CountIsLength
    <3>. QED  BY ONLY <2>1, <3>2, <3>3
  <2>. QED  BY <1>2, <1>10, <2>1, <2>2, <2>3, <2>4 DEF IbanEnds, CountOf
<1>14. ~BehindMark(t, i + d)
  <2>1. CASE i = 1
    <3>1. i + d = 1
      BY <1>9, <2>1 DEF p
    <3>. QED  BY <3>1 DEF BehindMark
  <2>2. CASE i # 1
    <3>1. i - 1 \in p .. e /\ (i - 1) + d = (i + d) - 1
      BY <1>1, <1>4, <1>9, <2>2
    <3>2. u[i - 1] # Mark /\ t[(i + d) - 1] = u[i - 1]
      BY <1>6, <1>9, <3>1
    <3>. QED  BY <3>2 DEF BehindMark
  <2>. QED  BY <2>1, <2>2
<1>. QED  BY <1>10, <1>11, <1>12, <1>13, <1>14

-----------------------------------------------------------------------------
(* The cards that the search comes upon in an output.                        *)
RunCharacter == Digit \cup {Space, Dash}

LastEnd(t, n) == Max(CardEnds(t, n))
CardValid(t, n) == IsLuhnValid(DigitsOnly(Part(t, n, LastEnd(t, n))))

\* A match is a run of digits, blanks and dashes.
LEMMA CardEndsFacts ==
    ASSUME NEW t \in Seq(Character), NEW x \in 1 .. Len(t)
    PROVE  /\ CardEnds(t, x) \subseteq x .. Len(t)
           /\ \A e \in CardEnds(t, x), k \in x .. Len(t) : k <= e => t[k] \in RunCharacter
           /\ CardStart(t, x) => t[x] \in Digit /\ Boundary(t, x)
           /\ CardStart(t, x) => LastEnd(t, x) \in CardEnds(t, x)
           /\ \A e \in CardEnds(t, x) : e <= LastEnd(t, x)
<1>1. Len(t) \in Nat /\ x \in Nat
  BY LenProperties
<1>2. CardEnds(t, x) \subseteq x .. Len(t)
  BY DEF CardEnds
<1>3. ASSUME NEW e \in CardEnds(t, x), NEW k \in x .. Len(t), k <= e PROVE t[k] \in RunCharacter
  <2>1. /\ t[x] \in Digit /\ t[e] \in Digit
        /\ \A h \in x + 1 .. e - 1 : t[h] \in Digit \/ IsSeparator(t, h)
    BY DEF CardEnds
  <2>2. e \in Int /\ (k = x \/ k = e \/ k \in x + 1 .. e - 1)
    BY <1>1, <1>2, <1>3
  <2>. QED  BY <2>1, <2>2 DEF RunCharacter, IsSeparator
<1>4. CardStart(t, x) => t[x] \in Digit /\ Boundary(t, x)
  BY DEF CardStart, CardEnds
<1>5. CardEnds(t, x) \in SUBSET (1 .. Len(t))
  BY <1>1, <1>2
<1>6. CardEnds(t, x) # {} => LastEnd(t, x) \in CardEnds(t, x) /\ \A e \in CardEnds(t, x) : e <= LastEnd(t, x)
  BY <1>1, <1>5, MaxFacts DEF LastEnd
<1>. QED  BY <1>2, <1>3, <1>4, <1>6 DEF CardStart

\* A span starts a word.
WordSpans(t, sp) == \A s \in sp : t[s.first] \in Word /\ Boundary(t, s.first)

\* A stretch that no mark cuts short.
Piece(t, sp, u, p, q, d) ==
    /\ t \in Seq(Character) /\ u \in Seq(Character) /\ WordSpans(t, sp)
    /\ p \in 1 .. Len(u) /\ q \in p .. Len(u)
    /\ q = Len(u) \/ u[q + 1] = Mark
    /\ Stretch(t, sp, u, p, q, d)

\* From where on the piece shows all that a match at x depends on.
Inside(p, q, x) == x \in p .. q /\ (x = 1 \/ x - 1 \in p .. q)

\* Where a piece is, in the output and in the text.
LEMMA PieceFacts ==
    ASSUME NEW t, NEW sp, NEW u, NEW p, NEW q, NEW d, Piece(t, sp, u, p, q, d)
    PROVE  /\ t \in Seq(Character) /\ u \in Seq(Character)
           /\ Len(t) \in Nat /\ Len(u) \in Nat /\ p \in Nat \ {0} /\ q \in Nat /\ d \in Int
           /\ p \in 1 .. Len(u) /\ q \in p .. Len(u)
           /\ \A k \in p .. q : k \in 1 .. Len(u) /\ k + d \in 1 .. Len(t) /\ t[k + d] = u[k]
           /\ q + d <= Len(t)
<1>1. t \in Seq(Character) /\ u \in Seq(Character) /\ p \in 1 .. Len(u) /\ q \in p .. Len(u) /\ d \in Int
  BY DEF Piece, Stretch
<1>2. Len(t) \in Nat /\ Len(u) \in Nat
  BY <1>1, LenProperties
<1>3. \A k \in p .. q : k + d \in 1 .. Len(t) /\ t[k + d] = u[k]
  BY DEF Piece, Stretch
<1>4. p \in Nat \ {0} /\ q \in Nat /\ q \in p .. q
  BY <1>1, <1>2
<1>5. \A k \in p .. q : k \in 1 .. Len(u)
  BY <1>1, <1>2, <1>4
<1>6. q + d <= Len(t)
  BY <1>2, <1>3, <1>4
<1>. QED  BY <1>1, <1>2, <1>3, <1>4, <1>5, <1>6

\* A number ends in the output where it does in the text.
LEMMA EndBoundaryMoves ==
    ASSUME NEW t, NEW sp, NEW u, NEW p, NEW q, NEW d, Piece(t, sp, u, p, q, d),
           NEW e \in p .. q, u[e] \in Digit
    PROVE  Boundary(u, e + 1) <=> Boundary(t, e + 1 + d)
<1>1. /\ Len(t) \in Nat /\ Len(u) \in Nat /\ p \in Nat \ {0} /\ q \in Nat /\ d \in Int
      /\ e \in 1 .. Len(u) /\ e + d \in 1 .. Len(t) /\ t[e + d] = u[e] /\ q + d <= Len(t)
      /\ q \in p .. Len(u)
  BY PieceFacts
<1>2. u[e] \in Word /\ t[e + d] \in Word /\ Mark \notin Word
  BY <1>1 DEF Word, Alphanumeric, Digit, Letter, Capital, Small, Accent, Mark
<1>3. e + 1 > 1 /\ (e + 1) - 1 = e /\ e + 1 + d > 1 /\ (e + 1 + d) - 1 = e + d
  BY <1>1
<1>4. Boundary(u, e + 1) <=> ~(e + 1 <= Len(u) /\ u[e + 1] \in Word)
  BY <1>2, <1>3 DEF Boundary
<1>5. Boundary(t, e + 1 + d) <=> ~(e + 1 + d <= Len(t) /\ t[e + 1 + d] \in Word)
  BY <1>2, <1>3 DEF Boundary
<1>6. CASE e + 1 \in p .. q
  <2>1. /\ e + 1 \in 1 .. Len(u) /\ (e + 1) + d \in 1 .. Len(t) /\ t[(e + 1) + d] = u[e + 1]
    BY <1>6, PieceFacts
  <2>2. e + 1 <= Len(u) /\ e + 1 + d <= Len(t) /\ t[e + 1 + d] = u[e + 1]
    BY <1>1, <2>1
  <2>. QED  BY <1>4, <1>5, <2>2
<1>7. CASE e = q
  <2>1. ~(e + 1 <= Len(u) /\ u[e + 1] \in Word)
    BY <1>1, <1>2, <1>7 DEF Piece
  <2>2. CASE q = Len(u)
    <3>1. q + d = Len(t)
      BY <2>2 DEF Piece, Stretch
    <3>2. ~(e + 1 + d <= Len(t))
      BY <1>1, <1>7, <3>1
    <3>. QED  BY <1>4, <1>5, <2>1, <3>2
  <2>3. CASE q # Len(u)
    <3>1. q < Len(u) /\ u[q + 1] = Mark
      BY <1>1, <2>3 DEF Piece
    <3>2. t[q + 1 + d] = Mark \/ \E s \in sp : s.first = q + 1 + d
      BY <3>1 DEF Piece, Stretch
    <3>3. CASE t[q + 1 + d] = Mark
      BY <1>2, <1>4, <1>5, <1>7, <2>1, <3>3
    <3>4. CASE \E s \in sp : s.first = q + 1 + d
      <4>1. t[e + 1 + d] \in Word /\ Boundary(t, e + 1 + d)
        BY <1>7, <3>4 DEF Piece, WordSpans
      <4>2. e + 1 + d <= Len(t)
        <5>1. q + d < Len(t)
          BY <3>1 DEF Piece, Stretch
        <5>. QED  BY <1>1, <1>7, <5>1
      <4>. QED  BY <1>5, <4>1, <4>2
    <3>. QED  BY <3>2, <3>3, <3>4
  <2>. QED  BY <2>2, <2>3
<1>8. e + 1 \in p .. q \/ e = q
  BY <1>1
<1>. QED  BY <1>6, <1>7, <1>8

\* Single separators are where they were.
LEMMA SeparatorMoves ==
    ASSUME NEW t, NEW sp, NEW u, NEW p, NEW q, NEW d, Piece(t, sp, u, p, q, d),
           NEW k, k - 1 \in p .. q, k \in p .. q, k + 1 \in p .. q
    PROVE  t[k + d] = u[k] /\ (IsSeparator(u, k) <=> IsSeparator(t, k + d))
<1>1. d \in Int /\ k \in Int
  BY PieceFacts
<1>2. t[k + d] = u[k] /\ t[(k - 1) + d] = u[k - 1] /\ t[(k + 1) + d] = u[k + 1]
  BY PieceFacts
<1>3. (k - 1) + d = (k + d) - 1 /\ (k + 1) + d = (k + d) + 1
  BY <1>1
<1>. QED  BY <1>2, <1>3 DEF IsSeparator

\* A match ends where it did, and is made of the same digits.
LEMMA EndMoves ==
    ASSUME NEW t, NEW sp, NEW u, NEW p, NEW q, NEW d, Piece(t, sp, u, p, q, d),
           NEW x \in p .. q, Inside(p, q, x), NEW e \in x .. q
    PROVE  /\ e \in CardEnds(u, x) <=> e + d \in CardEnds(t, x + d)
           /\ Part(u, x, e) = Part(t, x + d, e + d)
<1>1. /\ t \in Seq(Character) /\ u \in Seq(Character) /\ Len(t) \in Nat /\ Len(u) \in Nat
      /\ p \in Nat \ {0} /\ q \in Nat /\ d \in Int
  BY PieceFacts
<1>2. e \in p .. q /\ x \in Int /\ e \in Int
  BY <1>1
<1>3. /\ x \in 1 .. Len(u) /\ e \in 1 .. Len(u) /\ x + d \in 1 .. Len(t) /\ e + d \in 1 .. Len(t)
      /\ t[x + d] = u[x] /\ t[e + d] = u[e]
  BY <1>2, PieceFacts
<1>4. e \in x .. Len(u) /\ e + d \in x + d .. Len(t)
  BY <1>1, <1>2, <1>3
<1>5. Part(u, x, e) = Part(t, x + d, e + d)
  <2>1. Stretch(t, sp, u, p, q, d)
    BY DEF Piece
  <2>2. /\ t \in Seq(Character) /\ u \in Seq(Character) /\ p \in Nat \ {0} /\ q \in Nat
        /\ x \in 1 .. Len(u) /\ e \in x .. Len(u) /\ x \in p .. q /\ e \in p .. q
    BY <1>1, <1>2, <1>3, <1>4
  <2>. QED  BY ONLY <2>1, <2>2, PartsMove
<1>6. Boundary(u, x) <=> Boundary(t, x + d)
  <2>1. Stretch(t, sp, u, p, q, d) /\ (x = 1 \/ x - 1 \in p .. q)
    BY DEF Piece, Inside
  <2>. QED  BY <1>1, <1>3, <2>1, BoundaryMoves
<1>7. u[e] \in Digit => (Boundary(u, e + 1) <=> Boundary(t, (e + d) + 1))
  <2>1. e + 1 + d = (e + d) + 1
    BY <1>1, <1>2
  <2>. QED  BY <1>2, <2>1, EndBoundaryMoves
<1>8. (\A k \in x + 1 .. e - 1 : u[k] \in Digit \/ IsSeparator(u, k))
         <=> (\A k \in (x + d) + 1 .. (e + d) - 1 : t[k] \in Digit \/ IsSeparator(t, k))
  <2>1. ASSUME NEW k \in x + 1 .. e - 1
        PROVE  /\ k + d \in (x + d) + 1 .. (e + d) - 1
               /\ t[k + d] = u[k] /\ (IsSeparator(u, k) <=> IsSeparator(t, k + d))
    <3>1. k - 1 \in p .. q /\ k \in p .. q /\ k + 1 \in p .. q
      BY <1>1, <1>2
    <3>2. k + d \in (x + d) + 1 .. (e + d) - 1
      BY <1>1, <1>2
    <3>. QED  BY <3>1, <3>2, SeparatorMoves
  <2>2. \A k \in (x + d) + 1 .. (e + d) - 1 : k - d \in x + 1 .. e - 1 /\ (k - d) + d = k
    BY <1>1, <1>2
  <2>. QED  BY <2>1, <2>2
<1>. QED  BY <1>3, <1>4, <1>5, <1>6, <1>7, <1>8 DEF CardEnds

\* The search finds at x in the output what it finds in the text.
MovesTo(t, u, x, d) ==
    /\ CardStart(u, x) <=> CardStart(t, x + d)
    /\ CardStart(u, x) => LastEnd(t, x + d) = LastEnd(u, x) + d
    /\ CardStart(u, x) => (CardValid(u, x) <=> CardValid(t, x + d))

\* No match of the output goes on behind the piece it starts in, ...
LEMMA EndsStayInside ==
    ASSUME NEW t, NEW sp, NEW u, NEW p, NEW q, NEW d, Piece(t, sp, u, p, q, d),
           NEW x \in p .. q, Inside(p, q, x), NEW e \in CardEnds(u, x)
    PROVE  e \in x .. q /\ e + d \in CardEnds(t, x + d)
<1>1. /\ u \in Seq(Character) /\ Len(u) \in Nat /\ p \in Nat \ {0} /\ q \in Nat
      /\ x \in 1 .. Len(u) /\ q \in p .. Len(u)
  BY PieceFacts
<1>2. CardEnds(u, x) \subseteq x .. Len(u)
  BY <1>1, CardEndsFacts
<1>3. e \in x .. Len(u) /\ e \in Int
  BY <1>1, <1>2
<1>4. e <= q
  <2>. SUFFICES ASSUME q < e PROVE FALSE
    BY <1>1, <1>3
  <2>1. q + 1 \in x .. Len(u) /\ q + 1 <= e /\ q # Len(u)
    BY <1>1, <1>3
  <2>2. u[q + 1] = Mark
    BY <2>1 DEF Piece
  <2>3. u[q + 1] \in RunCharacter
    BY <1>1, <2>1, CardEndsFacts
  <2>. QED  BY <2>2, <2>3 DEF RunCharacter, Digit, Mark, Space, Dash
<1>5. e \in x .. q
  BY <1>1, <1>3, <1>4
<1>. QED  BY <1>5, EndMoves

\* ... so that the search finds there what it does in the text, unless that goes on in
\* a span.
LEMMA MatchMoves ==
    ASSUME NEW t, NEW sp, NEW u, NEW p, NEW q, NEW d, Piece(t, sp, u, p, q, d),
           NEW x \in p .. q, Inside(p, q, x), \A e \in CardEnds(t, x + d) : e <= q + d
    PROVE  MovesTo(t, u, x, d)
<1>1. /\ t \in Seq(Character) /\ u \in Seq(Character) /\ Len(t) \in Nat /\ Len(u) \in Nat
      /\ p \in Nat \ {0} /\ q \in Nat /\ d \in Int /\ x \in 1 .. Len(u) /\ x + d \in 1 .. Len(t)
      /\ x \in Int
  BY PieceFacts
<1>2. ASSUME NEW e \in CardEnds(u, x)
      PROVE  e \in x .. q /\ e + d \in CardEnds(t, x + d)
  BY EndsStayInside
<1>3. ASSUME NEW e \in CardEnds(t, x + d) PROVE e - d \in x .. q /\ e - d \in CardEnds(u, x)
  <2>1. e \in x + d .. Len(t) /\ e <= q + d
    BY <1>1, CardEndsFacts
  <2>2. e - d \in x .. q /\ (e - d) + d = e
    BY <1>1, <2>1
  <2>. QED  BY <2>2, EndMoves
<1>4. CardStart(u, x) <=> CardStart(t, x + d)
  BY <1>2, <1>3 DEF CardStart
<1>5. ASSUME CardStart(u, x)
      PROVE  LastEnd(t, x + d) = LastEnd(u, x) + d /\ LastEnd(u, x) \in x .. q
  <2>1. LastEnd(u, x) \in CardEnds(u, x) /\ \A e \in CardEnds(u, x) : e <= LastEnd(u, x)
    BY <1>1, <1>5, CardEndsFacts
  <2>2. /\ LastEnd(t, x + d) \in CardEnds(t, x + d)
        /\ \A e \in CardEnds(t, x + d) : e <= LastEnd(t, x + d)
    BY <1>1, <1>4, <1>5, CardEndsFacts
  <2>3. LastEnd(u, x) \in x .. q /\ LastEnd(u, x) + d <= LastEnd(t, x + d)
    BY <1>2, <2>1, <2>2
  <2>4. LastEnd(t, x + d) - d \in x .. q /\ LastEnd(t, x + d) - d <= LastEnd(u, x)
    BY <1>3, <2>1, <2>2
  <2>5. LastEnd(t, x + d) \in x + d .. Len(t)
    BY <1>1, <2>2, CardEndsFacts
  <2>. QED  BY <1>1, <2>3, <2>4, <2>5
<1>6. ASSUME CardStart(u, x) PROVE CardValid(u, x) <=> CardValid(t, x + d)
  <2>1. Part(u, x, LastEnd(u, x)) = Part(t, x + d, LastEnd(u, x) + d)
    BY <1>5, <1>6, EndMoves
  <2>. QED  BY <1>5, <1>6, <2>1 DEF CardValid
<1>. QED  BY <1>4, <1>5, <1>6 DEF MovesTo

\* A run of digits, blanks and dashes starts at a, and no mark is before it.
RunStart(t, a) == a = 1 \/ t[a - 1] \notin RunCharacter \cup {Mark}

\* A run that no mark precedes is in a piece.
LEMMA RunPiece ==
    ASSUME NEW t \in Seq(Character), NEW sp, SpansOf(t, sp), WordSpans(t, sp),
           NEW u, u = ShownTo(t, sp, Len(t)), NEW a \in 1 .. Len(u), NEW n \in a .. Len(u),
           RunStart(u, a), \A h \in a .. n : u[h] \in RunCharacter
    PROVE  \E p, q, d : /\ Piece(t, sp, u, p, q, d) /\ RunStart(t, a + d)
                        /\ \A x \in a .. n : x \in p .. q /\ Inside(p, q, x)
<1>1. Len(t) \in Nat /\ u \in Seq(Character) /\ Len(u) \in Nat
  <2>1. Len(t) \in Nat /\ Len(t) \in 0 .. Len(t)
    BY LenProperties
  <2>2. u \in Seq(Character)
    BY <2>1, ShownFacts
  <2>. QED  BY <2>1, <2>2, LenProperties
<1>. DEFINE p == IF a = 1 THEN 1 ELSE a - 1
<1>2. /\ p \in 1 .. Len(u) /\ n \in p .. Len(u) /\ p \in Nat \ {0} /\ a \in Nat /\ n \in Nat
      /\ a = 1 => p = 1
      /\ a # 1 => p = a - 1
      /\ \A k \in p .. n : k \in a .. n \/ (a # 1 /\ k = a - 1)
      /\ \A x \in a .. n : x = 1 \/ p <= x - 1
      /\ p <= a
  BY <1>1
<1>. HIDE DEF p
<1>3. \A k \in p .. n : u[k] # Mark
  <2>1. Mark \notin RunCharacter
    BY DEF RunCharacter, Digit, Mark, Space, Dash
  <2>. QED  BY <1>2, <2>1 DEF RunStart
<1>4. PICK q \in n .. Len(u) : /\ \A k \in p .. q : u[k] # Mark
                               /\ q = Len(u) \/ u[q + 1] = Mark
  BY <1>1, <1>2, <1>3, StretchFrom
<1>5. q \in p .. Len(u) /\ q \in Nat /\ n <= q
  BY <1>1, <1>2
<1>6. PICK d : Stretch(t, sp, u, p, q, d)
  BY <1>2, <1>4, <1>5, StretchExists
<1>7. Piece(t, sp, u, p, q, d)
  BY <1>1, <1>2, <1>4, <1>5, <1>6 DEF Piece
<1>8. ASSUME NEW x \in a .. n PROVE x \in p .. q /\ Inside(p, q, x)
  <2>1. x \in p .. q /\ (x = 1 \/ x - 1 \in p .. q)
    BY <1>2, <1>5
  <2>. QED  BY <2>1 DEF Inside
<1>9. RunStart(t, a + d)
  <2>1. d \in Int /\ (p = 1 => d = 0)
    BY <1>6 DEF Stretch
  <2>2. CASE a = 1
    BY <1>2, <2>1, <2>2 DEF RunStart
  <2>3. CASE a # 1
    <3>1. a - 1 \in p .. q /\ (a - 1) + d = (a + d) - 1
      BY <1>2, <1>5, <2>1, <2>3
    <3>2. t[(a + d) - 1] = u[a - 1]
      BY <1>6, <3>1 DEF Stretch
    <3>. QED  BY <2>3, <3>2 DEF RunStart
  <2>. QED  BY <2>2, <2>3
<1>. QED  BY <1>7, <1>8, <1>9

\* The matches that a search comes upon which looks from a to b.
Search(t, E, a, b) ==
    /\ E \subseteq a .. b
    /\ \A x \in a .. b :
          x \in E <=> CardStart(t, x) /\ \A y \in E : y < x => LastEnd(t, y) < x

\* In no run without a mark before it does the search come upon a card.
NoCardFrom(t, a, n) ==
    \A E : (\A h \in a .. n : t[h] \in RunCharacter) /\ Search(t, E, a, n) /\ n \in E
              => ~CardValid(t, n)
NoCard(t) == \A a \in 1 .. Len(t) : RunStart(t, a) => \A n \in a .. Len(t) : NoCardFrom(t, a, n)

\* No match from before a run reaches into it.
LEMMA NoneReaches ==
    ASSUME NEW t \in Seq(Character), NEW a \in 1 .. Len(t), RunStart(t, a),
           NEW y \in 1 .. a - 1, CardStart(t, y)
    PROVE  LastEnd(t, y) < a
<1>1. Len(t) \in Nat /\ y \in 1 .. Len(t)
  BY LenProperties
<1>2. LastEnd(t, y) \in CardEnds(t, y) /\ LastEnd(t, y) \in y .. Len(t)
  BY <1>1, CardEndsFacts
<1>. SUFFICES ASSUME a <= LastEnd(t, y) PROVE FALSE
  BY <1>1, <1>2
<1>3. a - 1 \in y .. Len(t) /\ a - 1 <= LastEnd(t, y) /\ a # 1
  BY <1>1, <1>2
<1>4. t[a - 1] \in RunCharacter
  BY <1>1, <1>2, <1>3, CardEndsFacts
<1>. QED  BY <1>3, <1>4 DEF RunStart

\* What a search comes upon moves with the run.
LEMMA SearchMoves ==
    ASSUME NEW t, NEW u, NEW a \in Int, NEW n \in Int, NEW d \in Int, NEW E,
           Search(u, E, a, n), \A x \in a .. n : MovesTo(t, u, x, d),
           \A x \in a .. n : CardStart(u, x) => LastEnd(u, x) \in Int
    PROVE  Search(t, {x + d : x \in E}, a + d, n + d)
<1>. DEFINE F == {x + d : x \in E}
<1>1. E \subseteq a .. n
  BY DEF Search
<1>2. F \subseteq a + d .. n + d /\ \A x \in a .. n : x + d \in F <=> x \in E
  BY <1>1
<1>3. ASSUME NEW y \in E, NEW x \in a .. n
      PROVE  LastEnd(t, y + d) < x + d <=> LastEnd(u, y) < x
  <2>1. CardStart(u, y) /\ y \in a .. n
    BY <1>1 DEF Search
  <2>2. LastEnd(t, y + d) = LastEnd(u, y) + d /\ LastEnd(u, y) \in Int
    BY <2>1 DEF MovesTo
  <2>. QED  BY <2>2
<1>4. ASSUME NEW x \in a .. n
      PROVE  x + d \in F <=> CardStart(t, x + d) /\ \A y \in F : y < x + d => LastEnd(t, y) < x + d
  <2>1. (\A y \in F : y < x + d => LastEnd(t, y) < x + d)
           <=> (\A y \in E : y + d < x + d => LastEnd(t, y + d) < x + d)
    OBVIOUS
  <2>2. \A y \in E : y \in Int /\ (y + d < x + d <=> y < x)
    BY <1>1
  <2>3. x \in E <=> CardStart(u, x) /\ \A y \in E : y < x => LastEnd(u, y) < x
    BY DEF Search
  <2>4. CardStart(u, x) <=> CardStart(t, x + d)
    BY DEF MovesTo
  <2>. HIDE DEF F
  <2>. QED  BY <1>2, <1>3, <2>1, <2>2, <2>3, <2>4
<1>. HIDE DEF F
<1>5. \A x \in a + d .. n + d : x - d \in a .. n /\ (x - d) + d = x
  OBVIOUS
<1>6. ASSUME NEW x \in a + d .. n + d
      PROVE  x \in F <=> CardStart(t, x) /\ \A y \in F : y < x => LastEnd(t, y) < x
  BY <1>4, <1>5
<1>7. Search(t, F, a + d, n + d)
  BY <1>2, <1>6 DEF Search
<1>. QED  BY <1>7 DEF F

\* A match that stops before the next span stays in the piece.
LEMMA EndsBeforeSpans ==
    ASSUME NEW t, NEW sp, NEW u, NEW p, NEW q, NEW d, Piece(t, sp, u, p, q, d), NEW x \in p .. q,
           \A s \in sp : s.first = q + 1 + d =>
              t[s.first] \notin RunCharacter \/ LastEnd(t, x + d) < s.first
    PROVE  \A e \in CardEnds(t, x + d) : e <= q + d
<1>1. /\ t \in Seq(Character) /\ Len(t) \in Nat /\ Len(u) \in Nat /\ q \in Nat /\ d \in Int
      /\ x + d \in 1 .. Len(t) /\ x \in Int /\ x <= q /\ q <= Len(u)
  BY PieceFacts
<1>. SUFFICES ASSUME NEW e \in CardEnds(t, x + d), q + d < e PROVE FALSE
  <2>1. \A e \in CardEnds(t, x + d) : e \in Int
    BY <1>1, CardEndsFacts
  <2>. QED  BY <1>1, <2>1
<1>2. e \in x + d .. Len(t) /\ e <= LastEnd(t, x + d) /\ LastEnd(t, x + d) \in x + d .. Len(t)
  <2>1. CardStart(t, x + d)
    BY DEF CardStart
  <2>. QED  BY <1>1, <2>1, CardEndsFacts
<1>. DEFINE c == q + 1 + d
<1>3. c \in x + d .. Len(t) /\ c <= e /\ q + d < Len(t)
  BY <1>1, <1>2
<1>4. t[c] \in RunCharacter
  BY <1>1, <1>3, CardEndsFacts
<1>5. Mark \notin RunCharacter
  BY DEF RunCharacter, Digit, Mark, Space, Dash
<1>6. q < Len(u) /\ u[q + 1] = Mark
  <2>1. q = Len(u) => q + d = Len(t)
    BY DEF Piece, Stretch
  <2>2. q # Len(u)
    BY <1>1, <1>3, <2>1
  <2>. QED  BY <1>1, <2>2 DEF Piece
<1>7. PICK s \in sp : s.first = c
  <2>1. t[c] = Mark \/ \E s \in sp : s.first = c
    BY <1>6 DEF Piece, Stretch
  <2>. QED  BY <1>4, <1>5, <2>1
<1>8. LastEnd(t, x + d) < c
  BY <1>4, <1>7
<1>. QED  BY <1>1, <1>2, <1>3, <1>8

\* Replacing IBANs brings no card about.
LEMMA IbansBringNoCard ==
    ASSUME NEW t \in Seq(Character), NEW sp, SpansOf(t, sp), WordSpans(t, sp),
           \A s \in sp : t[s.first] \in Letter,
           NEW u, u = ShownTo(t, sp, Len(t)), NoCard(t)
    PROVE  NoCard(u)
<1>. SUFFICES ASSUME NEW a \in 1 .. Len(u), RunStart(u, a), NEW n \in a .. Len(u), NEW E,
                     \A h \in a .. n : u[h] \in RunCharacter, Search(u, E, a, n), n \in E,
                     CardValid(u, n)
              PROVE  FALSE
  BY DEF NoCard, NoCardFrom
<1>1. PICK p, q, d : /\ Piece(t, sp, u, p, q, d) /\ RunStart(t, a + d)
                     /\ \A x \in a .. n : x \in p .. q /\ Inside(p, q, x)
  BY RunPiece
<1>2. /\ Len(t) \in Nat /\ u \in Seq(Character) /\ Len(u) \in Nat /\ d \in Int
      /\ a \in Int /\ n \in Int /\ a \in a .. n /\ n \in a .. n
      /\ \A k \in p .. q : k \in 1 .. Len(u) /\ k + d \in 1 .. Len(t) /\ t[k + d] = u[k]
  <2>1. /\ Len(t) \in Nat /\ u \in Seq(Character) /\ Len(u) \in Nat /\ d \in Int
        /\ \A k \in p .. q : k \in 1 .. Len(u) /\ k + d \in 1 .. Len(t) /\ t[k + d] = u[k]
    BY <1>1, PieceFacts
  <2>. QED  BY <2>1
<1>3. ASSUME NEW x \in a .. n PROVE MovesTo(t, u, x, d)
  <2>1. Digit \cap Letter = {} /\ Space \notin Letter /\ Dash \notin Letter
    BY DEF Digit, Letter, Capital, Small, Space, Dash
  <2>2. \A s \in sp : t[s.first] \notin RunCharacter
    BY <2>1 DEF RunCharacter
  <2>3. \A e \in CardEnds(t, x + d) : e <= q + d
    BY <1>1, <2>2, EndsBeforeSpans
  <2>. QED  BY <1>1, <2>3, MatchMoves
<1>4. ASSUME NEW x \in a .. n, CardStart(u, x) PROVE LastEnd(u, x) \in Int
  <2>1. x \in 1 .. Len(u)
    BY <1>1, <1>2
  <2>. QED  BY <1>2, <1>4, <2>1, CardEndsFacts
<1>. DEFINE F == {x + d : x \in E}
<1>5. Search(t, F, a + d, n + d)
  BY <1>2, <1>3, <1>4, SearchMoves
<1>6. n + d \in F /\ a + d \in 1 .. Len(t) /\ n + d \in a + d .. Len(t)
  BY <1>1, <1>2
<1>. HIDE DEF F
<1>7. \A h \in a + d .. n + d : t[h] \in RunCharacter
  <2>1. \A h \in a + d .. n + d : h - d \in a .. n /\ (h - d) + d = h
    BY <1>2
  <2>. QED  BY <1>1, <1>2, <2>1
<1>8. ~CardValid(t, n + d)
  <2>1. NoCardFrom(t, a + d, n + d)
    BY <1>1, <1>6 DEF NoCard
  <2>. QED  BY <1>5, <1>6, <1>7, <2>1 DEF NoCardFrom
<1>9. CardStart(u, n)
  BY <1>2 DEF Search
<1>. QED  BY <1>2, <1>3, <1>8, <1>9 DEF MovesTo

\* The search of the output comes upon what that of the text does.
LEMMA SearchesAgree ==
    ASSUME NEW t, NEW sp, NEW u, NEW p, NEW q, NEW d, Piece(t, sp, u, p, q, d),
           NEW a \in Nat, NEW n \in Nat, \A x \in a .. n : x \in p .. q /\ Inside(p, q, x),
           NEW E, Search(t, E, 1, Len(t)),
           \A x \in a .. n : x + d \in E => \A e \in CardEnds(t, x + d) : e <= q + d,
           \A y \in E : y < a + d => LastEnd(t, y) < a + d,
           NEW F, Search(u, F, a, n)
    PROVE  \A x \in a .. n : x \in F <=> x + d \in E
<1>1. /\ t \in Seq(Character) /\ u \in Seq(Character) /\ Len(t) \in Nat /\ Len(u) \in Nat
      /\ q \in Nat /\ d \in Int
      /\ \A k \in p .. q : k \in 1 .. Len(u) /\ k + d \in 1 .. Len(t)
  BY PieceFacts
<1>2. /\ \A x \in a .. n : x \in 1 .. Len(u) /\ x + d \in 1 .. Len(t)
      /\ F \subseteq a .. n /\ E \subseteq 1 .. Len(t)
  BY <1>1 DEF Search
<1>. DEFINE Agrees(x) == x \in F <=> x + d \in E
            T == {x \in Nat : x \in a .. n /\ ~Agrees(x)}
<1>3. ASSUME NEW x \in a .. n, \A y \in a .. n : y < x => Agrees(y) PROVE Agrees(x)
  <2>1. /\ x \in F <=> CardStart(u, x) /\ \A y \in F : y < x => LastEnd(u, y) < x
        /\ x + d \in E <=> CardStart(t, x + d) /\ \A y \in E : y < x + d => LastEnd(t, y) < x + d
    BY <1>2 DEF Search
  <2>2. ASSUME NEW y \in a .. n, y + d \in E PROVE MovesTo(t, u, y, d)
    BY <2>2, MatchMoves
  <2>3. ASSUME NEW y \in F, y < x
        PROVE  /\ y + d \in E /\ MovesTo(t, u, y, d) /\ CardStart(u, y)
               /\ LastEnd(t, y + d) = LastEnd(u, y) + d /\ LastEnd(u, y) \in Int
    <3>1. y \in a .. n /\ y + d \in E /\ y \in 1 .. Len(u)
      BY <1>2, <1>3, <2>3
    <3>2. MovesTo(t, u, y, d) /\ CardStart(u, y)
      BY <2>2, <3>1 DEF Search
    <3>3. LastEnd(u, y) \in Int
      BY <1>1, <3>1, <3>2, CardEndsFacts
    <3>. QED  BY <3>1, <3>2, <3>3 DEF MovesTo
  <2>4. ASSUME x + d \in E PROVE x \in F
    <3>1. CardStart(u, x)
      BY <2>1, <2>2, <2>4 DEF MovesTo
    <3>2. ASSUME NEW y \in F, y < x PROVE LastEnd(u, y) < x
      <4>1. y + d \in E /\ LastEnd(t, y + d) = LastEnd(u, y) + d /\ LastEnd(u, y) \in Int
        BY <2>3, <3>2
      <4>2. y \in Int /\ y + d < x + d
        BY <1>1, <1>2, <3>2
      <4>3. LastEnd(t, y + d) < x + d
        BY <2>1, <2>4, <4>1, <4>2
      <4>. QED  BY <1>1, <4>1, <4>3
    <3>. QED  BY <2>1, <3>1, <3>2
  <2>5. ASSUME x \in F PROVE x + d \in E
    <3>1. CardStart(t, x + d)
      <4>1. CardStart(u, x)
        BY <2>1, <2>5
      <4>2. PICK e \in CardEnds(u, x) : TRUE
        BY <4>1 DEF CardStart
      <4>3. e + d \in CardEnds(t, x + d)
        BY EndsStayInside
      <4>. QED  BY <4>3 DEF CardStart
    <3>2. ASSUME NEW y \in E, y < x + d PROVE LastEnd(t, y) < x + d
      <4>1. y \in Int /\ y \in 1 .. Len(t) /\ CardStart(t, y)
        BY <1>2 DEF Search
      <4>2. CASE y < a + d
        <5>1. LastEnd(t, y) < a + d
          BY <4>2
        <5>2. LastEnd(t, y) \in Int
          BY <1>1, <4>1, CardEndsFacts
        <5>. QED  BY <1>1, <5>1, <5>2
      <4>3. CASE a + d <= y
        <5>1. y - d \in a .. n /\ (y - d) + d = y /\ y - d < x
          BY <1>1, <3>2, <4>1, <4>3
        <5>2. y - d \in F
          BY <1>3, <5>1
        <5>3. LastEnd(u, y - d) < x
          BY <2>1, <2>5, <5>1, <5>2
        <5>4. LastEnd(t, y) = LastEnd(u, y - d) + d /\ LastEnd(u, y - d) \in Int
          BY <2>3, <5>1, <5>2
        <5>. QED  BY <1>1, <5>3, <5>4
      <4>. QED  BY <1>1, <4>1, <4>2, <4>3
    <3>. QED  BY <2>1, <3>1, <3>2
  <2>. QED  BY <2>4, <2>5
<1>. SUFFICES ASSUME T # {} PROVE FALSE
  OBVIOUS
<1>4. PICK x \in T : \A y \in T : x <= y
  <2>. HIDE DEF Agrees
  <2>1. T \in SUBSET Nat
    OBVIOUS
  <2>. HIDE DEF T
  <2>. QED  BY <2>1, LeastNat
<1>5. \A y \in a .. n : y < x => Agrees(y)
  <2>. HIDE DEF Agrees
  <2>. QED  BY <1>4
<1>6. Agrees(x)
  <2>1. x \in a .. n
    BY <1>4
  <2>. HIDE DEF Agrees, T
  <2>. QED  BY <1>3, <1>5, <2>1
<1>. HIDE DEF Agrees
<1>. QED  BY <1>4, <1>6

\* Where the cards have been replaced that the search came upon, it comes upon no
\* more of them, but in the runs behind the marks.
LEMMA CardsLeaveNone ==
    ASSUME NEW t \in Seq(Character), NEW sp, SpansOf(t, sp), WordSpans(t, sp),
           NEW u, u = ShownTo(t, sp, Len(t)), NEW E, Search(t, E, 1, Len(t)),
           \A s \in sp : s.first \in E,
           \A y \in E : CardValid(t, y) => \E s \in sp : s.first = y
    PROVE  NoCard(u)
<1>. SUFFICES ASSUME NEW a \in 1 .. Len(u), RunStart(u, a), NEW n \in a .. Len(u), NEW F,
                     \A h \in a .. n : u[h] \in RunCharacter, Search(u, F, a, n), n \in F,
                     CardValid(u, n)
              PROVE  FALSE
  BY DEF NoCard, NoCardFrom
<1>1. PICK p, q, d : /\ Piece(t, sp, u, p, q, d) /\ RunStart(t, a + d)
                     /\ \A x \in a .. n : x \in p .. q /\ Inside(p, q, x)
  BY RunPiece
<1>2. /\ Len(t) \in Nat /\ u \in Seq(Character) /\ Len(u) \in Nat /\ d \in Int /\ q \in Nat
      /\ \A k \in p .. q : k \in 1 .. Len(u) /\ k + d \in 1 .. Len(t)
  BY <1>1, PieceFacts
<1>3. a \in Nat /\ n \in Nat /\ a \in a .. n /\ n \in a .. n
  BY <1>2
<1>4. a + d \in 1 .. Len(t) /\ n + d \in 1 .. Len(t)
  BY <1>1, <1>2, <1>3
<1>5. ASSUME NEW y \in E PROVE y \in 1 .. Len(t) /\ CardStart(t, y)
  BY DEF Search
<1>6. ASSUME NEW x \in a .. n, x + d \in E, NEW e \in CardEnds(t, x + d) PROVE e <= q + d
  <2>1. ASSUME NEW s \in sp, s.first = q + 1 + d PROVE LastEnd(t, x + d) < s.first
    <3>1. x + d < s.first
      BY <1>1, <1>2, <2>1
    <3>. QED  BY <1>5, <1>6, <3>1 DEF Search
  <2>. QED  BY <1>1, <2>1, EndsBeforeSpans
<1>7. ASSUME NEW y \in E, y < a + d PROVE LastEnd(t, y) < a + d
  <2>1. y \in 1 .. (a + d) - 1 /\ CardStart(t, y)
    BY <1>4, <1>5, <1>7
  <2>. QED  BY <1>1, <1>4, <2>1, NoneReaches
<1>8. n + d \in E
  <2>1. \A x \in a .. n : x + d \in E => \A e \in CardEnds(t, x + d) : e <= q + d
    BY <1>6
  <2>2. \A x \in a .. n : x \in F <=> x + d \in E
    <3>1. \A x \in a .. n : x \in p .. q /\ Inside(p, q, x)
      BY <1>1
    <3>2. Piece(t, sp, u, p, q, d) /\ a \in Nat /\ n \in Nat
      BY <1>1, <1>3
    <3>3. \A y \in E : y < a + d => LastEnd(t, y) < a + d
      BY <1>7
    <3>4. Search(t, E, 1, Len(t)) /\ Search(u, F, a, n)
      OBVIOUS
    <3>. QED  BY ONLY <2>1, <3>1, <3>2, <3>3, <3>4, SearchesAgree
  <2>. QED  BY <1>3, <2>2
<1>9. MovesTo(t, u, n, d) /\ CardStart(u, n)
  <2>1. MovesTo(t, u, n, d)
    BY <1>1, <1>3, <1>6, <1>8, MatchMoves
  <2>. QED  BY <1>3, <2>1 DEF Search
<1>10. PICK s \in sp : s.first = n + d
  BY <1>8, <1>9 DEF MovesTo
<1>11. Uncovered(sp, n + d)
  BY <1>1, <1>3 DEF Piece, Stretch
<1>12. Covers(s, n + d)
  BY <1>2, <1>4, <1>10 DEF Covers, SpansOf
<1>. QED  BY <1>11, <1>12 DEF Uncovered

-----------------------------------------------------------------------------
(* The passes.                                                               *)

\* The search for cards has come upon E, and replaced those that are.
CardsSearched(E) ==
    /\ Search(text, E, 1, from - 1)
    /\ \A y \in E : LastEnd(text, y) < from
    /\ \A s \in spans : s.first \in E
    /\ \A y \in E : CardValid(text, y) => \E s \in spans : s.first = y

AgainInv ==
    /\ round \in {1, 2}
    /\ \A s \in spans : Matches(s.first) /\ Replaces(s.first) # {}
    /\ pass = "credit_card" => \E E : CardsSearched(E)
    /\ round = 2 \/ pass = "credit_card" => NoIban(text)
    /\ round = 2 => NoCard(text)

\* It holds of the first pass, which has found nothing yet.
LEMMA InitAgainInv == Init => AgainInv
  BY DEF Init, AgainInv

\* The next match is the next that the search comes upon.
LEMMA SearchGoesOn ==
    ASSUME NEW t \in Seq(Character), NEW f \in Nat \ {0}, NEW E, Search(t, E, 1, f - 1),
           \A y \in E : LastEnd(t, y) < f, NEW i \in f .. Len(t), CardStart(t, i),
           \A h \in f .. i - 1 : ~CardStart(t, h)
    PROVE  /\ Search(t, E \cup {i}, 1, (LastEnd(t, i) + 1) - 1)
           /\ \A y \in E \cup {i} : LastEnd(t, y) < LastEnd(t, i) + 1
<1>. DEFINE e == LastEnd(t, i)
            F == E \cup {i}
<1>1. Len(t) \in Nat /\ i \in 1 .. Len(t) /\ E \subseteq 1 .. f - 1
  BY LenProperties DEF Search
<1>2. e \in i .. Len(t) /\ e \in Nat /\ (e + 1) - 1 = e
  BY <1>1, CardEndsFacts
<1>. HIDE DEF e
<1>3. ASSUME NEW y \in E PROVE LastEnd(t, y) \in Int /\ LastEnd(t, y) < f
  <2>1. CardStart(t, y) /\ y \in 1 .. Len(t)
    <3>1. y \in 1 .. f - 1 /\ CardStart(t, y)
      BY <1>1 DEF Search
    <3>. QED  BY <1>1, <3>1
  <2>. QED  BY <1>1, <2>1, CardEndsFacts
<1>4. F \subseteq 1 .. e
  BY <1>1, <1>2
<1>5. ASSUME NEW x \in 1 .. e
      PROVE  x \in F <=> CardStart(t, x) /\ \A y \in F : y < x => LastEnd(t, y) < x
  <2>1. CASE x < f
    <3>1. x \in 1 .. f - 1 /\ x # i /\ ~(i < x)
      BY <1>1, <1>2, <2>1
    <3>. QED  BY <3>1 DEF Search
  <2>2. CASE f <= x /\ x < i
    <3>1. x \in f .. i - 1 /\ x # i /\ x \notin E
      BY <1>1, <1>2, <2>2
    <3>. QED  BY <3>1
  <2>3. CASE x = i
    <3>1. \A y \in F : y < i => LastEnd(t, y) < i
      BY <1>1, <1>3
    <3>. QED  BY <2>3, <3>1
  <2>4. CASE i < x
    <3>1. x \notin F
      BY <1>1, <1>2, <2>4
    <3>2. ~(LastEnd(t, i) < x) /\ i \in F
      BY <1>2 DEF e
    <3>. QED  BY <2>4, <3>1, <3>2
  <2>. QED  BY <1>1, <1>2, <2>1, <2>2, <2>3, <2>4
<1>6. \A y \in F : LastEnd(t, y) < e + 1
  BY <1>1, <1>2, <1>3 DEF e
<1>7. Search(t, F, 1, e)
  BY <1>4, <1>5 DEF Search
<1>. QED  BY <1>2, <1>6, <1>7 DEF e

\* What is replaced starts a word; an IBAN, with a letter.
LEMMA PassSpans ==
    ASSUME PassInv, AgainInv
    PROVE  /\ SpansOf(text, spans) /\ WordSpans(text, spans)
           /\ pass = "iban" => \A s \in spans : text[s.first] \in Letter
<1>1. Len(text) \in Nat /\ last_end \in 0 .. Len(text)
  BY LenProperties DEF PassInv
<1>2. SpansOf(text, spans)
  BY <1>1 DEF PassInv, SpansOf
<1>3. ASSUME NEW s \in spans
      PROVE  /\ text[s.first] \in Word /\ Boundary(text, s.first)
             /\ pass = "iban" => text[s.first] \in Letter
  <2>1. Matches(s.first)
    BY DEF AgainInv
  <2>2. Letter \subseteq Word /\ Digit \subseteq Word
    BY DEF Word, Alphanumeric
  <2>3. CASE pass = "iban"
    BY <2>1, <2>2, <2>3 DEF Matches, IbanStart
  <2>4. CASE pass # "iban"
    <3>1. CardStart(text, s.first)
      BY <2>1, <2>4 DEF Matches
    <3>2. text[s.first] \in Digit /\ Boundary(text, s.first)
      BY <3>1 DEF CardStart, CardEnds
    <3>. QED  BY <2>2, <2>4, <3>2
  <2>. QED  BY <2>3, <2>4
<1>. QED  BY <1>2, <1>3 DEF WordSpans

\* Every pass leaves a text in which an IBAN is behind a mark; ...
LEMMA OutputHasNoIban ==
    ASSUME PassInv, FoundInv, AgainInv, pc = "end"
    PROVE  NoIban(output)
<1>1. /\ text \in Seq(Character) /\ SpansOf(text, spans) /\ from \in Nat \ {0}
      /\ output = ShownTo(text, spans, Len(text)) /\ pass \in {"iban", "credit_card"}
      /\ Len(text) \in Nat
  BY PassSpans, LenProperties DEF PassInv
<1>. SUFFICES ASSUME NEW i \in 1 .. Len(output), IbanStart(output, i), IbanEnds(output, i) # {},
                     ~BehindMark(output, i)
              PROVE  FALSE
  BY DEF NoIban
<1>2. PICK m \in 1 .. Len(text) : /\ Uncovered(spans, m) /\ IbanStart(text, m)
                                  /\ IbanEnds(text, m) # {} /\ ~BehindMark(text, m)
  BY <1>1, IbanWasThere
<1>3. CASE pass = "iban"
  <2>1. Matches(m) /\ Apart(m) /\ Replaces(m) # {}
    BY <1>2, <1>3 DEF Matches, Apart, Replaces, ValidIbanSpan
  <2>2. m < from
    BY <1>1, <2>1 DEF FoundInv
  <2>3. Found(m)
    BY <2>1, <2>2 DEF FoundInv
  <2>. QED  BY <1>2, <2>3 DEF Found, Uncovered
<1>4. CASE pass = "credit_card"
  <2>1. NoIban(text)
    BY <1>4 DEF AgainInv
  <2>. QED  BY <1>2, <2>1 DEF NoIban
<1>. QED  BY <1>1, <1>3, <1>4

\* ... and, from the first pass over cards on, one in which cards are only found in
\* the runs behind marks.
LEMMA OutputHasNoCard ==
    ASSUME PassInv, FoundInv, AgainInv, pc = "end", round = 2 \/ pass = "credit_card"
    PROVE  NoCard(output)
<1>1. /\ text \in Seq(Character) /\ SpansOf(text, spans) /\ WordSpans(text, spans)
      /\ from \in Nat \ {0} /\ output = ShownTo(text, spans, Len(text))
      /\ pass \in {"iban", "credit_card"} /\ Len(text) \in Nat
  BY PassSpans, LenProperties DEF PassInv
<1>2. CASE pass = "iban"
  <2>1. NoCard(text) /\ \A s \in spans : text[s.first] \in Letter
    BY <1>2, PassSpans DEF AgainInv
  <2>. QED  BY <1>1, <2>1, IbansBringNoCard
<1>3. CASE pass = "credit_card"
  <2>1. PICK E : CardsSearched(E)
    BY <1>3 DEF AgainInv
  <2>2. ASSUME NEW x \in 1 .. Len(text), from <= x PROVE ~CardStart(text, x)
    BY <1>1, <1>3, <2>2 DEF FoundInv, Matches
  <2>3. /\ E \subseteq 1 .. from - 1
        /\ \A x \in 1 .. from - 1 :
              x \in E <=> CardStart(text, x) /\ \A y \in E : y < x => LastEnd(text, y) < x
    BY <2>1 DEF CardsSearched, Search
  <2>4. ASSUME NEW x \in E PROVE x \in 1 .. Len(text)
    <3>1. CardEnds(text, x) # {} /\ x \in 1 .. from - 1
      BY <2>3 DEF CardStart
    <3>2. x .. Len(text) # {}
      BY <3>1 DEF CardEnds
    <3>. QED  BY <1>1, <3>1, <3>2
  <2>5. ASSUME NEW x \in 1 .. Len(text)
        PROVE  x \in E <=> CardStart(text, x) /\ \A y \in E : y < x => LastEnd(text, y) < x
    <3>1. CASE x < from
      <4>1. x \in 1 .. from - 1
        BY <1>1, <3>1
      <4>. QED  BY <2>3, <4>1
    <3>2. CASE from <= x
      <4>1. x \notin E
        BY <1>1, <2>3, <3>2
      <4>. QED  BY <2>2, <3>2, <4>1
    <3>. QED  BY <1>1, <3>1, <3>2
  <2>6. Search(text, E, 1, Len(text))
    BY <2>4, <2>5 DEF Search
  <2>7. /\ \A s \in spans : s.first \in E
        /\ \A y \in E : CardValid(text, y) => \E s \in spans : s.first = y
    BY <2>1 DEF CardsSearched
  <2>. QED  BY <1>1, <2>6, <2>7, CardsLeaveNone
<1>. QED  BY <1>1, <1>2, <1>3

\* No step undoes this.
LEMMA AgainInvNext == PassInv /\ FoundInv /\ AgainInv /\ [Next]_vars => AgainInv'
<1>. SUFFICES ASSUME PassInv, FoundInv, AgainInv, [Next]_vars PROVE AgainInv'
  OBVIOUS
<1>0. /\ text \in Seq(Character) /\ Len(text) \in Nat /\ from \in Nat \ {0}
      /\ pass \in {"iban", "credit_card"}
  BY LenProperties DEF PassInv
<1>a. ASSUME UNCHANGED <<text, pass>>, NEW i
      PROVE  (Matches(i)' <=> Matches(i)) /\ Replaces(i)' = Replaces(i)
  BY <1>a DEF Matches, Replaces
\* A match in the card pass joins those the search has come upon.
<1>b. ASSUME pass = "credit_card", NEW i \in from .. Len(text), IsNext(i),
             UNCHANGED text, from' = ResumeAfter(i),
             spans' = IF CardValid(text, i)
                      THEN spans \cup {[first |-> i, last |-> LastEnd(text, i)]} ELSE spans
      PROVE  \E E : CardsSearched(E)'
  <2>1. PICK E : CardsSearched(E)
    BY <1>b DEF AgainInv
  <2>2. /\ Search(text, E, 1, from - 1) /\ \A y \in E : LastEnd(text, y) < from
        /\ \A s \in spans : s.first \in E
        /\ \A y \in E : CardValid(text, y) => \E s \in spans : s.first = y
    BY <2>1 DEF CardsSearched
  <2>3. CardStart(text, i) /\ \A h \in from .. i - 1 : ~CardStart(text, h)
    BY <1>b DEF IsNext, Matches
  <2>4. /\ Search(text, E \cup {i}, 1, (LastEnd(text, i) + 1) - 1)
        /\ \A y \in E \cup {i} : LastEnd(text, y) < LastEnd(text, i) + 1
    BY <1>0, <2>2, <2>3, SearchGoesOn
  <2>5. from' = LastEnd(text, i) + 1 /\ text' = text
    BY <1>b DEF ResumeAfter, LastEnd
  <2>6. \A s \in spans' : s.first \in E \cup {i}
    BY <1>b, <2>2
  <2>7. ASSUME NEW y \in E \cup {i}, CardValid(text, y) PROVE \E s \in spans' : s.first = y
    <3>1. CASE y \in E
      <4>1. \E s \in spans : s.first = y
        BY <2>2, <2>7, <3>1
      <4>2. spans \subseteq spans'
        BY <1>b
      <4>. QED  BY <4>1, <4>2
    <3>2. CASE y = i
      <4>. DEFINE s == [first |-> i, last |-> LastEnd(text, i)]
      <4>1. s.first = i /\ s \in spans'
        BY <1>b, <2>7, <3>2
      <4>. QED  BY <3>2, <4>1
    <3>. QED  BY <3>1, <3>2
  <2>8. CardsSearched(E \cup {i})'
    BY <2>4, <2>5, <2>6, <2>7 DEF CardsSearched
  <2>. QED  BY <2>8
<1>c. ASSUME pass = "credit_card", NEW i
      PROVE  Replaces(i) = IF CardValid(text, i) THEN {LastEnd(text, i)} ELSE {}
  BY <1>c DEF Replaces, CardValid, LastEnd
<1>1. CASE ReplaceMatch
  <2>1. PICK i \in from .. Len(text) :
          /\ IsNext(i)
          /\ \E j \in Replaces(i) : spans' = spans \cup {[first |-> i, last |-> j]}
          /\ from' = ResumeAfter(i)
          /\ UNCHANGED <<text, round, pass, pc>>
    BY <1>1 DEF ReplaceMatch
  <2>2. PICK j \in Replaces(i) : spans' = spans \cup {[first |-> i, last |-> j]}
    BY <2>1
  <2>3. \A s \in spans' : Matches(s.first)' /\ Replaces(s.first)' # {}
    <3>1. \A s \in spans : Matches(s.first) /\ Replaces(s.first) # {}
      BY DEF AgainInv
    <3>2. Matches(i) /\ Replaces(i) # {}
      BY <2>1 DEF IsNext
    <3>3. \A s \in spans' : s \in spans \/ s.first = i
      BY <2>2
    <3>4. \A s \in spans' : Matches(s.first) /\ Replaces(s.first) # {}
      BY <3>1, <3>2, <3>3
    <3>. QED  BY <1>a, <2>1, <3>4
  <2>4. ASSUME pass = "credit_card" PROVE \E E : CardsSearched(E)'
    <3>1. CardValid(text, i) /\ j = LastEnd(text, i)
      BY <1>c, <2>2, <2>4
    <3>. QED  BY <1>b, <2>1, <2>2, <2>4, <3>1
  <2>. QED  BY <2>1, <2>3, <2>4 DEF AgainInv
<1>2. CASE SkipMatch
  <2>1. PICK i \in from .. Len(text) :
          /\ IsNext(i) /\ (i <= last_end \/ Replaces(i) = {})
          /\ from' = ResumeAfter(i)
          /\ UNCHANGED <<text, round, pass, pc, last_end, output, spans>>
    BY <1>2 DEF SkipMatch
  <2>2. \A s \in spans' : Matches(s.first)' /\ Replaces(s.first)' # {}
    BY <1>a, <2>1 DEF AgainInv
  <2>3. ASSUME pass = "credit_card" PROVE \E E : CardsSearched(E)'
    <3>1. last_end < from /\ last_end \in Nat
      BY <1>0, <2>3 DEF FoundInv, PassInv
    <3>2. Replaces(i) = {}
      BY <1>0, <2>1, <3>1
    <3>3. ~CardValid(text, i)
      BY <1>c, <2>3, <3>2
    <3>. QED  BY <1>b, <2>1, <2>3, <3>3
  <2>. QED  BY <2>1, <2>2, <2>3 DEF AgainInv
<1>3. CASE EndPass
  <2>1. UNCHANGED <<text, round, pass, from, spans>>
    BY <1>3 DEF EndPass
  <2>2. \A s \in spans' : Matches(s.first)' /\ Replaces(s.first)' # {}
    BY <1>a, <2>1 DEF AgainInv
  <2>3. ASSUME NEW E, CardsSearched(E) PROVE CardsSearched(E)'
    BY <2>1, <2>3 DEF CardsSearched
  <2>. QED  BY <2>1, <2>2, <2>3 DEF AgainInv
<1>4. CASE NextPass
  <2>1. /\ pc = "end" /\ text' = output /\ from' = 1 /\ spans' = {}
        /\ pass' = IF pass = "iban" THEN "credit_card" ELSE "iban"
        /\ round' = IF pass = "iban" THEN round ELSE 2
    BY <1>4 DEF NextPass
  <2>2. NoIban(text')
    BY <2>1, OutputHasNoIban
  <2>3. round' = 2 => NoCard(text')
    <3>1. round' = 2 => round = 2 \/ pass = "credit_card"
      BY <1>0, <2>1
    <3>. QED  BY <2>1, <3>1, OutputHasNoCard
  <2>4. CardsSearched({})'
    <3>1. from' - 1 = 0 /\ 1 .. 0 = {}
      BY <2>1
    <3>. QED  BY <2>1, <3>1 DEF CardsSearched, Search
  <2>. QED  BY <2>1, <2>2, <2>3, <2>4 DEF AgainInv
<1>5. CASE UNCHANGED vars
  <2>1. UNCHANGED <<text, round, pass, from, spans>>
    BY <1>5 DEF vars
  <2>2. \A s \in spans' : Matches(s.first)' /\ Replaces(s.first)' # {}
    BY <1>a, <2>1 DEF AgainInv
  <2>3. ASSUME NEW E, CardsSearched(E) PROVE CardsSearched(E)'
    BY <2>1, <2>3 DEF CardsSearched
  <2>. QED  BY <2>1, <2>2, <2>3 DEF AgainInv
<1>. QED  BY <1>1, <1>2, <1>3, <1>4, <1>5 DEF Next

\* The start of the run that reaches up to n.
LEMMA RunStarts ==
    ASSUME NEW t \in Seq(Character), NEW n \in 1 .. Len(t), t[n] \in RunCharacter
    PROVE  \E a \in 1 .. n : /\ \A h \in a .. n : t[h] \in RunCharacter
                             /\ a = 1 \/ t[a - 1] \notin RunCharacter
<1>. DEFINE T == {a \in 1 .. n : \A h \in a .. n : t[h] \in RunCharacter}
<1>1. n \in Nat /\ n \in T /\ T \in SUBSET Nat
  <2>1. n \in Nat /\ n \in 1 .. n /\ \A h \in n .. n : h = n
    BY LenProperties
  <2>. QED  BY <2>1
<1>2. PICK a \in T : \A b \in T : a <= b
  <2>. HIDE DEF T
  <2>. QED  BY <1>1, LeastNat
<1>3. ASSUME a # 1, t[a - 1] \in RunCharacter PROVE FALSE
  <2>1. a - 1 \in 1 .. n /\ ~(a <= a - 1) /\ \A h \in a - 1 .. n : h = a - 1 \/ h \in a .. n
    BY <1>1, <1>2, <1>3
  <2>2. a - 1 \in T
    BY <1>2, <1>3, <2>1
  <2>. QED  BY <1>2, <2>1, <2>2
<1>. QED  BY <1>2, <1>3

\* A search that has gone over a run from further before it is one of the run.
LEMMA SearchOfRun ==
    ASSUME NEW t \in Seq(Character), NEW f \in Nat, NEW E, Search(t, E, 1, f),
           NEW a \in 1 .. Len(t), RunStart(t, a), NEW n \in a .. Len(t), n <= f
    PROVE  Search(t, E \cap (a .. n), a, n)
<1>1. Len(t) \in Nat /\ E \subseteq 1 .. f /\ \A x \in a .. n : x \in 1 .. f
  BY LenProperties DEF Search
<1>2. ASSUME NEW y \in E, y < a PROVE LastEnd(t, y) < a /\ LastEnd(t, y) \in Int
  <2>1. y \in 1 .. a - 1 /\ y \in 1 .. Len(t) /\ CardStart(t, y)
    BY <1>1, <1>2 DEF Search
  <2>2. LastEnd(t, y) \in Int
    BY <1>1, <2>1, CardEndsFacts
  <2>. QED  BY <2>1, <2>2, NoneReaches
<1>3. ASSUME NEW x \in a .. n
      PROVE  (\A y \in E : y < x => LastEnd(t, y) < x)
                <=> (\A y \in E \cap (a .. n) : y < x => LastEnd(t, y) < x)
  <2>1. ASSUME NEW y \in E, y < x PROVE y < a \/ y \in a .. n
    BY <1>1, <2>1
  <2>2. ASSUME NEW y \in E, y < a PROVE LastEnd(t, y) < x
    BY <1>1, <1>2, <2>2
  <2>. QED  BY <2>1, <2>2
<1>. QED  BY <1>1, <1>3 DEF Search

\* A second redaction finds only what a mark has freed.
THEOREM AgainAlwaysBehindMarks == Spec => []AgainOnlyBehindMarks
<1>1. PassInv /\ AgainInv => AgainOnlyBehindMarks
  <2>. SUFFICES ASSUME PassInv, AgainInv, round = 2, NEW s \in spans
                PROVE  \E k \in 1 .. s.first - 1 :
                          /\ text[k] = Mark
                          /\ \A h \in k + 1 .. s.first - 1 :
                                pass = "credit_card" /\ text[h] \in Digit \cup {Space, Dash}
    BY DEF AgainOnlyBehindMarks
  <2>. DEFINE n == s.first
  <2>1. /\ text \in Seq(Character) /\ Len(text) \in Nat /\ from \in Nat \ {0}
        /\ pass \in {"iban", "credit_card"} /\ n \in 1 .. Len(text)
    BY LenProperties DEF PassInv
  <2>2. Matches(n) /\ Replaces(n) # {}
    BY DEF AgainInv
  <2>3. CASE pass = "iban"
    <3>1. IbanStart(text, n) /\ IbanEnds(text, n) # {}
      BY <2>2, <2>3 DEF Matches, Replaces, ValidIbanSpan
    <3>2. BehindMark(text, n)
      BY <2>1, <3>1 DEF AgainInv, NoIban
    <3>3. n - 1 \in 1 .. n - 1 /\ (n - 1) + 1 .. n - 1 = {} /\ text[n - 1] = Mark
      BY <2>1, <3>2 DEF BehindMark
    <3>. QED  BY <3>3
  <2>4. CASE pass = "credit_card"
    <3>1. PICK E : CardsSearched(E)
      BY <2>4 DEF AgainInv
    <3>2. n \in E /\ Search(text, E, 1, from - 1) /\ n \in 1 .. from - 1
      BY <3>1 DEF CardsSearched, Search
    <3>3. CardValid(text, n)
      BY <2>2, <2>4 DEF Replaces, CardValid, LastEnd
    <3>4. text[n] \in RunCharacter
      <4>1. CardStart(text, n)
        BY <3>2 DEF Search
      <4>. QED  BY <2>1, <4>1, CardEndsFacts DEF RunCharacter
    <3>5. PICK a \in 1 .. n : /\ \A h \in a .. n : text[h] \in RunCharacter
                              /\ a = 1 \/ text[a - 1] \notin RunCharacter
      BY <2>1, <3>4, RunStarts
    <3>6. a \in 1 .. Len(text) /\ n \in a .. Len(text) /\ n <= from - 1 /\ from - 1 \in Nat
      BY <2>1, <3>2
    <3>7. ~RunStart(text, a)
      <4>. SUFFICES ASSUME RunStart(text, a) PROVE FALSE
        OBVIOUS
      <4>1. Search(text, E \cap (a .. n), a, n)
        BY <2>1, <3>2, <3>6, SearchOfRun
      <4>2. n \in E \cap (a .. n)
        BY <2>1, <3>2, <3>6
      <4>3. NoCardFrom(text, a, n)
        BY <3>6 DEF AgainInv, NoCard
      <4>. QED  BY <3>3, <3>5, <4>1, <4>2, <4>3 DEF NoCardFrom
    <3>8. a # 1 /\ text[a - 1] = Mark
      BY <3>5, <3>7 DEF RunStart
    <3>9. a - 1 \in 1 .. n - 1 /\ \A h \in (a - 1) + 1 .. n - 1 : h \in a .. n
      BY <2>1, <3>6, <3>8
    <3>. QED  BY <2>4, <3>5, <3>8, <3>9 DEF RunCharacter
  <2>. QED  BY <2>1, <2>3, <2>4
<1>. QED  BY <1>1, InitPassInv, PassInvNext, InitFoundInv, FoundInvNext, InitAgainInv,
             AgainInvNext, PTL DEF Spec
=============================================================================
