-------------------------- MODULE ConfigFile_proofs --------------------------
(***************************************************************************)
(* For any number of inits, any configuration there may be before, and     *)
(* wherever writes and reads stop: the init that opened the file last      *)
(* wins, one that is not forced alters nothing that is there, and what is  *)
(* loaded in the middle of it all hides no less than the example but in    *)
(* settings of the old file, one of which may be a splice of both.         *)
(***************************************************************************)
EXTENDS ConfigFile, SequenceTheorems, FiniteSetTheorems, TLAPS

OldPieces == {<<"old", k, part>> : k \in Keys \cup {Comment}, part \in {"whole", "head", "tail"}}

\* What a file may be made of.
Piece == OldPieces \cup {Example[p] : p \in 1 .. 15} \cup {Hole}

\* What inits leave: pieces of the example in their places, and zero bytes.
Exemplary(t) == \A p \in 1 .. Len(t) : p <= 15 /\ t[p] \in {Example[p], Hole}

-----------------------------------------------------------------------------
(* The texts.                                                               *)

LEMMA KeyFacts ==
    /\ Keys = {"mode", "redact", "fields_deny", "fields_allow", "hash_env",
               "sample_limit", "max_line_bytes", "max_body_bytes"}
    /\ Numbers \subseteq Keys
    /\ Lists \cup {"mode"} \subseteq Keys \ Numbers
    /\ Comment \notin Keys /\ "zero bytes" \notin Keys \cup {Comment}
    /\ "no file" \notin Keys \cup {Comment}
  BY DEF Keys, Defaults, Lists, Numbers, Comment

LEMMA PartsOf ==
    ASSUME NEW a, NEW b, NEW c
    PROVE  Source(<<a, b, c>>) = a /\ Key(<<a, b, c>>) = b /\ PartOf(<<a, b, c>>) = c
  BY DEF Source, Key, PartOf

\* The pieces of the example, one by one.
LEMMA ExamplePieces ==
    /\ Key(Example[1]) = "mode" /\ PartOf(Example[1]) = "whole"
    /\ Key(Example[2]) = "redact" /\ PartOf(Example[2]) = "head"
    /\ Key(Example[3]) = "redact" /\ PartOf(Example[3]) = "tail"
    /\ Key(Example[4]) = "fields_deny" /\ PartOf(Example[4]) = "head"
    /\ Key(Example[5]) = "fields_deny" /\ PartOf(Example[5]) = "tail"
    /\ Key(Example[6]) = "fields_allow" /\ PartOf(Example[6]) = "head"
    /\ Key(Example[7]) = "fields_allow" /\ PartOf(Example[7]) = "tail"
    /\ Key(Example[8]) = "hash_env" /\ PartOf(Example[8]) = "head"
    /\ Key(Example[9]) = "hash_env" /\ PartOf(Example[9]) = "tail"
    /\ Key(Example[10]) = "sample_limit" /\ PartOf(Example[10]) = "head"
    /\ Key(Example[11]) = "sample_limit" /\ PartOf(Example[11]) = "tail"
    /\ Key(Example[12]) = "max_line_bytes" /\ PartOf(Example[12]) = "head"
    /\ Key(Example[13]) = "max_line_bytes" /\ PartOf(Example[13]) = "tail"
    /\ Key(Example[14]) = "max_body_bytes" /\ PartOf(Example[14]) = "head"
    /\ Key(Example[15]) = "max_body_bytes" /\ PartOf(Example[15]) = "tail"
    /\ \A p \in 1 .. 15 : Source(Example[p]) = "example"
<1>1. \A p \in 1 .. 15 : p \in {1, 2, 3, 4, 5, 6, 7, 8, 9, 10, 11, 12, 13, 14, 15}
  OBVIOUS
<1>2. \A p \in {1, 2, 3, 4, 5, 6, 7, 8, 9, 10, 11, 12, 13, 14, 15} : Source(Example[p]) = "example"
  BY DEF Example, Source
<1>. QED  BY <1>1, <1>2 DEF Example, Key, PartOf

LEMMA ExampleFacts ==
    /\ Len(Example) = 15 /\ Example \in Seq(Piece)
    /\ \A p \in 1 .. 15 :
          /\ Source(Example[p]) = "example" /\ Key(Example[p]) \in Keys
          /\ Example[p] # Hole /\ Example[p] \in Piece
    /\ Hole \in Piece /\ Key(Hole) = "zero bytes"
<1>1. Len(Example) = 15 /\ DOMAIN Example = 1 .. 15
  BY DEF Example
<1>2. \A p \in {1, 2, 3, 4, 5, 6, 7, 8, 9, 10, 11, 12, 13, 14, 15} : Key(Example[p]) \in Keys
  <2>1. /\ "mode" \in Keys /\ "redact" \in Keys /\ "fields_deny" \in Keys
        /\ "fields_allow" \in Keys /\ "hash_env" \in Keys /\ "sample_limit" \in Keys
        /\ "max_line_bytes" \in Keys /\ "max_body_bytes" \in Keys
    BY KeyFacts
  <2>. QED  BY <2>1, ExamplePieces
<1>3. \A p \in 1 .. 15 : p \in {1, 2, 3, 4, 5, 6, 7, 8, 9, 10, 11, 12, 13, 14, 15}
  OBVIOUS
<1>4. Source(Hole) = "none" /\ Key(Hole) = "zero bytes"
  BY DEF Hole, Source, Key
<1>5. Example \in Seq({Example[p] : p \in 1 .. 15})
  BY DEF Example
<1>6. Hole \in Piece /\ \A p \in 1 .. 15 : Example[p] \in Piece
  BY DEF Piece
<1>7. Example \in Seq(Piece)
  <2>. HIDE DEF Example
  <2>. QED  BY <1>1, <1>5, <1>6
<1>8. \A p \in 1 .. 15 : Source(Example[p]) = "example" /\ Example[p] # Hole
  BY <1>4, ExamplePieces
<1>9. \A p \in 1 .. 15 : Key(Example[p]) \in Keys
  BY <1>2, <1>3
<1>. HIDE DEF Example
<1>. QED  BY <1>1, <1>4, <1>6, <1>7, <1>8, <1>9

\* Zero bytes and a missing file are no settings.
LEMMA PieceFacts ==
    ASSUME NEW a \in Piece
    PROVE  /\ a # Hole => a \in OldPieces \/ \E p \in 1 .. 15 : a = Example[p]
           /\ a \in OldPieces => Source(a) = "old"
           /\ a = Hole => Key(a) = "zero bytes"
           /\ ~(Source(a) = "none" /\ Key(a) = "no file")
<1>1. ASSUME a \in OldPieces PROVE Source(a) = "old"
  BY <1>1, PartsOf DEF OldPieces
<1>2. ASSUME NEW p \in 1 .. 15, a = Example[p] PROVE Source(a) = "example"
  BY <1>2, ExampleFacts
<1>. QED  BY <1>1, <1>2, ExampleFacts DEF Piece

LEMMA AbsentIsNoText == Absent \notin Seq(Piece)
<1>1. Len(Absent) = 1
  BY DEF Absent
<1>2. Source(Absent[1]) = "none" /\ Key(Absent[1]) = "no file"
  BY DEF Absent, Source, Key
<1>3. ASSUME Absent \in Seq(Piece) PROVE Absent[1] \in Piece
  BY <1>1, <1>3, ElementOfSeq
<1>. QED  BY <1>2, <1>3, PieceFacts

\* w is t with the places behind n, up to m, written over with the example's.
WrittenOver(w, t, n, m) ==
    /\ w \in Seq(Piece)
    /\ Len(w) \in {Len(t), m} /\ Len(w) >= Len(t) /\ Len(w) >= m
    /\ \A p \in 1 .. Len(w) :
          /\ p \in n + 1 .. m => w[p] = Example[p]
          /\ p \notin n + 1 .. m /\ p <= Len(t) => w[p] = t[p]
          /\ p \notin n + 1 .. m /\ p > Len(t) => w[p] = Hole

\* A write puts its part of the example in its place, and changes no other.
LEMMA WrittenPieces ==
    ASSUME NEW t \in Seq(Piece), NEW n \in Nat, NEW m \in n + 1 .. 15,
           NEW w, w = WrittenAt(t, n, SubSeq(Example, n + 1, m))
    PROVE  WrittenOver(w, t, n, m)
<1>. DEFINE chunk == SubSeq(Example, n + 1, m)
            len == IF Len(t) > m THEN Len(t) ELSE m
<1>1. n + 1 \in Int /\ m \in Int /\ \A k \in n + 1 .. m : Example[k] \in Piece
  <2>1. \A k \in n + 1 .. m : k \in 1 .. 15
    OBVIOUS
  <2>2. \A k \in n + 1 .. m : Example[k] \in Piece
    BY <2>1, ExampleFacts
  <2>. QED  BY <2>2
<1>2. /\ Len(chunk) = IF n + 1 <= m THEN m - (n + 1) + 1 ELSE 0
      /\ \A k \in 1 .. m - (n + 1) + 1 : chunk[k] = Example[n + 1 + k - 1]
  BY <1>1, SubSeqProperties
<1>3. n + Len(chunk) = m /\ \A p \in n + 1 .. m : chunk[p - n] = Example[p]
  <2>1. \A p \in n + 1 .. m : p - n \in 1 .. m - (n + 1) + 1 /\ n + 1 + (p - n) - 1 = p
    OBVIOUS
  <2>. HIDE DEF chunk
  <2>. QED  BY <1>2, <2>1
<1>4. Len(t) \in Nat /\ \A p \in 1 .. Len(t) : t[p] \in Piece
  BY LenProperties, ElementOfSeq
<1>0. w = WrittenAt(t, n, chunk)
  OBVIOUS
<1>. HIDE DEF chunk
<1>5. w = [p \in 1 .. len |-> IF p \in n + 1 .. m THEN chunk[p - n]
                              ELSE IF p <= Len(t) THEN t[p] ELSE Hole]
  BY <1>0, <1>3 DEF WrittenAt
<1>6. len \in Nat
  BY <1>4
<1>. HIDE DEF len
<1>7. \A p \in 1 .. len : w[p] = IF p \in n + 1 .. m THEN Example[p]
                                 ELSE IF p <= Len(t) THEN t[p] ELSE Hole
  BY <1>3, <1>5
<1>8. \A p \in 1 .. len : w[p] \in Piece
  <2>1. Hole \in Piece
    BY ExampleFacts
  <2>2. ASSUME NEW p \in 1 .. len PROVE p \in n + 1 .. m \/ p > Len(t) \/ p \in 1 .. Len(t)
    BY <1>4, <1>6
  <2>. QED  BY <1>1, <1>4, <1>7, <2>1, <2>2
<1>9. w \in Seq(Piece) /\ Len(w) = len
  <2>1. w \in [1 .. len -> Piece]
    BY <1>5, <1>8
  <2>. QED  BY <1>6, <2>1, SeqDef, LenProperties
<1>. QED  BY <1>4, <1>7, <1>9 DEF len, WrittenOver

\* What a read adds is what the file has there.
LEMMA ReadPieces ==
    ASSUME NEW s \in Seq(Piece), NEW t \in Seq(Piece), NEW n \in Len(s) + 1 .. Len(t)
    PROVE  LET r == s \o SubSeq(t, Len(s) + 1, n)
           IN  /\ r \in Seq(Piece) /\ Len(r) = n
               /\ \A p \in 1 .. n : r[p] = IF p <= Len(s) THEN s[p] ELSE t[p]
<1>. DEFINE m == Len(s)
            d == SubSeq(t, m + 1, n)
<1>1. m \in Nat /\ Len(t) \in Nat /\ m + 1 \in Int /\ n \in Int
  BY LenProperties
<1>. HIDE DEF m
<1>2. \A k \in m + 1 .. n : t[k] \in Piece
  BY <1>1, ElementOfSeq DEF m
<1>3. /\ d \in Seq(Piece) /\ Len(d) = IF m + 1 <= n THEN n - (m + 1) + 1 ELSE 0
      /\ \A k \in 1 .. n - (m + 1) + 1 : d[k] = t[m + 1 + k - 1]
  BY <1>1, <1>2, SubSeqProperties
<1>4. n \in m + 1 .. Len(t)
  BY DEF m
<1>. HIDE DEF d
<1>5. Len(d) = n - m /\ \A p \in m + 1 .. n : d[p - m] = t[p]
  <2>1. \A p \in m + 1 .. n : p - m \in 1 .. n - (m + 1) + 1 /\ m + 1 + (p - m) - 1 = p
    BY <1>1
  <2>. QED  BY <1>1, <1>3, <1>4, <2>1
<1>6. /\ s \o d \in Seq(Piece) /\ Len(s \o d) = m + Len(d)
      /\ \A p \in 1 .. m + Len(d) : (s \o d)[p] = IF p <= m THEN s[p] ELSE d[p - m]
  BY <1>3, ConcatProperties DEF m
<1>7. Len(s \o d) = n /\ \A p \in 1 .. n : (s \o d)[p] = IF p <= m THEN s[p] ELSE t[p]
  BY <1>1, <1>4, <1>5, <1>6
<1>. QED  BY <1>6, <1>7 DEF m, d

-----------------------------------------------------------------------------
(* What is loaded of a text.                                                *)

\* A setting has its default, or the value at a piece of it that is no tail.
LEMMA SettingFrom ==
    ASSUME NEW t \in Seq(Piece), NEW k \in Keys
    PROVE  \/ Settings(t)[k] = Defaults[k]
           \/ \E i \in 1 .. Len(t) :
                 Key(t[i]) = k /\ PartOf(t[i]) # "tail" /\ Settings(t)[k] = ValueAt(t, i)
<1>. DEFINE Sets(i) == Key(t[i]) = k /\ PartOf(t[i]) # "tail"
<1>1. Len(t) \in Nat /\ DOMAIN t = 1 .. Len(t)
  BY LenProperties
<1>2. Settings(t)[k] = IF \E i \in DOMAIN t : Sets(i)
                       THEN ValueAt(t, CHOOSE i \in DOMAIN t : Sets(i)) ELSE Defaults[k]
  BY DEF Settings
<1>3. ASSUME \E i \in DOMAIN t : Sets(i)
      PROVE  \E i \in DOMAIN t : Sets(i) /\ Settings(t)[k] = ValueAt(t, i)
  <2>. DEFINE i == CHOOSE j \in DOMAIN t : Sets(j)
  <2>1. Settings(t)[k] = ValueAt(t, i)
    BY <1>2, <1>3
  <2>. HIDE DEF Sets
  <2>2. i \in DOMAIN t /\ Sets(i)
    BY <1>3
  <2>. QED  BY <2>1, <2>2
<1>. QED  BY <1>1, <1>2, <1>3

\* That value is the one it was written with, unless the text is cut off there, in
\* a number, or goes on with another's.
LEMMA ValueFacts ==
    ASSUME NEW t \in Seq(Piece), IsToml(t), NEW k \in Keys,
           NEW i \in 1 .. Len(t), Key(t[i]) = k
    PROVE  \/ Source(t[i]) = "old" /\ ValueAt(t, i) = OldValues[k]
           \/ Source(t[i]) # "old" /\ ValueAt(t, i) = ExampleValues[k]
           \/ i = Len(t) /\ k \in Numbers
           \/ i < Len(t) /\ Source(t[i]) = "old" /\ Source(t[i + 1]) = "example"
<1>1. Len(t) \in Nat /\ DOMAIN t = 1 .. Len(t) /\ k # Comment
  BY LenProperties, KeyFacts
<1>2. CASE PartOf(t[i]) # "head"
  BY <1>2 DEF ValueAt
<1>3. CASE PartOf(t[i]) = "head" /\ i = Len(t)
  <2>1. Key(t[i]) \in Numbers \cup {Comment}
    BY <1>1, <1>3 DEF IsToml
  <2>. QED  BY <1>1, <1>3, <2>1
<1>4. CASE i # Len(t) /\ ~Splices(t[i], t[i + 1])
  BY <1>4 DEF ValueAt
<1>5. CASE i # Len(t) /\ Splices(t[i], t[i + 1])
  BY <1>1, <1>5 DEF Splices
<1>. QED  BY <1>2, <1>3, <1>4, <1>5

\* A setting the old file does not have is the default or the example's, unless
\* it is the number the text is cut off in.
LEMMA NotFromOld ==
    ASSUME NEW t \in Seq(Piece), IsToml(t), NEW k \in Keys,
           \A p \in 1 .. Len(t) : Key(t[p]) = k => Source(t[p]) # "old"
    PROVE  \/ Settings(t)[k] \in {Defaults[k], ExampleValues[k]}
           \/ /\ Len(t) \in 1 .. Len(t) /\ Key(t[Len(t)]) = k
              /\ k \in Numbers
<1>1. CASE Settings(t)[k] = Defaults[k]
  BY <1>1
<1>2. CASE \E i \in 1 .. Len(t) :
              Key(t[i]) = k /\ PartOf(t[i]) # "tail" /\ Settings(t)[k] = ValueAt(t, i)
  <2>. PICK i \in 1 .. Len(t) : Key(t[i]) = k /\ Settings(t)[k] = ValueAt(t, i)
    BY <1>2
  <2>. QED  BY ValueFacts
<1>. QED  BY <1>1, <1>2, SettingFrom

\* At i the text goes over from the old file to the example, within setting k.
SplicedAt(t, k, i) == /\ Key(t[i]) = k /\ Source(t[i]) = "old"
                      /\ Source(t[i + 1]) = "example" /\ i + 1 \in 1 .. Len(t)

\* A setting on what to hide that is neither the old file's nor the example's nor the
\* default is spliced.
LEMMA OnlySplices ==
    ASSUME NEW t \in Seq(Piece), IsToml(t), NEW k \in Lists \cup {"mode"},
           Settings(t)[k] \notin {OldValues[k], ExampleValues[k], Defaults[k]}
    PROVE  \E i \in 1 .. Len(t) : SplicedAt(t, k, i)
<1>1. k \in Keys /\ k \notin Numbers
  BY KeyFacts
<1>. PICK i \in 1 .. Len(t) : Key(t[i]) = k /\ Settings(t)[k] = ValueAt(t, i)
  BY <1>1, SettingFrom
<1>2. i < Len(t) /\ Source(t[i]) = "old" /\ Source(t[i + 1]) = "example"
  BY <1>1, ValueFacts
<1>3. i + 1 \in 1 .. Len(t)
  BY <1>2, LenProperties
<1>. QED  BY <1>2, <1>3 DEF SplicedAt

\* The text has pieces of the old file up to some place, and none behind.
Seamed(t) == \E n \in 0 .. Len(t) : \A p \in 1 .. Len(t) : Source(t[p]) = "old" <=> p <= n

LEMMA SmallSet ==
    ASSUME NEW S, \A x, y \in S : x = y
    PROVE  Cardinality(S) <= 1
<1>1. CASE S = {}
  BY <1>1, FS_EmptySet
<1>2. CASE S # {}
  <2>. PICK x : x \in S
    BY <1>2
  <2>1. S = {x}
    OBVIOUS
  <2>2. Cardinality({x}) = 1
    BY FS_Singleton
  <2>3. Cardinality(S) = 1
    BY <2>1, <2>2
  <2>. QED  BY <2>3
<1>. QED  BY <1>1, <1>2

\* Only one setting is spliced: the one that ends where the old file ends.
LEMMA OneSplice ==
    ASSUME NEW t \in Seq(Piece), IsToml(t), Seamed(t)
    PROVE  Cardinality({k \in Lists \cup {"mode"} :
              Settings(t)[k] \notin {OldValues[k], ExampleValues[k], Defaults[k]}}) <= 1
<1>. PICK n \in 0 .. Len(t) : \A p \in 1 .. Len(t) : Source(t[p]) = "old" <=> p <= n
  BY DEF Seamed
<1>1. Len(t) \in Nat /\ "example" # "old"
  BY LenProperties
<1>2. ASSUME NEW k, NEW i \in 1 .. Len(t), SplicedAt(t, k, i) PROVE i = n
  <2>1. i <= n
    BY <1>2 DEF SplicedAt
  <2>2. ~(i + 1 <= n)
    BY <1>1, <1>2 DEF SplicedAt
  <2>. QED  BY <1>1, <2>1, <2>2
<1>. DEFINE S == {k \in Lists \cup {"mode"} :
                    Settings(t)[k] \notin {OldValues[k], ExampleValues[k], Defaults[k]}}
<1>3. ASSUME NEW k \in S PROVE k = Key(t[n])
  <2>. PICK i \in 1 .. Len(t) : SplicedAt(t, k, i)
    BY OnlySplices
  <2>1. i = n
    BY <1>2
  <2>. QED  BY <2>1 DEF SplicedAt
<1>4. \A x, y \in S : x = y
  BY <1>3
<1>. HIDE DEF S
<1>5. Cardinality(S) <= 1
  BY <1>4, SmallSet
<1>. QED  BY <1>5 DEF S

\* Of what the four settings on what to hide may be, the default hides no less
\* than the example.
LEMMA HidesEnough ==
    ASSUME NEW t \in Seq(Piece), IsToml(t), Seamed(t)
    PROVE  LET config == Settings(t)
               olds == {Key(t[p]) : p \in {q \in DOMAIN t : Source(t[q]) = "old"}}
           IN  /\ "mode" \in olds \/ config.mode = "mask"
               /\ "redact" \in olds \/ config.redact = AllDetectors
               /\ "fields_deny" \in olds \/ ExampleValues.fields_deny \subseteq config.fields_deny
               /\ "fields_allow" \in olds \/ config.fields_allow \subseteq ExampleValues.fields_allow
               /\ Cardinality({k \in Lists \cup {"mode"} :
                     config[k] \notin {OldValues[k], ExampleValues[k], Defaults[k]}}) <= 1
<1>. DEFINE olds == {Key(t[p]) : p \in {q \in DOMAIN t : Source(t[q]) = "old"}}
<1>1. ASSUME NEW k \in Keys \ Numbers, k \notin olds
      PROVE  Settings(t)[k] = Defaults[k] \/ Settings(t)[k] = ExampleValues[k]
  <2>1. DOMAIN t = 1 .. Len(t)
    BY LenProperties
  <2>2. \A p \in 1 .. Len(t) : Key(t[p]) = k => Source(t[p]) # "old"
    BY <1>1, <2>1
  <2>. QED  BY <1>1, <2>2, NotFromOld
<1>. HIDE DEF olds
<1>2. {"mode", "redact", "fields_deny", "fields_allow"} \subseteq Keys \ Numbers
  BY KeyFacts DEF Lists
<1>3. Defaults.mode = "mask" /\ ExampleValues.mode = "mask"
  BY DEF Defaults, ExampleValues
<1>4. Defaults.redact = AllDetectors /\ ExampleValues.redact = AllDetectors
  BY DEF Defaults, ExampleValues
<1>5. ExampleValues.fields_deny \subseteq Defaults.fields_deny
  BY DEF Defaults, ExampleValues, DefaultDeny
<1>6. Defaults.fields_allow = ExampleValues.fields_allow
  BY DEF Defaults, ExampleValues
<1>7. "mode" \in olds \/ Settings(t).mode = "mask"
  BY <1>1, <1>2, <1>3
<1>8. "redact" \in olds \/ Settings(t).redact = AllDetectors
  BY <1>1, <1>2, <1>4
<1>9. "fields_deny" \in olds \/ ExampleValues.fields_deny \subseteq Settings(t).fields_deny
  BY <1>1, <1>2, <1>5
<1>10. "fields_allow" \in olds \/ Settings(t).fields_allow \subseteq ExampleValues.fields_allow
  BY <1>1, <1>2, <1>6
<1>. QED  BY <1>7, <1>8, <1>9, <1>10, OneSplice DEF olds

\* A valid text that only inits have written is the example from its start.
LEMMA TornFacts ==
    ASSUME NEW t \in Seq(Piece), IsToml(t), Exemplary(t)
    PROVE  /\ IsPrefix(t, Example)
           /\ Cardinality({k \in Keys : Settings(t)[k] \notin {Defaults[k], ExampleValues[k]}}) <= 1
<1>1. Len(t) \in Nat /\ DOMAIN t = 1 .. Len(t)
  BY LenProperties
<1>2. Len(t) <= 15
  BY <1>1 DEF Exemplary
<1>3. \A p \in 1 .. Len(t) : t[p] = Example[p]
  <2>1. \A p \in 1 .. Len(t) : Key(t[p]) \in Keys \cup {Comment}
    BY <1>1 DEF IsToml
  <2>. QED  BY <2>1, KeyFacts, ExampleFacts DEF Exemplary
<1>4. IsPrefix(t, Example)
  <2>1. /\ 1 \in Int /\ Len(t) \in Int
        /\ \A p \in 1 .. Len(t) : t[p] \in Piece /\ Example[p] \in Piece
    BY <1>1, <1>3, ElementOfSeq
  <2>2. /\ SubSeq(t, 1, Len(t)) \in Seq(Piece)
        /\ Len(SubSeq(t, 1, Len(t))) = IF 1 <= Len(t) THEN Len(t) - 1 + 1 ELSE 0
        /\ \A p \in 1 .. Len(t) - 1 + 1 : SubSeq(t, 1, Len(t))[p] = t[1 + p - 1]
    BY <2>1, SubSeqProperties
  <2>3. /\ SubSeq(Example, 1, Len(t)) \in Seq(Piece)
        /\ Len(SubSeq(Example, 1, Len(t))) = IF 1 <= Len(t) THEN Len(t) - 1 + 1 ELSE 0
        /\ \A p \in 1 .. Len(t) - 1 + 1 : SubSeq(Example, 1, Len(t))[p] = Example[1 + p - 1]
    BY <2>1, SubSeqProperties
  <2>. DEFINE a == SubSeq(t, 1, Len(t))
              b == SubSeq(Example, 1, Len(t))
  <2>4. /\ a \in Seq(Piece) /\ b \in Seq(Piece) /\ Len(a) = Len(t) /\ Len(b) = Len(t)
        /\ \A p \in 1 .. Len(t) : a[p] = b[p]
    BY <1>1, <1>3, <2>2, <2>3
  <2>. HIDE DEF a, b
  <2>5. a = b
    BY <2>4, SeqEqual
  <2>. QED  BY <1>2, <2>5, ExampleFacts DEF a, b, IsPrefix
<1>5. ASSUME NEW k \in Keys, Settings(t)[k] \notin {Defaults[k], ExampleValues[k]}
      PROVE  k = Key(t[Len(t)])
  <2>1. \A p \in 1 .. Len(t) : Source(t[p]) # "old"
    <3>1. \A p \in 1 .. Len(t) : p \in 1 .. 15
      BY <1>1, <1>2
    <3>2. \A p \in 1 .. 15 : Source(Example[p]) # "old"
      BY ExamplePieces
    <3>. QED  BY <1>3, <3>1, <3>2
  <2>. QED  BY <1>5, <2>1, NotFromOld
<1>6. {k \in Keys : Settings(t)[k] \notin {Defaults[k], ExampleValues[k]}}
         \subseteq {Key(t[Len(t)])}
  BY <1>5
<1>. QED  BY <1>4, <1>6, SmallSet

-----------------------------------------------------------------------------
(* The invariant.                                                           *)

Opened(i) == init[i] \in {"write", "done", "dead"}

\* No init has opened the file yet.
Untouched == file = before /\ \A i \in Inits : ~Opened(i)

TypeInv == /\ forced \in SUBSET Inits
           /\ init \in [Inits -> {"start", "refused", "write", "done", "dead"}]
           /\ written \in [Inits -> 0 .. 15]
           /\ opened \in Inits \cup {Nobody}
           /\ before \in {Absent} \cup Seq(OldPieces) /\ file \in {Absent} \cup Seq(Piece)
           /\ raw \in Seq(Piece)

\* What inits have done to the file: what the one that opened it last has written is
\* there, whatever the others write at places of their own.
WriteInv ==
    /\ \A i \in Inits : /\ init[i] = "start" => written[i] = 0
                        /\ init[i] = "done" => written[i] = 15
    /\ Untouched \/ (file # Absent /\ Exemplary(file))
    /\ opened # Nobody => /\ file # Absent /\ written[opened] <= Len(file)
                          /\ \A p \in 1 .. written[opened] : file[p] = Example[p]
    /\ forced = {} => \/ Untouched
                      \/ before = Absent /\ \E o \in Inits : \A i \in Inits : Opened(i) => i = o

\* What is loaded was read from such files: up to some place from the one before
\* them, if it was still there.
LoadInv == /\ before = Absent => Exemplary(raw)
           /\ Untouched => \A p \in 1 .. Len(raw) : Source(raw[p]) = "old"
           /\ Seamed(raw)
           /\ load = "loaded" => IsToml(raw)

IInv == TypeInv /\ WriteInv /\ LoadInv

LEMMA InitInv == Init => IInv
<1>. SUFFICES ASSUME Init PROVE IInv
  OBVIOUS
<1>1. ASSUME NEW o \in Old PROVE OldText(o) \in Seq(OldPieces) /\ OldText(o) \in Seq(Piece)
  <2>. DEFINE E == (Keys \cup {Comment}) \X {"whole", "head", "tail"}
  <2>1. o \in Seq(E)
    BY OldAssumption
  <2>2. Len(o) \in Nat /\ DOMAIN o = 1 .. Len(o)
    BY <2>1, LenProperties
  <2>3. \A i \in 1 .. Len(o) : o[i] \in E
    BY <2>1, <2>2, ElementOfSeq
  <2>4. \A e \in E : <<"old", e[1], e[2]>> \in OldPieces
    BY DEF OldPieces
  <2>5. \A i \in 1 .. Len(o) : <<"old", o[i][1], o[i][2]>> \in OldPieces
    <3>. HIDE DEF E
    <3>. QED  BY <2>3, <2>4
  <2>6. OldText(o) \in [1 .. Len(o) -> OldPieces] /\ OldText(o) \in [1 .. Len(o) -> Piece]
    BY <2>2, <2>5 DEF OldText, Piece
  <2>. QED  BY <2>2, <2>6, SeqDef
<1>2. before \in {Absent} \cup Seq(OldPieces) /\ file \in {Absent} \cup Seq(Piece) /\ file = before
  BY <1>1 DEF Init
<1>3. << >> \in Seq(Piece) /\ Len(<< >>) = 0
  BY EmptySeq
<1>4. TypeInv
  BY <1>2, <1>3 DEF Init, TypeInv
<1>5. WriteInv
  BY DEF Init, WriteInv, Untouched, Opened
<1>6. LoadInv
  <2>1. raw = << >> /\ load # "loaded" /\ 1 .. Len(raw) = {} /\ 0 \in 0 .. Len(raw)
    BY <1>3 DEF Init
  <2>. QED  BY <2>1 DEF LoadInv, Exemplary, Seamed
<1>. QED  BY <1>4, <1>5, <1>6 DEF IInv

\* Opening the file empties it.
LEMMA OpenInv ==
    ASSUME IInv, NEW i \in Inits, init[i] = "start", file' = << >>, opened' = i,
           init' = [init EXCEPT ![i] = "write"],
           UNCHANGED <<before, forced, written, load, raw>>,
           forced = {} => file = Absent
    PROVE  IInv'
<1>1. << >> \in Seq(Piece) /\ Len(<< >>) = 0
  BY EmptySeq
<1>2. TypeInv'
  BY <1>1 DEF IInv, TypeInv
<1>3. file' # Absent /\ Exemplary(file')
  <2>1. file' # Absent
    BY <1>1, AbsentIsNoText
  <2>2. 1 .. Len(file') = {}
    BY <1>1
  <2>. QED  BY <2>1, <2>2 DEF Exemplary
<1>4. \A j \in Inits : init'[j] = IF j = i THEN "write" ELSE init[j]
  BY DEF IInv, TypeInv
<1>5. WriteInv'
  <2>1. \A j \in Inits : /\ init'[j] = "start" => written'[j] = 0
                         /\ init'[j] = "done" => written'[j] = 15
    BY <1>4 DEF IInv, WriteInv
  <2>2. written'[opened'] = 0
    BY DEF IInv, WriteInv
  <2>3. ASSUME forced' = {}
        PROVE  before' = Absent /\ \E o \in Inits : \A j \in Inits : Opened(j)' => j = o
    <3>1. Untouched
      BY <2>3 DEF IInv, WriteInv
    <3>2. \A j \in Inits : Opened(j)' => j = i
      BY <1>4, <3>1 DEF Untouched, Opened
    <3>. QED  BY <2>3, <3>1, <3>2 DEF Untouched
  <2>. QED  BY <1>1, <1>3, <2>1, <2>2, <2>3 DEF WriteInv
<1>6. LoadInv'
  <2>1. ~Untouched'
    BY <1>4 DEF Untouched, Opened
  <2>. QED  BY <2>1 DEF IInv, LoadInv, Exemplary, Seamed
<1>. QED  BY <1>2, <1>5, <1>6 DEF IInv

\* A write keeps what the init that opened the file last has written.
LEMMA WriteKeeps ==
    ASSUME IInv, NEW i \in Inits, Write(i)
    PROVE  IInv'
<1>. PICK n \in (written[i] + 1 .. Len(Example)) \cap (Breaks \cup {Len(Example)}) :
        /\ file' = WrittenAt(file, written[i], SubSeq(Example, written[i] + 1, n))
        /\ written' = [written EXCEPT ![i] = n]
        /\ init' = [init EXCEPT ![i] = IF n = Len(Example) THEN "done" ELSE "write"]
  BY DEF Write
<1>1. /\ init[i] = "write" /\ UNCHANGED <<before, forced, opened, load, raw>>
      /\ written[i] \in 0 .. 15 /\ n \in written[i] + 1 .. 15 /\ Len(Example) = 15
  BY ExampleFacts DEF Write, IInv, TypeInv
<1>2. ~Untouched /\ file \in Seq(Piece) /\ Exemplary(file)
  BY <1>1 DEF IInv, TypeInv, WriteInv, Untouched, Opened
<1>3. /\ file' \in Seq(Piece) /\ Len(file) \in Nat
      /\ Len(file') \in {Len(file), n} /\ Len(file') >= Len(file) /\ Len(file') >= n
      /\ \A p \in 1 .. Len(file') :
            /\ p \in written[i] + 1 .. n => file'[p] = Example[p]
            /\ p \notin written[i] + 1 .. n /\ p <= Len(file) => file'[p] = file[p]
            /\ p \notin written[i] + 1 .. n /\ p > Len(file) => file'[p] = Hole
  <2>1. written[i] \in Nat /\ n \in written[i] + 1 .. 15
    BY <1>1
  <2>2. Len(file) \in Nat
    BY <1>2, LenProperties
  <2>3. file' = WrittenAt(file, written[i], SubSeq(Example, written[i] + 1, n))
    OBVIOUS
  <2>4. WrittenOver(file', file, written[i], n)
    BY ONLY <1>2, <2>1, <2>3, WrittenPieces
  <2>. QED  BY <2>2, <2>4 DEF WrittenOver
<1>4. /\ \A j \in Inits : written'[j] = IF j = i THEN n ELSE written[j]
      /\ \A j \in Inits : init'[j] = IF j = i THEN IF n = 15 THEN "done" ELSE "write"
                                     ELSE init[j]
  BY <1>1 DEF IInv, TypeInv
<1>5. TypeInv'
  <2>1. written' \in [Inits -> 0 .. 15]
    BY <1>1 DEF IInv, TypeInv
  <2>2. init' \in [Inits -> {"start", "refused", "write", "done", "dead"}]
    BY <1>1 DEF IInv, TypeInv
  <2>. QED  BY <1>1, <1>3, <2>1, <2>2 DEF IInv, TypeInv
<1>6. file' # Absent
  BY <1>3, AbsentIsNoText
<1>7. Exemplary(file')
  <2>. SUFFICES ASSUME NEW p \in 1 .. Len(file')
                PROVE  p <= 15 /\ file'[p] \in {Example[p], Hole}
    BY DEF Exemplary
  <2>1. CASE p \in written[i] + 1 .. n
    BY <1>1, <1>3, <2>1
  <2>2. CASE p \notin written[i] + 1 .. n /\ p <= Len(file)
    BY <1>2, <1>3, <2>2 DEF Exemplary
  <2>3. CASE p \notin written[i] + 1 .. n /\ p > Len(file)
    BY <1>1, <1>3, <2>3
  <2>. QED  BY <1>3, <2>1, <2>2, <2>3
<1>8. ASSUME opened # Nobody
      PROVE  /\ written'[opened] <= Len(file')
             /\ \A p \in 1 .. written'[opened] : file'[p] = Example[p]
  <2>1. /\ opened \in Inits /\ written[opened] \in 0 .. 15 /\ written[opened] <= Len(file)
        /\ \A p \in 1 .. written[opened] : file[p] = Example[p]
    BY <1>8 DEF IInv, TypeInv, WriteInv
  <2>2. CASE opened = i
    <3>1. written'[opened] = n /\ n <= Len(file') /\ n \in Nat
      BY <1>1, <1>3, <1>4, <2>1, <2>2
    <3>2. ASSUME NEW p \in 1 .. n PROVE file'[p] = Example[p]
      <4>1. p \in 1 .. Len(file')
        BY <1>3, <3>1
      <4>2. CASE p \in written[i] + 1 .. n
        BY <1>3, <4>1, <4>2
      <4>3. CASE p \notin written[i] + 1 .. n
        <5>1. written[i] \in Nat /\ written[i] <= Len(file) /\ Len(file) \in Nat
          <6>1. written[i] \in 0 .. 15 /\ written[i] <= Len(file)
            BY <2>1, <2>2
          <6>2. Len(file) \in Nat
            BY <1>3
          <6>. QED  BY ONLY <6>1, <6>2
        <5>2. p \in 1 .. written[i] /\ p <= Len(file)
          <6>1. n \in Nat
            BY <3>1
          <6>. QED  BY ONLY <4>3, <5>1, <6>1, p \in 1 .. n
        <5>3. file[p] = Example[p]
          BY <2>1, <2>2, <5>2
        <5>. QED  BY <1>3, <4>1, <4>3, <5>2, <5>3
      <4>. QED  BY <4>2, <4>3
    <3>. QED  BY <3>1, <3>2
  <2>3. CASE opened # i
    <3>1. written'[opened] = written[opened] /\ written[opened] <= Len(file')
      BY <1>1, <1>3, <1>4, <2>1, <2>3
    <3>2. ASSUME NEW p \in 1 .. written[opened] PROVE file'[p] = Example[p]
      <4>1. Len(file) \in Nat /\ Len(file') \in Nat /\ Len(file) <= Len(file')
        BY <1>1, <1>3
      <4>2. written[opened] \in Nat /\ written[opened] <= Len(file) /\ file[p] = Example[p]
        <5>1. /\ written[opened] \in 0 .. 15 /\ written[opened] <= Len(file)
              /\ \A q \in 1 .. written[opened] : file[q] = Example[q]
          BY <2>1
        <5>2. file[p] = Example[p]
          BY ONLY <5>1, p \in 1 .. written[opened]
        <5>3. written[opened] \in Nat
          BY ONLY <5>1
        <5>. QED  BY ONLY <5>1, <5>2, <5>3
      <4>3. p \in 1 .. Len(file') /\ p <= Len(file)
        BY ONLY <4>1, <4>2, p \in 1 .. written[opened]
      <4>. QED  BY <1>3, <4>2, <4>3
    <3>. QED  BY <3>1, <3>2
  <2>. QED  BY <2>2, <2>3
<1>9. WriteInv'
  <2>1. \A j \in Inits : /\ init'[j] = "start" => written'[j] = 0
                         /\ init'[j] = "done" => written'[j] = 15
    BY <1>4 DEF IInv, WriteInv
  <2>2. \A j \in Inits : Opened(j)' => Opened(j)
    BY <1>1, <1>4 DEF Opened
  <2>3. forced' = {} => before' = Absent /\ \E o \in Inits : \A j \in Inits : Opened(j)' => j = o
    BY <1>1, <1>2, <2>2 DEF IInv, WriteInv
  <2>. QED  BY <1>1, <1>6, <1>7, <1>8, <2>1, <2>3 DEF WriteInv
<1>10. LoadInv'
  <2>1. ~Untouched'
    BY <1>4 DEF Untouched, Opened
  <2>. QED  BY <1>1, <2>1 DEF IInv, LoadInv, Exemplary, Seamed
<1>. QED  BY <1>5, <1>9, <1>10 DEF IInv

\* An init that is refused or dies leaves the file alone.
LEMMA StopKeeps ==
    ASSUME IInv, NEW i \in Inits, Refused(i) \/ Die(i)
    PROVE  IInv'
<1>1. /\ UNCHANGED <<before, file, forced, written, opened, load, raw>>
      /\ init' = [init EXCEPT ![i] = IF init[i] = "start" THEN "refused" ELSE "dead"]
      /\ init[i] \in {"start", "write"}
  BY DEF Refused, Die
<1>2. \A j \in Inits : init'[j] = IF j = i THEN IF init[i] = "start" THEN "refused" ELSE "dead"
                                  ELSE init[j]
  BY <1>1 DEF IInv, TypeInv
<1>3. TypeInv'
  BY <1>1 DEF IInv, TypeInv
<1>4. /\ \A j \in Inits : Opened(j)' <=> Opened(j)
      /\ \A j \in Inits : /\ init'[j] = "start" => init[j] = "start"
                          /\ init'[j] = "done" => init[j] = "done"
  BY <1>1, <1>2 DEF Opened
<1>5. WriteInv'
  BY <1>1, <1>4 DEF IInv, WriteInv, Untouched
<1>6. LoadInv'
  <2>1. Untouched' => Untouched
    BY <1>1, <1>4 DEF Untouched
  <2>. QED  BY <1>1, <2>1 DEF IInv, LoadInv, Exemplary, Seamed
<1>. QED  BY <1>3, <1>5, <1>6 DEF IInv

\* Reading changes nothing but what has been read.
LEMMA ReadKeeps ==
    ASSUME IInv, OpenNone \/ Read \/ ReadEnd
    PROVE  IInv'
<1>1. UNCHANGED <<before, file, forced, init, written, opened>>
  BY DEF OpenNone, Read, ReadEnd
<1>2. WriteInv'
  BY <1>1 DEF IInv, WriteInv, Untouched, Opened
<1>0. Untouched' => Untouched
  BY <1>1 DEF Untouched, Opened
<1>3. CASE OpenNone \/ ReadEnd
  <2>1. raw' = raw /\ (load' = "loaded" => IsToml(raw))
    BY <1>3 DEF OpenNone, ReadEnd, Loads
  <2>2. LoadInv'
    BY <1>0, <1>1, <2>1 DEF IInv, LoadInv, Exemplary, Seamed
  <2>. QED  BY <1>1, <1>2, <2>1, <2>2 DEF IInv, TypeInv
<1>4. CASE Read
  <2>. PICK n \in (Len(raw) + 1 .. Len(file)) \cap (Breaks \cup {Len(file)}) :
          raw' = raw \o SubSeq(file, Len(raw) + 1, n)
    BY <1>4 DEF Read
  <2>1. file \in Seq(Piece) /\ raw \in Seq(Piece) /\ load' = "read"
    BY <1>4 DEF Read, IInv, TypeInv
  <2>2. /\ raw' \in Seq(Piece) /\ Len(raw') = n
        /\ \A p \in 1 .. n : raw'[p] = IF p <= Len(raw) THEN raw[p] ELSE file[p]
    BY <2>1, ReadPieces
  <2>3. ASSUME before = Absent PROVE Exemplary(raw')
    <3>1. Exemplary(raw) /\ Exemplary(file)
      BY <1>4, <2>3 DEF Read, IInv, WriteInv, LoadInv, Untouched
    <3>2. Len(raw) \in Nat /\ Len(file) \in Nat
      BY <2>1, LenProperties
    <3>. QED  BY <2>2, <3>1, <3>2 DEF Exemplary
  <2>4. Len(raw) \in Nat /\ Len(file) \in Nat /\ n \in Nat /\ n > Len(raw) /\ n <= Len(file)
    BY <2>1, LenProperties
  <2>5. ASSUME Untouched PROVE \A p \in 1 .. Len(raw') : Source(raw'[p]) = "old"
    <3>1. file \in Seq(OldPieces)
      BY <1>4, <2>5 DEF Read, IInv, TypeInv, Untouched
    <3>2. \A p \in 1 .. Len(file) : Source(file[p]) = "old"
      BY <3>1, ElementOfSeq, PieceFacts DEF Piece
    <3>3. \A p \in 1 .. Len(raw) : Source(raw[p]) = "old"
      BY <2>5 DEF IInv, LoadInv
    <3>. QED  BY <2>2, <2>4, <3>2, <3>3
  <2>6. Seamed(raw')
    <3>1. CASE Untouched
      <4>1. n \in 0 .. Len(raw') /\ \A p \in 1 .. Len(raw') : p <= n
        BY <2>2, <2>4
      <4>2. \A p \in 1 .. Len(raw') : Source(raw'[p]) = "old" <=> p <= n
        BY <2>5, <3>1, <4>1
      <4>. QED  BY <4>1, <4>2 DEF Seamed
    <3>2. CASE ~Untouched
      <4>. PICK m \in 0 .. Len(raw) : \A p \in 1 .. Len(raw) : Source(raw[p]) = "old" <=> p <= m
        BY DEF IInv, LoadInv, Seamed
      <4>1. Exemplary(file)
        BY <3>2 DEF IInv, WriteInv
      <4>2. ASSUME NEW p \in 1 .. Len(file) PROVE Source(file[p]) # "old"
        <5>1. p \in 1 .. 15 /\ file[p] \in {Example[p], Hole}
          BY <4>1 DEF Exemplary
        <5>2. Source(Hole) # "old"
          BY DEF Hole, Source
        <5>. QED  BY <5>1, <5>2, ExampleFacts
      <4>3. ASSUME NEW p \in 1 .. n PROVE Source(raw'[p]) = "old" <=> p <= m
        <5>1. CASE p <= Len(raw)
          <6>1. p \in 1 .. Len(raw) /\ raw'[p] = raw[p]
            BY <2>2, <2>4, <5>1
          <6>. QED  BY <6>1
        <5>2. CASE p > Len(raw)
          <6>1. p \in 1 .. Len(file) /\ raw'[p] = file[p] /\ ~(p <= m)
            BY <2>2, <2>4, <5>2
          <6>. QED  BY <4>2, <6>1
        <5>3. p <= Len(raw) \/ p > Len(raw)
          BY <2>4
        <5>. QED  BY ONLY <5>1, <5>2, <5>3
      <4>4. m \in 0 .. Len(raw')
        BY <2>2, <2>4
      <4>. QED  BY <2>2, <4>3, <4>4 DEF Seamed
    <3>. QED  BY <3>1, <3>2
  <2>7. LoadInv'
    BY <1>0, <1>1, <2>1, <2>3, <2>5, <2>6 DEF LoadInv
  <2>8. TypeInv'
    BY <1>1, <2>1, <2>2 DEF IInv, TypeInv
  <2>. QED  BY <1>2, <2>7, <2>8 DEF IInv
<1>. QED  BY <1>3, <1>4

LEMMA Invariance == Spec => []IInv
<1>1. ASSUME IInv, [Next]_vars PROVE IInv'
  <2>1. ASSUME NEW i \in Inits, OpenForced(i) \/ CreateNew(i) PROVE IInv'
    BY <1>1, <2>1, OpenInv DEF OpenForced, CreateNew
  <2>2. CASE UNCHANGED vars
    BY <1>1, <2>2 DEF vars, IInv, TypeInv, WriteInv, LoadInv, Untouched, Opened,
        Exemplary, Seamed
  <2>. QED  BY <1>1, <2>1, <2>2, WriteKeeps, StopKeeps, ReadKeeps DEF Next
<1>. QED  BY <1>1, InitInv, PTL DEF Spec

-----------------------------------------------------------------------------
\* However inits overtake each other, write and die: the one that opened the file
\* last leaves the whole example if it ends.
THEOREM LastInitAlwaysWins == Spec => []LastInitWins
<1>1. IInv => LastInitWins
  <2>. SUFFICES ASSUME IInv, opened # Nobody, init[opened] = "done" PROVE file = Example
    BY DEF LastInitWins
  <2>1. /\ opened \in Inits /\ written[opened] = 15 /\ file \in Seq(Piece)
        /\ 15 <= Len(file) /\ \A p \in 1 .. 15 : file[p] = Example[p]
    BY DEF IInv, TypeInv, WriteInv
  <2>2. Exemplary(file)
    BY <2>1 DEF IInv, WriteInv, Untouched, Opened
  <2>3. Len(file) = 15
    <3>1. Len(file) \in Nat
      BY <2>1, LenProperties
    <3>2. Len(file) \in 1 .. Len(file)
      BY <2>1, <3>1
    <3>3. Len(file) <= 15
      BY <2>2, <3>2 DEF Exemplary
    <3>4. 15 <= Len(file)
      BY <2>1
    <3>5. \A m \in Nat : m <= 15 /\ 15 <= m => m = 15
      OBVIOUS
    <3>. QED  BY <3>1, <3>3, <3>4, <3>5
  <2>. QED  BY <2>1, <2>3, ExampleFacts, SeqEqual
<1>. QED  BY <1>1, Invariance, PTL

\* Of inits that are not forced none alters a configuration that is there, and only
\* one creates it.
THEOREM PlainAlwaysKeepsConfig == Spec => []PlainKeepsConfig
<1>1. IInv => PlainKeepsConfig
  <2>. DEFINE W == {i \in Inits : init[i] \in {"write", "done", "dead"}}
  <2>. SUFFICES ASSUME IInv, forced = {}
                PROVE  (before # Absent => file = before) /\ Cardinality(W) <= 1
    BY DEF PlainKeepsConfig
  <2>1. CASE Untouched
    <3>1. W = {}
      BY <2>1 DEF Untouched, Opened
    <3>. QED  BY <2>1, <3>1, FS_EmptySet DEF Untouched
  <2>2. CASE before = Absent /\ \E o \in Inits : \A i \in Inits : Opened(i) => i = o
    <3>. PICK o \in Inits : \A i \in Inits : Opened(i) => i = o
      BY <2>2
    <3>1. W = {} \/ W = {o}
      BY DEF Opened
    <3>2. Cardinality({}) = 0 /\ Cardinality({o}) = 1
      BY FS_EmptySet, FS_Singleton
    <3>. QED  BY <2>2, <3>1, <3>2
  <2>. QED  BY <2>1, <2>2 DEF IInv, WriteInv
<1>. QED  BY <1>1, Invariance, PTL

\* What a command loads, torn or not, hides no less than the example, except in
\* settings of which it read a part of the old file; and all of what to hide but one
\* setting at most is as the old file has it, or as the example or the default.
THEOREM LoadedAlwaysHidesEnough == Spec => []LoadedHidesEnough
<1>1. IInv => LoadedHidesEnough
  BY HidesEnough DEF IInv, TypeInv, LoadInv, LoadedHidesEnough
<1>. QED  BY <1>1, Invariance, PTL

\* A file that inits have left torn is not loaded, or is the example from its start
\* with at most one limit cut.
THEOREM TornAlwaysExamplePrefix == Spec => []TornIsExamplePrefix
<1>1. IInv => TornIsExamplePrefix
  BY TornFacts DEF IInv, TypeInv, LoadInv, TornIsExamplePrefix
<1>. QED  BY <1>1, Invariance, PTL
=============================================================================
