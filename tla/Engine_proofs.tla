---------------------------- MODULE Engine_proofs ----------------------------
(***************************************************************************)
(* What the engine makes of a value, for every value of any depth, every   *)
(* policy, every choice of detectors and every set of field names; and, at *)
(* the end, the reports of a walk, for every nesting and every width of    *)
(* the counters.                                                           *)
(*                                                                         *)
(* A text is taken span by span: of the passes over one that stands apart, *)
(* one at most replaces it (RawPassed), or two if it is a bearer token in  *)
(* a cookie (DoublePassed), and of what they leave no other pass takes it  *)
(* for its own (HiddenPassed).  A value is then taken level by level: if   *)
(* the walks are sound below a level they are sound at it (SoundNext), and *)
(* so at every depth.  That a scan counts as much as redaction does not    *)
(* need the spans to stand apart: the passes take a text for the same      *)
(* whatever its secrets have been replaced by (PassAlike).                 *)
(***************************************************************************)
EXTENDS Engine, ReportWalk, Basics_proofs

-----------------------------------------------------------------------------
(* Counts, and their sums.                                                  *)
\* Counts add up kind by kind.
LEMMA PlusFacts ==
    /\ NoCounts \in Counts
    /\ \A c \in Counts, d \in Counts :
          Plus(c, d) \in Counts /\ \A k \in Kind : Plus(c, d)[k] = c[k] + d[k]
    /\ \A kind \in Kind, n \in Nat :
          /\ Counted(kind, n) \in Counts
          /\ \A k \in Kind : Counted(kind, n)[k] = IF k = kind THEN n ELSE 0
  BY DEF NoCounts, Counts, Plus, Counted

\* Counts merged one after the other are a running sum.
LEMMA MergedRuns ==
    ASSUME NEW parts \in Seq(Counts)
    PROVE  \E f \in [0 .. Len(parts) -> Counts] :
              /\ f[0] = NoCounts
              /\ \A j \in 1 .. Len(parts) : f[j] = Plus(f[j - 1], parts[j])
              /\ Merged(parts) = f[Len(parts)]
<1>. DEFINE D == 1 .. Len(parts)
            step == [p \in D \X (Counts) |-> Plus(p[2], parts[p[1]])]
            Value(g, d) == IF d = {} THEN NoCounts
                           ELSE LET x == Max(d) IN Plus(g[d \ {x}], parts[x])
            iter == CHOOSE g : g = [d \in SUBSET D |-> Value(g, d)]
<1>0. DOMAIN parts = D
  BY LenProperties
<1>1. Merged(parts) = iter[D]
  BY <1>0 DEF FoldLeft, MapThenFoldSet, Merged
<1>2. Len(parts) \in Nat /\ NoCounts \in Counts /\ \A i \in D : parts[i] \in Counts
  BY LenProperties, ElementOfSeq, PlusFacts
<1>3. step \in [D \X (Counts) -> Counts]
  BY <1>2, PlusFacts
<1>4. PICK g \in [SUBSET D -> Counts] : IsMaxFold(g, Len(parts), NoCounts, step)
  <2>. HIDE DEF step
  <2>. QED  BY <1>2, <1>3, MaxFoldExists
<1>5. ASSUME NEW d \in SUBSET D PROVE g[d] = Value(g, d)
  <2>1. d # {} => Max(d) \in D /\ d \ {Max(d)} \in SUBSET D
    BY <1>4 DEF IsMaxFold
  <2>. QED  BY <1>4, <2>1 DEF IsMaxFold
<1>6. iter = [d \in SUBSET D |-> Value(iter, d)]
  <2>. HIDE DEF Value, D
  <2>1. g = [d \in SUBSET D |-> Value(g, d)]
    BY <1>5
  <2>. QED  BY <2>1
<1>. HIDE DEF iter
<1>7. ASSUME NEW d \in SUBSET D PROVE iter[d] = Value(iter, d)
  <2>. HIDE DEF Value, D
  <2>. QED  BY <1>6
<1>8. ASSUME NEW d \in SUBSET D, d # {}, iter[d \ {Max(d)}] \in Counts
      PROVE  iter[d] = step[<<Max(d), iter[d \ {Max(d)}]>>]
  <2>1. Max(d) \in D
    BY <1>4, <1>8 DEF IsMaxFold
  <2>. QED  BY <1>7, <1>8, <2>1
<1>9. iter[{}] = NoCounts
  BY <1>7
<1>10. PICK f \in [0 .. Len(parts) -> Counts] : RunsTo(f, Len(parts), NoCounts, step, iter[D])
  <2>. HIDE DEF step
  <2>1. /\ iter[{}] = NoCounts /\ Len(parts) \in Nat /\ NoCounts \in Counts
        /\ step \in [(1 .. Len(parts)) \X (Counts) -> Counts]
        /\ \A d \in SUBSET (1 .. Len(parts)) : d # {} /\ iter[d \ {Max(d)}] \in Counts =>
              iter[d] = step[<<Max(d), iter[d \ {Max(d)}]>>]
    BY <1>2, <1>3, <1>8, <1>9
  <2>2. \E f \in [0 .. Len(parts) -> Counts] :
           RunsTo(f, Len(parts), NoCounts, step, iter[1 .. Len(parts)])
    BY ONLY <2>1, MaxFoldRuns
  <2>. QED  BY <2>2
<1>11. ASSUME NEW j \in 1 .. Len(parts) PROVE f[j] = Plus(f[j - 1], parts[j])
  <2>1. j \in D /\ j - 1 \in 0 .. Len(parts)
    BY <1>2
  <2>. QED  BY <1>10, <2>1 DEF RunsTo, IsRun
<1>. QED  BY <1>1, <1>10, <1>11 DEF RunsTo, IsRun

\* Merged, parts count of each kind what they count of it together.
LEMMA MergedFacts ==
    ASSUME NEW parts \in Seq(Counts)
    PROVE  /\ Merged(parts) \in Counts
           /\ \A k \in Kind :
                 Merged(parts)[k] = SumFunction([i \in DOMAIN parts |-> parts[i][k]])
<1>1. PICK f \in [0 .. Len(parts) -> Counts] :
         /\ f[0] = NoCounts
         /\ \A j \in 1 .. Len(parts) : f[j] = Plus(f[j - 1], parts[j])
         /\ Merged(parts) = f[Len(parts)]
  BY MergedRuns
<1>2. Len(parts) \in Nat /\ DOMAIN parts = 1 .. Len(parts)
      /\ \A i \in 1 .. Len(parts) : parts[i] \in Counts
  BY LenProperties, ElementOfSeq
<1>3. ASSUME NEW k \in Kind
      PROVE  Merged(parts)[k] = SumFunction([i \in DOMAIN parts |-> parts[i][k]])
  <2>. DEFINE of == [i \in DOMAIN parts |-> parts[i][k]]
              T == {j \in Nat : j <= Len(parts) => f[j][k] = SumFunctionOnSet(of, 1 .. j)}
  <2>1. \A i \in 1 .. Len(parts) : of[i] = parts[i][k] /\ of[i] \in Nat
    BY <1>2 DEF Counts
  <2>2. DOMAIN of = 1 .. Len(parts)
    BY <1>2
  <2>. HIDE DEF of
  <2>3. 0 \in T
    <3>1. 1 .. 0 = {} /\ IsFiniteSet({})
      BY FS_EmptySet
    <3>2. SumFunctionOnSet(of, {}) = 0
      BY <3>1, SumTakesOut
    <3>. QED  BY <1>1, <3>1, <3>2 DEF NoCounts
  <2>4. ASSUME NEW j \in Nat, j \in T PROVE j + 1 \in T
    <3>. SUFFICES ASSUME j + 1 <= Len(parts)
                  PROVE  f[j + 1][k] = SumFunctionOnSet(of, 1 .. j + 1)
      OBVIOUS
    <3>1. /\ j + 1 \in 1 .. Len(parts) /\ (j + 1) - 1 = j /\ j \in 0 .. Len(parts)
          /\ f[j][k] = SumFunctionOnSet(of, 1 .. j)
      BY <1>2, <2>4
    <3>2. f[j + 1] = Plus(f[j], parts[j + 1])
      BY <1>1, <3>1
    <3>3. f[j + 1][k] = f[j][k] + parts[j + 1][k] /\ f[j][k] \in Nat
      BY <1>1, <1>2, <3>1, <3>2 DEF Plus, Counts
    <3>4. SumFunctionOnSet(of, (1 .. j) \cup {j + 1}) = of[j + 1] + SumFunctionOnSet(of, 1 .. j)
      <4>1. /\ IsFiniteSet(1 .. j) /\ j + 1 \notin 1 .. j
            /\ \A y \in (1 .. j) \cup {j + 1} : of[y] \in Nat
        <5>1. IsFiniteSet(1 .. j)
          BY <3>1, FS_Interval
        <5>2. (1 .. j) \cup {j + 1} \subseteq 1 .. Len(parts) /\ j + 1 \notin 1 .. j
          BY <1>2, <3>1
        <5>. QED  BY <2>1, <5>1, <5>2
      <4>. QED  BY ONLY <4>1, SumPutsIn
    <3>5. (1 .. j) \cup {j + 1} = 1 .. j + 1
      OBVIOUS
    <3>6. of[j + 1] = parts[j + 1][k] /\ of[j + 1] \in Nat
      BY <2>1, <3>1
    <3>7. SumFunctionOnSet(of, 1 .. j + 1) = of[j + 1] + SumFunctionOnSet(of, 1 .. j)
      BY <3>4, <3>5
    <3>. QED  BY ONLY <3>1, <3>3, <3>6, <3>7
  <2>5. Len(parts) \in T
    <3>. HIDE DEF T
    <3>. QED  BY <1>2, <2>3, <2>4, InductionOverNat
  <2>6. f[Len(parts)][k] = SumFunctionOnSet(of, 1 .. Len(parts))
    BY <1>2, <2>5
  <2>7. Merged(parts)[k] = SumFunction(of)
    BY <1>1, <2>2, <2>6 DEF SumFunction
  <2>. QED  BY <2>7 DEF of
<1>4. Merged(parts) \in Counts
  BY <1>1, <1>2
<1>. QED  BY <1>3, <1>4

\* One part more.
LEMMA MergedNext ==
    ASSUME NEW parts \in Seq(Counts), NEW more \in Seq(Counts), Len(more) = Len(parts) + 1,
           \A i \in 1 .. Len(parts) : more[i] = parts[i]
    PROVE  Merged(more) = Plus(Merged(parts), more[Len(parts) + 1])
<1>1. PICK f \in [0 .. Len(parts) -> Counts] :
         /\ f[0] = NoCounts
         /\ \A j \in 1 .. Len(parts) : f[j] = Plus(f[j - 1], parts[j])
         /\ Merged(parts) = f[Len(parts)]
  BY MergedRuns
<1>2. PICK g \in [0 .. Len(more) -> Counts] :
         /\ g[0] = NoCounts
         /\ \A j \in 1 .. Len(more) : g[j] = Plus(g[j - 1], more[j])
         /\ Merged(more) = g[Len(more)]
  BY MergedRuns
<1>3. Len(parts) \in Nat
  BY LenProperties
<1>4. f[Len(parts)] = g[Len(parts)]
  <2>1. ASSUME NEW j \in 1 .. Len(parts), f[j - 1] = g[j - 1] PROVE f[j] = g[j]
    <3>1. j \in 1 .. Len(more)
      BY <1>3
    <3>. QED  BY <1>1, <1>2, <2>1, <3>1
  <2>2. f[0] = g[0]
    BY <1>1, <1>2
  <2>. QED  BY ONLY <1>3, <2>1, <2>2, RunsAgree
<1>5. Len(more) \in 1 .. Len(more) /\ Len(more) - 1 = Len(parts)
  BY <1>3
<1>. QED  BY <1>1, <1>2, <1>4, <1>5

-----------------------------------------------------------------------------
(* The passes over a text, one after the other.                             *)
\* A text under way through the passes, with the report so far.
Texts == [text : Seq(Span), stats : Counts]

\* A replaced span is a span, whose replacement names the pass's kind.
LEMMA ReplaceFacts ==
    ASSUME NEW pol \in Policy, NEW kind \in Kind, NEW s \in Span
    PROVE  /\ Replace(pol, kind, s) \in Span
           /\ Replacement(pol, kind, s.val).kind = kind
<1>. DEFINE Vals == [form : {"raw", "mask", "hash", "drop", "broken"}, kind : Kind \cup {"none"},
                     iban : BOOLEAN]
<1>1. Replacement(pol, kind, s.val) \in Vals /\ Replacement(pol, kind, s.val).kind = kind
  BY DEF Replacement, Policy
<1>2. s.place \in Place /\ s.glued \in BOOLEAN /\ s.val \in Vals /\ "cookie" \in Place
  BY DEF Span, Place, CookiePlaces
<1>3. CASE kind = "iban" /\ s.val.form = "hash"
  <2>1. Replace(pol, kind, s) = [s EXCEPT !.val = [s.val EXCEPT !.form = "broken", !.iban = FALSE]]
    BY <1>3 DEF Replace
  <2>2. [s.val EXCEPT !.form = "broken", !.iban = FALSE] \in Vals
    BY <1>2
  <2>. HIDE DEF Vals
  <2>3. Replace(pol, kind, s) \in [place : Place, glued : BOOLEAN, val : Vals]
    BY <1>2, <2>1, <2>2 DEF Span
  <2>. QED  BY <1>1, <2>3 DEF Span, Vals
<1>4. CASE ~(kind = "iban" /\ s.val.form = "hash")
  <2>1. Replace(pol, kind, s) =
          [s EXCEPT !.val = Replacement(pol, kind, s.val),
                    !.place = IF kind = "cookie" THEN "cookie" ELSE s.place]
    BY <1>4 DEF Replace
  <2>. HIDE DEF Vals
  <2>2. Replace(pol, kind, s) \in [place : Place, glued : BOOLEAN, val : Vals]
    BY <1>1, <1>2, <2>1 DEF Span
  <2>. QED  BY <1>1, <2>2 DEF Span, Vals
<1>. QED  BY <1>3, <1>4

\* A pass makes a text and a report of a text and a report.
LEMMA PassFacts ==
    ASSUME NEW on, NEW pol \in Policy, NEW acc \in Texts, NEW kind \in Kind
    PROVE  Pass(on, pol, acc, kind) \in Texts
<1>1. /\ acc.text \in Seq(Span) /\ acc.stats \in Counts /\ Len(acc.text) \in Nat
      /\ DOMAIN acc.text = 1 .. Len(acc.text)
      /\ \A i \in 1 .. Len(acc.text) : acc.text[i] \in Span
  <2>1. acc.text \in Seq(Span) /\ acc.stats \in Counts
    BY DEF Texts
  <2>. QED  BY <2>1, LenProperties, ElementOfSeq
<1>. DEFINE found == Found(kind, acc.text)
            text == Replaced(pol, kind, acc.text, found)
<1>2. text \in Seq(Span)
  <2>1. \A i \in 1 .. Len(acc.text) : text[i] \in Span
    <3>. HIDE DEF found
    <3>. QED  BY <1>1, ReplaceFacts DEF Replaced
  <2>2. text \in [1 .. Len(acc.text) -> Span]
    <3>1. DOMAIN text = 1 .. Len(acc.text) /\ text = [i \in DOMAIN text |-> text[i]]
      <4>. HIDE DEF found
      <4>. QED  BY <1>1 DEF Replaced
    <3>. HIDE DEF text
    <3>. QED  BY <2>1, <3>1
  <2>. HIDE DEF text
  <2>. QED  BY <1>1, <2>2
<1>3. Cardinality(found) \in Nat
  <2>1. IsFiniteSet(1 .. Len(acc.text)) /\ found \subseteq 1 .. Len(acc.text)
    BY <1>1, FS_Interval DEF Found
  <2>2. IsFiniteSet(found)
    BY <2>1, FS_Subset
  <2>. QED  BY <2>2, FS_CardinalityType
<1>4. Plus(acc.stats, Counted(kind, Cardinality(found))) \in Counts
  <2>. HIDE DEF found
  <2>. QED  BY <1>1, <1>3, PlusFacts
<1>. HIDE DEF text, found
<1>5. [text |-> text, stats |-> Plus(acc.stats, Counted(kind, Cardinality(found)))] \in Texts
  BY <1>2, <1>4 DEF Texts
<1>. QED  BY <1>5 DEF Pass, text, found

\* A text after some passes, one after the other.
AfterPasses(on, pol, first, passes) ==
    FoldLeft(LAMBDA acc, kind : Pass(on, pol, acc, kind), first, passes)

\* The texts between the passes, as a run.
ReachedBy(f, on, pol, first, passes) ==
    /\ f \in [0 .. Len(passes) -> Texts] /\ f[0] = first
    /\ \A j \in 1 .. Len(passes) : f[j] = Pass(on, pol, f[j - 1], passes[j])
    /\ AfterPasses(on, pol, first, passes) = f[Len(passes)]

\* The passes are a running text.
LEMMA PassesRun ==
    ASSUME NEW on, NEW pol \in Policy, NEW first \in Texts, NEW passes \in Seq(Kind)
    PROVE  \E f : ReachedBy(f, on, pol, first, passes)
<1>. DEFINE D == 1 .. Len(passes)
            step == [p \in D \X (Texts) |-> Pass(on, pol, p[2], passes[p[1]])]
            Value(g, d) == IF d = {} THEN first
                           ELSE LET x == Max(d) IN Pass(on, pol, g[d \ {x}], passes[x])
            iter == CHOOSE g : g = [d \in SUBSET D |-> Value(g, d)]
<1>0. DOMAIN passes = D
  BY LenProperties
<1>1. AfterPasses(on, pol, first, passes) = iter[D]
  BY <1>0 DEF FoldLeft, MapThenFoldSet, AfterPasses
<1>2. Len(passes) \in Nat /\ first \in Texts /\ \A i \in D : passes[i] \in Kind
  BY LenProperties, ElementOfSeq
<1>3. step \in [D \X (Texts) -> Texts]
  BY <1>2, PassFacts
<1>4. PICK g \in [SUBSET D -> Texts] : IsMaxFold(g, Len(passes), first, step)
  <2>. HIDE DEF step
  <2>. QED  BY <1>2, <1>3, MaxFoldExists
<1>5. ASSUME NEW d \in SUBSET D PROVE g[d] = Value(g, d)
  <2>1. d # {} => Max(d) \in D /\ d \ {Max(d)} \in SUBSET D
    BY <1>4 DEF IsMaxFold
  <2>. QED  BY <1>4, <2>1 DEF IsMaxFold
<1>6. iter = [d \in SUBSET D |-> Value(iter, d)]
  <2>. HIDE DEF Value, D
  <2>1. g = [d \in SUBSET D |-> Value(g, d)]
    BY <1>5
  <2>. QED  BY <2>1
<1>. HIDE DEF iter
<1>7. ASSUME NEW d \in SUBSET D PROVE iter[d] = Value(iter, d)
  <2>. HIDE DEF Value, D
  <2>. QED  BY <1>6
<1>8. ASSUME NEW d \in SUBSET D, d # {}, iter[d \ {Max(d)}] \in Texts
      PROVE  iter[d] = step[<<Max(d), iter[d \ {Max(d)}]>>]
  <2>1. Max(d) \in D
    BY <1>4, <1>8 DEF IsMaxFold
  <2>. QED  BY <1>7, <1>8, <2>1
<1>9. iter[{}] = first
  BY <1>7
<1>10. PICK f \in [0 .. Len(passes) -> Texts] : RunsTo(f, Len(passes), first, step, iter[D])
  <2>. HIDE DEF step
  <2>1. /\ iter[{}] = first /\ Len(passes) \in Nat /\ first \in Texts
        /\ step \in [(1 .. Len(passes)) \X (Texts) -> Texts]
        /\ \A d \in SUBSET (1 .. Len(passes)) : d # {} /\ iter[d \ {Max(d)}] \in Texts =>
              iter[d] = step[<<Max(d), iter[d \ {Max(d)}]>>]
    BY <1>2, <1>3, <1>8, <1>9
  <2>2. \E f \in [0 .. Len(passes) -> Texts] :
           RunsTo(f, Len(passes), first, step, iter[1 .. Len(passes)])
    BY ONLY <2>1, MaxFoldRuns
  <2>. QED  BY <2>2
<1>11. ASSUME NEW j \in 1 .. Len(passes) PROVE f[j] = Pass(on, pol, f[j - 1], passes[j])
  <2>1. j \in D /\ j - 1 \in 0 .. Len(passes)
    BY <1>2
  <2>. QED  BY <1>10, <2>1 DEF RunsTo, IsRun
<1>12. f[0] = first /\ AfterPasses(on, pol, first, passes) = f[Len(passes)]
  BY <1>1, <1>10 DEF RunsTo, IsRun
<1>13. ReachedBy(f, on, pol, first, passes)
  <2>. HIDE DEF step, iter, D
  <2>. QED  BY <1>11, <1>12 DEF ReachedBy
<1>. QED  BY <1>13

-----------------------------------------------------------------------------
(* A span through the passes, and a text of such spans.                     *)
\* The kinds that have a pass: all but api_key, which only a field can have.
PassKinds == {"bearer_token", "cookie", "url_sensitive_params", "jwt", "email",
              "ip", "iban", "credit_card"}

\* Every one of these kinds has one pass, and no pass is of another kind.
LEMMA PassesFacts ==
    /\ Passes \in Seq(Kind) /\ Len(Passes) = 8
    /\ \A j \in 1 .. 8 : Passes[j] \in PassKinds /\ Passes[j] \in Kind
    /\ \A i, j \in 1 .. 8 : Passes[i] = Passes[j] => i = j
    /\ \A kind \in PassKinds : \E j \in 1 .. 8 : Passes[j] = kind
    /\ PassKinds \in SUBSET Kind /\ "none" \notin Kind
    /\ \A kind \in Kind : kind \notin PassKinds => kind = "api_key"
<1>1. Passes \in Seq(Kind) /\ Len(Passes) = 8
  BY DEF Passes, Kind
<1>2. /\ Passes[1] = "bearer_token" /\ Passes[2] = "cookie" /\ Passes[3] = "url_sensitive_params"
      /\ Passes[4] = "jwt" /\ Passes[5] = "email" /\ Passes[6] = "ip" /\ Passes[7] = "iban"
      /\ Passes[8] = "credit_card"
  BY DEF Passes
<1>3. 1 .. 8 = {1, 2, 3, 4, 5, 6, 7, 8}
  OBVIOUS
<1>4. \A j \in 1 .. 8 : Passes[j] \in PassKinds /\ Passes[j] \in Kind
  BY <1>2, <1>3 DEF PassKinds, Kind
<1>5. \A i, j \in 1 .. 8 : Passes[i] = Passes[j] => i = j
  BY <1>2, <1>3
<1>6. \A kind \in PassKinds : \E j \in 1 .. 8 : Passes[j] = kind
  BY <1>2, <1>3 DEF PassKinds
<1>7. /\ PassKinds \in SUBSET Kind /\ "none" \notin Kind
      /\ \A kind \in Kind : kind \notin PassKinds => kind = "api_key"
  BY DEF PassKinds, Kind
<1>. QED  BY <1>1, <1>4, <1>5, <1>6, <1>7

\* What becomes of a span that stands apart, w[j] after j passes, and the kinds
\* of those that replace it.
SpanRun(on, pol, w, ks) ==
    /\ w \in [0 .. 8 -> Span] /\ ks \in SUBSET PassKinds
    /\ \A j \in 0 .. 8 : ~w[j].glued
    /\ \A j \in 1 .. 8 : (Passes[j] \in on /\ Matches(Passes[j], w[j - 1])) <=> Passes[j] \in ks
    /\ \A j \in 1 .. 8 : w[j] = IF Passes[j] \in ks THEN Replace(pol, Passes[j], w[j - 1])
                                                    ELSE w[j - 1]

\* Every span of the text by itself, and all of them.
SpanRuns(on, pol, text, w, ks) ==
    \A i \in 1 .. Len(text) : SpanRun(on, pol, w[i], ks[i]) /\ w[i][0] = text[i]

RunsEnd(text, w, ks) ==
    [text |-> [i \in 1 .. Len(text) |-> w[i][8]],
     stats |-> [k \in Kind |-> Cardinality({i \in 1 .. Len(text) : k \in ks[i]})]]

\* A pass for the kind is among the first j.
Before(kind, j) == \E i \in 1 .. j : Passes[i] = kind

\* A text whose spans stand apart is its spans, each by itself.
LEMMA TextPassed ==
    ASSUME NEW on, NEW pol \in Policy, NEW text \in Seq(Span), NEW w, NEW ks,
           SpanRuns(on, pol, text, w, ks)
    PROVE  RedactText(on, pol, text) = RunsEnd(text, w, ks)
<1>. DEFINE D == 1 .. Len(text)
            Of(k) == {i \in D : k \in ks[i]}
            Now(j) == [i \in D |-> w[i][j]]
            Stats(j) == [k \in Kind |-> IF Before(k, j) THEN Cardinality(Of(k)) ELSE 0]
            State(j) == [text |-> Now(j), stats |-> Stats(j)]
            first == [text |-> text, stats |-> NoCounts]
<1>0. \A i \in D : SpanRun(on, pol, w[i], ks[i]) /\ w[i][0] = text[i]
  BY DEF SpanRuns
<1>1. /\ Len(text) \in Nat /\ DOMAIN text = D /\ \A i \in D : text[i] \in Span
      /\ text = [i \in D |-> text[i]]
  BY LenProperties, ElementOfSeq
<1>f. \A k : IsFiniteSet(Of(k)) /\ Cardinality(Of(k)) \in Nat
  <2>1. IsFiniteSet(D)
    <3>1. Len(text) \in Nat
      BY <1>1
    <3>. QED  BY ONLY <3>1, FS_Interval DEF D
  <2>2. \A k : Of(k) \subseteq D
    OBVIOUS
  <2>. HIDE DEF Of, D
  <2>3. \A k : IsFiniteSet(Of(k))
    BY <2>1, <2>2, FS_Subset
  <2>. QED  BY <2>3, FS_CardinalityType
<1>2. first \in Texts
  BY PlusFacts DEF Texts
<1>3. PICK f \in [0 .. 8 -> Texts] :
         /\ f[0] = first
         /\ \A j \in 1 .. 8 : f[j] = Pass(on, pol, f[j - 1], Passes[j])
         /\ AfterPasses(on, pol, first, Passes) = f[8]
  <2>. HIDE DEF first
  <2>1. Passes \in Seq(Kind) /\ Len(Passes) = 8
    BY PassesFacts
  <2>2. \E f : ReachedBy(f, on, pol, first, Passes)
    BY ONLY <1>2, <2>1, pol \in Policy, PassesRun
  <2>. QED  BY <2>1, <2>2 DEF ReachedBy
<1>4. State(0) = first
  <2>1. \A k : ~Before(k, 0)
    BY DEF Before
  <2>2. Now(0) = text
    BY <1>0, <1>1
  <2>3. Stats(0) = NoCounts
    BY <2>1 DEF NoCounts
  <2>. QED  BY <2>2, <2>3
<1>5. ASSUME NEW j \in 1 .. 8 PROVE State(j) = Pass(on, pol, State(j - 1), Passes[j])
  <2>. DEFINE p == Passes[j]
  <2>1. p \in Kind /\ p # "none" /\ ~Before(p, j - 1)
    BY PassesFacts DEF Before
  <2>2. \A k : Before(k, j) <=> Before(k, j - 1) \/ k = p
    <3>1. ASSUME NEW k, Before(k, j) PROVE Before(k, j - 1) \/ k = p
      <4>1. PICK i \in 1 .. j : Passes[i] = k
        BY <3>1 DEF Before
      <4>2. i = j \/ i \in 1 .. j - 1
        OBVIOUS
      <4>. QED  BY <4>1, <4>2 DEF Before
    <3>2. 1 .. j - 1 \subseteq 1 .. j /\ j \in 1 .. j
      OBVIOUS
    <3>. QED  BY <3>1, <3>2 DEF Before
  <2>3. \A i \in D : /\ (p \in on /\ Matches(p, Now(j - 1)[i])) <=> p \in ks[i]
                     /\ ~Now(j - 1)[i].glued
                     /\ Now(j)[i] = IF p \in ks[i] THEN Replace(pol, p, Now(j - 1)[i])
                                                   ELSE Now(j - 1)[i]
    <3>1. j - 1 \in 0 .. 8
      OBVIOUS
    <3>. QED  BY <1>0, <3>1 DEF SpanRun
  <2>5. DOMAIN Now(j - 1) = D /\ Now(j) = [i \in D |-> Now(j)[i]]
    OBVIOUS
  <2>6. Stats(j) \in Counts /\ Stats(j - 1) \in Counts
    <3>. HIDE DEF Of
    <3>. QED  BY <1>f DEF Counts
  <2>7. CASE p \notin on
    <3>1. Of(p) = {} /\ Cardinality(Of(p)) = 0
      <4>1. Of(p) = {}
        BY <2>3, <2>7
      <4>. QED  BY <4>1, FS_EmptySet
    <3>2. Now(j) = Now(j - 1)
      <4>1. \A i \in D : Now(j)[i] = Now(j - 1)[i]
        BY <2>3, <2>7
      <4>. HIDE DEF p
      <4>. QED  BY <4>1
    <3>3. Stats(j) = Stats(j - 1)
      <4>. HIDE DEF Of, p
      <4>. QED  BY <2>1, <2>2, <3>1
    <3>. HIDE DEF Now, Stats, p
    <3>4. Pass(on, pol, State(j - 1), p) = State(j - 1)
      BY <2>7 DEF Pass
    <3>. QED  BY <3>2, <3>3, <3>4 DEF p
  <2>8. CASE p \in on
    <3>. DEFINE was == Now(j - 1)
                found == Found(p, was)
                new == Replaced(pol, p, was, found)
    <3>2. found = Of(p)
      <4>. HIDE DEF Now, p
      <4>. QED  BY <2>3, <2>5, <2>8 DEF Found, IsFree
    <3>1. new = Now(j)
      <4>1. new = [i \in D |-> IF i \in found THEN Replace(pol, p, was[i]) ELSE was[i]]
        <5>. HIDE DEF found, Now
        <5>. QED  BY <2>5 DEF Replaced
      <4>2. \A i \in D : i \in found <=> p \in ks[i]
        <5>. HIDE DEF found
        <5>. QED  BY <3>2
      <4>3. new = [i \in D |-> new[i]] /\ \A i \in D : new[i] = Now(j)[i]
        <5>. HIDE DEF found, Now, p
        <5>. QED  BY <2>3, <4>1, <4>2
      <4>. HIDE DEF new, Now
      <4>. QED  BY <2>5, <4>3
    <3>3. Stats(j) = Plus(Stats(j - 1), Counted(p, Cardinality(Of(p))))
      <4>1. Cardinality(Of(p)) \in Nat
        <5>. HIDE DEF Of, p
        <5>. QED  BY <1>f
      <4>. DEFINE c == Counted(p, Cardinality(Of(p)))
                  sum == Plus(Stats(j - 1), c)
      <4>. HIDE DEF p, Of
      <4>2. c \in Counts /\ \A k \in Kind : c[k] = IF k = p THEN Cardinality(Of(p)) ELSE 0
        BY <2>1, <4>1, PlusFacts
      <4>. HIDE DEF c
      <4>3. sum \in Counts /\ \A k \in Kind : sum[k] = Stats(j - 1)[k] + c[k]
        BY <2>6, <4>2, PlusFacts
      <4>4. \A k \in Kind : Stats(j)[k] = sum[k]
        <5>1. \A k \in Kind :
                 /\ Stats(j - 1)[k] \in Nat
                 /\ Stats(j - 1)[k] = IF Before(k, j - 1) THEN Cardinality(Of(k)) ELSE 0
          <6>1. \A k \in Kind : Stats(j - 1)[k] = IF Before(k, j - 1) THEN Cardinality(Of(k)) ELSE 0
            OBVIOUS
          <6>2. \A k \in Kind : Stats(j - 1)[k] \in Nat
            <7>. HIDE DEF Stats
            <7>. QED  BY <2>6 DEF Counts
          <6>. QED  BY <6>1, <6>2
        <5>2. \A k \in Kind : Stats(j)[k] = IF Before(k, j) THEN Cardinality(Of(k)) ELSE 0
          OBVIOUS
        <5>. HIDE DEF Stats, sum
        <5>. QED  BY <2>1, <2>2, <4>1, <4>2, <4>3, <5>1, <5>2
      <4>. HIDE DEF Stats, sum
      <4>. QED  BY <2>6, <4>3, <4>4 DEF sum, c, Counts
    <3>. HIDE DEF Of, Stats
    <3>4. Pass(on, pol, [text |-> was, stats |-> Stats(j - 1)], p) =
            [text |-> new, stats |-> Plus(Stats(j - 1), Counted(p, Cardinality(found)))]
      <4>. HIDE DEF Now, p
      <4>. HIDE DEF was
      <4>. QED  BY <2>8 DEF Pass
    <3>. HIDE DEF new, found, Now, p
    <3>. QED  BY <3>1, <3>2, <3>3, <3>4 DEF p
  <2>. QED  BY <2>7, <2>8
<1>6. f[8] = State(8)
  <2>. DEFINE g == [j \in 0 .. 8 |-> State(j)]
  <2>. HIDE DEF State
  <2>1. ASSUME NEW j \in 1 .. 8, f[j - 1] = g[j - 1] PROVE f[j] = g[j]
    <3>1. j - 1 \in 0 .. 8 /\ j \in 0 .. 8
      OBVIOUS
    <3>. QED  BY <1>3, <1>5, <2>1, <3>1
  <2>2. f[0] = g[0]
    <3>1. 0 \in 0 .. 8
      OBVIOUS
    <3>2. g[0] = State(0)
      BY <3>1
    <3>. HIDE DEF g
    <3>. QED  BY <1>3, <1>4, <3>2
  <2>3. f[8] = g[8]
    <3>. HIDE DEF g
    <3>. QED  BY ONLY <2>1, <2>2, RunsAgree
  <2>. QED  BY <2>3
<1>8. Stats(8) = [k \in Kind |-> Cardinality(Of(k))]
  <2>1. ASSUME NEW k \in Kind, ~Before(k, 8) PROVE Cardinality(Of(k)) = 0
    <3>1. k \notin PassKinds
      BY <2>1, PassesFacts DEF Before
    <3>2. Of(k) = {}
      BY <1>0, <3>1 DEF SpanRun
    <3>. QED  BY <3>2, FS_EmptySet
  <2>. HIDE DEF Of
  <2>. QED  BY <2>1
<1>9. RedactText(on, pol, text) = State(8)
  <2>. HIDE DEF State
  <2>. QED  BY <1>3, <1>6 DEF RedactText, AfterPasses
<1>. QED  BY <1>8, <1>9 DEF RunsEnd

\* What has become of a span after j passes, if the one for its kind makes r of it.
Seen(s, r, kind, j) == IF Before(kind, j) THEN r ELSE s

\* One pass at most replaces the span, the one for that kind.
OncePassed(on, pol, s, kind, r) ==
    \A j \in 1 .. 8 :
       /\ Passes[j] \in on /\ Matches(Passes[j], Seen(s, r, kind, j - 1)) <=> Passes[j] = kind
       /\ Passes[j] = kind => Replace(pol, kind, Seen(s, r, kind, j - 1)) = r

\* Some run takes the span from s to r by the passes of these kinds.
RunsTo8(on, pol, s, ks, r) ==
    \E w : SpanRun(on, pol, w, ks) /\ w[0] = s /\ w[8] = r

\* So that it runs to r, if there is such a pass.
LEMMA OnceRuns ==
    ASSUME NEW on, NEW pol, NEW s \in Span, NEW r \in Span, ~s.glued, ~r.glued,
           NEW kind \in PassKinds \cup {"none"}, OncePassed(on, pol, s, kind, r),
           kind = "none" => r = s
    PROVE  RunsTo8(on, pol, s, {kind} \ {"none"}, r)
<1>. DEFINE w == [j \in 0 .. 8 |-> Seen(s, r, kind, j)]
            ks == {kind} \ {"none"}
<1>1. \A j \in 0 .. 8 : w[j] = Seen(s, r, kind, j) /\ w[j] \in {s, r}
  BY DEF Seen
<1>2. w \in [0 .. 8 -> Span]
  BY DEF Seen
<1>3. \A k : ~Before(k, 0)
  BY DEF Before
<1>4. kind # "none" => Before(kind, 8)
  BY PassesFacts DEF Before
<1>5. ASSUME NEW j \in 1 .. 8
      PROVE  Before(kind, j) <=> Before(kind, j - 1) \/ kind = Passes[j]
  <2>1. \A i : i \in 1 .. j <=> i \in 1 .. (j - 1) \/ i = j
    OBVIOUS
  <2>. QED  BY <2>1 DEF Before
<1>6. ASSUME NEW j \in 1 .. 8
      PROVE  /\ (Passes[j] \in on /\ Matches(Passes[j], w[j - 1])) <=> Passes[j] \in ks
             /\ w[j] = IF Passes[j] \in ks THEN Replace(pol, Passes[j], w[j - 1]) ELSE w[j - 1]
  <2>1. j - 1 \in 0 .. 8 /\ j \in 0 .. 8
    OBVIOUS
  <2>2. w[j - 1] = Seen(s, r, kind, j - 1) /\ w[j] = Seen(s, r, kind, j)
    BY <1>1, <2>1
  <2>3. Passes[j] # "none"
    BY PassesFacts
  <2>4. Passes[j] \in ks <=> Passes[j] = kind
    BY <2>3
  <2>. HIDE DEF w, ks
  <2>5. /\ (Passes[j] \in on /\ Matches(Passes[j], w[j - 1])) <=> Passes[j] = kind
        /\ Passes[j] = kind => Replace(pol, kind, w[j - 1]) = r
    BY <2>2 DEF OncePassed
  <2>6. w[j] = IF Passes[j] = kind THEN Replace(pol, Passes[j], w[j - 1]) ELSE w[j - 1]
    BY <1>5, <2>2, <2>5 DEF Seen
  <2>. QED  BY <2>4, <2>5, <2>6
<1>7. w[0] = s /\ w[8] = r
  BY <1>1, <1>3, <1>4 DEF Seen
<1>8. ks \in SUBSET PassKinds
  OBVIOUS
<1>9. SpanRun(on, pol, w, ks)
  <2>1. \A j \in 0 .. 8 : ~w[j].glued
    <3>. HIDE DEF w
    <3>. QED  BY <1>1
  <2>. HIDE DEF w, ks
  <2>. QED  BY <1>2, <1>6, <1>8, <2>1 DEF SpanRun
<1>. HIDE DEF w
<1>. QED  BY <1>7, <1>9 DEF RunsTo8

\* Each span of the text runs to r[i], by the passes of ks[i], ...
AllRun(on, pol, text, ks, r) ==
    \A i \in 1 .. Len(text) : RunsTo8(on, pol, text[i], ks[i], r[i])

\* ... and the passes make those of the text.
PassedTo(on, pol, text, ks, r) ==
    RedactText(on, pol, text) =
       [text |-> [i \in 1 .. Len(text) |-> r[i]],
        stats |-> [k \in Kind |-> Cardinality({i \in 1 .. Len(text) : k \in ks[i]})]]

\* A text whose spans run.
LEMMA TextRuns ==
    ASSUME NEW on, NEW pol \in Policy, NEW text \in Seq(Span), NEW r, NEW ks,
           AllRun(on, pol, text, ks, r)
    PROVE  PassedTo(on, pol, text, ks, r)
<1>. DEFINE Good(i, u) == SpanRun(on, pol, u, ks[i]) /\ u[0] = text[i] /\ u[8] = r[i]
            w == [i \in 1 .. Len(text) |-> CHOOSE u : Good(i, u)]
<1>1. \A i \in 1 .. Len(text) : Good(i, w[i])
  <2>1. \A i \in 1 .. Len(text) : \E u : Good(i, u)
    BY DEF RunsTo8, AllRun
  <2>. HIDE DEF Good
  <2>. QED  BY <2>1
<1>. HIDE DEF w
<1>2. SpanRuns(on, pol, text, w, ks)
  BY <1>1 DEF SpanRuns
<1>3. RedactText(on, pol, text) = RunsEnd(text, w, ks)
  BY <1>2, TextPassed
<1>4. [i \in 1 .. Len(text) |-> w[i][8]] = [i \in 1 .. Len(text) |-> r[i]]
  BY <1>1
<1>. QED  BY <1>3, <1>4 DEF RunsEnd, PassedTo

-----------------------------------------------------------------------------
(* Raw spans: which passes replace one.                                     *)
\* When each pass runs.
LEMMA PassesTurn ==
    /\ Passes[1] = "bearer_token" /\ Passes[2] = "cookie" /\ Passes[3] = "url_sensitive_params"
    /\ Passes[4] = "jwt" /\ Passes[5] = "email" /\ Passes[6] = "ip" /\ Passes[7] = "iban"
    /\ Passes[8] = "credit_card"
    /\ \A j \in 1 .. 8 : j = 1 \/ j = 2 \/ j = 3 \/ j = 4 \/ j = 5 \/ j = 6 \/ j = 7 \/ j = 8
  BY DEF Passes

\* What has run before each pass.
LEMMA BeforeFacts ==
    ASSUME NEW j \in 1 .. 8
    PROVE  /\ Before("bearer_token", j - 1) <=> j > 1
           /\ Before("cookie", j - 1) <=> j > 2
           /\ Before("url_sensitive_params", j - 1) <=> j > 3
           /\ Before("jwt", j - 1) <=> j > 4
           /\ Before("email", j - 1) <=> j > 5
           /\ Before("ip", j - 1) <=> j > 6
           /\ Before("iban", j - 1) <=> j > 7
           /\ ~Before("credit_card", j - 1) /\ ~Before("none", j - 1)
<1>1. \A k : Before(k, j - 1) <=> \E i \in 1 .. 8 : i < j /\ Passes[i] = k
  BY DEF Before
<1>2. \A i \in 1 .. 8 : i = 1 \/ i = 2 \/ i = 3 \/ i = 4 \/ i = 5 \/ i = 6 \/ i = 7 \/ i = 8
  OBVIOUS
<1>3. \A i \in 1 .. 8 : \A k : Passes[i] = k /\ i < j => Before(k, j - 1)
  BY <1>1
<1>. QED  BY <1>1, <1>2, <1>3, PassesTurn

\* A raw text is of one kind.
LEMMA RawFacts ==
    /\ \A k : Raw(k).form = "raw" /\ Raw(k).kind = k /\ Raw(k).iban = FALSE
    /\ \A k, l : Raw(k) = Raw(l) => k = l
  BY DEF Raw

\* A raw span, its kind, and what hiding makes of it.
LEMMA SpanKinds ==
    ASSUME NEW on \in SUBSET Kind, NEW pol \in Policy, NEW s \in RawSpan
    PROVE  /\ s \in Span /\ s.val.form = "raw" /\ s.val.iban = FALSE
           /\ s.place \in Place /\ s.glued \in BOOLEAN
           /\ s.val.kind \in Secret /\ s.val = Raw(s.val.kind)
           /\ KindOfSpan(on, s) \in PassKinds \cup {"none"}
           /\ HiddenSpan(on, pol, s) \in Span /\ HiddenSpan(on, pol, s).glued = s.glued
<1>1. PICK k \in Secret : s.val = Raw(k)
  BY DEF RawSpan
<1>2. s \in Span /\ s.val.form = "raw" /\ s.val.iban = FALSE /\ s.val.kind = k
  <2>. DEFINE Vals == [form : {"raw", "mask", "hash", "drop", "broken"},
                       kind : Kind \cup {"none"}, iban : BOOLEAN]
  <2>1. \A l \in Secret : Raw(l) \in Vals
    BY DEF Raw, Secret, Kind
  <2>2. s.val \in Vals
    BY <1>1, <2>1
  <2>. HIDE DEF Vals
  <2>3. s \in [place : Place, glued : BOOLEAN, val : Vals]
    BY <2>2 DEF RawSpan
  <2>. QED  BY <1>1, <2>3, RawFacts DEF Span, Vals
<1>3. KindOfSpan(on, s) \in PassKinds \cup {"none"}
  BY <1>2 DEF KindOfSpan, PassKinds, Secret, Kind
<1>4. HiddenSpan(on, pol, s) \in Span /\ HiddenSpan(on, pol, s).glued = s.glued
  <2>. DEFINE kind == KindOfSpan(on, s)
              Vals == [form : {"raw", "mask", "hash", "drop", "broken"},
                       kind : Kind \cup {"none"}, iban : BOOLEAN]
  <2>1. Replacement(pol, kind, s.val) \in Vals
    BY <1>3 DEF Replacement, Policy, PassKinds, Kind
  <2>2. HiddenSpan(on, pol, s) = IF kind = "none" THEN s
           ELSE [s EXCEPT !.val = Replacement(pol, kind, s.val),
                          !.place = IF kind = "cookie" THEN "cookie" ELSE s.place]
    BY DEF HiddenSpan
  <2>3. "cookie" \in Place /\ Span = [place : Place, glued : BOOLEAN, val : Vals]
    BY DEF Place, CookiePlaces, Span
  <2>. HIDE DEF kind, Vals
  <2>. QED  BY <1>2, <2>1, <2>2, <2>3
<1>5. s.place \in Place /\ s.glued \in BOOLEAN
  BY DEF RawSpan
<1>. QED  BY <1>1, <1>2, <1>3, <1>4, <1>5

\* A replacement as all are when no digest is taken for an IBAN.
IsMark(pol, kind, mark) ==
    /\ mark = [form |-> pol.mode, kind |-> kind, iban |-> FALSE]
    /\ mark.form # "raw" /\ mark.form = pol.mode /\ mark.iban = FALSE /\ mark.kind = kind

\* No replacement is taken for an IBAN, and none is a raw text.
LEMMA MarkFacts ==
    ASSUME NEW pol \in Policy, pol.iban_like = {}
    PROVE  \A kind, material : IsMark(pol, kind, Replacement(pol, kind, material))
<1>1. pol.mode # "raw" /\ \A k : k \notin pol.iban_like
  BY DEF Policy
<1>. QED  BY <1>1 DEF Replacement, IsMark

\* Where a span can stand.
LEMMA PlaceFacts ==
    /\ \A p \in Place : p \in {"plain", "bearer", "cookie", "param", "bearer in a cookie",
                               "param in a cookie"}
    /\ \A p : p \in BearerPlaces <=> p \in {"bearer", "bearer in a cookie"}
    /\ \A p : p \in CookiePlaces <=> p \in {"cookie", "bearer in a cookie", "param in a cookie"}
    /\ \A p : p \in ParamPlaces <=> p \in {"param", "param in a cookie"}
  BY DEF Place, BearerPlaces, CookiePlaces, ParamPlaces

\* A bearer token in a cookie, with both looked for: two passes replace it.
IsDouble(on, s) == s.place = "bearer in a cookie" /\ {"bearer_token", "cookie"} \subseteq on

\* A span and what it becomes as one of that kind.
Marks(pol, kind, s, h) ==
    /\ h = [s EXCEPT !.val = Replacement(pol, kind, s.val),
                     !.place = IF kind = "cookie" THEN "cookie" ELSE s.place]
    /\ h.place = IF kind = "cookie" THEN "cookie" ELSE s.place
    /\ h.val = [form |-> pol.mode, kind |-> kind, iban |-> FALSE]
    /\ h.val.form # "raw" /\ h.val.iban = FALSE

\* So hiding marks a raw span that is of a kind.
LEMMA HidingFacts ==
    ASSUME NEW on \in SUBSET Kind, NEW pol \in Policy, pol.iban_like = {}, NEW s \in RawSpan
    PROVE  KindOfSpan(on, s) # "none" => Marks(pol, KindOfSpan(on, s), s, HiddenSpan(on, pol, s))
<1>. DEFINE kind == KindOfSpan(on, s)
            h == HiddenSpan(on, pol, s)
<1>1. kind # "none" => h = [s EXCEPT !.val = Replacement(pol, kind, s.val),
                                     !.place = IF kind = "cookie" THEN "cookie" ELSE s.place]
  BY DEF HiddenSpan
<1>. HIDE DEF kind, h
<1>2. IsMark(pol, kind, Replacement(pol, kind, s.val))
  BY MarkFacts
<1>3. kind # "none" => /\ h.place = IF kind = "cookie" THEN "cookie" ELSE s.place
                       /\ h.val = Replacement(pol, kind, s.val)
  BY <1>1 DEF RawSpan
<1>. QED  BY <1>1, <1>2, <1>3 DEF kind, h, IsMark, Marks

\* Of the passes over a raw span, one replaces it at most, ...
LEMMA RawPassed ==
    ASSUME NEW on \in SUBSET Kind, NEW pol \in Policy, pol.iban_like = {}, NEW s \in RawSpan,
           ~IsDouble(on, s)
    PROVE  OncePassed(on, pol, s, KindOfSpan(on, s), HiddenSpan(on, pol, s))
<1>. DEFINE kind == KindOfSpan(on, s)
            h == HiddenSpan(on, pol, s)
<1>1. /\ s.val.form = "raw" /\ s.val.iban = FALSE /\ s.place \in Place
      /\ s.val.kind \in Secret /\ s.val = Raw(s.val.kind)
      /\ kind \in PassKinds \cup {"none"} /\ "none" \notin on
  BY SpanKinds DEF Kind
<1>3. kind # "none" =>
        /\ h = [s EXCEPT !.val = Replacement(pol, kind, s.val),
                         !.place = IF kind = "cookie" THEN "cookie" ELSE s.place]
        /\ h.val.form # "raw" /\ h.val.iban = FALSE
        /\ h.place = IF kind = "cookie" THEN "cookie" ELSE s.place
  <2>1. kind # "none" => Marks(pol, kind, s, h)
    BY HidingFacts
  <2>. HIDE DEF kind, h
  <2>. QED  BY <2>1 DEF Marks
<1>4. \A k \in Secret : (s.val = Raw(k)) <=> (s.val.kind = k)
  BY <1>1, RawFacts
<1>5. kind # "none" => \A k : h.val # Raw(k)
  BY <1>3 DEF Raw
<1>6. /\ s.place = "plain" => kind = IF s.val.kind \in on THEN s.val.kind ELSE "none"
      /\ s.place = "bearer" => kind = IF "bearer_token" \in on THEN "bearer_token"
                                      ELSE IF s.val.kind \in on THEN s.val.kind ELSE "none"
      /\ s.place = "cookie" => kind = IF "cookie" \in on THEN "cookie"
                                      ELSE IF s.val.kind \in on THEN s.val.kind ELSE "none"
      /\ s.place = "param" => kind = IF "url_sensitive_params" \in on THEN "url_sensitive_params"
                                     ELSE IF s.val.kind \in on THEN s.val.kind ELSE "none"
      /\ s.place = "bearer in a cookie" =>
            kind = IF "cookie" \in on THEN "cookie"
                   ELSE IF "bearer_token" \in on THEN "bearer_token"
                   ELSE IF s.val.kind \in on THEN s.val.kind ELSE "none"
      /\ s.place = "param in a cookie" =>
            kind = IF "cookie" \in on THEN "cookie"
                   ELSE IF "url_sensitive_params" \in on THEN "url_sensitive_params"
                   ELSE IF s.val.kind \in on THEN s.val.kind ELSE "none"
  BY PlaceFacts DEF KindOfSpan
<1>7. ASSUME NEW j \in 1 .. 8
      PROVE  /\ Passes[j] \in on /\ Matches(Passes[j], Seen(s, h, kind, j - 1)) <=> Passes[j] = kind
             /\ Passes[j] = kind => Replace(pol, kind, Seen(s, h, kind, j - 1)) = h
  <2>. DEFINE now == Seen(s, h, kind, j - 1)
  <2>1. now = IF Before(kind, j - 1) THEN h ELSE s
    BY DEF Seen
  <2>2. ~Before("none", j - 1)
    BY BeforeFacts
  <2>3. Passes[j] = kind => ~Before(kind, j - 1)
    BY PassesFacts DEF Before
  <2>4. Before(kind, j - 1) =>
           /\ \A k : now.val # Raw(k)
           /\ now.val.form # "raw" /\ now.val.iban = FALSE /\ kind # "none"
           /\ now.place = IF kind = "cookie" THEN "cookie" ELSE s.place
    BY <1>3, <1>5, <2>1, <2>2
  <2>5. Passes[j] = kind => Replace(pol, kind, now) = h
    <3>1. Passes[j] = kind => now = s /\ kind # "none"
      BY <2>1, <2>3, PassesFacts DEF PassKinds
    <3>. QED  BY <1>1, <1>3, <3>1 DEF Replace
  <2>6. ~Before(kind, j - 1) => now = s
    BY <2>1
  <2>9. /\ s.place \in {"plain", "bearer", "cookie", "param", "bearer in a cookie",
                        "param in a cookie"}
        /\ ~(s.place = "bearer in a cookie" /\ "bearer_token" \in on /\ "cookie" \in on)
    BY <1>1, PlaceFacts DEF IsDouble
  <2>. HIDE DEF now, kind, h
  <2>7. Passes[j] \in on /\ Matches(Passes[j], now) <=> Passes[j] = kind
    <3>0. /\ Passes[j] \in {"bearer_token", "cookie", "url_sensitive_params", "jwt", "email",
                            "ip", "iban", "credit_card"}
          /\ \A k : Matches(k, now) =>
                \/ k = "bearer_token" /\ now.val.form = "raw"
                   /\ (now.place = "bearer" \/ now.place = "bearer in a cookie")
                \/ k = "cookie" /\ (now.place = "cookie" \/ now.place = "bearer in a cookie"
                                    \/ now.place = "param in a cookie")
                \/ k = "url_sensitive_params"
                   /\ (now.place = "param" \/ now.place = "param in a cookie")
                \/ k \in {"jwt", "email", "ip", "credit_card", "iban"} /\ now.val = Raw(k)
                \/ k = "iban" /\ now.val.iban
      BY PassesFacts, PlaceFacts DEF PassKinds, Matches, BearerMatches, CookieMatches,
                                     ParamMatches, PatternMatches, IbanMatches
    <3>1. CASE Before(kind, j - 1)
      <4>1. Passes[j] # kind
        BY <2>3, <3>1
      <4>2. ~(Passes[j] \in on /\ Matches(Passes[j], now))
        <5>1. /\ \A k : now.val # Raw(k)
              /\ now.val.form # "raw" /\ now.val.iban = FALSE
              /\ now.place = IF kind = "cookie" THEN "cookie" ELSE s.place
          BY <2>4, <3>1
        <5>2. CASE Passes[j] = "cookie"
          BY <1>6, <2>9, <3>0, <4>1, <5>1, <5>2
        <5>3. CASE Passes[j] = "url_sensitive_params"
          BY <1>6, <2>9, <3>0, <4>1, <5>1, <5>3
        <5>. QED  BY <3>0, <5>1, <5>2, <5>3
      <4>. QED  BY <4>1, <4>2
    <3>2. CASE ~Before(kind, j - 1)
      <4>1. now = s
        BY <2>6, <3>2
      <4>2. kind # "none" => kind \in on /\ Matches(kind, s)
        <5>1. /\ s.place = "bearer" \/ s.place = "bearer in a cookie" =>
                    Matches("bearer_token", s)
              /\ s.place = "cookie" \/ s.place = "bearer in a cookie"
                 \/ s.place = "param in a cookie" => Matches("cookie", s)
              /\ s.place = "param" \/ s.place = "param in a cookie" =>
                    Matches("url_sensitive_params", s)
              /\ \A k \in Secret : s.val = Raw(k) /\ k # "none" => Matches(k, s)
          BY <1>1, PlaceFacts DEF Matches, BearerMatches, CookieMatches, ParamMatches,
                                  PatternMatches, IbanMatches, Secret
        <5>2. s.val.kind # "none" => Matches(s.val.kind, s)
          BY <1>1, <5>1
        <5>. QED  BY <1>1, <1>6, <2>9, <5>1, <5>2
      <4>3. ASSUME Passes[j] \in on, Matches(Passes[j], s), Passes[j] # kind PROVE FALSE
        <5>1. \A k : s.val = Raw(k) => k = s.val.kind
          BY <1>1, RawFacts
        <5>2. \/ Passes[j] = "url_sensitive_params" /\ kind = "cookie"
              \/ Passes[j] \in {"jwt", "email", "ip", "credit_card", "iban"}
                 /\ kind \in {"bearer_token", "cookie", "url_sensitive_params"}
          <6>1. CASE Passes[j] = "bearer_token"
            BY <1>6, <2>9, <3>0, <4>1, <4>3, <6>1
          <6>2. CASE Passes[j] = "cookie"
            BY <1>6, <2>9, <3>0, <4>1, <4>3, <6>2
          <6>3. CASE Passes[j] = "url_sensitive_params"
            BY <1>6, <2>9, <3>0, <4>1, <4>3, <6>3
          <6>4. CASE Passes[j] \in {"jwt", "email", "ip", "credit_card", "iban"}
            <7>1. Passes[j] = s.val.kind
              BY <1>1, <3>0, <4>1, <4>3, <5>1, <6>4
            <7>. QED  BY <1>6, <2>9, <4>3, <6>4, <7>1
          <6>. QED  BY <3>0, <6>1, <6>2, <6>3, <6>4
        <5>3. Before(kind, j - 1)
          <6>1. Passes[j] = "url_sensitive_params" => j > 2
            BY PassesTurn
          <6>2. Passes[j] \in {"jwt", "email", "ip", "credit_card", "iban"} => j > 3
            BY PassesTurn
          <6>3. /\ Before("bearer_token", j - 1) <=> j > 1
                /\ Before("cookie", j - 1) <=> j > 2
                /\ Before("url_sensitive_params", j - 1) <=> j > 3
            BY BeforeFacts
          <6>. QED  BY <5>2, <6>1, <6>2, <6>3
        <5>. QED  BY <3>2, <5>3
      <4>4. Passes[j] # "none"
        BY <3>0
      <4>. QED  BY <4>1, <4>2, <4>3, <4>4
    <3>. QED  BY <3>1, <3>2
  <2>. QED  BY <2>5, <2>7 DEF now
<1>. QED  BY <1>7 DEF OncePassed

\* ... but for a bearer token in a cookie, which is replaced as a token, and then
\* with the cookie's value.
LEMMA DoublePassed ==
    ASSUME NEW on \in SUBSET Kind, NEW pol \in Policy, pol.iban_like = {}, NEW s \in RawSpan,
           ~s.glued, IsDouble(on, s)
    PROVE  RunsTo8(on, pol, s, {"bearer_token", "cookie"}, HiddenSpan(on, pol, s))
<1>. DEFINE mid == Replace(pol, "bearer_token", s)
            h == HiddenSpan(on, pol, s)
            ks == {"bearer_token", "cookie"}
            w == [j \in 0 .. 8 |-> IF j = 0 THEN s ELSE IF j = 1 THEN mid ELSE h]
<1>1. /\ s \in Span /\ s.val.form = "raw" /\ s.place = "bearer in a cookie"
      /\ h \in Span /\ ~h.glued /\ "bearer_token" \in on /\ "cookie" \in on
  <2>1. /\ h \in Span /\ h.glued = s.glued
        /\ s \in Span /\ s.val.form = "raw"
    <3>1. s \in RawSpan
      OBVIOUS
    <3>. QED  BY ONLY on \in SUBSET Kind, pol \in Policy, <3>1, SpanKinds DEF h
  <2>. HIDE DEF h
  <2>. QED  BY <2>1 DEF IsDouble
<1>2. KindOfSpan(on, s) = "cookie"
  BY <1>1, PlaceFacts DEF KindOfSpan
<1>3. /\ h = [s EXCEPT !.val = Replacement(pol, "cookie", s.val), !.place = "cookie"]
      /\ h.place = "cookie" /\ h.val = [form |-> pol.mode, kind |-> "cookie", iban |-> FALSE]
      /\ h.val.form # "raw" /\ h.val.iban = FALSE
  <2>1. KindOfSpan(on, s) # "none" => Marks(pol, KindOfSpan(on, s), s, h)
    BY HidingFacts
  <2>. HIDE DEF h
  <2>. QED  BY <1>2, <2>1 DEF Marks
<1>4. mid = [s EXCEPT !.val = Replacement(pol, "bearer_token", s.val)] /\ mid \in Span
  <2>1. mid \in Span
    BY <1>1, ReplaceFacts DEF Kind
  <2>2. mid = [s EXCEPT !.val = Replacement(pol, "bearer_token", s.val), !.place = s.place]
    BY DEF Replace
  <2>. HIDE DEF mid
  <2>. QED  BY <1>1, <2>1, <2>2 DEF Span
<1>. HIDE DEF mid, h
<1>5. mid.place = s.place /\ mid.glued = s.glued
  BY <1>1, <1>4 DEF Span
<1>6. Replace(pol, "cookie", mid) = h
  <2>1. Replace(pol, "cookie", mid) =
           [mid EXCEPT !.val = Replacement(pol, "cookie", mid.val), !.place = "cookie"]
    BY DEF Replace
  <2>2. Replacement(pol, "cookie", mid.val) = Replacement(pol, "cookie", s.val)
    <3>1. \A m : IsMark(pol, "cookie", Replacement(pol, "cookie", m))
      BY MarkFacts
    <3>. QED  BY <3>1 DEF IsMark
  <2>3. \A u, v : [[s EXCEPT !.val = u] EXCEPT !.val = v, !.place = "cookie"]
                     = [s EXCEPT !.val = v, !.place = "cookie"]
    <3>1. s \in Span
      BY <1>1
    <3>. QED  BY ONLY <3>1 DEF Span
  <2>4. [mid EXCEPT !.val = Replacement(pol, "cookie", s.val), !.place = "cookie"]
           = [s EXCEPT !.val = Replacement(pol, "cookie", s.val), !.place = "cookie"]
    BY ONLY <1>4, <2>3
  <2>. QED  BY ONLY <1>3, <2>1, <2>2, <2>4
<1>7. /\ Matches("bearer_token", s) /\ Matches("cookie", mid)
      /\ \A k : k # "cookie" => ~Matches(k, h)
  <2>1. s.place \in BearerPlaces /\ mid.place \in CookiePlaces /\ h.place \notin ParamPlaces
    BY <1>1, <1>3, <1>5, PlaceFacts
  <2>2. \A k : h.val # Raw(k)
    BY <1>3, RawFacts
  <2>. QED  BY <1>1, <1>3, <2>1, <2>2
            DEF Matches, BearerMatches, CookieMatches, ParamMatches, PatternMatches, IbanMatches
<1>8. ASSUME NEW j \in 1 .. 8
      PROVE  /\ (Passes[j] \in on /\ Matches(Passes[j], w[j - 1])) <=> Passes[j] \in ks
             /\ w[j] = IF Passes[j] \in ks THEN Replace(pol, Passes[j], w[j - 1]) ELSE w[j - 1]
  <2>1. CASE j = 1
    <3>1. w[j - 1] = s /\ w[j] = mid /\ Passes[j] = "bearer_token"
      BY <2>1, PassesTurn
    <3>. QED  BY <1>1, <1>7, <3>1 DEF mid
  <2>2. CASE j = 2
    <3>1. w[j - 1] = mid /\ w[j] = h /\ Passes[j] = "cookie"
      BY <2>2, PassesTurn
    <3>. QED  BY <1>1, <1>6, <1>7, <3>1
  <2>3. CASE j > 2
    <3>1. w[j - 1] = h /\ w[j] = h
      BY <2>3
    <3>2. Passes[j] # "bearer_token" /\ Passes[j] # "cookie"
      BY <2>3, PassesTurn
    <3>. HIDE DEF w
    <3>. QED  BY <1>7, <3>1, <3>2
  <2>. QED  BY <2>1, <2>2, <2>3
<1>9. /\ w \in [0 .. 8 -> Span] /\ w[0] = s /\ w[8] = h
      /\ \A j \in 0 .. 8 : ~w[j].glued
  <2>1. \A j \in 0 .. 8 : w[j] \in {s, mid, h}
    OBVIOUS
  <2>2. w[0] = s /\ w[8] = h
    OBVIOUS
  <2>3. \A u \in {s, mid, h} : u \in Span /\ ~u.glued
    BY <1>1, <1>4, <1>5
  <2>4. w = [j \in 0 .. 8 |-> w[j]]
    OBVIOUS
  <2>. HIDE DEF w
  <2>. QED  BY <2>1, <2>2, <2>3, <2>4
<1>10. ks \in SUBSET PassKinds
  BY DEF PassKinds
<1>11. SpanRun(on, pol, w, ks)
  <2>. HIDE DEF w, ks
  <2>. QED  BY <1>8, <1>9, <1>10 DEF SpanRun
<1>. HIDE DEF w
<1>12. RunsTo8(on, pol, s, ks, h)
  BY <1>9, <1>11 DEF RunsTo8
<1>. QED  BY <1>12 DEF h

\* A raw span that stands apart runs to the hidden one, by the passes of the kinds
\* that it is counted as.
LEMMA RawRuns ==
    ASSUME NEW on \in SUBSET Kind, NEW pol \in Policy, pol.iban_like = {}, NEW s \in ApartSpan
    PROVE  RunsTo8(on, pol, s, KindsOfSpan(on, s) \ {"none"}, HiddenSpan(on, pol, s))
<1>1. s \in RawSpan /\ ~s.glued
  BY DEF ApartSpan
<1>2. /\ s \in Span /\ HiddenSpan(on, pol, s) \in Span /\ ~HiddenSpan(on, pol, s).glued
      /\ KindOfSpan(on, s) \in PassKinds \cup {"none"}
  <2>1. s \in RawSpan
    BY <1>1
  <2>2. /\ s \in Span /\ HiddenSpan(on, pol, s) \in Span
        /\ HiddenSpan(on, pol, s).glued = s.glued
        /\ KindOfSpan(on, s) \in PassKinds \cup {"none"}
    BY <2>1, SpanKinds
  <2>. QED  BY <1>1, <2>2
<1>3. CASE IsDouble(on, s)
  <2>1. KindOfSpan(on, s) = "cookie"
    BY <1>3, PlaceFacts DEF KindOfSpan, IsDouble
  <2>2. KindsOfSpan(on, s) \ {"none"} = {"bearer_token", "cookie"}
    BY <1>3, <2>1 DEF KindsOfSpan, IsDouble
  <2>. QED  BY <1>1, <1>3, <2>2, DoublePassed
<1>4. CASE ~IsDouble(on, s)
  <2>1. KindsOfSpan(on, s) = {KindOfSpan(on, s)}
    <3>1. CASE s.place = "bearer in a cookie" /\ "bearer_token" \in on
      <4>1. KindOfSpan(on, s) = "bearer_token"
        BY <1>4, <3>1, PlaceFacts DEF KindOfSpan, IsDouble
      <4>. QED  BY <3>1, <4>1 DEF KindsOfSpan
    <3>2. CASE ~(s.place = "bearer in a cookie" /\ "bearer_token" \in on)
      BY <3>2 DEF KindsOfSpan
    <3>. QED  BY <3>1, <3>2
  <2>2. KindOfSpan(on, s) = "none" => HiddenSpan(on, pol, s) = s
    BY DEF HiddenSpan
  <2>3. OncePassed(on, pol, s, KindOfSpan(on, s), HiddenSpan(on, pol, s))
    BY <1>1, <1>4, RawPassed
  <2>4. RunsTo8(on, pol, s, {KindOfSpan(on, s)} \ {"none"}, HiddenSpan(on, pol, s))
    BY ONLY <1>1, <1>2, <2>2, <2>3, OnceRuns
  <2>. QED  BY <2>1, <2>4
<1>. QED  BY <1>3, <1>4

-----------------------------------------------------------------------------
(* Hidden spans: only the pass of its place replaces one again.             *)
\* What a pass finds again in a hidden span: the place it stands in.
AgainKind(on, h) ==
    IF h.place \in CookiePlaces /\ "cookie" \in on THEN "cookie"
    ELSE IF h.place \in ParamPlaces /\ "url_sensitive_params" \in on THEN "url_sensitive_params"
    ELSE "none"

\* What the second time makes of it.
AgainSpan(on, pol, h) ==
    IF AgainKind(on, h) = "none" THEN h
    ELSE [h EXCEPT !.val = Replacement(pol, AgainKind(on, h), h.val),
                   !.place = IF AgainKind(on, h) = "cookie" THEN "cookie" ELSE h.place]

\* What becomes of a span that has been hidden: h, if it was of this kind.
IsHiddenSpan(on, pol, s, kind, h) ==
    /\ h \in Span /\ s.place \in Place /\ h.place \in Place /\ h.val.iban = FALSE
    /\ ~s.glued => ~h.glued
    /\ h.place = s.place \/ (h.place = "cookie" /\ "cookie" \in on)
    /\ h.place \in CookiePlaces /\ "cookie" \in on => h.place = "cookie" /\ kind = "cookie"
    /\ h.place \in ParamPlaces /\ "url_sensitive_params" \in on => kind = "url_sensitive_params"
    /\ kind = "none" => /\ h = s /\ s.val.kind \notin on
                        /\ \A k \in Secret : s.val = Raw(k) => k = s.val.kind
                        /\ s.place \in BearerPlaces => "bearer_token" \notin on
    /\ kind # "none" => /\ h.val = [form |-> pol.mode, kind |-> kind, iban |-> FALSE]
                        /\ h.val.form # "raw" /\ kind \in on

\* Hidden, a span is a mark of the kind it has, or as raw as it was and of no
\* kind that is looked for.
LEMMA HiddenFacts ==
    ASSUME NEW on \in SUBSET Kind, NEW pol \in Policy, pol.iban_like = {}, NEW s \in RawSpan
    PROVE  IsHiddenSpan(on, pol, s, KindOfSpan(on, s), HiddenSpan(on, pol, s))
<1>. DEFINE kind == KindOfSpan(on, s)
            h == HiddenSpan(on, pol, s)
<1>1. /\ s \in Span /\ s.val.iban = FALSE /\ h \in Span /\ s.place \in Place /\ h.glued = s.glued
      /\ s.val = Raw(s.val.kind) /\ "none" \notin on /\ s.val.kind \in Secret
  BY SpanKinds DEF Kind
<1>2. kind = IF s.place \in {"cookie", "bearer in a cookie", "param in a cookie"} /\ "cookie" \in on
             THEN "cookie"
             ELSE IF s.place \in {"param", "param in a cookie"} /\ "url_sensitive_params" \in on
             THEN "url_sensitive_params"
             ELSE IF s.place \in {"bearer", "bearer in a cookie"} /\ "bearer_token" \in on
             THEN "bearer_token"
             ELSE IF s.val.kind \in on THEN s.val.kind ELSE "none"
  BY PlaceFacts DEF KindOfSpan
<1>3. CASE kind = "none"
  <2>1. h = s
    BY <1>3 DEF HiddenSpan
  <2>2. \A k \in Secret : s.val = Raw(k) => k = s.val.kind
    BY <1>1, RawFacts
  <2>3. /\ s.val.kind \notin on
        /\ s.place \in BearerPlaces => "bearer_token" \notin on
        /\ s.place \in CookiePlaces => "cookie" \notin on
        /\ s.place \in ParamPlaces => "url_sensitive_params" \notin on
    BY <1>1, <1>2, <1>3, PlaceFacts
  <2>. HIDE DEF h, kind
  <2>. QED  BY <1>1, <1>3, <2>1, <2>2, <2>3 DEF IsHiddenSpan, h, kind
<1>4. CASE kind # "none"
  <2>1. /\ h.place = IF kind = "cookie" THEN "cookie" ELSE s.place
        /\ h.val = [form |-> pol.mode, kind |-> kind, iban |-> FALSE] /\ h.val.form # "raw"
    <3>1. kind # "none" => Marks(pol, kind, s, h)
      BY HidingFacts
    <3>. HIDE DEF h, kind
    <3>. QED  BY ONLY <1>4, <3>1 DEF Marks
  <2>. HIDE DEF h, kind
  <2>2. h.val.iban = FALSE /\ h.place \in Place
    BY <1>1, <2>1 DEF Span
  <2>3. /\ kind \in on
        /\ h.place \in CookiePlaces /\ "cookie" \in on => h.place = "cookie" /\ kind = "cookie"
        /\ h.place \in ParamPlaces /\ "url_sensitive_params" \in on =>
              kind = "url_sensitive_params"
    BY <1>2, <1>4, <2>1, PlaceFacts
  <2>. QED  BY <1>1, <1>4, <2>1, <2>2, <2>3 DEF IsHiddenSpan, h, kind
<1>. QED  BY <1>3, <1>4

\* What is found again, and what it makes.
AgainIs(q, h, kind, r) ==
    /\ kind \in {"none", "cookie", "url_sensitive_params"}
    /\ r \in Span /\ r.glued = h.glued
    /\ kind = "none" => r = h
    /\ kind # "none" => Marks(q, kind, h, r)

\* So it is for every span.
LEMMA AgainFactsOf ==
    ASSUME NEW on \in SUBSET Kind, NEW q \in Policy, q.iban_like = {}, NEW h \in Span
    PROVE  AgainIs(q, h, AgainKind(on, h), AgainSpan(on, q, h))
<1>. DEFINE kind == AgainKind(on, h)
            r == AgainSpan(on, q, h)
            Vals == [form : {"raw", "mask", "hash", "drop", "broken"},
                     kind : Kind \cup {"none"}, iban : BOOLEAN]
<1>1. kind \in {"none", "cookie", "url_sensitive_params"}
  BY DEF AgainKind
<1>2. r = IF kind = "none" THEN h
          ELSE [h EXCEPT !.val = Replacement(q, kind, h.val),
                         !.place = IF kind = "cookie" THEN "cookie" ELSE h.place]
  BY DEF AgainSpan
<1>3. /\ Span = [place : Place, glued : BOOLEAN, val : Vals] /\ "cookie" \in Place
      /\ Replacement(q, kind, h.val) \in Vals
  <2>1. Replacement(q, kind, h.val) \in Vals
    BY <1>1 DEF Replacement, Policy, Kind
  <2>. QED  BY <2>1 DEF Span, Place, CookiePlaces
<1>. HIDE DEF kind, r, Vals
<1>4. IsMark(q, kind, Replacement(q, kind, h.val))
  BY MarkFacts
<1>5. r \in Span /\ r.glued = h.glued
  BY <1>2, <1>3
<1>6. kind # "none" => /\ r.place = IF kind = "cookie" THEN "cookie" ELSE h.place
                       /\ r.val = Replacement(q, kind, h.val)
  BY <1>2, <1>3
<1>7. kind # "none" => Marks(q, kind, h, r)
  BY <1>2, <1>4, <1>6 DEF Marks, IsMark
<1>8. AgainIs(q, h, kind, r)
  BY <1>1, <1>2, <1>5, <1>7 DEF AgainIs
<1>. QED  BY <1>8 DEF kind, r

\* ... and a hidden one is replaced for the place it stands in, or left alone.
LEMMA HiddenPassed ==
    ASSUME NEW on \in SUBSET Kind, NEW pol \in Policy, pol.iban_like = {},
           NEW q \in Policy, q.iban_like = {}, NEW s \in RawSpan
    PROVE  LET h == HiddenSpan(on, pol, s)
           IN  OncePassed(on, q, h, AgainKind(on, h), AgainSpan(on, q, h))
<1>. DEFINE kind == KindOfSpan(on, s)
            h == HiddenSpan(on, pol, s)
            again_kind == AgainKind(on, h)
            r == AgainSpan(on, q, h)
<1>1. /\ h \in Span /\ s.place \in Place /\ h.place \in Place /\ h.val.iban = FALSE
      /\ h.place = s.place \/ (h.place = "cookie" /\ "cookie" \in on)
      /\ h.place \in CookiePlaces /\ "cookie" \in on => h.place = "cookie" /\ kind = "cookie"
      /\ h.place \in ParamPlaces /\ "url_sensitive_params" \in on => kind = "url_sensitive_params"
      /\ kind = "none" => /\ h = s /\ s.val.kind \notin on
                          /\ \A k \in Secret : s.val = Raw(k) => k = s.val.kind
                          /\ s.place \in BearerPlaces => "bearer_token" \notin on
      /\ kind # "none" => h.val.form # "raw" /\ kind \in on
  <2>1. IsHiddenSpan(on, pol, s, kind, h)
    BY HiddenFacts
  <2>. HIDE DEF kind, h
  <2>. QED  BY <2>1 DEF IsHiddenSpan
<1>2. kind # "none" => \A k : h.val # Raw(k)
  BY <1>1, RawFacts
<1>. HIDE DEF h, kind
<1>3. /\ again_kind \in {"none", "cookie", "url_sensitive_params"}
      /\ again_kind # "none" =>
           /\ r = [h EXCEPT !.val = Replacement(q, again_kind, h.val),
                            !.place = IF again_kind = "cookie" THEN "cookie" ELSE h.place]
           /\ r.place = h.place
           /\ r.val.form # "raw" /\ r.val.iban = FALSE
  <2>1. again_kind = "cookie" => h.place = "cookie"
    BY <1>1 DEF AgainKind
  <2>2. /\ again_kind \in {"none", "cookie", "url_sensitive_params"}
        /\ again_kind # "none" =>
             /\ r = [h EXCEPT !.val = Replacement(q, again_kind, h.val),
                              !.place = IF again_kind = "cookie" THEN "cookie" ELSE h.place]
             /\ r.place = IF again_kind = "cookie" THEN "cookie" ELSE h.place
             /\ r.val.form # "raw" /\ r.val.iban = FALSE
    <3>1. AgainIs(q, h, again_kind, r)
      BY <1>1, AgainFactsOf
    <3>. HIDE DEF again_kind, r
    <3>. QED  BY <3>1 DEF AgainIs, Marks
  <2>. HIDE DEF again_kind, r
  <2>. QED  BY <2>1, <2>2
<1>4. /\ again_kind = "cookie" <=> h.place \in CookiePlaces /\ "cookie" \in on
      /\ again_kind = "url_sensitive_params" <=>
            h.place \in ParamPlaces /\ "url_sensitive_params" \in on
  BY <1>1, PlaceFacts DEF AgainKind
<1>. HIDE DEF again_kind, r
<1>5. again_kind # "none" => \A k : r.val # Raw(k)
  BY <1>3, RawFacts
<1>6. ASSUME NEW j \in 1 .. 8
      PROVE  /\ Passes[j] \in on /\ Matches(Passes[j], Seen(h, r, again_kind, j - 1))
                  <=> Passes[j] = again_kind
             /\ Passes[j] = again_kind => Replace(q, again_kind, Seen(h, r, again_kind, j - 1)) = r
  <2>. DEFINE now == Seen(h, r, again_kind, j - 1)
  <2>1. now = IF Before(again_kind, j - 1) THEN r ELSE h
    BY DEF Seen
  <2>2. ~Before("none", j - 1)
    BY BeforeFacts
  <2>3. Passes[j] = again_kind => ~Before(again_kind, j - 1)
    BY PassesFacts DEF Before
  <2>. HIDE DEF now
  <2>4. now.place = h.place /\ now.val.iban = FALSE
    BY <1>1, <1>3, <2>1, <2>2
  <2>5. Passes[j] = again_kind => Replace(q, again_kind, now) = r
    <3>1. Passes[j] = again_kind => now = h /\ again_kind # "none"
      BY <2>1, <2>3, PassesFacts DEF PassKinds
    <3>. QED  BY <1>3, <3>1 DEF Replace
  <2>6. now.val.form = "raw" /\ h.place \in BearerPlaces => "bearer_token" \notin on
    BY <1>1, <1>3, <2>1, <2>2
  <2>7. \A k \in Secret : now.val = Raw(k) => k \notin on
    BY <1>1, <1>2, <1>5, <2>1, <2>2
  <2>8. Passes[j] \in on /\ Matches(Passes[j], now) <=> Passes[j] = again_kind
    <3>0. Matches(Passes[j], now) <=>
            \/ Passes[j] = "bearer_token" /\ h.place \in BearerPlaces /\ now.val.form = "raw"
            \/ Passes[j] = "cookie" /\ h.place \in CookiePlaces
            \/ Passes[j] = "url_sensitive_params" /\ h.place \in ParamPlaces
            \/ Passes[j] \in {"jwt", "email", "ip", "credit_card"} /\ now.val = Raw(Passes[j])
            \/ Passes[j] = "iban" /\ now.val = Raw("iban")
      BY <2>4 DEF Matches, BearerMatches, CookieMatches, ParamMatches, PatternMatches, IbanMatches
    <3>1. \A k \in {"jwt", "email", "ip", "credit_card", "iban"} : k \in Secret
      BY DEF Secret
    <3>2. Passes[j] \in {"jwt", "email", "ip", "credit_card", "iban"}
             /\ now.val = Raw(Passes[j]) => Passes[j] \notin on
      BY <2>7, <3>1
    <3>3. Passes[j] \in PassKinds
      BY PassesFacts
    <3>. QED  BY <1>3, <1>4, <2>6, <3>0, <3>2, <3>3 DEF PassKinds
  <2>. QED  BY <2>5, <2>8 DEF now
<1>7. OncePassed(on, q, h, again_kind, r)
  BY <1>6 DEF OncePassed
<1>. QED  BY <1>7 DEF h, again_kind, r

\* With the policy that hid it, it stays as it is.
LEMMA AgainIsSame ==
    ASSUME NEW on \in SUBSET Kind, NEW pol \in Policy, pol.iban_like = {}, NEW s \in RawSpan
    PROVE  LET h == HiddenSpan(on, pol, s)
           IN  /\ AgainSpan(on, pol, h) = h
               /\ AgainKind(on, h) \in {"none", "cookie", "url_sensitive_params"}
               /\ AgainKind(on, h) # "none" => AgainKind(on, h) = KindOfSpan(on, s)
<1>. DEFINE kind == KindOfSpan(on, s)
            h == HiddenSpan(on, pol, s)
            again_kind == AgainKind(on, h)
            r == AgainSpan(on, pol, h)
<1>1. IsHiddenSpan(on, pol, s, kind, h)
  BY HiddenFacts
<1>. HIDE DEF kind, h
<1>2. /\ h \in Span
      /\ h.place \in CookiePlaces /\ "cookie" \in on => h.place = "cookie" /\ kind = "cookie"
      /\ h.place \in ParamPlaces /\ "url_sensitive_params" \in on => kind = "url_sensitive_params"
      /\ kind # "none" => h.val = [form |-> pol.mode, kind |-> kind, iban |-> FALSE]
  BY <1>1 DEF IsHiddenSpan
<1>3. /\ again_kind \in {"none", "cookie", "url_sensitive_params"}
      /\ again_kind # "none" => again_kind = kind
      /\ again_kind = "cookie" => h.place = "cookie"
  BY <1>2 DEF AgainKind
<1>4. /\ again_kind = "none" => r = h
      /\ again_kind # "none" =>
           /\ r = [h EXCEPT !.val = Replacement(pol, again_kind, h.val),
                            !.place = IF again_kind = "cookie" THEN "cookie" ELSE h.place]
           /\ r.place = IF again_kind = "cookie" THEN "cookie" ELSE h.place
           /\ r.val = [form |-> pol.mode, kind |-> again_kind, iban |-> FALSE]
      /\ r \in Span /\ r.glued = h.glued
  <2>1. AgainIs(pol, h, again_kind, r)
    BY <1>2, AgainFactsOf
  <2>. HIDE DEF again_kind, r
  <2>. QED  BY <2>1 DEF AgainIs, Marks
<1>. HIDE DEF again_kind, r
<1>5. r = h
  <2>1. r.val = h.val /\ r.place = h.place /\ r.glued = h.glued
    BY <1>2, <1>3, <1>4
  <2>. QED  BY <1>2, <1>4, <2>1 DEF Span
<1>. QED  BY <1>3, <1>5 DEF kind, h, again_kind, r

-----------------------------------------------------------------------------
(* Texts.                                                                   *)
\* A text of spans apart with each of them hidden, and what it has of each kind.
HiddenText(on, pol, text) == [i \in DOMAIN text |-> HiddenSpan(on, pol, text[i])]

TextSecrets(on, text) ==
    [kind \in Kind |-> Cardinality({i \in DOMAIN text : kind \in KindsOfSpan(on, text[i])})]

\* It is a text, as long as it was.
LEMMA TextFacts ==
    ASSUME NEW on \in SUBSET Kind, NEW pol \in Policy, NEW text \in Seq(ApartSpan)
    PROVE  /\ text \in Seq(Span) /\ DOMAIN text = 1 .. Len(text) /\ Len(text) \in Nat
           /\ \A i \in 1 .. Len(text) : text[i] \in ApartSpan
           /\ HiddenText(on, pol, text) \in Seq(Span)
           /\ Len(HiddenText(on, pol, text)) = Len(text)
           /\ \A i \in 1 .. Len(text) : HiddenText(on, pol, text)[i] = HiddenSpan(on, pol, text[i])
           /\ TextSecrets(on, text) \in Counts
<1>1. /\ DOMAIN text = 1 .. Len(text) /\ Len(text) \in Nat
      /\ \A i \in 1 .. Len(text) : text[i] \in ApartSpan
  BY LenProperties, ElementOfSeq
<1>2. \A s \in ApartSpan : s \in Span /\ HiddenSpan(on, pol, s) \in Span
  BY SpanKinds DEF ApartSpan
<1>3. text \in Seq(Span)
  BY <1>1, <1>2
<1>4. /\ HiddenText(on, pol, text) \in Seq(Span)
      /\ Len(HiddenText(on, pol, text)) = Len(text)
      /\ \A i \in 1 .. Len(text) : HiddenText(on, pol, text)[i] = HiddenSpan(on, pol, text[i])
  <2>. DEFINE hidden == [i \in 1 .. Len(text) |-> HiddenSpan(on, pol, text[i])]
  <2>1. hidden \in [1 .. Len(text) -> Span]
    BY <1>1, <1>2
  <2>2. \A i \in 1 .. Len(text) : hidden[i] = HiddenSpan(on, pol, text[i])
    OBVIOUS
  <2>3. HiddenText(on, pol, text) = hidden
    BY <1>1 DEF HiddenText
  <2>. HIDE DEF hidden
  <2>4. hidden \in Seq(Span) /\ Len(hidden) = Len(text)
    BY <1>1, <2>1
  <2>. QED  BY <2>2, <2>3, <2>4
<1>5. TextSecrets(on, text) \in Counts
  <2>. DEFINE C(kind) == {i \in DOMAIN text : kind \in KindsOfSpan(on, text[i])}
  <2>1. IsFiniteSet(1 .. Len(text))
    <3>1. Len(text) \in Nat
      BY <1>1
    <3>. QED  BY ONLY <3>1, FS_Interval
  <2>2. \A kind : C(kind) \subseteq 1 .. Len(text)
    BY <1>1
  <2>3. \A kind : Cardinality(C(kind)) \in Nat
    <3>. HIDE DEF C
    <3>1. \A kind : IsFiniteSet(C(kind))
      BY <2>1, <2>2, FS_Subset
    <3>. QED  BY <3>1, FS_CardinalityType
  <2>. HIDE DEF C
  <2>4. [kind \in Kind |-> Cardinality(C(kind))] \in Counts
    BY <2>3 DEF Counts
  <2>. QED  BY <2>4 DEF TextSecrets, C
<1>. QED  BY <1>1, <1>3, <1>4, <1>5

\* The passes over a text of spans apart: each secret hidden, and counted.
LEMMA TextHidden ==
    ASSUME NEW on \in SUBSET Kind, NEW pol \in Policy, pol.iban_like = {},
           NEW text \in Seq(ApartSpan)
    PROVE  RedactText(on, pol, text) =
              [text |-> HiddenText(on, pol, text), stats |-> TextSecrets(on, text)]
<1>. DEFINE D == 1 .. Len(text)
            ks == [i \in D |-> KindsOfSpan(on, text[i]) \ {"none"}]
            r == [i \in D |-> HiddenSpan(on, pol, text[i])]
<1>1. text \in Seq(Span) /\ DOMAIN text = D /\ \A i \in D : text[i] \in ApartSpan
  BY TextFacts
<1>2. \A i \in D : RunsTo8(on, pol, text[i], ks[i], r[i])
  <2>1. \A s \in ApartSpan :
           RunsTo8(on, pol, s, KindsOfSpan(on, s) \ {"none"}, HiddenSpan(on, pol, s))
    BY RawRuns
  <2>2. \A i \in D : ks[i] = KindsOfSpan(on, text[i]) \ {"none"} /\ r[i] = HiddenSpan(on, pol, text[i])
    OBVIOUS
  <2>. HIDE DEF ks, r
  <2>. QED  BY <1>1, <2>1, <2>2
<1>3. RedactText(on, pol, text) =
         [text |-> [i \in D |-> r[i]],
          stats |-> [k \in Kind |-> Cardinality({i \in D : k \in ks[i]})]]
  <2>. HIDE DEF ks, r
  <2>1. AllRun(on, pol, text, ks, r)
    BY <1>2 DEF AllRun
  <2>2. PassedTo(on, pol, text, ks, r)
    BY <1>1, <2>1, TextRuns
  <2>. QED  BY <2>2 DEF PassedTo
<1>4. [i \in D |-> r[i]] = HiddenText(on, pol, text)
  BY <1>1 DEF HiddenText
<1>5. [k \in Kind |-> Cardinality({i \in D : k \in ks[i]})] = TextSecrets(on, text)
  <2>. DEFINE A(k) == {i \in D : k \in ks[i]}
              B(k) == {i \in DOMAIN text : k \in KindsOfSpan(on, text[i])}
  <2>1. \A k \in Kind : A(k) = B(k)
    <3>1. \A k \in Kind : k # "none"
      BY DEF Kind
    <3>. QED  BY <1>1, <3>1
  <2>. HIDE DEF A, B
  <2>2. [k \in Kind |-> Cardinality(A(k))] = [k \in Kind |-> Cardinality(B(k))]
    BY <2>1
  <2>. QED  BY <2>2 DEF TextSecrets, A, B
<1>. HIDE DEF ks, r, D
<1>. QED  BY <1>3, <1>4, <1>5

\* The text, and the counts, of a second time.
AgainText(on, q, text) == [i \in DOMAIN text |-> AgainSpan(on, q, text[i])]

AgainCounts(on, text) ==
    [kind \in Kind |-> Cardinality({i \in DOMAIN text : AgainKind(on, text[i]) = kind})]

\* And over what that makes of it.
LEMMA TextAgain ==
    ASSUME NEW on \in SUBSET Kind, NEW pol \in Policy, pol.iban_like = {},
           NEW q \in Policy, q.iban_like = {}, NEW text \in Seq(ApartSpan)
    PROVE  RedactText(on, q, HiddenText(on, pol, text)) =
              [text |-> AgainText(on, q, HiddenText(on, pol, text)),
               stats |-> AgainCounts(on, HiddenText(on, pol, text))]
<1>. DEFINE D == 1 .. Len(text)
            hidden == HiddenText(on, pol, text)
            ks == [i \in D |-> {AgainKind(on, hidden[i])} \ {"none"}]
            r == [i \in D |-> AgainSpan(on, q, hidden[i])]
<1>1. /\ DOMAIN text = D /\ \A i \in D : text[i] \in ApartSpan
      /\ hidden \in Seq(Span) /\ Len(hidden) = Len(text)
      /\ \A i \in D : hidden[i] = HiddenSpan(on, pol, text[i])
  BY TextFacts
<1>2. \A i \in D : RunsTo8(on, q, hidden[i], ks[i], r[i])
  <2>1. ASSUME NEW s \in ApartSpan, NEW h, h = HiddenSpan(on, pol, s)
        PROVE  RunsTo8(on, q, h, {AgainKind(on, h)} \ {"none"}, AgainSpan(on, q, h))
    <3>1. s \in RawSpan /\ ~s.glued
      BY DEF ApartSpan
    <3>2. h \in Span /\ ~h.glued
      <4>0. s \in RawSpan
        BY <3>1
      <4>1. HiddenSpan(on, pol, s) \in Span /\ HiddenSpan(on, pol, s).glued = s.glued
        BY ONLY on \in SUBSET Kind, pol \in Policy, <4>0, SpanKinds
      <4>. QED  BY <2>1, <3>1, <4>1
    <3>3. AgainIs(q, h, AgainKind(on, h), AgainSpan(on, q, h))
      BY <3>2, AgainFactsOf
    <3>4. /\ AgainKind(on, h) \in PassKinds \cup {"none"}
          /\ AgainSpan(on, q, h) \in Span /\ ~AgainSpan(on, q, h).glued
          /\ AgainKind(on, h) = "none" => AgainSpan(on, q, h) = h
      BY <3>2, <3>3 DEF AgainIs, PassKinds
    <3>5. OncePassed(on, q, h, AgainKind(on, h), AgainSpan(on, q, h))
      BY <2>1, <3>1, HiddenPassed
    <3>. QED  BY ONLY <3>2, <3>4, <3>5, OnceRuns
  <2>2. \A i \in D : ks[i] = {AgainKind(on, hidden[i])} \ {"none"}
                     /\ r[i] = AgainSpan(on, q, hidden[i])
    OBVIOUS
  <2>. HIDE DEF ks, r, hidden
  <2>. QED  BY <1>1, <2>1, <2>2
<1>. HIDE DEF hidden
<1>3. DOMAIN hidden = D /\ D = 1 .. Len(hidden)
  BY <1>1, LenProperties
<1>4. RedactText(on, q, hidden) =
         [text |-> [i \in D |-> r[i]],
          stats |-> [k \in Kind |-> Cardinality({i \in D : k \in ks[i]})]]
  <2>1. hidden \in Seq(Span) /\ \A i \in 1 .. Len(hidden) : RunsTo8(on, q, hidden[i], ks[i], r[i])
    <3>. HIDE DEF ks, r
    <3>. QED  BY <1>1, <1>2, <1>3
  <2>2. RedactText(on, q, hidden) =
           [text |-> [i \in 1 .. Len(hidden) |-> r[i]],
            stats |-> [k \in Kind |-> Cardinality({i \in 1 .. Len(hidden) : k \in ks[i]})]]
    <3>. HIDE DEF ks, r
    <3>1. AllRun(on, q, hidden, ks, r)
      BY <2>1 DEF AllRun
    <3>2. PassedTo(on, q, hidden, ks, r)
      BY <2>1, <3>1, TextRuns
    <3>. QED  BY <3>2 DEF PassedTo
  <2>3. 1 .. Len(hidden) = D
    BY <1>3
  <2>. HIDE DEF ks, r, D
  <2>. QED  BY <2>2, <2>3
<1>5. [i \in D |-> r[i]] = AgainText(on, q, hidden)
  BY <1>3 DEF AgainText
<1>6. [k \in Kind |-> Cardinality({i \in D : k \in ks[i]})] = AgainCounts(on, hidden)
  <2>. DEFINE A(k) == {i \in D : k \in ks[i]}
              B(k) == {i \in DOMAIN hidden : AgainKind(on, hidden[i]) = k}
  <2>1. \A k \in Kind : A(k) = B(k)
    <3>1. \A k \in Kind : k # "none"
      BY DEF Kind
    <3>. QED  BY <1>3, <3>1
  <2>. HIDE DEF A, B
  <2>2. [k \in Kind |-> Cardinality(A(k))] = [k \in Kind |-> Cardinality(B(k))]
    BY <2>1
  <2>. QED  BY <2>2 DEF AgainCounts, A, B
<1>7. RedactText(on, q, hidden) =
         [text |-> AgainText(on, q, hidden), stats |-> AgainCounts(on, hidden)]
  <2>. HIDE DEF ks, r, D
  <2>. QED  BY <1>4, <1>5, <1>6
<1>. QED  BY <1>7 DEF hidden

\* The kinds that a pattern finds wherever it stands.
FiveKinds == {"email", "ip", "jwt", "credit_card", "iban"}

\* So that a second time nothing changes, and of what counts again there is no
\* more than before, and nothing that a pattern finds.
Fewer(c, d) == /\ c \in Counts /\ d \in Counts
               /\ \A k \in Kind : c[k] <= d[k]
               /\ \A k \in FiveKinds : c[k] = 0

\* Passed again under its policy a text stays; passed under another, scan's among
\* them, it counts no more than it did, and nothing that a pattern finds.
LEMMA TextSettles ==
    ASSUME NEW on \in SUBSET Kind, NEW pol \in Policy, pol.iban_like = {},
           NEW q \in Policy, q.iban_like = {}, NEW text \in Seq(ApartSpan)
    PROVE  /\ RedactText(on, pol, HiddenText(on, pol, text)).text = HiddenText(on, pol, text)
           /\ Fewer(RedactText(on, q, HiddenText(on, pol, text)).stats, TextSecrets(on, text))
<1>. DEFINE D == 1 .. Len(text)
            hidden == HiddenText(on, pol, text)
            B(k) == {i \in D : AgainKind(on, hidden[i]) = k}
            C(k) == {i \in D : k \in KindsOfSpan(on, text[i])}
<1>1. /\ DOMAIN text = D /\ \A i \in D : text[i] \in ApartSpan
      /\ \A i \in D : hidden[i] = HiddenSpan(on, pol, text[i])
      /\ hidden = [i \in D |-> hidden[i]]
      /\ TextSecrets(on, text) \in Counts
  <2>1. DOMAIN text = D
    BY TextFacts
  <2>2. hidden = [i \in D |-> hidden[i]]
    BY <2>1 DEF HiddenText
  <2>. HIDE DEF hidden
  <2>. QED  BY <2>2, TextFacts DEF hidden
<1>. HIDE DEF hidden
<1>2. \A i \in D : /\ AgainSpan(on, pol, hidden[i]) = hidden[i]
                   /\ AgainKind(on, hidden[i]) \in {"none", "cookie", "url_sensitive_params"}
                   /\ AgainKind(on, hidden[i]) # "none" =>
                         AgainKind(on, hidden[i]) = KindOfSpan(on, text[i])
  <2>1. ASSUME NEW s \in ApartSpan, NEW h, h = HiddenSpan(on, pol, s)
        PROVE  /\ AgainSpan(on, pol, h) = h
               /\ AgainKind(on, h) \in {"none", "cookie", "url_sensitive_params"}
               /\ AgainKind(on, h) # "none" => AgainKind(on, h) = KindOfSpan(on, s)
    BY <2>1, AgainIsSame DEF ApartSpan
  <2>. QED  BY <1>1, <2>1
<1>3. RedactText(on, pol, hidden).text = hidden
  <2>1. RedactText(on, pol, hidden).text = AgainText(on, pol, hidden)
    BY TextAgain DEF hidden
  <2>2. AgainText(on, pol, hidden) = [i \in D |-> AgainSpan(on, pol, hidden[i])]
    BY <1>1 DEF AgainText
  <2>. QED  BY <1>1, <1>2, <2>1, <2>2
<1>4. RedactText(on, q, hidden).stats = [k \in Kind |-> Cardinality(B(k))]
  <2>1. RedactText(on, q, hidden).stats = AgainCounts(on, hidden)
    BY TextAgain DEF hidden
  <2>. QED  BY <1>1, <2>1 DEF AgainCounts
<1>5. TextSecrets(on, text) = [k \in Kind |-> Cardinality(C(k))]
  BY <1>1 DEF TextSecrets
<1>6. /\ \A k \in Kind : B(k) \subseteq C(k)
      /\ \A k \in FiveKinds : B(k) = {}
  <2>1. "none" \notin Kind
    BY DEF Kind
  <2>2. \A i \in D : KindOfSpan(on, text[i]) \in KindsOfSpan(on, text[i])
    BY DEF KindsOfSpan
  <2>. QED  BY <1>2, <2>1, <2>2 DEF FiveKinds
<1>7. \A k : IsFiniteSet(C(k))
  <2>1. IsFiniteSet(D)
    <3>1. Len(text) \in Nat
      BY LenProperties
    <3>. QED  BY ONLY <3>1, FS_Interval DEF D
  <2>2. \A k : C(k) \subseteq D
    OBVIOUS
  <2>. HIDE DEF C, D
  <2>. QED  BY <2>1, <2>2, FS_Subset
<1>. HIDE DEF B, C
<1>8. \A k \in Kind : /\ Cardinality(B(k)) \in Nat /\ Cardinality(C(k)) \in Nat
                      /\ Cardinality(B(k)) <= Cardinality(C(k))
  <2>1. ASSUME NEW k \in Kind
        PROVE  IsFiniteSet(B(k)) /\ Cardinality(B(k)) <= Cardinality(C(k))
    <3>1. IsFiniteSet(C(k)) /\ B(k) \in SUBSET C(k)
      BY <1>6, <1>7
    <3>. QED  BY ONLY <3>1, FS_Subset
  <2>. QED  BY <1>7, <2>1, FS_CardinalityType
<1>9. \A k \in FiveKinds : Cardinality(B(k)) = 0 /\ k \in Kind
  <2>1. FiveKinds \subseteq Kind
    BY DEF FiveKinds, Kind
  <2>. QED  BY <1>6, <2>1, FS_EmptySet
<1>10. Fewer(RedactText(on, q, hidden).stats, TextSecrets(on, text))
  BY <1>4, <1>5, <1>8, <1>9 DEF Fewer, Counts
<1>. QED  BY <1>3, <1>10 DEF hidden

-----------------------------------------------------------------------------
(* The passes over one text under two policies.                             *)
\* Spans that every pass takes for the same: they stand in the same place, and are
\* the same as long as they are raw.
Alike(s, t) ==
    /\ s.place = t.place /\ s.glued = t.glued /\ s.val.iban = FALSE /\ t.val.iban = FALSE
    /\ s.val.form = "raw" <=> t.val.form = "raw"
    /\ s.val.form = "raw" => s.val = t.val

AlikeTexts(x, y) == Len(x) = Len(y) /\ \A i \in 1 .. Len(x) : Alike(x[i], y[i])

\* Every pass does the same with them.
LEMMA SpanAlike ==
    ASSUME NEW pol \in Policy, pol.iban_like = {}, NEW q \in Policy, q.iban_like = {},
           NEW kind \in Kind, NEW s \in Span, NEW t \in Span, Alike(s, t)
    PROVE  /\ Matches(kind, s) <=> Matches(kind, t)
           /\ Matches(kind, s) => Alike(Replace(pol, kind, s), Replace(q, kind, t))
<1>1. /\ s.place = t.place /\ s.glued = t.glued /\ s.val.iban = FALSE /\ t.val.iban = FALSE
      /\ s.val.form = "raw" <=> t.val.form = "raw"
      /\ s.val.form = "raw" => s.val = t.val
  BY DEF Alike
<1>2. \A k : (s.val = Raw(k)) <=> (t.val = Raw(k))
  BY <1>1, RawFacts
<1>3. Matches(kind, s) <=> Matches(kind, t)
  BY <1>1, <1>2
     DEF Matches, BearerMatches, CookieMatches, ParamMatches, PatternMatches, IbanMatches
<1>4. ASSUME Matches(kind, s) PROVE Alike(Replace(pol, kind, s), Replace(q, kind, t))
  <2>1. ~(kind = "iban" /\ s.val.form = "hash") /\ ~(kind = "iban" /\ t.val.form = "hash")
    BY <1>1, <1>2, <1>4, RawFacts DEF Matches, IbanMatches
  <2>2. /\ Replace(pol, kind, s) = [s EXCEPT !.val = Replacement(pol, kind, s.val),
                                    !.place = IF kind = "cookie" THEN "cookie" ELSE s.place]
        /\ Replace(q, kind, t) = [t EXCEPT !.val = Replacement(q, kind, t.val),
                                  !.place = IF kind = "cookie" THEN "cookie" ELSE t.place]
    BY <2>1 DEF Replace
  <2>3. /\ IsMark(pol, kind, Replacement(pol, kind, s.val))
        /\ IsMark(q, kind, Replacement(q, kind, t.val))
    BY MarkFacts
  <2>4. /\ Replace(pol, kind, s).val = Replacement(pol, kind, s.val)
        /\ Replace(q, kind, t).val = Replacement(q, kind, t.val)
        /\ Replace(pol, kind, s).place = IF kind = "cookie" THEN "cookie" ELSE s.place
        /\ Replace(q, kind, t).place = IF kind = "cookie" THEN "cookie" ELSE t.place
        /\ Replace(pol, kind, s).glued = s.glued /\ Replace(q, kind, t).glued = t.glued
    BY <2>2 DEF Span
  <2>. QED  BY <1>1, <2>3, <2>4 DEF Alike, IsMark
<1>. QED  BY <1>3, <1>4

\* The texts and the counts, after a pass.
AlikeAccs(a, b) == a \in Texts /\ b \in Texts /\ a.stats = b.stats /\ AlikeTexts(a.text, b.text)

\* So a pass leaves them alike, and counts the same.
LEMMA PassAlike ==
    ASSUME NEW on, NEW pol \in Policy, pol.iban_like = {}, NEW q \in Policy, q.iban_like = {},
           NEW kind \in Kind, NEW a, NEW b, AlikeAccs(a, b)
    PROVE  AlikeAccs(Pass(on, pol, a, kind), Pass(on, q, b, kind))
<1>. DEFINE N == Len(a.text)
            found == Found(kind, a.text)
            x == Replaced(pol, kind, a.text, found)
            y == Replaced(q, kind, b.text, found)
<1>1. /\ a \in Texts /\ b \in Texts /\ a.stats = b.stats /\ N \in Nat /\ Len(b.text) = N
      /\ DOMAIN a.text = 1 .. N /\ DOMAIN b.text = 1 .. N
      /\ \A i \in 1 .. N : a.text[i] \in Span /\ b.text[i] \in Span /\ Alike(a.text[i], b.text[i])
  <2>1. /\ a \in Texts /\ b \in Texts /\ a.stats = b.stats
        /\ a.text \in Seq(Span) /\ b.text \in Seq(Span) /\ AlikeTexts(a.text, b.text)
    BY DEF AlikeAccs, Texts
  <2>2. /\ Len(a.text) \in Nat /\ DOMAIN a.text = 1 .. Len(a.text)
        /\ Len(b.text) \in Nat /\ DOMAIN b.text = 1 .. Len(b.text)
    BY <2>1, LenProperties
  <2>3. /\ \A i \in 1 .. Len(a.text) : a.text[i] \in Span
        /\ \A i \in 1 .. Len(b.text) : b.text[i] \in Span
    BY <2>1, ElementOfSeq
  <2>. QED  BY <2>1, <2>2, <2>3 DEF AlikeTexts
<1>2. \A i \in 1 .. N : /\ Matches(kind, a.text[i]) <=> Matches(kind, b.text[i])
                        /\ Matches(kind, a.text[i]) =>
                              Alike(Replace(pol, kind, a.text[i]), Replace(q, kind, b.text[i]))
  BY <1>1, SpanAlike
<1>3. Found(kind, b.text) = found
  <2>1. ASSUME NEW i \in 1 .. N PROVE IsFree(a.text, i) <=> IsFree(b.text, i)
    <3>1. i # 1 => i - 1 \in 1 .. N
      BY <1>1
    <3>2. /\ a.text[i].glued = b.text[i].glued
          /\ i # 1 => (a.text[i - 1].val.form = "raw" <=> b.text[i - 1].val.form = "raw")
      BY <1>1, <3>1 DEF Alike
    <3>. QED  BY <3>2 DEF IsFree
  <2>. QED  BY <1>1, <1>2, <2>1 DEF Found
<1>4. \A i \in found : i \in 1 .. N /\ Matches(kind, a.text[i])
  BY <1>1 DEF Found
<1>. HIDE DEF found, N
<1>5. AlikeTexts(x, y)
  <2>1. /\ x = [i \in 1 .. N |-> IF i \in found THEN Replace(pol, kind, a.text[i]) ELSE a.text[i]]
        /\ y = [i \in 1 .. N |-> IF i \in found THEN Replace(q, kind, b.text[i]) ELSE b.text[i]]
    BY <1>1 DEF Replaced
  <2>. HIDE DEF x, y
  <2>2. Len(x) = N /\ Len(y) = N
    BY <1>1, <2>1
  <2>3. ASSUME NEW i \in 1 .. N PROVE Alike(x[i], y[i])
    BY <1>1, <1>2, <1>4, <2>1
  <2>. QED  BY <2>2, <2>3 DEF AlikeTexts
<1>6. CASE kind \notin on
  BY <1>6 DEF Pass
<1>7. CASE kind \in on
  <2>1. /\ Pass(on, pol, a, kind) =
             [text |-> x, stats |-> Plus(a.stats, Counted(kind, Cardinality(found)))]
        /\ Pass(on, q, b, kind) =
             [text |-> y, stats |-> Plus(b.stats, Counted(kind, Cardinality(found)))]
    BY <1>3, <1>7 DEF Pass, found
  <2>2. Pass(on, pol, a, kind) \in Texts /\ Pass(on, q, b, kind) \in Texts
    BY <1>1, PassFacts
  <2>. HIDE DEF x, y
  <2>. QED  BY <1>1, <1>5, <2>1, <2>2 DEF AlikeAccs
<1>. QED  BY <1>6, <1>7

\* A text counts the same whatever replaces its secrets, glued ones too.
LEMMA TextAlike ==
    ASSUME NEW on, NEW pol \in Policy, pol.iban_like = {}, NEW q \in Policy, q.iban_like = {},
           NEW text \in Seq(RawSpan)
    PROVE  RedactText(on, pol, text).stats = RedactText(on, q, text).stats
<1>. DEFINE first == [text |-> text, stats |-> NoCounts]
<1>1. first \in Texts /\ AlikeTexts(text, text)
  <2>1. \A s \in RawSpan : s \in Span /\ s.val.iban = FALSE
    <3>1. {} \in SUBSET Kind
      OBVIOUS
    <3>. QED  BY <3>1, SpanKinds
  <2>2. \A i \in 1 .. Len(text) : text[i] \in RawSpan
    BY ElementOfSeq
  <2>3. text \in Seq(Span)
    BY <2>1
  <2>. QED  BY <2>1, <2>2, <2>3, PlusFacts DEF Texts, AlikeTexts, Alike
<1>2. /\ RedactText(on, pol, text) = AfterPasses(on, pol, first, Passes)
      /\ RedactText(on, q, text) = AfterPasses(on, q, first, Passes)
  BY DEF RedactText, AfterPasses
<1>. HIDE DEF first
<1>3. Passes \in Seq(Kind) /\ Len(Passes) = 8 /\ \A j \in 1 .. 8 : Passes[j] \in Kind
  BY PassesFacts
<1>4. PICK f : ReachedBy(f, on, pol, first, Passes)
  BY ONLY <1>1, <1>3, pol \in Policy, PassesRun
<1>5. PICK g : ReachedBy(g, on, q, first, Passes)
  BY ONLY <1>1, <1>3, q \in Policy, PassesRun
<1>. DEFINE T == {n \in Nat : n <= 8 => AlikeAccs(f[n], g[n])}
<1>6. 0 \in T
  <2>1. f[0] = first /\ g[0] = first /\ first.text = text
    BY <1>4, <1>5 DEF ReachedBy, first
  <2>. QED  BY <1>1, <2>1 DEF AlikeAccs
<1>7. ASSUME NEW n \in Nat, n \in T PROVE n + 1 \in T
  <2>. SUFFICES ASSUME n + 1 <= 8 PROVE AlikeAccs(f[n + 1], g[n + 1])
    OBVIOUS
  <2>1. n + 1 \in 1 .. 8 /\ (n + 1) - 1 = n /\ AlikeAccs(f[n], g[n])
    BY <1>7
  <2>2. /\ f[n + 1] = Pass(on, pol, f[n], Passes[n + 1])
        /\ g[n + 1] = Pass(on, q, g[n], Passes[n + 1])
    BY <1>3, <1>4, <1>5, <2>1 DEF ReachedBy
  <2>3. Passes[n + 1] \in Kind
    BY <1>3, <2>1
  <2>4. AlikeAccs(Pass(on, pol, f[n], Passes[n + 1]), Pass(on, q, g[n], Passes[n + 1]))
    BY <2>1, <2>3, PassAlike
  <2>. QED  BY <2>2, <2>4
<1>8. 8 \in T
  <2>. HIDE DEF T
  <2>. QED  BY <1>6, <1>7, InductionOverNat
<1>. QED  BY <1>2, <1>3, <1>4, <1>5, <1>8 DEF ReachedBy, AlikeAccs

-----------------------------------------------------------------------------
(* The functions on values, level by level.                                 *)
\* A recursive function on the depth is what its level says it is, at every depth:
\* so for the JSON values ...
LEMMA JsonLevels ==
    ASSUME NEW spans
    PROVE  \A n \in Nat : Json(spans)[n] = JsonLevel(spans, Below(Json(spans), n, {}))
<1>. DEFINE Level(g, n) == JsonLevel(spans, Below(g, n, {}))
            Solves(g, m) == \A j \in 0 .. m : g[j] = Level(g, j)
            T == {m \in Nat : \E g : Solves(g, m)}
            f == [n \in Nat |-> (CHOOSE g : Solves(g, n))[n]]
<1>1. ASSUME NEW g, NEW h, NEW j \in Nat, j = 0 \/ g[j - 1] = h[j - 1]
      PROVE  Level(g, j) = Level(h, j)
  BY <1>1 DEF Below
<1>. HIDE DEF Level
<1>2. 0 \in T
  <2>. DEFINE g == [j \in 0 .. 0 |-> Level(<< >>, 0)]
  <2>1. Level(g, 0) = Level(<< >>, 0)
    BY <1>1
  <2>2. g[0] = Level(<< >>, 0)
    OBVIOUS
  <2>. HIDE DEF g
  <2>3. Solves(g, 0)
    BY <2>1, <2>2
  <2>. QED  BY <2>3
<1>3. ASSUME NEW m \in Nat, m \in T PROVE m + 1 \in T
  <2>1. PICK g : Solves(g, m)
    BY <1>3
  <2>. DEFINE h == [j \in 0 .. m + 1 |-> IF j = m + 1 THEN Level(g, j) ELSE g[j]]
  <2>2. \A j \in 0 .. m : h[j] = g[j]
    OBVIOUS
  <2>3. h[m + 1] = Level(g, m + 1)
    OBVIOUS
  <2>. HIDE DEF h
  <2>4. ASSUME NEW j \in 0 .. m + 1 PROVE h[j] = Level(h, j)
    <3>1. Level(h, j) = Level(g, j)
      <4>1. j = 0 \/ h[j - 1] = g[j - 1]
        BY <2>2
      <4>. QED  BY <1>1, <4>1
    <3>2. h[j] = Level(g, j)
      <4>1. CASE j = m + 1
        BY <2>3, <4>1
      <4>2. CASE j # m + 1
        <5>1. j \in 0 .. m
          BY <4>2
        <5>. QED  BY <2>1, <2>2, <5>1
      <4>. QED  BY <4>1, <4>2
    <3>. QED  BY <3>1, <3>2
  <2>5. Solves(h, m + 1)
    BY <2>4
  <2>. QED  BY <2>5
<1>4. ASSUME NEW m \in Nat, NEW g, Solves(g, m), NEW k \in Nat, NEW h, Solves(h, k), m <= k
      PROVE  g[m] = h[m]
  <2>1. ASSUME NEW j \in 1 .. m, g[j - 1] = h[j - 1] PROVE g[j] = h[j]
    <3>1. j \in 0 .. m /\ j \in 0 .. k /\ j \in Nat
      BY <1>4
    <3>. QED  BY <1>1, <1>4, <2>1, <3>1
  <2>2. g[0] = h[0]
    <3>1. 0 \in 0 .. m /\ 0 \in 0 .. k /\ 0 \in Nat
      OBVIOUS
    <3>. QED  BY <1>1, <1>4, <3>1
  <2>. QED  BY ONLY m \in Nat, <2>1, <2>2, RunsAgree
<1>5. ASSUME NEW n \in Nat PROVE f[n] = Level(f, n)
  <2>1. \A m \in Nat : Solves(CHOOSE g : Solves(g, m), m)
    <3>1. Nat \subseteq T
      <4>. HIDE DEF T
      <4>. QED  BY <1>2, <1>3, InductionOverNat
    <3>. HIDE DEF Solves
    <3>. QED  BY <3>1
  <2>. DEFINE mine(m) == CHOOSE g : Solves(g, m)
  <2>2. \A m \in Nat : f[m] = mine(m)[m]
    OBVIOUS
  <2>3. Solves(mine(n), n) /\ (n # 0 => n - 1 \in Nat /\ Solves(mine(n - 1), n - 1))
    <3>. HIDE DEF Solves
    <3>. QED  BY <2>1
  <2>. HIDE DEF mine, f
  <2>4. n = 0 \/ f[n - 1] = mine(n)[n - 1]
    <3>1. CASE n # 0
      <4>1. mine(n - 1)[n - 1] = mine(n)[n - 1]
        <5>. HIDE DEF Solves
        <5>. QED  BY <1>4, <2>3, <3>1
      <4>. QED  BY <2>2, <2>3, <3>1, <4>1
    <3>. QED  BY <3>1
  <2>5. mine(n)[n] = Level(mine(n), n)
    BY <2>3
  <2>. QED  BY <1>1, <2>2, <2>4, <2>5
<1>6. f = [n \in Nat |-> Level(f, n)]
  <2>1. f = [n \in Nat |-> f[n]]
    OBVIOUS
  <2>. HIDE DEF f
  <2>. QED  BY <1>5, <2>1
<1>. DEFINE own == CHOOSE g : g = [n \in Nat |-> Level(g, n)]
<1>7. own = [n \in Nat |-> Level(own, n)]
  <2>. HIDE DEF f
  <2>. QED  BY <1>6
<1>8. Json(spans) = own
  BY DEF Json, Level
<1>. HIDE DEF own
<1>9. \A n \in Nat : Json(spans)[n] = Level(Json(spans), n)
  BY <1>7, <1>8
<1>. QED  BY <1>9 DEF Level

\* ... for redact_value_inner ...
LEMMA RedactLevels ==
    ASSUME NEW on, NEW pol
    PROVE  \A n \in Nat :
              RedactInner(on, pol)[n] =
                 [v \in Json(Span)[n] |->
                    RedactLevel(on, pol, Below(RedactInner(on, pol), n, << >>), v)]
<1>. DEFINE Level(g, n) == [v \in Json(Span)[n] |-> RedactLevel(on, pol, Below(g, n, << >>), v)]
            Solves(g, m) == \A j \in 0 .. m : g[j] = Level(g, j)
            T == {m \in Nat : \E g : Solves(g, m)}
            f == [n \in Nat |-> (CHOOSE g : Solves(g, n))[n]]
<1>1. ASSUME NEW g, NEW h, NEW j \in Nat, j = 0 \/ g[j - 1] = h[j - 1]
      PROVE  Level(g, j) = Level(h, j)
  BY <1>1 DEF Below
<1>. HIDE DEF Level
<1>2. 0 \in T
  <2>. DEFINE g == [j \in 0 .. 0 |-> Level(<< >>, 0)]
  <2>1. Level(g, 0) = Level(<< >>, 0)
    BY <1>1
  <2>2. g[0] = Level(<< >>, 0)
    OBVIOUS
  <2>. HIDE DEF g
  <2>3. Solves(g, 0)
    BY <2>1, <2>2
  <2>. QED  BY <2>3
<1>3. ASSUME NEW m \in Nat, m \in T PROVE m + 1 \in T
  <2>1. PICK g : Solves(g, m)
    BY <1>3
  <2>. DEFINE h == [j \in 0 .. m + 1 |-> IF j = m + 1 THEN Level(g, j) ELSE g[j]]
  <2>2. \A j \in 0 .. m : h[j] = g[j]
    OBVIOUS
  <2>3. h[m + 1] = Level(g, m + 1)
    OBVIOUS
  <2>. HIDE DEF h
  <2>4. ASSUME NEW j \in 0 .. m + 1 PROVE h[j] = Level(h, j)
    <3>1. Level(h, j) = Level(g, j)
      <4>1. j = 0 \/ h[j - 1] = g[j - 1]
        BY <2>2
      <4>. QED  BY <1>1, <4>1
    <3>2. h[j] = Level(g, j)
      <4>1. CASE j = m + 1
        BY <2>3, <4>1
      <4>2. CASE j # m + 1
        <5>1. j \in 0 .. m
          BY <4>2
        <5>. QED  BY <2>1, <2>2, <5>1
      <4>. QED  BY <4>1, <4>2
    <3>. QED  BY <3>1, <3>2
  <2>5. Solves(h, m + 1)
    BY <2>4
  <2>. QED  BY <2>5
<1>4. ASSUME NEW m \in Nat, NEW g, Solves(g, m), NEW k \in Nat, NEW h, Solves(h, k), m <= k
      PROVE  g[m] = h[m]
  <2>1. ASSUME NEW j \in 1 .. m, g[j - 1] = h[j - 1] PROVE g[j] = h[j]
    <3>1. j \in 0 .. m /\ j \in 0 .. k /\ j \in Nat
      BY <1>4
    <3>. QED  BY <1>1, <1>4, <2>1, <3>1
  <2>2. g[0] = h[0]
    <3>1. 0 \in 0 .. m /\ 0 \in 0 .. k /\ 0 \in Nat
      OBVIOUS
    <3>. QED  BY <1>1, <1>4, <3>1
  <2>. QED  BY ONLY m \in Nat, <2>1, <2>2, RunsAgree
<1>5. ASSUME NEW n \in Nat PROVE f[n] = Level(f, n)
  <2>1. \A m \in Nat : Solves(CHOOSE g : Solves(g, m), m)
    <3>1. Nat \subseteq T
      <4>. HIDE DEF T
      <4>. QED  BY <1>2, <1>3, InductionOverNat
    <3>. HIDE DEF Solves
    <3>. QED  BY <3>1
  <2>. DEFINE mine(m) == CHOOSE g : Solves(g, m)
  <2>2. \A m \in Nat : f[m] = mine(m)[m]
    OBVIOUS
  <2>3. Solves(mine(n), n) /\ (n # 0 => n - 1 \in Nat /\ Solves(mine(n - 1), n - 1))
    <3>. HIDE DEF Solves
    <3>. QED  BY <2>1
  <2>. HIDE DEF mine, f
  <2>4. n = 0 \/ f[n - 1] = mine(n)[n - 1]
    <3>1. CASE n # 0
      <4>1. mine(n - 1)[n - 1] = mine(n)[n - 1]
        <5>. HIDE DEF Solves
        <5>. QED  BY <1>4, <2>3, <3>1
      <4>. QED  BY <2>2, <2>3, <3>1, <4>1
    <3>. QED  BY <3>1
  <2>5. mine(n)[n] = Level(mine(n), n)
    BY <2>3
  <2>. QED  BY <1>1, <2>2, <2>4, <2>5
<1>6. f = [n \in Nat |-> Level(f, n)]
  <2>1. f = [n \in Nat |-> f[n]]
    OBVIOUS
  <2>. HIDE DEF f
  <2>. QED  BY <1>5, <2>1
<1>. DEFINE own == CHOOSE g : g = [n \in Nat |-> Level(g, n)]
<1>7. own = [n \in Nat |-> Level(own, n)]
  <2>. HIDE DEF f
  <2>. QED  BY <1>6
<1>8. RedactInner(on, pol) = own
  BY DEF RedactInner, Level
<1>. HIDE DEF own
<1>9. \A n \in Nat : RedactInner(on, pol)[n] = Level(RedactInner(on, pol), n)
  BY <1>7, <1>8
<1>. QED  BY <1>9 DEF Level

\* ... for scan_value_inner ...
LEMMA ScanLevels ==
    ASSUME NEW on
    PROVE  \A n \in Nat :
              ScanInner(on)[n] =
                 [v \in Json(Span)[n] |-> ScanLevel(on, Below(ScanInner(on), n, << >>), v)]
<1>. DEFINE Level(g, n) == [v \in Json(Span)[n] |-> ScanLevel(on, Below(g, n, << >>), v)]
            Solves(g, m) == \A j \in 0 .. m : g[j] = Level(g, j)
            T == {m \in Nat : \E g : Solves(g, m)}
            f == [n \in Nat |-> (CHOOSE g : Solves(g, n))[n]]
<1>1. ASSUME NEW g, NEW h, NEW j \in Nat, j = 0 \/ g[j - 1] = h[j - 1]
      PROVE  Level(g, j) = Level(h, j)
  BY <1>1 DEF Below
<1>. HIDE DEF Level
<1>2. 0 \in T
  <2>. DEFINE g == [j \in 0 .. 0 |-> Level(<< >>, 0)]
  <2>1. Level(g, 0) = Level(<< >>, 0)
    BY <1>1
  <2>2. g[0] = Level(<< >>, 0)
    OBVIOUS
  <2>. HIDE DEF g
  <2>3. Solves(g, 0)
    BY <2>1, <2>2
  <2>. QED  BY <2>3
<1>3. ASSUME NEW m \in Nat, m \in T PROVE m + 1 \in T
  <2>1. PICK g : Solves(g, m)
    BY <1>3
  <2>. DEFINE h == [j \in 0 .. m + 1 |-> IF j = m + 1 THEN Level(g, j) ELSE g[j]]
  <2>2. \A j \in 0 .. m : h[j] = g[j]
    OBVIOUS
  <2>3. h[m + 1] = Level(g, m + 1)
    OBVIOUS
  <2>. HIDE DEF h
  <2>4. ASSUME NEW j \in 0 .. m + 1 PROVE h[j] = Level(h, j)
    <3>1. Level(h, j) = Level(g, j)
      <4>1. j = 0 \/ h[j - 1] = g[j - 1]
        BY <2>2
      <4>. QED  BY <1>1, <4>1
    <3>2. h[j] = Level(g, j)
      <4>1. CASE j = m + 1
        BY <2>3, <4>1
      <4>2. CASE j # m + 1
        <5>1. j \in 0 .. m
          BY <4>2
        <5>. QED  BY <2>1, <2>2, <5>1
      <4>. QED  BY <4>1, <4>2
    <3>. QED  BY <3>1, <3>2
  <2>5. Solves(h, m + 1)
    BY <2>4
  <2>. QED  BY <2>5
<1>4. ASSUME NEW m \in Nat, NEW g, Solves(g, m), NEW k \in Nat, NEW h, Solves(h, k), m <= k
      PROVE  g[m] = h[m]
  <2>1. ASSUME NEW j \in 1 .. m, g[j - 1] = h[j - 1] PROVE g[j] = h[j]
    <3>1. j \in 0 .. m /\ j \in 0 .. k /\ j \in Nat
      BY <1>4
    <3>. QED  BY <1>1, <1>4, <2>1, <3>1
  <2>2. g[0] = h[0]
    <3>1. 0 \in 0 .. m /\ 0 \in 0 .. k /\ 0 \in Nat
      OBVIOUS
    <3>. QED  BY <1>1, <1>4, <3>1
  <2>. QED  BY ONLY m \in Nat, <2>1, <2>2, RunsAgree
<1>5. ASSUME NEW n \in Nat PROVE f[n] = Level(f, n)
  <2>1. \A m \in Nat : Solves(CHOOSE g : Solves(g, m), m)
    <3>1. Nat \subseteq T
      <4>. HIDE DEF T
      <4>. QED  BY <1>2, <1>3, InductionOverNat
    <3>. HIDE DEF Solves
    <3>. QED  BY <3>1
  <2>. DEFINE mine(m) == CHOOSE g : Solves(g, m)
  <2>2. \A m \in Nat : f[m] = mine(m)[m]
    OBVIOUS
  <2>3. Solves(mine(n), n) /\ (n # 0 => n - 1 \in Nat /\ Solves(mine(n - 1), n - 1))
    <3>. HIDE DEF Solves
    <3>. QED  BY <2>1
  <2>. HIDE DEF mine, f
  <2>4. n = 0 \/ f[n - 1] = mine(n)[n - 1]
    <3>1. CASE n # 0
      <4>1. mine(n - 1)[n - 1] = mine(n)[n - 1]
        <5>. HIDE DEF Solves
        <5>. QED  BY <1>4, <2>3, <3>1
      <4>. QED  BY <2>2, <2>3, <3>1, <4>1
    <3>. QED  BY <3>1
  <2>5. mine(n)[n] = Level(mine(n), n)
    BY <2>3
  <2>. QED  BY <1>1, <2>2, <2>4, <2>5
<1>6. f = [n \in Nat |-> Level(f, n)]
  <2>1. f = [n \in Nat |-> f[n]]
    OBVIOUS
  <2>. HIDE DEF f
  <2>. QED  BY <1>5, <2>1
<1>. DEFINE own == CHOOSE g : g = [n \in Nat |-> Level(g, n)]
<1>7. own = [n \in Nat |-> Level(own, n)]
  <2>. HIDE DEF f
  <2>. QED  BY <1>6
<1>8. ScanInner(on) = own
  BY DEF ScanInner, Level
<1>. HIDE DEF own
<1>9. \A n \in Nat : ScanInner(on)[n] = Level(ScanInner(on), n)
  BY <1>7, <1>8
<1>. QED  BY <1>9 DEF Level

\* ... and for what the two are compared with: the value with its secrets hidden ...
LEMMA HiddenLevels ==
    ASSUME NEW on, NEW pol
    PROVE  \A n \in Nat :
              Hidden(on, pol)[n] =
                 [v \in Json(ApartSpan)[n] |->
                    HiddenLevel(on, pol, Below(Hidden(on, pol), n, << >>), v)]
<1>. DEFINE Level(g, n) == [v \in Json(ApartSpan)[n] |-> HiddenLevel(on, pol, Below(g, n, << >>), v)]
            Solves(g, m) == \A j \in 0 .. m : g[j] = Level(g, j)
            T == {m \in Nat : \E g : Solves(g, m)}
            f == [n \in Nat |-> (CHOOSE g : Solves(g, n))[n]]
<1>1. ASSUME NEW g, NEW h, NEW j \in Nat, j = 0 \/ g[j - 1] = h[j - 1]
      PROVE  Level(g, j) = Level(h, j)
  BY <1>1 DEF Below
<1>. HIDE DEF Level
<1>2. 0 \in T
  <2>. DEFINE g == [j \in 0 .. 0 |-> Level(<< >>, 0)]
  <2>1. Level(g, 0) = Level(<< >>, 0)
    BY <1>1
  <2>2. g[0] = Level(<< >>, 0)
    OBVIOUS
  <2>. HIDE DEF g
  <2>3. Solves(g, 0)
    BY <2>1, <2>2
  <2>. QED  BY <2>3
<1>3. ASSUME NEW m \in Nat, m \in T PROVE m + 1 \in T
  <2>1. PICK g : Solves(g, m)
    BY <1>3
  <2>. DEFINE h == [j \in 0 .. m + 1 |-> IF j = m + 1 THEN Level(g, j) ELSE g[j]]
  <2>2. \A j \in 0 .. m : h[j] = g[j]
    OBVIOUS
  <2>3. h[m + 1] = Level(g, m + 1)
    OBVIOUS
  <2>. HIDE DEF h
  <2>4. ASSUME NEW j \in 0 .. m + 1 PROVE h[j] = Level(h, j)
    <3>1. Level(h, j) = Level(g, j)
      <4>1. j = 0 \/ h[j - 1] = g[j - 1]
        BY <2>2
      <4>. QED  BY <1>1, <4>1
    <3>2. h[j] = Level(g, j)
      <4>1. CASE j = m + 1
        BY <2>3, <4>1
      <4>2. CASE j # m + 1
        <5>1. j \in 0 .. m
          BY <4>2
        <5>. QED  BY <2>1, <2>2, <5>1
      <4>. QED  BY <4>1, <4>2
    <3>. QED  BY <3>1, <3>2
  <2>5. Solves(h, m + 1)
    BY <2>4
  <2>. QED  BY <2>5
<1>4. ASSUME NEW m \in Nat, NEW g, Solves(g, m), NEW k \in Nat, NEW h, Solves(h, k), m <= k
      PROVE  g[m] = h[m]
  <2>1. ASSUME NEW j \in 1 .. m, g[j - 1] = h[j - 1] PROVE g[j] = h[j]
    <3>1. j \in 0 .. m /\ j \in 0 .. k /\ j \in Nat
      BY <1>4
    <3>. QED  BY <1>1, <1>4, <2>1, <3>1
  <2>2. g[0] = h[0]
    <3>1. 0 \in 0 .. m /\ 0 \in 0 .. k /\ 0 \in Nat
      OBVIOUS
    <3>. QED  BY <1>1, <1>4, <3>1
  <2>. QED  BY ONLY m \in Nat, <2>1, <2>2, RunsAgree
<1>5. ASSUME NEW n \in Nat PROVE f[n] = Level(f, n)
  <2>1. \A m \in Nat : Solves(CHOOSE g : Solves(g, m), m)
    <3>1. Nat \subseteq T
      <4>. HIDE DEF T
      <4>. QED  BY <1>2, <1>3, InductionOverNat
    <3>. HIDE DEF Solves
    <3>. QED  BY <3>1
  <2>. DEFINE mine(m) == CHOOSE g : Solves(g, m)
  <2>2. \A m \in Nat : f[m] = mine(m)[m]
    OBVIOUS
  <2>3. Solves(mine(n), n) /\ (n # 0 => n - 1 \in Nat /\ Solves(mine(n - 1), n - 1))
    <3>. HIDE DEF Solves
    <3>. QED  BY <2>1
  <2>. HIDE DEF mine, f
  <2>4. n = 0 \/ f[n - 1] = mine(n)[n - 1]
    <3>1. CASE n # 0
      <4>1. mine(n - 1)[n - 1] = mine(n)[n - 1]
        <5>. HIDE DEF Solves
        <5>. QED  BY <1>4, <2>3, <3>1
      <4>. QED  BY <2>2, <2>3, <3>1, <4>1
    <3>. QED  BY <3>1
  <2>5. mine(n)[n] = Level(mine(n), n)
    BY <2>3
  <2>. QED  BY <1>1, <2>2, <2>4, <2>5
<1>6. f = [n \in Nat |-> Level(f, n)]
  <2>1. f = [n \in Nat |-> f[n]]
    OBVIOUS
  <2>. HIDE DEF f
  <2>. QED  BY <1>5, <2>1
<1>. DEFINE own == CHOOSE g : g = [n \in Nat |-> Level(g, n)]
<1>7. own = [n \in Nat |-> Level(own, n)]
  <2>. HIDE DEF f
  <2>. QED  BY <1>6
<1>8. Hidden(on, pol) = own
  BY DEF Hidden, Level
<1>. HIDE DEF own
<1>9. \A n \in Nat : Hidden(on, pol)[n] = Level(Hidden(on, pol), n)
  BY <1>7, <1>8
<1>. QED  BY <1>9 DEF Level

\* ... and its secrets counted.
LEMMA SecretsLevels ==
    ASSUME NEW on
    PROVE  \A n \in Nat :
              Secrets(on)[n] =
                 [v \in Json(ApartSpan)[n] |-> SecretsLevel(on, Below(Secrets(on), n, << >>), v)]
<1>. DEFINE Level(g, n) == [v \in Json(ApartSpan)[n] |-> SecretsLevel(on, Below(g, n, << >>), v)]
            Solves(g, m) == \A j \in 0 .. m : g[j] = Level(g, j)
            T == {m \in Nat : \E g : Solves(g, m)}
            f == [n \in Nat |-> (CHOOSE g : Solves(g, n))[n]]
<1>1. ASSUME NEW g, NEW h, NEW j \in Nat, j = 0 \/ g[j - 1] = h[j - 1]
      PROVE  Level(g, j) = Level(h, j)
  BY <1>1 DEF Below
<1>. HIDE DEF Level
<1>2. 0 \in T
  <2>. DEFINE g == [j \in 0 .. 0 |-> Level(<< >>, 0)]
  <2>1. Level(g, 0) = Level(<< >>, 0)
    BY <1>1
  <2>2. g[0] = Level(<< >>, 0)
    OBVIOUS
  <2>. HIDE DEF g
  <2>3. Solves(g, 0)
    BY <2>1, <2>2
  <2>. QED  BY <2>3
<1>3. ASSUME NEW m \in Nat, m \in T PROVE m + 1 \in T
  <2>1. PICK g : Solves(g, m)
    BY <1>3
  <2>. DEFINE h == [j \in 0 .. m + 1 |-> IF j = m + 1 THEN Level(g, j) ELSE g[j]]
  <2>2. \A j \in 0 .. m : h[j] = g[j]
    OBVIOUS
  <2>3. h[m + 1] = Level(g, m + 1)
    OBVIOUS
  <2>. HIDE DEF h
  <2>4. ASSUME NEW j \in 0 .. m + 1 PROVE h[j] = Level(h, j)
    <3>1. Level(h, j) = Level(g, j)
      <4>1. j = 0 \/ h[j - 1] = g[j - 1]
        BY <2>2
      <4>. QED  BY <1>1, <4>1
    <3>2. h[j] = Level(g, j)
      <4>1. CASE j = m + 1
        BY <2>3, <4>1
      <4>2. CASE j # m + 1
        <5>1. j \in 0 .. m
          BY <4>2
        <5>. QED  BY <2>1, <2>2, <5>1
      <4>. QED  BY <4>1, <4>2
    <3>. QED  BY <3>1, <3>2
  <2>5. Solves(h, m + 1)
    BY <2>4
  <2>. QED  BY <2>5
<1>4. ASSUME NEW m \in Nat, NEW g, Solves(g, m), NEW k \in Nat, NEW h, Solves(h, k), m <= k
      PROVE  g[m] = h[m]
  <2>1. ASSUME NEW j \in 1 .. m, g[j - 1] = h[j - 1] PROVE g[j] = h[j]
    <3>1. j \in 0 .. m /\ j \in 0 .. k /\ j \in Nat
      BY <1>4
    <3>. QED  BY <1>1, <1>4, <2>1, <3>1
  <2>2. g[0] = h[0]
    <3>1. 0 \in 0 .. m /\ 0 \in 0 .. k /\ 0 \in Nat
      OBVIOUS
    <3>. QED  BY <1>1, <1>4, <3>1
  <2>. QED  BY ONLY m \in Nat, <2>1, <2>2, RunsAgree
<1>5. ASSUME NEW n \in Nat PROVE f[n] = Level(f, n)
  <2>1. \A m \in Nat : Solves(CHOOSE g : Solves(g, m), m)
    <3>1. Nat \subseteq T
      <4>. HIDE DEF T
      <4>. QED  BY <1>2, <1>3, InductionOverNat
    <3>. HIDE DEF Solves
    <3>. QED  BY <3>1
  <2>. DEFINE mine(m) == CHOOSE g : Solves(g, m)
  <2>2. \A m \in Nat : f[m] = mine(m)[m]
    OBVIOUS
  <2>3. Solves(mine(n), n) /\ (n # 0 => n - 1 \in Nat /\ Solves(mine(n - 1), n - 1))
    <3>. HIDE DEF Solves
    <3>. QED  BY <2>1
  <2>. HIDE DEF mine, f
  <2>4. n = 0 \/ f[n - 1] = mine(n)[n - 1]
    <3>1. CASE n # 0
      <4>1. mine(n - 1)[n - 1] = mine(n)[n - 1]
        <5>. HIDE DEF Solves
        <5>. QED  BY <1>4, <2>3, <3>1
      <4>. QED  BY <2>2, <2>3, <3>1, <4>1
    <3>. QED  BY <3>1
  <2>5. mine(n)[n] = Level(mine(n), n)
    BY <2>3
  <2>. QED  BY <1>1, <2>2, <2>4, <2>5
<1>6. f = [n \in Nat |-> Level(f, n)]
  <2>1. f = [n \in Nat |-> f[n]]
    OBVIOUS
  <2>. HIDE DEF f
  <2>. QED  BY <1>5, <2>1
<1>. DEFINE own == CHOOSE g : g = [n \in Nat |-> Level(g, n)]
<1>7. own = [n \in Nat |-> Level(own, n)]
  <2>. HIDE DEF f
  <2>. QED  BY <1>6
<1>8. Secrets(on) = own
  BY DEF Secrets, Level
<1>. HIDE DEF own
<1>9. \A n \in Nat : Secrets(on)[n] = Level(Secrets(on), n)
  BY <1>7, <1>8
<1>. QED  BY <1>9 DEF Level

-----------------------------------------------------------------------------
(* The fields of an object.                                                 *)
\* The fields of an object over some values.
Field(inner) == [name : STRING, value : inner]

\* The four shapes of a value.
IsOther(v) == v = Other /\ v.type = "other"

IsText(v, spans) == v.type = "string" /\ v.text \in Seq(spans) /\ v = Str(v.text)

IsArray(v, inner) == v.type = "array" /\ v.items \in Seq(inner) /\ v = Arr(v.items)

IsObject(v, inner) == v.type = "object" /\ v.fields \in Seq(Field(inner)) /\ v = Obj(v.fields)

\* What a JSON value is, and what is one.
LEMMA JsonCases ==
    ASSUME NEW spans, NEW inner, NEW v \in JsonLevel(spans, inner)
    PROVE  IsOther(v) \/ IsText(v, spans) \/ IsArray(v, inner) \/ IsObject(v, inner)
<1>1. \/ v \in [type : {"other"}]
      \/ v \in [type : {"string"}, text : Seq(spans)]
      \/ v \in [type : {"array"}, items : Seq(inner)]
      \/ v \in [type : {"object"}, fields : Seq(Field(inner))]
  BY DEF JsonLevel, Field
<1>2. CASE v \in [type : {"other"}]
  BY <1>2 DEF IsOther, Other
<1>3. CASE v \in [type : {"string"}, text : Seq(spans)]
  BY <1>3 DEF IsText, Str
<1>4. CASE v \in [type : {"array"}, items : Seq(inner)]
  BY <1>4 DEF IsArray, Arr
<1>5. CASE v \in [type : {"object"}, fields : Seq(Field(inner))]
  BY <1>5 DEF IsObject, Obj
<1>. QED  BY <1>1, <1>2, <1>3, <1>4, <1>5

\* Each shape is a value.
LEMMA JsonBuilds ==
    ASSUME NEW spans, NEW inner
    PROVE  /\ Other \in JsonLevel(spans, inner)
           /\ \A text \in Seq(spans) : Str(text) \in JsonLevel(spans, inner)
           /\ \A items \in Seq(inner) : Arr(items) \in JsonLevel(spans, inner)
           /\ \A fields \in Seq(Field(inner)) : Obj(fields) \in JsonLevel(spans, inner)
  BY DEF JsonLevel, Field, Other, Str, Arr, Obj

\* The parts of a value are what it was made of.
LEMMA JsonShapes ==
    /\ \A text : Str(text).type = "string" /\ Str(text).text = text
    /\ \A items : Arr(items).type = "array" /\ Arr(items).items = items
    /\ \A fields : Obj(fields).type = "object" /\ Obj(fields).fields = fields
    /\ Other.type = "other"
  BY DEF Str, Arr, Obj, Other

\* A field rule gives one of three kinds, or none.
LEMMA FieldKinds ==
    ASSUME NEW name
    PROVE  KindForField(name) \in {"none", "cookie", "bearer_token", "api_key"}
  BY DEF KindForField

\* The marker of a denied field is a text of one span.
MarkerSpan(pol, kind, v) ==
    [place |-> "plain", glued |-> FALSE, val |-> Replacement(pol, kind, Material(v))]

LEMMA MarkerFacts ==
    ASSUME NEW pol \in Policy, NEW kind \in Kind, NEW v
    PROVE  /\ Marker(pol, kind, v) = Str(<<MarkerSpan(pol, kind, v)>>)
           /\ <<MarkerSpan(pol, kind, v)>> \in Seq(Span)
<1>1. MarkerSpan(pol, kind, v) \in Span
  <2>. DEFINE Vals == [form : {"raw", "mask", "hash", "drop", "broken"},
                       kind : Kind \cup {"none"}, iban : BOOLEAN]
              mark == Replacement(pol, kind, Material(v))
  <2>1. mark \in Vals
    BY DEF Replacement, Policy
  <2>. HIDE DEF Vals, mark
  <2>2. [place |-> "plain", glued |-> FALSE, val |-> mark]
           \in [place : Place, glued : BOOLEAN, val : Vals]
    BY <2>1 DEF Place
  <2>. QED  BY <2>2 DEF Vals, mark, Span, MarkerSpan
<1>. QED  BY <1>1 DEF Marker, MarkerSpan

\* An object under way, with the report so far.
Out(J) == [value : Seq(Field(J)), stats : Counts]

\* An inner walk that gives h and c of a value of I: hidden, a value of J.
Walks(pol, I, J, inner, h, c) ==
    \A w \in I : /\ inner[w] = [value |-> h[w], stats |-> c[w]]
                 /\ h[w] \in J /\ c[w] \in Counts
                 /\ \A kind \in Kind : Marker(pol, kind, w) \in J

\* A field is kept, marked or left out, as HiddenField has it, and counted as a
\* scan counts it.
FieldWalked(on, pol, J, inner, h, c, f) ==
    /\ HiddenField(on, pol, h, f) \in Seq(Field(J))
    /\ ScanField(on, c, f) \in Counts
    /\ \A out \in Out(J) :
          /\ RedactField(on, pol, inner, out, f) =
               [value |-> out.value \o HiddenField(on, pol, h, f),
                stats |-> Plus(out.stats, ScanField(on, c, f))]
          /\ RedactField(on, pol, inner, out, f) \in Out(J)

\* One turn of the loop of redact_object does that.
LEMMA FieldFacts ==
    ASSUME NEW on \in SUBSET Kind, NEW pol, NEW I, NEW J, NEW inner, NEW h, NEW c,
           Walks(pol, I, J, inner, h, c), NEW f \in Field(I)
    PROVE  FieldWalked(on, pol, J, inner, h, c, f)
<1>. DEFINE kind == KindForField(f.name)
            left == HiddenField(on, pol, h, f)
            counts == ScanField(on, c, f)
            marked == [name |-> f.name, value |-> Marker(pol, kind, f.value)]
            kept == [name |-> f.name, value |-> h[f.value]]
<1>1. f.value \in I /\ f.name \in STRING
  BY DEF Field
<1>2. /\ inner[f.value].value = h[f.value] /\ inner[f.value].stats = c[f.value]
      /\ h[f.value] \in J /\ c[f.value] \in Counts
      /\ \A k \in Kind : Marker(pol, k, f.value) \in J
  <2>1. ASSUME NEW w \in I
        PROVE  /\ inner[w].value = h[w] /\ inner[w].stats = c[w] /\ h[w] \in J /\ c[w] \in Counts
               /\ \A k \in Kind : Marker(pol, k, w) \in J
    <3>1. /\ inner[w] = [value |-> h[w], stats |-> c[w]] /\ h[w] \in J /\ c[w] \in Counts
          /\ \A k \in Kind : Marker(pol, k, w) \in J
      BY DEF Walks
    <3>. QED  BY <3>1
  <2>. QED  BY <1>1, <2>1
<1>3. ASSUME NEW out \in Out(J)
      PROVE  out.value \in Seq(Field(J)) /\ out.stats \in Counts
             /\ \A x \in Field(J) : Append(out.value, x) = out.value \o <<x>>
                                    /\ out.value \o <<x>> \in Seq(Field(J))
             /\ out.value \o << >> = out.value
  <2>1. out.value \in Seq(Field(J)) /\ out.stats \in Counts
    BY DEF Out
  <2>2. \A s \in Seq(Field(J)) : /\ s \o << >> = s
                                 /\ \A x \in Field(J) : Append(s, x) = s \o <<x>>
                                                        /\ s \o <<x>> \in Seq(Field(J))
    <3>. DEFINE S == Field(J)
    <3>. HIDE DEF S
    <3>1. \A s \in Seq(S) : /\ s \o << >> = s
                            /\ \A x \in S : Append(s, x) = s \o <<x>> /\ s \o <<x>> \in Seq(S)
      OBVIOUS
    <3>. QED  BY <3>1 DEF S
  <2>. QED  BY <2>1, <2>2
<1>4. \A x \in Field(J) : <<x>> \in Seq(Field(J))
  OBVIOUS
<1>5. << >> \in Seq(Field(J))
  OBVIOUS
<1>6. \A a \in Seq(Field(J)), d \in Counts : [value |-> a, stats |-> d] \in Out(J)
  BY DEF Out
<1>7. CASE kind \in on
  <2>1. kind \in Kind /\ counts = Counted(kind, 1) /\ counts \in Counts
    <3>1. kind \in Kind /\ counts = Counted(kind, 1)
      BY <1>7 DEF ScanField
    <3>. HIDE DEF counts
    <3>. QED  BY <3>1, PlusFacts
  <2>2. marked \in Field(J)
    <3>1. Marker(pol, kind, f.value) \in J
      BY <1>2, <2>1
    <3>. HIDE DEF kind
    <3>. QED  BY <1>1, <3>1 DEF Field
  <2>3. left = IF pol.mode = "drop" THEN << >> ELSE <<marked>>
    BY <1>7 DEF HiddenField
  <2>4. left \in Seq(Field(J))
    <3>. HIDE DEF left, marked
    <3>. QED  BY <1>4, <1>5, <2>2, <2>3
  <2>5. ASSUME NEW out \in Out(J)
        PROVE  /\ RedactField(on, pol, inner, out, f) =
                    [value |-> out.value \o left, stats |-> Plus(out.stats, counts)]
               /\ RedactField(on, pol, inner, out, f) \in Out(J)
    <3>1. RedactField(on, pol, inner, out, f) =
            [value |-> IF pol.mode = "drop" THEN out.value ELSE Append(out.value, marked),
             stats |-> Plus(out.stats, Counted(kind, 1))]
      BY <1>7 DEF RedactField
    <3>. HIDE DEF left, counts, marked, kind
    <3>2. (IF pol.mode = "drop" THEN out.value ELSE Append(out.value, marked)) = out.value \o left
          /\ out.value \o left \in Seq(Field(J))
      BY <1>3, <2>2, <2>3
    <3>3. Plus(out.stats, counts) \in Counts
      BY <1>3, <2>1, PlusFacts
    <3>. QED  BY <1>6, <2>1, <3>1, <3>2, <3>3
  <2>. HIDE DEF left, counts
  <2>6. left \in Seq(Field(J)) /\ counts \in Counts
    BY <2>1, <2>4
  <2>. QED  BY <2>5, <2>6 DEF FieldWalked, left, counts
<1>8. CASE kind \notin on
  <2>1. counts = c[f.value] /\ counts \in Counts
    BY <1>2, <1>8 DEF ScanField
  <2>2. kept \in Field(J)
    BY <1>1, <1>2 DEF Field
  <2>3. left = <<kept>>
    BY <1>8 DEF HiddenField
  <2>4. left \in Seq(Field(J))
    <3>. HIDE DEF left, kept
    <3>. QED  BY <1>4, <2>2, <2>3
  <2>5. ASSUME NEW out \in Out(J)
        PROVE  /\ RedactField(on, pol, inner, out, f) =
                    [value |-> out.value \o left, stats |-> Plus(out.stats, counts)]
               /\ RedactField(on, pol, inner, out, f) \in Out(J)
    <3>1. RedactField(on, pol, inner, out, f) =
            [value |-> Append(out.value, kept), stats |-> Plus(out.stats, c[f.value])]
      BY <1>2, <1>8 DEF RedactField
    <3>. HIDE DEF left, counts, kept, kind
    <3>2. Append(out.value, kept) = out.value \o left /\ out.value \o left \in Seq(Field(J))
      BY <1>3, <2>2, <2>3
    <3>3. Plus(out.stats, counts) \in Counts
      BY <1>3, <2>1, PlusFacts
    <3>. QED  BY <1>6, <2>1, <3>1, <3>2, <3>3
  <2>. HIDE DEF left, counts
  <2>6. left \in Seq(Field(J)) /\ counts \in Counts
    BY <2>1, <2>4
  <2>. QED  BY <2>5, <2>6 DEF FieldWalked, left, counts
<1>. QED  BY <1>7, <1>8

\* The loop of redact_object.
Redacted(on, pol, inner, fields) ==
    FoldLeft(LAMBDA out, f : RedactField(on, pol, inner, out, f),
             [value |-> << >>, stats |-> NoCounts], fields)

\* Each of its turns adds to an object under way ...
FieldsKept(on, pol, inner, J, I) ==
    \A f \in Field(I), out \in Out(J) : RedactField(on, pol, inner, out, f) \in Out(J)

\* ... and so there is a run of them.
FieldsReach(run, on, pol, inner, J, fields) ==
    /\ run \in [0 .. Len(fields) -> Out(J)]
    /\ run[0] = [value |-> << >>, stats |-> NoCounts]
    /\ \A j \in 1 .. Len(fields) : run[j] = RedactField(on, pol, inner, run[j - 1], fields[j])
    /\ Redacted(on, pol, inner, fields) = run[Len(fields)]

\* The loop over the fields is a running object.
LEMMA FieldsRun ==
    ASSUME NEW on, NEW pol, NEW inner, NEW J, NEW I, NEW fields \in Seq(Field(I)),
           FieldsKept(on, pol, inner, J, I)
    PROVE  \E run : FieldsReach(run, on, pol, inner, J, fields)
<1>. DEFINE D == 1 .. Len(fields)
            step == [p \in D \X (Out(J)) |-> RedactField(on, pol, inner, p[2], fields[p[1]])]
            Value(g, d) == IF d = {} THEN [value |-> << >>, stats |-> NoCounts]
                           ELSE LET x == Max(d)
                                IN  RedactField(on, pol, inner, g[d \ {x}], fields[x])
            iter == CHOOSE g : g = [d \in SUBSET D |-> Value(g, d)]
<1>0. DOMAIN fields = D
  BY LenProperties
<1>1. Redacted(on, pol, inner, fields) = iter[D]
  BY <1>0 DEF FoldLeft, MapThenFoldSet, Redacted
<1>2. /\ Len(fields) \in Nat /\ [value |-> << >>, stats |-> NoCounts] \in Out(J)
      /\ \A i \in D : fields[i] \in Field(I)
  BY LenProperties, ElementOfSeq, PlusFacts DEF Out
<1>3. step \in [D \X (Out(J)) -> Out(J)]
  BY <1>2 DEF FieldsKept
<1>4. PICK g \in [SUBSET D -> Out(J)] :
        IsMaxFold(g, Len(fields), [value |-> << >>, stats |-> NoCounts], step)
  <2>. HIDE DEF step
  <2>. QED  BY <1>2, <1>3, MaxFoldExists
<1>5. ASSUME NEW d \in SUBSET D PROVE g[d] = Value(g, d)
  <2>1. d # {} => Max(d) \in D /\ d \ {Max(d)} \in SUBSET D
    BY <1>4 DEF IsMaxFold
  <2>. QED  BY <1>4, <2>1 DEF IsMaxFold
<1>6. iter = [d \in SUBSET D |-> Value(iter, d)]
  <2>. HIDE DEF Value, D
  <2>1. g = [d \in SUBSET D |-> Value(g, d)]
    BY <1>5
  <2>. QED  BY <2>1
<1>. HIDE DEF iter
<1>7. ASSUME NEW d \in SUBSET D PROVE iter[d] = Value(iter, d)
  <2>. HIDE DEF Value, D
  <2>. QED  BY <1>6
<1>8. ASSUME NEW d \in SUBSET D, d # {}, iter[d \ {Max(d)}] \in Out(J)
      PROVE  iter[d] = step[<<Max(d), iter[d \ {Max(d)}]>>]
  <2>1. Max(d) \in D
    BY <1>4, <1>8 DEF IsMaxFold
  <2>. QED  BY <1>7, <1>8, <2>1
<1>9. iter[{}] = [value |-> << >>, stats |-> NoCounts]
  BY <1>7
<1>10. PICK f \in [0 .. Len(fields) -> Out(J)] :
         RunsTo(f, Len(fields), [value |-> << >>, stats |-> NoCounts], step, iter[D])
  <2>. HIDE DEF step
  <2>1. /\ iter[{}] = [value |-> << >>, stats |-> NoCounts] /\ Len(fields) \in Nat
        /\ [value |-> << >>, stats |-> NoCounts] \in Out(J)
        /\ step \in [(1 .. Len(fields)) \X (Out(J)) -> Out(J)]
        /\ \A d \in SUBSET (1 .. Len(fields)) : d # {} /\ iter[d \ {Max(d)}] \in Out(J) =>
              iter[d] = step[<<Max(d), iter[d \ {Max(d)}]>>]
    BY <1>2, <1>3, <1>8, <1>9
  <2>2. \E f \in [0 .. Len(fields) -> Out(J)] :
           RunsTo(f, Len(fields), [value |-> << >>, stats |-> NoCounts], step,
                  iter[1 .. Len(fields)])
    BY ONLY <2>1, MaxFoldRuns
  <2>. QED  BY <2>2
<1>11. ASSUME NEW j \in 1 .. Len(fields)
       PROVE  f[j] = RedactField(on, pol, inner, f[j - 1], fields[j])
  <2>1. j \in D /\ j - 1 \in 0 .. Len(fields)
    BY <1>2
  <2>. QED  BY <1>10, <2>1 DEF RunsTo, IsRun
<1>12. FieldsReach(f, on, pol, inner, J, fields)
  BY <1>1, <1>10, <1>11 DEF RunsTo, IsRun, FieldsReach
<1>. QED  BY <1>12

-----------------------------------------------------------------------------
(* Objects and arrays; a level of the walk.                                 *)
\* Flattened one after the other, pieces are a running sequence.
Flattened(F, S, n) ==
    /\ FlatTo(F, 0) = << >>
    /\ \A j \in 0 .. n : FlatTo(F, j) \in Seq(S)
    /\ \A j \in 0 .. n - 1 : FlatTo(F, j + 1) = FlatTo(F, j) \o F[j + 1]

LEMMA PiecesFlattened ==
    ASSUME NEW S, NEW n \in Nat, NEW F, \A i \in 1 .. n : F[i] \in Seq(S)
    PROVE  Flattened(F, S, n)
<1>1. FlatTo(F, 0) = << >>
  BY FlatFacts
<1>2. \A j \in 0 .. n : FlatTo(F, j) \in Seq(S)
  BY FlatFacts
<1>3. \A j \in 0 .. n - 1 : FlatTo(F, j + 1) = FlatTo(F, j) \o F[j + 1]
  BY FlatFacts
<1>. QED  BY <1>1, <1>2, <1>3 DEF Flattened

\* The fields that are left of an object, and what it counts.
FieldsLeft(on, pol, h, fields) ==
    FlattenSeq([i \in DOMAIN fields |-> HiddenField(on, pol, h, fields[i])])

FieldsCounted(on, c, fields) == Merged([i \in DOMAIN fields |-> ScanField(on, c, fields[i])])

\* What the loop comes to.
FieldsWalked(on, pol, J, inner, h, c, fields) ==
    /\ RedactObject(on, pol, inner, fields) =
         [value |-> Obj(FieldsLeft(on, pol, h, fields)), stats |-> FieldsCounted(on, c, fields)]
    /\ FieldsLeft(on, pol, h, fields) \in Seq(Field(J))
    /\ FieldsCounted(on, c, fields) \in Counts

\* Field by field, the loop leaves what HiddenField leaves of each, and counts
\* what a scan counts.
LEMMA FieldsFacts ==
    ASSUME NEW on \in SUBSET Kind, NEW pol, NEW I, NEW J, NEW inner, NEW h, NEW c,
           Walks(pol, I, J, inner, h, c), NEW fields \in Seq(Field(I))
    PROVE  FieldsWalked(on, pol, J, inner, h, c, fields)
<1>. DEFINE N == Len(fields)
            F == [i \in 1 .. N |-> HiddenField(on, pol, h, fields[i])]
            C == [i \in 1 .. N |-> ScanField(on, c, fields[i])]
<1>1. N \in Nat /\ DOMAIN fields = 1 .. N /\ \A i \in 1 .. N : fields[i] \in Field(I)
  BY LenProperties, ElementOfSeq
<1>2. \A f \in Field(I) : FieldWalked(on, pol, J, inner, h, c, f)
  BY FieldFacts
<1>3. PICK run : FieldsReach(run, on, pol, inner, J, fields)
  <2>1. FieldsKept(on, pol, inner, J, I)
    BY <1>2 DEF FieldWalked, FieldsKept
  <2>. QED  BY <2>1, FieldsRun
<1>4. \A i \in 1 .. N : /\ F[i] = HiddenField(on, pol, h, fields[i]) /\ F[i] \in Seq(Field(J))
                        /\ C[i] = ScanField(on, c, fields[i]) /\ C[i] \in Counts
                        /\ \A out \in Out(J) :
                              RedactField(on, pol, inner, out, fields[i]) =
                                [value |-> out.value \o F[i], stats |-> Plus(out.stats, C[i])]
  <2>1. ASSUME NEW i \in 1 .. N
        PROVE  /\ F[i] = HiddenField(on, pol, h, fields[i])
               /\ C[i] = ScanField(on, c, fields[i])
               /\ FieldWalked(on, pol, J, inner, h, c, fields[i])
    BY <1>1, <1>2
  <2>. HIDE DEF F, C, N
  <2>. QED  BY <2>1 DEF FieldWalked
<1>5. C \in Seq(Counts) /\ Len(C) = N
  <2>1. C = [i \in 1 .. N |-> C[i]]
    OBVIOUS
  <2>. HIDE DEF C, N
  <2>. QED  BY <1>1, <1>4, <2>1
<1>. HIDE DEF F, C
<1>6. PICK g \in [0 .. Len(C) -> Counts] :
        /\ g[0] = NoCounts /\ \A j \in 1 .. Len(C) : g[j] = Plus(g[j - 1], C[j])
        /\ Merged(C) = g[Len(C)]
  BY <1>5, MergedRuns
<1>7. /\ FlatTo(F, 0) = << >>
      /\ \A n \in 0 .. N : FlatTo(F, n) \in Seq(Field(J))
      /\ \A n \in 0 .. N - 1 : FlatTo(F, n + 1) = FlatTo(F, n) \o F[n + 1]
  <2>. DEFINE G == Field(J)
  <2>1. N \in Nat /\ \A i \in 1 .. N : F[i] \in Seq(G)
    BY <1>1, <1>4
  <2>. HIDE DEF N, G
  <2>2. Flattened(F, G, N)
    BY ONLY <2>1, PiecesFlattened
  <2>. QED  BY <2>2 DEF Flattened, G
<1>. DEFINE far == [n \in 0 .. N |-> [value |-> FlatTo(F, n), stats |-> g[n]]]
<1>8. run[N] = far[N]
  <2>1. ASSUME NEW j \in 1 .. N, run[j - 1] = far[j - 1] PROVE run[j] = far[j]
    <3>1. /\ j - 1 \in 0 .. N /\ j - 1 \in 0 .. N - 1 /\ j \in 0 .. N /\ (j - 1) + 1 = j
      BY <1>1
    <3>2. run[j - 1].value = FlatTo(F, j - 1) /\ run[j - 1].stats = g[j - 1]
      BY <2>1, <3>1
    <3>3. run[j] = RedactField(on, pol, inner, run[j - 1], fields[j]) /\ run[j - 1] \in Out(J)
      BY <1>3, <3>1 DEF FieldsReach
    <3>4. FlatTo(F, j) = FlatTo(F, j - 1) \o F[j] /\ g[j] = Plus(g[j - 1], C[j])
      BY <1>5, <1>6, <1>7, <3>1
    <3>5. run[j] = [value |-> FlatTo(F, j), stats |-> g[j]]
      BY <1>4, <3>2, <3>3, <3>4
    <3>. QED  BY <3>1, <3>5
  <2>2. run[0] = far[0]
    <3>1. 0 \in 0 .. N
      BY <1>1
    <3>2. far[0] = [value |-> << >>, stats |-> NoCounts]
      BY <1>6, <1>7, <3>1
    <3>. HIDE DEF far
    <3>. QED  BY <1>3, <3>2 DEF FieldsReach
  <2>. HIDE DEF far
  <2>. QED  BY ONLY <1>1, <2>1, <2>2, RunsAgree
<1>9. far[N] = [value |-> FieldsLeft(on, pol, h, fields), stats |-> FieldsCounted(on, c, fields)]
  <2>1. N \in 0 .. N
    BY <1>1
  <2>2. FlatTo(F, N) = FieldsLeft(on, pol, h, fields)
    <3>1. [i \in 1 .. N |-> F[i]] = [i \in DOMAIN fields |-> HiddenField(on, pol, h, fields[i])]
      BY <1>1, <1>4
    <3>. QED  BY <3>1 DEF FlatTo, FieldsLeft
  <2>3. g[N] = FieldsCounted(on, c, fields)
    <3>1. C = [i \in DOMAIN fields |-> ScanField(on, c, fields[i])]
      BY <1>1 DEF C
    <3>. QED  BY <1>5, <1>6, <3>1 DEF FieldsCounted
  <2>. QED  BY <2>1, <2>2, <2>3
<1>10. RedactObject(on, pol, inner, fields) =
         [value |-> Obj(run[N].value), stats |-> run[N].stats]
  <2>1. Redacted(on, pol, inner, fields) = run[N]
    BY <1>3 DEF FieldsReach
  <2>. QED  BY <2>1 DEF RedactObject, Redacted
<1>11. run[N] \in Out(J)
  <2>1. N \in 0 .. N
    BY <1>1
  <2>. QED  BY <1>3, <2>1 DEF FieldsReach
<1>12. /\ run[N].value = FieldsLeft(on, pol, h, fields)
       /\ run[N].stats = FieldsCounted(on, c, fields)
  <2>. HIDE DEF far
  <2>. QED  BY <1>8, <1>9
<1>. QED  BY <1>10, <1>11, <1>12 DEF FieldsWalked, Out

\* An array comes to its items, hidden, and to what they count together.
ItemsWalked(J, inner, h, c, items) ==
    /\ RedactArray(inner, items) =
         [value |-> Arr([i \in DOMAIN items |-> h[items[i]]]),
          stats |-> Merged([i \in DOMAIN items |-> c[items[i]]])]
    /\ [i \in DOMAIN items |-> h[items[i]]] \in Seq(J)
    /\ Merged([i \in DOMAIN items |-> c[items[i]]]) \in Counts

\* It does so whenever the walk below gives each item hidden, and counted.
LEMMA ItemsFacts ==
    ASSUME NEW pol, NEW I, NEW J, NEW inner, NEW h, NEW c,
           Walks(pol, I, J, inner, h, c), NEW items \in Seq(I)
    PROVE  ItemsWalked(J, inner, h, c, items)
<1>. DEFINE N == Len(items)
            hs == [i \in DOMAIN items |-> h[items[i]]]
            cs == [i \in DOMAIN items |-> c[items[i]]]
<1>1. N \in Nat /\ DOMAIN items = 1 .. N /\ \A i \in 1 .. N : items[i] \in I
  BY LenProperties, ElementOfSeq
<1>2. \A w \in I : /\ inner[w].value = h[w] /\ inner[w].stats = c[w]
                   /\ h[w] \in J /\ c[w] \in Counts
  <2>1. ASSUME NEW w \in I
        PROVE  /\ inner[w].value = h[w] /\ inner[w].stats = c[w] /\ h[w] \in J /\ c[w] \in Counts
    <3>1. /\ inner[w] = [value |-> h[w], stats |-> c[w]] /\ h[w] \in J /\ c[w] \in Counts
      BY DEF Walks
    <3>. QED  BY <3>1
  <2>. QED  BY <2>1
<1>3. hs \in Seq(J) /\ cs \in Seq(Counts)
  BY <1>1, <1>2
<1>4. /\ [i \in DOMAIN items |-> inner[items[i]].value] = hs
      /\ [i \in DOMAIN items |-> inner[items[i]].stats] = cs
  BY <1>1, <1>2
<1>. HIDE DEF hs, cs
<1>5. Merged(cs) \in Counts
  BY <1>3, MergedFacts
<1>6. RedactArray(inner, items) = [value |-> Arr(hs), stats |-> Merged(cs)]
  BY <1>4 DEF RedactArray
<1>. QED  BY <1>3, <1>5, <1>6 DEF ItemsWalked, hs, cs

\* A level of the walk, on what is no text: it hides as HiddenLevel does, and
\* counts as a scan.
LevelWalked(on, pol, J, inner, h, c, v) ==
    /\ RedactLevel(on, pol, inner, v) =
         [value |-> HiddenLevel(on, pol, h, v), stats |-> ScanLevel(on, c, v)]
    /\ HiddenLevel(on, pol, h, v) \in JsonLevel(Span, J)
    /\ ScanLevel(on, c, v) \in Counts

\* It does, if the walk below does.
LEMMA LevelFacts ==
    ASSUME NEW on \in SUBSET Kind, NEW pol, NEW I, NEW J, NEW inner, NEW h, NEW c,
           Walks(pol, I, J, inner, h, c), NEW spans, NEW v \in JsonLevel(spans, I),
           v.type # "string"
    PROVE  LevelWalked(on, pol, J, inner, h, c, v)
<1>1. IsOther(v) \/ IsArray(v, I) \/ IsObject(v, I)
  BY JsonCases DEF IsText
<1>2. CASE IsOther(v)
  <2>1. v.type = "other" /\ v = Other
    BY <1>2 DEF IsOther
  <2>2. /\ RedactLevel(on, pol, inner, v) = [value |-> v, stats |-> NoCounts]
        /\ HiddenLevel(on, pol, h, v) = v
        /\ ScanLevel(on, c, v) = NoCounts
    BY <2>1 DEF RedactLevel, HiddenLevel, ScanLevel
  <2>. QED  BY <2>1, <2>2, JsonBuilds, PlusFacts DEF LevelWalked
<1>3. CASE IsArray(v, I)
  <2>1. v.type = "array" /\ v.items \in Seq(I)
    BY <1>3 DEF IsArray
  <2>2. ItemsWalked(J, inner, h, c, v.items)
    BY <2>1, ItemsFacts
  <2>3. /\ RedactLevel(on, pol, inner, v) = RedactArray(inner, v.items)
        /\ HiddenLevel(on, pol, h, v) = Arr([i \in DOMAIN v.items |-> h[v.items[i]]])
        /\ ScanLevel(on, c, v) = Merged([i \in DOMAIN v.items |-> c[v.items[i]]])
    BY <2>1 DEF RedactLevel, HiddenLevel, ScanLevel
  <2>4. HiddenLevel(on, pol, h, v) \in JsonLevel(Span, J)
    <3>1. [i \in DOMAIN v.items |-> h[v.items[i]]] \in Seq(J)
      BY <2>2 DEF ItemsWalked
    <3>. QED  BY <2>3, <3>1, JsonBuilds
  <2>. QED  BY <2>2, <2>3, <2>4 DEF LevelWalked, ItemsWalked
<1>4. CASE IsObject(v, I)
  <2>1. v.type = "object" /\ v.fields \in Seq(Field(I))
    BY <1>4 DEF IsObject
  <2>2. FieldsWalked(on, pol, J, inner, h, c, v.fields)
    BY <2>1, FieldsFacts
  <2>3. /\ RedactLevel(on, pol, inner, v) = RedactObject(on, pol, inner, v.fields)
        /\ HiddenLevel(on, pol, h, v) = Obj(FieldsLeft(on, pol, h, v.fields))
        /\ ScanLevel(on, c, v) = FieldsCounted(on, c, v.fields)
    BY <2>1 DEF RedactLevel, HiddenLevel, ScanLevel, FieldsLeft, FieldsCounted
  <2>4. HiddenLevel(on, pol, h, v) \in JsonLevel(Span, J)
    BY <2>2, <2>3, JsonBuilds DEF FieldsWalked
  <2>. QED  BY <2>2, <2>3, <2>4 DEF LevelWalked, FieldsWalked
<1>. QED  BY <1>1, <1>2, <1>3, <1>4

-----------------------------------------------------------------------------
(* A level over texts of spans apart.                                                  *)
\* The passes make a text and a report of a text.
LEMMA TextTypes ==
    ASSUME NEW on, NEW pol \in Policy, NEW text \in Seq(Span)
    PROVE  RedactText(on, pol, text) \in Texts
<1>. DEFINE first == [text |-> text, stats |-> NoCounts]
<1>1. first \in Texts /\ RedactText(on, pol, text) = AfterPasses(on, pol, first, Passes)
  BY PlusFacts DEF Texts, RedactText, AfterPasses
<1>. HIDE DEF first
<1>2. PICK f : ReachedBy(f, on, pol, first, Passes)
  <2>1. Passes \in Seq(Kind)
    BY PassesFacts
  <2>. QED  BY ONLY <1>1, <2>1, pol \in Policy, PassesRun
<1>3. Len(Passes) \in 0 .. Len(Passes)
  BY PassesFacts
<1>. QED  BY <1>1, <1>2, <1>3 DEF ReachedBy

\* What an inner walk gives is typed, level by level.
Typed(J, inner) == \A w \in J : inner[w].value \in J /\ inner[w].stats \in Counts
                                /\ inner[w] = [value |-> inner[w].value, stats |-> inner[w].stats]

\* The marker of a denied field is one of these values, whatever the field held.
Marked(pol, J) == \A w \in J, kind \in Kind : Marker(pol, kind, w) \in J

\* The next level of the walk is typed too.
LEMMA LevelTypes ==
    ASSUME NEW on \in SUBSET Kind, NEW pol \in Policy, NEW J, NEW inner,
           Typed(J, inner), Marked(pol, J)
    PROVE  Typed(JsonLevel(Span, J), [v \in JsonLevel(Span, J) |-> RedactLevel(on, pol, inner, v)])
<1>. DEFINE h == [w \in J |-> inner[w].value]
            c == [w \in J |-> inner[w].stats]
<1>1. Walks(pol, J, J, inner, h, c)
  BY DEF Walks, Typed, Marked
<1>2. ASSUME NEW v \in JsonLevel(Span, J)
      PROVE  /\ RedactLevel(on, pol, inner, v).value \in JsonLevel(Span, J)
             /\ RedactLevel(on, pol, inner, v).stats \in Counts
             /\ RedactLevel(on, pol, inner, v) =
                  [value |-> RedactLevel(on, pol, inner, v).value,
                   stats |-> RedactLevel(on, pol, inner, v).stats]
  <2>. DEFINE r == RedactLevel(on, pol, inner, v)
  <2>1. \E a \in JsonLevel(Span, J), d \in Counts : r = [value |-> a, stats |-> d]
    <3>1. CASE v.type = "string"
      <4>1. v.text \in Seq(Span)
        BY <3>1, JsonCases DEF IsOther, IsText, IsArray, IsObject
      <4>2. RedactText(on, pol, v.text) \in Texts
        BY <4>1, TextTypes
      <4>3. r = [value |-> Str(RedactText(on, pol, v.text).text),
                 stats |-> RedactText(on, pol, v.text).stats]
        BY <3>1 DEF RedactLevel
      <4>4. RedactText(on, pol, v.text).text \in Seq(Span) /\ RedactText(on, pol, v.text).stats \in Counts
        BY <4>2 DEF Texts
      <4>. QED  BY <4>3, <4>4, JsonBuilds
    <3>2. CASE v.type # "string"
      <4>1. LevelWalked(on, pol, J, inner, h, c, v)
        <5>. HIDE DEF h, c
        <5>. QED  BY <1>1, <3>2, LevelFacts
      <4>. QED  BY <4>1 DEF LevelWalked
    <3>. QED  BY <3>1, <3>2
  <2>. HIDE DEF r
  <2>2. /\ r.value \in JsonLevel(Span, J) /\ r.stats \in Counts
        /\ r = [value |-> r.value, stats |-> r.stats]
    BY <2>1
  <2>. QED  BY <2>2 DEF r
<1>. QED  BY <1>2 DEF Typed

\* A level has every text, and so every marker.
LEMMA TextsLevel ==
    ASSUME NEW J, NEW pol \in Policy
    PROVE  \A w : \A kind \in Kind : Marker(pol, kind, w) \in JsonLevel(Span, J)
  BY MarkerFacts, JsonBuilds

\* A level of the walk on such texts: every secret hidden, and counted, once, as
\* redaction and as a scan.
RawLevelWalked(on, pol, J, inner, h, c, v) ==
    /\ RedactLevel(on, pol, inner, v) =
         [value |-> HiddenLevel(on, pol, h, v), stats |-> SecretsLevel(on, c, v)]
    /\ ScanLevel(on, c, v) = SecretsLevel(on, c, v)
    /\ HiddenLevel(on, pol, h, v) \in JsonLevel(Span, J)
    /\ SecretsLevel(on, c, v) \in Counts

\* What a level's parts count comes to what it counts, kind by kind.
LEMMA ScanCounts ==
    ASSUME NEW on \in SUBSET Kind, NEW I, NEW c, \A w \in I : c[w] \in Counts,
           NEW spans, NEW v \in JsonLevel(spans, I), v.type # "string"
    PROVE  ScanLevel(on, c, v) = SecretsLevel(on, c, v)
<1>1. IsOther(v) \/ IsArray(v, I) \/ IsObject(v, I)
  BY JsonCases DEF IsText
<1>2. CASE IsOther(v)
  <2>1. v.type = "other"
    BY <1>2 DEF IsOther
  <2>. QED  BY <2>1 DEF ScanLevel, SecretsLevel, NoCounts
<1>3. CASE IsArray(v, I)
  <2>. DEFINE parts == [i \in DOMAIN v.items |-> c[v.items[i]]]
  <2>1. v.type = "array" /\ v.items \in Seq(I)
    BY <1>3 DEF IsArray
  <2>2. /\ DOMAIN v.items = 1 .. Len(v.items) /\ Len(v.items) \in Nat
        /\ \A i \in 1 .. Len(v.items) : v.items[i] \in I
    BY <2>1, LenProperties, ElementOfSeq
  <2>3. parts \in Seq(Counts) /\ DOMAIN parts = DOMAIN v.items
    BY <2>2
  <2>4. \A i \in DOMAIN v.items : parts[i] = c[v.items[i]]
    OBVIOUS
  <2>. HIDE DEF parts
  <2>5. ASSUME NEW k \in Kind
        PROVE  Merged(parts)[k] = SumFunction([i \in DOMAIN v.items |-> c[v.items[i]][k]])
    <3>1. Merged(parts)[k] = SumFunction([i \in DOMAIN parts |-> parts[i][k]])
      BY <2>3, MergedFacts
    <3>2. [i \in DOMAIN parts |-> parts[i][k]] = [i \in DOMAIN v.items |-> c[v.items[i]][k]]
      BY <2>3, <2>4
    <3>. QED  BY <3>1, <3>2
  <2>6. Merged(parts) = [k \in Kind |-> SumFunction([i \in DOMAIN v.items |-> c[v.items[i]][k]])]
    <3>1. Merged(parts) \in Counts
      BY <2>3, MergedFacts
    <3>2. Merged(parts) = [k \in Kind |-> Merged(parts)[k]]
      BY <3>1 DEF Counts
    <3>. QED  BY <2>5, <3>2
  <2>7. ScanLevel(on, c, v) = Merged(parts)
    BY <2>1 DEF ScanLevel, parts
  <2>8. SecretsLevel(on, c, v) =
          [k \in Kind |-> SumFunction([i \in DOMAIN v.items |-> c[v.items[i]][k]])]
    BY <2>1 DEF SecretsLevel
  <2>. QED  BY <2>6, <2>7, <2>8
<1>4. CASE IsObject(v, I)
  <2>. DEFINE parts == [i \in DOMAIN v.fields |-> ScanField(on, c, v.fields[i])]
  <2>1. v.type = "object" /\ v.fields \in Seq(Field(I))
    BY <1>4 DEF IsObject
  <2>2. /\ DOMAIN v.fields = 1 .. Len(v.fields) /\ Len(v.fields) \in Nat
        /\ \A i \in 1 .. Len(v.fields) : v.fields[i] \in Field(I)
    BY <2>1, LenProperties, ElementOfSeq
  <2>f. ASSUME NEW f \in Field(I)
        PROVE  /\ ScanField(on, c, f) \in Counts
               /\ \A k \in Kind : ScanField(on, c, f)[k] = SecretsOfField(on, c, k, f)
    <3>1. f.value \in I
      BY DEF Field
    <3>. QED  BY <3>1, PlusFacts DEF ScanField, SecretsOfField
  <2>3. parts \in Seq(Counts) /\ DOMAIN parts = DOMAIN v.fields
    BY <2>2, <2>f
  <2>4. \A i \in DOMAIN v.fields, k \in Kind : parts[i][k] = SecretsOfField(on, c, k, v.fields[i])
    BY <2>2, <2>f
  <2>. HIDE DEF parts
  <2>5. ASSUME NEW k \in Kind
        PROVE  Merged(parts)[k] =
                 SumFunction([i \in DOMAIN v.fields |-> SecretsOfField(on, c, k, v.fields[i])])
    <3>1. Merged(parts)[k] = SumFunction([i \in DOMAIN parts |-> parts[i][k]])
      BY <2>3, MergedFacts
    <3>2. [i \in DOMAIN parts |-> parts[i][k]] =
            [i \in DOMAIN v.fields |-> SecretsOfField(on, c, k, v.fields[i])]
      BY <2>3, <2>4
    <3>. QED  BY <3>1, <3>2
  <2>6. Merged(parts) =
          [k \in Kind |-> SumFunction([i \in DOMAIN v.fields |-> SecretsOfField(on, c, k, v.fields[i])])]
    <3>1. Merged(parts) \in Counts
      BY <2>3, MergedFacts
    <3>2. Merged(parts) = [k \in Kind |-> Merged(parts)[k]]
      BY <3>1 DEF Counts
    <3>. QED  BY <2>5, <3>2
  <2>7. ScanLevel(on, c, v) = Merged(parts)
    BY <2>1 DEF ScanLevel, parts
  <2>8. SecretsLevel(on, c, v) =
          [k \in Kind |-> SumFunction([i \in DOMAIN v.fields |-> SecretsOfField(on, c, k, v.fields[i])])]
    BY <2>1 DEF SecretsLevel
  <2>. QED  BY <2>6, <2>7, <2>8
<1>. QED  BY <1>1, <1>2, <1>3, <1>4

\* A level of the walk on such texts does that, if the walk below does.
LEMMA RawLevelFacts ==
    ASSUME NEW on \in SUBSET Kind, NEW pol \in Policy, pol.iban_like = {},
           NEW I, NEW J, NEW inner, NEW h, NEW c,
           Walks(pol, I, J, inner, h, c), NEW v \in JsonLevel(ApartSpan, I)
    PROVE  RawLevelWalked(on, pol, J, inner, h, c, v)
<1>1. CASE v.type # "string"
  <2>1. LevelWalked(on, pol, J, inner, h, c, v)
    BY <1>1, LevelFacts
  <2>2. \A w \in I : c[w] \in Counts
    BY DEF Walks
  <2>3. ScanLevel(on, c, v) = SecretsLevel(on, c, v)
    BY ONLY <1>1, <2>2, on \in SUBSET Kind, v \in JsonLevel(ApartSpan, I), ScanCounts
  <2>. QED  BY <2>1, <2>3 DEF LevelWalked, RawLevelWalked
<1>2. CASE v.type = "string"
  <2>1. v.text \in Seq(ApartSpan)
    BY <1>2, JsonCases DEF IsOther, IsText, IsArray, IsObject
  <2>2. RedactText(on, pol, v.text) =
          [text |-> HiddenText(on, pol, v.text), stats |-> TextSecrets(on, v.text)]
    BY <2>1, TextHidden
  <2>3. RedactText(on, ScanPolicy, v.text).stats = TextSecrets(on, v.text)
    <3>1. ScanPolicy \in Policy /\ ScanPolicy.iban_like = {}
      BY DEF ScanPolicy, Policy
    <3>2. RedactText(on, ScanPolicy, v.text) =
            [text |-> HiddenText(on, ScanPolicy, v.text), stats |-> TextSecrets(on, v.text)]
      BY ONLY <2>1, <3>1, on \in SUBSET Kind, TextHidden
    <3>. QED  BY <3>2
  <2>4. HiddenText(on, pol, v.text) \in Seq(Span) /\ TextSecrets(on, v.text) \in Counts
    BY <2>1, TextFacts
  <2>5. /\ RedactLevel(on, pol, inner, v) =
             [value |-> Str(HiddenText(on, pol, v.text)), stats |-> TextSecrets(on, v.text)]
        /\ ScanLevel(on, c, v) = TextSecrets(on, v.text)
    BY <1>2, <2>2, <2>3 DEF RedactLevel, ScanLevel
  <2>6. HiddenLevel(on, pol, h, v) = Str(HiddenText(on, pol, v.text))
    BY <1>2 DEF HiddenLevel, HiddenText
  <2>7. SecretsLevel(on, c, v) = TextSecrets(on, v.text)
    BY <1>2 DEF SecretsLevel, TextSecrets
  <2>. QED  BY <2>4, <2>5, <2>6, <2>7, JsonBuilds DEF RawLevelWalked
<1>. QED  BY <1>1, <1>2

-----------------------------------------------------------------------------
(* Flattened pieces, and what they count.                                   *)
\* Pieces of one element each, one after the other, are the elements.
LEMMA FlattenSingles ==
    ASSUME NEW S, NEW s \in Seq(S)
    PROVE  FlattenSeq([i \in DOMAIN s |-> <<s[i]>>]) = s
<1>. DEFINE N == Len(s)
            F == [i \in 1 .. N |-> <<s[i]>>]
            far == [n \in 0 .. N |-> FlatTo(F, n)]
            own == [n \in 0 .. N |-> SubSeq(s, 1, n)]
<1>1. N \in Nat /\ DOMAIN s = 1 .. N /\ \A i \in 1 .. N : s[i] \in S
  BY LenProperties, ElementOfSeq
<1>2. \A i \in 1 .. N : F[i] = <<s[i]>> /\ F[i] \in Seq(S)
  BY <1>1
<1>3. [i \in 1 .. N |-> F[i]] = [i \in DOMAIN s |-> <<s[i]>>]
  BY <1>1
<1>. HIDE DEF F
<1>4. /\ FlatTo(F, 0) = << >>
      /\ \A n \in 0 .. N - 1 : FlatTo(F, n + 1) = FlatTo(F, n) \o F[n + 1]
  <2>1. \A i \in 1 .. N : F[i] \in Seq(S)
    BY <1>2
  <2>. HIDE DEF N
  <2>. QED  BY ONLY <1>1, <2>1, FlatFacts
<1>5. SubSeq(s, 1, 0) = << >> /\ SubSeq(s, 1, N) = s
  OBVIOUS
<1>6. ASSUME NEW j \in 1 .. N PROVE SubSeq(s, 1, j) = SubSeq(s, 1, j - 1) \o <<s[j]>>
  OBVIOUS
<1>7. far[N] = own[N]
  <2>1. ASSUME NEW j \in 1 .. N, far[j - 1] = own[j - 1] PROVE far[j] = own[j]
    <3>1. j - 1 \in 0 .. N - 1 /\ j - 1 \in 0 .. N /\ j \in 0 .. N /\ (j - 1) + 1 = j
      BY <1>1
    <3>2. FlatTo(F, j) = FlatTo(F, j - 1) \o <<s[j]>>
      BY <1>2, <1>4, <3>1
    <3>3. FlatTo(F, j - 1) = SubSeq(s, 1, j - 1)
      BY <2>1, <3>1
    <3>. QED  BY <1>6, <3>1, <3>2, <3>3
  <2>2. far[0] = own[0]
    <3>1. 0 \in 0 .. N
      BY <1>1
    <3>. QED  BY <1>4, <1>5, <3>1
  <2>. HIDE DEF far, own, N
  <2>. QED  BY ONLY <1>1, <2>1, <2>2, RunsAgree
<1>8. N \in 0 .. N
  BY <1>1
<1>9. FlatTo(F, N) = s
  BY <1>5, <1>7, <1>8
<1>. QED  BY <1>3, <1>9 DEF FlatTo

\* Counts of the elements of a sequence, merged.
CountedIn(cnt, s) == Merged([i \in DOMAIN s |-> cnt[s[i]]])

\* One element more adds what it counts.
LEMMA CountedFacts ==
    ASSUME NEW S, NEW cnt, \A x \in S : cnt[x] \in Counts, NEW s \in Seq(S)
    PROVE  /\ CountedIn(cnt, s) \in Counts
           /\ CountedIn(cnt, << >>) = NoCounts
           /\ \A x \in S : CountedIn(cnt, s \o <<x>>) = Plus(CountedIn(cnt, s), cnt[x])
<1>. DEFINE parts(t) == [i \in DOMAIN t |-> cnt[t[i]]]
<1>1. ASSUME NEW t \in Seq(S)
      PROVE  /\ parts(t) \in Seq(Counts) /\ Len(parts(t)) = Len(t)
             /\ \A i \in 1 .. Len(t) : parts(t)[i] = cnt[t[i]]
  <2>1. Len(t) \in Nat /\ DOMAIN t = 1 .. Len(t) /\ \A i \in 1 .. Len(t) : t[i] \in S
    BY LenProperties, ElementOfSeq
  <2>. QED  BY <2>1
<1>2. CountedIn(cnt, s) \in Counts
  <2>1. parts(s) \in Seq(Counts)
    BY <1>1
  <2>. HIDE DEF parts
  <2>2. Merged(parts(s)) \in Counts
    BY ONLY <2>1, MergedFacts
  <2>. QED  BY <2>2 DEF CountedIn, parts
<1>3. CountedIn(cnt, << >>) = NoCounts
  <2>. DEFINE none == parts(<< >>)
  <2>1. none \in Seq(Counts) /\ Len(none) = 0
    <3>1. << >> \in Seq(S) /\ Len(<< >>) = 0
      OBVIOUS
    <3>. HIDE DEF parts
    <3>. QED  BY <1>1, <3>1
  <2>. HIDE DEF none
  <2>2. PICK f \in [0 .. Len(none) -> Counts] : f[0] = NoCounts /\ Merged(none) = f[Len(none)]
    BY <2>1, MergedRuns
  <2>. QED  BY <2>1, <2>2 DEF CountedIn, none
<1>4. ASSUME NEW x \in S PROVE CountedIn(cnt, s \o <<x>>) = Plus(CountedIn(cnt, s), cnt[x])
  <2>. DEFINE t == s \o <<x>>
  <2>1. /\ t \in Seq(S) /\ Len(t) = Len(s) + 1 /\ t[Len(s) + 1] = x /\ Len(s) \in Nat
        /\ \A i \in 1 .. Len(s) : t[i] = s[i]
    OBVIOUS
  <2>. HIDE DEF t
  <2>2. /\ parts(s) \in Seq(Counts) /\ parts(t) \in Seq(Counts)
        /\ Len(parts(t)) = Len(parts(s)) + 1 /\ Len(parts(s)) = Len(s)
        /\ \A i \in 1 .. Len(parts(s)) : parts(t)[i] = parts(s)[i]
        /\ parts(t)[Len(parts(s)) + 1] = cnt[x]
    <3>1. Len(s) + 1 \in 1 .. Len(t) /\ 1 .. Len(s) \subseteq 1 .. Len(t)
      BY <2>1
    <3>. HIDE DEF parts
    <3>. QED  BY <1>1, <2>1, <3>1
  <2>. HIDE DEF parts
  <2>3. Merged(parts(t)) = Plus(Merged(parts(s)), parts(t)[Len(parts(s)) + 1])
    BY ONLY <2>2, MergedNext
  <2>. QED  BY <2>2, <2>3 DEF CountedIn, parts, t
<1>. QED  BY <1>2, <1>3, <1>4

\* Fewer and fewer is fewer together.
LEMMA FewerAdds ==
    ASSUME NEW a, NEW b, NEW c, NEW d, Fewer(a, b), Fewer(c, d)
    PROVE  Fewer(Plus(a, c), Plus(b, d)) /\ Fewer(a, Plus(b, d))
<1>1. /\ a \in Counts /\ b \in Counts /\ c \in Counts /\ d \in Counts
      /\ \A k \in Kind : a[k] <= b[k] /\ c[k] <= d[k]
      /\ \A k \in FiveKinds : a[k] = 0 /\ c[k] = 0
  BY DEF Fewer
<1>2. FiveKinds \subseteq Kind
  BY DEF FiveKinds, Kind
<1>3. \A k \in Kind : /\ a[k] \in Nat /\ b[k] \in Nat /\ c[k] \in Nat /\ d[k] \in Nat
                      /\ Plus(a, c)[k] = a[k] + c[k] /\ Plus(b, d)[k] = b[k] + d[k]
  <2>1. \A k \in Kind : Plus(a, c)[k] = a[k] + c[k] /\ Plus(b, d)[k] = b[k] + d[k]
    BY <1>1, PlusFacts
  <2>2. \A k \in Kind : a[k] \in Nat /\ b[k] \in Nat /\ c[k] \in Nat /\ d[k] \in Nat
    BY <1>1 DEF Counts
  <2>. QED  BY <2>1, <2>2
<1>4. Plus(a, c) \in Counts /\ Plus(b, d) \in Counts
  BY <1>1, PlusFacts
<1>. QED  BY <1>1, <1>2, <1>3, <1>4 DEF Fewer

\* Nothing counts no more than anything.
LEMMA FewerNone ==
    ASSUME NEW d \in Counts
    PROVE  Fewer(NoCounts, d)
  BY PlusFacts DEF Fewer, NoCounts, Counts, FiveKinds, Kind

\* Pieces, each left out or counting no more than it did, count no more together.
OneFewer(G, cnt, piece, d) ==
    \/ piece = << >>
    \/ \E x \in G : piece = <<x>> /\ Fewer(cnt[x], d)

\* So with the fields that redaction leaves of an object.
LEMMA FlatFewer ==
    ASSUME NEW G, NEW N \in Nat, NEW F, NEW D, NEW cnt, \A x \in G : cnt[x] \in Counts,
           \A i \in 1 .. N : OneFewer(G, cnt, F[i], D[i]), \A i \in 1 .. N : D[i] \in Counts
    PROVE  Fewer(CountedIn(cnt, FlatTo(F, N)), Merged([i \in 1 .. N |-> D[i]]))
<1>. DEFINE parts == [i \in 1 .. N |-> D[i]]
<1>1. parts \in Seq(Counts) /\ Len(parts) = N /\ \A i \in 1 .. N : parts[i] = D[i]
  OBVIOUS
<1>. HIDE DEF parts
<1>2. PICK g \in [0 .. Len(parts) -> Counts] :
        /\ g[0] = NoCounts /\ \A j \in 1 .. Len(parts) : g[j] = Plus(g[j - 1], parts[j])
        /\ Merged(parts) = g[Len(parts)]
  BY <1>1, MergedRuns
<1>3. /\ FlatTo(F, 0) = << >>
      /\ \A n \in 0 .. N : FlatTo(F, n) \in Seq(G)
      /\ \A n \in 0 .. N - 1 : FlatTo(F, n + 1) = FlatTo(F, n) \o F[n + 1]
  <2>1. ASSUME NEW i \in 1 .. N PROVE F[i] \in Seq(G)
    <3>1. F[i] = << >> \/ \E x \in G : F[i] = <<x>>
      BY DEF OneFewer
    <3>. QED  BY ONLY <3>1
  <2>2. \A i \in 1 .. N : F[i] \in Seq(G)
    BY ONLY <2>1
  <2>. QED  BY ONLY N \in Nat, <2>2, FlatFacts
<1>. DEFINE T == {n \in Nat : n <= N => Fewer(CountedIn(cnt, FlatTo(F, n)), g[n])}
<1>4. 0 \in T
  <2>1. CountedIn(cnt, << >>) = NoCounts
    <3>1. << >> \in Seq(G)
      OBVIOUS
    <3>. QED  BY <3>1, CountedFacts
  <2>. QED  BY <1>2, <1>3, <2>1, PlusFacts, FewerNone
<1>5. ASSUME NEW n \in Nat, n \in T PROVE n + 1 \in T
  <2>. SUFFICES ASSUME n + 1 <= N PROVE Fewer(CountedIn(cnt, FlatTo(F, n + 1)), g[n + 1])
    OBVIOUS
  <2>. DEFINE before == FlatTo(F, n)
  <2>1. /\ n + 1 \in 1 .. N /\ n \in 0 .. N - 1 /\ n \in 0 .. N /\ (n + 1) - 1 = n
        /\ Fewer(CountedIn(cnt, before), g[n])
    BY <1>5
  <2>2. /\ FlatTo(F, n + 1) = before \o F[n + 1] /\ before \in Seq(G)
        /\ g[n + 1] = Plus(g[n], D[n + 1]) /\ D[n + 1] \in Counts
        /\ OneFewer(G, cnt, F[n + 1], D[n + 1])
    BY <1>1, <1>2, <1>3, <2>1
  <2>. HIDE DEF before
  <2>3. CASE F[n + 1] = << >>
    <3>1. before \o << >> = before
      BY <2>2, ConcatEmptySeq
    <3>2. Fewer(NoCounts, D[n + 1])
      BY <2>2, FewerNone
    <3>. QED  BY <2>1, <2>2, <2>3, <3>1, <3>2, FewerAdds
  <2>4. ASSUME NEW x \in G, F[n + 1] = <<x>>, Fewer(cnt[x], D[n + 1])
        PROVE  Fewer(CountedIn(cnt, FlatTo(F, n + 1)), g[n + 1])
    <3>1. CountedIn(cnt, before \o <<x>>) = Plus(CountedIn(cnt, before), cnt[x])
      BY <2>2, CountedFacts
    <3>. QED  BY <2>1, <2>2, <2>4, <3>1, FewerAdds
  <2>. QED  BY <2>2, <2>3, <2>4 DEF OneFewer
<1>6. N \in T
  <2>. HIDE DEF T
  <2>. QED  BY <1>4, <1>5, InductionOverNat
<1>. QED  BY <1>1, <1>2, <1>6 DEF parts

-----------------------------------------------------------------------------
(* A level of what redaction has left.                                      *)
\* What a level finds below it: hidden once, a value stays as it is when it is
\* hidden again, and counts no more.
Settled(I, J, inner, scans, h, c) ==
    \A w \in I : /\ h[w] \in J /\ c[w] \in Counts
                 /\ inner[h[w]].value = h[w]
                 /\ Fewer(scans[h[w]], c[w])

\* A field that stays as it is when it is hidden again.
Staying(on, pol, J, h2) == {x \in Field(J) : HiddenField(on, pol, h2, x) = <<x>>}

\* A marker does not depend on what it stands for, when it holds no digest that
\* is taken for an IBAN.
LEMMA MarkerStays ==
    ASSUME NEW pol \in Policy, pol.iban_like = {}
    PROVE  \A kind, v, w : Marker(pol, kind, v) = Marker(pol, kind, w)
<1>1. \A kind, m : Replacement(pol, kind, m) = [form |-> pol.mode, kind |-> kind, iban |-> FALSE]
  BY MarkFacts DEF IsMark
<1>. QED  BY <1>1 DEF Marker

\* A field that was left, or its marker, stays as it is the second time, and
\* counts no more.
LEMMA AgainField ==
    ASSUME NEW on \in SUBSET Kind, NEW pol \in Policy, pol.iban_like = {},
           NEW I, NEW J, NEW inner, NEW scans, NEW h, NEW c,
           Settled(I, J, inner, scans, h, c), Marked(pol, J), NEW f \in Field(I),
           \A w \in I, kind \in Kind : Marker(pol, kind, w) \in J,
           NEW h2, \A w \in J : h2[w] = inner[w].value,
           NEW cnt, \A x \in Field(J) : cnt[x] = ScanField(on, scans, x)
    PROVE  OneFewer(Staying(on, pol, J, h2), cnt, HiddenField(on, pol, h, f), ScanField(on, c, f))
<1>. DEFINE kind == KindForField(f.name)
            w == f.value
            kept == [name |-> f.name, value |-> h[w]]
            marked == [name |-> f.name, value |-> Marker(pol, kind, w)]
            G == Staying(on, pol, J, h2)
<1>1. w \in I /\ f.name \in STRING
  BY DEF Field
<1>2. /\ h[w] \in J /\ c[w] \in Counts /\ inner[h[w]].value = h[w] /\ Fewer(scans[h[w]], c[w])
  <2>. HIDE DEF w
  <2>. QED  BY <1>1 DEF Settled
<1>3. CASE kind \notin on
  <2>1. kept \in Field(J) /\ kept.name = f.name /\ kept.value = h[w]
    BY <1>1, <1>2 DEF Field
  <2>2. h2[h[w]] = h[w]
    BY <1>2
  <2>3. /\ HiddenField(on, pol, h, f) = <<kept>>
        /\ ScanField(on, c, f) = c[w]
    BY <1>3 DEF HiddenField, ScanField
  <2>4. /\ HiddenField(on, pol, h2, kept) = <<kept>>
        /\ ScanField(on, scans, kept) = scans[h[w]]
    BY <1>3, <2>1, <2>2 DEF HiddenField, ScanField
  <2>. HIDE DEF kept, w, kind
  <2>5. kept \in G /\ cnt[kept] = scans[h[w]]
    BY <2>1, <2>4 DEF Staying
  <2>. QED  BY <1>2, <2>3, <2>5 DEF OneFewer
<1>4. CASE kind \in on /\ pol.mode = "drop"
  BY <1>4 DEF HiddenField, OneFewer
<1>5. CASE kind \in on /\ pol.mode # "drop"
  <2>1. kind \in Kind /\ kind \notin FiveKinds
    BY <1>5, FieldKinds DEF FiveKinds
  <2>2. marked \in Field(J) /\ marked.name = f.name /\ marked.value = Marker(pol, kind, w)
    <3>1. Marker(pol, kind, w) \in J
      BY <1>1, <2>1
    <3>. HIDE DEF kind, w
    <3>. QED  BY <1>1, <3>1 DEF Field
  <2>3. /\ HiddenField(on, pol, h, f) = <<marked>>
        /\ ScanField(on, c, f) = Counted(kind, 1)
    BY <1>5 DEF HiddenField, ScanField
  <2>4. Marker(pol, kind, marked.value) = Marker(pol, kind, w)
    BY MarkerStays
  <2>5. /\ HiddenField(on, pol, h2, marked) = <<marked>>
        /\ ScanField(on, scans, marked) = Counted(kind, 1)
    <3>1. KindForField(marked.name) = kind
      BY <2>2
    <3>2. HiddenField(on, pol, h2, marked) =
            <<[name |-> marked.name, value |-> Marker(pol, kind, marked.value)]>>
      <4>. HIDE DEF marked, kind
      <4>. QED  BY <1>5, <3>1 DEF HiddenField
    <3>3. ScanField(on, scans, marked) = Counted(kind, 1)
      <4>. HIDE DEF marked, kind
      <4>. QED  BY <1>5, <3>1 DEF ScanField
    <3>. QED  BY <2>2, <2>4, <3>2, <3>3
  <2>6. Fewer(Counted(kind, 1), Counted(kind, 1))
    <3>. HIDE DEF kind
    <3>1. FiveKinds \subseteq Kind
      BY DEF FiveKinds, Kind
    <3>2. Counted(kind, 1) \in Counts /\ \A k \in Kind : Counted(kind, 1)[k] = IF k = kind THEN 1 ELSE 0
      BY <2>1, PlusFacts
    <3>. QED  BY <2>1, <3>1, <3>2 DEF Fewer
  <2>. HIDE DEF marked, w, kind
  <2>7. marked \in G /\ cnt[marked] = Counted(kind, 1)
    BY <2>2, <2>5 DEF Staying
  <2>. QED  BY <2>3, <2>6, <2>7 DEF OneFewer
<1>. QED  BY <1>3, <1>4, <1>5

\* A level of what the walk has hidden, hidden and scanned once more.
AgainWalked(on, pol, inner, scans, h, c, v) ==
    /\ RedactLevel(on, pol, inner, HiddenLevel(on, pol, h, v)).value = HiddenLevel(on, pol, h, v)
    /\ Fewer(ScanLevel(on, scans, HiddenLevel(on, pol, h, v)), SecretsLevel(on, c, v))

\* Below a level: the walk over raw values, and the one over what it makes.
BelowFacts(on, pol, I, J, inner, scans, h, c) ==
    /\ \A w \in I, kind \in Kind : Marker(pol, kind, w) \in J
    /\ Marked(pol, J) /\ Typed(J, inner) /\ \A w \in J : scans[w] \in Counts
    /\ Settled(I, J, inner, scans, h, c)

\* A text is settled once it is hidden ...
LEMMA AgainLine ==
    ASSUME NEW on \in SUBSET Kind, NEW pol \in Policy, pol.iban_like = {},
           NEW inner, NEW scans, NEW h, NEW c, NEW I, NEW v \in JsonLevel(ApartSpan, I),
           v.type = "string"
    PROVE  AgainWalked(on, pol, inner, scans, h, c, v)
<1>. DEFINE hidden == HiddenText(on, pol, v.text)
<1>1. v.text \in Seq(ApartSpan)
  BY JsonCases DEF IsOther, IsText, IsArray, IsObject
<1>2. RedactText(on, pol, hidden).text = hidden
  BY <1>1, TextSettles
<1>3. Fewer(RedactText(on, ScanPolicy, hidden).stats, TextSecrets(on, v.text))
  <2>1. ScanPolicy \in Policy /\ ScanPolicy.iban_like = {}
    BY DEF ScanPolicy, Policy
  <2>. QED  BY ONLY <1>1, <2>1, on \in SUBSET Kind, pol \in Policy, pol.iban_like = {}, TextSettles
<1>4. /\ HiddenLevel(on, pol, h, v) = Str(hidden)
      /\ SecretsLevel(on, c, v) = TextSecrets(on, v.text)
  BY DEF HiddenLevel, HiddenText, SecretsLevel, TextSecrets
<1>. HIDE DEF hidden
<1>5. /\ RedactLevel(on, pol, inner, Str(hidden)).value = Str(RedactText(on, pol, hidden).text)
      /\ ScanLevel(on, scans, Str(hidden)) = RedactText(on, ScanPolicy, hidden).stats
  BY JsonShapes DEF RedactLevel, ScanLevel
<1>. QED  BY <1>2, <1>3, <1>4, <1>5 DEF AgainWalked

\* ... an array, if its items are ...
LEMMA AgainArray ==
    ASSUME NEW on \in SUBSET Kind, NEW pol \in Policy,
           NEW I, NEW J, NEW inner, NEW scans, NEW h, NEW c,
           BelowFacts(on, pol, I, J, inner, scans, h, c), NEW v, IsArray(v, I)
    PROVE  AgainWalked(on, pol, inner, scans, h, c, v)
<1>. DEFINE N == Len(v.items)
            hidden == [i \in DOMAIN v.items |-> h[v.items[i]]]
            F == [i \in 1 .. N |-> <<hidden[i]>>]
            D == [i \in 1 .. N |-> c[v.items[i]]]
<1>1. /\ v.type = "array" /\ v.items \in Seq(I)
      /\ DOMAIN v.items = 1 .. N /\ N \in Nat /\ \A i \in 1 .. N : v.items[i] \in I
  BY LenProperties, ElementOfSeq DEF IsArray
<1>2. \A w \in I : /\ h[w] \in J /\ c[w] \in Counts /\ inner[h[w]].value = h[w]
                   /\ Fewer(scans[h[w]], c[w])
  BY DEF BelowFacts, Settled
<1>3. /\ hidden \in Seq(J) /\ Len(hidden) = N /\ DOMAIN hidden = 1 .. N
      /\ \A i \in 1 .. N : hidden[i] = h[v.items[i]] /\ hidden[i] \in J
  BY <1>1, <1>2
<1>4. /\ HiddenLevel(on, pol, h, v) = Arr(hidden)
      /\ ScanLevel(on, c, v) = Merged([i \in DOMAIN v.items |-> c[v.items[i]]])
  BY <1>1 DEF HiddenLevel, ScanLevel
<1>5. [i \in DOMAIN v.items |-> c[v.items[i]]] = [i \in 1 .. N |-> D[i]]
  BY <1>1
<1>6. \A i \in 1 .. N : F[i] = <<hidden[i]>> /\ D[i] = c[v.items[i]] /\ D[i] \in Counts
                        /\ OneFewer(J, scans, F[i], D[i])
  <2>1. \A i \in 1 .. N : F[i] = <<hidden[i]>> /\ D[i] = c[v.items[i]]
    OBVIOUS
  <2>. HIDE DEF F, D, hidden, N
  <2>. QED  BY <1>1, <1>2, <1>3, <2>1 DEF OneFewer
<1>. HIDE DEF D, hidden
<1>7. FlatTo(F, N) = hidden
  <2>1. [i \in 1 .. N |-> F[i]] = [i \in DOMAIN hidden |-> <<hidden[i]>>]
    BY <1>3
  <2>2. FlattenSeq([i \in DOMAIN hidden |-> <<hidden[i]>>]) = hidden
    BY <1>3, FlattenSingles
  <2>. QED  BY <2>1, <2>2 DEF FlatTo
<1>. HIDE DEF F
<1>8. Fewer(CountedIn(scans, FlatTo(F, N)), Merged([i \in 1 .. N |-> D[i]]))
  <2>1. \A w \in J : scans[w] \in Counts
    BY DEF BelowFacts
  <2>2. /\ \A i \in 1 .. N : OneFewer(J, scans, F[i], D[i])
        /\ \A i \in 1 .. N : D[i] \in Counts
    BY <1>6
  <2>3. N \in Nat
    BY <1>1
  <2>. HIDE DEF N
  <2>. QED  BY ONLY <2>1, <2>2, <2>3, FlatFewer
<1>9. ScanLevel(on, scans, Arr(hidden)) = CountedIn(scans, hidden)
  BY JsonShapes DEF ScanLevel, CountedIn
<1>10. ScanLevel(on, c, v) = SecretsLevel(on, c, v)
  <2>1. v \in JsonLevel(ApartSpan, I) /\ v.type # "string"
    BY <1>1, JsonBuilds DEF IsArray
  <2>2. \A w \in I : c[w] \in Counts
    BY <1>2
  <2>. QED  BY ONLY <2>1, <2>2, on \in SUBSET Kind, ScanCounts
<1>11. RedactLevel(on, pol, inner, Arr(hidden)).value = Arr(hidden)
  <2>1. [i \in DOMAIN hidden |-> inner[hidden[i]].value] = hidden
    <3>1. \A i \in 1 .. N : inner[hidden[i]].value = hidden[i]
      BY <1>1, <1>2, <1>3
    <3>2. hidden = [i \in DOMAIN hidden |-> hidden[i]]
      BY <1>3
    <3>. QED  BY <1>3, <3>1, <3>2
  <2>2. RedactLevel(on, pol, inner, Arr(hidden)) = RedactArray(inner, hidden)
    BY JsonShapes DEF RedactLevel
  <2>. QED  BY <2>1, <2>2 DEF RedactArray
<1>12. Fewer(ScanLevel(on, scans, Arr(hidden)), SecretsLevel(on, c, v))
  BY <1>4, <1>5, <1>7, <1>8, <1>9, <1>10
<1>. QED  BY <1>4, <1>11, <1>12 DEF AgainWalked

\* ... and an object, whose denied fields hold markers or are gone.
LEMMA AgainObject ==
    ASSUME NEW on \in SUBSET Kind, NEW pol \in Policy, pol.iban_like = {},
           NEW I, NEW J, NEW inner, NEW scans, NEW h, NEW c,
           BelowFacts(on, pol, I, J, inner, scans, h, c), NEW v, IsObject(v, I)
    PROVE  AgainWalked(on, pol, inner, scans, h, c, v)
<1>. DEFINE N == Len(v.fields)
            h2 == [w \in J |-> inner[w].value]
            c2 == [w \in J |-> inner[w].stats]
            cnt == [x \in Field(J) |-> ScanField(on, scans, x)]
            G == Staying(on, pol, J, h2)
            F == [i \in 1 .. N |-> HiddenField(on, pol, h, v.fields[i])]
            D == [i \in 1 .. N |-> ScanField(on, c, v.fields[i])]
            hidden == FlatTo(F, N)
<1>1. /\ v.type = "object" /\ v.fields \in Seq(Field(I))
      /\ DOMAIN v.fields = 1 .. N /\ N \in Nat /\ \A i \in 1 .. N : v.fields[i] \in Field(I)
  BY LenProperties, ElementOfSeq DEF IsObject
<1>2. /\ \A w \in I, kind \in Kind : Marker(pol, kind, w) \in J
      /\ Marked(pol, J) /\ Typed(J, inner) /\ \A w \in J : scans[w] \in Counts
      /\ Settled(I, J, inner, scans, h, c)
  BY DEF BelowFacts
<1>3. /\ \A w \in J : h2[w] = inner[w].value
      /\ \A x \in Field(J) : cnt[x] = ScanField(on, scans, x)
      /\ Walks(pol, J, J, inner, h2, c2)
  BY <1>2 DEF Walks, Typed, Marked
<1>4. \A x \in Field(J) : cnt[x] \in Counts
  <2>1. \A x \in Field(J) : ScanField(on, scans, x) \in Counts
    BY <1>2, PlusFacts DEF ScanField, Field
  <2>. QED  BY <1>3, <2>1
<1>. HIDE DEF h2, c2, cnt
<1>5. \A i \in 1 .. N : /\ F[i] = HiddenField(on, pol, h, v.fields[i])
                        /\ D[i] = ScanField(on, c, v.fields[i])
                        /\ OneFewer(G, cnt, F[i], D[i]) /\ D[i] \in Counts
  <2>1. \A i \in 1 .. N : /\ F[i] = HiddenField(on, pol, h, v.fields[i])
                          /\ D[i] = ScanField(on, c, v.fields[i])
    OBVIOUS
  <2>2. ASSUME NEW f \in Field(I)
        PROVE  OneFewer(G, cnt, HiddenField(on, pol, h, f), ScanField(on, c, f))
    BY <1>2, <1>3, AgainField
  <2>3. \A f \in Field(I) : ScanField(on, c, f) \in Counts
    <3>1. \A w \in I : c[w] \in Counts
      BY <1>2 DEF Settled
    <3>. QED  BY <3>1, PlusFacts DEF ScanField, Field
  <2>. HIDE DEF F, D, N, G
  <2>. QED  BY <1>1, <2>1, <2>2, <2>3
<1>6. G \subseteq Field(J)
  BY DEF Staying
<1>7. /\ HiddenLevel(on, pol, h, v) = Obj(hidden)
      /\ ScanLevel(on, c, v) = Merged([i \in 1 .. N |-> D[i]])
  <2>1. /\ [i \in 1 .. N |-> F[i]] = [i \in DOMAIN v.fields |-> HiddenField(on, pol, h, v.fields[i])]
        /\ [i \in 1 .. N |-> D[i]] = [i \in DOMAIN v.fields |-> ScanField(on, c, v.fields[i])]
    BY <1>1
  <2>2. HiddenLevel(on, pol, h, v) =
          Obj(FlattenSeq([i \in DOMAIN v.fields |-> HiddenField(on, pol, h, v.fields[i])]))
    BY <1>1 DEF HiddenLevel
  <2>3. ScanLevel(on, c, v) = Merged([i \in DOMAIN v.fields |-> ScanField(on, c, v.fields[i])])
    BY <1>1 DEF ScanLevel
  <2>. HIDE DEF F, D
  <2>. QED  BY <2>1, <2>2, <2>3 DEF FlatTo
<1>. HIDE DEF F, D
<1>8. hidden \in Seq(G)
  <2>1. \A i \in 1 .. N : F[i] \in Seq(G)
    <3>1. \A x \in G : <<x>> \in Seq(G)
      OBVIOUS
    <3>2. << >> \in Seq(G)
      OBVIOUS
    <3>. HIDE DEF G, N
    <3>. QED  BY <1>5, <3>1, <3>2 DEF OneFewer
  <2>2. N \in 0 .. N
    BY <1>1
  <2>3. \A n \in 0 .. N : FlatTo(F, n) \in Seq(G)
    <3>. HIDE DEF G, N
    <3>. QED  BY ONLY <1>1, <2>1, FlatFacts
  <2>. QED  BY <2>2, <2>3
<1>9. Fewer(CountedIn(cnt, hidden), Merged([i \in 1 .. N |-> D[i]]))
  <2>1. \A x \in G : cnt[x] \in Counts
    BY <1>4, <1>6
  <2>2. /\ \A i \in 1 .. N : OneFewer(G, cnt, F[i], D[i])
        /\ \A i \in 1 .. N : D[i] \in Counts
    BY <1>5
  <2>. HIDE DEF N, G
  <2>. QED  BY ONLY <1>1, <2>1, <2>2, FlatFewer
<1>. HIDE DEF hidden
<1>10. /\ hidden \in Seq(Field(J)) /\ DOMAIN hidden = 1 .. Len(hidden)
       /\ \A i \in 1 .. Len(hidden) : /\ hidden[i] \in Field(J)
                                      /\ HiddenField(on, pol, h2, hidden[i]) = <<hidden[i]>>
                                      /\ cnt[hidden[i]] = ScanField(on, scans, hidden[i])
  <2>1. /\ DOMAIN hidden = 1 .. Len(hidden) /\ Len(hidden) \in Nat
        /\ \A i \in 1 .. Len(hidden) : hidden[i] \in G
    <3>. HIDE DEF G
    <3>. QED  BY <1>8, LenProperties, ElementOfSeq
  <2>2. \A i \in 1 .. Len(hidden) : hidden[i] \in Field(J)
    BY <1>6, <2>1
  <2>3. hidden \in Seq(Field(J))
    <3>1. hidden = [i \in 1 .. Len(hidden) |-> hidden[i]]
      <4>. HIDE DEF G
      <4>. QED  BY <1>8, <2>1
    <3>. QED  BY <2>1, <2>2, <3>1
  <2>4. \A i \in 1 .. Len(hidden) : HiddenField(on, pol, h2, hidden[i]) = <<hidden[i]>>
    BY <2>1 DEF Staying
  <2>. QED  BY <1>3, <2>1, <2>2, <2>3, <2>4
<1>11. RedactLevel(on, pol, inner, Obj(hidden)).value = Obj(hidden)
  <2>1. FieldsWalked(on, pol, J, inner, h2, c2, hidden)
    BY <1>3, <1>10, FieldsFacts
  <2>2. RedactLevel(on, pol, inner, Obj(hidden)) = RedactObject(on, pol, inner, hidden)
    BY JsonShapes DEF RedactLevel
  <2>3. FieldsLeft(on, pol, h2, hidden) = hidden
    <3>1. [i \in DOMAIN hidden |-> HiddenField(on, pol, h2, hidden[i])] =
            [i \in DOMAIN hidden |-> <<hidden[i]>>]
      BY <1>10
    <3>2. FlattenSeq([i \in DOMAIN hidden |-> <<hidden[i]>>]) = hidden
      BY <1>10, FlattenSingles
    <3>. QED  BY <3>1, <3>2 DEF FieldsLeft
  <2>. QED  BY <2>1, <2>2, <2>3 DEF FieldsWalked
<1>12. ScanLevel(on, scans, Obj(hidden)) = CountedIn(cnt, hidden)
  <2>1. [i \in DOMAIN hidden |-> ScanField(on, scans, hidden[i])] =
          [i \in DOMAIN hidden |-> cnt[hidden[i]]]
    BY <1>10
  <2>2. ScanLevel(on, scans, Obj(hidden)) =
          Merged([i \in DOMAIN hidden |-> ScanField(on, scans, hidden[i])])
    BY JsonShapes DEF ScanLevel
  <2>. QED  BY <2>1, <2>2 DEF CountedIn
<1>13. ScanLevel(on, c, v) = SecretsLevel(on, c, v)
  <2>1. v \in JsonLevel(ApartSpan, I) /\ v.type # "string"
    BY <1>1, JsonBuilds DEF IsObject
  <2>2. \A w \in I : c[w] \in Counts
    BY <1>2 DEF Settled
  <2>. QED  BY ONLY <2>1, <2>2, on \in SUBSET Kind, ScanCounts
<1>14. Fewer(ScanLevel(on, scans, Obj(hidden)), SecretsLevel(on, c, v))
  BY <1>7, <1>9, <1>12, <1>13
<1>. QED  BY <1>7, <1>11, <1>14 DEF AgainWalked, hidden

\* So is every value, if those below it are.
LEMMA AgainFacts ==
    ASSUME NEW on \in SUBSET Kind, NEW pol \in Policy, pol.iban_like = {},
           NEW I, NEW J, NEW inner, NEW scans, NEW h, NEW c,
           BelowFacts(on, pol, I, J, inner, scans, h, c), NEW v \in JsonLevel(ApartSpan, I)
    PROVE  AgainWalked(on, pol, inner, scans, h, c, v)
<1>1. CASE v.type = "string"
  BY <1>1, AgainLine
<1>2. CASE IsArray(v, I)
  BY <1>2, AgainArray
<1>3. CASE IsObject(v, I)
  BY <1>3, AgainObject
<1>4. CASE IsOther(v)
  <2>1. v.type = "other"
    BY <1>4 DEF IsOther
  <2>2. /\ HiddenLevel(on, pol, h, v) = v
        /\ RedactLevel(on, pol, inner, v).value = v
        /\ ScanLevel(on, scans, v) = NoCounts
    BY <2>1 DEF HiddenLevel, RedactLevel, ScanLevel
  <2>3. SecretsLevel(on, c, v) = NoCounts
    BY <2>1 DEF SecretsLevel, NoCounts
  <2>. QED  BY <2>2, <2>3, FewerNone, PlusFacts DEF AgainWalked
<1>. QED  BY <1>1, <1>2, <1>3, <1>4, JsonCases DEF IsText

-----------------------------------------------------------------------------
(* Every level.                                                             *)
\* A level of the walks is sound: raw values are hidden and counted once, a scan
\* counts as redaction does, and what is hidden is settled.
Sound(pol, I, J, inner, scans, h, c) ==
    /\ I \subseteq J /\ Marked(pol, J)
    /\ Typed(J, inner) /\ \A w \in J : scans[w] \in Counts
    /\ \A w \in I : inner[w] = [value |-> h[w], stats |-> c[w]] /\ scans[w] = c[w]
    /\ Settled(I, J, inner, scans, h, c)

\* Scans that agree below agree.
LEMMA ScansAlike ==
    ASSUME NEW on, NEW I, NEW scans, NEW c, \A w \in I : scans[w] = c[w],
           NEW spans, NEW v \in JsonLevel(spans, I)
    PROVE  ScanLevel(on, scans, v) = ScanLevel(on, c, v)
<1>1. CASE IsArray(v, I)
  <2>1. v.type = "array" /\ v.items \in Seq(I)
    BY <1>1 DEF IsArray
  <2>2. DOMAIN v.items = 1 .. Len(v.items) /\ \A i \in 1 .. Len(v.items) : v.items[i] \in I
    BY <2>1, LenProperties, ElementOfSeq
  <2>3. [i \in DOMAIN v.items |-> scans[v.items[i]]] = [i \in DOMAIN v.items |-> c[v.items[i]]]
    BY <2>2
  <2>. QED  BY <2>1, <2>3 DEF ScanLevel
<1>2. CASE IsObject(v, I)
  <2>1. v.type = "object" /\ v.fields \in Seq(Field(I))
    BY <1>2 DEF IsObject
  <2>2. /\ DOMAIN v.fields = 1 .. Len(v.fields)
        /\ \A i \in 1 .. Len(v.fields) : v.fields[i] \in Field(I)
    BY <2>1, LenProperties, ElementOfSeq
  <2>3. \A f \in Field(I) : ScanField(on, scans, f) = ScanField(on, c, f)
    BY DEF ScanField, Field
  <2>4. [i \in DOMAIN v.fields |-> ScanField(on, scans, v.fields[i])] =
          [i \in DOMAIN v.fields |-> ScanField(on, c, v.fields[i])]
    BY <2>2, <2>3
  <2>. QED  BY <2>1, <2>4 DEF ScanLevel
<1>3. CASE IsText(v, spans)
  BY <1>3 DEF IsText, ScanLevel
<1>4. CASE IsOther(v)
  BY <1>4 DEF IsOther, ScanLevel
<1>. QED  BY <1>1, <1>2, <1>3, <1>4, JsonCases

\* A scan gives counts.
LEMMA ScanTypes ==
    ASSUME NEW on \in SUBSET Kind, NEW pol \in Policy, NEW J, Marked(pol, J),
           NEW scans, \A w \in J : scans[w] \in Counts, NEW v \in JsonLevel(Span, J)
    PROVE  ScanLevel(on, scans, v) \in Counts
<1>1. CASE v.type = "string"
  <2>1. v.text \in Seq(Span)
    BY <1>1, JsonCases DEF IsOther, IsText, IsArray, IsObject
  <2>2. ScanPolicy \in Policy
    BY DEF ScanPolicy, Policy
  <2>3. RedactText(on, ScanPolicy, v.text) \in Texts
    BY <2>1, <2>2, TextTypes
  <2>. QED  BY <1>1, <2>3 DEF ScanLevel, Texts
<1>2. CASE v.type # "string"
  <2>. DEFINE h == [w \in J |-> w]
              inner == [w \in J |-> [value |-> w, stats |-> scans[w]]]
  <2>1. Walks(pol, J, J, inner, h, scans)
    BY DEF Walks, Marked
  <2>. HIDE DEF h, inner
  <2>2. LevelWalked(on, pol, J, inner, h, scans, v)
    BY <1>2, <2>1, LevelFacts
  <2>. QED  BY <2>2 DEF LevelWalked
<1>. QED  BY <1>1, <1>2

\* Raw spans are spans, those that stand apart among them.
LEMMA SpansAre == ApartSpan \subseteq RawSpan /\ RawSpan \subseteq Span
<1>1. {} \in SUBSET Kind /\ ScanPolicy \in Policy
  BY DEF ScanPolicy, Policy
<1>2. RawSpan \subseteq Span
  BY <1>1, SpanKinds
<1>. QED  BY <1>2 DEF ApartSpan

\* Values of raw texts are values.
LEMMA RawJsonIsJson ==
    ASSUME NEW spans, NEW above, spans \subseteq above, NEW I, NEW J, I \subseteq J
    PROVE  JsonLevel(spans, I) \subseteq JsonLevel(above, J)
<1>2. Field(I) \subseteq Field(J)
  BY DEF Field
<1>3. ASSUME NEW S, NEW T, S \subseteq T, NEW s \in Seq(S) PROVE s \in Seq(T)
  BY <1>3
<1>4. ASSUME NEW v \in JsonLevel(spans, I) PROVE v \in JsonLevel(above, J)
  <2>1. CASE IsText(v, spans)
    <3>1. v.text \in Seq(above)
      BY <1>3, <2>1 DEF IsText
    <3>. QED  BY <2>1, <3>1, JsonBuilds DEF IsText
  <2>2. CASE IsArray(v, I)
    <3>1. v.items \in Seq(J)
      BY <1>3, <2>2 DEF IsArray
    <3>. QED  BY <2>2, <3>1, JsonBuilds DEF IsArray
  <2>3. CASE IsObject(v, I)
    <3>1. v.fields \in Seq(Field(J))
      BY <1>2, <1>3, <2>3 DEF IsObject
    <3>. QED  BY <2>3, <3>1, JsonBuilds DEF IsObject
  <2>4. CASE IsOther(v)
    BY <2>4, JsonBuilds DEF IsOther
  <2>. QED  BY <2>1, <2>2, <2>3, <2>4, JsonCases
<1>. QED  BY <1>4

\* The next level of all the walks is sound.
SoundLevels(on, pol, I, J, inner, scans, h, c) ==
    Sound(pol, JsonLevel(ApartSpan, I), JsonLevel(Span, J),
          [v \in JsonLevel(Span, J) |-> RedactLevel(on, pol, inner, v)],
          [v \in JsonLevel(Span, J) |-> ScanLevel(on, scans, v)],
          [v \in JsonLevel(ApartSpan, I) |-> HiddenLevel(on, pol, h, v)],
          [v \in JsonLevel(ApartSpan, I) |-> SecretsLevel(on, c, v)])

\* It is, if the level below is.
LEMMA SoundNext ==
    ASSUME NEW on \in SUBSET Kind, NEW pol \in Policy, pol.iban_like = {},
           NEW I, NEW J, NEW inner, NEW scans, NEW h, NEW c, Sound(pol, I, J, inner, scans, h, c)
    PROVE  SoundLevels(on, pol, I, J, inner, scans, h, c)
<1>. DEFINE RawJ == JsonLevel(ApartSpan, I)
            AnyJ == JsonLevel(Span, J)
            r == [v \in AnyJ |-> RedactLevel(on, pol, inner, v)]
            s == [v \in AnyJ |-> ScanLevel(on, scans, v)]
            hs == [v \in RawJ |-> HiddenLevel(on, pol, h, v)]
            cs == [v \in RawJ |-> SecretsLevel(on, c, v)]
<1>1. /\ I \subseteq J /\ Marked(pol, J) /\ Typed(J, inner) /\ \A w \in J : scans[w] \in Counts
      /\ \A w \in I : scans[w] = c[w]
      /\ Settled(I, J, inner, scans, h, c)
  BY DEF Sound
<1>2. \A w \in I, kind \in Kind : Marker(pol, kind, w) \in J
  BY <1>1 DEF Marked
<1>3. Walks(pol, I, J, inner, h, c)
  <2>1. \A w \in I : inner[w] = [value |-> h[w], stats |-> c[w]] /\ h[w] \in J /\ c[w] \in Counts
    BY DEF Sound, Settled
  <2>. QED  BY <1>2, <2>1 DEF Walks
<1>4. BelowFacts(on, pol, I, J, inner, scans, h, c)
  BY <1>1, <1>2 DEF BelowFacts
<1>5. RawJ \subseteq AnyJ
  BY <1>1, SpansAre, RawJsonIsJson
<1>6. Typed(AnyJ, r)
  BY <1>1, LevelTypes
<1>7. \A v \in AnyJ : r[v] = RedactLevel(on, pol, inner, v) /\ s[v] = ScanLevel(on, scans, v)
  OBVIOUS
<1>8. \A v \in RawJ : hs[v] = HiddenLevel(on, pol, h, v) /\ cs[v] = SecretsLevel(on, c, v)
  OBVIOUS
<1>9. Marked(pol, AnyJ)
  BY TextsLevel DEF Marked
<1>. HIDE DEF r, s, hs, cs
<1>10. \A v \in AnyJ : s[v] \in Counts
  <2>1. \A v \in AnyJ : ScanLevel(on, scans, v) \in Counts
    BY <1>1, ScanTypes
  <2>. HIDE DEF AnyJ
  <2>. QED  BY <1>7, <2>1
<1>11. ASSUME NEW v \in RawJ
       PROVE  /\ r[v] = [value |-> hs[v], stats |-> cs[v]] /\ s[v] = cs[v]
              /\ hs[v] \in AnyJ /\ cs[v] \in Counts
              /\ r[hs[v]].value = hs[v]
              /\ Fewer(s[hs[v]], cs[v])
  <2>1. RawLevelWalked(on, pol, J, inner, h, c, v)
    BY <1>3, RawLevelFacts
  <2>2. AgainWalked(on, pol, inner, scans, h, c, v)
    BY <1>4, AgainFacts
  <2>3. ScanLevel(on, scans, v) = ScanLevel(on, c, v)
    BY <1>1, ScansAlike
  <2>4. v \in AnyJ /\ hs[v] = HiddenLevel(on, pol, h, v) /\ cs[v] = SecretsLevel(on, c, v)
    BY <1>5, <1>8
  <2>5. hs[v] \in AnyJ /\ cs[v] \in Counts
    BY <2>1, <2>4 DEF RawLevelWalked
  <2>. HIDE DEF AnyJ, RawJ
  <2>6. /\ r[v] = RedactLevel(on, pol, inner, v) /\ s[v] = ScanLevel(on, scans, v)
        /\ r[hs[v]] = RedactLevel(on, pol, inner, hs[v]) /\ s[hs[v]] = ScanLevel(on, scans, hs[v])
    BY <1>7, <2>4, <2>5
  <2>7. r[v] = [value |-> hs[v], stats |-> cs[v]] /\ s[v] = cs[v]
    BY <2>1, <2>3, <2>4, <2>6 DEF RawLevelWalked
  <2>8. r[hs[v]].value = hs[v] /\ Fewer(s[hs[v]], cs[v])
    BY <2>2, <2>4, <2>6 DEF AgainWalked
  <2>. QED  BY <2>5, <2>7, <2>8
<1>12. Sound(pol, RawJ, AnyJ, r, s, hs, cs)
  <2>. HIDE DEF RawJ, AnyJ
  <2>1. Settled(RawJ, AnyJ, r, s, hs, cs)
    BY <1>11 DEF Settled
  <2>. QED  BY <1>5, <1>6, <1>9, <1>10, <1>11, <2>1 DEF Sound
<1>. QED  BY <1>12 DEF SoundLevels, r, s, hs, cs

\* The walks at a depth.
SoundAt(on, pol, n) ==
    Sound(pol, Json(ApartSpan)[n], Json(Span)[n], RedactInner(on, pol)[n], ScanInner(on)[n],
          Hidden(on, pol)[n], Secrets(on)[n])

\* They are sound at every depth, by induction on it.
LEMMA SoundEverywhere ==
    ASSUME NEW on \in SUBSET Kind, NEW pol \in Policy, pol.iban_like = {}
    PROVE  \A n \in Nat : SoundAt(on, pol, n)
<1>. DEFINE I(n) == Below(Json(ApartSpan), n, {})
            J(n) == Below(Json(Span), n, {})
            r(n) == Below(RedactInner(on, pol), n, << >>)
            s(n) == Below(ScanInner(on), n, << >>)
            h(n) == Below(Hidden(on, pol), n, << >>)
            c(n) == Below(Secrets(on), n, << >>)
            T == {n \in Nat : SoundAt(on, pol, n)}
<1>1. ASSUME NEW n \in Nat
      PROVE  /\ Json(ApartSpan)[n] = JsonLevel(ApartSpan, I(n)) /\ Json(Span)[n] = JsonLevel(Span, J(n))
             /\ RedactInner(on, pol)[n] = [v \in Json(Span)[n] |-> RedactLevel(on, pol, r(n), v)]
             /\ ScanInner(on)[n] = [v \in Json(Span)[n] |-> ScanLevel(on, s(n), v)]
             /\ Hidden(on, pol)[n] = [v \in Json(ApartSpan)[n] |-> HiddenLevel(on, pol, h(n), v)]
             /\ Secrets(on)[n] = [v \in Json(ApartSpan)[n] |-> SecretsLevel(on, c(n), v)]
  <2>1. Json(ApartSpan)[n] = JsonLevel(ApartSpan, I(n)) /\ Json(Span)[n] = JsonLevel(Span, J(n))
    BY JsonLevels
  <2>2. RedactInner(on, pol)[n] = [v \in Json(Span)[n] |-> RedactLevel(on, pol, r(n), v)]
    BY RedactLevels
  <2>3. ScanInner(on)[n] = [v \in Json(Span)[n] |-> ScanLevel(on, s(n), v)]
    BY ScanLevels
  <2>4. Hidden(on, pol)[n] = [v \in Json(ApartSpan)[n] |-> HiddenLevel(on, pol, h(n), v)]
    BY HiddenLevels
  <2>5. Secrets(on)[n] = [v \in Json(ApartSpan)[n] |-> SecretsLevel(on, c(n), v)]
    BY SecretsLevels
  <2>. HIDE DEF I, J, r, s, h, c
  <2>. QED  BY <2>1, <2>2, <2>3, <2>4, <2>5
<1>2. ASSUME NEW n \in Nat, Sound(pol, I(n), J(n), r(n), s(n), h(n), c(n))
      PROVE  SoundAt(on, pol, n)
  <2>. HIDE DEF I, J, r, s, h, c
  <2>1. SoundLevels(on, pol, I(n), J(n), r(n), s(n), h(n), c(n))
    BY <1>2, SoundNext
  <2>. QED  BY <1>1, <2>1 DEF SoundLevels, SoundAt
<1>3. 0 \in T
  <2>1. Sound(pol, {}, {}, << >>, << >>, << >>, << >>)
    BY DEF Sound, Marked, Typed, Settled
  <2>2. I(0) = {} /\ J(0) = {} /\ r(0) = << >> /\ s(0) = << >> /\ h(0) = << >> /\ c(0) = << >>
    BY DEF Below
  <2>. HIDE DEF I, J, r, s, h, c
  <2>. QED  BY <1>2, <2>1, <2>2
<1>4. ASSUME NEW n \in Nat, n \in T PROVE n + 1 \in T
  <2>1. SoundAt(on, pol, n)
    BY <1>4
  <2>2. /\ I(n + 1) = Json(ApartSpan)[n] /\ J(n + 1) = Json(Span)[n]
        /\ r(n + 1) = RedactInner(on, pol)[n] /\ s(n + 1) = ScanInner(on)[n]
        /\ h(n + 1) = Hidden(on, pol)[n] /\ c(n + 1) = Secrets(on)[n]
    <3>1. n + 1 # 0 /\ (n + 1) - 1 = n
      OBVIOUS
    <3>. QED  BY <3>1 DEF Below
  <2>. HIDE DEF I, J, r, s, h, c
  <2>. QED  BY <1>2, <2>1, <2>2 DEF SoundAt
<1>. HIDE DEF T
<1>5. Nat \subseteq T
  BY <1>3, <1>4, InductionOverNat
<1>. QED  BY <1>5 DEF T

\* What the walk over a value counts is what a scan of it counts, whatever its
\* secrets are glued to.
Agreeing(pol, I, J, inner, scans) ==
    /\ I \subseteq J /\ Marked(pol, J) /\ Typed(J, inner)
    /\ \A w \in I : inner[w].stats = scans[w]

\* The next level of both walks.
AgreeingLevels(on, pol, I, J, inner, scans) ==
    Agreeing(pol, JsonLevel(RawSpan, I), JsonLevel(Span, J),
             [v \in JsonLevel(Span, J) |-> RedactLevel(on, pol, inner, v)],
             [v \in JsonLevel(Span, J) |-> ScanLevel(on, scans, v)])

\* They agree at a level, if they do below.
LEMMA AgreeingNext ==
    ASSUME NEW on \in SUBSET Kind, NEW pol \in Policy, pol.iban_like = {},
           NEW I, NEW J, NEW inner, NEW scans, Agreeing(pol, I, J, inner, scans)
    PROVE  AgreeingLevels(on, pol, I, J, inner, scans)
<1>. DEFINE RawJ == JsonLevel(RawSpan, I)
            AnyJ == JsonLevel(Span, J)
            r == [v \in AnyJ |-> RedactLevel(on, pol, inner, v)]
            s == [v \in AnyJ |-> ScanLevel(on, scans, v)]
            h == [w \in J |-> inner[w].value]
            c == [w \in J |-> inner[w].stats]
<1>1. /\ I \subseteq J /\ Marked(pol, J) /\ Typed(J, inner)
      /\ \A w \in I : inner[w].stats = scans[w]
  BY DEF Agreeing
<1>2. RawJ \subseteq AnyJ
  BY <1>1, SpansAre, RawJsonIsJson
<1>3. Marked(pol, AnyJ) /\ Typed(AnyJ, r)
  BY <1>1, TextsLevel, LevelTypes DEF Marked
<1>4. Walks(pol, J, J, inner, h, c)
  BY <1>1 DEF Walks, Typed, Marked
<1>5. \A w \in I : c[w] = scans[w]
  BY <1>1
<1>. HIDE DEF h, c
<1>6. ASSUME NEW v \in RawJ PROVE RedactLevel(on, pol, inner, v).stats = ScanLevel(on, scans, v)
  <2>1. CASE v.type = "string"
    <3>1. v.text \in Seq(RawSpan)
      BY <2>1, JsonCases DEF IsOther, IsText, IsArray, IsObject
    <3>2. ScanPolicy \in Policy /\ ScanPolicy.iban_like = {}
      BY DEF ScanPolicy, Policy
    <3>3. RedactText(on, pol, v.text).stats = RedactText(on, ScanPolicy, v.text).stats
      BY ONLY <3>1, <3>2, pol \in Policy, pol.iban_like = {}, TextAlike
    <3>. QED  BY <2>1, <3>3 DEF RedactLevel, ScanLevel
  <2>2. CASE v.type # "string"
    <3>1. v \in AnyJ
      BY <1>2
    <3>2. LevelWalked(on, pol, J, inner, h, c, v)
      BY <1>4, <2>2, <3>1, LevelFacts
    <3>3. ScanLevel(on, c, v) = ScanLevel(on, scans, v)
      BY <1>5, ScansAlike
    <3>. QED  BY <3>2, <3>3 DEF LevelWalked
  <2>. QED  BY <2>1, <2>2
<1>7. \A v \in AnyJ : r[v] = RedactLevel(on, pol, inner, v) /\ s[v] = ScanLevel(on, scans, v)
  OBVIOUS
<1>. HIDE DEF r, s
<1>8. Agreeing(pol, RawJ, AnyJ, r, s)
  <2>. HIDE DEF RawJ, AnyJ
  <2>. QED  BY <1>2, <1>3, <1>6, <1>7 DEF Agreeing
<1>. QED  BY <1>8 DEF AgreeingLevels, r, s

\* Both walks at a depth.
AgreeingAt(on, pol, n) ==
    Agreeing(pol, Json(RawSpan)[n], Json(Span)[n], RedactInner(on, pol)[n], ScanInner(on)[n])

\* They agree at every depth.
LEMMA AgreeingEverywhere ==
    ASSUME NEW on \in SUBSET Kind, NEW pol \in Policy, pol.iban_like = {}
    PROVE  \A n \in Nat : AgreeingAt(on, pol, n)
<1>. DEFINE I(n) == Below(Json(RawSpan), n, {})
            J(n) == Below(Json(Span), n, {})
            r(n) == Below(RedactInner(on, pol), n, << >>)
            s(n) == Below(ScanInner(on), n, << >>)
            T == {n \in Nat : AgreeingAt(on, pol, n)}
<1>1. ASSUME NEW n \in Nat
      PROVE  /\ Json(RawSpan)[n] = JsonLevel(RawSpan, I(n)) /\ Json(Span)[n] = JsonLevel(Span, J(n))
             /\ RedactInner(on, pol)[n] = [v \in Json(Span)[n] |-> RedactLevel(on, pol, r(n), v)]
             /\ ScanInner(on)[n] = [v \in Json(Span)[n] |-> ScanLevel(on, s(n), v)]
  <2>1. Json(RawSpan)[n] = JsonLevel(RawSpan, I(n)) /\ Json(Span)[n] = JsonLevel(Span, J(n))
    BY JsonLevels
  <2>2. RedactInner(on, pol)[n] = [v \in Json(Span)[n] |-> RedactLevel(on, pol, r(n), v)]
    BY RedactLevels
  <2>3. ScanInner(on)[n] = [v \in Json(Span)[n] |-> ScanLevel(on, s(n), v)]
    BY ScanLevels
  <2>. HIDE DEF I, J, r, s
  <2>. QED  BY <2>1, <2>2, <2>3
<1>2. ASSUME NEW n \in Nat, Agreeing(pol, I(n), J(n), r(n), s(n))
      PROVE  AgreeingAt(on, pol, n)
  <2>. HIDE DEF I, J, r, s
  <2>1. AgreeingLevels(on, pol, I(n), J(n), r(n), s(n))
    BY <1>2, AgreeingNext
  <2>. QED  BY <1>1, <2>1 DEF AgreeingLevels, AgreeingAt
<1>3. 0 \in T
  <2>1. Agreeing(pol, {}, {}, << >>, << >>)
    BY DEF Agreeing, Marked, Typed
  <2>2. I(0) = {} /\ J(0) = {} /\ r(0) = << >> /\ s(0) = << >>
    BY DEF Below
  <2>. HIDE DEF I, J, r, s
  <2>. QED  BY <1>2, <2>1, <2>2
<1>4. ASSUME NEW n \in Nat, n \in T PROVE n + 1 \in T
  <2>1. AgreeingAt(on, pol, n)
    BY <1>4
  <2>2. /\ I(n + 1) = Json(RawSpan)[n] /\ J(n + 1) = Json(Span)[n]
        /\ r(n + 1) = RedactInner(on, pol)[n] /\ s(n + 1) = ScanInner(on)[n]
    <3>1. n + 1 # 0 /\ (n + 1) - 1 = n
      OBVIOUS
    <3>. QED  BY <3>1 DEF Below
  <2>. HIDE DEF I, J, r, s
  <2>. QED  BY <1>2, <2>1, <2>2 DEF AgreeingAt
<1>. HIDE DEF T
<1>5. Nat \subseteq T
  BY <1>3, <1>4, InductionOverNat
<1>. QED  BY <1>5 DEF T

-----------------------------------------------------------------------------
(* The calls, in any order.                                                 *)
\* What is known of each call's result: that of a call on the value, or on what
\* redaction made of it.
EngineInv ==
    /\ value \in Values /\ enabled \in Detectors /\ policy \in Policies
    /\ policy.mode # "hash" => policy.iban_like = {}
    /\ scanned = None \/ scanned = ScanValue(value)
    /\ redacted = None \/ redacted = RedactValue(value)
    /\ again = None \/ (redacted.ok /\ again = RedactValue(redacted.value))
    /\ rescanned = None \/ (redacted.ok /\ rescanned = ScanValue(redacted.value))

\* Each result is that of a call on the value given, or on what redaction made of
\* it, in whatever order the calls are made.
THEOREM EngineResults == Spec => []EngineInv
<1>1. Init => EngineInv
  BY DEF Init, EngineInv
<1>2. EngineInv /\ [Next]_vars => EngineInv'
  <2>. SUFFICES ASSUME EngineInv, [Next]_vars PROVE EngineInv'
    OBVIOUS
  <2>1. ASSUME given' = given
        PROVE  /\ value' = value /\ enabled' = enabled /\ policy' = policy
               /\ \A v : ScanValue(v)' = ScanValue(v) /\ RedactValue(v)' = RedactValue(v)
    BY <2>1 DEF given, ScanValue, RedactValue
  <2>. HIDE DEF None
  <2>2. CASE Scan
    <3>1. /\ given' = given /\ redacted' = redacted /\ again' = again /\ rescanned' = rescanned
          /\ scanned' = ScanValue(value)
      BY <2>2 DEF Scan
    <3>. QED  BY <2>1, <3>1 DEF EngineInv
  <2>3. CASE Redact
    <3>1. /\ given' = given /\ scanned' = scanned /\ again' = again /\ rescanned' = rescanned
          /\ redacted' = RedactValue(value) /\ ~redacted.called
      BY <2>3 DEF Redact
    <3>2. again = None /\ rescanned = None
      <4>1. redacted.ok => redacted.called
        BY DEF EngineInv, None, RedactValue, Failed
      <4>. QED  BY <3>1, <4>1 DEF EngineInv
    <3>. QED  BY <2>1, <3>1, <3>2 DEF EngineInv
  <2>4. CASE Rescan
    <3>1. /\ given' = given /\ scanned' = scanned /\ again' = again /\ redacted' = redacted
          /\ rescanned' = ScanValue(redacted.value) /\ redacted.ok
      BY <2>4 DEF Rescan
    <3>. QED  BY <2>1, <3>1 DEF EngineInv
  <2>5. CASE RedactAgain
    <3>1. /\ given' = given /\ scanned' = scanned /\ rescanned' = rescanned /\ redacted' = redacted
          /\ again' = RedactValue(redacted.value) /\ redacted.ok
      BY <2>5 DEF RedactAgain
    <3>. QED  BY <2>1, <3>1 DEF EngineInv
  <2>6. CASE UNCHANGED vars
    <3>1. /\ given' = given /\ scanned' = scanned /\ rescanned' = rescanned
          /\ redacted' = redacted /\ again' = again
      BY <2>6 DEF vars
    <3>. QED  BY <2>1, <3>1 DEF EngineInv
  <2>. QED  BY <2>2, <2>3, <2>4, <2>5, <2>6 DEF Next
<1>. QED  BY <1>1, <1>2, PTL DEF Spec

\* What a result is made of, when hash mode takes no digest for an IBAN and the
\* secrets stand apart.
LEMMA ResultFacts ==
    ASSUME EngineInv, DigestsHold, StandApart
    PROVE  /\ redacted.ok => /\ redacted.value = Hidden(enabled, policy)[Depth][value]
                             /\ redacted.stats = Secrets(enabled)[Depth][value]
           /\ again.ok => again.value = redacted.value
           /\ redacted.ok /\ rescanned.ok => Fewer(rescanned.stats, redacted.stats)
<1>. DEFINE I == Json(ApartSpan)[Depth]
            J == Json(Span)[Depth]
            r == RedactInner(enabled, policy)[Depth]
            s == ScanInner(enabled)[Depth]
            h == Hidden(enabled, policy)[Depth]
            c == Secrets(enabled)[Depth]
<1>1. /\ value \in I /\ enabled \in SUBSET Kind /\ policy \in Policy /\ Depth \in Nat
      /\ policy.iban_like = {}
  BY DetectorsAssumption, PoliciesAssumption, DepthAssumption
     DEF EngineInv, DigestsHold, StandApart
<1>2. Sound(policy, I, J, r, s, h, c)
  <2>1. SoundAt(enabled, policy, Depth)
    BY <1>1, SoundEverywhere
  <2>. QED  BY <2>1 DEF SoundAt
<1>3. /\ \A v : ScanValue(v) = [ok |-> TRUE, called |-> TRUE, stats |-> s[v]]
      /\ \A v : \/ RedactValue(v) = Failed
                \/ RedactValue(v) = [ok |-> TRUE, called |-> TRUE,
                                     value |-> r[v].value, stats |-> r[v].stats]
  BY DEF ScanValue, RedactValue
<1>. HIDE DEF I, J, r, s, h, c
<1>4. /\ r[value] = [value |-> h[value], stats |-> c[value]]
      /\ r[h[value]].value = h[value] /\ Fewer(s[h[value]], c[value])
  BY <1>1, <1>2 DEF Sound, Settled
<1>5. None.ok = FALSE /\ Failed.ok = FALSE
  BY DEF None, Failed
<1>6. redacted.ok => redacted.value = h[value] /\ redacted.stats = c[value]
  BY <1>3, <1>4, <1>5 DEF EngineInv
<1>7. again.ok => again.value = redacted.value
  <2>. SUFFICES ASSUME again.ok PROVE again.value = redacted.value
    OBVIOUS
  <2>1. redacted.ok /\ again = RedactValue(redacted.value)
    BY <1>5 DEF EngineInv
  <2>2. again.value = r[redacted.value].value
    BY <1>3, <1>5, <2>1
  <2>. QED  BY <1>4, <1>6, <2>1, <2>2
<1>8. redacted.ok /\ rescanned.ok => Fewer(rescanned.stats, redacted.stats)
  <2>. SUFFICES ASSUME redacted.ok, rescanned.ok PROVE Fewer(rescanned.stats, redacted.stats)
    OBVIOUS
  <2>1. rescanned = ScanValue(redacted.value)
    BY <1>5 DEF EngineInv
  <2>2. rescanned.stats = s[redacted.value]
    BY <1>3, <2>1
  <2>. QED  BY <1>4, <1>6, <2>2
<1>. QED  BY <1>6, <1>7, <1>8 DEF h, c

\* Redaction hides every secret that stands apart, changes nothing else, and counts
\* each once (a bearer token in a cookie as a token and as a cookie), for every
\* value, choice of detectors, set of field names and mode (hash mode as long as
\* no digest of the key looks like an IBAN): what one pass leaves behind no later
\* pass takes for its own.
THEOREM SecretsHidden == Spec => []HidesEachSecret
<1>1. EngineInv => HidesEachSecret
  BY ResultFacts DEF HidesEachSecret
<1>. QED  BY <1>1, EngineResults, PTL

\* The report of a scan is the report of the redaction of the same value, although
\* scan_value_inner and redact_value_inner walk it separately, and although a scan
\* replaces by other marks; under the same condition on hash mode, and for secrets
\* glued to each other too.
THEOREM ScansAgree == Spec => []ScanAgrees
<1>1. ASSUME EngineInv, DigestsHold, scanned.ok, redacted.ok PROVE scanned.stats = redacted.stats
  <2>. DEFINE r == RedactInner(enabled, policy)[Depth]
              s == ScanInner(enabled)[Depth]
  <2>1. /\ value \in Json(RawSpan)[Depth] /\ enabled \in SUBSET Kind /\ policy \in Policy
        /\ Depth \in Nat /\ policy.iban_like = {}
    BY <1>1, ValuesAssumption, DetectorsAssumption, PoliciesAssumption, DepthAssumption
       DEF EngineInv, DigestsHold
  <2>2. AgreeingAt(enabled, policy, Depth)
    BY <2>1, AgreeingEverywhere
  <2>3. r[value].stats = s[value]
    BY <2>1, <2>2 DEF AgreeingAt, Agreeing
  <2>. HIDE DEF r, s
  <2>4. None.ok = FALSE /\ Failed.ok = FALSE
    BY DEF None, Failed
  <2>5. scanned.stats = s[value]
    BY <1>1, <2>4 DEF EngineInv, ScanValue, s
  <2>6. redacted.stats = r[value].stats
    BY <1>1, <2>4 DEF EngineInv, RedactValue, r
  <2>. QED  BY <2>3, <2>5, <2>6
<1>2. EngineInv => ScanAgrees
  BY <1>1 DEF ScanAgrees
<1>. QED  BY <1>2, EngineResults, PTL

\* Redacting a redacted value again changes nothing, in mask and in drop mode, if
\* its secrets stood apart.
THEOREM RedactionIsIdempotent == Spec => []RedactIsIdempotent
<1>1. EngineInv => RedactIsIdempotent
  <2>1. EngineInv /\ policy.mode # "hash" => DigestsHold
    BY DEF EngineInv, DigestsHold
  <2>. QED  BY <2>1, ResultFacts DEF RedactIsIdempotent
<1>. QED  BY <1>1, EngineResults, PTL

\* A scan of a redacted value counts no more of any kind than redaction did, and
\* nothing at all of the kinds a pattern finds, in mask and in drop mode, if its
\* secrets stood apart: no mark is taken for a secret.
THEOREM RescansFindNothingNew == Spec => []RescanFindsNothingNew
<1>1. EngineInv => RescanFindsNothingNew
  <2>1. EngineInv /\ policy.mode # "hash" => DigestsHold
    BY DEF EngineInv, DigestsHold
  <2>. QED  BY <2>1, ResultFacts DEF RescanFindsNothingNew, Fewer, FiveKinds
<1>. QED  BY <1>1, EngineResults, PTL

-----------------------------------------------------------------------------
(* The reports of a walk.                                                   *)
\* The stack is never empty and holds reports.
LEMMA WalkIsTyped == WalkSpec => []WalkTypeOK
  <1>1. WalkInit => WalkTypeOK
    BY EmptyReportFacts, MaxDepthAssumption DEF WalkInit, WalkTypeOK
  <1>2. WalkTypeOK /\ [WalkNext]_walk => WalkTypeOK'
    <2> SUFFICES ASSUME WalkTypeOK, [WalkNext]_walk PROVE WalkTypeOK'
      OBVIOUS
    <2> USE DEF WalkTypeOK
    <2>1. ASSUME NEW kind \in Enabled, RecordKind(kind) PROVE WalkTypeOK'
      <3>1. kind \in DetectorKind
        BY EnabledAssumption
      <3>2. Record(stack[Len(stack)], kind) \in Report
        BY <3>1, RecordFacts
      <3>3. Record(direct, kind) \in Report
        BY <3>1, RecordFacts
      <3> QED
        BY <2>1, <3>2, <3>3 DEF RecordKind
    <2>2. CASE Descend
      BY <2>2, EmptyReportFacts, MaxDepthAssumption DEF Descend
    <2>3. CASE Return
      <3> DEFINE caller == Len(stack) - 1
                 front == SubSeq(stack, 1, caller)
                 merged == Merge(stack[caller], stack[Len(stack)])
      <3>1. caller \in 1 .. Len(stack) /\ caller < Len(stack)
        BY <2>3 DEF Return
      <3>2. merged \in Report
        BY <3>1, MergeFacts
      <3>3. /\ front \in Seq(Report)
            /\ Len(front) = caller
            /\ DOMAIN front = 1 .. caller
            /\ \A i \in 1 .. caller : front[i] = stack[i]
        BY <3>1
      <3>4. stack' = [front EXCEPT ![caller] = merged] /\ direct' = direct
        BY <2>3, <3>1, <3>3 DEF Return
      <3> HIDE DEF front, caller, merged
      <3>5. stack' \in Seq(Report) /\ Len(stack') = caller
        BY <3>1, <3>2, <3>3, <3>4
      <3> QED
        BY <3>1, <3>4, <3>5, MaxDepthAssumption
    <2>4. CASE UNCHANGED walk
      BY <2>4 DEF walk
    <2> QED
      BY <2>1, <2>2, <2>3, <2>4 DEF WalkNext
  <1> QED
    BY <1>1, <1>2, PTL DEF WalkSpec


\* At every moment of a walk every report, finished or under construction,
\* shows as its total the sum of its counts by kind, capped at u64::MAX.
THEOREM TotalsAlwaysAgree == WalkSpec => []TotalsAgree
  <1>1. WalkInit => TotalsAgree
    BY EmptyReportFacts DEF WalkInit, TotalsAgree
  <1>2. WalkTypeOK /\ TotalsAgree /\ [WalkNext]_walk => TotalsAgree'
    <2> SUFFICES ASSUME WalkTypeOK, TotalsAgree, [WalkNext]_walk PROVE TotalsAgree'
      OBVIOUS
    <2> USE DEF WalkTypeOK, TotalsAgree
    <2>1. ASSUME NEW kind \in Enabled, RecordKind(kind) PROVE TotalsAgree'
      <3> DEFINE top == stack[Len(stack)]
      <3>1. top \in Report /\ TotalIsSaturatedSum(top)
        OBVIOUS
      <3>2. TotalIsSaturatedSum(Record(top, kind))
        BY <3>1, EnabledAssumption, RecordFacts
      <3>3. \A i \in DOMAIN stack' :
               stack'[i] = IF i = Len(stack) THEN Record(top, kind) ELSE stack[i]
        BY <2>1 DEF RecordKind
      <3>4. DOMAIN stack' = DOMAIN stack
        BY <2>1 DEF RecordKind
      <3> QED
        BY <3>2, <3>3, <3>4
    <2>2. CASE Descend
      BY <2>2, EmptyReportFacts DEF Descend
    <2>3. CASE Return
      <3> DEFINE caller == Len(stack) - 1
                 front == SubSeq(stack, 1, caller)
                 merged == Merge(stack[caller], stack[Len(stack)])
      <3>1. caller \in 1 .. Len(stack) /\ caller < Len(stack)
        BY <2>3 DEF Return
      <3>2. TotalIsSaturatedSum(merged)
        BY <3>1, MergeFacts
      <3>3. /\ front \in Seq(Report)
            /\ Len(front) = caller
            /\ DOMAIN front = 1 .. caller
            /\ \A i \in 1 .. caller : front[i] = stack[i]
        BY <3>1
      <3>4. stack' = [front EXCEPT ![caller] = merged]
        BY <2>3, <3>1, <3>3 DEF Return
      <3> HIDE DEF front, caller, merged
      <3>5. DOMAIN stack' = 1 .. caller
        BY <3>3, <3>4
      <3>6. \A i \in 1 .. caller :
               stack'[i] = IF i = caller THEN merged ELSE stack[i]
        BY <3>1, <3>3, <3>4
      <3> QED
        BY <3>1, <3>2, <3>5, <3>6
    <2>4. CASE UNCHANGED walk
      BY <2>4 DEF walk
    <2> QED
      BY <2>1, <2>2, <2>3, <2>4 DEF WalkNext
  <1> QED
    BY <1>1, <1>2, WalkIsTyped, PTL DEF WalkSpec

-----------------------------------------------------------------------------
(* The open reports, merged from the outermost to the innermost.             *)
MergedReports(s) == FoldLeft(Merge, EmptyReport, s)

\* The fold as a running report: what the first j reports come to.
LEMMA MergedPrefixes ==
    ASSUME NEW s \in Seq(Report)
    PROVE  \E f \in [0 .. Len(s) -> Report] :
              /\ f[0] = EmptyReport
              /\ \A j \in 1 .. Len(s) : f[j] = Merge(f[j - 1], s[j])
              /\ MergedReports(s) = f[Len(s)]
<1>. DEFINE n == Len(s)
            D == DOMAIN s
            last == [d \in SUBSET D |-> Max(d)]
            step == [p \in D \X Report |-> Merge(p[2], s[p[1]])]
            Value(g, d) == IF d = {} THEN EmptyReport
                           ELSE LET x == Max(d) IN Merge(g[d \ {x}], s[x])
            iter == CHOOSE g : g = [d \in SUBSET D |-> Value(g, d)]
<1>1. MergedReports(s) = iter[D]
  BY DEF FoldLeft, MapThenFoldSet, MergedReports
<1>2. n \in Nat /\ D = 1 .. n /\ \A i \in D : s[i] \in Report
  BY LenProperties, ElementOfSeq
<1>3. ASSUME NEW d \in SUBSET D, d # {} PROVE Max(d) \in d /\ \A y \in d : Max(d) >= y
  <2>1. \E x \in d : \A y \in d : x >= y
    BY <1>2, <1>3, GreatestUpTo
  <2>. QED  BY <2>1 DEF Max
<1>4. step \in [D \X Report -> Report] /\ TakesLast(last, n)
  BY <1>2, <1>3, MergeFacts DEF TakesLast
<1>5. PICK g \in [SUBSET D -> Report] : IsFold(g, D, EmptyReport, last, step)
  <2>. HIDE DEF step, last, D
  <2>. QED  BY <1>2, <1>4, LeftFoldExists, EmptyReportFacts
<1>6. ASSUME NEW d \in SUBSET D PROVE g[d] = Value(g, d)
  <2>1. d # {} => Max(d) \in D /\ d \ {Max(d)} \in SUBSET D
    BY <1>3
  <2>. QED  BY <1>5, <2>1 DEF IsFold
<1>7. iter = [d \in SUBSET D |-> Value(iter, d)]
  <2>. HIDE DEF Value, D
  <2>1. g = [d \in SUBSET D |-> Value(g, d)]
    BY <1>6
  <2>. QED  BY <2>1
<1>. HIDE DEF iter
<1>8. Follows(iter, D, Report, EmptyReport, last, step)
  <2>1. ASSUME NEW d \in SUBSET D PROVE iter[d] = Value(iter, d)
    <3>. HIDE DEF Value, D
    <3>. QED  BY <1>7
  <2>2. ASSUME NEW d \in SUBSET D, d # {}, iter[d \ {last[d]}] \in Report
        PROVE  iter[d] = step[<<last[d], iter[d \ {last[d]}]>>]
    <3>1. last[d] = Max(d) /\ Max(d) \in D
      BY <1>3, <2>2
    <3>. QED  BY <2>1, <2>2, <3>1
  <2>. QED  BY <2>1, <2>2 DEF Follows
<1>9. PICK f \in [0 .. n -> Report] : RunsTo(f, n, EmptyReport, step, iter[D])
  <2>. HIDE DEF step, last, D
  <2>. QED  BY <1>2, <1>4, <1>8, FoldRuns, EmptyReportFacts
<1>10. ASSUME NEW j \in 1 .. n PROVE f[j] = Merge(f[j - 1], s[j])
  <2>1. j \in D /\ j - 1 \in 0 .. n
    BY <1>2
  <2>. QED  BY <1>9, <2>1 DEF RunsTo, IsRun
<1>. QED  BY <1>1, <1>9, <1>10 DEF RunsTo, IsRun

\* Reports merge to a report.
LEMMA MergedTypes == \A s \in Seq(Report) : MergedReports(s) \in Report
<1>. SUFFICES ASSUME NEW s \in Seq(Report) PROVE MergedReports(s) \in Report
  OBVIOUS
<1>1. Len(s) \in 0 .. Len(s)
  BY LenProperties
<1>. QED  BY <1>1, MergedPrefixes

\* Of two stacks, one with a report more than the other.
LEMMA MergedLast ==
    ASSUME NEW s \in Seq(Report), NEW t \in Seq(Report), Len(t) = Len(s) + 1,
           \A i \in 1 .. Len(s) : t[i] = s[i]
    PROVE  MergedReports(t) = Merge(MergedReports(s), t[Len(t)])
<1>1. Len(s) \in Nat
  BY LenProperties
<1>2. PICK f \in [0 .. Len(s) -> Report] :
        /\ f[0] = EmptyReport
        /\ \A j \in 1 .. Len(s) : f[j] = Merge(f[j - 1], s[j])
        /\ MergedReports(s) = f[Len(s)]
  BY MergedPrefixes
<1>3. PICK g \in [0 .. Len(t) -> Report] :
        /\ g[0] = EmptyReport
        /\ \A j \in 1 .. Len(t) : g[j] = Merge(g[j - 1], t[j])
        /\ MergedReports(t) = g[Len(t)]
  BY MergedPrefixes
<1>4. f[0] = g[0] /\ \A j \in 1 .. Len(s) : f[j - 1] = g[j - 1] => f[j] = g[j]
  <2>1. ASSUME NEW j \in 1 .. Len(s), f[j - 1] = g[j - 1] PROVE f[j] = g[j]
    <3>1. j \in 1 .. Len(t)
      BY <1>1
    <3>. QED  BY <1>2, <1>3, <2>1, <3>1
  <2>. QED  BY <1>2, <1>3, <2>1
<1>5. f[Len(s)] = g[Len(s)]
  BY ONLY <1>1, <1>4, RunsAgree
<1>6. Len(t) \in 1 .. Len(t) /\ Len(t) - 1 = Len(s)
  BY <1>1
<1>. QED  BY <1>1, <1>2, <1>3, <1>5, <1>6

\* The first reports of a stack.
LEMMA FirstOf ==
    ASSUME NEW s \in Seq(Report), NEW m \in 0 .. Len(s)
    PROVE  /\ SubSeq(s, 1, m) \in Seq(Report) /\ Len(SubSeq(s, 1, m)) = m
           /\ \A i \in 1 .. m : SubSeq(s, 1, m)[i] = s[i]
  <1>1. 1 \in Int /\ m \in Int /\ \A i \in 1 .. m : s[i] \in Report
    BY LenProperties, ElementOfSeq
  <1>2. /\ SubSeq(s, 1, m) \in Seq(Report)
        /\ Len(SubSeq(s, 1, m)) = IF 1 <= m THEN m - 1 + 1 ELSE 0
        /\ \A i \in 1 .. m - 1 + 1 : SubSeq(s, 1, m)[i] = s[1 + i - 1]
    BY <1>1, SubSeqProperties
  <1> QED
    BY <1>1, <1>2

\* However the input nests and wherever its calls return, the open reports come,
\* merged, to the report on which each detection was recorded directly.
THEOREM WalkAlwaysMergesAll == WalkSpec => []WalkMergesAll
  <1>1. WalkInit => WalkMergesAll
    <2> SUFFICES ASSUME WalkInit PROVE MergedReports(stack) = direct
      BY DEF WalkMergesAll, MergedReports
    <2>1. << >> \in Seq(Report) /\ Len(<< >>) = 0
      BY EmptySeq
    <2>2. PICK f \in [0 .. 0 -> Report] : f[0] = EmptyReport /\ MergedReports(<< >>) = f[0]
      BY <2>1, MergedPrefixes
    <2>3. stack \in Seq(Report) /\ Len(stack) = 1 /\ stack[1] = EmptyReport
      BY EmptyReportFacts DEF WalkInit
    <2>4. MergedReports(stack) = Merge(EmptyReport, EmptyReport)
      <3>1. Len(stack) = Len(<< >>) + 1 /\ \A i \in 1 .. Len(<< >>) : stack[i] = << >>[i]
        BY <2>1, <2>3
      <3>2. MergedReports(stack) = Merge(MergedReports(<< >>), stack[1])
        BY ONLY <2>1, <2>3, <3>1, MergedLast
      <3> QED
        BY <2>2, <2>3, <3>2
    <2> QED
      BY <2>4, EmptyReportFacts, MergeAssociative DEF WalkInit
  <1>2. WalkTypeOK /\ WalkMergesAll /\ [WalkNext]_walk => WalkMergesAll'
    <2> SUFFICES ASSUME WalkTypeOK, MergedReports(stack) = direct, [WalkNext]_walk
                 PROVE MergedReports(stack') = direct'
      BY DEF WalkMergesAll, MergedReports
    <2> DEFINE n == Len(stack)
               front == SubSeq(stack, 1, n - 1)
               top == stack[n]
    <2>1. /\ stack \in Seq(Report) /\ n \in Nat \ {0} /\ top \in Report /\ direct \in Report
          /\ Len(stack) = n
      BY MaxDepthAssumption DEF WalkTypeOK
    <2>2. /\ front \in Seq(Report) /\ Len(front) = n - 1
          /\ \A i \in 1 .. n - 1 : front[i] = stack[i]
      <3>1. n - 1 \in 0 .. n
        BY <2>1
      <3> HIDE DEF n
      <3> QED
        BY <2>1, <3>1, FirstOf
    <2>3. MergedReports(front) \in Report /\ direct = Merge(MergedReports(front), top)
      <3>1. Len(stack) = Len(front) + 1 /\ \A i \in 1 .. Len(front) : stack[i] = front[i]
        BY <2>1, <2>2
      <3>. HIDE DEF front, n, top
      <3>2. MergedReports(stack) = Merge(MergedReports(front), stack[Len(stack)])
        BY <2>1, <2>2, <3>1, MergedLast
      <3> QED
        BY <2>1, <2>2, <3>2, MergedTypes DEF top
    <2>4. ASSUME NEW kind \in Enabled, RecordKind(kind) PROVE MergedReports(stack') = direct'
      <3>1. kind \in DetectorKind /\ Record(top, kind) \in Report
        BY <2>1, EnabledAssumption, RecordFacts
      <3>2. /\ stack' \in Seq(Report) /\ Len(stack') = n /\ stack'[n] = Record(top, kind)
            /\ \A i \in 1 .. n - 1 : stack'[i] = front[i]
        BY <2>1, <2>2, <2>4, <3>1 DEF RecordKind
      <3>3. Len(stack') = Len(front) + 1 /\ \A i \in 1 .. Len(front) : stack'[i] = front[i]
        BY <2>1, <2>2, <3>2
      <3> HIDE DEF front, n, top
      <3>4. MergedReports(stack') = Merge(MergedReports(front), Record(top, kind))
        BY <2>2, <3>2, <3>3, MergedLast
      <3> QED
        BY <2>1, <2>3, <2>4, <3>1, <3>4, MergeAssociative DEF RecordKind
    <2>5. CASE Descend
      <3>1. /\ stack' \in Seq(Report) /\ Len(stack') = Len(stack) + 1
            /\ stack'[Len(stack')] = EmptyReport
            /\ \A i \in 1 .. Len(stack) : stack'[i] = stack[i]
        BY <2>1, <2>5, EmptyReportFacts DEF Descend
      <3>2. MergedReports(stack') = Merge(MergedReports(stack), EmptyReport)
        BY <2>1, <3>1, MergedLast
      <3> QED
        BY <2>1, <2>5, <3>2, MergeAssociative DEF Descend
    <2>6. CASE Return
      <3> DEFINE callers == SubSeq(stack, 1, n - 2)
                 caller == stack[n - 1]
      <3>1. n - 1 \in 1 .. n /\ n - 2 \in Nat
        BY <2>1, <2>6 DEF Return
      <3>2. /\ callers \in Seq(Report) /\ Len(callers) = n - 2
            /\ \A i \in 1 .. n - 2 : callers[i] = stack[i]
            /\ caller \in Report
        <4>1. n - 2 \in 0 .. n
          BY <3>1
        <4> HIDE DEF n
        <4> QED
          BY <2>1, <3>1, <4>1, FirstOf
      <3>3. Merge(caller, top) \in Report
        BY <2>1, <3>2, MergeFacts
      <3>4. /\ stack' \in Seq(Report) /\ Len(stack') = n - 1
            /\ stack'[n - 1] = Merge(caller, top)
            /\ \A i \in 1 .. n - 2 : stack'[i] = stack[i]
        <4>1. stack' = [front EXCEPT ![n - 1] = Merge(caller, top)]
          BY <2>1, <2>2, <2>6, <3>1 DEF Return
        <4> HIDE DEF front, caller, top
        <4> QED
          BY <2>1, <2>2, <3>1, <3>3, <4>1
      <3>5. MergedReports(front) = Merge(MergedReports(callers), caller)
        <4>1. Len(front) = Len(callers) + 1 /\ front[Len(front)] = caller
              /\ \A i \in 1 .. Len(callers) : front[i] = callers[i]
          BY <2>1, <2>2, <3>1, <3>2
        <4> HIDE DEF front, caller, callers
        <4> QED
          BY <2>2, <3>2, <4>1, MergedLast
      <3>6. MergedReports(stack') = Merge(MergedReports(callers), Merge(caller, top))
        <4>1. Len(stack') = Len(callers) + 1 /\ stack'[Len(stack')] = Merge(caller, top)
              /\ \A i \in 1 .. Len(callers) : stack'[i] = callers[i]
          BY <2>1, <3>1, <3>2, <3>4
        <4> HIDE DEF callers, caller, top
        <4> QED
          BY <3>2, <3>4, <4>1, MergedLast
      <3>7. direct' = direct /\ MergedReports(callers) \in Report
        BY <2>6, <3>2, MergedTypes DEF Return
      <3> HIDE DEF front, callers, caller, top
      <3> QED
        BY <2>1, <2>3, <3>2, <3>5, <3>6, <3>7, MergeAssociative
    <2>7. CASE UNCHANGED walk
      BY <2>7 DEF walk
    <2> QED
      BY <2>4, <2>5, <2>6, <2>7 DEF WalkNext
  <1> QED
    BY <1>1, <1>2, WalkIsTyped, PTL DEF WalkSpec
=============================================================================
