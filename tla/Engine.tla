------------------------------- MODULE Engine --------------------------------
(***************************************************************************)
(* The engine of crates/privacy_proxy_core/src/engine.rs: the passes over  *)
(* a text, the walk over a JSON value, the field rules and the replacement *)
(* policies, and the calls that redact a value, scan it, and do either     *)
(* again on the result.                                                    *)
(*                                                                         *)
(* A text is a sequence of spans, the parts that a detector's pattern can  *)
(* tell apart: where the span stands (after "Bearer ", in a cookie, in a   *)
(* sensitive URL parameter, in a cookie's value one of these, or anywhere) *)
(* and what stands there.  Field names are as normalized.  Counts are kept *)
(* as a function of the kind; ScanReport models the report itself.         *)
(*                                                                         *)
(* What walks a value is a function of how deep the value is, and then of  *)
(* the value: each level asks the one below.  `on' is config.redact, and a *)
(* policy the mode with what its key makes of the secrets.                 *)
(***************************************************************************)
EXTENDS Integers, Sequences, FiniteSets, SequencesExt, Functions

CONSTANTS Deny, Allow,     \* fields_deny and fields_allow, normalized
          Depth,           \* how deep values nest (serde_json stops at 128)
          Values,          \* the JSON values to redact
          Detectors,       \* the choices of config.redact
          Policies         \* the modes, and the keys that hash mode may have

Kind == {"email", "ip", "jwt", "bearer_token", "api_key", "cookie",
         "credit_card", "iban", "url_sensitive_params"}

ASSUME NamesAssumption == \A name \in Deny \cup Allow : name # ""
ASSUME DepthAssumption == Depth \in Nat
ASSUME DetectorsAssumption == Detectors \subseteq SUBSET Kind

VARIABLES value,        \* the value given to the engine
          enabled,      \* config.redact
          policy,       \* config.mode, and the digests of its key
          key,          \* the environment holds a hash key; of no use but to hash
          scanned, redacted, again, rescanned      \* results, or None

given == <<value, enabled, policy, key>>
vars == <<given, scanned, redacted, again, rescanned>>

-----------------------------------------------------------------------------
(* What stands in a span: raw, a secret of its kind ("none": no detector    *)
(* knows it by itself), or a replacement in one of the three modes.  iban:  *)
(* the digest in it matches the IBAN pass.  broken: that pass replaced part *)
(* of the digest.  glued: the span begins right behind the one before, with *)
(* no word boundary between them, as it can behind an IBAN or IPv6 address. *)
Raw(kind) == [form |-> "raw", kind |-> kind, iban |-> FALSE]

BearerPlaces == {"bearer", "bearer in a cookie"}
CookiePlaces == {"cookie", "bearer in a cookie", "param in a cookie"}
ParamPlaces == {"param", "param in a cookie"}
Place == {"plain"} \cup BearerPlaces \cup CookiePlaces \cup ParamPlaces
Secret == {"none", "email", "ip", "jwt", "credit_card", "iban"}

Span == [place : Place, glued : BOOLEAN,
         val : [form : {"raw", "mask", "hash", "drop", "broken"},
                kind : Kind \cup {"none"}, iban : BOOLEAN]]
RawSpan == [place : Place, glued : BOOLEAN, val : {Raw(kind) : kind \in Secret}]

\* iban_like: the secrets whose digest under the key starts like an IBAN.
Policy == [mode : {"mask", "hash", "drop"}, iban_like : SUBSET Secret]

\* ReplacementPolicy::scan.
ScanPolicy == [mode |-> "mask", iban_like |-> {}]

\* ReplacementPolicy::replacement.
Replacement(pol, kind, material) ==
    [form |-> pol.mode, kind |-> kind,
     iban |-> pol.mode = "hash" /\ material.form = "raw" /\ material.kind \in pol.iban_like]

\* Mutant: the passes in another order.
PassesEmailFirst == <<"email", "bearer_token", "cookie", "url_sensitive_params", "jwt",
                      "ip", "iban", "credit_card">>

\* The order of redact_str_with_policy.
Passes == <<"bearer_token", "cookie", "url_sensitive_params", "jwt", "email",
            "ip", "iban", "credit_card">>

\* "Bearer " and a token of eight characters or more; a mark is no token.
BearerMatches(s) == s.place \in BearerPlaces /\ s.val.form = "raw"

\* redact_cookie_body and redact_sensitive_url replace a value (of a cookie,
\* one that is not blank) by its name, whatever it is, marks included.
CookieMatches(s) == s.place \in CookiePlaces
ParamMatches(s) == s.place \in ParamPlaces

\* The other passes go by the value itself, wherever it stands.
PatternMatches(kind, s) == s.val = Raw(kind)

\* valid_iban_span finds an IBAN, or takes a digest for one.
IbanMatches(s) == s.val = Raw("iban") \/ s.val.iban

Matches(kind, s) ==
    \/ kind = "bearer_token" /\ BearerMatches(s)
    \/ kind = "cookie" /\ CookieMatches(s)
    \/ kind = "url_sensitive_params" /\ ParamMatches(s)
    \/ kind \in {"jwt", "email", "ip", "credit_card"} /\ PatternMatches(kind, s)
    \/ kind = "iban" /\ IbanMatches(s)

\* A pattern begins at a word boundary, as there is in front of a span unless
\* it is glued to one that is raw yet: a mark ends with a bracket.
IsFree(text, i) == text[i].glued => i = 1 \/ text[i - 1].val.form # "raw"

\* What find_iter and captures_iter find in the text that the pass was given.
Found(kind, text) == {i \in DOMAIN text : IsFree(text, i) /\ Matches(kind, text[i])}

\* A cookie's value goes as a whole, with what it has inside.
Replace(pol, kind, s) ==
    IF kind = "iban" /\ s.val.form = "hash"
    THEN [s EXCEPT !.val.form = "broken", !.val.iban = FALSE]
    ELSE [s EXCEPT !.val = Replacement(pol, kind, s.val),
                   !.place = IF kind = "cookie" THEN "cookie" ELSE @]

Counts == [Kind -> Nat]
NoCounts == [k \in Kind |-> 0]
Plus(c, d) == [k \in Kind |-> c[k] + d[k]]
Counted(kind, n) == [NoCounts EXCEPT ![kind] = n]

\* stats.merge, for one part after the other.
Merged(parts) == FoldLeft(Plus, NoCounts, parts)

Replaced(pol, kind, text, found) ==
    [i \in DOMAIN text |-> IF i \in found THEN Replace(pol, kind, text[i]) ELSE text[i]]

\* Mutant: the pass replaces the first match only.
PassFirstOnly(on, pol, acc, kind) ==
    LET found == Found(kind, acc.text)
        first == {i \in found : \A j \in found : i <= j}
    IN  IF kind \notin on THEN acc
        ELSE [text |-> Replaced(pol, kind, acc.text, first),
              stats |-> Plus(acc.stats, Counted(kind, Cardinality(first)))]

Pass(on, pol, acc, kind) ==
    LET found == Found(kind, acc.text)
    IN  IF kind \notin on THEN acc
        ELSE [text |-> Replaced(pol, kind, acc.text, found),
              stats |-> Plus(acc.stats, Counted(kind, Cardinality(found)))]

RedactText(on, pol, text) ==
    FoldLeft(LAMBDA acc, kind : Pass(on, pol, acc, kind),
             [text |-> text, stats |-> NoCounts], Passes)

-----------------------------------------------------------------------------
(* Field rules.                                                             *)
\* str::contains, letter for letter.
HasPart(name, part) ==
    \E i \in 0 .. Len(name) - Len(part) : SubSeq(name, i + 1, i + Len(part)) = part

\* FieldRules::kind_for_field; an allowed name wins.
Denied(name) ==
    /\ name # "" /\ name \notin Allow
    /\ \E d \in Deny : name = d \/ (Len(d) >= 5 /\ HasPart(name, d))

KindForField(name) ==
    IF ~Denied(name) THEN "none"
    ELSE IF HasPart(name, "cookie") THEN "cookie"
    ELSE IF HasPart(name, "authorization") \/ HasPart(name, "bearer") THEN "bearer_token"
    ELSE "api_key"

-----------------------------------------------------------------------------
(* The walk.  JSON values: strings, arrays, objects with their fields in    *)
(* order, and the others, which hold no text.                               *)
Str(text) == [type |-> "string", text |-> text]
Arr(items) == [type |-> "array", items |-> items]
Obj(fields) == [type |-> "object", fields |-> fields]
Other == [type |-> "other"]

\* The values whose texts are such spans, and the functions on values, by depth:
\* what a level finds below itself, where nothing is below the first.
Below(level, n, least) == IF n = 0 THEN least ELSE level[n - 1]

JsonLevel(spans, inner) ==
    [type : {"other"}] \cup [type : {"string"}, text : Seq(spans)]
      \cup [type : {"array"}, items : Seq(inner)]
      \cup [type : {"object"}, fields : Seq([name : STRING, value : inner])]

Json(spans) == LET json[n \in Nat] == JsonLevel(spans, Below(json, n, {})) IN json

ASSUME PoliciesAssumption == Policies \subseteq Policy
ASSUME ValuesAssumption == Values \subseteq Json(RawSpan)[Depth]

\* value_hash_material: any value can be hashed.
Material(v) == IF v.type = "string" /\ Len(v.text) = 1 THEN v.text[1].val ELSE Raw("none")

Marker(pol, kind, v) ==
    Str(<<[place |-> "plain", glued |-> FALSE, val |-> Replacement(pol, kind, Material(v))]>>)

\* One turn of the loop of redact_object.
RedactField(on, pol, inner, out, f) ==
    LET kind == KindForField(f.name)
    IN  IF kind \in on
        THEN [value |-> IF pol.mode = "drop" THEN out.value
                        ELSE Append(out.value, [name |-> f.name,
                                                value |-> Marker(pol, kind, f.value)]),
              stats |-> Plus(out.stats, Counted(kind, 1))]
        ELSE [value |-> Append(out.value, [name |-> f.name, value |-> inner[f.value].value]),
              stats |-> Plus(out.stats, inner[f.value].stats)]

RedactObject(on, pol, inner, fields) ==
    LET all == FoldLeft(LAMBDA out, f : RedactField(on, pol, inner, out, f),
                        [value |-> << >>, stats |-> NoCounts], fields)
    IN  [value |-> Obj(all.value), stats |-> all.stats]

RedactArray(inner, items) ==
    [value |-> Arr([i \in DOMAIN items |-> inner[items[i]].value]),
     stats |-> Merged([i \in DOMAIN items |-> inner[items[i]].stats])]

\* redact_value_inner.
RedactLevel(on, pol, inner, v) ==
    CASE v.type = "object" -> RedactObject(on, pol, inner, v.fields)
      [] v.type = "array" -> RedactArray(inner, v.items)
      [] v.type = "string" -> LET r == RedactText(on, pol, v.text)
                              IN  [value |-> Str(r.text), stats |-> r.stats]
      [] v.type = "other" -> [value |-> v, stats |-> NoCounts]

RedactInner(on, pol) ==
    LET redacts[n \in Nat] ==
          [v \in Json(Span)[n] |-> RedactLevel(on, pol, Below(redacts, n, << >>), v)]
    IN  redacts

\* Mutant: scan descends into a field it has counted.
ScanFieldTwice(on, inner, f) ==
    Plus(IF KindForField(f.name) \in on THEN Counted(KindForField(f.name), 1) ELSE NoCounts,
         inner[f.value])

ScanField(on, inner, f) ==
    IF KindForField(f.name) \in on THEN Counted(KindForField(f.name), 1) ELSE inner[f.value]

\* scan_value_inner; scan_str redacts with the mask policy and keeps the report.
ScanLevel(on, inner, v) ==
    CASE v.type = "object" ->
           Merged([i \in DOMAIN v.fields |-> ScanField(on, inner, v.fields[i])])
      [] v.type = "array" -> Merged([i \in DOMAIN v.items |-> inner[v.items[i]]])
      [] v.type = "string" -> RedactText(on, ScanPolicy, v.text).stats
      [] v.type = "other" -> NoCounts

ScanInner(on) ==
    LET scans[n \in Nat] ==
          [v \in Json(Span)[n] |-> ScanLevel(on, Below(scans, n, << >>), v)]
    IN  scans

-----------------------------------------------------------------------------
(* The calls.  ReplacementPolicy::from_config needs the key in hash mode.   *)
None == [ok |-> FALSE, called |-> FALSE]
Failed == [ok |-> FALSE, called |-> TRUE]

ScanValue(v) == [ok |-> TRUE, called |-> TRUE, stats |-> ScanInner(enabled)[Depth][v]]

RedactValue(v) ==
    IF policy.mode = "hash" /\ ~key THEN Failed
    ELSE LET r == RedactInner(enabled, policy)[Depth][v]
         IN  [ok |-> TRUE, called |-> TRUE, value |-> r.value, stats |-> r.stats]

Init == /\ value \in Values
        /\ enabled \in Detectors
        /\ policy \in Policies
        /\ key \in BOOLEAN
        /\ policy.mode # "hash" => key /\ policy.iban_like = {}
        /\ scanned = None /\ redacted = None /\ again = None /\ rescanned = None

Scan == /\ ~scanned.called
        /\ scanned' = ScanValue(value)
        /\ UNCHANGED <<given, redacted, again, rescanned>>

Redact == /\ ~redacted.called
          /\ redacted' = RedactValue(value)
          /\ UNCHANGED <<given, scanned, again, rescanned>>

\* The result is scanned, as after `redact', or redacted once more.
Rescan == /\ redacted.ok /\ ~rescanned.called
          /\ rescanned' = ScanValue(redacted.value)
          /\ UNCHANGED <<given, scanned, redacted, again>>

RedactAgain == /\ redacted.ok /\ ~again.called
               /\ again' = RedactValue(redacted.value)
               /\ UNCHANGED <<given, scanned, redacted, rescanned>>

Next == Scan \/ Redact \/ Rescan \/ RedactAgain

Spec == Init /\ [][Next]_vars

-----------------------------------------------------------------------------
(* What the engine promises, without passes: a span is hidden for the place *)
(* it stands in, the outermost whose detector is on, else for what it is.   *)
KindOfSpan(on, s) ==
    IF s.place \in CookiePlaces /\ "cookie" \in on THEN "cookie"
    ELSE IF s.place \in ParamPlaces /\ "url_sensitive_params" \in on THEN "url_sensitive_params"
    ELSE IF s.place \in BearerPlaces /\ "bearer_token" \in on THEN "bearer_token"
    ELSE IF s.val.kind \in on THEN s.val.kind ELSE "none"

\* Of a cookie's value nothing is left to tell what was inside.
HiddenSpan(on, pol, s) ==
    LET kind == KindOfSpan(on, s)
    IN  IF kind = "none" THEN s
        ELSE [s EXCEPT !.val = Replacement(pol, kind, s.val),
                       !.place = IF kind = "cookie" THEN "cookie" ELSE @]

\* What it is counted as.  A bearer token in a cookie is replaced as a token
\* first, and then once more with the cookie's value: it is counted as both.
KindsOfSpan(on, s) ==
    {KindOfSpan(on, s)}
      \cup (IF s.place = "bearer in a cookie" THEN {"bearer_token"} \cap on ELSE {})

\* A field by itself: left out, marked, or with what is in it hidden.
HiddenField(on, pol, inner, f) ==
    IF KindForField(f.name) \notin on THEN <<[name |-> f.name, value |-> inner[f.value]]>>
    ELSE IF pol.mode = "drop" THEN << >>
    ELSE <<[name |-> f.name, value |-> Marker(pol, KindForField(f.name), f.value)]>>

HiddenLevel(on, pol, inner, v) ==
    CASE v.type = "string" -> Str([i \in DOMAIN v.text |-> HiddenSpan(on, pol, v.text[i])])
      [] v.type = "array" -> Arr([i \in DOMAIN v.items |-> inner[v.items[i]]])
      [] v.type = "object" ->
           Obj(FlattenSeq([i \in DOMAIN v.fields |-> HiddenField(on, pol, inner, v.fields[i])]))
      [] v.type = "other" -> v

\* The spans between word boundaries.  Of others it is not promised that the
\* first redaction finds them all: see NumberPasses.AgainOnlyBehindMarks.
ApartSpan == {s \in RawSpan : ~s.glued}

\* The value with every secret hidden ...
Hidden(on, pol) ==
    LET hides[n \in Nat] ==
          [v \in Json(ApartSpan)[n] |-> HiddenLevel(on, pol, Below(hides, n, << >>), v)]
    IN  hides

SecretsOfField(on, inner, kind, f) ==
    IF KindForField(f.name) \in on THEN IF KindForField(f.name) = kind THEN 1 ELSE 0
    ELSE inner[f.value][kind]

SecretsLevel(on, inner, v) ==
    [kind \in Kind |->
       CASE v.type = "string" ->
              Cardinality({i \in DOMAIN v.text : kind \in KindsOfSpan(on, v.text[i])})
         [] v.type = "array" -> SumFunction([i \in DOMAIN v.items |-> inner[v.items[i]][kind]])
         [] v.type = "object" ->
              SumFunction([i \in DOMAIN v.fields |-> SecretsOfField(on, inner, kind, v.fields[i])])
         [] v.type = "other" -> 0]

\* ... and how many it has of each kind.
Secrets(on) ==
    LET secrets[n \in Nat] ==
          [v \in Json(ApartSpan)[n] |-> SecretsLevel(on, Below(secrets, n, << >>), v)]
    IN  secrets

\* No digest is taken for an IBAN.
DigestsHold == policy.iban_like = {}

\* No secret is glued to the one before.
StandApart == value \in Json(ApartSpan)[Depth]

\* Whatever the passes see of each other's replacements, every secret that
\* stands apart is hidden and nothing else is changed; each is counted once, but
\* for a bearer token in a cookie, which counts as a token and as a cookie.
HidesEachSecret ==
    redacted.ok /\ DigestsHold /\ StandApart =>
       /\ redacted.value = Hidden(enabled, policy)[Depth][value]
       /\ redacted.stats = Secrets(enabled)[Depth][value]

\* properties.rs:55: what redaction counts, scan counts too, in every mode but
\* hash, although the two walk the value separately.
ScanAgrees ==
    redacted.ok /\ scanned.ok /\ DigestsHold => scanned.stats = redacted.stats

\* properties.rs:44: redacting a redacted value again changes nothing, if its
\* secrets stand apart.  Behind a mark a glued one comes free, and goes then:
\* NumberPasses.AgainOnlyBehindMarks has how far this goes for the numbers.
RedactIsIdempotent ==
    again.ok /\ policy.mode # "hash" /\ StandApart => again.value = redacted.value

\* What is redacted and then scanned, as docs/integrations.md:61 has it, gives
\* nothing that was not there, if the secrets stood apart: no mark is taken for
\* one; what counts again is a denied field, a cookie, a URL parameter, each for
\* the place it stands in.  In hash mode a mark may pass for a cookie's header.
RescanFindsNothingNew ==
    redacted.ok /\ rescanned.ok /\ policy.mode # "hash" /\ StandApart =>
       /\ \A k \in Kind : rescanned.stats[k] <= redacted.stats[k]
       /\ \A k \in {"email", "ip", "jwt", "credit_card", "iban"} : rescanned.stats[k] = 0

WholeLevel(inner, v) ==
    CASE v.type = "string" -> \A i \in DOMAIN v.text : v.text[i].val.form # "broken"
      [] v.type = "array" -> \A i \in DOMAIN v.items : inner[v.items[i]]
      [] v.type = "object" -> \A i \in DOMAIN v.fields : inner[v.fields[i].value]
      [] v.type = "other" -> TRUE

Whole == LET whole[n \in Nat] ==
               [v \in Json(Span)[n] |-> WholeLevel(Below(whole, n, << >>), v)]
         IN  whole

\* README.md:184: hash mode "replaces values with [HASHED:type:hmac_sha256]".
HashesAreWhole == redacted.ok => Whole[Depth][redacted.value]
=============================================================================
