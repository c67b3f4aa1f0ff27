----------------------------- MODULE ConfigFile -----------------------------
(***************************************************************************)
(* The configuration file: init_config and load_config of                  *)
(* crates/privacy_proxy_cli/src/main.rs with the parser of                 *)
(* crates/privacy_proxy_core/src/config.rs.  Several `init` commands, each *)
(* with or without --force, write one path while another command loads it. *)
(* An init can be killed, or find the disk full, between any two writes.   *)
(*                                                                         *)
(* A text is a sequence of pieces <<source, key, part>>: one setting of a  *)
(* source's file, whole, or its head and its tail, between which it may be *)
(* cut.  Pieces of the same number are at the same place of their files:   *)
(* who reads the old file up to one may find the example from the next on. *)
(***************************************************************************)
EXTENDS Integers, Sequences, FiniteSets, SequencesExt

CONSTANTS Inits,         \* the running init commands
          Old,           \* what the file may hold before: <<key, part>> for each piece
          OldValues,     \* the value each key has there
          OldHeads,      \* and what of it, or of a number, is in its head
          Breaks         \* bound: the pieces behind which a write or read may stop

Absent == << <<"none", "no file", "whole">> >>
Comment == "#"
Hole == <<"none", "zero bytes", "whole">>

DefaultDeny == {"password", "passcode", "token", "access_token", "refresh_token",
                "id_token", "secret", "client_secret", "apiKey", "api_key",
                "authorization", "cookie", "set-cookie"}
Allow == {"trace_id", "span_id", "request_id"}
AllDetectors == {"email", "ip", "jwt", "bearer_token", "api_key", "cookie",
                 "credit_card", "iban", "url_sensitive_params"}

\* Mutant: a list that is not set is empty, not the default one.
EmptyDefaults == [mode |-> "mask", redact |-> AllDetectors, fields_deny |-> {},
                  fields_allow |-> {}, hash_env |-> "PRIVACY_PROXY_HASH_KEY",
                  sample_limit |-> 10000, max_line_bytes |-> 1048576,
                  max_body_bytes |-> 10485760]

\* Config::default; a key the text does not set has this value.
Defaults == [mode |-> "mask", redact |-> AllDetectors, fields_deny |-> DefaultDeny,
             fields_allow |-> Allow, hash_env |-> "PRIVACY_PROXY_HASH_KEY",
             sample_limit |-> 10000, max_line_bytes |-> 1048576,
             max_body_bytes |-> 10485760]

Keys == DOMAIN Defaults
Lists == {"redact", "fields_deny", "fields_allow"}
Numbers == {"sample_limit", "max_line_bytes", "max_body_bytes"}

ASSUME BreaksAssumption == Breaks \subseteq Nat
ASSUME OldAssumption == /\ Old \subseteq Seq((Keys \cup {Comment}) \X {"whole", "head", "tail"})
                        /\ DOMAIN OldValues = Keys /\ DOMAIN OldHeads = Lists \cup Numbers

ExampleValues == [Defaults EXCEPT
    !.fields_deny = {"password", "token", "secret", "apiKey", "authorization",
                     "cookie", "set-cookie"}]

\* What the lists have behind the place where they are cut.
Tails == [redact |-> {"iban", "url_sensitive_params"}, fields_deny |-> {"cookie", "set-cookie"},
          fields_allow |-> {"request_id"}]

\* The numbers are cut behind some of their digits: before this power of ten.
Shift == [sample_limit |-> 10000, max_line_bytes |-> 10000, max_body_bytes |-> 1000000]

\* Config::example_toml.
Example == << <<"example", "mode", "whole">>,
              <<"example", "redact", "head">>, <<"example", "redact", "tail">>,
              <<"example", "fields_deny", "head">>, <<"example", "fields_deny", "tail">>,
              <<"example", "fields_allow", "head">>, <<"example", "fields_allow", "tail">>,
              <<"example", "hash_env", "head">>, <<"example", "hash_env", "tail">>,
              <<"example", "sample_limit", "head">>, <<"example", "sample_limit", "tail">>,
              <<"example", "max_line_bytes", "head">>, <<"example", "max_line_bytes", "tail">>,
              <<"example", "max_body_bytes", "head">>, <<"example", "max_body_bytes", "tail">> >>

OldText(o) == [i \in DOMAIN o |-> <<"old", o[i][1], o[i][2]>>]

-----------------------------------------------------------------------------
(* Reading a text.                                                          *)
Source(piece) == piece[1]
Key(piece) == piece[2]
PartOf(piece) == piece[3]

\* An old setting that the example goes on with: a list closed by another's end, if
\* that names detectors where it must; digits behind digits; a string closed; the rest
\* of a line behind #.
Splices(a, b) ==
    /\ Source(a) = "old" /\ Source(b) = "example"
    /\ \/ /\ Key(a) \in Lists /\ Key(b) \in Lists
          /\ Key(a) = "redact" => Tails[Key(b)] \subseteq AllDetectors
       \/ Key(a) \in Numbers /\ Key(b) \in Numbers
       \/ Key(a) = "hash_env" /\ Key(b) = "hash_env"
       \/ Key(a) = Comment /\ Key(b) \notin Lists

Joins(a, b) == /\ PartOf(a) = "head" /\ PartOf(b) = "tail"
               /\ Splices(a, b) \/ (Source(a) = Source(b) /\ Key(a) = Key(b))

\* toml::from_str: nothing but known settings, each at most once; a list or string
\* cut off is not closed, a number is a number up to where it is cut.
IsToml(t) ==
    /\ \A i \in DOMAIN t :
          /\ Key(t[i]) \in Keys \cup {Comment}
          /\ PartOf(t[i]) = "tail" => i > 1 /\ Joins(t[i - 1], t[i])
          /\ PartOf(t[i]) = "head" => IF i < Len(t) THEN Joins(t[i], t[i + 1])
                                      ELSE Key(t[i]) \in Numbers \cup {Comment}
    /\ \A i, j \in {p \in DOMAIN t : PartOf(t[p]) # "tail"} :
          Key(t[i]) = Key(t[j]) => i = j \/ Key(t[i]) = Comment

\* a's number and, behind it, the digits of b's.
SplicedNumber(a, b) == OldHeads[a] * Shift[b] + (ExampleValues[b] % Shift[b])

\* The value of the setting that starts at a piece: cut, spliced or as it was written.
ValueAt(t, i) ==
    LET k == Key(t[i])
        values == IF Source(t[i]) = "old" THEN OldValues ELSE ExampleValues
    IN  IF PartOf(t[i]) # "head" THEN values[k]
        ELSE IF i = Len(t)
             THEN IF Source(t[i]) = "old" THEN OldHeads[k] ELSE ExampleValues[k] \div Shift[k]
        ELSE IF ~Splices(t[i], t[i + 1]) THEN values[k]
        ELSE IF k \in Lists THEN OldHeads[k] \cup Tails[Key(t[i + 1])]
        ELSE IF k \in Numbers THEN SplicedNumber(k, Key(t[i + 1]))
        ELSE "another name"

Settings(t) ==
    [k \in Keys |->
        IF \E i \in DOMAIN t : Key(t[i]) = k /\ PartOf(t[i]) # "tail"
        THEN ValueAt(t, CHOOSE i \in DOMAIN t : Key(t[i]) = k /\ PartOf(t[i]) # "tail")
        ELSE Defaults[k]]

\* Config::validate.
IsValid(config) == /\ config.hash_env # ""
                   /\ config.max_line_bytes > 0 /\ config.max_body_bytes > 0

Loads(t) == IsToml(t) /\ IsValid(Settings(t))

-----------------------------------------------------------------------------
VARIABLES before,        \* the file before any of this
          file,          \* a text, or Absent
          forced,        \* the inits given --force
          init,          \* where each is
          written,       \* how much of the example it has written
          opened,        \* the init that opened the file last, or Nobody
          load,          \* where the loading command is
          raw            \* what it has read

vars == <<before, file, forced, init, written, opened, load, raw>>

Nobody == "nobody"

Init == /\ before \in {Absent} \cup {OldText(o) : o \in Old}
        /\ file = before
        /\ forced \in SUBSET Inits
        /\ init = [i \in Inits |-> "start"]
        /\ written = [i \in Inits |-> 0]
        /\ opened = Nobody
        /\ load = "start" /\ raw = << >>

\* Mutant: --force does not truncate.
OpenForcedOver(i) ==
    /\ init[i] = "start" /\ i \in forced
    /\ file' = IF file = Absent THEN << >> ELSE file
    /\ opened' = i
    /\ init' = [init EXCEPT ![i] = "write"]
    /\ UNCHANGED <<before, forced, written, load, raw>>

\* --force: create or truncate.
OpenForced(i) ==
    /\ init[i] = "start" /\ i \in forced
    /\ file' = << >>
    /\ opened' = i
    /\ init' = [init EXCEPT ![i] = "write"]
    /\ UNCHANGED <<before, forced, written, load, raw>>

\* Mutant: create where create_new is meant: an existing file is opened too.
CreateOrOpen(i) ==
    /\ init[i] = "start" /\ i \notin forced
    /\ file' = IF file = Absent THEN << >> ELSE file
    /\ opened' = i
    /\ init' = [init EXCEPT ![i] = "write"]
    /\ UNCHANGED <<before, forced, written, load, raw>>

\* create_new: only where there is none, in one step with looking.
CreateNew(i) ==
    /\ init[i] = "start" /\ i \notin forced
    /\ file = Absent
    /\ file' = << >>
    /\ opened' = i
    /\ init' = [init EXCEPT ![i] = "write"]
    /\ UNCHANGED <<before, forced, written, load, raw>>

\* The directory cannot be created or the file not opened, which is so for
\* create_new wherever there is one.
Refused(i) ==
    /\ init[i] = "start"
    /\ init' = [init EXCEPT ![i] = "refused"]
    /\ UNCHANGED <<before, file, forced, written, opened, load, raw>>

\* Mutant: what is written goes to the end of the file.
AppendedTo(t, n, chunk) == t \o chunk

\* The text with what is written from the place n on, zero bytes where the file
\* had been truncated to less.
WrittenAt(t, n, chunk) ==
    [p \in 1 .. (IF Len(t) > n + Len(chunk) THEN Len(t) ELSE n + Len(chunk)) |->
        IF p \in n + 1 .. n + Len(chunk) THEN chunk[p - n]
        ELSE IF p <= Len(t) THEN t[p] ELSE Hole]

\* One write of write_all, which may be short.
Write(i) ==
    /\ init[i] = "write"
    /\ \E n \in (written[i] + 1 .. Len(Example)) \cap (Breaks \cup {Len(Example)}) :
          /\ file' = WrittenAt(file, written[i], SubSeq(Example, written[i] + 1, n))
          /\ written' = [written EXCEPT ![i] = n]
          /\ init' = [init EXCEPT ![i] = IF n = Len(Example) THEN "done" ELSE "write"]
    /\ UNCHANGED <<before, forced, opened, load, raw>>

\* A write fails, or the command is killed.
Die(i) ==
    /\ init[i] = "write"
    /\ init' = [init EXCEPT ![i] = "dead"]
    /\ UNCHANGED <<before, file, forced, written, opened, load, raw>>

\* read_to_string finds no file.
OpenNone ==
    /\ load = "start" /\ file = Absent
    /\ load' = "failed"
    /\ UNCHANGED <<before, file, forced, init, written, opened, raw>>

\* A read of read_to_string gives some of what the file has behind the last.
Read ==
    /\ load \in {"start", "read"} /\ file # Absent
    /\ \E n \in (Len(raw) + 1 .. Len(file)) \cap (Breaks \cup {Len(file)}) :
          raw' = raw \o SubSeq(file, Len(raw) + 1, n)
    /\ load' = "read"
    /\ UNCHANGED <<before, file, forced, init, written, opened>>

\* At the end of the file, Config::from_toml_str.
ReadEnd ==
    /\ load \in {"start", "read"} /\ file # Absent
    /\ Len(raw) >= Len(file)
    /\ load' = IF Loads(raw) THEN "loaded" ELSE "failed"
    /\ UNCHANGED <<before, file, forced, init, written, opened, raw>>

Next == \/ \E i \in Inits : \/ OpenForced(i) \/ CreateNew(i) \/ Refused(i)
                            \/ Write(i) \/ Die(i)
        \/ OpenNone \/ Read \/ ReadEnd

Spec == Init /\ [][Next]_vars

-----------------------------------------------------------------------------
\* Whatever other inits run, write or die: when the init that opened the file
\* last has written it, it holds the example, whole and nothing more.
LastInitWins == opened # Nobody /\ init[opened] = "done" => file = Example

\* main.rs:338-342: unless one is forced, no init touches a configuration that
\* is there, and of several only one creates it.
PlainKeepsConfig ==
    forced = {} => /\ before # Absent => file = before
                   /\ Cardinality({i \in Inits : init[i] \in {"write", "done", "dead"}}) <= 1

\* What a command works with that loads the file in the middle of all this, torn or
\* not, hides no less than the example does, except in the settings of which it read
\* a part of the old file; and all of these but one are as the old file has them, or
\* as the example or the default.
LoadedHidesEnough ==
    load = "loaded" =>
       LET config == Settings(raw)
           olds == {Key(raw[p]) : p \in {q \in DOMAIN raw : Source(raw[q]) = "old"}}
       IN  /\ "mode" \in olds \/ config.mode = "mask"
           /\ "redact" \in olds \/ config.redact = AllDetectors
           /\ "fields_deny" \in olds \/ ExampleValues.fields_deny \subseteq config.fields_deny
           /\ "fields_allow" \in olds \/ config.fields_allow \subseteq ExampleValues.fields_allow
           /\ Cardinality({k \in Lists \cup {"mode"} :
                 config[k] \notin {OldValues[k], ExampleValues[k], Defaults[k]}}) <= 1

\* A text that an init has cut off, or left zero bytes in, is either not loaded or
\* is a piece of the example from its start, of which at most one limit is cut.
TornIsExamplePrefix ==
    load = "loaded" /\ before = Absent =>
       /\ IsPrefix(raw, Example)
       /\ Cardinality({k \in Keys : Settings(raw)[k] \notin {Defaults[k], ExampleValues[k]}}) <= 1
=============================================================================
