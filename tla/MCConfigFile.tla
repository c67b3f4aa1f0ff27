---------------------------- MODULE MCConfigFile ----------------------------
(***************************************************************************)
(* Two inits and a load, over no file, or one of: a configuration of the   *)
(* user's own, whose denied or allowed fields are cut where the example's  *)
(* denied fields are; one with a limit of zero, which is not valid; and    *)
(* one longer than the example, with a limit where the example has the     *)
(* same.  Writes and reads may stop within and behind the denied fields,   *)
(* within hash_env and within two of the limits.                           *)
(***************************************************************************)
EXTENDS ConfigFile

Whole(k) == <<k, "whole">>
Cut(k) == << <<k, "head">>, <<k, "tail">> >>

MCOld == { <<Whole("mode"), Whole(Comment), Whole(Comment)>> \o Cut("fields_deny"),
           <<Whole("mode"), Whole(Comment), Whole(Comment)>> \o Cut("fields_allow"),
           << Whole("max_line_bytes") >>,
           [i \in 1 .. 17 |-> IF i = 1 THEN Whole("fields_allow")
                              ELSE IF i \in {8, 9} THEN Cut(Comment)[i - 7]
                              ELSE IF i \in {10, 11} THEN Cut("sample_limit")[i - 9]
                              ELSE Whole(Comment)] }

MCOldValues == [mode |-> "hash", redact |-> {"email"}, fields_deny |-> {"ssn", "pin"},
                fields_allow |-> {"password", "zip"}, hash_env |-> "KEY",
                sample_limit |-> 500, max_line_bytes |-> 0, max_body_bytes |-> 1]

MCOldHeads == [redact |-> {}, fields_deny |-> {"ssn"}, fields_allow |-> {"password"},
               sample_limit |-> 5, max_line_bytes |-> 0, max_body_bytes |-> 1]

MCBreaks == {1, 4, 5, 8, 10, 14}
=============================================================================
