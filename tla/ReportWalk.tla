----------------------------- MODULE ReportWalk -----------------------------
(***************************************************************************)
(* How the reports of one input are put together.  A call of               *)
(* redact_value_inner or scan_value_inner (engine.rs) starts an empty      *)
(* report, records the sensitive fields and strings it meets, and hands    *)
(* the report back to its caller, which merges it; the JSONL loops (lib.rs,*)
(* main.rs) do the same once per line.  The open calls are a stack:        *)
(* stack[1] is the report of the input, the last one the innermost call's. *)
(* `direct' is a history variable: the report the detections would have    *)
(* given had each been recorded, when found, on one report.                *)
(***************************************************************************)
EXTENDS ScanReport, SequencesExt

CONSTANTS Enabled,     \* config.redact: the kinds the engine looks for
          MaxDepth     \* nesting of calls (serde_json stops at 128)

ASSUME EnabledAssumption == Enabled \subseteq DetectorKind
ASSUME MaxDepthAssumption == MaxDepth \in Nat \ {0}

VARIABLES stack, direct

walk == <<stack, direct>>

WalkInit == /\ stack = <<EmptyReport>>
            /\ direct = EmptyReport

\* stats.record(kind): a sensitive field, or one match of a text pass.
RecordKind(kind) ==
    /\ stack' = [stack EXCEPT ![Len(stack)] = Record(@, kind)]
    /\ direct' = Record(direct, kind)

\* The walk descends: a nested object, array, string or the next line.
Descend ==
    /\ Len(stack) < MaxDepth
    /\ stack' = Append(stack, EmptyReport)
    /\ UNCHANGED direct

\* Mutant of Return: stats = child_stats in place of stats.merge(child_stats).
ReturnAssigns ==
    LET caller == Len(stack) - 1
    IN /\ caller > 0
       /\ stack' = [SubSeq(stack, 1, caller) EXCEPT ![caller] = stack[Len(stack)]]
       /\ UNCHANGED direct

\* The call returns and its caller merges what it found: stats.merge(child).
Return ==
    LET caller == Len(stack) - 1
    IN /\ caller > 0
       /\ stack' = [SubSeq(stack, 1, caller) EXCEPT
                       ![caller] = Merge(@, stack[Len(stack)])]
       /\ UNCHANGED direct

WalkNext == \/ \E kind \in Enabled : RecordKind(kind)
            \/ Descend
            \/ Return

WalkSpec == WalkInit /\ [][WalkNext]_walk
-----------------------------------------------------------------------------
WalkTypeOK == /\ stack \in Seq(Report)
              /\ Len(stack) \in 1 .. MaxDepth
              /\ direct \in Report

\* Every report of a walk, finished or not, shows a total that is the sum of
\* its counts by kind, up to u64::MAX: the totals and the counts saturate
\* separately (stats.rs:13-22), and must still agree.
TotalsAgree == \A i \in DOMAIN stack : TotalIsSaturatedSum(stack[i])

\* However the input nests and wherever the calls return, merging the open
\* reports counts each detection once: it gives the report on which every
\* detection was recorded directly, saturated at the same values.  A scan
\* (one flat report per string) and a redaction (a report per node) of one
\* input therefore agree.
WalkMergesAll == FoldLeft(Merge, EmptyReport, stack) = direct
=============================================================================
