----------------------------- MODULE ScanReport -----------------------------
(***************************************************************************)
(* crates/privacy_proxy_core/src/stats.rs: the report every redaction and  *)
(* every scan returns.  A kind the BTreeMap has no entry for counts as 0   *)
(* here; the code inserts an entry only to add at least 1 to it, so an     *)
(* empty map is the map of zeroes.                                         *)
(***************************************************************************)
EXTENDS Integers

CONSTANT MaxU64      \* u64::MAX; small in the runs, so that they saturate

ASSUME MaxU64Assumption == MaxU64 \in Nat \ {0}

DetectorKind == {"email", "ip", "jwt", "bearer_token", "api_key", "cookie",
                 "credit_card", "iban", "url_sensitive_params"}

U64 == 0 .. MaxU64
Capped(n) == IF n > MaxU64 THEN MaxU64 ELSE n
UncheckedAdd(a, b) == a + b                      \* mutant of SatAdd: `+'
SatAdd(a, b) == Capped(a + b)

Report == [total: U64, by_type: [DetectorKind -> U64]]
EmptyReport == [total |-> 0, by_type |-> [k \in DetectorKind |-> 0]]

IsEmpty(rep) == rep.total = 0
HasNoKind(rep) == \A k \in DetectorKind : rep.by_type[k] = 0

Record(rep, kind) ==
    [total   |-> SatAdd(rep.total, 1),
     by_type |-> [rep.by_type EXCEPT ![kind] = SatAdd(@, 1)]]

MergeTypes(f, g) == [k \in DetectorKind |-> SatAdd(f[k], g[k])]

\* Mutant of Merge: by_type.insert(kind, count) in place of entry().or_insert.
MergeInserts(rep, other) ==
    [total   |-> SatAdd(rep.total, other.total),
     by_type |-> [k \in DetectorKind |->
                    IF other.by_type[k] > 0 THEN other.by_type[k] ELSE rep.by_type[k]]]

Merge(rep, other) ==
    [total   |-> SatAdd(rep.total, other.total),
     by_type |-> MergeTypes(rep.by_type, other.by_type)]

\* The sum over the nine kinds.
SumOver(f) == f["email"] + f["ip"] + f["jwt"] + f["bearer_token"]
              + f["api_key"] + f["cookie"] + f["credit_card"] + f["iban"]
              + f["url_sensitive_params"]

\* What a report's total must be, given its counts by kind.
TotalIsSaturatedSum(rep) == rep.total = Capped(SumOver(rep.by_type))
=============================================================================
