---------------------------- MODULE ProxyMetrics ----------------------------
(***************************************************************************)
(* ProxyMetrics of crates/privacy_proxy_proxy/src/lib.rs: six AtomicU64    *)
(* counters, every access Ordering::Relaxed, and a Mutex around the counts *)
(* by detector kind.  Tasks (the request handlers) add to them, scrapers   *)
(* (the /metrics handlers) read them, all on the threads of one runtime.   *)
(*                                                                         *)
(* Relaxed accesses are modelled as Rust's memory model has them.  An      *)
(* atomic has one modification order, `held' (the values only grow, so a   *)
(* set has the order); fetch_add extends it; a load may return any value   *)
(* of it not older than what its thread is already bound to see, its       *)
(* `view'.  Only the mutex makes one thread's view bind another:           *)
(* unlocking leaves the view on the lock, locking takes it over.           *)
(*                                                                         *)
(* `added_at' and `credited' are history variables.  The n-th unit added   *)
(* to redactions_total is unit n; added_at[t] is the last unit t's own     *)
(* fetch_add added, credited the units whose kinds are in the map already. *)
(***************************************************************************)
EXTENDS ScanReport, FiniteSets

CONSTANTS Task,        \* handlers of requests
          Scraper,     \* connections on which /metrics is read
          Reports,     \* the reports handlers record
          Counted,     \* the counters handlers add to, record_report apart
          Amount       \* what they add to them

Counter == {"requests", "upstream_errors", "rejected_payloads",
            "request_bytes", "forwarded_bytes", "redactions_total"}

NoKinds == EmptyReport.by_type

\* A report's total is the sum of its counts: ReportWalk's TotalsAgree.
ASSUME ReportsAssumption ==
    \A rep \in Reports : /\ rep \in Report
                         /\ TotalIsSaturatedSum(rep)
                         /\ SumOver(rep.by_type) <= MaxU64
ASSUME CountedAssumption == /\ Counted \subseteq Counter \ {"redactions_total"}
                            /\ Amount \subseteq Nat
ASSUME ActorAssumption == Task \cap Scraper = {}

VARIABLES
    value,       \* the last value of each counter's modification order
    held,        \* every value of it
    by_type,     \* redactions_by_type, under the mutex
    lock_view,   \* what the last holder of the mutex had seen
    view,        \* what each task or scraper is bound to see
    pending,     \* the kinds a task has added to the total, not to the map
    copied,      \* the clone of the map a scraper made under the lock
    scrape,      \* the last MetricsSnapshot each scraper returned
    added_at, credited

counters == <<value, held>>
vars == <<value, held, by_type, lock_view, view, pending, copied, scrape,
          added_at, credited>>

Actor == Task \cup Scraper
Values == [Counter -> Nat]
Nothing == [c \in Counter |-> 0]
NoSnapshot == [counts |-> Nothing, by_type |-> NoKinds]
NoCopy == [made |-> FALSE, by_type |-> NoKinds]

JoinViews(v, w) == [c \in Counter |-> IF v[c] >= w[c] THEN v[c] ELSE w[c]]

Init == /\ value = Nothing
        /\ held = [c \in Counter |-> {0}]
        /\ by_type = NoKinds
        /\ lock_view = Nothing
        /\ view = [a \in Actor |-> Nothing]
        /\ pending = [t \in Task |-> NoKinds]
        /\ copied = [s \in Scraper |-> NoCopy]
        /\ scrape = [s \in Scraper |-> NoSnapshot]
        /\ added_at = [t \in Task |-> 0]
        /\ credited = {}

\* fetch_add reads the last value of the modification order, whatever the
\* ordering.  The bound: the models stop short of u64::MAX, where fetch_add
\* would wrap and the map's saturating_add would not.
FetchAdd(t, c, n) ==
    /\ value[c] + n <= MaxU64
    /\ value' = [value EXCEPT ![c] = @ + n]
    /\ held' = [held EXCEPT ![c] = @ \cup {value[c] + n}]
    /\ view' = [view EXCEPT ![t] = [@ EXCEPT ![c] = value[c] + n]]

\* metrics.<counter>.fetch_add(n) in the handler, between two reports.
Count(t, c, n) ==
    /\ pending[t] = NoKinds
    /\ FetchAdd(t, c, n)
    /\ UNCHANGED <<by_type, lock_view, pending, copied, scrape, added_at, credited>>

\* record_report and record_kind, first half: the total.
RecordTotal(t, rep) ==
    /\ pending[t] = NoKinds
    /\ FetchAdd(t, "redactions_total", rep.total)
    /\ pending' = [pending EXCEPT ![t] = rep.by_type]
    /\ added_at' = [added_at EXCEPT ![t] = value["redactions_total"] + rep.total]
    /\ UNCHANGED <<by_type, lock_view, copied, scrape, credited>>

Units(t) == (added_at[t] - SumOver(pending[t]) + 1) .. added_at[t]

\* Mutant of RecordTypes: insert(kind, count) in place of an addition.
RecordTypesInserts(t) ==
    /\ pending[t] # NoKinds
    /\ by_type' = [k \in DetectorKind |->
                      IF pending[t][k] > 0 THEN pending[t][k] ELSE by_type[k]]
    /\ lock_view' = JoinViews(lock_view, view[t])
    /\ view' = [view EXCEPT ![t] = JoinViews(lock_view, @)]
    /\ pending' = [pending EXCEPT ![t] = NoKinds]
    /\ credited' = credited \cup Units(t)
    /\ UNCHANGED <<counters, copied, scrape, added_at>>

\* Second half: an empty report has returned early; any other takes the
\* lock, merges its counts and unlocks.
RecordTypes(t) ==
    /\ pending[t] # NoKinds
    /\ by_type' = MergeTypes(by_type, pending[t])
    /\ lock_view' = JoinViews(lock_view, view[t])
    /\ view' = [view EXCEPT ![t] = JoinViews(lock_view, @)]
    /\ pending' = [pending EXCEPT ![t] = NoKinds]
    /\ credited' = credited \cup Units(t)
    /\ UNCHANGED <<counters, copied, scrape, added_at>>

\* Mutant of CopyTypes: the counters are loaded before the map is cloned, so
\* that the lock binds none of the loads.
CopyTypesLast(s) ==
    /\ ~copied[s].made
    /\ copied' = [copied EXCEPT ![s] = [made |-> TRUE, by_type |-> by_type]]
    /\ lock_view' = JoinViews(lock_view, view[s])
    /\ UNCHANGED <<counters, view, by_type, pending, scrape, added_at, credited>>

\* Mutant of CopyTypes: mem::take in place of clone.
CopyTypesTakes(s) ==
    /\ ~copied[s].made
    /\ copied' = [copied EXCEPT ![s] = [made |-> TRUE, by_type |-> by_type]]
    /\ by_type' = NoKinds
    /\ lock_view' = JoinViews(lock_view, view[s])
    /\ view' = [view EXCEPT ![s] = JoinViews(lock_view, @)]
    /\ UNCHANGED <<counters, pending, scrape, added_at, credited>>

\* snapshot(): the map is cloned under the lock first ...
CopyTypes(s) ==
    /\ ~copied[s].made
    /\ copied' = [copied EXCEPT ![s] = [made |-> TRUE, by_type |-> by_type]]
    /\ lock_view' = JoinViews(lock_view, view[s])
    /\ view' = [view EXCEPT ![s] = JoinViews(lock_view, @)]
    /\ UNCHANGED <<counters, by_type, pending, scrape, added_at, credited>>

\* What a relaxed load of c may return to s.
Visible(s, c) == {v \in held[c] : v >= view[s][c]}

\* ... and the six counters are loaded one by one.  One step stands for the
\* six loads: what an earlier load may have returned, a stale one at the time
\* of the last may return too, so all six are taken at that time.
LoadCounters(s) ==
    /\ copied[s].made
    /\ \E requests \in Visible(s, "requests"),
          upstream_errors \in Visible(s, "upstream_errors"),
          rejected_payloads \in Visible(s, "rejected_payloads"),
          request_bytes \in Visible(s, "request_bytes"),
          forwarded_bytes \in Visible(s, "forwarded_bytes"),
          redactions_total \in Visible(s, "redactions_total") :
          LET seen == [view[s] EXCEPT
                !["requests"] = requests,
                !["upstream_errors"] = upstream_errors,
                !["rejected_payloads"] = rejected_payloads,
                !["request_bytes"] = request_bytes,
                !["forwarded_bytes"] = forwarded_bytes,
                !["redactions_total"] = redactions_total]
          IN /\ view' = [view EXCEPT ![s] = seen]
             /\ scrape' = [scrape EXCEPT
                   ![s] = [counts |-> seen, by_type |-> copied[s].by_type]]
    /\ copied' = [copied EXCEPT ![s] = NoCopy]
    /\ UNCHANGED <<counters, by_type, lock_view, pending, added_at, credited>>

Next == \/ \E t \in Task : \/ \E c \in Counted, n \in Amount : Count(t, c, n)
                           \/ \E rep \in Reports : RecordTotal(t, rep)
                           \/ RecordTypes(t)
        \/ \E s \in Scraper : CopyTypes(s) \/ LoadCounters(s)

Spec == Init /\ [][Next]_vars
-----------------------------------------------------------------------------
Snapshot == [counts: Values, by_type: [DetectorKind -> U64]]
Recorded == value["redactions_total"]

TypeOK ==
    /\ value \in Values
    /\ \A c \in Counter : value[c] <= MaxU64
    /\ held \in [Counter -> SUBSET Nat]
    /\ by_type \in [DetectorKind -> U64]
    /\ lock_view \in Values
    /\ view \in [Actor -> Values]
    /\ pending \in [Task -> [DetectorKind -> U64]]
    /\ copied \in [Scraper -> [made: BOOLEAN, by_type: [DetectorKind -> U64]]]
    /\ scrape \in [Scraper -> Snapshot]
    /\ added_at \in [Task -> Nat]
    /\ credited \in SUBSET Int

\* A snapshot never shows more redactions by kind than redactions in total,
\* although it is not taken atomically, its loads are relaxed and may be
\* stale, and handlers keep recording: snapshot() clones the map before it
\* loads the total, and record_report adds to the total before it locks.
SnapshotCoversTypes ==
    \A s \in Scraper :
        SumOver(scrape[s].by_type) <= scrape[s].counts["redactions_total"]

\* When no handler is between the two halves of record_report, the map
\* accounts for every redaction of the total: no interleaving of handlers
\* loses a count or merges one twice.
TypesAddUpAtRest ==
    (\A t \in Task : pending[t] = NoKinds) => SumOver(by_type) = Recorded

\* What a scraper reads on one connection never goes backwards, in any
\* counter or kind: what Prometheus asks of a counter.
ScrapesNeverGoBack ==
    [][\A s \in Scraper :
         /\ \A c \in Counter : scrape'[s].counts[c] >= scrape[s].counts[c]
         /\ \A k \in DetectorKind : scrape'[s].by_type[k] >= scrape[s].by_type[k]]_vars
=============================================================================
