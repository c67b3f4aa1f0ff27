------------------------- MODULE ProxyMetrics_proofs -------------------------
(***************************************************************************)
(* The metrics for any number of handlers, scrapers and reports.           *)
(*                                                                         *)
(* The argument: number the units added to redactions_total.  Each unit    *)
(* belongs to one report; a report's units are consecutive, end at the     *)
(* value its own fetch_add returned, and are all credited to the map in    *)
(* one critical section, by a handler that has seen that value.  So the    *)
(* units in the map are among 1 .. n for the value n the lock's last       *)
(* holder had seen, which whoever clones the map is bound to see; and the  *)
(* map's sum is their number.                                              *)
(***************************************************************************)
EXTENDS ProxyMetrics, Basics_proofs

Total == "redactions_total"

UnitsInv ==
    /\ Recorded <= MaxU64
    /\ \A t \in Task : /\ SumOver(pending[t]) <= added_at[t]
                       /\ added_at[t] <= Recorded
                       /\ added_at[t] <= view[t][Total]
    /\ credited \subseteq 1 .. Recorded
    /\ \A t \in Task : Units(t) \cap credited = {}
    /\ \A t, u \in Task : t # u => Units(t) \cap Units(u) = {}
    /\ \A n \in 1 .. Recorded : n \in credited \/ \E t \in Task : n \in Units(t)

CreditInv ==
    /\ IsFiniteSet(credited)
    /\ Cardinality(credited) = SumOver(by_type)
    /\ credited \subseteq 1 .. lock_view[Total]

CopyInv ==
    \A s \in Scraper :
        copied[s].made => SumOver(copied[s].by_type) <= view[s][Total]

IInv == UnitsInv /\ CreditInv /\ CopyInv /\ SnapshotCoversTypes

\* Joining two views gives a view that is at least both.
LEMMA JoinViewsFacts ==
    ASSUME NEW v \in Values, NEW w \in Values
    PROVE  /\ JoinViews(v, w) \in Values
           /\ \A c \in Counter : /\ JoinViews(v, w)[c] >= v[c]
                                 /\ JoinViews(v, w)[c] >= w[c]
  BY DEF JoinViews, Values

\* No kinds, no units.
LEMMA NoKindsFacts ==
    /\ NoKinds \in [DetectorKind -> U64]
    /\ SumOver(NoKinds) = 0
    /\ Nothing \in Values
    /\ NoSnapshot \in Snapshot
  <1>1. NoKinds \in [DetectorKind -> U64] /\ SumOver(NoKinds) = 0
    BY MaxU64Assumption
    DEF NoKinds, EmptyReport, SumOver, DetectorKind, U64
  <1>2. Nothing \in Values
    BY DEF Nothing, Values
  <1> QED
    BY <1>1, <1>2 DEF NoSnapshot, Snapshot

\* What the invariant says of the map: its sum is at most what the lock's
\* last holder had seen of the total.
LEMMA MapBehindLock ==
    ASSUME TypeOK, CreditInv
    PROVE  SumOver(by_type) <= lock_view[Total]
  <1>1. lock_view[Total] \in Nat
    BY DEF TypeOK, Values, Total, Counter
  <1>2. /\ IsFiniteSet(1 .. lock_view[Total])
        /\ Cardinality(1 .. lock_view[Total]) = lock_view[Total]
    BY <1>1, FS_Interval
  <1>3. Cardinality(credited) <= Cardinality(1 .. lock_view[Total])
    BY <1>2, FS_Subset DEF CreditInv
  <1> QED
    BY <1>2, <1>3 DEF CreditInv

\* The units of a task are as many as its pending counts.
LEMMA UnitsCardinality ==
    ASSUME TypeOK, UnitsInv, NEW t \in Task
    PROVE  /\ IsFiniteSet(Units(t))
           /\ Cardinality(Units(t)) = SumOver(pending[t])
           /\ Units(t) \subseteq 1 .. added_at[t]
           /\ SumOver(pending[t]) \in Nat
           /\ added_at[t] \in Nat
  <1>1. pending[t] \in [DetectorKind -> Nat]
    BY MaxU64Assumption DEF TypeOK, U64
  <1>2. SumOver(pending[t]) \in Nat
    BY <1>1, SumOverFacts
  <1>3. added_at[t] \in Nat /\ SumOver(pending[t]) <= added_at[t]
    BY DEF TypeOK, UnitsInv
  <1> DEFINE first == added_at[t] - SumOver(pending[t]) + 1
  <1>4. first \in Int /\ first >= 1
    BY <1>2, <1>3
  <1> HIDE DEF first
  <1>5. /\ IsFiniteSet(first .. added_at[t])
        /\ Cardinality(first .. added_at[t])
              = IF first > added_at[t] THEN 0 ELSE added_at[t] - first + 1
    <2>1. added_at[t] \in Int
      BY <1>3
    <2> QED
      BY <1>4, <2>1, FS_Interval
  <1>6. Cardinality(first .. added_at[t]) = SumOver(pending[t])
    BY <1>2, <1>3, <1>5 DEF first
  <1>7. first .. added_at[t] \subseteq 1 .. added_at[t]
    BY <1>3, <1>4
  <1> QED
    BY <1>2, <1>3, <1>5, <1>6, <1>7 DEF Units, first

\* A fetch_add leaves every variable it changes in its type.
LEMMA FetchAddType ==
    ASSUME TypeOK, NEW t \in Task, NEW c \in Counter, NEW n \in Nat,
           FetchAdd(t, c, n)
    PROVE  /\ value' \in Values
           /\ \A d \in Counter : value'[d] <= MaxU64
           /\ held' \in [Counter -> SUBSET Nat]
           /\ view' \in [Actor -> Values]
  <1>1. value[c] + n \in Nat
    BY DEF TypeOK, Values
  <1>2. view[t] \in Values /\ t \in Actor
    BY DEF TypeOK, Actor
  <1>3. [view[t] EXCEPT ![c] = value[c] + n] \in Values
    BY <1>1, <1>2 DEF Values
  <1> QED
    BY <1>1, <1>2, <1>3 DEF FetchAdd, TypeOK, Values

\* The six loads return a snapshot no counter of which is older than the
\* scraper's view.
LEMMA LoadedValues ==
    ASSUME TypeOK, NEW s \in Scraper, LoadCounters(s)
    PROVE  \E seen \in Values :
              /\ \A c \in Counter : seen[c] \in Visible(s, c)
              /\ view' = [view EXCEPT ![s] = seen]
              /\ scrape' = [scrape EXCEPT
                    ![s] = [counts |-> seen, by_type |-> copied[s].by_type]]
  <1>1. PICK n1 \in Visible(s, "requests"),
             n2 \in Visible(s, "upstream_errors"),
             n3 \in Visible(s, "rejected_payloads"),
             n4 \in Visible(s, "request_bytes"),
             n5 \in Visible(s, "forwarded_bytes"),
             n6 \in Visible(s, "redactions_total") :
                LET seen == [view[s] EXCEPT
                      !["requests"] = n1,
                      !["upstream_errors"] = n2,
                      !["rejected_payloads"] = n3,
                      !["request_bytes"] = n4,
                      !["forwarded_bytes"] = n5,
                      !["redactions_total"] = n6]
                IN /\ view' = [view EXCEPT ![s] = seen]
                   /\ scrape' = [scrape EXCEPT
                         ![s] = [counts |-> seen, by_type |-> copied[s].by_type]]
    BY Zenon DEF LoadCounters
  <1> DEFINE seen == [view[s] EXCEPT
                      !["requests"] = n1,
                      !["upstream_errors"] = n2,
                      !["rejected_payloads"] = n3,
                      !["request_bytes"] = n4,
                      !["forwarded_bytes"] = n5,
                      !["redactions_total"] = n6]
  <1>2. view[s] \in Values /\ DOMAIN view[s] = Counter
    BY DEF TypeOK, Actor, Values
  <1>3. \A c \in Counter : seen[c] \in Visible(s, c)
    BY <1>2 DEF Counter
  <1>4. \A c \in Counter : Visible(s, c) \subseteq Nat
    BY DEF Visible, TypeOK
  <1>5. DOMAIN seen = Counter /\ seen = [c \in DOMAIN seen |-> seen[c]]
    BY <1>2 DEF Values
  <1>6. seen \in Values
    <2> HIDE DEF seen
    <2> QED
      BY <1>3, <1>4, <1>5 DEF Values
  <1> QED
    BY <1>1, <1>3, <1>6

\* The variables keep their types.
LEMMA MetricsTypeOK == Spec => []TypeOK
  <1>1. Init => TypeOK
    <2> SUFFICES ASSUME Init PROVE TypeOK
      OBVIOUS
    <2>1. NoCopy \in [made: BOOLEAN, by_type: [DetectorKind -> U64]]
      BY NoKindsFacts DEF NoCopy
    <2>2. \A c \in Counter : Nothing[c] <= MaxU64
      BY MaxU64Assumption DEF Nothing
    <2> QED
      BY <2>1, <2>2, NoKindsFacts DEF Init, TypeOK
  <1>2. TypeOK /\ [Next]_vars => TypeOK'
    <2> SUFFICES ASSUME TypeOK, [Next]_vars PROVE TypeOK'
      OBVIOUS
    <2>1. ASSUME NEW t \in Task, NEW c \in Counted, NEW n \in Amount,
                 Count(t, c, n)
          PROVE  TypeOK'
      <3>1. c \in Counter /\ n \in Nat
        BY CountedAssumption
      <3>2. /\ value' \in Values
            /\ \A d \in Counter : value'[d] <= MaxU64
            /\ held' \in [Counter -> SUBSET Nat]
            /\ view' \in [Actor -> Values]
        BY <2>1, <3>1, FetchAddType DEF Count
      <3> QED
        BY <2>1, <3>2 DEF Count, TypeOK
    <2>2. ASSUME NEW t \in Task, NEW rep \in Reports, RecordTotal(t, rep)
          PROVE  TypeOK'
      <3>1. /\ rep.total \in Nat
            /\ rep.by_type \in [DetectorKind -> U64]
            /\ "redactions_total" \in Counter
        BY ReportsAssumption, CountsAreNat, MaxU64Assumption DEF U64, Counter
      <3>2. /\ value' \in Values
            /\ \A d \in Counter : value'[d] <= MaxU64
            /\ held' \in [Counter -> SUBSET Nat]
            /\ view' \in [Actor -> Values]
        BY <2>2, <3>1, FetchAddType DEF RecordTotal
      <3>3. value["redactions_total"] + rep.total \in Nat
        BY <3>1 DEF TypeOK, Values
      <3> QED
        BY <2>2, <3>1, <3>2, <3>3 DEF RecordTotal, TypeOK
    <2>3. ASSUME NEW t \in Task, RecordTypes(t)
          PROVE  TypeOK'
      <3>1. MergeTypes(by_type, pending[t]) \in [DetectorKind -> U64]
        BY MergeTypesFacts DEF TypeOK
      <3>2. t \in Actor /\ view[t] \in Values
        BY DEF Actor, TypeOK
      <3>3. JoinViews(lock_view, view[t]) \in Values
        BY <3>2, JoinViewsFacts DEF TypeOK
      <3>4. Units(t) \subseteq Int
        BY DEF TypeOK, Units
      <3> QED
        BY <2>3, <3>1, <3>2, <3>3, <3>4, NoKindsFacts
        DEF RecordTypes, TypeOK, counters
    <2>4. ASSUME NEW s \in Scraper, CopyTypes(s)
          PROVE  TypeOK'
      <3>1. s \in Actor /\ view[s] \in Values
        BY DEF Actor, TypeOK
      <3>2. JoinViews(lock_view, view[s]) \in Values
        BY <3>1, JoinViewsFacts DEF TypeOK
      <3>3. [made |-> TRUE, by_type |-> by_type]
               \in [made: BOOLEAN, by_type: [DetectorKind -> U64]]
        BY DEF TypeOK
      <3> QED
        BY <2>4, <3>1, <3>2, <3>3 DEF CopyTypes, TypeOK, counters
    <2>5. ASSUME NEW s \in Scraper, LoadCounters(s)
          PROVE  TypeOK'
      <3>1. PICK seen \in Values :
               /\ view' = [view EXCEPT ![s] = seen]
               /\ scrape' = [scrape EXCEPT
                     ![s] = [counts |-> seen, by_type |-> copied[s].by_type]]
        BY <2>5, LoadedValues
      <3>2. [counts |-> seen, by_type |-> copied[s].by_type] \in Snapshot
        BY <3>1 DEF TypeOK, Snapshot
      <3>3. NoCopy \in [made: BOOLEAN, by_type: [DetectorKind -> U64]]
        BY NoKindsFacts DEF NoCopy
      <3> QED
        BY <2>5, <3>1, <3>2, <3>3 DEF LoadCounters, TypeOK, counters
    <2>6. CASE UNCHANGED vars
      BY <2>6 DEF vars, TypeOK
    <2> QED
      BY <2>1, <2>2, <2>3, <2>4, <2>5, <2>6 DEF Next
  <1> QED
    BY <1>1, <1>2, PTL DEF Spec

\* Initially no unit has been added.
LEMMA InitIInv == Init => IInv
  <1> SUFFICES ASSUME Init PROVE IInv
    OBVIOUS
  <1> USE DEF Init
  <1>1. Recorded = 0 /\ lock_view[Total] = 0
    BY DEF Recorded, Nothing, Total, Counter
  <1>2. \A t \in Task : /\ SumOver(pending[t]) = 0 /\ added_at[t] = 0
                        /\ view[t][Total] = 0
    BY NoKindsFacts DEF Actor, Nothing, Total, Counter
  <1>3. \A t \in Task : Units(t) = {}
    BY <1>2 DEF Units
  <1>4. UnitsInv
    BY <1>1, <1>2, <1>3, MaxU64Assumption DEF UnitsInv
  <1>5. CreditInv
    BY <1>1, NoKindsFacts, FS_EmptySet DEF CreditInv
  <1>6. CopyInv
    BY DEF CopyInv, NoCopy
  <1>7. SnapshotCoversTypes
    BY NoKindsFacts DEF SnapshotCoversTypes, NoSnapshot, Nothing, Counter
  <1> QED
    BY <1>4, <1>5, <1>6, <1>7 DEF IInv

\* A step of a handler that leaves the total, the lock and the map alone.
LEMMA CountStep ==
    ASSUME TypeOK, IInv, NEW t \in Task, NEW c \in Counted, NEW n \in Amount,
           Count(t, c, n)
    PROVE  IInv'
  <1>1. c \in Counter /\ c # Total /\ n \in Nat
    BY CountedAssumption DEF Total
  <1>2. Recorded' = Recorded
    BY <1>1 DEF Count, FetchAdd, Recorded, TypeOK, Values, Total, Counter
  <1>3. \A u \in Task : view'[u][Total] = view[u][Total]
    BY <1>1 DEF Count, FetchAdd, TypeOK, Values, Actor, Total, Counter
  <1>4. \A s \in Scraper : view'[s] = view[s]
    BY ActorAssumption DEF Count, FetchAdd, TypeOK, Actor
  <1>5. \A u \in Task : Units(u)' = Units(u)
    BY DEF Count, Units
  <1>6. UnitsInv'
    BY <1>2, <1>3, <1>5 DEF IInv, UnitsInv, Count
  <1>7. CreditInv'
    BY DEF IInv, CreditInv, Count
  <1>8. CopyInv'
    BY <1>4 DEF IInv, CopyInv, Count
  <1>9. SnapshotCoversTypes'
    BY DEF IInv, SnapshotCoversTypes, Count
  <1> QED
    BY <1>6, <1>7, <1>8, <1>9 DEF IInv

\* The first half of record_report: the units it adds are new ones.
LEMMA RecordTotalStep ==
    ASSUME TypeOK, IInv, NEW t \in Task, NEW rep \in Reports,
           RecordTotal(t, rep)
    PROVE  IInv'
  <1> DEFINE new == (Recorded + 1) .. (Recorded + rep.total)
  <1>1. /\ Recorded \in Nat
        /\ rep.total \in Nat
        /\ rep.total = SumOver(rep.by_type)
    BY ReportsAssumption, CountsAreNat, MaxU64Assumption
    DEF Recorded, TypeOK, Values, Counter, U64, TotalIsSaturatedSum, Capped
  <1>2. Recorded' = Recorded + rep.total /\ Recorded + rep.total <= MaxU64
    BY DEF RecordTotal, FetchAdd, Recorded, TypeOK, Values, Counter
  <1>3. /\ added_at'[t] = Recorded + rep.total
        /\ pending'[t] = rep.by_type
        /\ view'[t][Total] = Recorded + rep.total
    BY DEF RecordTotal, FetchAdd, Recorded, TypeOK, Values, Counter, Actor, Total
  <1>4. \A u \in Task : u # t => /\ added_at'[u] = added_at[u]
                                 /\ pending'[u] = pending[u]
                                 /\ view'[u] = view[u]
    BY DEF RecordTotal, FetchAdd, TypeOK, Actor
  <1>5. \A s \in Scraper : view'[s] = view[s]
    BY ActorAssumption DEF RecordTotal, FetchAdd, TypeOK, Actor
  <1>6. Units(t)' = new
    BY <1>1, <1>3 DEF Units
  <1>7. \A u \in Task : u # t => Units(u)' = Units(u)
    BY <1>4 DEF Units
  <1>8. Units(t) = {}
    BY NoKindsFacts DEF RecordTotal, Units, TypeOK
  <1>9. \A u \in Task : Units(u) \subseteq 1 .. Recorded
    <2> TAKE u \in Task
    <2>1. Units(u) \subseteq 1 .. added_at[u] /\ added_at[u] \in Nat
      BY UnitsCardinality DEF IInv
    <2>2. added_at[u] <= Recorded
      BY DEF IInv, UnitsInv
    <2> QED
      BY <1>1, <2>1, <2>2
  <1>10. credited' = credited /\ credited \subseteq 1 .. Recorded
    BY DEF IInv, UnitsInv, RecordTotal
  <1>11. \A n \in new : n \notin 1 .. Recorded
    BY <1>1
  <1>12. UnitsInv'
    <2>1. \A u \in Task : /\ SumOver(pending'[u]) <= added_at'[u]
                          /\ added_at'[u] <= Recorded'
                          /\ added_at'[u] <= view'[u][Total]
      <3> TAKE u \in Task
      <3>1. CASE u = t
        BY <1>1, <1>2, <1>3, <3>1
      <3>2. CASE u # t
        <4>1. /\ SumOver(pending[u]) <= added_at[u]
              /\ added_at[u] <= Recorded /\ added_at[u] <= view[u][Total]
              /\ added_at[u] \in Nat
          BY DEF IInv, UnitsInv, TypeOK
        <4> QED
          BY <1>1, <1>2, <1>4, <3>2, <4>1
      <3> QED
        BY <3>1, <3>2
    <2>2. credited' \subseteq 1 .. Recorded'
      BY <1>1, <1>2, <1>10
    <2>3. \A u \in Task : Units(u)' \cap credited' = {}
      BY <1>6, <1>7, <1>10, <1>11 DEF IInv, UnitsInv
    <2>4. \A u, w \in Task : u # w => Units(u)' \cap Units(w)' = {}
      <3> SUFFICES ASSUME NEW u \in Task, NEW w \in Task, u # w
                   PROVE  Units(u)' \cap Units(w)' = {}
        OBVIOUS
      <3>1. CASE u = t
        BY <1>6, <1>7, <1>9, <1>11, <3>1
      <3>2. CASE w = t
        BY <1>6, <1>7, <1>9, <1>11, <3>2
      <3>3. CASE u # t /\ w # t
        BY <1>7, <3>3 DEF IInv, UnitsInv
      <3> QED
        BY <3>1, <3>2, <3>3
    <2>5. \A n \in 1 .. Recorded' :
             n \in credited' \/ \E u \in Task : n \in Units(u)'
      <3> SUFFICES ASSUME NEW n \in 1 .. Recorded'
                   PROVE  n \in credited' \/ \E u \in Task : n \in Units(u)'
        OBVIOUS
      <3>1. CASE n \in new
        BY <1>6, <3>1
      <3>2. CASE n \notin new
        <4>1. n \in 1 .. Recorded
          BY <1>1, <1>2, <3>2
        <4>2. n \in credited \/ \E u \in Task : n \in Units(u)
          BY <4>1 DEF IInv, UnitsInv
        <4> QED
          BY <1>7, <1>8, <1>10, <4>2
      <3> QED
        BY <3>1, <3>2
    <2> QED
      BY <1>2, <2>1, <2>2, <2>3, <2>4, <2>5 DEF UnitsInv
  <1>13. CreditInv'
    BY DEF IInv, CreditInv, RecordTotal
  <1>14. CopyInv'
    BY <1>5 DEF IInv, CopyInv, RecordTotal
  <1>15. SnapshotCoversTypes'
    BY DEF IInv, SnapshotCoversTypes, RecordTotal
  <1> QED
    BY <1>12, <1>13, <1>14, <1>15 DEF IInv

\* What a task has yet to add to the map fits in it, kind by kind: both are
\* units of the total.
LEMMA PendingFits ==
    ASSUME TypeOK, IInv, NEW t \in Task, NEW k \in DetectorKind
    PROVE  /\ by_type[k] \in Nat /\ pending[t][k] \in Nat
           /\ by_type[k] + pending[t][k] <= MaxU64
  <1>1. /\ by_type \in [DetectorKind -> Nat] /\ pending[t] \in [DetectorKind -> Nat]
        /\ Recorded \in Nat /\ Recorded <= MaxU64 /\ MaxU64 \in Nat
    BY MaxU64Assumption DEF TypeOK, U64, Recorded, Values, Counter, IInv, UnitsInv
  <1>2. /\ SumOver(by_type) \in Nat /\ SumOver(by_type) >= by_type[k]
        /\ SumOver(pending[t]) \in Nat /\ SumOver(pending[t]) >= pending[t][k]
    BY <1>1, SumOverFacts
  <1>3. /\ IsFiniteSet(Units(t)) /\ Cardinality(Units(t)) = SumOver(pending[t])
        /\ Units(t) \subseteq 1 .. Recorded
    <2>1. /\ IsFiniteSet(Units(t)) /\ Cardinality(Units(t)) = SumOver(pending[t])
          /\ Units(t) \subseteq 1 .. added_at[t] /\ added_at[t] \in Nat
      BY UnitsCardinality DEF IInv
    <2>2. added_at[t] <= Recorded
      BY DEF IInv, UnitsInv
    <2> QED
      BY <1>1, <2>1, <2>2
  <1>4. /\ IsFiniteSet(credited) /\ Cardinality(credited) = SumOver(by_type)
        /\ credited \cap Units(t) = {} /\ credited \subseteq 1 .. Recorded
    BY DEF IInv, UnitsInv, CreditInv
  <1>5. Cardinality(credited \cup Units(t))
           = Cardinality(credited) + Cardinality(Units(t)) - Cardinality(credited \cap Units(t))
    BY <1>3, <1>4, FS_Union
  <1>6. Cardinality(credited \cap Units(t)) = 0
    BY <1>4, FS_EmptySet
  <1>7. Cardinality(credited \cup Units(t)) <= Recorded
    <2>1. IsFiniteSet(1 .. Recorded) /\ Cardinality(1 .. Recorded) = Recorded
      <3>1. Recorded \in Nat
        BY <1>1
      <3> QED
        BY <3>1, FS_Interval
    <2>2. credited \cup Units(t) \subseteq 1 .. Recorded
      BY <1>3, <1>4
    <2> QED
      BY <2>1, <2>2, FS_Subset
  <1>8. SumOver(by_type) + SumOver(pending[t]) <= MaxU64
    BY <1>1, <1>2, <1>3, <1>4, <1>5, <1>6, <1>7
  <1> QED
    BY <1>1, <1>2, <1>8

\* The second half: the handler's units move to the map, whose sum grows by
\* their number; none of the counts can reach the cap before the total does.
LEMMA RecordTypesStep ==
    ASSUME TypeOK, IInv, NEW t \in Task, RecordTypes(t)
    PROVE  IInv'
  <1> DEFINE p == pending[t]
             moved == credited \cup Units(t)
  <1>1. /\ by_type' = MergeTypes(by_type, p)
        /\ credited' = moved
        /\ lock_view' = JoinViews(lock_view, view[t])
        /\ value' = value /\ added_at' = added_at
        /\ copied' = copied /\ scrape' = scrape
    BY DEF RecordTypes, counters
  <1>2. lock_view \in Values /\ view[t] \in Values /\ Total \in Counter
    BY DEF TypeOK, Actor, Total, Counter
  <1>3. \A u \in Task : view'[u][Total] >= view[u][Total]
    <2> TAKE u \in Task
    <2>1. view[u] \in Values
      BY DEF TypeOK, Actor
    <2>2. JoinViews(lock_view, view[t])[Total] >= view[t][Total]
      BY <1>2, JoinViewsFacts
    <2>3. view'[u] = IF u = t THEN JoinViews(lock_view, view[t]) ELSE view[u]
      BY DEF RecordTypes, TypeOK, Actor
    <2>4. view[u][Total] \in Nat
      BY <1>2, <2>1 DEF Values
    <2> QED
      BY <2>2, <2>3, <2>4
  <1>4. \A s \in Scraper : view'[s] = view[s]
    BY ActorAssumption DEF RecordTypes, TypeOK, Actor
  <1>5. /\ pending'[t] = NoKinds
        /\ \A u \in Task : u # t => pending'[u] = pending[u]
    BY DEF RecordTypes, TypeOK
  <1>6. /\ IsFiniteSet(Units(t))
        /\ Cardinality(Units(t)) = SumOver(p)
        /\ Units(t) \subseteq 1 .. added_at[t]
        /\ SumOver(p) \in Nat
        /\ added_at[t] \in Nat
    BY UnitsCardinality DEF IInv
  <1>7. Units(t)' = {}
    BY <1>1, <1>5, <1>6, NoKindsFacts DEF Units
  <1>8. \A u \in Task : u # t => Units(u)' = Units(u)
    BY <1>1, <1>5 DEF Units
  <1>9. Recorded \in Nat /\ Recorded' = Recorded /\ Recorded <= MaxU64
    BY <1>1, <1>2 DEF Recorded, TypeOK, Values, IInv, UnitsInv, Total
  <1>10. Units(t) \subseteq 1 .. Recorded
    BY <1>6, <1>9 DEF IInv, UnitsInv
  <1>11. IsFiniteSet(moved) /\ Cardinality(moved) = SumOver(by_type) + SumOver(p)
    <2>1. /\ IsFiniteSet(credited) /\ Cardinality(credited) = SumOver(by_type)
          /\ credited \cap Units(t) = {}
      BY DEF IInv, UnitsInv, CreditInv
    <2>2. Cardinality(credited) \in Nat
      BY <2>1, FS_CardinalityType
    <2>3. Cardinality(moved) = Cardinality(credited) + Cardinality(Units(t))
                                 - Cardinality(credited \cap Units(t))
      BY <1>6, <2>1, FS_Union
    <2>4. Cardinality(credited \cap Units(t)) = 0
      BY <2>1, FS_EmptySet
    <2>5. IsFiniteSet(moved)
      BY <1>6, <2>1, FS_Union
    <2> QED
      BY <1>6, <2>1, <2>2, <2>3, <2>4, <2>5
  <1>12. moved \subseteq 1 .. Recorded
    BY <1>10 DEF IInv, UnitsInv
  <1>13. SumOver(by_type) + SumOver(p) <= MaxU64
    <2>1. IsFiniteSet(1 .. Recorded) /\ Cardinality(1 .. Recorded) = Recorded
      BY <1>9, FS_Interval
    <2>2. Cardinality(moved) <= Recorded
      BY <1>12, <2>1, FS_Subset
    <2> QED
      BY <1>9, <1>11, <2>2, FS_CardinalityType, MaxU64Assumption
  <1>14. SumOver(by_type') = SumOver(by_type) + SumOver(p)
    <2>1. by_type \in [DetectorKind -> U64] /\ p \in [DetectorKind -> U64]
      BY DEF TypeOK
    <2>2. /\ Capped(SumOver(by_type')) = Capped(SumOver(by_type) + SumOver(p))
          /\ SumOver(by_type') <= SumOver(by_type) + SumOver(p)
          /\ by_type' \in [DetectorKind -> Nat]
      BY <1>1, <2>1, MergeTypesFacts
    <2>3. /\ SumOver(by_type') \in Nat /\ SumOver(by_type) \in Nat
      <3>1. by_type \in [DetectorKind -> Nat]
        BY <2>1, MaxU64Assumption DEF U64
      <3> QED
        BY <2>2, <3>1, SumOverFacts
    <2> QED
      BY <1>6, <1>13, <2>2, <2>3, MaxU64Assumption DEF Capped
  <1>15. UnitsInv'
    <2>1. \A u \in Task : /\ SumOver(pending'[u]) <= added_at'[u]
                          /\ added_at'[u] <= Recorded'
                          /\ added_at'[u] <= view'[u][Total]
      <3> TAKE u \in Task
      <3>1. /\ SumOver(pending[u]) <= added_at[u]
            /\ added_at[u] <= Recorded /\ added_at[u] <= view[u][Total]
            /\ added_at[u] \in Nat
        BY DEF IInv, UnitsInv, TypeOK
      <3>2. SumOver(pending'[u]) <= added_at[u]
        BY <1>5, <3>1, NoKindsFacts
      <3>3. view[u][Total] \in Nat /\ view'[u][Total] >= view[u][Total]
            /\ view'[u][Total] \in Nat
        <4>1. view[u] \in Values
          BY DEF TypeOK, Actor
        <4>2. JoinViews(lock_view, view[t]) \in Values
          BY <1>2, JoinViewsFacts
        <4>3. view'[u] \in Values
          BY <4>1, <4>2 DEF RecordTypes, TypeOK, Actor
        <4> QED
          BY <1>2, <1>3, <4>1, <4>3 DEF Values
      <3> QED
        BY <1>1, <1>9, <3>1, <3>2, <3>3
    <2>2. credited' \subseteq 1 .. Recorded'
      BY <1>1, <1>9, <1>12
    <2>3. \A u \in Task : Units(u)' \cap credited' = {}
      BY <1>1, <1>7, <1>8 DEF IInv, UnitsInv
    <2>4. \A u, w \in Task : u # w => Units(u)' \cap Units(w)' = {}
      BY <1>7, <1>8 DEF IInv, UnitsInv
    <2>5. \A n \in 1 .. Recorded' :
             n \in credited' \/ \E u \in Task : n \in Units(u)'
      BY <1>1, <1>8, <1>9 DEF IInv, UnitsInv
    <2> QED
      BY <1>9, <2>1, <2>2, <2>3, <2>4, <2>5 DEF UnitsInv
  <1>16. CreditInv'
    <2>1. /\ lock_view'[Total] >= lock_view[Total]
          /\ lock_view'[Total] >= view[t][Total]
          /\ lock_view'[Total] \in Nat /\ lock_view[Total] \in Nat
          /\ view[t][Total] \in Nat
      BY <1>1, <1>2, JoinViewsFacts DEF Values
    <2>2. Units(t) \subseteq 1 .. lock_view'[Total]
      <3>1. added_at[t] <= view[t][Total]
        BY DEF IInv, UnitsInv
      <3> QED
        BY <1>6, <2>1, <3>1
    <2>3. credited \subseteq 1 .. lock_view'[Total]
      <3>1. credited \subseteq 1 .. lock_view[Total]
        BY DEF IInv, CreditInv
      <3> QED
        BY <2>1, <3>1
    <2> QED
      BY <1>1, <1>11, <1>14, <2>2, <2>3 DEF CreditInv
  <1>17. CopyInv'
    BY <1>1, <1>4 DEF IInv, CopyInv
  <1>18. SnapshotCoversTypes'
    BY <1>1 DEF IInv, SnapshotCoversTypes
  <1> QED
    BY <1>15, <1>16, <1>17, <1>18 DEF IInv

\* Cloning the map binds the scraper to what the lock's last holder had seen.
LEMMA CopyTypesStep ==
    ASSUME TypeOK, IInv, NEW s \in Scraper, CopyTypes(s)
    PROVE  IInv'
  <1>1. /\ lock_view \in Values /\ view[s] \in Values /\ Total \in Counter
        /\ by_type \in [DetectorKind -> U64]
    BY DEF TypeOK, Actor, Total, Counter
  <1>2. /\ JoinViews(lock_view, view[s])[Total] >= lock_view[Total]
        /\ lock_view[Total] \in Nat
        /\ JoinViews(lock_view, view[s])[Total] \in Nat
    BY <1>1, JoinViewsFacts DEF Values
  <1>3. /\ view'[s] = JoinViews(lock_view, view[s])
        /\ \A a \in Actor : a # s => view'[a] = view[a]
        /\ lock_view' = JoinViews(lock_view, view[s])
    BY DEF CopyTypes, TypeOK, Actor
  <1>4. UnitsInv'
    <2>1. \A t \in Task : view'[t] = view[t]
      BY <1>3, ActorAssumption DEF Actor
    <2>2. \A t \in Task : Units(t)' = Units(t)
      BY DEF CopyTypes, Units
    <2>3. Recorded' = Recorded
      BY DEF CopyTypes, Recorded, counters
    <2> QED
      BY <2>1, <2>2, <2>3 DEF IInv, UnitsInv, CopyTypes
  <1>5. CreditInv'
    BY <1>2, <1>3 DEF IInv, CreditInv, CopyTypes
  <1>6. SumOver(by_type) <= lock_view[Total] /\ SumOver(by_type) \in Nat
    <2>1. by_type \in [DetectorKind -> Nat]
      BY <1>1, MaxU64Assumption DEF U64
    <2> QED
      BY <2>1, SumOverFacts, MapBehindLock DEF IInv
  <1>7. CopyInv'
    <2> SUFFICES ASSUME NEW r \in Scraper, copied'[r].made
                 PROVE  SumOver(copied'[r].by_type) <= view'[r][Total]
      BY DEF CopyInv
    <2>1. CASE r = s
      <3>1. copied'[r].by_type = by_type
        BY <2>1 DEF CopyTypes, TypeOK
      <3> QED
        BY <1>2, <1>3, <1>6, <2>1, <3>1
    <2>2. CASE r # s
      <3>1. copied'[r] = copied[r] /\ view'[r] = view[r]
        BY <1>3, <2>2 DEF CopyTypes, TypeOK, Actor
      <3> QED
        BY <3>1 DEF IInv, CopyInv
    <2> QED
      BY <2>1, <2>2
  <1>8. SnapshotCoversTypes'
    BY DEF IInv, SnapshotCoversTypes, CopyTypes
  <1> QED
    BY <1>4, <1>5, <1>7, <1>8 DEF IInv

\* The loads return a total that covers the clone.
LEMMA LoadCountersStep ==
    ASSUME TypeOK, IInv, NEW s \in Scraper, LoadCounters(s)
    PROVE  IInv'
  <1>1. PICK seen \in Values :
           /\ \A c \in Counter : seen[c] \in Visible(s, c)
           /\ view' = [view EXCEPT ![s] = seen]
           /\ scrape' = [scrape EXCEPT
                 ![s] = [counts |-> seen, by_type |-> copied[s].by_type]]
    BY LoadedValues
  <1>2. UnitsInv'
    <2>1. \A t \in Task : view'[t] = view[t]
      BY <1>1, ActorAssumption DEF TypeOK, Actor
    <2>2. \A t \in Task : Units(t)' = Units(t)
      BY DEF LoadCounters, Units
    <2>3. Recorded' = Recorded
      BY DEF LoadCounters, Recorded, counters
    <2> QED
      BY <2>1, <2>2, <2>3 DEF IInv, UnitsInv, LoadCounters
  <1>3. CreditInv'
    BY DEF IInv, CreditInv, LoadCounters
  <1>4. CopyInv'
    <2> SUFFICES ASSUME NEW r \in Scraper, copied'[r].made
                 PROVE  SumOver(copied'[r].by_type) <= view'[r][Total]
      BY DEF CopyInv
    <2>1. r # s
      BY DEF LoadCounters, TypeOK, NoCopy
    <2>2. copied'[r] = copied[r] /\ view'[r] = view[r]
      BY <1>1, <2>1 DEF LoadCounters, TypeOK, Actor
    <2> QED
      BY <2>2 DEF IInv, CopyInv
  <1>5. SnapshotCoversTypes'
    <2> SUFFICES ASSUME NEW r \in Scraper
                 PROVE  SumOver(scrape'[r].by_type) <= scrape'[r].counts[Total]
      BY DEF SnapshotCoversTypes, Total
    <2>1. CASE r = s
      <3>1. scrape'[r] = [counts |-> seen, by_type |-> copied[s].by_type]
        BY <1>1, <2>1 DEF TypeOK
      <3>2. seen[Total] >= view[s][Total] /\ seen[Total] \in Nat
            /\ view[s][Total] \in Nat
        BY <1>1 DEF Visible, Total, Counter, Values, TypeOK, Actor
      <3>3. /\ SumOver(copied[s].by_type) <= view[s][Total]
            /\ SumOver(copied[s].by_type) \in Nat
        <4>1. copied[s].by_type \in [DetectorKind -> Nat]
          BY MaxU64Assumption DEF TypeOK, U64
        <4> QED
          BY <4>1, SumOverFacts DEF IInv, CopyInv, LoadCounters
      <3> QED
        BY <3>1, <3>2, <3>3
    <2>2. CASE r # s
      <3>1. scrape'[r] = scrape[r]
        BY <1>1, <2>2 DEF TypeOK
      <3> QED
        BY <3>1 DEF IInv, SnapshotCoversTypes, Total
    <2> QED
      BY <2>1, <2>2
  <1> QED
    BY <1>2, <1>3, <1>4, <1>5 DEF IInv

LEMMA MetricsIInv == Spec => []IInv
  <1>1. TypeOK /\ IInv /\ [Next]_vars => IInv'
    <2> SUFFICES ASSUME TypeOK, IInv, [Next]_vars PROVE IInv'
      OBVIOUS
    <2>1. CASE UNCHANGED vars
      BY <2>1 DEF vars, counters, IInv, UnitsInv, CreditInv, CopyInv,
                  SnapshotCoversTypes, Units, Recorded
    <2> QED
      BY <2>1, CountStep, RecordTotalStep, RecordTypesStep, CopyTypesStep,
         LoadCountersStep DEF Next
  <1> QED
    BY <1>1, InitIInv, MetricsTypeOK, PTL DEF Spec

\* Every snapshot any scraper ever gets shows at least as many redactions in
\* total as by kind, for every number of handlers and scrapers, every report
\* and every choice the relaxed loads make.
THEOREM SnapshotsCoverTypes == Spec => []SnapshotCoversTypes
  <1>1. IInv => SnapshotCoversTypes
    BY DEF IInv
  <1> QED
    BY <1>1, MetricsIInv, PTL

\* No interleaving of handlers loses a count by kind or merges it twice.
THEOREM TypesAddUp == Spec => []TypesAddUpAtRest
  <1>1. TypeOK /\ IInv => TypesAddUpAtRest
    <2> SUFFICES ASSUME TypeOK, IInv, \A t \in Task : pending[t] = NoKinds
                 PROVE  SumOver(by_type) = Recorded
      BY DEF TypesAddUpAtRest
    <2>1. \A t \in Task : Units(t) = {}
      BY NoKindsFacts DEF Units, TypeOK
    <2>2. credited = 1 .. Recorded
      BY <2>1 DEF IInv, UnitsInv
    <2>3. Recorded \in Nat
      BY DEF Recorded, TypeOK, Values, Counter
    <2>4. Cardinality(1 .. Recorded) = Recorded
      BY <2>3, FS_Interval
    <2> QED
      BY <2>2, <2>4 DEF IInv, CreditInv
  <1> QED
    BY <1>1, MetricsTypeOK, MetricsIInv, PTL

-----------------------------------------------------------------------------
(* What a scraper has been shown is behind its view, and the map it was     *)
(* shown behind the map it has cloned, which is behind the map.             *)
ShownInv ==
    \A s \in Scraper :
        /\ \A c \in Counter : scrape[s].counts[c] <= view[s][c]
        /\ \A k \in DetectorKind :
              /\ scrape[s].by_type[k] <= by_type[k]
              /\ copied[s].made => /\ scrape[s].by_type[k] <= copied[s].by_type[k]
                                   /\ copied[s].by_type[k] <= by_type[k]

NeverBack ==
    \A s \in Scraper :
        /\ \A c \in Counter : scrape'[s].counts[c] >= scrape[s].counts[c]
        /\ \A k \in DetectorKind : scrape'[s].by_type[k] >= scrape[s].by_type[k]

\* The types the comparisons need.
LEMMA ShownTypes ==
    ASSUME TypeOK
    PROVE  /\ \A s \in Scraper : \A c \in Counter :
                 scrape[s].counts[c] \in Nat /\ view[s][c] \in Nat
           /\ \A s \in Scraper : \A k \in DetectorKind :
                 scrape[s].by_type[k] \in U64 /\ copied[s].by_type[k] \in U64
           /\ \A k \in DetectorKind : by_type[k] \in U64
           /\ U64 \subseteq Nat
  BY MaxU64Assumption DEF TypeOK, Snapshot, Values, Actor, U64

\* Merging into the map lowers none of its counts.
LEMMA MergeGrows ==
    ASSUME NEW a \in [DetectorKind -> U64], NEW b \in [DetectorKind -> U64],
           NEW k \in DetectorKind
    PROVE  MergeTypes(a, b)[k] >= a[k]
  <1>1. a[k] \in U64 /\ b[k] \in U64
    OBVIOUS
  <1> QED
    BY <1>1, MaxU64Assumption DEF MergeTypes, SatAdd, Capped, U64

LEMMA NextShown ==
    ASSUME TypeOK, ShownInv, [Next]_vars
    PROVE  ShownInv' /\ NeverBack
  <1> USE ShownTypes
  <1>1. ASSUME UNCHANGED <<copied, scrape>>,
               \A s \in Scraper : view'[s] = view[s],
               \A k \in DetectorKind : by_type'[k] \in U64 /\ by_type'[k] >= by_type[k]
        PROVE  ShownInv' /\ NeverBack
    <2>1. NeverBack
      BY <1>1 DEF NeverBack
    <2>2. ShownInv'
      BY <1>1 DEF ShownInv
    <2> QED
      BY <2>1, <2>2
  <1>2. ASSUME NEW t \in Task, NEW c \in Counted, NEW n \in Amount, Count(t, c, n)
        PROVE  ShownInv' /\ NeverBack
    <2>1. \A s \in Scraper : view'[s] = view[s]
      BY <1>2, ActorAssumption DEF Count, FetchAdd, TypeOK, Actor
    <2> QED
      BY <1>1, <1>2, <2>1 DEF Count
  <1>3. ASSUME NEW t \in Task, NEW rep \in Reports, RecordTotal(t, rep)
        PROVE  ShownInv' /\ NeverBack
    <2>1. \A s \in Scraper : view'[s] = view[s]
      BY <1>3, ActorAssumption DEF RecordTotal, FetchAdd, TypeOK, Actor
    <2> QED
      BY <1>1, <1>3, <2>1 DEF RecordTotal
  <1>4. ASSUME NEW t \in Task, RecordTypes(t) PROVE ShownInv' /\ NeverBack
    <2>1. \A s \in Scraper : view'[s] = view[s]
      BY <1>4, ActorAssumption DEF RecordTypes, TypeOK, Actor
    <2>2. by_type \in [DetectorKind -> U64] /\ pending[t] \in [DetectorKind -> U64]
      BY DEF TypeOK
    <2>3. \A k \in DetectorKind : by_type'[k] \in U64 /\ by_type'[k] >= by_type[k]
      BY <1>4, <2>2, MergeTypesFacts, MergeGrows DEF RecordTypes
    <2> QED
      BY <1>1, <1>4, <2>1, <2>3 DEF RecordTypes
  <1>5. ASSUME NEW s \in Scraper, CopyTypes(s) PROVE ShownInv' /\ NeverBack
    <2>1. UNCHANGED <<by_type, scrape>>
      BY <1>5 DEF CopyTypes
    <2>2. ASSUME NEW r \in Scraper, NEW c \in Counter PROVE scrape[r].counts[c] <= view'[r][c]
      <3>1. lock_view \in Values /\ view[s] \in Values
        BY DEF TypeOK, Actor
      <3>2. JoinViews(lock_view, view[s])[c] >= view[s][c]
            /\ JoinViews(lock_view, view[s])[c] \in Nat
        BY <3>1, JoinViewsFacts DEF Values
      <3>3. view'[r] = IF r = s THEN JoinViews(lock_view, view[s]) ELSE view[r]
        BY <1>5 DEF CopyTypes, TypeOK, Actor
      <3> QED
        BY <3>2, <3>3 DEF ShownInv
    <2>3. \A r \in Scraper : copied'[r] = IF r = s THEN [made |-> TRUE, by_type |-> by_type]
                                          ELSE copied[r]
      BY <1>5 DEF CopyTypes, TypeOK
    <2>4. NeverBack
      BY <2>1 DEF NeverBack
    <2>5. ShownInv'
      <3> SUFFICES ASSUME NEW r \in Scraper, NEW k \in DetectorKind
                   PROVE  copied'[r].made => /\ scrape[r].by_type[k] <= copied'[r].by_type[k]
                                             /\ copied'[r].by_type[k] <= by_type[k]
        BY <2>1, <2>2 DEF ShownInv
      <3>1. CASE r = s
        BY <2>3, <3>1 DEF ShownInv
      <3>2. CASE r # s
        BY <2>3, <3>2 DEF ShownInv
      <3> QED
        BY <3>1, <3>2
    <2> QED
      BY <2>4, <2>5
  <1>6. ASSUME NEW s \in Scraper, LoadCounters(s) PROVE ShownInv' /\ NeverBack
    <2>1. PICK seen \in Values :
             /\ \A c \in Counter : seen[c] \in Visible(s, c)
             /\ view' = [view EXCEPT ![s] = seen]
             /\ scrape' = [scrape EXCEPT
                   ![s] = [counts |-> seen, by_type |-> copied[s].by_type]]
      BY <1>6, LoadedValues
    <2>2. /\ copied[s].made /\ copied' = [copied EXCEPT ![s] = NoCopy] /\ by_type' = by_type
      BY <1>6 DEF LoadCounters
    <2>3. \A c \in Counter : seen[c] \in Nat /\ seen[c] >= view[s][c]
      BY <2>1 DEF Visible, Values
    <2>4. \A r \in Scraper :
             /\ view'[r] = IF r = s THEN seen ELSE view[r]
             /\ scrape'[r] = IF r = s THEN [counts |-> seen, by_type |-> copied[s].by_type]
                             ELSE scrape[r]
             /\ copied'[r] = IF r = s THEN NoCopy ELSE copied[r]
      BY <2>1, <2>2 DEF TypeOK, Actor
    <2>5. ASSUME NEW r \in Scraper, NEW c \in Counter
          PROVE  /\ scrape'[r].counts[c] >= scrape[r].counts[c]
                 /\ scrape'[r].counts[c] <= view'[r][c]
      BY <2>3, <2>4 DEF ShownInv
    <2>6. ASSUME NEW r \in Scraper, NEW k \in DetectorKind
          PROVE  /\ scrape'[r].by_type[k] >= scrape[r].by_type[k]
                 /\ scrape'[r].by_type[k] <= by_type[k]
                 /\ copied'[r].made => /\ scrape'[r].by_type[k] <= copied'[r].by_type[k]
                                       /\ copied'[r].by_type[k] <= by_type[k]
      <3>1. CASE r = s
        BY <2>2, <2>4, <3>1 DEF ShownInv, NoCopy
      <3>2. CASE r # s
        BY <2>4, <3>2 DEF ShownInv
      <3> QED
        BY <3>1, <3>2
    <2> QED
      BY <2>2, <2>5, <2>6 DEF ShownInv, NeverBack
  <1>7. CASE UNCHANGED vars
    BY <1>1, <1>7 DEF vars
  <1> QED
    BY <1>2, <1>3, <1>4, <1>5, <1>6, <1>7 DEF Next

\* Whatever the loads return and however long a scrape takes, what a scraper
\* reads on one connection never goes backwards.
THEOREM ScrapesGoForward == Spec => ScrapesNeverGoBack
  <1>1. Init => ShownInv
    <2> SUFFICES ASSUME Init PROVE ShownInv
      OBVIOUS
    <2>1. \A s \in Scraper : /\ scrape[s] = NoSnapshot /\ view[s] = Nothing
                             /\ ~copied[s].made
      BY DEF Init, Actor, NoCopy
    <2>2. /\ \A c \in Counter : NoSnapshot.counts[c] <= Nothing[c]
          /\ \A k \in DetectorKind : NoSnapshot.by_type[k] <= NoKinds[k]
      BY NoKindsFacts, MaxU64Assumption DEF NoSnapshot, Nothing, U64
    <2>3. by_type = NoKinds
      BY DEF Init
    <2> QED
      BY <2>1, <2>2, <2>3 DEF ShownInv
  <1>2. TypeOK /\ ShownInv /\ [Next]_vars => ShownInv' /\ [NeverBack]_vars
    BY NextShown
  <1> QED
    BY <1>1, <1>2, MetricsTypeOK, PTL DEF Spec, ScrapesNeverGoBack, NeverBack
=============================================================================
