---------------------------- MODULE FindingsProofs ----------------------------
(***************************************************************************)
(* Proofs about Findings, for every set of identities and cells and every  *)
(* choice of instants, candidates and settings.                            *)
(***************************************************************************)
EXTENDS Findings, FiniteSetTheorems, TLAPS

-------------------------------------------------------------------------------
\* The classification yields a risk.
LEMMA RiskType ==
  ASSUME NEW d, NEW p, NEW o, NEW b
  PROVE  ClassifyRisk(d, p, o, b) \in RemediationRisk
BY DEF ClassifyRisk, BaseRisk, MaxRisk, RemediationRisk

\* Each of the four ways a scan treats a row yields a row.
LEMMA InsertedType ==
  ASSUME NEW c \in Candidate, NEW t \in Nat
  PROVE  Inserted(c, t) \in Finding
BY DEF Inserted, Finding, Candidate, StatusFor, FindingStatus, PersistenceState,
       RemediationRisk, OwnershipStatus, Never

\* A row seen again is still a row.
LEMMA ReobservedType ==
  ASSUME NEW f \in Finding, NEW c \in Candidate, NEW t \in Nat
  PROVE  Reobserved(f, c, t) \in Finding
<1>1. Reappeared(f, c, t) \in Finding
  BY DEF Reappeared, Finding, StatusFor, FindingStatus, Never
<1>2. Continued(f, c) \in Finding
  <2>1. f.consecutive_observations + 1 \in Nat
    BY DEF Finding
  <2>2. QED
    BY <2>1 DEF Continued, Finding, StatusFor, FindingStatus
<1>3. ASSUME NEW g \in Finding
      PROVE  [g EXCEPT !.last_observed_at = t, !.observation_count = @ + 1] \in Finding
  <2>1. g.observation_count + 1 \in Nat
    BY <1>3 DEF Finding
  <2>2. QED
    BY <1>3, <2>1 DEF Finding
<1>4. QED
  BY <1>1, <1>2, <1>3 DEF Reobserved

\* A refreshed row is still a row.
LEMMA RefreshedType ==
  ASSUME NEW f \in Finding, NEW c \in Candidate, NEW d
  PROVE  Refreshed(f, c, d) \in Finding
BY RiskType DEF Refreshed, Finding, Candidate, ComputePersistence, PersistenceState

\* A resolved row is still a row.
LEMMA ResolvedType ==
  ASSUME NEW f \in Finding, NEW t \in Nat
  PROVE  Resolved(f, t) \in Finding
BY DEF Resolved, Finding, FindingStatus, Never

\* A scan as Next takes it.
ScanStep(t, complete, report) ==
  /\ t \in Time
  /\ complete \in SUBSET Cell
  /\ DOMAIN report \in SUBSET IdentitiesIn(complete)
  /\ report \in [DOMAIN report -> Candidates]
  /\ RunScan(t, complete, report)

\* Every step is a scan, a dismissal, a reopening or a change of settings.
LEMMA NextIsScanOrPatch ==
  ASSUME Next
  PROVE  \/ \E t, complete, report : ScanStep(t, complete, report)
         \/ \E i \in DOMAIN findings : Dismiss(i) \/ Reopen(i)
         \/ PatchSettings
BY DEF Next, ScanStep

\* Whatever a scan leaves of an identity it keeps or finds is a row.
LEMMA ReconciledType ==
  ASSUME TypeOK, NEW t, NEW complete, NEW report, ScanStep(t, complete, report),
         NEW i \in DOMAIN findings \cup DOMAIN report
  PROVE  Reconciled(i, t, complete, report) \in Finding
<1>1. t \in Nat
  BY FindingsAssumption DEF ScanStep
<1>2. CASE i \in DOMAIN report
  <2>1. report[i] \in Candidate
    BY <1>2, FindingsAssumption DEF ScanStep
  <2>2. CASE i \in DOMAIN findings
    <3>1. findings[i] \in Finding
      BY <2>2 DEF TypeOK
    <3>2. Reobserved(findings[i], report[i], t) \in Finding
      BY <3>1, <2>1, <1>1, ReobservedType
    <3>3. QED
      BY <1>2, <2>1, <2>2, <3>2, RefreshedType DEF Reconciled
  <2>3. CASE i \notin DOMAIN findings
    BY <1>1, <1>2, <2>1, <2>3, InsertedType, RefreshedType DEF Reconciled
  <2>4. QED
    BY <2>2, <2>3
<1>3. CASE i \notin DOMAIN report
  <2>1. findings[i] \in Finding
    BY <1>3 DEF TypeOK
  <2>2. QED
    BY <1>1, <1>3, <2>1, ResolvedType DEF Reconciled
<1>4. QED
  BY <1>2, <1>3

-------------------------------------------------------------------------------
\* Type correctness: every action keeps the tables well formed.
LEMMA ScanKeepsType ==
  ASSUME TypeOK, NEW t, NEW complete, NEW report, ScanStep(t, complete, report)
  PROVE  TypeOK'
<1>1. /\ t \in Nat
      /\ DOMAIN report \subseteq Identity
  BY FindingsAssumption DEF ScanStep, IdentitiesIn
<1>2. findings' = [i \in DOMAIN findings \cup DOMAIN report |->
                     Reconciled(i, t, complete, report)]
  BY DEF ScanStep, RunScan
<1>3. /\ DOMAIN findings' \subseteq Identity
      /\ findings' \in [DOMAIN findings' -> Finding]
  BY <1>1, <1>2, ReconciledType DEF TypeOK
<1>4. observations' \subseteq Observation
  <2>1. ASSUME NEW i \in DOMAIN report
        PROVE  ObservationOf(i, t, Reconciled(i, t, complete, report)) \in Observation
    <3>1. Reconciled(i, t, complete, report) \in Finding
      BY ReconciledType
    <3>2. QED
      BY <1>1, <3>1 DEF ObservationOf, Observation, Finding
  <2>2. QED
    BY <2>1 DEF TypeOK, ScanStep, RunScan
<1>5. scans' \subseteq Scan
  BY <1>1 DEF TypeOK, Scan, ScanStep, RunScan
<1>6. QED
  BY <1>1, <1>3, <1>4, <1>5 DEF TypeOK, ScanStep, RunScan

\* A dismissal or reopening keeps the tables well formed.
LEMMA PatchKeepsType ==
  ASSUME TypeOK, NEW i \in DOMAIN findings, Dismiss(i) \/ Reopen(i)
  PROVE  TypeOK'
<1>1. findings[i] \in Finding
  BY DEF TypeOK
<1>2. [findings[i] EXCEPT !.status = "dismissed", !.dismissed_at = now] \in Finding
  BY <1>1 DEF TypeOK, Finding, FindingStatus
<1>3. [findings[i] EXCEPT !.status = "open", !.dismissed_at = Never] \in Finding
  BY <1>1 DEF Finding, FindingStatus, Never
<1>4. CASE Dismiss(i)
  <2>1. findings' = [findings EXCEPT ![i] = [findings[i] EXCEPT
                       !.status = "dismissed", !.dismissed_at = now]]
    BY <1>4 DEF Dismiss
  <2>2. QED
    BY <1>2, <1>4, <2>1 DEF Dismiss, TypeOK
<1>5. CASE Reopen(i)
  <2>1. findings' = [findings EXCEPT ![i] = [findings[i] EXCEPT
                       !.status = "open", !.dismissed_at = Never]]
    BY <1>5 DEF Reopen
  <2>2. QED
    BY <1>3, <1>5, <2>1 DEF Reopen, TypeOK
<1>6. QED
  BY <1>4, <1>5

\* Rows, log, scans and settings stay well formed whatever the scans report
\* and whatever the user does.
THEOREM TypeCorrect == Spec => []TypeOK
<1>1. Init => TypeOK
  BY FindingsAssumption DEF Init, TypeOK
<1>2. TypeOK /\ [Next]_vars => TypeOK'
  <2> SUFFICES ASSUME TypeOK, [Next]_vars PROVE TypeOK'
    OBVIOUS
  <2>1. ASSUME NEW t, NEW complete, NEW report, ScanStep(t, complete, report)
        PROVE  TypeOK'
    BY <2>1, ScanKeepsType
  <2>2. ASSUME NEW i \in DOMAIN findings, Dismiss(i) \/ Reopen(i)
        PROVE  TypeOK'
    BY <2>2, PatchKeepsType
  <2>3. CASE PatchSettings
    BY <2>3, FindingsAssumption DEF PatchSettings, TypeOK
  <2>4. CASE UNCHANGED vars
    BY <2>4 DEF vars, TypeOK
  <2>5. QED
    BY <2>1, <2>2, <2>3, <2>4, NextIsScanOrPatch
<1>3. QED
  BY <1>1, <1>2, PTL DEF Spec

-------------------------------------------------------------------------------
(***************************************************************************)
(* The inductive invariant.  The four properties are not inductive alone:  *)
(* they need that nothing is dated after `now` (so a new observation is    *)
(* really new), that only existing findings have observations, that the    *)
(* log of a finding is finite, and where its stored classification comes   *)
(* from.                                                                   *)
(***************************************************************************)
LogInPast ==
  /\ \A o \in observations : o.finding \in DOMAIN findings /\ o.observed_at <= now
  /\ \A s \in scans : s.started_at <= now
  /\ \A i \in Identity : IsFiniteSet(RowsOf(i))

\* The stored persistence and risk of a finding are those of its streak under
\* the settings of the scan that last observed it, and its latest row has them.
ClassifiedByLastScan ==
  \A i \in DOMAIN findings :
    LET f == findings[i]
    IN  /\ \E s \in CoveringScans(i) :
             /\ s.started_at = f.last_observed_at
             /\ f.persistence_state =
                  ComputePersistence(DetectorOf[i], f.streak_started_at,
                                     f.last_observed_at, Cardinality(StreakOf(i)),
                                     s.settings)
        /\ f.remediation_risk =
             ClassifyRisk(DetectorOf[i], f.persistence_state, f.ownership, f.blocked)
        /\ \E o \in RowsOf(i) : o.observed_at = f.last_observed_at
                                /\ o.remediation_risk = f.remediation_risk

IInv ==
  /\ TypeOK
  /\ LogInPast
  /\ CountsMatchHistory
  /\ StreakUninterrupted
  /\ ResolvedByFirstAbsence
  /\ ClassifiedByLastScan

\* Empty tables satisfy the invariant.
LEMMA IInvInit == Init => IInv
<1> SUFFICES ASSUME Init PROVE IInv
  OBVIOUS
<1>1. TypeOK
  BY FindingsAssumption DEF Init, TypeOK
<1>2. LogInPast
  <2>1. \A i : RowsOf(i) = {}
    BY DEF Init, RowsOf
  <2>2. QED
    BY <2>1, FS_EmptySet DEF Init, LogInPast
<1>3. QED
  BY <1>1, <1>2 DEF Init, IInv, CountsMatchHistory, StreakUninterrupted,
     ResolvedByFirstAbsence, ClassifiedByLastScan

\* The fields of a row a scan inserts, restarts, continues or resolves.
LEMMA InsertedFields ==
  ASSUME NEW c \in Candidate, NEW t \in Nat, NEW d
  PROVE  LET g == Refreshed(Inserted(c, t), c, d)
         IN  /\ g.first_observed_at = t
             /\ g.last_observed_at = t
             /\ g.streak_started_at = t
             /\ g.observation_count = 1
             /\ g.consecutive_observations = 1
             /\ g.status = StatusFor(c)
             /\ g.resolved_at = Never
             /\ g.persistence_state = ComputePersistence(d, t, t, 1, settings)
             /\ g.remediation_risk = ClassifyRisk(d, g.persistence_state, g.ownership, g.blocked)
BY DEF Inserted, Refreshed

\* The fields of a resolved row that a scan sees again.
LEMMA ReappearedFields ==
  ASSUME NEW f \in Finding, NEW c \in Candidate, NEW t \in Nat, NEW d,
         f.status = "resolved"
  PROVE  LET g == Refreshed(Reobserved(f, c, t), c, d)
         IN  /\ g.first_observed_at = f.first_observed_at
             /\ g.last_observed_at = t
             /\ g.streak_started_at = t
             /\ g.observation_count = f.observation_count + 1
             /\ g.consecutive_observations = 1
             /\ g.status = StatusFor(c)
             /\ g.resolved_at = Never
             /\ g.persistence_state = ComputePersistence(d, t, t, 1, settings)
             /\ g.remediation_risk = ClassifyRisk(d, g.persistence_state, g.ownership, g.blocked)
BY DEF Reobserved, Reappeared, Refreshed, Finding

\* The fields of a row whose streak a scan continues.
LEMMA ContinuedFields ==
  ASSUME NEW f \in Finding, NEW c \in Candidate, NEW t \in Nat, NEW d,
         f.status # "resolved"
  PROVE  LET g == Refreshed(Reobserved(f, c, t), c, d)
         IN  /\ g.first_observed_at = f.first_observed_at
             /\ g.last_observed_at = t
             /\ g.streak_started_at = f.streak_started_at
             /\ g.observation_count = f.observation_count + 1
             /\ g.consecutive_observations = f.consecutive_observations + 1
             /\ g.status = (IF f.status = "dismissed" THEN f.status ELSE StatusFor(c))
             /\ g.resolved_at = f.resolved_at
             /\ g.persistence_state =
                  ComputePersistence(d, f.streak_started_at, t,
                                     f.consecutive_observations + 1, settings)
             /\ g.remediation_risk = ClassifyRisk(d, g.persistence_state, g.ownership, g.blocked)
BY DEF Reobserved, Continued, Refreshed, Finding

\* The fields of a row whose resource a covering scan did not see.
LEMMA ResolvedFields ==
  ASSUME NEW f \in Finding, NEW t \in Nat
  PROVE  LET g == Resolved(f, t)
         IN  /\ \A x \in {"first_observed_at", "last_observed_at", "streak_started_at",
                           "observation_count", "persistence_state", "remediation_risk",
                           "ownership", "blocked"} : g[x] = f[x]
             /\ g.status = "resolved"
             /\ f.status = "resolved" => g = f
             /\ f.status # "resolved" =>
                  g.resolved_at = t /\ g.consecutive_observations = 0
BY DEF Resolved, Finding, FindingStatus

-------------------------------------------------------------------------------
(***************************************************************************)
(* What a scan does to the rows, the log and the covering scans of one     *)
(* finding.                                                                *)
(***************************************************************************)
\* Every row after a scan is one it kept or one it inserted, reconciled.
LEMMA ScanRow ==
  ASSUME IInv, NEW t, NEW complete, NEW report, ScanStep(t, complete, report),
         NEW i \in DOMAIN findings'
  PROVE  /\ i \in Identity
         /\ t \in Nat /\ now \in Nat /\ t > now /\ now' = t
         /\ i \in DOMAIN findings \cup DOMAIN report
         /\ findings'[i] = Reconciled(i, t, complete, report)
         /\ i \in DOMAIN findings => findings[i] \in Finding
         /\ i \in DOMAIN report => report[i] \in Candidate /\ CellOf[i] \in complete
<1>1. t \in Nat /\ DOMAIN report \subseteq Identity
  BY FindingsAssumption DEF ScanStep, IdentitiesIn
<1>2. QED
  BY <1>1, FindingsAssumption DEF IInv, TypeOK, ScanStep, RunScan, IdentitiesIn

\* A scan adds to the log of a finding exactly its own observation of it.
LEMMA ScanLog ==
  ASSUME IInv, NEW t, NEW complete, NEW report, ScanStep(t, complete, report),
         NEW i \in Identity
  PROVE  /\ i \in DOMAIN report =>
              RowsOf(i)' = RowsOf(i) \cup {ObservationOf(i, t, findings'[i])}
         /\ i \notin DOMAIN report => RowsOf(i)' = RowsOf(i)
         /\ i \notin DOMAIN findings => RowsOf(i) = {}
         /\ IsFiniteSet(RowsOf(i)')
         /\ \A o \in RowsOf(i) : o.observed_at < t
<1>1. observations' = observations \cup
        {ObservationOf(j, t, Reconciled(j, t, complete, report)) : j \in DOMAIN report}
  BY DEF ScanStep, RunScan
<1>2. \A j, g : ObservationOf(j, t, g).finding = j
  BY DEF ObservationOf
<1>3. i \in DOMAIN report => findings'[i] = Reconciled(i, t, complete, report)
  BY DEF ScanStep, RunScan
<1>4. /\ i \in DOMAIN report =>
           RowsOf(i)' = RowsOf(i) \cup {ObservationOf(i, t, findings'[i])}
      /\ i \notin DOMAIN report => RowsOf(i)' = RowsOf(i)
  BY <1>1, <1>2, <1>3 DEF RowsOf
<1>5. i \notin DOMAIN findings => RowsOf(i) = {}
  BY DEF IInv, LogInPast, RowsOf
<1>6. IsFiniteSet(RowsOf(i)')
  BY <1>4, FS_AddElement DEF IInv, LogInPast
<1>7. \A o \in RowsOf(i) : o.observed_at < t
  BY FindingsAssumption DEF IInv, LogInPast, TypeOK, Observation, RowsOf, ScanStep, RunScan
<1>8. QED
  BY <1>4, <1>5, <1>6, <1>7

\* A scan adds itself to the covering scans of exactly the cells it covered.
LEMMA ScanCoverage ==
  ASSUME IInv, NEW t, NEW complete, NEW report, ScanStep(t, complete, report),
         NEW i \in Identity
  PROVE  LET s == [started_at |-> t, complete |-> complete, settings |-> settings]
         IN  /\ CellOf[i] \in complete => CoveringScans(i)' = CoveringScans(i) \cup {s}
             /\ CellOf[i] \notin complete => CoveringScans(i)' = CoveringScans(i)
             /\ \A r \in CoveringScans(i) : r.started_at \in Nat /\ r.started_at <= now
             /\ \A r \in scans' : r.started_at \in Nat /\ r.started_at <= t
<1>1. t \in Nat /\ t > now
  BY FindingsAssumption DEF ScanStep, RunScan
<1>2. scans' = scans \cup {[started_at |-> t, complete |-> complete, settings |-> settings]}
  BY DEF ScanStep, RunScan
<1>3. \A r \in scans : r.started_at \in Nat /\ r.started_at <= now
  BY DEF IInv, TypeOK, LogInPast, Scan
<1>4. QED
  BY <1>1, <1>2, <1>3 DEF CoveringScans, IInv, TypeOK

\* A finding the scan observed: its new row of the log is its latest, and it
\* either extends the streak or starts one.
LEMMA ScanSeen ==
  ASSUME IInv, NEW t, NEW complete, NEW report, ScanStep(t, complete, report),
         NEW i \in DOMAIN findings', i \in DOMAIN report
  PROVE  LET g == findings'[i]
             o == ObservationOf(i, t, g)
             continued == i \in DOMAIN findings /\ findings[i].status # "resolved"
         IN  /\ g.status # "resolved" /\ g.resolved_at = Never
             /\ g.last_observed_at = t
             /\ o.observed_at = t /\ o \notin RowsOf(i)
             /\ RowsOf(i)' = RowsOf(i) \cup {o}
             /\ g.observation_count = Cardinality(RowsOf(i)')
             /\ g.consecutive_observations = Cardinality(StreakOf(i)')
             /\ continued =>
                  /\ StreakOf(i)' = StreakOf(i) \cup {o}
                  /\ g.streak_started_at = findings[i].streak_started_at
             /\ ~continued => StreakOf(i)' = {o} /\ g.streak_started_at = t
             /\ i \in DOMAIN findings => g.first_observed_at = findings[i].first_observed_at
             /\ i \notin DOMAIN findings => g.first_observed_at = t
             /\ g.persistence_state =
                  ComputePersistence(DetectorOf[i], g.streak_started_at, t,
                                     g.consecutive_observations, settings)
             /\ g.remediation_risk =
                  ClassifyRisk(DetectorOf[i], g.persistence_state, g.ownership, g.blocked)
<1> DEFINE g == findings'[i]
           o == ObservationOf(i, t, g)
           c == report[i]
           f == findings[i]
<1>1. /\ i \in Identity /\ t \in Nat /\ c \in Candidate
      /\ findings'[i] = Reconciled(i, t, complete, report)
      /\ i \in DOMAIN findings => f \in Finding
  BY ScanRow
<1>2. /\ o.observed_at = t
      /\ RowsOf(i)' = RowsOf(i) \cup {o}
      /\ \A r \in RowsOf(i) : r.observed_at < t
      /\ i \notin DOMAIN findings => RowsOf(i) = {}
      /\ IsFiniteSet(RowsOf(i))
      /\ \A r \in RowsOf(i) : r.observed_at \in Nat
  BY <1>1, ScanLog DEF ObservationOf, IInv, LogInPast, TypeOK, Observation, RowsOf
<1>3. o \notin RowsOf(i)
  BY <1>1, <1>2
<1>4. Cardinality(RowsOf(i)') = Cardinality(RowsOf(i)) + 1
  BY <1>2, <1>3, FS_AddElement
<1>5. StreakOf(i)' = {r \in RowsOf(i) \cup {o} : r.observed_at >= g.streak_started_at}
  BY <1>2 DEF StreakOf
<1>6. StatusFor(c) # "resolved"
  BY DEF StatusFor
<1>7. Cardinality({o}) = 1 /\ Cardinality({}) = 0
  BY FS_Singleton, FS_EmptySet
<1>8. CASE i \notin DOMAIN findings
  <2>1. g = Refreshed(Inserted(c, t), c, DetectorOf[i])
    BY <1>1, <1>8 DEF Reconciled
  <2>2. g.streak_started_at = t
    BY <1>1, <2>1, InsertedFields
  <2>3. RowsOf(i) = {} /\ StreakOf(i)' = {o}
    BY <1>1, <1>2, <1>5, <1>8, <2>2
  <2>4. QED
    BY <1>1, <1>2, <1>3, <1>4, <1>6, <1>7, <1>8, <2>1, <2>3, InsertedFields
<1>9. CASE i \in DOMAIN findings /\ f.status = "resolved"
  <2>1. g = Refreshed(Reobserved(f, c, t), c, DetectorOf[i])
    BY <1>1, <1>9 DEF Reconciled
  <2>2. g.streak_started_at = t
    BY <1>1, <1>9, <2>1, ReappearedFields
  <2>3. StreakOf(i)' = {o}
    BY <1>1, <1>2, <1>5, <2>2
  <2>4. f.observation_count = Cardinality(RowsOf(i))
    BY <1>9 DEF IInv, CountsMatchHistory
  <2>5. QED
    BY <1>1, <1>2, <1>3, <1>4, <1>6, <1>7, <1>9, <2>1, <2>3, <2>4, ReappearedFields
<1>10. CASE i \in DOMAIN findings /\ f.status # "resolved"
  <2>1. g = Refreshed(Reobserved(f, c, t), c, DetectorOf[i])
    BY <1>1, <1>10 DEF Reconciled
  <2>2. g.streak_started_at = f.streak_started_at
    BY <1>1, <1>10, <2>1, ContinuedFields
  <2>3. f.streak_started_at <= t
    <3>1. PICK r \in StreakOf(i) : r.observed_at = f.streak_started_at
      BY <1>10 DEF IInv, CountsMatchHistory
    <3>2. QED
      BY <1>1, <1>2, <3>1 DEF StreakOf
  <2>4. StreakOf(i)' = StreakOf(i) \cup {o}
    BY <1>2, <1>5, <2>2, <2>3 DEF StreakOf
  <2>5. StreakOf(i) \subseteq RowsOf(i)
    BY DEF StreakOf
  <2>6. Cardinality(StreakOf(i)') = Cardinality(StreakOf(i)) + 1
    BY <1>2, <1>3, <2>4, <2>5, FS_Subset, FS_AddElement
  <2>7. /\ f.observation_count = Cardinality(RowsOf(i))
        /\ f.consecutive_observations = Cardinality(StreakOf(i))
        /\ f.resolved_at = Never
    BY <1>10 DEF IInv, CountsMatchHistory, ResolvedByFirstAbsence
  <2>8. QED
    BY <1>1, <1>2, <1>3, <1>4, <1>6, <1>10, <2>1, <2>4, <2>6, <2>7, ContinuedFields
<1>11. QED
  BY <1>8, <1>9, <1>10

\* A finding the scan did not observe keeps its log, and is resolved if its
\* cell was covered.
LEMMA ScanUnseen ==
  ASSUME IInv, NEW t, NEW complete, NEW report, ScanStep(t, complete, report),
         NEW i \in DOMAIN findings', i \notin DOMAIN report
  PROVE  LET f == findings[i]
             g == findings'[i]
         IN  /\ i \in DOMAIN findings
             /\ RowsOf(i)' = RowsOf(i) /\ StreakOf(i)' = StreakOf(i)
             /\ g.first_observed_at = f.first_observed_at
             /\ g.last_observed_at = f.last_observed_at
             /\ g.streak_started_at = f.streak_started_at
             /\ g.observation_count = f.observation_count
             /\ g.persistence_state = f.persistence_state
             /\ g.remediation_risk = f.remediation_risk
             /\ g.ownership = f.ownership /\ g.blocked = f.blocked
             /\ (CellOf[i] \notin complete \/ f.status = "resolved") => g = f
             /\ CellOf[i] \in complete => g.status = "resolved"
             /\ (CellOf[i] \in complete /\ f.status # "resolved") =>
                  g.resolved_at = t /\ g.consecutive_observations = 0
<1>1. /\ i \in Identity /\ t \in Nat /\ i \in DOMAIN findings
      /\ findings'[i] = Reconciled(i, t, complete, report)
      /\ findings[i] \in Finding
  BY ScanRow
<1>2. findings'[i] = (IF CellOf[i] \in complete THEN Resolved(findings[i], t)
                      ELSE findings[i])
  BY <1>1 DEF Reconciled
<1>3. RowsOf(i)' = RowsOf(i)
  BY <1>1, ScanLog
<1>4. findings'[i].streak_started_at = findings[i].streak_started_at
  BY <1>1, <1>2, ResolvedFields
<1>5. StreakOf(i)' = StreakOf(i)
  BY <1>3, <1>4 DEF StreakOf
<1>6. QED
  BY <1>1, <1>2, <1>3, <1>5, ResolvedFields

-------------------------------------------------------------------------------
\* A scan preserves each conjunct of the invariant.
LEMMA ScanKeepsLog ==
  ASSUME IInv, NEW t, NEW complete, NEW report, ScanStep(t, complete, report)
  PROVE  LogInPast'
<1>1. /\ t \in Nat /\ now \in Nat /\ t > now /\ now' = t
      /\ DOMAIN findings' = DOMAIN findings \cup DOMAIN report
  BY FindingsAssumption DEF ScanStep, RunScan, IInv, TypeOK
<1>2. ASSUME NEW o \in observations'
      PROVE  o.finding \in DOMAIN findings' /\ o.observed_at <= now'
  <2>1. CASE o \in observations
    <3>1. o.finding \in DOMAIN findings /\ o.observed_at <= now /\ o.observed_at \in Nat
      BY <2>1 DEF IInv, LogInPast, TypeOK, Observation
    <3>2. QED
      BY <1>1, <3>1
  <2>2. CASE o \notin observations
    <3>1. PICK i \in DOMAIN report :
            o = ObservationOf(i, t, Reconciled(i, t, complete, report))
      BY <1>2, <2>2 DEF ScanStep, RunScan
    <3>2. QED
      BY <1>1, <3>1 DEF ObservationOf
  <2>3. QED
    BY <2>1, <2>2
<1>3. \A s \in scans' : s.started_at <= now'
  <2>1. \A s \in scans : s.started_at \in Nat /\ s.started_at <= now
    BY DEF IInv, LogInPast, TypeOK, Scan
  <2>2. QED
    BY <1>1, <2>1 DEF ScanStep, RunScan
<1>4. ASSUME NEW i \in Identity PROVE IsFiniteSet(RowsOf(i)')
  BY ScanLog
<1>5. QED
  BY <1>2, <1>3, <1>4 DEF LogInPast

\* The counters still count the log after a scan.
LEMMA ScanKeepsCounts ==
  ASSUME IInv, NEW t, NEW complete, NEW report, ScanStep(t, complete, report)
  PROVE  CountsMatchHistory'
<1> SUFFICES ASSUME NEW i \in DOMAIN findings'
             PROVE  LET f == findings'[i]
                    IN  /\ f.observation_count = Cardinality(RowsOf(i)')
                        /\ f.consecutive_observations =
                             (IF f.status = "resolved" THEN 0 ELSE Cardinality(StreakOf(i)'))
                        /\ \E o \in RowsOf(i)' : o.observed_at = f.first_observed_at
                        /\ \E o \in StreakOf(i)' : o.observed_at = f.streak_started_at
                        /\ \E o \in RowsOf(i)' : o.observed_at = f.last_observed_at
                        /\ \A o \in RowsOf(i)' :
                             o.observed_at \in f.first_observed_at .. f.last_observed_at
  BY DEF CountsMatchHistory
<1> DEFINE f == findings[i]
           g == findings'[i]
           o == ObservationOf(i, t, g)
<1>1. /\ i \in Identity /\ t \in Nat
      /\ i \in DOMAIN findings => f \in Finding
  BY ScanRow
<1>2. i \in DOMAIN findings =>
        /\ f.observation_count = Cardinality(RowsOf(i))
        /\ f.consecutive_observations =
             (IF f.status = "resolved" THEN 0 ELSE Cardinality(StreakOf(i)))
        /\ \E r \in RowsOf(i) : r.observed_at = f.first_observed_at
        /\ \E r \in StreakOf(i) : r.observed_at = f.streak_started_at
        /\ \E r \in RowsOf(i) : r.observed_at = f.last_observed_at
        /\ \A r \in RowsOf(i) : r.observed_at \in f.first_observed_at .. f.last_observed_at
  BY DEF IInv, CountsMatchHistory
<1>3. CASE i \in DOMAIN report
  <2>1. \A r \in RowsOf(i) : r.observed_at \in Nat /\ r.observed_at < t
    BY <1>1, ScanLog DEF IInv, TypeOK, Observation, RowsOf
  <2>2. i \notin DOMAIN findings => RowsOf(i) = {}
    BY <1>1, ScanLog
  <2>3. /\ g.observation_count = Cardinality(RowsOf(i)')
        /\ g.consecutive_observations = Cardinality(StreakOf(i)')
        /\ g.status # "resolved" /\ g.last_observed_at = t
        /\ o.observed_at = t /\ RowsOf(i)' = RowsOf(i) \cup {o}
    BY <1>3, ScanSeen
  <2>4. \E r \in StreakOf(i)' : r.observed_at = g.streak_started_at
    <3>1. CASE i \in DOMAIN findings /\ f.status # "resolved"
      <4>1. /\ StreakOf(i)' = StreakOf(i) \cup {o}
            /\ g.streak_started_at = f.streak_started_at
        BY <1>3, <3>1, ScanSeen
      <4>2. QED
        BY <1>2, <3>1, <4>1
    <3>2. CASE ~(i \in DOMAIN findings /\ f.status # "resolved")
      <4>1. StreakOf(i)' = {o} /\ g.streak_started_at = t
        BY <1>3, <3>2, ScanSeen
      <4>2. QED
        BY <2>3, <4>1
    <3>3. QED
      BY <3>1, <3>2
  <2>5. CASE i \in DOMAIN findings
    <3>1. g.first_observed_at = f.first_observed_at
      BY <1>3, <2>5, ScanSeen
    <3>2. f.first_observed_at \in Nat /\ f.first_observed_at <= t
      BY <1>1, <1>2, <2>1, <2>5 DEF Finding
    <3>3. \A r \in RowsOf(i)' : r.observed_at \in g.first_observed_at .. g.last_observed_at
      BY <1>1, <1>2, <2>1, <2>3, <2>5, <3>1, <3>2
    <3>4. QED
      BY <1>2, <2>3, <2>4, <2>5, <3>1, <3>3
  <2>6. CASE i \notin DOMAIN findings
    <3>1. g.first_observed_at = t
      BY <1>3, <2>6, ScanSeen
    <3>2. QED
      BY <1>1, <2>2, <2>3, <2>4, <2>6, <3>1
  <2>7. QED
    BY <2>5, <2>6
<1>4. CASE i \notin DOMAIN report
  BY <1>2, <1>4, ScanUnseen
<1>5. QED
  BY <1>3, <1>4

\* A scan interrupts no streak without ending it.
LEMMA ScanKeepsStreaks ==
  ASSUME IInv, NEW t, NEW complete, NEW report, ScanStep(t, complete, report)
  PROVE  StreakUninterrupted'
<1> SUFFICES ASSUME NEW i \in DOMAIN findings', findings'[i].status # "resolved",
                    NEW s \in CoveringScans(i)',
                    s.started_at >= findings'[i].streak_started_at
             PROVE  \E o \in RowsOf(i)' : o.observed_at = s.started_at
  BY DEF StreakUninterrupted
<1> DEFINE f == findings[i]
           g == findings'[i]
<1>1. i \in Identity /\ t \in Nat /\ now < t /\ now \in Nat
  BY ScanRow
<1>2. CASE i \in DOMAIN report
  <2>1. CellOf[i] \in complete
    BY <1>2, ScanRow
  <2>2. s.started_at = t \/ s \in CoveringScans(i)
    BY <1>1, <2>1, ScanCoverage
  <2>3. CASE s.started_at = t
    BY <1>2, <2>3, ScanSeen
  <2>4. CASE s \in CoveringScans(i)
    <3>1. s.started_at < t
      BY <1>1, <2>4, ScanCoverage
    <3>2. i \in DOMAIN findings /\ f.status # "resolved"
      <4>1. SUFFICES ASSUME ~(i \in DOMAIN findings /\ f.status # "resolved") PROVE FALSE
        OBVIOUS
      <4>2. g.streak_started_at = t
        BY <1>2, <4>1, ScanSeen
      <4>3. QED
        BY <1>1, <2>4, <3>1, <4>2, ScanCoverage
    <3>3. g.streak_started_at = f.streak_started_at /\ RowsOf(i) \subseteq RowsOf(i)'
      BY <1>2, <3>2, ScanSeen
    <3>4. QED
      BY <2>4, <3>2, <3>3 DEF IInv, StreakUninterrupted
  <2>5. QED
    BY <2>2, <2>3, <2>4
<1>3. CASE i \notin DOMAIN report
  <2>1. CellOf[i] \notin complete /\ g = f /\ RowsOf(i)' = RowsOf(i) /\ i \in DOMAIN findings
    BY <1>3, ScanUnseen
  <2>2. s \in CoveringScans(i)
    BY <1>1, <2>1, ScanCoverage
  <2>3. QED
    BY <2>1, <2>2 DEF IInv, StreakUninterrupted
<1>4. QED
  BY <1>2, <1>3

\* After a scan, resolution is still by the first absence.
LEMMA ScanKeepsResolutions ==
  ASSUME IInv, NEW t, NEW complete, NEW report, ScanStep(t, complete, report)
  PROVE  ResolvedByFirstAbsence'
<1> SUFFICES ASSUME NEW i \in DOMAIN findings'
             PROVE  LET g == findings'[i]
                        absences == {s \in CoveringScans(i)' : s.started_at > g.last_observed_at}
                    IN  IF g.status = "resolved"
                        THEN /\ \E s \in absences : s.started_at = g.resolved_at
                             /\ \A s \in absences : s.started_at >= g.resolved_at
                        ELSE absences = {} /\ g.resolved_at = Never
  BY DEF ResolvedByFirstAbsence
<1> DEFINE f == findings[i]
           g == findings'[i]
           scan == [started_at |-> t, complete |-> complete, settings |-> settings]
<1>1. /\ i \in Identity /\ t \in Nat /\ now < t /\ now \in Nat
      /\ i \in DOMAIN findings => f \in Finding
  BY ScanRow
<1>2. \A s \in CoveringScans(i)' : s.started_at \in Nat /\ s.started_at <= t
  BY <1>1, ScanCoverage DEF CoveringScans
<1>3. i \in DOMAIN findings =>
        LET absences == {s \in CoveringScans(i) : s.started_at > f.last_observed_at}
        IN  IF f.status = "resolved"
            THEN /\ \E s \in absences : s.started_at = f.resolved_at
                 /\ \A s \in absences : s.started_at >= f.resolved_at
            ELSE absences = {} /\ f.resolved_at = Never
  BY DEF IInv, ResolvedByFirstAbsence
<1>4. CASE i \in DOMAIN report
  <2>1. g.status # "resolved" /\ g.resolved_at = Never /\ g.last_observed_at = t
    BY <1>4, ScanSeen
  <2>2. QED
    BY <1>1, <1>2, <2>1
<1>5. CASE i \notin DOMAIN report /\ CellOf[i] \notin complete
  <2>1. g = f /\ i \in DOMAIN findings
    BY <1>5, ScanUnseen
  <2>2. CoveringScans(i)' = CoveringScans(i)
    BY <1>1, <1>5, ScanCoverage
  <2>3. QED
    BY <1>3, <2>1, <2>2
<1>6. CASE i \notin DOMAIN report /\ CellOf[i] \in complete
  <2>1. /\ i \in DOMAIN findings /\ g.status = "resolved"
        /\ g.last_observed_at = f.last_observed_at
        /\ f.last_observed_at \in Nat
    BY <1>1, <1>6, ScanUnseen DEF Finding
  <2>2. CoveringScans(i)' = CoveringScans(i) \cup {scan}
    BY <1>1, <1>6, ScanCoverage
  <2>3. \A s \in CoveringScans(i) : s.started_at \in Nat /\ s.started_at <= now
    BY <1>1, ScanCoverage
  <2>4. f.last_observed_at <= now
    <3>1. PICK o \in RowsOf(i) : o.observed_at = f.last_observed_at
      BY <2>1 DEF IInv, CountsMatchHistory
    <3>2. QED
      BY <3>1 DEF RowsOf, IInv, LogInPast
  <2>5. CASE f.status = "resolved"
    <3>1. g = f
      BY <1>6, <2>5, ScanUnseen
    <3>2. PICK s \in CoveringScans(i) : /\ s.started_at = f.resolved_at
                                       /\ s.started_at > f.last_observed_at
      BY <1>3, <2>1, <2>5
    <3>3. f.resolved_at \in Nat /\ f.resolved_at < t
      BY <1>1, <2>3, <3>2
    <3>4. \A r \in CoveringScans(i)' :
            r.started_at > g.last_observed_at => r.started_at >= g.resolved_at
      BY <1>1, <1>3, <2>1, <2>2, <2>5, <3>1, <3>3
    <3>5. QED
      BY <2>1, <2>2, <3>1, <3>2, <3>4
  <2>6. CASE f.status # "resolved"
    <3>1. g.resolved_at = t
      BY <1>6, <2>6, ScanUnseen
    <3>2. \A s \in CoveringScans(i) : ~(s.started_at > f.last_observed_at)
      BY <1>3, <2>1, <2>6
    <3>3. scan.started_at = t /\ t > f.last_observed_at
      BY <1>1, <2>1, <2>4
    <3>4. \A r \in CoveringScans(i)' :
            r.started_at > g.last_observed_at => r.started_at >= g.resolved_at
      BY <1>1, <2>1, <2>2, <3>1, <3>2, <3>3
    <3>5. QED
      BY <2>1, <2>2, <3>1, <3>3, <3>4
  <2>7. QED
    BY <2>5, <2>6
<1>7. QED
  BY <1>4, <1>5, <1>6

\* After a scan, every row is classified as the last scan that saw it would.
LEMMA ScanKeepsClassification ==
  ASSUME IInv, NEW t, NEW complete, NEW report, ScanStep(t, complete, report)
  PROVE  ClassifiedByLastScan'
<1> SUFFICES ASSUME NEW i \in DOMAIN findings'
             PROVE  LET g == findings'[i]
                    IN  /\ \E s \in CoveringScans(i)' :
                             /\ s.started_at = g.last_observed_at
                             /\ g.persistence_state =
                                  ComputePersistence(DetectorOf[i], g.streak_started_at,
                                                     g.last_observed_at,
                                                     Cardinality(StreakOf(i)'), s.settings)
                        /\ g.remediation_risk =
                             ClassifyRisk(DetectorOf[i], g.persistence_state,
                                          g.ownership, g.blocked)
                        /\ \E o \in RowsOf(i)' : /\ o.observed_at = g.last_observed_at
                                                /\ o.remediation_risk = g.remediation_risk
  BY DEF ClassifiedByLastScan
<1> DEFINE g == findings'[i]
           scan == [started_at |-> t, complete |-> complete, settings |-> settings]
<1>1. i \in Identity
  BY ScanRow
<1>2. CASE i \in DOMAIN report
  <2>1. CoveringScans(i)' = CoveringScans(i) \cup {scan}
    BY <1>1, <1>2, ScanRow, ScanCoverage
  <2>2. scan.started_at = t /\ scan.settings = settings
    OBVIOUS
  <2>3. /\ g.last_observed_at = t
        /\ g.consecutive_observations = Cardinality(StreakOf(i)')
        /\ g.persistence_state =
             ComputePersistence(DetectorOf[i], g.streak_started_at, t,
                                g.consecutive_observations, settings)
        /\ g.remediation_risk =
             ClassifyRisk(DetectorOf[i], g.persistence_state, g.ownership, g.blocked)
        /\ RowsOf(i)' = RowsOf(i) \cup {ObservationOf(i, t, g)}
    BY <1>2, ScanSeen
  <2>4. /\ ObservationOf(i, t, g).observed_at = t
        /\ ObservationOf(i, t, g).remediation_risk = g.remediation_risk
    BY DEF ObservationOf
  <2>5. QED
    BY <2>1, <2>2, <2>3, <2>4
<1>3. CASE i \notin DOMAIN report
  <2>1. CoveringScans(i) \subseteq CoveringScans(i)'
    BY <1>1, ScanCoverage
  <2>2. QED
    BY <1>3, <2>1, ScanUnseen DEF IInv, ClassifiedByLastScan
<1>4. QED
  BY <1>2, <1>3

\* A dismissal or reopening changes a status between two that are not
\* "resolved" and nothing else the invariant speaks of.
LEMMA PatchKeepsIInv ==
  ASSUME IInv, NEW j \in DOMAIN findings, Dismiss(j) \/ Reopen(j)
  PROVE  IInv'
<1>1. /\ DOMAIN findings' = DOMAIN findings
      /\ \A i \in DOMAIN findings :
           /\ \A x \in {"first_observed_at", "last_observed_at", "streak_started_at",
                        "observation_count", "consecutive_observations", "resolved_at",
                        "persistence_state", "remediation_risk", "ownership", "blocked"} :
                findings'[i][x] = findings[i][x]
           /\ (findings'[i].status = "resolved") <=> (findings[i].status = "resolved")
  <2>1. \A i \in DOMAIN findings : findings[i] \in Finding
    BY DEF IInv, TypeOK
  <2>2. CASE Dismiss(j)
    BY <2>1, <2>2 DEF Dismiss, Finding
  <2>3. CASE Reopen(j)
    BY <2>1, <2>3 DEF Reopen, Finding
  <2>4. QED
    BY <2>2, <2>3
<1>2. observations' = observations /\ scans' = scans /\ now' = now
  BY DEF Dismiss, Reopen
<1>3. \A i \in DOMAIN findings :
        /\ RowsOf(i)' = RowsOf(i) /\ StreakOf(i)' = StreakOf(i)
        /\ CoveringScans(i)' = CoveringScans(i)
  BY <1>1, <1>2 DEF RowsOf, StreakOf, CoveringScans
<1>4. TypeOK'
  BY PatchKeepsType DEF IInv
<1>5. LogInPast'
  BY <1>1, <1>2 DEF IInv, LogInPast, RowsOf
<1>6. CountsMatchHistory'
  BY <1>1, <1>3 DEF IInv, CountsMatchHistory
<1>7. StreakUninterrupted'
  BY <1>1, <1>3 DEF IInv, StreakUninterrupted
<1>8. ResolvedByFirstAbsence'
  BY <1>1, <1>3 DEF IInv, ResolvedByFirstAbsence
<1>9. ClassifiedByLastScan'
  BY <1>1, <1>3 DEF IInv, ClassifiedByLastScan
<1>10. QED
  BY <1>4, <1>5, <1>6, <1>7, <1>8, <1>9 DEF IInv

\* New settings touch no row, log or scan.
LEMMA SettingsKeepIInv ==
  ASSUME IInv, PatchSettings \/ UNCHANGED vars
  PROVE  IInv'
<1>1. /\ findings' = findings /\ observations' = observations
      /\ scans' = scans /\ now' = now
  BY DEF PatchSettings, vars
<1>2. \A i : /\ RowsOf(i)' = RowsOf(i) /\ StreakOf(i)' = StreakOf(i)
            /\ CoveringScans(i)' = CoveringScans(i)
  BY <1>1 DEF RowsOf, StreakOf, CoveringScans
<1>3. TypeOK'
  BY <1>1, FindingsAssumption DEF IInv, TypeOK, PatchSettings, vars
<1>4. LogInPast'
  BY <1>1, <1>2 DEF IInv, LogInPast
<1>5. QED
  BY <1>1, <1>2, <1>3, <1>4 DEF IInv, CountsMatchHistory, StreakUninterrupted,
     ResolvedByFirstAbsence, ClassifiedByLastScan

\* The invariant holds in every reachable state.
THEOREM IInvHolds == Spec => []IInv
<1>1. IInv /\ [Next]_vars => IInv'
  <2> SUFFICES ASSUME IInv, [Next]_vars PROVE IInv'
    OBVIOUS
  <2>1. ASSUME NEW t, NEW complete, NEW report, ScanStep(t, complete, report)
        PROVE  IInv'
    <3>1. TypeOK'
      BY <2>1, ScanKeepsType DEF IInv
    <3>2. QED
      BY <2>1, <3>1, ScanKeepsLog, ScanKeepsCounts, ScanKeepsStreaks,
         ScanKeepsResolutions, ScanKeepsClassification DEF IInv
  <2>2. ASSUME NEW i \in DOMAIN findings, Dismiss(i) \/ Reopen(i)
        PROVE  IInv'
    BY <2>2, PatchKeepsIInv
  <2>3. CASE PatchSettings \/ UNCHANGED vars
    BY <2>3, SettingsKeepIInv
  <2>4. QED
    BY <2>1, <2>2, <2>3, NextIsScanOrPatch
<1>2. QED
  BY <1>1, IInvInit, PTL DEF Spec

-------------------------------------------------------------------------------
\* The counters and dates reconcile maintains by increments and resets are
\* always those of the log.
THEOREM CountsAreHistory == Spec => []CountsMatchHistory
BY IInvHolds, PTL DEF IInv

\* No complete scan of a cell falls silently into a streak: a streak never
\* spans an absence.
THEOREM StreaksAreUninterrupted == Spec => []StreakUninterrupted
BY IInvHolds, PTL DEF IInv

\* Resolution needs a complete scan of the cell, and follows the first one
\* that did not see the finding.
THEOREM ResolutionIsFirstAbsence == Spec => []ResolvedByFirstAbsence
BY IInvHolds, PTL DEF IInv

\* What a guarded script needs of the stored row, and so of its history.
LEMMA GuardedRow ==
  ASSUME NEW f \in Finding, NEW d \in Detectors,
         ScriptKindFor(f, d) = "guarded_remediation",
         f.remediation_risk = ClassifyRisk(d, f.persistence_state, f.ownership, f.blocked)
  PROVE  /\ f.status = "open" /\ d \in DestructiveDetectors
         /\ f.ownership = "UNKNOWN" /\ ~f.blocked
         /\ f.persistence_state = "persistent" /\ f.remediation_risk = "LOW"
<1>1. UnavailableReason(f, d) = "none"
  BY DEF ScriptKindFor
<1>2. /\ f.status = "open" /\ d \in DestructiveDetectors
      /\ f.ownership # "CONFIRMED" /\ ~f.blocked
      /\ f.persistence_state # "newly_observed"
      /\ f.remediation_risk # "HIGH" /\ f.remediation_risk # "REVIEW"
  BY <1>1 DEF UnavailableReason
<1>3. f.persistence_state = "persistent" /\ f.remediation_risk = "LOW"
  BY <1>2 DEF Finding, PersistenceState, RemediationRisk
<1>4. f.ownership # "LIKELY"
  BY <1>2, <1>3 DEF ClassifyRisk, BaseRisk, MaxRisk, RiskOrder
<1>5. QED
  BY <1>2, <1>3, <1>4 DEF Finding, OwnershipStatus

\* An age of n days is n times the ticks of a day at least.
LEMMA WholeDays ==
  ASSUME NEW from \in Int, NEW to \in Int, NEW n \in Nat, AgeDays(from, to) >= n
  PROVE  to - from >= TicksPerDay * n
<1> DEFINE age == AgeDays(from, to)
<1>1. TicksPerDay \in Nat \ {0}
  BY TicksPerDayAssumption
<1>2. age \in Int /\ TicksPerDay * age <= to - from
  BY <1>1 DEF AgeDays
<1> HIDE DEF age
<1>3. age - n \in Nat
  BY <1>2 DEF age
<1>4. TicksPerDay * (age - n) >= 0
  BY <1>1, <1>3
<1>5. TicksPerDay * (age - n) = TicksPerDay * age - TicksPerDay * n
  BY <1>1, <1>2
<1> QED
  BY <1>1, <1>2, <1>4, <1>5

\* A destructive script is never offered without the uninterrupted, long enough
\* history its thresholds ask for, whatever happened in between.
THEOREM GuardedScriptsAreJustified == Spec => []GuardedScriptJustified
<1>1. IInv => GuardedScriptJustified
  <2> SUFFICES ASSUME IInv, NEW i \in DOMAIN findings,
                      ScriptKindFor(findings[i], DetectorOf[i]) = "guarded_remediation"
               PROVE  LET f == findings[i]
                      IN  /\ DetectorOf[i] \in DestructiveDetectors
                          /\ f.ownership = "UNKNOWN" /\ ~f.blocked
                          /\ \E s \in CoveringScans(i) :
                               /\ s.started_at = f.last_observed_at
                               /\ Cardinality(StreakOf(i)) >= s.settings.minimum
                               /\ \E o \in StreakOf(i) :
                                    f.last_observed_at - o.observed_at
                                      >= TicksPerDay * s.settings.threshold[DetectorOf[i]]
                          /\ \E o \in RowsOf(i) : o.observed_at = f.last_observed_at
                                                  /\ o.remediation_risk = "LOW"
    BY DEF GuardedScriptJustified
  <2> DEFINE f == findings[i]
  <2>1. f \in Finding /\ DetectorOf[i] \in Detectors
    BY FindingsAssumption DEF IInv, TypeOK
  <2>2. f.remediation_risk = ClassifyRisk(DetectorOf[i], f.persistence_state,
                                          f.ownership, f.blocked)
    BY DEF IInv, ClassifiedByLastScan
  <2>3. /\ DetectorOf[i] \in DestructiveDetectors
        /\ f.ownership = "UNKNOWN" /\ ~f.blocked
        /\ f.persistence_state = "persistent" /\ f.remediation_risk = "LOW"
    BY <2>1, <2>2, GuardedRow
  <2>4. PICK s \in CoveringScans(i) :
          /\ s.started_at = f.last_observed_at
          /\ f.persistence_state =
               ComputePersistence(DetectorOf[i], f.streak_started_at, f.last_observed_at,
                                  Cardinality(StreakOf(i)), s.settings)
    BY DEF IInv, ClassifiedByLastScan
  <2>5. /\ Cardinality(StreakOf(i)) >= s.settings.minimum
        /\ AgeDays(f.streak_started_at, f.last_observed_at)
             >= s.settings.threshold[DetectorOf[i]]
    BY <2>3, <2>4 DEF ComputePersistence
  <2>6. \E o \in RowsOf(i) : o.observed_at = f.last_observed_at
                             /\ o.remediation_risk = f.remediation_risk
    BY DEF IInv, ClassifiedByLastScan
  <2>7. PICK o \in StreakOf(i) : o.observed_at = f.streak_started_at
    BY DEF IInv, CountsMatchHistory
  <2>8. s.settings.threshold[DetectorOf[i]] \in Nat
    BY <2>1 DEF IInv, TypeOK, CoveringScans, Scan, Settings
  <2>9. f.last_observed_at - o.observed_at >= TicksPerDay * s.settings.threshold[DetectorOf[i]]
    BY <2>1, <2>5, <2>7, <2>8, WholeDays DEF Finding
  <2>10. QED
    BY <2>3, <2>4, <2>5, <2>6, <2>7, <2>9
<1>2. QED
  BY <1>1, IInvHolds, PTL

-------------------------------------------------------------------------------
(***************************************************************************)
(* Findings implements FindingLifecycle: a scan is one abstract scan whose *)
(* verdict on each identity is read off the report and the covered cells.  *)
(***************************************************************************)
VerdictOf(i, complete, report) ==
  IF i \in DOMAIN report THEN (IF report[i].ignored THEN "tagged" ELSE "plain")
  ELSE IF CellOf[i] \in complete THEN "absent" ELSE "unknown"

LifeStatus(i) == IF i \in DOMAIN findings THEN findings[i].status ELSE "unseen"

LifeStreak(i) ==
  IF i \in DOMAIN findings THEN findings[i].consecutive_observations ELSE 0

\* In one identity's life a scan is the step of the verdict it reached.
LEMMA ScanLife ==
  ASSUME IInv, NEW t, NEW complete, NEW report, ScanStep(t, complete, report),
         NEW i \in Identity
  PROVE  LET v == VerdictOf(i, complete, report)
         IN  /\ LifeStatus(i)' = Lifecycle!StatusAfter(LifeStatus(i), v)
             /\ LifeStreak(i)' = Lifecycle!StreakAfter(LifeStreak(i), v)
<1> DEFINE f == findings[i]
           g == findings'[i]
           c == report[i]
           d == DetectorOf[i]
<1>1. /\ DOMAIN findings' = DOMAIN findings \cup DOMAIN report
      /\ t \in Nat
      /\ i \in DOMAIN findings \cup DOMAIN report => g = Reconciled(i, t, complete, report)
      /\ i \in DOMAIN findings => f \in Finding
      /\ i \in DOMAIN report => c \in Candidate
  BY FindingsAssumption DEF ScanStep, RunScan, IInv, TypeOK
<1>2. StatusFor(c) = IF c.ignored THEN "ignored" ELSE "open"
  BY DEF StatusFor
<1>3. CASE i \in DOMAIN report /\ i \notin DOMAIN findings
  <2>1. g = Refreshed(Inserted(c, t), c, d)
    BY <1>1, <1>3 DEF Reconciled
  <2>2. g.status = StatusFor(c) /\ g.consecutive_observations = 1
    BY <1>1, <1>3, <2>1, InsertedFields
  <2>3. QED
    BY <1>1, <1>2, <1>3, <2>2 DEF LifeStatus, LifeStreak, VerdictOf,
       Lifecycle!StatusAfter, Lifecycle!StreakAfter, Lifecycle!Seen
<1>4. CASE i \in DOMAIN report /\ i \in DOMAIN findings
  <2>1. g = Refreshed(Reobserved(f, c, t), c, d)
    BY <1>1, <1>4 DEF Reconciled
  <2>2. f.status = "resolved" => f.consecutive_observations = 0
    BY <1>4 DEF IInv, CountsMatchHistory
  <2>3. /\ g.status = (IF f.status = "dismissed" THEN "dismissed" ELSE StatusFor(c))
        /\ g.consecutive_observations = f.consecutive_observations + 1
    <3>1. CASE f.status = "resolved"
      BY <1>1, <1>4, <2>1, <2>2, <3>1, ReappearedFields
    <3>2. CASE f.status # "resolved"
      BY <1>1, <1>4, <2>1, <3>2, ContinuedFields
    <3>3. QED
      BY <3>1, <3>2
  <2>4. QED
    BY <1>1, <1>2, <1>4, <2>3 DEF LifeStatus, LifeStreak, VerdictOf,
       Lifecycle!StatusAfter, Lifecycle!StreakAfter, Lifecycle!Seen
<1>5. CASE i \notin DOMAIN report /\ i \in DOMAIN findings
  <2>1. i \in DOMAIN findings'
    BY <1>1, <1>5
  <2>2. f.status = "resolved" => f.consecutive_observations = 0
    BY <1>5 DEF IInv, CountsMatchHistory
  <2>3. /\ CellOf[i] \notin complete => g = f
        /\ CellOf[i] \in complete =>
             g.status = "resolved" /\ g.consecutive_observations = 0
    BY <1>5, <2>1, <2>2, ScanUnseen
  <2>4. QED
    BY <1>5, <2>1, <2>3 DEF LifeStatus, LifeStreak, VerdictOf,
       Lifecycle!StatusAfter, Lifecycle!StreakAfter, Lifecycle!Seen,
       IInv, TypeOK, Finding, FindingStatus
<1>6. CASE i \notin DOMAIN report /\ i \notin DOMAIN findings
  BY <1>1, <1>6 DEF LifeStatus, LifeStreak, VerdictOf,
     Lifecycle!StatusAfter, Lifecycle!StreakAfter, Lifecycle!Seen
<1>7. QED
  BY <1>3, <1>4, <1>5, <1>6

\* Every behaviour of the tables is a behaviour of the promised lifecycle.
THEOREM LifecycleImplemented == Spec => ImplementsLifecycle
<1>1. Init => Lifecycle!Init
  BY DEF Init, Lifecycle!Init
<1>2. IInv /\ [Next]_vars => [Lifecycle!Next]_Lifecycle!vars
  <2> SUFFICES ASSUME IInv, [Next]_vars PROVE [Lifecycle!Next]_Lifecycle!vars
    OBVIOUS
  <2>1. ASSUME NEW t, NEW complete, NEW report, ScanStep(t, complete, report)
        PROVE  Lifecycle!Next
    <3> DEFINE verdict == [i \in Identity |-> VerdictOf(i, complete, report)]
    <3>1. verdict \in [Identity -> Lifecycle!Verdict]
      BY DEF VerdictOf, Lifecycle!Verdict
    <3>2. ASSUME NEW i \in Identity
          PROVE  /\ LifeStatus(i)' = Lifecycle!StatusAfter(LifeStatus(i), verdict[i])
                 /\ LifeStreak(i)' = Lifecycle!StreakAfter(LifeStreak(i), verdict[i])
      BY <2>1, ScanLife
    <3>3. Lifecycle!Scan(verdict)
      BY <3>2 DEF Lifecycle!Scan, LifeStatus, LifeStreak
    <3>4. QED
      BY <3>1, <3>3 DEF Lifecycle!Next
  <2>2. ASSUME NEW j \in DOMAIN findings, Dismiss(j) \/ Reopen(j)
        PROVE  Lifecycle!Next
    <3>1. j \in Identity /\ findings[j] \in Finding
      BY DEF IInv, TypeOK
    <3>2. /\ DOMAIN findings' = DOMAIN findings
          /\ \A i \in DOMAIN findings :
               /\ findings'[i].consecutive_observations = findings[i].consecutive_observations
               /\ i # j => findings'[i].status = findings[i].status
      BY <2>2, <3>1 DEF Dismiss, Reopen, IInv, TypeOK, Finding
    <3>3. CASE Dismiss(j)
      <4>1. findings[j].status = "open" /\ findings'[j].status = "dismissed"
        BY <3>1, <3>3 DEF Dismiss, Finding
      <4>2. Lifecycle!Dismiss(j)
        BY <3>1, <3>2, <4>1 DEF Lifecycle!Dismiss
      <4>3. QED
        BY <3>1, <4>2 DEF Lifecycle!Next
    <3>4. CASE Reopen(j)
      <4>1. findings[j].status = "dismissed" /\ findings'[j].status = "open"
        BY <3>1, <3>4 DEF Reopen, Finding
      <4>2. Lifecycle!Reopen(j)
        BY <3>1, <3>2, <4>1 DEF Lifecycle!Reopen
      <4>3. QED
        BY <3>1, <4>2 DEF Lifecycle!Next
    <3>5. QED
      BY <2>2, <3>3, <3>4
  <2>3. CASE PatchSettings \/ UNCHANGED vars
    BY <2>3 DEF PatchSettings, vars, Lifecycle!vars
  <2>4. QED
    BY <2>1, <2>2, <2>3, NextIsScanOrPatch
<1>3. QED
  BY <1>1, <1>2, IInvHolds, PTL DEF Spec, ImplementsLifecycle, Lifecycle!Spec

===============================================================================
