------------------------------- MODULE Findings -------------------------------
(***************************************************************************)
(* The observation history: the findings table, the finding_observations   *)
(* log and the scans that wrote them.  A scan is one database transaction, *)
(* so RunScan reconciles every detector cell it covered in one step        *)
(* (app/scanner/history.py, called from app/scanner/engine.py); between    *)
(* scans the user dismisses and reopens findings                           *)
(* (app/services/finding_service.py) and patches the settings.             *)
(*                                                                         *)
(* A cell is one (account, region, detector).  A scan is identified by its *)
(* started_at, which is the observed_at of everything it records.  A row   *)
(* exists exactly for the identities in DOMAIN findings.                   *)
(***************************************************************************)
EXTENDS FindingRules, FiniteSets

CONSTANTS
  Identity,         \* finding identities
  Cell,             \* (account, region, detector) cells
  CellOf,           \* the cell of an identity
  DetectorOf,       \* the detector of an identity
  Time,             \* instants at which a scan can start (bounded for TLC)
  Candidates,       \* what a detector may report of a resource
  SettingsChoices   \* the settings a user may choose

ASSUME FindingsAssumption ==
  /\ CellOf \in [Identity -> Cell]
  /\ DetectorOf \in [Identity -> Detectors]
  /\ Time \subseteq Nat
  /\ Candidates \subseteq Candidate
  /\ SettingsChoices \subseteq Settings

VARIABLES
  findings,      \* the rows of the findings table, by identity
  observations,  \* the rows of finding_observations
  scans,         \* started_at, completely covered cells and settings of each scan
  settings,      \* the settings row
  now            \* when the latest scan started

vars == <<findings, observations, scans, settings, now>>

Finding ==
  [status                   : FindingStatus,
   first_observed_at        : Nat,
   last_observed_at         : Nat,
   streak_started_at        : Nat,
   observation_count        : Nat,
   consecutive_observations : Nat,
   persistence_state        : PersistenceState,
   remediation_risk         : RemediationRisk,
   ownership                : OwnershipStatus,
   blocked                  : BOOLEAN,
   ignored                  : BOOLEAN,      \* ignore_reason is set
   resolved_at              : Nat \cup {Never},
   dismissed_at             : Nat \cup {Never}]

Observation ==
  [finding           : Identity,
   observed_at       : Nat,
   status            : FindingStatus,
   persistence_state : PersistenceState,
   remediation_risk  : RemediationRisk]

Scan == [started_at : Nat, complete : SUBSET Cell, settings : Settings]

-------------------------------------------------------------------------------
(***************************************************************************)
(* What a scan that observed everything at instant t makes of one row.     *)
(***************************************************************************)

Inserted(c, t) ==
  [status                   |-> StatusFor(c),
   first_observed_at        |-> t,
   last_observed_at         |-> t,
   streak_started_at        |-> t,
   observation_count        |-> 1,
   consecutive_observations |-> 1,
   persistence_state        |-> "newly_observed",
   remediation_risk         |-> "REVIEW",
   ownership                |-> "UNKNOWN",
   blocked                  |-> FALSE,
   ignored                  |-> c.ignored,
   resolved_at              |-> Never,
   dismissed_at             |-> Never]

Refreshed(f, c, detector) ==
  LET persistence == ComputePersistence(detector, f.streak_started_at,
                                        f.last_observed_at,
                                        f.consecutive_observations, settings)
  IN  [f EXCEPT
         !.ownership         = c.ownership,
         !.blocked           = c.blocked,
         !.ignored           = c.ignored,
         !.persistence_state = persistence,
         !.remediation_risk  = ClassifyRisk(detector, persistence,
                                            c.ownership, c.blocked)]

\* The row of i after a scan that covered the cells `complete` and whose
\* detectors reported `report` (a function on the identities they found).
Reconciled(i, t, complete, report) ==
  IF i \in DOMAIN report
  THEN Refreshed(IF i \in DOMAIN findings
                 THEN Reobserved(findings[i], report[i], t)
                 ELSE Inserted(report[i], t),
                 report[i], DetectorOf[i])
  ELSE IF CellOf[i] \in complete THEN Resolved(findings[i], t)
  ELSE findings[i]

ObservationOf(i, t, f) ==
  [finding           |-> i,
   observed_at       |-> t,
   status            |-> f.status,
   persistence_state |-> f.persistence_state,
   remediation_risk  |-> f.remediation_risk]

-------------------------------------------------------------------------------
TypeOK ==
  /\ DOMAIN findings \subseteq Identity
  /\ findings \in [DOMAIN findings -> Finding]
  /\ observations \subseteq Observation
  /\ scans \subseteq Scan
  /\ settings \in Settings
  /\ now \in Nat

Init ==
  /\ findings = [i \in {} |-> i]
  /\ observations = {}
  /\ scans = {}
  /\ settings \in SettingsChoices
  /\ now = 0

\* One scan: the cells in `complete` were covered by their detector without
\* an error, every other cell leaves its findings alone.
RunScan(t, complete, report) ==
  /\ t > now
  /\ findings' = [i \in DOMAIN findings \cup DOMAIN report |->
                    Reconciled(i, t, complete, report)]
  /\ observations' = observations \cup
       {ObservationOf(i, t, Reconciled(i, t, complete, report)) : i \in DOMAIN report}
  /\ scans' = scans \cup
       {[started_at |-> t, complete |-> complete, settings |-> settings]}
  /\ now' = t
  /\ UNCHANGED settings

\* PATCH /findings/{id} with status "dismissed".
Dismiss(i) ==
  /\ findings[i].status = "open"
  /\ findings' = [findings EXCEPT ![i].status = "dismissed", ![i].dismissed_at = now]
  /\ UNCHANGED <<observations, scans, settings, now>>

\* PATCH /findings/{id} with status "open".
Reopen(i) ==
  /\ findings[i].status = "dismissed"
  /\ findings' = [findings EXCEPT ![i].status = "open", ![i].dismissed_at = Never]
  /\ UNCHANGED <<observations, scans, settings, now>>

\* PATCH /settings: stored findings are not reclassified.
PatchSettings ==
  /\ settings' \in SettingsChoices
  /\ UNCHANGED <<findings, observations, scans, now>>

IdentitiesIn(complete) == {i \in Identity : CellOf[i] \in complete}

Next ==
  \/ \E t \in Time, complete \in SUBSET Cell :
       \E found \in SUBSET IdentitiesIn(complete) :
         \E report \in [found -> Candidates] : RunScan(t, complete, report)
  \/ \E i \in DOMAIN findings : Dismiss(i) \/ Reopen(i)
  \/ PatchSettings

Spec == Init /\ [][Next]_vars

-------------------------------------------------------------------------------
RowsOf(i) == {o \in observations : o.finding = i}

StreakOf(i) == {o \in RowsOf(i) : o.observed_at >= findings[i].streak_started_at}

\* The scans that covered the cell of i completely.
CoveringScans(i) == {s \in scans : CellOf[i] \in s.complete}

\* The counters and dates of a finding are those of its log: the lifetime
\* count, the length of the current streak (zero once resolved), the first and
\* the latest observation (reconcile keeps them by increments and resets).
CountsMatchHistory ==
  \A i \in DOMAIN findings :
    LET f == findings[i]
    IN  /\ f.observation_count = Cardinality(RowsOf(i))
        /\ f.consecutive_observations =
             (IF f.status = "resolved" THEN 0 ELSE Cardinality(StreakOf(i)))
        /\ \E o \in RowsOf(i) : o.observed_at = f.first_observed_at
        /\ \E o \in StreakOf(i) : o.observed_at = f.streak_started_at
        /\ \E o \in RowsOf(i) : o.observed_at = f.last_observed_at
        /\ \A o \in RowsOf(i) : o.observed_at \in f.first_observed_at .. f.last_observed_at

\* A streak is uninterrupted: every scan that covered the cell since
\* streak_started_at observed the finding, however many incomplete scans,
\* dismissals and reopenings came between (reconcile, _detect_region).
StreakUninterrupted ==
  \A i \in DOMAIN findings : findings[i].status # "resolved" =>
    \A s \in CoveringScans(i) : s.started_at >= findings[i].streak_started_at =>
      \E o \in RowsOf(i) : o.observed_at = s.started_at

\* A finding is resolved only by proof of absence: resolved_at is the first
\* scan after the last observation that covered its cell completely, and a
\* finding that is not resolved has been seen by every such scan.
ResolvedByFirstAbsence ==
  \A i \in DOMAIN findings :
    LET f == findings[i]
        absences == {s \in CoveringScans(i) : s.started_at > f.last_observed_at}
    IN  IF f.status = "resolved"
        THEN /\ \E s \in absences : s.started_at = f.resolved_at
             /\ \A s \in absences : s.started_at >= f.resolved_at
        ELSE absences = {} /\ f.resolved_at = Never

\* A script that deletes something is offered only for an unowned, unblocked
\* volume or address whose last covering scan observed it, at the end of a
\* streak that met the thresholds in force at that scan, and the log says so: as
\* many observations, the first of them as many days of TicksPerDay before.
GuardedScriptJustified ==
  \A i \in DOMAIN findings :
    LET f == findings[i]
    IN  ScriptKindFor(f, DetectorOf[i]) = "guarded_remediation" =>
          /\ DetectorOf[i] \in DestructiveDetectors
          /\ f.ownership = "UNKNOWN" /\ ~f.blocked
          /\ \E s \in CoveringScans(i) :
               /\ s.started_at = f.last_observed_at
               /\ Cardinality(StreakOf(i)) >= s.settings.minimum
               /\ \E o \in StreakOf(i) :
                    f.last_observed_at - o.observed_at
                      >= TicksPerDay * s.settings.threshold[DetectorOf[i]]
          /\ \E o \in RowsOf(i) : o.observed_at = f.last_observed_at
                                  /\ o.remediation_risk = "LOW"

\* The rows tell each finding's life as FindingLifecycle promises it.
Lifecycle == INSTANCE FindingLifecycle WITH
  status <- [i \in Identity |->
               IF i \in DOMAIN findings THEN findings[i].status ELSE "unseen"],
  streak <- [i \in Identity |->
               IF i \in DOMAIN findings THEN findings[i].consecutive_observations ELSE 0]

\* Statuses and streaks change only as FindingLifecycle lets them: a scan that
\* did not look changes nothing, a dismissal survives every scan that sees the
\* resource, only the user dismisses (reconcile and FindingService.patch).
ImplementsLifecycle == Lifecycle!Spec
===============================================================================
