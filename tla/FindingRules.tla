----------------------------- MODULE FindingRules -----------------------------
(***************************************************************************)
(* The decisions CloudZombie takes about one finding, as pure operators:   *)
(* when a condition counts as persistent (app/scanner/history.py), how     *)
(* risky its remediation is (app/scanner/classification.py) and which      *)
(* kind of script is offered (app/remediation/eligibility.py).             *)
(***************************************************************************)
EXTENDS Integers

CONSTANT TicksPerDay    \* a timestamp counts ticks; ages are in whole days

ASSUME TicksPerDayAssumption == TicksPerDay \in Nat \ {0}

Detectors == {"unattached_ebs_volume", "unassociated_elastic_ip",
              "stopped_ec2_instance", "snapshot_missing_source_volume"}

\* The detectors whose finding can ever be deleted by a generated script.
DestructiveDetectors == {"unattached_ebs_volume", "unassociated_elastic_ip"}

FindingStatus    == {"open", "dismissed", "resolved", "ignored"}
PersistenceState == {"newly_observed", "persistent"}
RemediationRisk  == {"LOW", "REVIEW", "HIGH"}
OwnershipStatus  == {"CONFIRMED", "LIKELY", "UNKNOWN"}
ScriptKind       == {"guarded_remediation", "investigation"}

\* The patchable settings that decide persistence: thresholds_days and
\* min_consecutive_observations.
Settings == [threshold : [Detectors -> Nat], minimum : Nat \ {0}]

\* What a detector and the ownership resolver report of a matching resource.
Candidate == [ignored   : BOOLEAN,         \* the ignore tag matched
              ownership : OwnershipStatus,
              blocked   : BOOLEAN]         \* a dependency blocks remediation

\* Mutant: a part of a day counts as a day.
AgeDaysBegun(from, to) == (to - from + TicksPerDay - 1) \div TicksPerDay

\* timedelta.days: the whole days between two instants.
AgeDays(from, to) == (to - from) \div TicksPerDay

ComputePersistence(detector, streak, last, consecutive, settings) ==
  IF /\ AgeDays(streak, last) >= settings.threshold[detector]
     /\ consecutive >= settings.minimum
  THEN "persistent" ELSE "newly_observed"

RiskOrder == [LOW |-> 0, REVIEW |-> 1, HIGH |-> 2]

MaxRisk(first, second) ==
  IF RiskOrder[first] >= RiskOrder[second] THEN first ELSE second

BaseRisk(detector, persistence) ==
  IF detector \in DestructiveDetectors /\ persistence = "persistent"
  THEN "LOW" ELSE "REVIEW"

ClassifyRisk(detector, persistence, ownership, blocked) ==
  IF blocked \/ ownership = "CONFIRMED" THEN "HIGH"
  ELSE IF ownership = "LIKELY" THEN MaxRisk(BaseRisk(detector, persistence), "REVIEW")
  ELSE BaseRisk(detector, persistence)

\* Why no destructive script is offered, in the order the code asks; "none"
\* when one is.
UnavailableReason(f, detector) ==
  IF      f.status # "open"                       THEN "finding_not_open"
  ELSE IF detector \notin DestructiveDetectors    THEN "detector_has_no_destructive_script"
  ELSE IF f.ownership = "CONFIRMED"               THEN "cloudformation_owned"
  ELSE IF f.blocked                               THEN "blocking_dependency"
  ELSE IF f.persistence_state = "newly_observed"  THEN "newly_observed"
  ELSE IF f.remediation_risk = "HIGH"             THEN "remediation_risk_high"
  ELSE IF f.remediation_risk = "REVIEW"           THEN "remediation_risk_review"
  ELSE "none"

ScriptKindFor(f, detector) ==
  IF UnavailableReason(f, detector) = "none"
  THEN "guarded_remediation" ELSE "investigation"

-------------------------------------------------------------------------------
(***************************************************************************)
(* What a scan makes of a stored row: reobserved with candidate c at       *)
(* instant t, or absent from a cell it covered completely.                 *)
(***************************************************************************)
Never == -1      \* a null timestamp

\* Mutant: a status that is not one.
StatusUnknown(c) == IF c.ignored THEN "ignored" ELSE "newly_observed"

StatusFor(c) == IF c.ignored THEN "ignored" ELSE "open"

\* Mutant: the old streak goes on.
ReappearedSameStreak(f, c, t) ==
  [f EXCEPT !.status                   = StatusFor(c),
            !.consecutive_observations = 1,
            !.resolved_at              = Never]

\* A resolved finding starts a new streak.
Reappeared(f, c, t) ==
  [f EXCEPT !.status                   = StatusFor(c),
            !.consecutive_observations = 1,
            !.streak_started_at        = t,
            !.resolved_at              = Never]

\* Mutant: a dismissal ends with the next observation.
ContinuedUndismissed(f, c) ==
  [f EXCEPT !.status                   = StatusFor(c),
            !.consecutive_observations = @ + 1]

\* A dismissed finding stays dismissed.
Continued(f, c) ==
  [f EXCEPT !.status                   = IF @ = "dismissed" THEN @ ELSE StatusFor(c),
            !.consecutive_observations = @ + 1]

Reobserved(f, c, t) ==
  [IF f.status = "resolved" THEN Reappeared(f, c, t) ELSE Continued(f, c)
     EXCEPT !.last_observed_at  = t,
            !.observation_count = @ + 1]

\* Mutant: dismissed findings are not resolved.
ResolvedUnlessDismissed(f, t) ==
  IF f.status \in {"open", "ignored"}
  THEN [f EXCEPT !.status                   = "resolved",
                 !.resolved_at              = t,
                 !.consecutive_observations = 0]
  ELSE f

\* Mutant: every absence resolves again.
ResolvedAgain(f, t) ==
  [f EXCEPT !.status                   = "resolved",
            !.resolved_at              = t,
            !.consecutive_observations = 0]

\* Mutant: the streak is not reset.
ResolvedKeepsStreak(f, t) ==
  IF f.status \in {"open", "ignored", "dismissed"}
  THEN [f EXCEPT !.status = "resolved", !.resolved_at = t]
  ELSE f

Resolved(f, t) ==
  IF f.status \in {"open", "ignored", "dismissed"}
  THEN [f EXCEPT !.status                   = "resolved",
                 !.resolved_at              = t,
                 !.consecutive_observations = 0]
  ELSE f
===============================================================================
