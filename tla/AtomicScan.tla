------------------------------ MODULE AtomicScan ------------------------------
(***************************************************************************)
(* What a scan promises whoever started it: it is over in one step, which  *)
(* records one status per requested region and reconciles the findings of  *)
(* a set of cells, or which leaves the findings alone.                     *)
(***************************************************************************)
CONSTANTS Region, Detector

RegionStatus == {"complete", "partial", "failed", "skipped"}

VARIABLES status, outcome, applied

vars == <<status, outcome, applied>>

Outcomes == UNION {[requested -> RegionStatus] : requested \in SUBSET Region}

NoOutcome == [r \in {} |-> "skipped"]

Init == status = "running" /\ outcome = NoOutcome /\ applied = {}

\* The scan cannot start its work, or raises: no coverage and no effect.
GiveUp ==
  /\ status = "running"
  /\ status' \in {"failed", "raised"}
  /\ UNCHANGED <<outcome, applied>>

\* A region is complete when every cell of it is applied, failed only when none
\* is; nothing is applied outside the requested regions; the status of the scan
\* is the worst its regions allow.
Finish ==
  /\ status = "running"
  /\ outcome' \in Outcomes
  /\ applied' \subseteq (DOMAIN outcome') \X Detector
  /\ \A r \in DOMAIN outcome' :
       /\ outcome'[r] = "complete" <=> {r} \X Detector \subseteq applied'
       /\ outcome'[r] = "failed" => applied' \cap ({r} \X Detector) = {}
  /\ \/ /\ status' = "partial"
        /\ \E r \in DOMAIN outcome' : outcome'[r] \in {"partial", "failed"}
     \/ /\ status' = "completed"
        /\ \A r \in DOMAIN outcome' : outcome'[r] \in {"complete", "skipped"}
        /\ DOMAIN outcome' # {}
     \/ /\ status' = "failed"
        /\ \A r \in DOMAIN outcome' : outcome'[r] = "skipped"
        /\ applied' = {}

Next == GiveUp \/ Finish

Spec == Init /\ [][Next]_vars
===============================================================================
