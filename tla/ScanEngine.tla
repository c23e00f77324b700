------------------------------ MODULE ScanEngine ------------------------------
(***************************************************************************)
(* One scan (app/scanner/engine.py): the regions it selects, the pool of   *)
(* threads that runs the detectors of each region in order, the coverage it *)
(* derives, and the one transaction that reconciles every complete cell and *)
(* commits the scan's row.                                                 *)
(*                                                                         *)
(* A cell is what one detector reports of one region: a status and, when   *)
(* it is complete, whether the detector found anything.  The rules that    *)
(* turn a complete cell into findings are those of Findings.               *)
(***************************************************************************)
EXTENDS Naturals, FiniteSets, SequencesExt

CONSTANTS
  Region,
  Detectors,      \* the registry, in order
  Discovered,     \* list_regions(), in order
  NotOptedIn,     \* the discovered regions the account has not enabled
  Requests,       \* what the caller may pass: NoRegions or a list of regions
  Configured,     \* what the settings may hold: NoRegions or a list of regions
  NoRegions,      \* None
  MaxConcurrency, \* settings.max_region_concurrency
  Faults          \* which of "identity", "discovery", "raise" may happen

ASSUME ScanEngineAssumption ==
  /\ Detectors \in Seq(STRING) /\ Detectors # <<>>
  /\ \A i, j \in DOMAIN Detectors : Detectors[i] = Detectors[j] => i = j
  /\ Discovered \in Seq(Region) /\ NotOptedIn \subseteq ToSet(Discovered)
  /\ Requests \cup Configured \subseteq Seq(Region) \cup {NoRegions}
  /\ MaxConcurrency \in Nat \ {0}
  /\ Faults \subseteq {"identity", "discovery", "raise"}

VARIABLES
  request,     \* requested_regions
  configured,  \* settings.regions
  phase,       \* where run_scan is
  regions,     \* the selected regions
  task,        \* the work items of the pool, one per runnable region
  row,         \* the scan's row, as committed
  applied      \* the cells whose findings the committed transaction reconciled

vars == <<request, configured, phase, regions, task, row, applied>>

Detector == ToSet(Detectors)
CellStatus == {"complete", "missing_permission", "failed", "skipped"}
RegionStatus == {"complete", "partial", "failed", "skipped"}
Cell == {c \in [status : CellStatus, found : BOOLEAN] : c.found => c.status = "complete"}
Phase == {"identity", "discovery", "selection", "detection", "committed", "raised"}
NoOutcome == [r \in {} |-> "skipped"]

TypeOK ==
  /\ request \in Requests /\ configured \in Configured
  /\ phase \in Phase
  /\ DOMAIN regions \subseteq Nat /\ ToSet(regions) \subseteq Region
  /\ \A i \in DOMAIN task :
       /\ task[i].region \in ToSet(regions)
       /\ task[i].state \in {"queued", "running", "done"}
       /\ task[i].cells \in Seq(Cell) /\ Len(task[i].cells) <= Len(Detectors)
  /\ row.status \in {"running", "completed", "partial", "failed"}
  /\ row.outcome \in UNION {[R -> RegionStatus] : R \in SUBSET Region}
  /\ applied \subseteq Region \X Detector

Init ==
  /\ request \in Requests /\ configured \in Configured
  /\ phase = "identity"
  /\ regions = <<>> /\ task = <<>>
  /\ row = [status |-> "running", outcome |-> NoOutcome]
  /\ applied = {}

-------------------------------------------------------------------------------
(***************************************************************************)
(* Before detection.                                                       *)
(***************************************************************************)
Identify ==
  /\ phase = "identity"
  /\ phase' = "discovery"
  /\ UNCHANGED <<request, configured, regions, task, row, applied>>

\* Credentials fail: the scan is committed as failed.
IdentifyFails ==
  /\ "identity" \in Faults /\ phase = "identity"
  /\ phase' = "committed"
  /\ row' = [row EXCEPT !.status = "failed"]
  /\ UNCHANGED <<request, configured, regions, task, applied>>

Discover ==
  /\ phase = "discovery"
  /\ phase' = "selection"
  /\ UNCHANGED <<request, configured, regions, task, row, applied>>

DiscoverFails ==
  /\ "discovery" \in Faults /\ phase = "discovery"
  /\ phase' = "committed"
  /\ row' = [row EXCEPT !.status = "failed"]
  /\ UNCHANGED <<request, configured, regions, task, applied>>

\* list(dict.fromkeys(s)): the first occurrence of each region.  A list of
\* regions is a function of their places, and keeps them when places go.
Deduplicated(s) ==
  [i \in {i \in DOMAIN s : \A j \in DOMAIN s : s[j] = s[i] => i <= j} |-> s[i]]

\* The argument, else the settings, else what was discovered; only the argument
\* is deduplicated.  (start() never stores regions it does not also pass.)
SelectedRegions ==
  CASE request # NoRegions    -> Deduplicated(request)
    [] request = NoRegions /\ configured # NoRegions -> configured
    [] OTHER                  -> Discovered

Runnable(selected) == {i \in DOMAIN selected : selected[i] \notin NotOptedIn}

Queued(selected) ==
  [i \in Runnable(selected) |-> [region |-> selected[i], state |-> "queued", cells |-> <<>>]]

Select ==
  /\ phase = "selection"
  /\ regions' = SelectedRegions
  /\ task' = Queued(SelectedRegions)
  /\ phase' = "detection"
  /\ UNCHANGED <<request, configured, row, applied>>

-------------------------------------------------------------------------------
(***************************************************************************)
(* Detection, one thread per running task.                                 *)
(***************************************************************************)
InState(state) == {i \in DOMAIN task : task[i].state = state}

\* A free thread of the pool takes the oldest item.
StartRegion(i) ==
  /\ phase = "detection"
  /\ i \in InState("queued") /\ \A j \in InState("queued") : i <= j
  /\ Cardinality(InState("running")) < MaxConcurrency
  /\ task' = [task EXCEPT ![i].state = "running"]
  /\ UNCHANGED <<request, configured, phase, regions, row, applied>>

\* Mutant: one detector too many.
DetectPastEnd(i, cell) ==
  /\ phase = "detection" /\ i \in InState("running")
  /\ LET cells == Append(task[i].cells, cell)
         over  == cell.status = "skipped" \/ Len(cells) > Len(Detectors)
     IN  task' = [task EXCEPT ![i].cells = cells,
                              ![i].state = IF over THEN "done" ELSE "running"]
  /\ UNCHANGED <<request, configured, phase, regions, row, applied>>

\* The next detector of the region reports; an unavailable region ends it.
Detect(i, cell) ==
  /\ phase = "detection" /\ i \in InState("running")
  /\ LET cells == Append(task[i].cells, cell)
         over  == cell.status = "skipped" \/ Len(cells) = Len(Detectors)
     IN  task' = [task EXCEPT ![i].cells = cells,
                              ![i].state = IF over THEN "done" ELSE "running"]
  /\ UNCHANGED <<request, configured, phase, regions, row, applied>>

-------------------------------------------------------------------------------
(***************************************************************************)
(* Coverage and the commit.                                                *)
(***************************************************************************)
Statuses(cells) == {c.status : c \in ToSet(cells)}

RegionStatusOf(cells) ==
  CASE "skipped" \in Statuses(cells) -> "skipped"
    [] Statuses(cells) = {"complete"} -> "complete"
    [] "skipped" \notin Statuses(cells) /\ Statuses(cells) # {"complete"}
         /\ Statuses(cells) \cap {"complete", "missing_permission"} # {} -> "partial"
    [] OTHER -> "failed"

\* detection_by_region: the last result of a region is kept.
Latest(r) == CHOOSE i \in DOMAIN task :
  task[i].region = r /\ \A j \in DOMAIN task : task[j].region = r => j <= i

Results(r) == IF r \in NotOptedIn THEN <<>> ELSE task[Latest(r)].cells

Outcome ==
  [r \in ToSet(regions) |-> IF r \in NotOptedIn THEN "skipped" ELSE RegionStatusOf(Results(r))]

\* Mutant: failed regions do not make a scan partial.
StatusIgnoringFailed(outcome, runnable) ==
  CASE runnable = {} -> "failed"
    [] runnable # {} /\ \E r \in DOMAIN outcome : outcome[r] = "partial" -> "partial"
    [] OTHER -> "completed"

ScanStatusOf(outcome, runnable) ==
  CASE runnable = {} -> "failed"
    [] runnable # {} /\ \E r \in DOMAIN outcome : outcome[r] \in {"partial", "failed"} -> "partial"
    [] OTHER -> "completed"

\* Mutant: an incomplete cell counts as one that saw nothing.
EveryCell(r) == DOMAIN Results(r)

\* reconcile() leaves an incomplete cell alone.
Reconcilable(r) == {k \in DOMAIN Results(r) : Results(r)[k].status = "complete"}

Reconciled == UNION {{<<r, Detectors[k]>> : k \in Reconcilable(r)} : r \in ToSet(regions)}

\* A region selected twice is reconciled twice, and the second observation of a
\* finding in one scan violates uq_finding_observation_scan.
ObservedTwice ==
  \E i, j \in DOMAIN regions :
    /\ i # j /\ regions[i] = regions[j]
    /\ \E c \in ToSet(Results(regions[i])) : c.found

\* Mutant: the coverage of a disabled region is awaited from the pool.
FinishAwaitingAll ==
  /\ phase = "detection" /\ DOMAIN task = InState("done")
  /\ \A r \in ToSet(regions) : \E i \in DOMAIN task : task[i].region = r
  /\ ~ObservedTwice
  /\ row' = [status |-> ScanStatusOf(Outcome, DOMAIN task), outcome |-> Outcome]
  /\ applied' = Reconciled
  /\ phase' = "committed"
  /\ UNCHANGED <<request, configured, regions, task>>

Finish ==
  /\ phase = "detection" /\ DOMAIN task = InState("done")
  /\ ~ObservedTwice
  /\ row' = [status |-> ScanStatusOf(Outcome, DOMAIN task), outcome |-> Outcome]
  /\ applied' = Reconciled
  /\ phase' = "committed"
  /\ UNCHANGED <<request, configured, regions, task>>

\* Mutant: the cells reconciled before the exception are committed.
RaiseAfterCommit ==
  /\ \/ /\ phase = "detection" /\ DOMAIN task = InState("done")
        /\ ObservedTwice \/ "raise" \in Faults
     \/ phase \in {"identity", "discovery"} /\ "raise" \in Faults
  /\ phase' = "raised"
  /\ applied' = Reconciled
  /\ UNCHANGED <<request, configured, regions, task, row>>

\* The transaction is rolled back and the caller sees an exception.
Raise ==
  /\ \/ /\ phase = "detection" /\ DOMAIN task = InState("done")
        /\ ObservedTwice \/ "raise" \in Faults
     \/ phase \in {"identity", "discovery"} /\ "raise" \in Faults
  /\ phase' = "raised"
  /\ UNCHANGED <<request, configured, regions, task, row, applied>>

RunScan ==
  Identify \/ IdentifyFails \/ Discover \/ DiscoverFails \/ Select \/ Finish \/ Raise

Pool == \E i \in DOMAIN task : StartRegion(i) \/ \E cell \in Cell : Detect(i, cell)

Next == RunScan \/ Pool

Spec == Init /\ [][Next]_vars

\* What run_scan does unless something fails.
Proceed == Identify \/ Discover \/ Select \/ Finish \/ (ObservedTwice /\ Raise)

\* The main thread and the threads of the pool run; a call to the provider
\* returns or times out.
FairSpec == Spec /\ WF_vars(Proceed) /\ WF_vars(Pool)

-------------------------------------------------------------------------------
Ended == phase \in {"committed", "raised"}

\* A scan reconciles only cells whose detector ran to the end: not those an
\* unavailable region never reached, nor a failed one, so no finding is resolved
\* on account of what was not looked at; and it does so only when it commits.
OnlySeenIsReconciled ==
  \A r \in Region, k \in DOMAIN Detectors :
    <<r, Detectors[k]>> \in applied =>
      /\ phase = "committed"
      /\ \E i \in DOMAIN task :
           /\ task[i].region = r
           /\ k <= Len(task[i].cells) /\ task[i].cells[k].status = "complete"

\* The committed status tells what was looked at (docs/architecture.md, scan
\* orchestration): a completed scan reconciled every cell of every region it does
\* not report as skipped, and a failed one ran no region and reconciled nothing.
StatusTellsCoverage ==
  phase = "committed" =>
    /\ row.status = "completed" =>
         \A r \in DOMAIN row.outcome :
           row.outcome[r] # "skipped" => {r} \X Detector \subseteq applied
    /\ row.status = "failed" => InState("done") = {} /\ applied = {}

\* Every scan ends.
ScanEnds == <>Ended

\* The scan keeps the promise of an atomic one.
Promise == INSTANCE AtomicScan WITH
  status  <- IF phase = "raised" THEN "raised" ELSE row.status,
  outcome <- row.outcome

ImplementsAtomicScan == Promise!Spec
===============================================================================
