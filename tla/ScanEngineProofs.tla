--------------------------- MODULE ScanEngineProofs ---------------------------
(***************************************************************************)
(* Proofs about one scan, for any regions, detectors, lists and number of  *)
(* threads: only what was completely looked at is reconciled, the status   *)
(* tells the coverage, and the scan is an atomic one.                      *)
(*                                                                         *)
(* The commit is the one step that matters.  What it writes is right       *)
(* because every task has reported by then (TasksReport), the tasks are    *)
(* those of the enabled regions (TasksOfSelection), and nothing is written *)
(* before (NothingBefore) or after (CommitIsLast).                         *)
(***************************************************************************)
EXTENDS ScanEngine, WellFoundedInduction, TLAPS

Task == [region : Region, state : {"queued", "running", "done"}, cells : Seq(Cell)]

Initial == [status |-> "running", outcome |-> NoOutcome]

\* The places of the selected regions; a last one exists.
Places ==
  /\ ToSet(regions) \subseteq Region
  /\ \E n \in Nat : DOMAIN regions \subseteq 1 .. n

\* There is a task for each place of an enabled region, and no other.
TasksOfSelection ==
  /\ task \in [Runnable(regions) -> Task]
  /\ \A i \in Runnable(regions) : task[i].region = regions[i]

\* A task has a cell of each detector of a prefix of the registry; a task that is
\* done has all of them, unless the region is unavailable.
TasksReport ==
  \A i \in DOMAIN task :
    /\ Len(task[i].cells) <= Len(Detectors)
    /\ task[i].state = "running" =>
         "skipped" \notin Statuses(task[i].cells) /\ Len(task[i].cells) < Len(Detectors)
    /\ task[i].state = "queued" => task[i].cells = <<>>
    /\ task[i].state = "done" =>
         "skipped" \in Statuses(task[i].cells) \/ Len(task[i].cells) = Len(Detectors)

NothingBefore == phase # "committed" => row = Initial /\ applied = {}

SelectedInDetection ==
  phase \in {"identity", "discovery", "selection"} => regions = <<>>

\* A committed scan has given up before detection, or committed what it saw.
CommitIsLast ==
  phase = "committed" =>
    \/ /\ regions = <<>> /\ applied = {}
       /\ row = [Initial EXCEPT !.status = "failed"]
    \/ /\ DOMAIN task = InState("done")
       /\ row = [status |-> ScanStatusOf(Outcome, DOMAIN task), outcome |-> Outcome]
       /\ applied = Reconciled

Arguments == request \in Requests /\ configured \in Configured /\ phase \in Phase

IInv ==
  /\ Arguments /\ Places /\ TasksOfSelection /\ TasksReport
  /\ NothingBefore /\ SelectedInDetection /\ CommitIsLast

-------------------------------------------------------------------------------
(***************************************************************************)
(* The latest task of a region.                                            *)
(***************************************************************************)

\* A bounded set of places that is not empty has a last one.
LEMMA LastPlace ==
  ASSUME NEW n \in Nat, NEW S, S \subseteq 1 .. n, S # {}
  PROVE  \E i \in S : \A j \in S : j <= i
<1> DEFINE T == {n - i : i \in S}
<1>1. T \subseteq Nat /\ T # {}
  <2>1. ASSUME NEW i \in S PROVE n - i \in Nat
    <3>1. i \in 1 .. n
      OBVIOUS
    <3> QED
      BY <3>1
  <2> QED
    BY <2>1
<1>2. PICK x \in T : \A y \in T : ~ (<<y, x>> \in OpToRel(<, Nat))
  BY <1>1, WFMin, NatLessThanWellFounded, Zenon
<1>3. \A y \in T : ~ (y < x)
  BY <1>1, <1>2 DEF OpToRel
<1>4. PICK i \in S : x = n - i
  OBVIOUS
<1>5. ASSUME NEW j \in S PROVE j <= i
  <2>1. ~ (n - j < n - i)
    BY <1>3, <1>4
  <2> QED
    BY <2>1
<1> QED
  BY <1>5

\* An enabled region of the selection has a latest task.
LEMMA LatestExists ==
  ASSUME Places, TasksOfSelection, NEW r \in ToSet(regions), r \notin NotOptedIn
  PROVE  Latest(r) \in DOMAIN task /\ task[Latest(r)].region = r
<1> DEFINE S == {i \in DOMAIN task : task[i].region = r}
<1>1. DOMAIN task = Runnable(regions)
  BY DEF TasksOfSelection
<1>2. PICK n \in Nat : DOMAIN regions \subseteq 1 .. n
  BY DEF Places
<1>3. S \subseteq 1 .. n
  BY <1>1, <1>2 DEF Runnable
<1>4. PICK i \in DOMAIN regions : regions[i] = r
  BY DEF ToSet
<1>5. i \in S
  BY <1>1, <1>4 DEF TasksOfSelection, Runnable
<1>6. \E k \in S : \A j \in S : j <= k
  BY <1>3, <1>5, LastPlace
<1>7. \E k \in DOMAIN task :
        task[k].region = r /\ \A j \in DOMAIN task : task[j].region = r => j <= k
  BY <1>6
<1> QED
  BY <1>7 DEF Latest

-------------------------------------------------------------------------------
(***************************************************************************)
(* What the commit writes.                                                 *)
(***************************************************************************)

\* What a region reports: cells of a prefix of the detectors, none for a region
\* that is not enabled.
LEMMA ResultsOfRegion ==
  ASSUME Places, TasksOfSelection, TasksReport, NEW r \in ToSet(regions)
  PROVE  Results(r) \in Seq(Cell) /\ Len(Results(r)) <= Len(Detectors)
<1>1. CASE r \in NotOptedIn
  BY <1>1, ScanEngineAssumption DEF Results
<1>2. CASE r \notin NotOptedIn
  BY <1>2, LatestExists DEF Results, TasksOfSelection, TasksReport, Task
<1> QED
  BY <1>1, <1>2

\* The reconciled cells of a region.
LEMMA ReconciledOfRegion ==
  ASSUME NEW r \in ToSet(regions), NEW d
  PROVE  <<r, d>> \in Reconciled <=>
           \E k \in DOMAIN Results(r) : Results(r)[k].status = "complete" /\ Detectors[k] = d
BY DEF Reconciled, Reconcilable

\* Nothing is reconciled outside the selection or the registry.
LEMMA ReconciledInSelection ==
  ASSUME Places, TasksOfSelection, TasksReport
  PROVE  Reconciled \subseteq ToSet(regions) \X Detector
<1>1. ASSUME NEW r \in ToSet(regions), NEW k \in Reconcilable(r)
      PROVE  Detectors[k] \in Detector
  <2>1. k \in 1 .. Len(Detectors)
    BY <1>1, ResultsOfRegion, ScanEngineAssumption DEF Reconcilable
  <2> QED
    BY <2>1, ScanEngineAssumption DEF Detector, ToSet
<1> QED
  BY <1>1 DEF Reconciled

\* A region's status is one.
LEMMA StatusOfRegion ==
  ASSUME NEW cells
  PROVE  RegionStatusOf(cells) \in RegionStatus
BY DEF RegionStatusOf, RegionStatus

LEMMA OutcomeOfScan ==
  /\ DOMAIN Outcome = ToSet(regions)
  /\ \A r \in ToSet(regions) :
       Outcome[r] = IF r \in NotOptedIn THEN "skipped" ELSE RegionStatusOf(Results(r))
  /\ Outcome \in [ToSet(regions) -> RegionStatus]
BY StatusOfRegion DEF Outcome, RegionStatus

\* A region is complete when every cell of it is reconciled, and only then; of a
\* failed one none is.
LEMMA CompleteRegion ==
  ASSUME Places, TasksOfSelection, TasksReport, DOMAIN task = InState("done"),
         NEW r \in ToSet(regions)
  PROVE  /\ Outcome[r] = "complete" <=> {r} \X Detector \subseteq Reconciled
         /\ Outcome[r] = "failed" => Reconciled \cap ({r} \X Detector) = {}
<1> DEFINE C == Results(r)
<1>1. C \in Seq(Cell) /\ Len(C) <= Len(Detectors)
  BY ResultsOfRegion
<1>2. DOMAIN C = 1 .. Len(C) /\ Len(C) \in Nat
  BY <1>1
<1>3. /\ DOMAIN Detectors = 1 .. Len(Detectors) /\ Len(Detectors) \in Nat
      /\ Len(Detectors) > 0
      /\ \A j, k \in DOMAIN Detectors : Detectors[j] = Detectors[k] => j = k
  BY ScanEngineAssumption
<1>4. \A k \in DOMAIN Detectors : Detectors[k] \in Detector
  BY DEF Detector, ToSet
<1>5. \A d \in Detector : \E k \in DOMAIN Detectors : Detectors[k] = d
  BY DEF Detector, ToSet
<1>6. \A k \in DOMAIN C : C[k].status \in Statuses(C)
  BY DEF Statuses, ToSet
<1>7. \A s \in Statuses(C) : \E k \in DOMAIN C : C[k].status = s
  BY DEF Statuses, ToSet
<1>8. \A d : <<r, d>> \in Reconciled <=>
         \E k \in DOMAIN C : C[k].status = "complete" /\ Detectors[k] = d
  BY ReconciledOfRegion
<1> HIDE DEF C
<1>9. ASSUME {r} \X Detector \subseteq Reconciled
      PROVE  r \notin NotOptedIn /\ Statuses(C) = {"complete"}
  <2>1. ASSUME NEW k \in DOMAIN Detectors
        PROVE  k \in DOMAIN C /\ C[k].status = "complete"
    <3>1. <<r, Detectors[k]>> \in Reconciled
      BY <1>4, <1>9, <2>1
    <3>2. PICK j \in DOMAIN C : C[j].status = "complete" /\ Detectors[j] = Detectors[k]
      BY <1>8, <3>1
    <3>3. j \in DOMAIN Detectors
      BY <1>1, <1>2, <1>3
    <3> QED
      BY <1>3, <2>1, <3>2, <3>3
  <2>2. 1 \in DOMAIN C
    BY <1>3, <2>1
  <2>3. r \notin NotOptedIn
    <3>1. r \in NotOptedIn => C = <<>>
      BY DEF C, Results
    <3> QED
      BY <2>2, <3>1
  <2>4. DOMAIN C \subseteq DOMAIN Detectors
    BY <1>1, <1>2, <1>3
  <2>5. Statuses(C) = {"complete"}
    BY <1>6, <1>7, <2>1, <2>2, <2>4
  <2> QED
    BY <2>3, <2>5
<1>10. ASSUME r \notin NotOptedIn, Statuses(C) = {"complete"}
       PROVE  {r} \X Detector \subseteq Reconciled
  <2>1. Len(C) = Len(Detectors)
    <3>1. Latest(r) \in DOMAIN task /\ C = task[Latest(r)].cells
      BY <1>10, LatestExists DEF C, Results
    <3>2. task[Latest(r)].state = "done"
      BY <3>1 DEF InState
    <3>3. "skipped" \notin Statuses(C)
      BY <1>10
    <3> QED
      BY <3>1, <3>2, <3>3 DEF TasksReport
  <2>2. ASSUME NEW d \in Detector PROVE <<r, d>> \in Reconciled
    <3>1. PICK k \in DOMAIN Detectors : Detectors[k] = d
      BY <1>5
    <3>2. k \in DOMAIN C
      BY <1>2, <1>3, <2>1
    <3>3. C[k].status = "complete"
      BY <1>6, <1>10, <3>2
    <3> QED
      BY <1>8, <3>1, <3>2, <3>3
  <2> QED
    BY <2>2
<1>11. Outcome[r] = "complete" <=> r \notin NotOptedIn /\ Statuses(C) = {"complete"}
  BY OutcomeOfScan DEF C, RegionStatusOf
<1>12. ASSUME Outcome[r] = "failed" PROVE Reconciled \cap ({r} \X Detector) = {}
  <2>1. "complete" \notin Statuses(C)
    BY <1>12, OutcomeOfScan DEF C, RegionStatusOf
  <2>2. \A d : <<r, d>> \notin Reconciled
    BY <1>6, <1>8, <2>1
  <2> QED
    BY <2>2
<1> QED
  BY <1>9, <1>10, <1>11, <1>12

\* The commit is one that an atomic scan may make.
LEMMA CommitIsAtomic ==
  ASSUME Places, TasksOfSelection, TasksReport, DOMAIN task = InState("done"),
         NEW status, status = ScanStatusOf(Outcome, DOMAIN task)
  PROVE  /\ status \in {"completed", "partial", "failed"}
         /\ status = "partial" => \E r \in DOMAIN Outcome : Outcome[r] \in {"partial", "failed"}
         /\ status = "completed" =>
              /\ \A r \in DOMAIN Outcome : Outcome[r] \in {"complete", "skipped"}
              /\ DOMAIN Outcome # {}
         /\ status = "failed" =>
              /\ \A r \in DOMAIN Outcome : Outcome[r] = "skipped"
              /\ Reconciled = {} /\ DOMAIN task = {}
<1>1. DOMAIN task = Runnable(regions)
  BY DEF TasksOfSelection
<1>2. DOMAIN Outcome = ToSet(regions) /\ \A r \in ToSet(regions) : Outcome[r] \in RegionStatus
  BY OutcomeOfScan
<1>3. CASE DOMAIN task = {}
  <2>1. status = "failed"
    BY <1>3 DEF ScanStatusOf
  <2>2. ASSUME NEW r \in ToSet(regions) PROVE r \in NotOptedIn
    BY <1>1, <1>3 DEF Runnable, ToSet
  <2>3. \A r \in ToSet(regions) : Outcome[r] = "skipped"
    BY <2>2, OutcomeOfScan
  <2>4. \A r \in ToSet(regions) : Reconcilable(r) = {}
    BY <2>2 DEF Reconcilable, Results
  <2>5. Reconciled = {}
    BY <2>4 DEF Reconciled
  <2> QED
    BY <1>2, <1>3, <2>1, <2>3, <2>5
<1>4. CASE DOMAIN task # {}
  <2>1. DOMAIN Outcome # {}
    BY <1>1, <1>2, <1>4 DEF Runnable, ToSet
  <2>2. CASE \E r \in DOMAIN Outcome : Outcome[r] \in {"partial", "failed"}
    <3>1. status = "partial"
      BY <1>4, <2>2 DEF ScanStatusOf
    <3> QED
      BY <2>2, <3>1
  <2>3. CASE ~ \E r \in DOMAIN Outcome : Outcome[r] \in {"partial", "failed"}
    <3>1. status = "completed"
      BY <1>4, <2>3 DEF ScanStatusOf
    <3>2. \A r \in DOMAIN Outcome : Outcome[r] \in {"complete", "skipped"}
      BY <1>2, <2>3 DEF RegionStatus
    <3> QED
      BY <2>1, <3>1, <3>2
  <2> QED
    BY <2>2, <2>3
<1> QED
  BY <1>3, <1>4

-------------------------------------------------------------------------------
(***************************************************************************)
(* The invariant.                                                          *)
(***************************************************************************)

\* Whatever list is selected, its places are bounded.
LEMMA SelectedPlaces ==
  ASSUME Arguments
  PROVE  /\ ToSet(SelectedRegions) \subseteq Region
         /\ \E n \in Nat : DOMAIN SelectedRegions \subseteq 1 .. n
<1>1. ASSUME NEW s \in Seq(Region)
      PROVE  /\ ToSet(s) \subseteq Region /\ ToSet(Deduplicated(s)) \subseteq Region
             /\ Len(s) \in Nat /\ DOMAIN s \subseteq 1 .. Len(s)
             /\ DOMAIN Deduplicated(s) \subseteq 1 .. Len(s)
  <2>1. DOMAIN s = 1 .. Len(s) /\ \A i \in DOMAIN s : s[i] \in Region
    BY <1>1
  <2>2. /\ DOMAIN Deduplicated(s) \subseteq DOMAIN s
        /\ \A i \in DOMAIN Deduplicated(s) : Deduplicated(s)[i] = s[i]
    BY DEF Deduplicated
  <2> QED
    BY <1>1, <2>1, <2>2 DEF ToSet
<1>2. Discovered \in Seq(Region)
  BY ScanEngineAssumption
<1>3. CASE request # NoRegions
  <2>1. SelectedRegions = Deduplicated(request) /\ request \in Seq(Region)
    BY <1>3, ScanEngineAssumption DEF SelectedRegions, Arguments
  <2> QED
    BY <1>1, <2>1
<1>4. CASE request = NoRegions /\ configured # NoRegions
  <2>1. SelectedRegions = configured /\ configured \in Seq(Region)
    BY <1>4, ScanEngineAssumption DEF SelectedRegions, Arguments
  <2> QED
    BY <1>1, <2>1
<1>5. CASE request = NoRegions /\ configured = NoRegions
  <2>1. SelectedRegions = Discovered
    BY <1>5 DEF SelectedRegions
  <2> QED
    BY <1>1, <1>2, <2>1
<1> QED
  BY <1>3, <1>4, <1>5

\* The statuses of a longer list of cells.
LEMMA StatusesOfAppend ==
  ASSUME NEW cells \in Seq(Cell), NEW cell \in Cell
  PROVE  Statuses(Append(cells, cell)) = Statuses(cells) \cup {cell.status}
<1> DEFINE more == Append(cells, cell)
<1>1. /\ DOMAIN cells = 1 .. Len(cells) /\ DOMAIN more = 1 .. Len(cells) + 1
      /\ Len(cells) \in Nat
      /\ more[Len(cells) + 1] = cell
      /\ \A k \in 1 .. Len(cells) : more[k] = cells[k]
  OBVIOUS
<1>2. ToSet(more) = ToSet(cells) \cup {cell}
  BY <1>1 DEF ToSet
<1> QED
  BY <1>2 DEF Statuses

\* A thread's step keeps the tasks those of the selection, with honest reports.
LEMMA PoolKeeps ==
  ASSUME IInv, NEW i \in DOMAIN task,
         StartRegion(i) \/ \E cell \in Cell : Detect(i, cell)
  PROVE  IInv'
<1>1. /\ phase = "detection" /\ i \in Runnable(regions)
      /\ UNCHANGED <<request, configured, phase, regions, row, applied>>
  BY DEF IInv, TasksOfSelection, StartRegion, Detect
<1>2. task \in [Runnable(regions) -> Task] /\ task[i] \in Task
  BY <1>1 DEF IInv, TasksOfSelection
<1>3. Runnable(regions)' = Runnable(regions)
  BY <1>1 DEF Runnable
<1>4. /\ TasksOfSelection' /\ TasksReport'
  <2>1. CASE StartRegion(i)
    <3>1. task' = [task EXCEPT ![i].state = "running"] /\ task[i].state = "queued"
      BY <2>1 DEF StartRegion, InState
    <3>2. /\ task'[i] = [task[i] EXCEPT !.state = "running"]
          /\ \A j \in DOMAIN task : j # i => task'[j] = task[j]
          /\ task' \in [Runnable(regions) -> Task]
      BY <1>2, <3>1 DEF Task
    <3>3. /\ task'[i].region = task[i].region /\ task'[i].cells = <<>>
          /\ task'[i].state = "running"
      BY <1>2, <3>1, <3>2 DEF Task, IInv, TasksReport
    <3>4. Statuses(<<>>) = {} /\ Len(<<>>) < Len(Detectors) /\ Len(Detectors) \in Nat
      BY ScanEngineAssumption DEF Statuses, ToSet
    <3>5. TasksOfSelection'
      BY <1>1, <1>3, <3>2, <3>3 DEF IInv, TasksOfSelection
    <3>6. ASSUME NEW j \in DOMAIN task'
          PROVE  /\ Len(task'[j].cells) <= Len(Detectors)
                 /\ task'[j].state = "running" =>
                      "skipped" \notin Statuses(task'[j].cells) /\ Len(task'[j].cells) < Len(Detectors)
                 /\ task'[j].state = "queued" => task'[j].cells = <<>>
                 /\ task'[j].state = "done" =>
                      "skipped" \in Statuses(task'[j].cells) \/ Len(task'[j].cells) = Len(Detectors)
      <4>1. CASE j = i
        BY <3>3, <3>4, <4>1
      <4>2. CASE j # i
        BY <1>2, <3>2, <4>2 DEF IInv, TasksReport
      <4> QED
        BY <4>1, <4>2
    <3>7. TasksReport'
      BY <3>6 DEF TasksReport, Statuses
    <3> QED
      BY <3>5, <3>7
  <2>2. ASSUME NEW cell \in Cell, Detect(i, cell) PROVE TasksOfSelection' /\ TasksReport'
    <3> DEFINE cells == Append(task[i].cells, cell)
               over == cell.status = "skipped" \/ Len(cells) = Len(Detectors)
    <3>1. /\ task' = [task EXCEPT ![i].cells = cells,
                                  ![i].state = IF over THEN "done" ELSE "running"]
          /\ task[i].state = "running"
      BY <2>2 DEF Detect, InState
    <3>2. /\ task[i].cells \in Seq(Cell) /\ cells \in Seq(Cell)
          /\ Len(cells) = Len(task[i].cells) + 1 /\ Len(task[i].cells) \in Nat
      BY <1>2 DEF Task
    <3>3. "skipped" \notin Statuses(task[i].cells) /\ Len(task[i].cells) < Len(Detectors)
      BY <1>2, <3>1 DEF IInv, TasksReport
    <3>4. Statuses(cells) = Statuses(task[i].cells) \cup {cell.status}
      BY <3>2, StatusesOfAppend
    <3> HIDE DEF cells
    <3>5. /\ task' \in [Runnable(regions) -> Task]
          /\ \A j \in DOMAIN task : j # i => task'[j] = task[j]
          /\ task'[i].region = task[i].region /\ task'[i].cells = cells
          /\ task'[i].state = IF over THEN "done" ELSE "running"
      BY <1>2, <3>1, <3>2 DEF Task
    <3>6. Len(Detectors) \in Nat
      BY ScanEngineAssumption
    <3>7. TasksOfSelection'
      BY <1>1, <1>3, <3>5 DEF IInv, TasksOfSelection
    <3>8. TasksReport'
      <4>1. /\ Len(cells) <= Len(Detectors)
            /\ over => "skipped" \in Statuses(cells) \/ Len(cells) = Len(Detectors)
            /\ ~over => "skipped" \notin Statuses(cells) /\ Len(cells) < Len(Detectors)
        BY <3>2, <3>3, <3>4, <3>6
      <4> HIDE DEF over
      <4> QED
        BY <1>2, <3>5, <4>1 DEF IInv, TasksReport, Statuses
    <3> QED
      BY <3>7, <3>8
  <2> QED
    BY <2>1, <2>2
<1>5. Arguments' /\ Places' /\ NothingBefore' /\ SelectedInDetection' /\ CommitIsLast'
  BY <1>1 DEF IInv, Arguments, Places, NothingBefore, SelectedInDetection, CommitIsLast, Initial
<1> QED
  BY <1>4, <1>5 DEF IInv

\* The steps of run_scan.
LEMMA RunScanKeeps ==
  ASSUME IInv, RunScan
  PROVE  IInv'
<1>1. UNCHANGED <<request, configured>> /\ phase' \in Phase
  BY DEF RunScan, Identify, IdentifyFails, Discover, DiscoverFails, Select, Finish, Raise, Phase
<1>2. Arguments'
  BY <1>1 DEF IInv, Arguments
<1>3. CASE Identify \/ Discover \/ Raise
  <2>1. /\ UNCHANGED <<regions, task, row, applied>>
        /\ phase # "committed" /\ phase' # "committed"
        /\ phase' \in {"identity", "discovery", "selection"} => phase \in {"identity", "discovery"}
    BY <1>3 DEF Identify, Discover, Raise
  <2>2. Places' /\ TasksOfSelection' /\ TasksReport'
    BY <2>1 DEF IInv, Places, TasksOfSelection, TasksReport, Runnable, Statuses
  <2>3. NothingBefore' /\ SelectedInDetection' /\ CommitIsLast'
    BY <2>1 DEF IInv, NothingBefore, SelectedInDetection, CommitIsLast, Initial
  <2> QED
    BY <1>2, <2>2, <2>3 DEF IInv
<1>4. CASE IdentifyFails \/ DiscoverFails
  <2>1. /\ UNCHANGED <<regions, task, applied>>
        /\ phase \in {"identity", "discovery"} /\ phase' = "committed"
        /\ row' = [row EXCEPT !.status = "failed"]
    BY <1>4 DEF IdentifyFails, DiscoverFails
  <2>2. Places' /\ TasksOfSelection' /\ TasksReport'
    BY <2>1 DEF IInv, Places, TasksOfSelection, TasksReport, Runnable, Statuses
  <2>3. NothingBefore' /\ SelectedInDetection' /\ CommitIsLast'
    BY <2>1 DEF IInv, NothingBefore, SelectedInDetection, CommitIsLast, Initial
  <2> QED
    BY <1>2, <2>2, <2>3 DEF IInv
<1>5. CASE Select
  <2>1. /\ regions' = SelectedRegions /\ task' = Queued(regions')
        /\ phase' = "detection" /\ phase # "committed" /\ UNCHANGED <<row, applied>>
    BY <1>5 DEF Select
  <2>2. Places'
    BY <2>1, SelectedPlaces DEF IInv, Places
  <2>3. \A j \in Runnable(regions') : regions'[j] \in Region
    BY <2>2 DEF Places, Runnable, ToSet
  <2>4. Runnable(regions)' = Runnable(regions')
    BY DEF Runnable
  <2>5. TasksOfSelection'
    BY <2>1, <2>3, <2>4 DEF TasksOfSelection, Queued, Task
  <2>6. TasksReport'
    <3>1. Len(<<>>) <= Len(Detectors)
      BY ScanEngineAssumption
    <3> QED
      BY <2>1, <3>1 DEF TasksReport, Queued
  <2>7. NothingBefore' /\ SelectedInDetection' /\ CommitIsLast'
    BY <2>1 DEF IInv, NothingBefore, SelectedInDetection, CommitIsLast, Initial
  <2> QED
    BY <1>2, <2>2, <2>5, <2>6, <2>7 DEF IInv
<1>6. CASE Finish
  <2>1. /\ UNCHANGED <<regions, task>> /\ phase' = "committed"
        /\ DOMAIN task = InState("done")
        /\ row' = [status |-> ScanStatusOf(Outcome, DOMAIN task), outcome |-> Outcome]
        /\ applied' = Reconciled
    BY <1>6 DEF Finish
  <2>2. Places' /\ TasksOfSelection' /\ TasksReport'
    BY <2>1 DEF IInv, Places, TasksOfSelection, TasksReport, Runnable, Statuses
  <2>3. /\ Outcome' = Outcome /\ Reconciled' = Reconciled /\ InState("done")' = InState("done")
        /\ ScanStatusOf(Outcome, DOMAIN task)' = ScanStatusOf(Outcome, DOMAIN task)
    <3>1. \A r : Results(r)' = Results(r)
      BY <2>1 DEF Results, Latest
    <3>2. Outcome' = Outcome
      BY <2>1, <3>1 DEF Outcome, RegionStatusOf, Statuses
    <3>3. \A r : Reconcilable(r)' = Reconcilable(r)
      BY <3>1 DEF Reconcilable
    <3>4. Reconciled' = Reconciled
      BY <2>1, <3>3 DEF Reconciled
    <3>5. InState("done")' = InState("done")
      BY <2>1 DEF InState
    <3>6. ScanStatusOf(Outcome, DOMAIN task)' = ScanStatusOf(Outcome, DOMAIN task)
      BY <2>1, <3>2 DEF ScanStatusOf
    <3> QED
      BY <3>2, <3>4, <3>5, <3>6
  <2>4. NothingBefore' /\ SelectedInDetection' /\ CommitIsLast'
    BY <2>1, <2>3 DEF NothingBefore, SelectedInDetection, CommitIsLast
  <2> QED
    BY <1>2, <2>2, <2>4 DEF IInv
<1> QED
  BY <1>3, <1>4, <1>5, <1>6 DEF RunScan

LEMMA InitHasIInv ==
  ASSUME Init
  PROVE  IInv
<1>1. ToSet(<<>>) = {} /\ DOMAIN <<>> = {} /\ Runnable(<<>>) = {}
  BY DEF ToSet, Runnable
<1>2. 0 \in Nat /\ DOMAIN <<>> \subseteq 1 .. 0
  BY <1>1
<1>3. regions = <<>> /\ task = <<>> /\ phase = "identity"
  BY DEF Init
<1>4. Places
  BY <1>1, <1>2, <1>3 DEF Places
<1>5. TasksOfSelection
  <2>1. task = [i \in {} |-> <<>>]
    BY <1>3
  <2> QED
    BY <1>1, <1>3, <2>1 DEF TasksOfSelection
<1>6. TasksReport
  BY <1>1, <1>3 DEF TasksReport
<1>7. Arguments /\ NothingBefore /\ SelectedInDetection /\ CommitIsLast
  BY DEF Init, Arguments, Phase, NothingBefore, SelectedInDetection, CommitIsLast, Initial
<1> QED
  BY <1>4, <1>5, <1>6, <1>7 DEF IInv

\* The invariant holds of every scan, for any regions and detectors.
THEOREM IInvHolds == Spec => []IInv
<1>1. Init => IInv
  BY InitHasIInv
<1>2. IInv /\ [Next]_vars => IInv'
  <2> SUFFICES ASSUME IInv, [Next]_vars PROVE IInv'
    OBVIOUS
  <2>1. CASE RunScan
    BY <2>1, RunScanKeeps
  <2>2. CASE Pool
    BY <2>2, PoolKeeps DEF Pool
  <2>3. CASE UNCHANGED vars
    <3>1. UNCHANGED <<request, configured, phase, regions, task, row, applied>>
      BY <2>3 DEF vars
    <3>2. Arguments' /\ Places' /\ TasksOfSelection' /\ TasksReport'
      BY <3>1 DEF IInv, Arguments, Places, TasksOfSelection, TasksReport, Runnable, Statuses
    <3>3. \A r : Results(r)' = Results(r)
      BY <3>1 DEF Results, Latest
    <3>4. Outcome' = Outcome
      BY <3>1, <3>3 DEF Outcome, RegionStatusOf, Statuses
    <3>5. \A r : Reconcilable(r)' = Reconcilable(r)
      BY <3>3 DEF Reconcilable
    <3>6. Reconciled' = Reconciled
      BY <3>1, <3>5 DEF Reconciled
    <3>7. /\ InState("done")' = InState("done")
          /\ ScanStatusOf(Outcome, DOMAIN task)' = ScanStatusOf(Outcome, DOMAIN task)
      BY <3>1, <3>4 DEF InState, ScanStatusOf
    <3>8. NothingBefore' /\ SelectedInDetection' /\ CommitIsLast'
      BY <3>1, <3>4, <3>6, <3>7 DEF IInv, NothingBefore, SelectedInDetection, CommitIsLast, Initial
    <3> QED
      BY <3>2, <3>8 DEF IInv
  <2> QED
    BY <2>1, <2>2, <2>3 DEF Next
<1> QED
  BY <1>1, <1>2, PTL DEF Spec

-------------------------------------------------------------------------------
(***************************************************************************)
(* What follows.                                                           *)
(***************************************************************************)

\* Every variable keeps its type: the outcome is one status per selected region,
\* and only cells of the registry are applied.
THEOREM TypeCorrect == Spec => []TypeOK
<1>1. IInv => TypeOK
  <2> SUFFICES ASSUME IInv PROVE TypeOK
    OBVIOUS
  <2>1. /\ request \in Requests /\ configured \in Configured /\ phase \in Phase
        /\ DOMAIN regions \subseteq Nat /\ ToSet(regions) \subseteq Region
    BY DEF IInv, Arguments, Places
  <2>2. ASSUME NEW i \in DOMAIN task
        PROVE  /\ task[i].region \in ToSet(regions)
               /\ task[i].state \in {"queued", "running", "done"}
               /\ task[i].cells \in Seq(Cell) /\ Len(task[i].cells) <= Len(Detectors)
    <3>1. i \in Runnable(regions) /\ task[i] \in Task /\ task[i].region = regions[i]
      BY <2>2 DEF IInv, TasksOfSelection
    <3>2. regions[i] \in ToSet(regions)
      BY <3>1 DEF Runnable, ToSet
    <3> QED
      BY <2>2, <3>1, <3>2 DEF Task, IInv, TasksReport
  <2>3. /\ row.status \in {"running", "completed", "partial", "failed"}
        /\ row.outcome \in UNION {[R -> RegionStatus] : R \in SUBSET Region}
        /\ applied \subseteq Region \X Detector
    <3>1. NoOutcome \in [{} -> RegionStatus] /\ {} \in SUBSET Region
      BY DEF NoOutcome
    <3>2. CASE row \in {Initial, [Initial EXCEPT !.status = "failed"]} /\ applied = {}
      <4>1. row.outcome = NoOutcome /\ row.status \in {"running", "failed"}
        BY <3>2 DEF Initial
      <4> QED
        BY <3>1, <3>2, <4>1
    <3>3. CASE /\ DOMAIN task = InState("done")
               /\ row = [status |-> ScanStatusOf(Outcome, DOMAIN task), outcome |-> Outcome]
               /\ applied = Reconciled
      <4>1. row.status \in {"completed", "partial", "failed"}
        BY <3>3, CommitIsAtomic DEF IInv
      <4>2. Outcome \in [ToSet(regions) -> RegionStatus]
        BY OutcomeOfScan
      <4>3. Reconciled \subseteq ToSet(regions) \X Detector
        BY ReconciledInSelection DEF IInv
      <4> QED
        BY <2>1, <3>3, <4>1, <4>2, <4>3
    <3> QED
      BY <3>2, <3>3 DEF IInv, NothingBefore, CommitIsLast
  <2> QED
    BY <2>1, <2>2, <2>3 DEF TypeOK
<1> QED
  BY <1>1, IInvHolds, PTL

\* No finding is resolved on account of what was not looked at.
THEOREM SeenIsReconciled == Spec => []OnlySeenIsReconciled
<1>1. IInv => OnlySeenIsReconciled
  <2> SUFFICES ASSUME IInv, NEW r \in Region, NEW k \in DOMAIN Detectors,
                      <<r, Detectors[k]>> \in applied
               PROVE  /\ phase = "committed"
                      /\ \E i \in DOMAIN task :
                           /\ task[i].region = r
                           /\ k <= Len(task[i].cells) /\ task[i].cells[k].status = "complete"
    BY DEF OnlySeenIsReconciled
  <2>1. phase = "committed" /\ applied = Reconciled
    BY DEF IInv, NothingBefore, CommitIsLast
  <2>2. r \in ToSet(regions)
    BY <2>1, ReconciledInSelection DEF IInv
  <2>3. PICK j \in DOMAIN Results(r) :
          Results(r)[j].status = "complete" /\ Detectors[j] = Detectors[k]
    BY <2>1, <2>2, ReconciledOfRegion
  <2>4. Results(r) \in Seq(Cell) /\ Len(Results(r)) <= Len(Detectors)
    BY <2>2, ResultsOfRegion DEF IInv
  <2>5. j = k /\ k <= Len(Results(r))
    <3>1. j \in DOMAIN Detectors /\ j <= Len(Results(r))
      BY <2>3, <2>4, ScanEngineAssumption
    <3> QED
      BY <2>3, <3>1, ScanEngineAssumption
  <2>6. r \notin NotOptedIn
    BY <2>3 DEF Results
  <2>7. Latest(r) \in DOMAIN task /\ task[Latest(r)].region = r
    BY <2>2, <2>6, LatestExists DEF IInv
  <2>8. Results(r) = task[Latest(r)].cells
    BY <2>6 DEF Results
  <2> QED
    BY <2>1, <2>3, <2>5, <2>7, <2>8
<1> QED
  BY <1>1, IInvHolds, PTL

\* A completed scan reconciled every cell of every region it does not report as
\* skipped; a failed one ran no region and reconciled nothing.
THEOREM StatusIsCoverage == Spec => []StatusTellsCoverage
<1>1. IInv => StatusTellsCoverage
  <2> SUFFICES ASSUME IInv, phase = "committed" PROVE StatusTellsCoverage
    BY DEF StatusTellsCoverage
  <2>1. CASE /\ regions = <<>> /\ applied = {}
             /\ row = [Initial EXCEPT !.status = "failed"]
    <3>1. row.status = "failed"
      BY <2>1 DEF Initial
    <3>2. DOMAIN task = {}
      BY <2>1 DEF IInv, TasksOfSelection, Runnable
    <3> QED
      BY <2>1, <3>1, <3>2 DEF StatusTellsCoverage, InState
  <2>2. CASE /\ DOMAIN task = InState("done")
             /\ row = [status |-> ScanStatusOf(Outcome, DOMAIN task), outcome |-> Outcome]
             /\ applied = Reconciled
    <3>1. row.outcome = Outcome /\ row.status = ScanStatusOf(Outcome, DOMAIN task)
      BY <2>2
    <3>2. ASSUME row.status = "completed", NEW r \in DOMAIN Outcome, Outcome[r] # "skipped"
          PROVE  {r} \X Detector \subseteq applied
      <4>1. Outcome[r] = "complete"
        BY <2>2, <3>1, <3>2, CommitIsAtomic DEF IInv
      <4>2. r \in ToSet(regions)
        BY <3>2, OutcomeOfScan
      <4> QED
        BY <2>2, <4>1, <4>2, CompleteRegion DEF IInv
    <3>3. ASSUME row.status = "failed"
          PROVE  InState("done") = {} /\ applied = {}
      BY <2>2, <3>1, <3>3, CommitIsAtomic DEF IInv
    <3> QED
      BY <3>1, <3>2, <3>3 DEF StatusTellsCoverage
  <2> QED
    BY <2>1, <2>2 DEF IInv, CommitIsLast
<1> QED
  BY <1>1, IInvHolds, PTL

\* The commit is the atomic scan's one step, every other step is one of its
\* stutters or its giving up.
THEOREM AtomicScanImplemented == Spec => ImplementsAtomicScan
<1>1. Init => Promise!Init
  BY DEF Init, Promise!Init, NoOutcome, Promise!NoOutcome
<1>2. IInv /\ [Next]_vars => [Promise!Next]_Promise!vars
  <2> SUFFICES ASSUME IInv, [Next]_vars PROVE [Promise!Next]_Promise!vars
    OBVIOUS
  <2>1. ASSUME UNCHANGED <<row, applied>>, phase # "raised", phase' # "raised"
        PROVE  UNCHANGED Promise!vars
    BY <2>1 DEF Promise!vars
  <2>2. CASE Identify \/ Discover \/ Select \/ Pool
    <3>1. UNCHANGED <<row, applied>> /\ phase # "raised" /\ phase' # "raised"
      BY <2>2 DEF Identify, Discover, Select, Pool, StartRegion, Detect
    <3> QED
      BY <2>1, <3>1
  <2>3. CASE IdentifyFails \/ DiscoverFails
    <3>1. /\ phase # "raised" /\ phase' # "raised" /\ row = Initial
          /\ row' = [row EXCEPT !.status = "failed"] /\ UNCHANGED applied
      BY <2>3 DEF IdentifyFails, DiscoverFails, IInv, NothingBefore
    <3>2. row.status = "running" /\ row'.status = "failed" /\ row'.outcome = row.outcome
      BY <3>1 DEF Initial
    <3>3. Promise!GiveUp
      BY <3>1, <3>2 DEF Promise!GiveUp
    <3> QED
      BY <3>3 DEF Promise!Next
  <2>4. CASE Raise
    <3>1. /\ phase # "raised" /\ phase' = "raised" /\ row = Initial
          /\ UNCHANGED <<row, applied>>
      BY <2>4 DEF Raise, IInv, NothingBefore
    <3>2. Promise!GiveUp
      BY <3>1 DEF Promise!GiveUp, Initial
    <3> QED
      BY <3>2 DEF Promise!Next
  <2>5. CASE Finish
    <3>1. /\ phase # "raised" /\ phase' = "committed" /\ row = Initial
          /\ DOMAIN task = InState("done")
          /\ row' = [status |-> ScanStatusOf(Outcome, DOMAIN task), outcome |-> Outcome]
          /\ applied' = Reconciled
      BY <2>5 DEF Finish, IInv, NothingBefore
    <3>2. /\ row'.outcome = Outcome /\ row'.status = ScanStatusOf(Outcome, DOMAIN task)
          /\ row.status = "running"
      BY <3>1 DEF Initial
    <3>3. /\ Outcome \in [ToSet(regions) -> RegionStatus] /\ DOMAIN Outcome = ToSet(regions)
          /\ ToSet(regions) \in SUBSET Region
      BY OutcomeOfScan DEF IInv, Places
    <3>4. Outcome \in Promise!Outcomes
      BY <3>3 DEF Promise!Outcomes, Promise!RegionStatus, RegionStatus
    <3>5. Reconciled \subseteq (DOMAIN Outcome) \X Detector
      BY <3>3, ReconciledInSelection DEF IInv
    <3>6. \A r \in DOMAIN Outcome :
            /\ Outcome[r] = "complete" <=> {r} \X Detector \subseteq Reconciled
            /\ Outcome[r] = "failed" => Reconciled \cap ({r} \X Detector) = {}
      BY <3>1, <3>3, CompleteRegion DEF IInv
    <3> DEFINE status == ScanStatusOf(Outcome, DOMAIN task)
    <3>7. /\ status \in {"completed", "partial", "failed"}
          /\ status = "partial" => \E r \in DOMAIN Outcome : Outcome[r] \in {"partial", "failed"}
          /\ status = "completed" =>
               /\ \A r \in DOMAIN Outcome : Outcome[r] \in {"complete", "skipped"}
               /\ DOMAIN Outcome # {}
          /\ status = "failed" =>
               /\ \A r \in DOMAIN Outcome : Outcome[r] = "skipped"
               /\ Reconciled = {}
      BY <3>1, CommitIsAtomic DEF IInv
    <3> HIDE DEF status
    <3>8. row'.status = status
      BY <3>2 DEF status
    <3>9. Promise!Finish
      BY <3>1, <3>2, <3>4, <3>5, <3>6, <3>7, <3>8 DEF Promise!Finish
    <3> QED
      BY <3>9 DEF Promise!Next
  <2>6. CASE UNCHANGED vars
    BY <2>6 DEF vars, Promise!vars
  <2> QED
    BY <2>2, <2>3, <2>4, <2>5, <2>6 DEF Next, RunScan
<1> QED
  BY <1>1, <1>2, IInvHolds, PTL DEF Spec, ImplementsAtomicScan, Promise!Spec
===============================================================================
