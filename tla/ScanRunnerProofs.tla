--------------------------- MODULE ScanRunnerProofs ---------------------------
(***************************************************************************)
(* One scan at a time, for any number of requests and any set of faults.   *)
(*                                                                         *)
(* SingleFlight is not inductive: it says nothing of a worker that has     *)
(* finished and is about to clear the slot, and Clear would free the slot  *)
(* of another scan if two workers could be there.  IInv adds that a worker *)
(* runs only for a request that created its row, and that a dead process   *)
(* has no threads.                                                         *)
(***************************************************************************)
EXTENDS ScanRunner, TLAPS

\* A worker was launched by a request that is past start()'s critical section.
WorkerHasRequest ==
  \A r \in Request : worker[r] # "none"
    => request[r] \in {"inline", "launched", "accepted", "error", "lost"}

\* A dead process has no threads.
DownIsIdle ==
  ~up => \A r \in Request : Ended(r) /\ request[r] # "unlocked"

\* A scan that has not ended in the worker has not ended in the table.  It
\* needs the refresh that follows the commit not to reach the except block.
UnfinishedRow ==
  \A r \in Request :
    worker[r] \in {"none", "starting", "scanning", "failing"} => row[r] \notin FinalStatus

\* A worker past its commit or its except block has ended its scan in the
\* table, if the scan is still there.
EndedRow ==
  \A r \in Request :
    worker[r] \in {"refreshing", "refresh_raised", "finished", "done"}
      => row[r] \in FinalStatus \cup {"deleted"}

\* The inductive invariant.
IInv ==
  /\ TypeOK
  /\ SingleFlight
  /\ OneRunningRow
  /\ WorkerHasRequest
  /\ DownIsIdle

-------------------------------------------------------------------------------
(***************************************************************************)
(* Types.                                                                  *)
(***************************************************************************)

\* Every step of a request thread keeps the types.
LEMMA RequestStepType ==
  ASSUME TypeOK, NEW r \in Request, RequestStep(r)
  PROVE  TypeOK'
<1> USE ScanRunnerAssumption DEF TypeOK, RowStatus, FinalStatus, RequestState, WorkerState
<1>1. CASE Acquire(r)
  BY <1>1 DEF Acquire
<1>2. CASE Refuse(r)
  BY <1>2 DEF Refuse
<1>3. CASE Create(r)
  BY <1>3 DEF Create
<1>4. CASE CreateFails(r)
  BY <1>4 DEF CreateFails
<1>5. ASSUME NEW wait \in BOOLEAN, Launch(r, wait) PROVE TypeOK'
  BY <1>5 DEF Launch
<1>6. CASE LaunchFails(r)
  BY <1>6 DEF LaunchFails
<1>7. CASE Respond(r)
  BY <1>7 DEF Respond
<1>8. CASE RespondFails(r)
  BY <1>8 DEF RespondFails
<1> QED
  BY <1>1, <1>2, <1>3, <1>4, <1>5, <1>6, <1>7, <1>8 DEF RequestStep

\* Every step of a worker keeps the types.
LEMMA WorkerStepType ==
  ASSUME TypeOK, NEW r \in Request, WorkerStep(r)
  PROVE  TypeOK'
<1> USE ScanRunnerAssumption DEF TypeOK, RowStatus, FinalStatus, RequestState, WorkerState
<1>1. CASE BeginScan(r)
  BY <1>1 DEF BeginScan
<1>2. CASE Raise(r)
  BY <1>2 DEF Raise
<1>3. CASE RefreshIdentity(r)
  BY <1>3 DEF RefreshIdentity
<1>4. CASE RefreshRaises(r)
  BY <1>4 DEF RefreshRaises
<1>5. CASE MarkFailed(r)
  BY <1>5 DEF MarkFailed, InExceptBlock
<1>6. CASE MarkFails(r)
  BY <1>6 DEF MarkFails, InExceptBlock
<1>7. CASE Clear(r)
  BY <1>7 DEF Clear
<1>8. ASSUME NEW status \in FinalStatus, CommitScan(r, status) PROVE TypeOK'
  BY <1>8 DEF CommitScan
<1> QED
  BY <1>1, <1>2, <1>3, <1>4, <1>5, <1>6, <1>7, <1>8 DEF WorkerStep

\* Every step keeps the types.
LEMMA NextType ==
  ASSUME TypeOK, [Next]_vars
  PROVE  TypeOK'
<1>1. ASSUME NEW r \in Request, RequestStep(r) \/ WorkerStep(r) PROVE TypeOK'
  BY <1>1, RequestStepType, WorkerStepType
<1>2. CASE Crash
  BY <1>2, ScanRunnerAssumption DEF Crash, TypeOK, Ended, RequestState, WorkerState
<1>3. CASE Restart
  BY <1>3 DEF Restart, TypeOK
<1>4. CASE Reset
  BY <1>4 DEF Reset, TypeOK, RowStatus
<1>5. CASE UNCHANGED vars
  BY <1>5 DEF vars, TypeOK
<1> QED
  BY <1>1, <1>2, <1>3, <1>4, <1>5 DEF Next

\* The runner's state keeps its types.
THEOREM TypeCorrect == Spec => []TypeOK
<1>1. Init => TypeOK
  BY ScanRunnerAssumption DEF Init, TypeOK, RowStatus, RequestState, WorkerState
<1> QED
  BY <1>1, NextType, PTL DEF Spec

-------------------------------------------------------------------------------
(***************************************************************************)
(* One running row.                                                        *)
(***************************************************************************)

\* Only Create makes a row run, and only when none runs.
LEMMA OneRunningRowStep ==
  ASSUME TypeOK, OneRunningRow, [Next]_vars
  PROVE  OneRunningRow'
<1> USE DEF OneRunningRow, RunningRows, TypeOK
<1>1. ASSUME NEW r \in Request, Create(r) PROVE OneRunningRow'
  BY <1>1 DEF Create
<1>2. ASSUME NEW r \in Request, RequestStep(r), ~Create(r) PROVE UNCHANGED row
  BY <1>2 DEF RequestStep, Acquire, Refuse, CreateFails, Launch, LaunchFails, Respond, RespondFails
<1>3. ASSUME NEW r \in Request, WorkerStep(r) PROVE OneRunningRow'
  <2>1. ASSUME NEW status \in FinalStatus, CommitScan(r, status) PROVE OneRunningRow'
    BY <2>1 DEF CommitScan, FinalStatus
  <2>2. CASE MarkFailed(r)
    BY <2>2 DEF MarkFailed
  <2>3. CASE BeginScan(r) \/ Raise(r) \/ RefreshIdentity(r) \/ RefreshRaises(r)
             \/ MarkFails(r) \/ Clear(r)
    BY <2>3 DEF BeginScan, Raise, RefreshIdentity, RefreshRaises, MarkFails, Clear
  <2> QED
    BY <1>3, <2>1, <2>2, <2>3 DEF WorkerStep
<1>4. CASE Crash \/ Restart
  BY <1>4 DEF Crash, Restart
<1>5. CASE Reset
  BY <1>5 DEF Reset
<1>6. CASE UNCHANGED vars
  BY <1>6 DEF vars
<1> QED
  BY <1>1, <1>2, <1>3, <1>4, <1>5, <1>6 DEF Next

-------------------------------------------------------------------------------
(***************************************************************************)
(* One scan in flight.                                                     *)
(***************************************************************************)

\* A step of a request thread keeps the inductive invariant.
LEMMA RequestKeepsFlight ==
  ASSUME TypeOK, SingleFlight, WorkerHasRequest, DownIsIdle,
         NEW r \in Request, RequestStep(r)
  PROVE  SingleFlight' /\ WorkerHasRequest' /\ DownIsIdle'
<1> USE ScanRunnerAssumption DEF TypeOK, SingleFlight, Active, Ended, WorkerHasRequest, DownIsIdle
<1>1. CASE Acquire(r)
  BY <1>1 DEF Acquire
<1>2. CASE Refuse(r)
  BY <1>2 DEF Refuse
<1>3. CASE Create(r)
  BY <1>3 DEF Create
<1>4. CASE CreateFails(r)
  BY <1>4 DEF CreateFails
<1>5. ASSUME NEW wait \in BOOLEAN, Launch(r, wait)
      PROVE  SingleFlight' /\ WorkerHasRequest' /\ DownIsIdle'
  BY <1>5 DEF Launch
<1>6. CASE LaunchFails(r)
  BY <1>6 DEF LaunchFails
<1>7. CASE Respond(r)
  BY <1>7 DEF Respond
<1>8. CASE RespondFails(r)
  BY <1>8 DEF RespondFails
<1> QED
  BY <1>1, <1>2, <1>3, <1>4, <1>5, <1>6, <1>7, <1>8 DEF RequestStep

\* A step of a worker keeps the inductive invariant.
LEMMA WorkerKeepsFlight ==
  ASSUME TypeOK, SingleFlight, WorkerHasRequest, DownIsIdle,
         NEW r \in Request, WorkerStep(r)
  PROVE  SingleFlight' /\ WorkerHasRequest' /\ DownIsIdle'
<1> USE ScanRunnerAssumption DEF TypeOK, SingleFlight, Active, Ended, WorkerHasRequest, DownIsIdle
<1>1. CASE BeginScan(r)
  BY <1>1 DEF BeginScan
<1>2. CASE Raise(r)
  BY <1>2 DEF Raise
<1>3. CASE RefreshIdentity(r)
  BY <1>3 DEF RefreshIdentity
<1>4. CASE RefreshRaises(r)
  BY <1>4 DEF RefreshRaises
<1>5. CASE MarkFailed(r)
  BY <1>5 DEF MarkFailed, InExceptBlock
<1>6. CASE MarkFails(r)
  BY <1>6 DEF MarkFails, InExceptBlock
<1>7. CASE Clear(r)
  BY <1>7 DEF Clear
<1>8. ASSUME NEW status \in FinalStatus, CommitScan(r, status)
      PROVE  SingleFlight' /\ WorkerHasRequest' /\ DownIsIdle'
  BY <1>8 DEF CommitScan
<1> QED
  BY <1>1, <1>2, <1>3, <1>4, <1>5, <1>6, <1>7, <1>8 DEF WorkerStep

\* Every step keeps the inductive invariant.
LEMMA IInvStep ==
  ASSUME IInv, [Next]_vars
  PROVE  IInv'
<1> USE DEF IInv
<1>1. TypeOK' /\ OneRunningRow'
  BY NextType, OneRunningRowStep
<1>2. ASSUME NEW r \in Request, RequestStep(r) \/ WorkerStep(r) PROVE IInv'
  BY <1>1, <1>2, RequestKeepsFlight, WorkerKeepsFlight
<1>3. CASE Crash
  BY <1>1, <1>3, ScanRunnerAssumption
     DEF Crash, TypeOK, SingleFlight, Active, Ended, WorkerHasRequest, DownIsIdle
<1>4. CASE Restart
  BY <1>1, <1>4 DEF Restart, TypeOK, SingleFlight, Active, Ended, WorkerHasRequest, DownIsIdle
<1>5. CASE Reset
  BY <1>1, <1>5 DEF Reset, TypeOK, SingleFlight, Active, Ended, WorkerHasRequest, DownIsIdle
<1>6. CASE UNCHANGED vars
  BY <1>1, <1>6 DEF vars, TypeOK, SingleFlight, Active, Ended, WorkerHasRequest, DownIsIdle
<1> QED
  BY <1>2, <1>3, <1>4, <1>5, <1>6 DEF Next

\* The inductive invariant holds of the specification.
THEOREM IInvHolds == Spec => []IInv
<1>1. Init => IInv
  BY ScanRunnerAssumption
     DEF Init, IInv, TypeOK, RowStatus, RequestState, WorkerState, SingleFlight, Active, Ended,
         OneRunningRow, RunningRows, WorkerHasRequest, DownIsIdle
<1> QED
  BY <1>1, IInvStep, PTL DEF Spec

\* At most one scan is in flight, and it is the one current_scan_id names.
THEOREM OneScanInFlight == Spec => []SingleFlight
BY IInvHolds, PTL DEF IInv

\* The table never shows two running scans.
THEOREM OneScanInTable == Spec => []OneRunningRow
BY IInvHolds, PTL DEF IInv

-------------------------------------------------------------------------------
(***************************************************************************)
(* Outcomes are final.                                                     *)
(***************************************************************************)

\* A step of a worker ends a scan in the table only when it ends it itself.
LEMMA WorkerKeepsUnfinished ==
  ASSUME TypeOK, UnfinishedRow, NEW r \in Request, WorkerStep(r)
  PROVE  UnfinishedRow'
<1> USE DEF TypeOK, UnfinishedRow
<1>1. CASE BeginScan(r)
  BY <1>1 DEF BeginScan
<1>2. CASE Raise(r)
  BY <1>2 DEF Raise
<1>3. CASE RefreshIdentity(r)
  BY <1>3 DEF RefreshIdentity
<1>4. CASE RefreshRaises(r)
  BY <1>4 DEF RefreshRaises
<1>5. CASE MarkFailed(r)
  BY <1>5 DEF MarkFailed, InExceptBlock
<1>6. CASE MarkFails(r)
  BY <1>6 DEF MarkFails, InExceptBlock
<1>7. CASE Clear(r)
  BY <1>7 DEF Clear
<1>8. ASSUME NEW status \in FinalStatus, CommitScan(r, status) PROVE UnfinishedRow'
  BY <1>8 DEF CommitScan
<1> QED
  BY <1>1, <1>2, <1>3, <1>4, <1>5, <1>6, <1>7, <1>8 DEF WorkerStep

\* A step of a request thread ends no scan.
LEMMA RequestKeepsUnfinished ==
  ASSUME TypeOK, UnfinishedRow, NEW r \in Request, RequestStep(r)
  PROVE  UnfinishedRow'
<1> USE DEF TypeOK, UnfinishedRow
<1>1. CASE Create(r)
  BY <1>1 DEF Create, FinalStatus
<1>2. ASSUME NEW wait \in BOOLEAN, Launch(r, wait) PROVE UnfinishedRow'
  BY <1>2 DEF Launch
<1>3. CASE Acquire(r) \/ Refuse(r) \/ CreateFails(r) \/ LaunchFails(r) \/ Respond(r)
           \/ RespondFails(r)
  BY <1>3 DEF Acquire, Refuse, CreateFails, LaunchFails, Respond, RespondFails
<1> QED
  BY <1>1, <1>2, <1>3 DEF RequestStep

\* Every step keeps unfinished scans unfinished in the table.
LEMMA UnfinishedRowStep ==
  ASSUME TypeOK, UnfinishedRow, [Next]_vars
  PROVE  UnfinishedRow'
<1>1. ASSUME NEW r \in Request, RequestStep(r) \/ WorkerStep(r) PROVE UnfinishedRow'
  BY <1>1, RequestKeepsUnfinished, WorkerKeepsUnfinished
<1>2. CASE Crash
  BY <1>2 DEF Crash, TypeOK, UnfinishedRow, Ended
<1>3. CASE Restart
  BY <1>3 DEF Restart, UnfinishedRow
<1>4. CASE Reset
  BY <1>4 DEF Reset, TypeOK, UnfinishedRow, FinalStatus
<1>5. CASE UNCHANGED vars
  BY <1>5 DEF vars, UnfinishedRow
<1> QED
  BY <1>1, <1>2, <1>3, <1>4, <1>5 DEF Next

\* No step overwrites the outcome of a scan.
LEMMA OutcomeStep ==
  ASSUME TypeOK, UnfinishedRow, WorkerHasRequest, [Next]_vars, NEW q \in Request,
         row[q] \in FinalStatus
  PROVE  \/ row'[q] \in {row[q], "deleted"}
         \/ worker[q] = "refresh_raised" /\ row'[q] = "failed"
<1> USE DEF TypeOK
<1>1. ASSUME NEW r \in Request, Create(r) PROVE row'[q] = row[q]
  <2>1. r # q
    BY <1>1 DEF Create, UnfinishedRow, WorkerHasRequest
  <2> QED
    BY <1>1, <2>1 DEF Create
<1>2. ASSUME NEW r \in Request, RequestStep(r), ~Create(r) PROVE UNCHANGED row
  BY <1>2 DEF RequestStep, Acquire, Refuse, CreateFails, Launch, LaunchFails, Respond, RespondFails
<1>3. ASSUME NEW r \in Request, NEW status \in FinalStatus, CommitScan(r, status)
      PROVE  row'[q] = row[q]
  BY <1>3 DEF CommitScan, UnfinishedRow
<1>4. ASSUME NEW r \in Request, MarkFailed(r)
      PROVE  row'[q] = row[q] \/ (worker[q] = "refresh_raised" /\ row'[q] = "failed")
  <2>1. CASE r = q
    <3>1. worker[q] = "refresh_raised" /\ row[q] # "deleted"
      BY <1>4, <2>1 DEF MarkFailed, InExceptBlock, UnfinishedRow, FinalStatus
    <3> QED
      BY <1>4, <2>1, <3>1 DEF MarkFailed
  <2>2. CASE r # q
    BY <1>4, <2>2 DEF MarkFailed
  <2> QED
    BY <2>1, <2>2
<1>5. ASSUME NEW r \in Request, WorkerStep(r), ~MarkFailed(r),
             \A status \in FinalStatus : ~CommitScan(r, status)
      PROVE  UNCHANGED row
  BY <1>5 DEF WorkerStep, BeginScan, Raise, RefreshIdentity, RefreshRaises, MarkFails, Clear
<1>6. CASE Crash \/ Restart
  BY <1>6 DEF Crash, Restart
<1>7. CASE Reset
  BY <1>7 DEF Reset
<1>8. CASE UNCHANGED vars
  BY <1>8 DEF vars
<1> QED
  BY <1>1, <1>2, <1>3, <1>4, <1>5, <1>6, <1>7, <1>8 DEF Next

\* A scan that ended keeps its outcome until a reset removes it, unless the
\* identity refresh raises what is no provider error.
THEOREM OutcomesAreFinal == Spec => FinishedIsFinal
<1> DEFINE Kept == \A r \in Request : row[r] \in FinalStatus =>
                     \/ row'[r] \in {row[r], "deleted"}
                     \/ worker[r] = "refresh_raised" /\ row'[r] = "failed"
<1>1. Init => UnfinishedRow
  BY DEF Init, UnfinishedRow, FinalStatus
<1>2. TypeOK /\ UnfinishedRow /\ [Next]_vars => UnfinishedRow'
  BY UnfinishedRowStep
<1>3. TypeOK /\ UnfinishedRow /\ WorkerHasRequest /\ [Next]_vars => [Kept]_vars
  BY OutcomeStep
<1>4. IInv => TypeOK /\ WorkerHasRequest
  BY DEF IInv
<1> HIDE DEF Kept
<1>5. Spec => [][Kept]_vars
  BY <1>1, <1>2, <1>3, <1>4, IInvHolds, PTL DEF Spec
<1> QED
  BY <1>5 DEF FinishedIsFinal, Kept

-------------------------------------------------------------------------------
(***************************************************************************)
(* A request that waited.                                                  *)
(***************************************************************************)

\* A worker gets past the commit or the except block by ending its scan.
LEMMA WorkerEndsRow ==
  ASSUME TypeOK, EndedRow, NEW r \in Request, WorkerStep(r)
  PROVE  EndedRow'
<1> USE DEF TypeOK, EndedRow
<1>1. CASE BeginScan(r)
  BY <1>1 DEF BeginScan
<1>2. CASE Raise(r)
  BY <1>2 DEF Raise
<1>3. CASE RefreshIdentity(r) \/ RefreshRaises(r)
  BY <1>3 DEF RefreshIdentity, RefreshRaises
<1>4. CASE MarkFailed(r)
  BY <1>4 DEF MarkFailed, InExceptBlock, FinalStatus
<1>5. CASE MarkFails(r)
  BY <1>5 DEF MarkFails, InExceptBlock
<1>6. CASE Clear(r)
  BY <1>6 DEF Clear
<1>7. ASSUME NEW status \in FinalStatus, CommitScan(r, status) PROVE EndedRow'
  BY <1>7 DEF CommitScan
<1> QED
  BY <1>1, <1>2, <1>3, <1>4, <1>5, <1>6, <1>7 DEF WorkerStep

\* A request creates no row where a worker has been.
LEMMA RequestKeepsEnded ==
  ASSUME TypeOK, EndedRow, WorkerHasRequest, NEW r \in Request, RequestStep(r)
  PROVE  EndedRow'
<1> USE DEF TypeOK, EndedRow
<1>1. CASE Create(r)
  <2>1. worker[r] = "none"
    BY <1>1 DEF Create, WorkerHasRequest
  <2> QED
    BY <1>1, <2>1 DEF Create
<1>2. ASSUME NEW wait \in BOOLEAN, Launch(r, wait) PROVE EndedRow'
  BY <1>2 DEF Launch
<1>3. CASE Acquire(r) \/ Refuse(r) \/ CreateFails(r) \/ LaunchFails(r) \/ Respond(r)
           \/ RespondFails(r)
  BY <1>3 DEF Acquire, Refuse, CreateFails, LaunchFails, Respond, RespondFails
<1> QED
  BY <1>1, <1>2, <1>3 DEF RequestStep

\* Every step keeps ended scans ended or deleted.
LEMMA EndedRowStep ==
  ASSUME TypeOK, EndedRow, WorkerHasRequest, [Next]_vars
  PROVE  EndedRow'
<1>1. ASSUME NEW r \in Request, RequestStep(r) \/ WorkerStep(r) PROVE EndedRow'
  BY <1>1, RequestKeepsEnded, WorkerEndsRow
<1>2. CASE Crash
  BY <1>2 DEF Crash, TypeOK, EndedRow, Ended
<1>3. CASE Restart
  BY <1>3 DEF Restart, EndedRow
<1>4. CASE Reset
  BY <1>4 DEF Reset, TypeOK, EndedRow, FinalStatus
<1>5. CASE UNCHANGED vars
  BY <1>5 DEF vars, EndedRow
<1> QED
  BY <1>1, <1>2, <1>3, <1>4, <1>5 DEF Next

\* Only Respond answers, a request that waits only once its worker is done.
LEMMA AnswerStep ==
  ASSUME TypeOK, EndedRow, [Next]_vars, NEW q \in Request,
         request[q] = "inline", request'[q] = "accepted"
  PROVE  row[q] \in FinalStatus
<1> USE DEF TypeOK
<1>1. ASSUME NEW r \in Request, Respond(r) PROVE row[q] \in FinalStatus
  <2>1. r = q
    BY <1>1 DEF Respond
  <2> QED
    BY <1>1, <2>1 DEF Respond, EndedRow
<1>2. ASSUME NEW r \in Request, RequestStep(r), ~Respond(r) PROVE FALSE
  <2>1. ASSUME NEW wait \in BOOLEAN, Launch(r, wait) PROVE FALSE
    BY <2>1 DEF Launch
  <2>2. CASE Acquire(r) \/ Refuse(r) \/ Create(r) \/ CreateFails(r) \/ LaunchFails(r)
             \/ RespondFails(r)
    BY <2>2 DEF Acquire, Refuse, Create, CreateFails, LaunchFails, RespondFails
  <2> QED
    BY <1>2, <2>1, <2>2 DEF RequestStep
<1>3. ASSUME NEW r \in Request, WorkerStep(r) PROVE UNCHANGED request
  BY <1>3 DEF WorkerStep, BeginScan, Raise, RefreshIdentity, RefreshRaises, MarkFailed, MarkFails,
              Clear, CommitScan
<1>4. CASE Crash
  BY <1>4 DEF Crash
<1>5. CASE Restart \/ Reset \/ UNCHANGED vars
  BY <1>5 DEF Restart, Reset, vars
<1> QED
  BY <1>1, <1>2, <1>3, <1>4, <1>5 DEF Next

\* A client that asked to wait is answered with a scan that has ended, however
\* the scan fails and whatever the other requests do meanwhile.
THEOREM WaitedScansAreFinished == Spec => WaitedScanIsFinished
<1> DEFINE Waited == \A r \in Request : request[r] = "inline" /\ request'[r] = "accepted"
                       => row[r] \in FinalStatus
<1>1. Init => EndedRow
  BY DEF Init, EndedRow
<1>2. TypeOK /\ EndedRow /\ WorkerHasRequest /\ [Next]_vars => EndedRow'
  BY EndedRowStep
<1>3. TypeOK /\ EndedRow /\ [Next]_vars => [Waited]_vars
  BY AnswerStep
<1>4. IInv => TypeOK /\ WorkerHasRequest
  BY DEF IInv
<1> HIDE DEF Waited
<1>5. Spec => [][Waited]_vars
  BY <1>1, <1>2, <1>3, <1>4, IInvHolds, PTL DEF Spec
<1> QED
  BY <1>5 DEF WaitedScanIsFinished, Waited

===============================================================================
