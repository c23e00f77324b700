------------------------------ MODULE ScanRunner ------------------------------
(***************************************************************************)
(* Starting and executing scans in the API process                        *)
(* (app/services/scan_runner.py): request threads that create a scan under *)
(* a lock, worker threads that execute it, the scans table they share, and *)
(* the process that may die and be started again with nothing but the      *)
(* table.  `demo reset` empties the table from outside.                    *)
(*                                                                         *)
(* The scan created for a request is named by the request.  What a scan    *)
(* computes is the matter of ScanEngine; here it commits a final status or *)
(* raises.                                                                 *)
(***************************************************************************)
EXTENDS Naturals, FiniteSets

CONSTANTS
  Request,   \* POST /scans requests
  NoScan,    \* current_scan_id is None, the lock is free
  Faults     \* which of "crash", "thread", "database", "identity", "reset" may happen

ASSUME ScanRunnerAssumption ==
  /\ NoScan \notin Request
  /\ Faults \subseteq {"crash", "thread", "database", "identity", "reset"}

VARIABLES
  row,       \* the committed status of each request's scan row
  request,   \* where each request thread is in start()
  worker,    \* where the execution of each scan is in _execute()
  lock,      \* the request or scan whose thread holds the runner's lock
  current,   \* current_scan_id
  up         \* the process is running

vars == <<row, request, worker, lock, current, up>>

\* "completed" stands for completed and partial, which no one tells apart here.
FinalStatus == {"completed", "failed"}
RowStatus == {"absent", "running", "deleted"} \cup FinalStatus
RequestState == {"waiting", "locked", "unlocked", "inline", "launched",
                 "accepted", "conflict", "error", "lost"}
WorkerState == {"none", "starting", "scanning", "refreshing", "failing",
                "refresh_raised", "finished", "raised", "done", "died", "lost"}

TypeOK ==
  /\ row \in [Request -> RowStatus]
  /\ request \in [Request -> RequestState]
  /\ worker \in [Request -> WorkerState]
  /\ lock \in Request \cup {NoScan}
  /\ current \in Request \cup {NoScan}
  /\ up \in BOOLEAN

Init ==
  /\ row = [r \in Request |-> "absent"]
  /\ request = [r \in Request |-> "waiting"]
  /\ worker = [r \in Request |-> "none"]
  /\ lock = NoScan
  /\ current = NoScan
  /\ up = TRUE

-------------------------------------------------------------------------------
(***************************************************************************)
(* start(): the request thread.                                            *)
(***************************************************************************)
RunningRows == {r \in Request : row[r] = "running"}

Acquire(r) ==
  /\ up /\ request[r] = "waiting" /\ lock = NoScan
  /\ lock' = r
  /\ request' = [request EXCEPT ![r] = "locked"]
  /\ UNCHANGED <<row, worker, current, up>>

\* Mutant: the refused request leaves the lock locked.
RefuseKeepsLock(r) ==
  /\ up /\ request[r] = "locked"
  /\ current # NoScan \/ RunningRows # {}
  /\ request' = [request EXCEPT ![r] = "conflict"]
  /\ UNCHANGED <<row, worker, lock, current, up>>

\* A scan is in memory or a running one is in the table: 409.
Refuse(r) ==
  /\ up /\ request[r] = "locked"
  /\ current # NoScan \/ RunningRows # {}
  /\ request' = [request EXCEPT ![r] = "conflict"]
  /\ lock' = NoScan
  /\ UNCHANGED <<row, worker, current, up>>

\* Mutant: only the table is consulted.
CreateByTable(r) ==
  /\ up /\ request[r] = "locked"
  /\ RunningRows = {}
  /\ row' = [row EXCEPT ![r] = "running"]
  /\ current' = r
  /\ lock' = NoScan
  /\ request' = [request EXCEPT ![r] = "unlocked"]
  /\ UNCHANGED <<worker, up>>

\* Mutant: only the memory of the process is consulted.
CreateByMemory(r) ==
  /\ up /\ request[r] = "locked"
  /\ current = NoScan
  /\ row' = [row EXCEPT ![r] = "running"]
  /\ current' = r
  /\ lock' = NoScan
  /\ request' = [request EXCEPT ![r] = "unlocked"]
  /\ UNCHANGED <<worker, up>>

\* The row is committed before current_scan_id is set and the lock released.
Create(r) ==
  /\ up /\ request[r] = "locked"
  /\ current = NoScan /\ RunningRows = {}
  /\ row' = [row EXCEPT ![r] = "running"]
  /\ current' = r
  /\ lock' = NoScan
  /\ request' = [request EXCEPT ![r] = "unlocked"]
  /\ UNCHANGED <<worker, up>>

\* The query or the commit raises: nothing is stored, the lock is released.
CreateFails(r) ==
  /\ "database" \in Faults /\ up /\ request[r] = "locked" /\ current = NoScan
  /\ request' = [request EXCEPT ![r] = "error"]
  /\ lock' = NoScan
  /\ UNCHANGED <<row, worker, current, up>>

\* _execute runs in a new thread; with wait, in the request's own.
Launch(r, wait) ==
  /\ up /\ request[r] = "unlocked" /\ worker[r] = "none"
  /\ worker' = [worker EXCEPT ![r] = "starting"]
  /\ request' = [request EXCEPT ![r] = IF wait THEN "inline" ELSE "launched"]
  /\ UNCHANGED <<row, lock, current, up>>

\* The thread cannot be started: the request fails, the scan stays running.
LaunchFails(r) ==
  /\ "thread" \in Faults /\ up /\ request[r] = "unlocked" /\ worker[r] = "none"
  /\ request' = [request EXCEPT ![r] = "error"]
  /\ UNCHANGED <<row, worker, lock, current, up>>

\* Mutant: the answer does not wait for the inline execution.
RespondAtOnce(r) ==
  /\ up
  /\ request[r] \in {"launched", "inline"}
  /\ row[r] # "deleted"
  /\ request' = [request EXCEPT ![r] = "accepted"]
  /\ UNCHANGED <<row, worker, lock, current, up>>

\* start() reads the row again, with wait after _execute has returned.
Respond(r) ==
  /\ up
  /\ request[r] = "launched" \/ (request[r] = "inline" /\ worker[r] = "done")
  /\ row[r] # "deleted"
  /\ request' = [request EXCEPT ![r] = "accepted"]
  /\ UNCHANGED <<row, worker, lock, current, up>>

\* The row has gone, the database fails, or the inline execution raised.
RespondFails(r) ==
  /\ up
  /\ \/ request[r] = "launched" /\ (row[r] = "deleted" \/ "database" \in Faults)
     \/ /\ request[r] = "inline" /\ worker[r] = "done"
        /\ row[r] = "deleted" \/ "database" \in Faults
     \/ request[r] = "inline" /\ worker[r] = "died"
  /\ request' = [request EXCEPT ![r] = "error"]
  /\ UNCHANGED <<row, worker, lock, current, up>>

-------------------------------------------------------------------------------
(***************************************************************************)
(* _execute(): the worker.                                                 *)
(***************************************************************************)

\* run_scan insists on a row that is still running.
BeginScan(r) ==
  /\ up /\ worker[r] = "starting"
  /\ worker' = [worker EXCEPT ![r] = IF row[r] = "running" THEN "scanning" ELSE "failing"]
  /\ UNCHANGED <<row, request, lock, current, up>>

\* run_scan commits its one transaction; the row must still be there.
CommitScan(r, status) ==
  /\ up /\ worker[r] = "scanning" /\ row[r] = "running"
  /\ row' = [row EXCEPT ![r] = status]
  /\ worker' = [worker EXCEPT ![r] = "refreshing"]
  /\ UNCHANGED <<request, lock, current, up>>

\* Loading settings, building the provider or the scan itself raises.
Raise(r) ==
  /\ up /\ worker[r] \in {"starting", "scanning"}
  /\ worker' = [worker EXCEPT ![r] = "failing"]
  /\ UNCHANGED <<row, request, lock, current, up>>

\* Mutant: a ProviderError of the refresh reaches the except block.
RefreshUncaught(r) ==
  /\ up /\ worker[r] = "refreshing"
  /\ worker' = [worker EXCEPT ![r] = "failing"]
  /\ UNCHANGED <<row, request, lock, current, up>>

\* In live mode the identity is verified again after the scan has committed;
\* a ProviderError is kept in the identity status.
RefreshIdentity(r) ==
  /\ up /\ worker[r] = "refreshing"
  /\ worker' = [worker EXCEPT ![r] = "finished"]
  /\ UNCHANGED <<row, request, lock, current, up>>

\* Any other exception reaches the except block.
RefreshRaises(r) ==
  /\ "identity" \in Faults /\ up /\ worker[r] = "refreshing"
  /\ worker' = [worker EXCEPT ![r] = "refresh_raised"]
  /\ UNCHANGED <<row, request, lock, current, up>>

\* The except block makes no difference between the two.
InExceptBlock(r) == worker[r] \in {"failing", "refresh_raised"}

\* Mutant: the errors are recorded, the status is not.
MarkErrorsOnly(r) ==
  /\ up /\ InExceptBlock(r)
  /\ worker' = [worker EXCEPT ![r] = "finished"]
  /\ UNCHANGED <<row, request, lock, current, up>>

\* Mutant: a status the schema does not know.
MarkUnknown(r) ==
  /\ up /\ InExceptBlock(r)
  /\ row' = [row EXCEPT ![r] = "internal_error"]
  /\ worker' = [worker EXCEPT ![r] = "finished"]
  /\ UNCHANGED <<request, lock, current, up>>

\* The except block records the failure on the row, if it still exists.
MarkFailed(r) ==
  /\ up /\ InExceptBlock(r)
  /\ row' = [row EXCEPT ![r] = IF @ = "deleted" THEN @ ELSE "failed"]
  /\ worker' = [worker EXCEPT ![r] = "finished"]
  /\ UNCHANGED <<request, lock, current, up>>

\* The database is gone: the except block raises as well.
MarkFails(r) ==
  /\ "database" \in Faults /\ up /\ InExceptBlock(r)
  /\ worker' = [worker EXCEPT ![r] = "raised"]
  /\ UNCHANGED <<row, request, lock, current, up>>

\* The finally block, under the lock.
Clear(r) ==
  /\ up /\ worker[r] \in {"finished", "raised"} /\ lock = NoScan
  /\ current' = IF current = r THEN NoScan ELSE current
  /\ worker' = [worker EXCEPT ![r] = IF @ = "finished" THEN "done" ELSE "died"]
  /\ UNCHANGED <<row, request, lock, up>>

-------------------------------------------------------------------------------
(***************************************************************************)
(* The environment.                                                        *)
(***************************************************************************)

Ended(r) == worker[r] \in {"none", "done", "died", "lost"}

\* The process dies: threads, lock and current_scan_id are gone, the committed
\* rows stay, a transaction in progress is rolled back.
Crash ==
  /\ "crash" \in Faults /\ up
  /\ up' = FALSE
  /\ lock' = NoScan
  /\ current' = NoScan
  /\ request' = [r \in Request |->
       IF request[r] \in {"locked", "unlocked", "inline", "launched"}
       THEN "lost" ELSE request[r]]
  /\ worker' = [r \in Request |-> IF Ended(r) THEN worker[r] ELSE "lost"]
  /\ UNCHANGED row

\* lifespan() builds a new runner and looks at no scan.
Restart ==
  /\ ~up
  /\ up' = TRUE
  /\ UNCHANGED <<row, request, worker, lock, current>>

\* `demo reset` deletes every scan.
Reset ==
  /\ "reset" \in Faults
  /\ \E r \in Request : row[r] \notin {"absent", "deleted"}
  /\ row' = [r \in Request |-> IF row[r] = "absent" THEN "absent" ELSE "deleted"]
  /\ UNCHANGED <<request, worker, lock, current, up>>

RequestStep(r) ==
  \/ Acquire(r) \/ Refuse(r) \/ Create(r) \/ CreateFails(r)
  \/ \E wait \in BOOLEAN : Launch(r, wait)
  \/ LaunchFails(r) \/ Respond(r) \/ RespondFails(r)

WorkerStep(r) ==
  \/ BeginScan(r) \/ Raise(r) \/ RefreshIdentity(r) \/ RefreshRaises(r)
  \/ MarkFailed(r) \/ MarkFails(r) \/ Clear(r)
  \/ \E status \in FinalStatus : CommitScan(r, status)

Next ==
  \/ \E r \in Request : RequestStep(r) \/ WorkerStep(r)
  \/ Crash \/ Restart \/ Reset

\* Threads that can run do run: nothing in the process or the database blocks
\* them forever.
Fairness == \A r \in Request : WF_vars(RequestStep(r)) /\ WF_vars(WorkerStep(r))

Spec == Init /\ [][Next]_vars

FairSpec == Spec /\ Fairness

-------------------------------------------------------------------------------
\* The scan holds the process's one slot: from the commit of its row to the
\* finally block of its worker.
Active(r) == up /\ (request[r] = "unlocked" \/ ~Ended(r))

\* Never two scans in progress in the process, and the one in progress is the
\* one current_scan_id names: the lock is released before the worker starts,
\* so only current_scan_id keeps a second scan out.
SingleFlight == \A r \in Request : Active(r) => current = r

\* The table never shows two running scans, across crashes, restarts, resets
\* and failures of the database (the check and the insert are under one lock).
OneRunningRow == \A r, s \in RunningRows : r = s

\* A client that asked to wait is answered with a scan that has ended.
WaitedScanIsFinished ==
  [][\A r \in Request : request[r] = "inline" /\ request'[r] = "accepted"
       => row[r] \in FinalStatus]_vars

\* A scan that ended keeps its status: no later request, no crash and no failure
\* of the scan or of the identity's permissions overwrites a committed outcome;
\* a reset removes it, and an unexpected exception of the refresh after the
\* commit (README, known divergences) is the one thing that turns it into a
\* failure.
FinishedIsFinal ==
  [][\A r \in Request : row[r] \in FinalStatus =>
       \/ row'[r] \in {row[r], "deleted"}
       \/ worker[r] = "refresh_raised" /\ row'[r] = "failed"]_vars

\* docs/api.md, the errors: 409 scan_running means that another scan is active.
ConflictMeansActive ==
  [][\A r \in Request : request[r] # "conflict" /\ request'[r] = "conflict"
       => \E s \in Request \ {r} : Active(s)]_vars

\* What a worker has begun it brings to an end: its row leaves "running", so a
\* client that polls it stops, and the slot is free for the next scan, whatever
\* fails; only with its process, or when the failure cannot be recorded either,
\* is a worker gone before.
ScansEnd ==
  \A r \in Request : ~Ended(r) ~>
    Ended(r) /\ current # r /\ (row[r] = "running" => worker[r] \in {"died", "lost"})

\* Every request is answered, unless the process dies with it.
RequestsAnswered ==
  \A r \in Request : request[r] = "waiting" ~>
    request[r] \in {"accepted", "conflict", "error", "lost"} \/ ~up
===============================================================================
