------------------------- MODULE GuardedScriptsProofs -------------------------
(***************************************************************************)
(* Proofs about GuardedScripts, for any selections, any resources and any  *)
(* changes of the account.                                                 *)
(*                                                                         *)
(* The reports are not inductive alone: that a completed target is a       *)
(* deletion more needs that what was destroyed is gone and stays so, and   *)
(* that only a script of one target aborts after its account was verified. *)
(***************************************************************************)
EXTENDS GuardedScripts, FiniteSetTheorems, TLAPS

\* While a script runs, the targets behind it are counted, and what it
\* destroyed is gone.
Counted ==
  /\ IsFiniteSet(destroyed)
  /\ \A r \in destroyed : live[r] = Gone
  /\ status = "running" =>
       /\ done.completed + done.skipped = at - 1
       /\ done.completed = Cardinality(destroyed)
       /\ step = "account" => at = 1

\* Snapshots are a matter of single scripts, and behind a target's creation
\* and waiting there is none or a complete one.
Snapshots ==
  /\ step \in {"snapshot", "create", "wait"} \/ snapshot # "none" => script.mode = "single"
  /\ status = "running" /\ step \notin {"create", "wait"} => snapshot \in {"none", "complete"}
  /\ SnapshotPrecedesDeletion

\* The inductive invariant.
IInv == TypeOK /\ Counted /\ ReportsAreTrue /\ Snapshots

-------------------------------------------------------------------------------
(***************************************************************************)
(* Types.                                                                  *)
(***************************************************************************)

\* A running script is at one of its targets.
LEMMA TargetType ==
  ASSUME TypeOK, status = "running"
  PROVE  /\ at \in 1 .. Len(script.targets)
         /\ Len(script.targets) \in Nat
         /\ Target \in Resource
         /\ script.mode = "single" => Len(script.targets) = 1
BY DEF TypeOK, Script, Target

\* The conditions a resource meets are conditions.
LEMMA ConditionsType ==
  ASSUME NEW s
  PROVE  Conditions(s) \subseteq Condition
BY DEF Conditions

\* Going on keeps the types.
LEMMA GoOnType ==
  ASSUME TypeOK, NEW n \in Step, GoOn(n)
  PROVE  TypeOK'
BY DEF TypeOK, GoOn

\* So does ending the script.
LEMMA StopType ==
  ASSUME TypeOK, NEW how \in {"aborted", "exited"}, Stop(how)
  PROVE  TypeOK'
BY DEF TypeOK, Stop, Status

\* The next target is one, or the position behind the last.
LEMMA NextTargetType ==
  ASSUME TypeOK, status = "running", NextTarget
  PROVE  /\ script' = script /\ identity' = identity
         /\ at' \in 1 .. Len(script.targets) + 1 /\ step' \in Step
         /\ status' = "running" => at' <= Len(script.targets)
         /\ associated' \in BOOLEAN /\ status' \in Status /\ met' \subseteq Condition
<1>1. /\ at \in 1 .. Len(script.targets)
      /\ Len(script.targets) \in Nat
  BY TargetType
<1>2. met' \subseteq Condition
  BY ConditionsType DEF NextTarget
<1>3. at' \in 1 .. Len(script.targets) + 1
  BY <1>1 DEF NextTarget
<1>4. status' = "running" => at' <= Len(script.targets)
  BY <1>1 DEF NextTarget
<1>5. status' \in Status
  BY DEF NextTarget, Status
<1>6. QED
  BY <1>2, <1>3, <1>4, <1>5 DEF NextTarget, Step

\* A skipped target is counted.
LEMMA SkipType ==
  ASSUME TypeOK, status = "running", Skip
  PROVE  TypeOK'
<1>1. done' \in [completed : Nat, skipped : Nat]
  BY DEF Skip, TypeOK
<1>2. NextTarget
  BY DEF Skip
<1>3. QED
  BY <1>1, <1>2, NextTargetType DEF Skip, TypeOK

\* Rejecting a target ends a single script and skips in a bulk one.
LEMMA RejectType ==
  ASSUME TypeOK, status = "running", Reject
  PROVE  TypeOK'
BY StopType, SkipType DEF Reject

\* Destroying the target keeps the types.
LEMMA DestroyType ==
  ASSUME TypeOK, Destroy \/ DestroyFails
  PROVE  TypeOK'
<1>1. status = "running" /\ Target \in Resource
  BY TargetType DEF Destroy, DestroyFails, At
<1>2. ASSUME Removed
      PROVE  live' \in [Resource -> State \cup {Gone}] /\ destroyed' \subseteq Resource
  BY <1>1, <1>2 DEF TypeOK, Removed
<1>3. CASE Destroy
  <2>1. done' \in [completed : Nat, skipped : Nat]
    BY <1>3 DEF Destroy, TypeOK
  <2>2. NextTarget /\ Removed /\ snapshot' = snapshot
    BY <1>3 DEF Destroy
  <2>3. QED
    BY <1>1, <1>2, <2>1, <2>2, NextTargetType DEF TypeOK
<1>4. CASE DestroyFails
  <2>1. live' \in [Resource -> State \cup {Gone}] /\ destroyed' \subseteq Resource
    BY <1>2, <1>4 DEF DestroyFails, TypeOK
  <2>2. QED
    BY <1>4, <2>1 DEF DestroyFails, TypeOK, Status
<1>5. QED
  BY <1>3, <1>4

\* Every step of a script keeps the types.
LEMMA RunType ==
  ASSUME TypeOK, Run
  PROVE  TypeOK'
<1>1. CASE VerifyAccount
  BY <1>1, ConditionsType DEF VerifyAccount, TypeOK, Step
<1>2. CASE RefuseAccount
  BY <1>2, StopType DEF RefuseAccount
<1>3. CASE ReadState
  <2>1. ASSUME Target \notin Volume, associated' = live[Target].busy, step' = "usage",
               UNCHANGED <<script, identity, live, at, snapshot, done, status, destroyed, met>>
        PROVE  TypeOK'
    <3>1. live[Target] \in State
      BY <1>3, TargetType DEF ReadState, At, Exists, TypeOK
    <3>2. live[Target].busy \in BOOLEAN
      BY <3>1 DEF State
    <3>3. QED
      BY <2>1, <3>2 DEF TypeOK, Step
  <2>2. QED
    BY <1>3, <2>1, RejectType, GoOnType DEF ReadState, At, Step
<1>4. CASE StateFails
  BY <1>4, RejectType DEF StateFails, At
<1>5. CASE ReadUsage
  BY <1>5, RejectType, GoOnType DEF ReadUsage, At, Step
<1>6. CASE UsageFails
  BY <1>6, StopType DEF UsageFails
<1>7. CASE ReadIgnoreTag
  BY <1>7, RejectType, GoOnType DEF ReadIgnoreTag, At, Step
<1>8. CASE ReadStackTag
  BY <1>8, RejectType, GoOnType DEF ReadStackTag, At, Step
<1>9. CASE TagsFail
  BY <1>9, StopType, GoOnType DEF TagsFail, Step
<1>10. CASE Show
  BY <1>10, GoOnType DEF Show, Step
<1>11. CASE ShowFails
  BY <1>11, StopType DEF ShowFails
<1>12. CASE OfferSnapshot
  <2>1. ASSUME snapshot' = "wanted", step' = "create",
               UNCHANGED <<script, identity, live, at, associated, done, status, destroyed, met>>
        PROVE  TypeOK'
    BY <2>1 DEF TypeOK, Step
  <2>2. QED
    BY <1>12, <2>1, StopType, GoOnType DEF OfferSnapshot, Step
<1>13. CASE CreateSnapshot
  BY <1>13 DEF CreateSnapshot, TypeOK, Step
<1>14. CASE CreateFails
  BY <1>14, StopType DEF CreateFails
<1>15. CASE WaitSnapshot
  BY <1>15 DEF WaitSnapshot, TypeOK, Step
<1>16. CASE WaitFails
  BY <1>16, StopType DEF WaitFails
<1>17. CASE Confirm
  BY <1>17, StopType, RejectType, GoOnType DEF Confirm, At, Step
<1>18. CASE Destroy \/ DestroyFails
  BY <1>18, DestroyType
<1>19. QED
  BY <1>1, <1>2, <1>3, <1>4, <1>5, <1>6, <1>7, <1>8, <1>9, <1>10, <1>11, <1>12, <1>13,
     <1>14, <1>15, <1>16, <1>17, <1>18 DEF Run

\* The others change one resource.
LEMMA ChangeType ==
  ASSUME TypeOK, NEW r \in Resource, NEW s \in State \cup {Gone}, Change(r, s)
  PROVE  TypeOK'
BY ConditionsType DEF Change, TypeOK, local

\* Every step keeps the types.
LEMMA NextType ==
  ASSUME TypeOK, [Next]_vars
  PROVE  TypeOK'
<1>1. CASE UNCHANGED vars
  BY <1>1 DEF vars, local, TypeOK
<1>2. QED
  BY <1>1, RunType, ChangeType DEF Next

\* Initially a script of the selection stands at its first target.
LEMMA InitType == Init => TypeOK
<1> SUFFICES ASSUME Init PROVE TypeOK
  OBVIOUS
<1>1. script \in Script
  BY ScriptsAssumption DEF Init
<1>2. Len(script.targets) \in Nat /\ Len(script.targets) >= 1
  BY <1>1 DEF Script
<1>3. live \in [Resource -> State \cup {Gone}]
  BY DEF Init
<1>4. at \in 1 .. Len(script.targets) + 1 /\ at <= Len(script.targets)
  BY <1>2 DEF Init
<1>5. done \in [completed : Nat, skipped : Nat]
  BY DEF Init
<1>6. QED
  BY <1>1, <1>3, <1>4, <1>5 DEF Init, TypeOK, Step, Status

\* TypeOK holds of every script (app/remediation/scripts).
THEOREM TypeCorrect == Spec => []TypeOK
<1>1. QED
  BY InitType, NextType, PTL DEF Spec

-------------------------------------------------------------------------------
(***************************************************************************)
(* What scripts report, and snapshots.                                     *)
(***************************************************************************)

\* At its first target a script has destroyed nothing.
LEMMA NothingDestroyed ==
  ASSUME IInv, status = "running", at = 1
  PROVE  destroyed = {}
<1>1. done.completed \in Nat /\ done.skipped \in Nat
  BY DEF IInv, TypeOK
<1>2. done.completed = 0
  BY <1>1 DEF IInv, Counted
<1>3. Cardinality(destroyed) = 0 /\ IsFiniteSet(destroyed)
  BY <1>2 DEF IInv, Counted
<1>4. QED
  BY <1>3, FS_EmptySet

\* A single script has destroyed nothing while it runs.
LEMMA SingleDestroyedNothing ==
  ASSUME IInv, status = "running", script.mode = "single"
  PROVE  at = 1 /\ destroyed = {}
<1>1. at \in 1 .. Len(script.targets) /\ Len(script.targets) = 1
  BY TargetType DEF IInv
<1>2. at = 1
  BY <1>1
<1>3. QED
  BY <1>2, NothingDestroyed

\* Going on to a question that a script of this mode asks.
LEMMA GoOnKeeps ==
  ASSUME IInv, status = "running", NEW n \in Step \ {"account", "create", "wait"},
         n = "snapshot" => script.mode = "single",
         snapshot \in {"none", "complete"}, GoOn(n)
  PROVE  Counted' /\ ReportsAreTrue' /\ Snapshots'
<1>1. Counted'
  BY DEF GoOn, IInv, Counted
<1>2. ReportsAreTrue'
  BY DEF GoOn, IInv, ReportsAreTrue
<1>3. Snapshots'
  BY DEF GoOn, IInv, Snapshots, SnapshotPrecedesDeletion
<1>4. QED
  BY <1>1, <1>2, <1>3

\* Ending a script, with ABORTED only where nothing was destroyed.
LEMMA StopKeeps ==
  ASSUME IInv, NEW how \in {"aborted", "exited"}, how = "aborted" => destroyed = {}, Stop(how)
  PROVE  Counted' /\ ReportsAreTrue' /\ Snapshots'
<1>1. Counted'
  BY DEF Stop, IInv, Counted
<1>2. ReportsAreTrue'
  BY DEF Stop, IInv, ReportsAreTrue
<1>3. Snapshots'
  BY DEF Stop, IInv, Snapshots, SnapshotPrecedesDeletion
<1>4. QED
  BY <1>1, <1>2, <1>3

\* A skipped target of a bulk script is counted.
LEMMA SkipKeeps ==
  ASSUME IInv, status = "running", script.mode = "bulk", Skip
  PROVE  Counted' /\ ReportsAreTrue' /\ Snapshots'
<1>1. at \in 1 .. Len(script.targets) /\ Len(script.targets) \in Nat
  BY TargetType DEF IInv
<1>2. done.completed \in Nat /\ done.skipped \in Nat /\ done \in [completed : Nat, skipped : Nat]
  BY DEF IInv, TypeOK
<1>3. done'.completed = done.completed /\ done'.skipped = done.skipped + 1
  BY <1>2 DEF Skip
<1>4. /\ done.completed + done.skipped = at - 1
      /\ done.completed = Cardinality(destroyed)
  BY DEF IInv, Counted
<1>5. /\ script' = script /\ destroyed' = destroyed /\ live' = live /\ snapshot' = snapshot
      /\ at' = at + 1 /\ step' = "state"
      /\ status' = IF at = Len(script.targets) THEN "finished" ELSE "running"
  BY DEF Skip, NextTarget
<1>6. done'.completed + done'.skipped = at' - 1 /\ done'.completed = Cardinality(destroyed')
  BY <1>1, <1>2, <1>3, <1>4, <1>5
<1>7. Counted'
  BY <1>5, <1>6 DEF IInv, Counted
<1>8. ReportsAreTrue'
  <2>1. status' = "finished" => done'.completed + done'.skipped = Len(script'.targets)
    BY <1>1, <1>2, <1>3, <1>4, <1>5
  <2>2. status' # "aborted" /\ script'.mode # "single"
    BY <1>5
  <2>3. QED
    BY <1>6, <2>1, <2>2 DEF ReportsAreTrue
<1>9. Snapshots'
  BY <1>5 DEF IInv, Snapshots, SnapshotPrecedesDeletion
<1>10. QED
  BY <1>7, <1>8, <1>9

\* Rejecting a target, by either.
LEMMA RejectKeeps ==
  ASSUME IInv, status = "running", Reject
  PROVE  Counted' /\ ReportsAreTrue' /\ Snapshots'
BY SingleDestroyedNothing, StopKeeps, SkipKeeps DEF Reject

\* A resource that is destroyed existed and was not destroyed before.
LEMMA RemovedCounts ==
  ASSUME IInv, status = "running", Exists(Target), Removed
  PROVE  /\ IsFiniteSet(destroyed')
         /\ Cardinality(destroyed') = Cardinality(destroyed) + 1
         /\ \A r \in destroyed' : live'[r] = Gone
<1>1. Target \in Resource /\ live \in [Resource -> State \cup {Gone}] /\ destroyed \subseteq Resource
  BY TargetType DEF IInv, TypeOK
<1>2. IsFiniteSet(destroyed) /\ \A r \in destroyed : live[r] = Gone
  BY DEF IInv, Counted
<1>3. Target \notin destroyed
  BY <1>2 DEF Exists
<1>4. destroyed' = destroyed \cup {Target} /\ live' = [live EXCEPT ![Target] = Gone]
  BY DEF Removed
<1>5. IsFiniteSet(destroyed') /\ Cardinality(destroyed') = Cardinality(destroyed) + 1
  BY <1>2, <1>3, <1>4, FS_AddElement
<1>6. \A r \in destroyed' : live'[r] = Gone
  BY <1>1, <1>2, <1>4
<1>7. QED
  BY <1>5, <1>6

\* A completed target is one deletion more.
LEMMA DestroyKeeps ==
  ASSUME IInv, Destroy
  PROVE  Counted' /\ ReportsAreTrue' /\ Snapshots'
<1>1. /\ status = "running" /\ step = "destroy" /\ Exists(Target) /\ Removed /\ NextTarget
      /\ snapshot' = snapshot
  BY DEF Destroy, At
<1>2. /\ at \in 1 .. Len(script.targets) /\ Len(script.targets) \in Nat
      /\ script.mode = "single" => Len(script.targets) = 1
  BY <1>1, TargetType DEF IInv
<1>3. done.completed \in Nat /\ done.skipped \in Nat /\ done \in [completed : Nat, skipped : Nat]
  BY DEF IInv, TypeOK
<1>4. done'.completed = done.completed + 1 /\ done'.skipped = done.skipped
  BY <1>3 DEF Destroy
<1>5. /\ done.completed + done.skipped = at - 1
      /\ done.completed = Cardinality(destroyed)
  BY <1>1 DEF IInv, Counted
<1>6. /\ script' = script /\ at' = at + 1 /\ step' = "state"
      /\ status' = IF at = Len(script.targets) THEN "finished" ELSE "running"
  BY <1>1 DEF NextTarget
<1>7. /\ IsFiniteSet(destroyed')
      /\ Cardinality(destroyed') = Cardinality(destroyed) + 1
      /\ \A r \in destroyed' : live'[r] = Gone
  BY <1>1, RemovedCounts
<1>8. done'.completed + done'.skipped = at' - 1 /\ done'.completed = Cardinality(destroyed')
  BY <1>2, <1>3, <1>4, <1>5, <1>6, <1>7
<1>9. Counted'
  BY <1>6, <1>7, <1>8 DEF Counted
<1>10. ReportsAreTrue'
  <2>1. status' = "finished" => done'.completed + done'.skipped = Len(script'.targets)
    BY <1>2, <1>3, <1>4, <1>5, <1>6
  <2>2. script'.mode = "single" => destroyed' = {script'.targets[1]}
    BY <1>1, <1>6, SingleDestroyedNothing DEF Removed, Target
  <2>3. QED
    BY <1>6, <1>8, <2>1, <2>2 DEF ReportsAreTrue
<1>11. Snapshots'
  BY <1>1, <1>6 DEF IInv, Snapshots, SnapshotPrecedesDeletion
<1>12. QED
  BY <1>9, <1>10, <1>11

\* A deletion whose answer is an error, or lost, ends the script.
LEMMA DestroyFailsKeeps ==
  ASSUME IInv, DestroyFails
  PROVE  Counted' /\ ReportsAreTrue' /\ Snapshots'
<1>1. /\ status = "running" /\ step = "destroy" /\ status' = "exited"
      /\ UNCHANGED <<script, step, snapshot>>
  BY DEF DestroyFails, At
<1>2. IsFiniteSet(destroyed') /\ \A r \in destroyed' : live'[r] = Gone
  BY <1>1, RemovedCounts DEF DestroyFails, IInv, Counted
<1>3. Counted' /\ ReportsAreTrue'
  BY <1>1, <1>2 DEF Counted, ReportsAreTrue
<1>4. Snapshots'
  BY <1>1 DEF IInv, Snapshots, SnapshotPrecedesDeletion
<1>5. QED
  BY <1>3, <1>4

\* The others change what exists, so never what a script destroyed.
LEMMA ChangeKeeps ==
  ASSUME IInv, NEW r \in Resource, NEW s \in State \cup {Gone}, Change(r, s)
  PROVE  Counted' /\ ReportsAreTrue' /\ Snapshots'
<1>1. \A q \in destroyed : live'[q] = Gone
  BY DEF Change, Exists, IInv, TypeOK, Counted
<1>2. QED
  BY <1>1 DEF Change, local, IInv, Counted, ReportsAreTrue, Snapshots, SnapshotPrecedesDeletion

\* Every step of a script keeps its counters and snapshots right.
LEMMA RunKeeps ==
  ASSUME IInv, Run
  PROVE  Counted' /\ ReportsAreTrue' /\ Snapshots'
<1> USE DEF At
<1>a. ASSUME status = "running", step \notin {"create", "wait"}
      PROVE  snapshot \in {"none", "complete"}
  BY <1>a DEF IInv, Snapshots
<1>b. script.mode \in {"single", "bulk"}
  BY DEF IInv, TypeOK, Script, Mode
<1>1. CASE VerifyAccount
  <2>1. Counted' /\ ReportsAreTrue'
    BY <1>1 DEF VerifyAccount, IInv, Counted, ReportsAreTrue
  <2>2. Snapshots'
    BY <1>1 DEF VerifyAccount, IInv, Snapshots, SnapshotPrecedesDeletion
  <2>3. QED
    BY <2>1, <2>2
<1>2. CASE RefuseAccount
  <2>1. at = 1
    BY <1>2 DEF RefuseAccount, IInv, Counted
  <2>2. QED
    BY <1>2, <2>1, NothingDestroyed, StopKeeps DEF RefuseAccount
<1>3. CASE ReadState
  <2>1. ASSUME step = "state", status = "running", step' = "usage",
               UNCHANGED <<script, identity, live, at, snapshot, done, status, destroyed, met>>
        PROVE  Counted' /\ ReportsAreTrue' /\ Snapshots'
    BY <2>1 DEF IInv, Counted, ReportsAreTrue, Snapshots, SnapshotPrecedesDeletion
  <2>2. QED
    BY <1>3, <1>a, <2>1, RejectKeeps, GoOnKeeps DEF ReadState, Step
<1>4. CASE StateFails
  BY <1>4, RejectKeeps DEF StateFails
<1>5. CASE ReadUsage
  BY <1>5, <1>a, RejectKeeps, GoOnKeeps DEF ReadUsage, Step
<1>6. CASE UsageFails
  BY <1>6, StopKeeps DEF UsageFails
<1>7. CASE ReadIgnoreTag
  BY <1>7, <1>a, RejectKeeps, GoOnKeeps DEF ReadIgnoreTag, Step
<1>8. CASE ReadStackTag
  BY <1>8, <1>a, RejectKeeps, GoOnKeeps DEF ReadStackTag, Step
<1>9. CASE TagsFail
  BY <1>9, <1>a, StopKeeps, GoOnKeeps DEF TagsFail, Step
<1>10. CASE Show
  BY <1>10, <1>a, GoOnKeeps DEF Show, Step
<1>11. CASE ShowFails
  BY <1>11, StopKeeps DEF ShowFails
<1>12. CASE OfferSnapshot
  <2>1. ASSUME step = "snapshot", status = "running", snapshot' = "wanted", step' = "create",
               UNCHANGED <<script, identity, live, at, associated, done, status, destroyed, met>>
        PROVE  Counted' /\ ReportsAreTrue' /\ Snapshots'
    <3>1. script.mode = "single"
      BY <2>1 DEF IInv, Snapshots
    <3>2. destroyed = {}
      BY <2>1, <3>1, SingleDestroyedNothing
    <3>3. QED
      BY <2>1, <3>1, <3>2 DEF IInv, Counted, ReportsAreTrue, Snapshots, SnapshotPrecedesDeletion
  <2>2. QED
    BY <1>12, <1>a, <2>1, StopKeeps, GoOnKeeps DEF OfferSnapshot, Step
<1>13. CASE CreateSnapshot
  <2>1. script.mode = "single" /\ status = "running"
    BY <1>13 DEF CreateSnapshot, IInv, Snapshots
  <2>2. destroyed = {}
    BY <2>1, SingleDestroyedNothing
  <2>3. QED
    BY <1>13, <2>1, <2>2
    DEF CreateSnapshot, IInv, Counted, ReportsAreTrue, Snapshots, SnapshotPrecedesDeletion
<1>14. CASE CreateFails
  <2>1. script.mode = "single" /\ status = "running"
    BY <1>14 DEF CreateFails, IInv, Snapshots
  <2>2. QED
    BY <1>14, <2>1, SingleDestroyedNothing, StopKeeps DEF CreateFails
<1>15. CASE WaitSnapshot
  <2>1. script.mode = "single" /\ status = "running"
    BY <1>15 DEF WaitSnapshot, IInv, Snapshots
  <2>2. QED
    BY <1>15, <2>1
    DEF WaitSnapshot, IInv, Counted, ReportsAreTrue, Snapshots, SnapshotPrecedesDeletion
<1>16. CASE WaitFails
  <2>1. script.mode = "single" /\ status = "running"
    BY <1>16 DEF WaitFails, IInv, Snapshots
  <2>2. QED
    BY <1>16, <2>1, SingleDestroyedNothing, StopKeeps DEF WaitFails
<1>17. CASE Confirm
  BY <1>17, <1>a, StopKeeps, RejectKeeps, GoOnKeeps DEF Confirm, Step
<1>18. CASE Destroy \/ DestroyFails
  BY <1>18, DestroyKeeps, DestroyFailsKeeps
<1>19. QED
  BY <1>1, <1>2, <1>3, <1>4, <1>5, <1>6, <1>7, <1>8, <1>9, <1>10, <1>11, <1>12, <1>13,
     <1>14, <1>15, <1>16, <1>17, <1>18 DEF Run

\* The inductive invariant holds.
THEOREM IInvHolds == Spec => []IInv
<1>1. Init => IInv
  <2> SUFFICES ASSUME Init PROVE IInv
    OBVIOUS
  <2>1. IsFiniteSet(destroyed) /\ Cardinality(destroyed) = 0 /\ destroyed = {}
    BY FS_EmptySet DEF Init
  <2>2. Counted
    BY <2>1 DEF Init, Counted
  <2>3. QED
    BY <2>2, InitType DEF Init, IInv, ReportsAreTrue, Snapshots, SnapshotPrecedesDeletion
<1>2. IInv /\ [Next]_vars => IInv'
  <2> SUFFICES ASSUME IInv, [Next]_vars PROVE IInv'
    OBVIOUS
  <2>1. TypeOK'
    BY NextType DEF IInv
  <2>2. CASE UNCHANGED vars
    BY <2>1, <2>2
    DEF vars, local, IInv, Counted, ReportsAreTrue, Snapshots, SnapshotPrecedesDeletion
  <2>3. QED
    BY <2>1, <2>2, RunKeeps, ChangeKeeps DEF Next, IInv
<1>3. QED
  BY <1>1, <1>2, PTL DEF Spec

\* The summary of a script, ABORTED and the number of targets completed tell
\* what happened (bulk_summary and abort, app/remediation/scripts/templates.py).
THEOREM ReportsTrue == Spec => []ReportsAreTrue
<1>1. IInv => ReportsAreTrue
  BY DEF IInv
<1>2. QED
  BY <1>1, IInvHolds, PTL

\* A wanted snapshot is complete before the volume is destroyed
\* (offer_snapshot, app/remediation/scripts/templates.py).
THEOREM SnapshotFirst == Spec => []SnapshotPrecedesDeletion
<1>1. IInv => SnapshotPrecedesDeletion
  BY DEF IInv, Snapshots
<1>2. QED
  BY <1>1, IInvHolds, PTL

-------------------------------------------------------------------------------
(***************************************************************************)
(* The runtime guards, unless reading a tag fails unnoticed.               *)
(***************************************************************************)

\* What the guards before a step have established of an existing target.
Passed(n) ==
  CASE n \in {"state", "usage"} -> {"exists"}
    [] n = "ignore"             -> {"exists", "free"}
    [] n = "stack"              -> {"exists", "free", "unignored"}
    [] OTHER                    -> Condition

\* The target, if it is still there, has met the conditions it meets now and
\* those behind it.
Judged ==
  Processing /\ Exists(Target) =>
    Conditions(live[Target]) \cup Passed(step) \subseteq met

\* What exists meets the condition to exist.
LEMMA ExistingMeets ==
  ASSUME NEW s, s # Gone
  PROVE  "exists" \in Conditions(s)
BY DEF Conditions, Condition

\* Going on past a guard that the target has passed.
LEMMA GoOnJudged ==
  ASSUME Judged, Processing, NEW n, n # "account", GoOn(n),
         Exists(Target) => Passed(n) \subseteq met
  PROVE  Judged'
<1>1. UNCHANGED <<script, live, at, status, met>> /\ step' = n
  BY DEF GoOn
<1>2. QED
  BY <1>1 DEF Judged, Processing, Target, Exists

\* A script that has ended judges nothing.
LEMMA StopJudged ==
  ASSUME NEW how, how # "running", Stop(how)
  PROVE  Judged'
BY DEF Stop, Judged, Processing

\* The processing of the next target starts with what it meets.
LEMMA NextTargetJudged ==
  ASSUME NextTarget
  PROVE  Judged'
<1> SUFFICES ASSUME Processing', Exists(Target)'
             PROVE  (Conditions(live[Target]) \cup Passed(step))' \subseteq met'
  BY DEF Judged
<1>1. /\ status' = "running" /\ at' = at + 1 /\ script' = script /\ step' = "state"
      /\ met' = Conditions(live'[script.targets[at + 1]])
  BY DEF NextTarget, Processing
<1>2. Target' = script.targets[at + 1]
  BY <1>1 DEF Target
<1>3. met' = Conditions(live[Target])' /\ live'[Target'] # Gone
  BY <1>1, <1>2 DEF Exists, Conditions
<1>4. "exists" \in met'
  BY <1>1, <1>2, <1>3, ExistingMeets
<1>5. Passed(step)' = {"exists"}
  BY <1>1 DEF Passed
<1>6. QED
  BY <1>3, <1>4, <1>5

\* Rejecting a target ends the script or turns to the next one.
LEMMA RejectJudged ==
  ASSUME Reject
  PROVE  Judged'
BY StopJudged, NextTargetJudged DEF Reject, Skip

\* The steps of a script, provided that no failing read of a tag goes unnoticed.
LEMMA RunJudged ==
  ASSUME TypeOK, Judged, Run, "tags" \notin Faults
  PROVE  Judged'
<1> USE DEF At, Processing
<1>a. ASSUME Processing, Exists(Target)
      PROVE  "exists" \in met /\ Conditions(live[Target]) \subseteq met /\ Passed(step) \subseteq met
  BY <1>a, ExistingMeets DEF Judged, Exists
<1>1. CASE VerifyAccount
  <2>1. UNCHANGED <<script, live, at>> /\ step' = "state" /\ met' = Conditions(live[Target])
    BY <1>1 DEF VerifyAccount
  <2>2. Exists(Target) => "exists" \in met'
    BY <2>1, ExistingMeets DEF Exists
  <2>3. Passed(step') = {"exists"}
    BY <2>1 DEF Passed
  <2>4. QED
    BY <2>1, <2>2, <2>3 DEF Judged, Target, Exists
<1>2. CASE RefuseAccount
  BY <1>2, StopJudged DEF RefuseAccount
<1>3. CASE ReadState
  <2>1. Processing /\ Exists(Target) /\ "exists" \in met
    BY <1>3, <1>a DEF ReadState
  <2>2. Passed("usage") \subseteq met
    BY <2>1 DEF Passed
  <2>3. ASSUME step' = "usage",
               UNCHANGED <<script, identity, live, at, snapshot, done, status, destroyed, met>>
        PROVE  Judged'
    BY <2>1, <2>2, <2>3, <1>a DEF Judged, Target, Exists
  <2>4. QED
    BY <1>3, <2>1, <2>2, <2>3, RejectJudged, GoOnJudged DEF ReadState
<1>4. CASE StateFails
  BY <1>4, RejectJudged DEF StateFails
<1>5. CASE ReadUsage
  <2>1. Processing /\ Exists(Target) /\ "exists" \in met /\ Conditions(live[Target]) \subseteq met
    BY <1>5, <1>a DEF ReadUsage
  <2>2. ~live[Target].busy => "free" \in met
    BY <2>1 DEF Conditions, Condition, Exists
  <2>3. ~live[Target].busy => Passed("ignore") \subseteq met
    BY <2>1, <2>2 DEF Passed
  <2>4. QED
    BY <1>5, <2>1, <2>3, RejectJudged, GoOnJudged DEF ReadUsage
<1>6. CASE UsageFails
  BY <1>6, StopJudged DEF UsageFails
<1>7. CASE ReadIgnoreTag
  <2>1. /\ Processing /\ step = "ignore" /\ Exists(Target)
        /\ Conditions(live[Target]) \subseteq met /\ Passed(step) \subseteq met
    BY <1>7, <1>a DEF ReadIgnoreTag
  <2>2. ~live[Target].ignored => "unignored" \in met
    BY <2>1 DEF Conditions, Condition, Exists
  <2>3. ~live[Target].ignored => Passed("stack") \subseteq met
    BY <2>1, <2>2 DEF Passed
  <2>4. QED
    BY <1>7, <2>1, <2>3, RejectJudged, GoOnJudged DEF ReadIgnoreTag
<1>8. CASE ReadStackTag
  <2>1. /\ Processing /\ step = "stack" /\ Exists(Target)
        /\ Conditions(live[Target]) \subseteq met /\ Passed(step) \subseteq met
    BY <1>8, <1>a DEF ReadStackTag
  <2>2. ~live[Target].stacked => "unstacked" \in met
    BY <2>1 DEF Conditions, Condition, Exists
  <2>3. ~live[Target].stacked => Passed("show") \subseteq met
    BY <2>1, <2>2 DEF Passed, Condition
  <2>4. QED
    BY <1>8, <2>1, <2>3, RejectJudged, GoOnJudged DEF ReadStackTag
<1>9. CASE TagsFail
  <2>1. CASE script.mode = "single" /\ Stop("exited")
    BY <2>1, StopJudged
  <2>2. CASE script.mode = "bulk"
    BY <1>9, <2>2, GoOnJudged, StopJudged DEF TagsFail, CallFails
  <2>3. QED
    BY <1>9, <2>1, <2>2 DEF TagsFail
<1>10. CASE Show
  <2>1. Processing /\ Exists(Target) /\ step = "show"
    BY <1>10 DEF Show
  <2>2. Condition \subseteq met
    BY <1>a, <2>1 DEF Passed
  <2>3. Passed("snapshot") \subseteq met /\ Passed("confirm") \subseteq met
    BY <2>2 DEF Passed
  <2>4. QED
    BY <1>10, <2>1, <2>3, GoOnJudged DEF Show
<1>11. CASE ShowFails
  BY <1>11, StopJudged DEF ShowFails
<1>12. ASSUME step \in {"snapshot", "create", "wait", "confirm"}, Processing,
              step' \in {"create", "wait", "confirm", "destroy"},
              UNCHANGED <<script, live, at, status, met>>
       PROVE  Judged'
  <2>1. Passed(step) = Condition /\ Passed(step') = Condition
    BY <1>12 DEF Passed
  <2>2. QED
    BY <1>12, <2>1 DEF Judged, Target, Exists
<1>13. CASE OfferSnapshot
  BY <1>12, <1>13, StopJudged DEF OfferSnapshot, GoOn
<1>14. CASE CreateSnapshot
  BY <1>12, <1>14 DEF CreateSnapshot
<1>15. CASE CreateFails
  BY <1>15, StopJudged DEF CreateFails
<1>16. CASE WaitSnapshot
  BY <1>12, <1>16 DEF WaitSnapshot
<1>17. CASE WaitFails
  BY <1>17, StopJudged DEF WaitFails
<1>18. CASE Confirm
  BY <1>12, <1>18, StopJudged, RejectJudged DEF Confirm, GoOn
<1>19. CASE Destroy
  BY <1>19, NextTargetJudged DEF Destroy
<1>20. CASE DestroyFails
  BY <1>20 DEF DestroyFails, Judged
<1>21. QED
  BY <1>1, <1>2, <1>3, <1>4, <1>5, <1>6, <1>7, <1>8, <1>9, <1>10, <1>11, <1>13,
     <1>14, <1>15, <1>16, <1>17, <1>18, <1>19, <1>20 DEF Run

\* The others' changes of the target are met as they happen.
LEMMA ChangeJudged ==
  ASSUME TypeOK, Judged, NEW r \in Resource, NEW s \in State \cup {Gone}, Change(r, s)
  PROVE  Judged'
<1> SUFFICES ASSUME Processing', Exists(Target)'
             PROVE  (Conditions(live[Target]) \cup Passed(step))' \subseteq met'
  BY DEF Judged
<1>1. UNCHANGED <<script, at, step, status>> /\ live' = [live EXCEPT ![r] = s]
  BY DEF Change, local
<1>2. Processing /\ Target' = Target /\ Passed(step)' = Passed(step)
  BY <1>1 DEF Processing, Target, Passed
<1>3. Target \in Resource
  BY <1>2, TargetType DEF Processing
<1>4. CASE r = Target
  <2>1. Exists(Target) /\ met' = met \cup Conditions(s)
    BY <1>2, <1>4 DEF Change
  <2>2. live'[Target'] = s
    BY <1>1, <1>2, <1>3, <1>4 DEF TypeOK
  <2>3. Conditions(live[Target])' = Conditions(s)
    BY <2>2 DEF Conditions
  <2>4. Passed(step) \subseteq met
    BY <1>2, <2>1 DEF Judged
  <2>5. QED
    BY <1>2, <2>1, <2>3, <2>4
<1>5. CASE r # Target
  <2>1. live'[Target'] = live[Target] /\ met' = met
    BY <1>1, <1>2, <1>3, <1>5 DEF Change, TypeOK
  <2>2. Exists(Target) /\ Conditions(live[Target])' = Conditions(live[Target])
    BY <2>1 DEF Exists, Conditions
  <2>3. QED
    BY <1>2, <2>1, <2>2 DEF Judged
<1>6. QED
  BY <1>4, <1>5

\* A target is destroyed only behind all of its guards.
LEMMA DestroyingIsJudged ==
  ASSUME TypeOK, Judged, [Next]_vars, destroyed' # destroyed
  PROVE  met = Condition
<1>1. CASE Destroy \/ DestroyFails
  <2>1. Processing /\ step = "destroy" /\ Exists(Target)
    BY <1>1 DEF Destroy, DestroyFails, At, Processing
  <2>2. Condition \subseteq met
    BY <2>1 DEF Judged, Passed
  <2>3. QED
    BY <2>2 DEF TypeOK
<1>2. CASE UNCHANGED vars
  BY <1>2 DEF vars
<1>3. ASSUME NEW r \in Resource, NEW s \in State \cup {Gone}, Change(r, s)
      PROVE  FALSE
  BY <1>3 DEF Change
<1>4. CASE Run /\ ~Destroy /\ ~DestroyFails
  BY <1>4
  DEF Run, VerifyAccount, RefuseAccount, ReadState, StateFails, ReadUsage, UsageFails,
      ReadIgnoreTag, ReadStackTag, TagsFail, Show, ShowFails, OfferSnapshot, CreateSnapshot,
      CreateFails, WaitSnapshot, WaitFails, Confirm, Reject, GoOn, Stop, Skip
<1>5. QED
  BY <1>1, <1>2, <1>3, <1>4 DEF Next

\* Provided that no failing read of a tag goes unnoticed, nothing is destroyed
\* that has not met every runtime guard while it was processed (the checks of
\* app/remediation/scripts/templates.py).
THEOREM DestroyedMetItsGuards ==
  ASSUME "tags" \notin Faults
  PROVE  Spec => DestroyedWasFree
<1>1. Init => TypeOK /\ Judged
  BY InitType DEF Init, Judged, Processing
<1>2. TypeOK /\ Judged /\ [Next]_vars => (TypeOK /\ Judged)'
  <2> SUFFICES ASSUME TypeOK, Judged, [Next]_vars PROVE TypeOK' /\ Judged'
    OBVIOUS
  <2>1. TypeOK'
    BY NextType
  <2>2. CASE UNCHANGED vars
    <3>1. UNCHANGED <<script, live, at, step, status, met>>
      BY <2>2 DEF vars, local
    <3>2. /\ Processing' = Processing /\ Exists(Target)' = Exists(Target)
          /\ Conditions(live[Target])' = Conditions(live[Target]) /\ Passed(step)' = Passed(step)
      BY <3>1 DEF Processing, Target, Exists, Conditions, Passed
    <3>3. QED
      BY <2>1, <3>1, <3>2 DEF Judged
  <2>3. QED
    BY <2>1, <2>2, RunJudged, ChangeJudged DEF Next
<1>3. TypeOK /\ Judged /\ [Next]_vars => (destroyed' # destroyed => met = Condition)
  BY DestroyingIsJudged
<1>4. QED
  BY <1>1, <1>2, <1>3, PTL DEF Spec, DestroyedWasFree
===============================================================================
