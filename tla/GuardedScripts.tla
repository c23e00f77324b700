---------------------------- MODULE GuardedScripts ----------------------------
(***************************************************************************)
(* A generated remediation script (app/remediation/scripts/) run by a human *)
(* against an account that changes meanwhile: the guarded script of one    *)
(* finding, or the bulk script of several, which ScriptService.bulk        *)
(* composes.  Every AWS call is a step of its own and may fail, also       *)
(* because the resource has gone.                                          *)
(*                                                                         *)
(* The scripts run under `set -e`: a call that fails ends the script,      *)
(* unless it is tested by an `if`.  Inside check_tags, which the bulk      *)
(* script calls from an `if`, a call that fails is read as an absent tag.  *)
(***************************************************************************)
EXTENDS Naturals, FiniteSets, SequencesExt

CONSTANTS
  Resource,   \* volumes and addresses
  Volume,     \* those that are volumes
  Selections, \* the findings a script is asked for, in order
  Account,
  Faults      \* which calls may fail on a resource that exists: "call", "tags"

ASSUME GuardedScriptsAssumption ==
  /\ Volume \subseteq Resource
  /\ Selections \subseteq Seq([resource : Resource, account : Account, guarded : BOOLEAN])
  /\ Faults \subseteq {"call", "tags"}

VARIABLES
  script,     \* its mode, its targets and EXPECTED_ACCOUNT_ID
  identity,   \* the account of the operator's credentials
  live,       \* the resources as they are
  at,         \* the target being processed
  step,       \* the next call or question about it
  associated, \* what describe-addresses said of AssociationId
  snapshot,   \* the snapshot of the volume before its deletion
  done,       \* COMPLETED and SKIPPED
  status,
  destroyed,  \* the resources the script destroyed
  met         \* the conditions the target has met since its processing began

local == <<at, step, associated, snapshot, done, status>>
vars == <<script, identity, live, local, destroyed, met>>

Mode == {"single", "bulk"}
Step == {"account", "state", "usage", "ignore", "stack", "show", "snapshot", "create",
         "wait", "confirm", "destroy"}
Status == {"running", "finished", "aborted", "exited"}
Condition == {"exists", "free", "unignored", "unstacked"}

\* In use (attached, associated), carrying the ignore tag, carrying a stack tag.
State == [busy : BOOLEAN, ignored : BOOLEAN, stacked : BOOLEAN]
Gone == [gone |-> TRUE]

Exists(r) == live[r] # Gone

Conditions(s) ==
  IF s = Gone THEN {}
  ELSE {c \in Condition : /\ c = "free" => ~s.busy
                          /\ c = "unignored" => ~s.ignored
                          /\ c = "unstacked" => ~s.stacked}

-------------------------------------------------------------------------------
(***************************************************************************)
(* Composing a script.                                                     *)
(***************************************************************************)
Guarded(selection) == SelectSeq(selection, LAMBDA f : f.guarded)

\* ScriptService.bulk: the eligible findings of the first eligible one's account.
Included(selection) ==
  SelectSeq(Guarded(selection), LAMBDA f : f.account = Guarded(selection)[1].account)

\* The scripts a selection yields: a bulk script, or the guarded one of its
\* only finding.
ScriptsFor(selection) ==
  {[mode     |-> mode,
    targets  |-> [k \in DOMAIN Included(selection) |-> Included(selection)[k].resource],
    expected |-> Guarded(selection)[1].account] :
   mode \in {m \in Mode : Guarded(selection) # <<>> /\ (m = "single" => Len(selection) = 1)}}

Script ==
  {s \in [mode : Mode, targets : Seq(Resource), expected : Account] :
     Len(s.targets) >= 1 /\ (s.mode = "single" => Len(s.targets) = 1)}

\* What SelectSeq yields of a selection.
ASSUME ScriptsAssumption == \A selection \in Selections : ScriptsFor(selection) \subseteq Script

Target == script.targets[at]

Processing == status = "running" /\ step # "account"

TypeOK ==
  /\ script \in Script
  /\ identity \in Account
  /\ live \in [Resource -> State \cup {Gone}]
  /\ at \in 1 .. Len(script.targets) + 1 /\ step \in Step
  /\ status = "running" => at <= Len(script.targets)
  /\ associated \in BOOLEAN /\ snapshot \in {"none", "wanted", "pending", "complete"}
  /\ done \in [completed : Nat, skipped : Nat]
  /\ status \in Status
  /\ destroyed \subseteq Resource /\ met \subseteq Condition

Init ==
  /\ script \in UNION {ScriptsFor(selection) : selection \in Selections}
  /\ identity \in Account
  /\ live \in [Resource -> State]
  /\ at = 1 /\ step = "account" /\ associated = FALSE /\ snapshot = "none"
  /\ done = [completed |-> 0, skipped |-> 0] /\ status = "running"
  /\ destroyed = {} /\ met = {}

-------------------------------------------------------------------------------
(***************************************************************************)
(* What a script does next.                                                *)
(***************************************************************************)
GoOn(next) ==
  /\ step' = next
  /\ UNCHANGED <<script, identity, live, at, associated, snapshot, done, status, destroyed, met>>

\* abort() and a failing command under set -e.
Stop(how) ==
  /\ status' = how
  /\ UNCHANGED <<script, identity, live, at, step, associated, snapshot, done, destroyed, met>>

\* Mutant: the last target is not recognised.
NextTargetPastEnd ==
  /\ at' = at + 1 /\ status' = "running"
  /\ step' = "state" /\ associated' = FALSE /\ met' = {}
  /\ UNCHANGED <<script, identity>>

\* The next target of a bulk script, or its summary.
NextTarget ==
  /\ at' = at + 1
  /\ status' = IF at = Len(script.targets) THEN "finished" ELSE "running"
  /\ step' = "state" /\ associated' = FALSE
  /\ met' = IF at = Len(script.targets) THEN {} ELSE Conditions(live'[script.targets[at + 1]])
  /\ UNCHANGED <<script, identity>>

\* Mutant: a skipped target is not counted.
SkipUncounted ==
  /\ UNCHANGED <<live, snapshot, done, destroyed>>
  /\ NextTarget

\* skip()
Skip ==
  /\ done' = [done EXCEPT !.skipped = @ + 1]
  /\ UNCHANGED <<live, snapshot, destroyed>>
  /\ NextTarget

Reject ==
  \/ script.mode = "single" /\ Stop("aborted")
  \/ script.mode = "bulk" /\ Skip

\* A call about the target fails, necessarily so when there is none.
CallFails(fault) == ~Exists(Target) \/ fault \in Faults

At(s) == status = "running" /\ step = s

-------------------------------------------------------------------------------
(***************************************************************************)
(* The calls and questions, in order.                                      *)
(***************************************************************************)
VerifyAccount ==
  /\ At("account") /\ identity = script.expected
  /\ step' = "state"
  /\ met' = Conditions(live[Target])
  /\ UNCHANGED <<script, identity, live, at, associated, snapshot, done, status, destroyed>>

RefuseAccount ==
  /\ At("account") /\ (identity # script.expected \/ "call" \in Faults)
  /\ Stop("aborted")

\* A volume in use is rejected; of an address the association is kept.
ReadState ==
  /\ At("state") /\ Exists(Target)
  /\ \/ Target \in Volume /\ live[Target].busy /\ Reject
     \/ Target \in Volume /\ ~live[Target].busy /\ GoOn("usage")
     \/ /\ Target \notin Volume
        /\ associated' = live[Target].busy /\ step' = "usage"
        /\ UNCHANGED <<script, identity, live, at, snapshot, done, status, destroyed, met>>

\* A failing describe call counts as a resource that does not exist.
StateFails == At("state") /\ CallFails("call") /\ Reject

\* The attachments; or the instance and the interface.
ReadUsage ==
  /\ At("usage") /\ Exists(Target)
  /\ IF associated \/ live[Target].busy THEN Reject ELSE GoOn("ignore")

UsageFails == At("usage") /\ CallFails("call") /\ Stop("exited")

ReadIgnoreTag ==
  /\ At("ignore") /\ Exists(Target)
  /\ IF live[Target].ignored THEN Reject ELSE GoOn("stack")

ReadStackTag ==
  /\ At("stack") /\ Exists(Target)
  /\ IF live[Target].stacked THEN Reject ELSE GoOn("show")

\* Mutant: the single script tests its tag checks with an `if` as well.
TagsFailOpen ==
  \/ At("ignore") /\ CallFails("call") /\ GoOn("stack")
  \/ At("stack") /\ CallFails("call") /\ GoOn("show")

\* In the bulk script the test goes on with an empty value.
TagsFail ==
  \/ script.mode = "single" /\ (At("ignore") \/ At("stack")) /\ CallFails("call") /\ Stop("exited")
  \/ script.mode = "bulk" /\ At("ignore") /\ CallFails("tags") /\ GoOn("stack")
  \/ script.mode = "bulk" /\ At("stack") /\ CallFails("tags") /\ GoOn("show")

Show ==
  /\ At("show") /\ Exists(Target)
  /\ GoOn(IF script.mode = "single" /\ Target \in Volume THEN "snapshot" ELSE "confirm")

ShowFails == At("show") /\ CallFails("call") /\ Stop("exited")

\* The operator wants a snapshot, does not, or closes the input.
OfferSnapshot ==
  /\ At("snapshot")
  /\ \/ /\ snapshot' = "wanted" /\ step' = "create"
        /\ UNCHANGED <<script, identity, live, at, associated, done, status, destroyed, met>>
     \/ GoOn("confirm")
     \/ Stop("exited")

CreateSnapshot ==
  /\ At("create") /\ Exists(Target)
  /\ snapshot' = "pending" /\ step' = "wait"
  /\ UNCHANGED <<script, identity, live, at, associated, done, status, destroyed, met>>

CreateFails == At("create") /\ CallFails("call") /\ Stop("aborted")

WaitSnapshot ==
  /\ At("wait")
  /\ snapshot' = "complete" /\ step' = "confirm"
  /\ UNCHANGED <<script, identity, live, at, associated, done, status, destroyed, met>>

\* Mutant: nobody tests how the waiting ended.
WaitIgnored == At("wait") /\ GoOn("confirm")

\* The snapshot may fail, whatever becomes of the volume.
WaitFails == At("wait") /\ Stop("aborted")

\* The operator types the exact phrase, something else, or nothing.
Confirm ==
  /\ At("confirm")
  /\ GoOn("destroy") \/ Reject \/ Stop("exited")

Removed == /\ live' = [live EXCEPT ![Target] = Gone]
           /\ destroyed' = destroyed \cup {Target}

\* delete-volume or release-address succeeds.
Destroy ==
  /\ At("destroy") /\ Exists(Target)
  /\ Removed
  /\ done' = [done EXCEPT !.completed = @ + 1]
  /\ NextTarget
  /\ UNCHANGED snapshot

\* It is refused, or its answer is lost.
DestroyFails ==
  /\ At("destroy") /\ CallFails("call")
  /\ status' = "exited"
  /\ \/ UNCHANGED <<live, destroyed>>
     \/ Exists(Target) /\ Removed
  /\ UNCHANGED <<script, identity, at, step, associated, snapshot, done, met>>

\* Anyone else attaches, tags or deletes a resource; identifiers are not reused.
Change(r, s) ==
  /\ Exists(r) /\ live' = [live EXCEPT ![r] = s]
  /\ met' = IF Processing /\ r = Target THEN met \cup Conditions(s) ELSE met
  /\ UNCHANGED <<script, identity, local, destroyed>>

Run ==
  \/ VerifyAccount \/ RefuseAccount \/ ReadState \/ StateFails \/ ReadUsage \/ UsageFails
  \/ ReadIgnoreTag \/ ReadStackTag \/ TagsFail \/ Show \/ ShowFails
  \/ OfferSnapshot \/ CreateSnapshot \/ CreateFails \/ WaitSnapshot \/ WaitFails
  \/ Confirm \/ Destroy \/ DestroyFails

Next ==
  \/ Run
  \/ \E r \in Resource, s \in State \cup {Gone} : Change(r, s)

Spec == Init /\ [][Next]_vars

-------------------------------------------------------------------------------
\* Nothing is destroyed that was, all the while it was being processed, in use,
\* marked to be ignored or owned by a stack: each condition held at some moment
\* (docs/security-model.md, the runtime guards of generated scripts).
DestroyedWasFree ==
  [][destroyed' # destroyed => met = Condition]_vars

\* The last line of a script tells what happened: completed and skipped targets
\* add up, as many resources are gone as were completed, and ABORTED means that
\* nothing was destroyed.
ReportsAreTrue ==
  /\ status = "finished" => /\ done.completed + done.skipped = Len(script.targets)
                            /\ done.completed = Cardinality(destroyed)
  /\ status = "aborted" => destroyed = {}
  /\ script.mode = "single" /\ status = "finished" => destroyed = {script.targets[1]}

\* A volume whose operator asked for a snapshot is destroyed only when the
\* snapshot is complete.
SnapshotPrecedesDeletion ==
  destroyed # {} => snapshot \in {"none", "complete"}
===============================================================================
