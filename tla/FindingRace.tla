----------------------------- MODULE FindingRace -----------------------------
(***************************************************************************)
(* One row of the findings table under the transactions that share it:     *)
(* scans of the API, scans of the command line (which ask no ScanRunner),  *)
(* and PATCH /findings/{id}.  Findings takes each as one step; here each   *)
(* reads the row, decides, and later writes what it decided, under READ    *)
(* COMMITTED.                                                              *)
(*                                                                         *)
(* The ORM writes the columns whose value differs from the one it read.    *)
(* Its UPDATE waits for a writer that has not committed and then applies   *)
(* to what that one left, and a reader never waits and never sees          *)
(* uncommitted data: so a transaction on one row is a read and, later, a   *)
(* write that commits.                                                     *)
(***************************************************************************)
EXTENDS FindingRules, FiniteSets, FiniteSetsExt

CONSTANTS
  Scanner,    \* processes that scan, each one scan at a time
  Patcher,    \* request threads of PATCH
  Candidates, \* what a detector may report of the resource
  MaxClock    \* bound: instants at which scans start

ASSUME FindingRaceAssumption ==
  /\ Scanner \cap Patcher = {}
  /\ Candidates \subseteq Candidate
  /\ MaxClock \in Nat \ {0}

VARIABLES
  row,        \* the committed row
  log,        \* started_at of the committed scans that observed the finding
  absences,   \* started_at of those that covered its cell and did not
  tx,         \* the open transaction of each scanner and patcher
  clock,      \* when the latest scan started
  revived     \* history: a PATCH has written its status over a resolution it had
              \* not read, and no streak has been started since

vars == <<row, log, absences, tx, clock, revived>>

Row ==
  [status                   : FindingStatus,
   last_observed_at         : Nat,
   streak_started_at        : Nat,
   observation_count        : Nat,
   consecutive_observations : Nat,
   resolved_at              : Nat \cup {Never},
   dismissed_at             : Nat \cup {Never}]

Verdict == {"pending", "plain", "tagged", "absent", "patch"}
Closed == [open |-> FALSE]
Transaction == {Closed} \cup
  [open : {TRUE}, at : Nat, verdict : Verdict, old : Row, new : Row]

TypeOK ==
  /\ row \in Row
  /\ log \subseteq 1 .. clock /\ absences \subseteq 1 .. clock
  /\ \A a \in Scanner \cup Patcher : tx[a] \in Transaction
  /\ clock \in 1 .. MaxClock /\ revived \in BOOLEAN

\* The finding was inserted by a scan at instant 1.
Init ==
  /\ row = [status |-> "open", last_observed_at |-> 1, streak_started_at |-> 1,
            observation_count |-> 1, consecutive_observations |-> 1,
            resolved_at |-> Never, dismissed_at |-> Never]
  /\ log = {1} /\ absences = {}
  /\ tx = [a \in Scanner \cup Patcher |-> Closed]
  /\ clock = 1 /\ revived = FALSE

-------------------------------------------------------------------------------
\* The row after an UPDATE of the columns that changed since they were read.
Written(old, new) == [c \in DOMAIN row |-> IF new[c] = old[c] THEN row[c] ELSE new[c]]

Close(a) == tx' = [tx EXCEPT ![a] = Closed]

\* scan.started_at is taken before detection; the row is read after it.
ScanStart(s) ==
  /\ ~tx[s].open /\ clock < MaxClock
  /\ clock' = clock + 1
  /\ tx' = [tx EXCEPT ![s] =
       [open |-> TRUE, at |-> clock + 1, verdict |-> "pending", old |-> row, new |-> row]]
  /\ UNCHANGED <<row, log, absences, revived>>

\* reconcile() reads the row of a finding its candidates contain.
ScanSees(s, c) ==
  /\ tx[s].open /\ tx[s].verdict = "pending"
  /\ tx' = [tx EXCEPT ![s].verdict = IF c.ignored THEN "tagged" ELSE "plain",
                      ![s].old = row, ![s].new = Reobserved(row, c, tx[s].at)]
  /\ UNCHANGED <<row, log, absences, clock, revived>>

\* reconcile() reads the row of a finding they do not.
ScanMisses(s) ==
  /\ tx[s].open /\ tx[s].verdict = "pending"
  /\ tx' = [tx EXCEPT ![s].verdict = "absent",
                      ![s].old = row, ![s].new = Resolved(row, tx[s].at)]
  /\ UNCHANGED <<row, log, absences, clock, revived>>

\* The flush of run_scan's transaction, up to its commit.
ScanCommit(s) ==
  /\ tx[s].open /\ tx[s].verdict \in {"plain", "tagged", "absent"}
  /\ row' = Written(tx[s].old, tx[s].new)
  /\ log' = IF tx[s].verdict = "absent" THEN log ELSE log \cup {tx[s].at}
  /\ absences' = IF tx[s].verdict = "absent" THEN absences \cup {tx[s].at} ELSE absences
  /\ revived' = (revived /\ ~(tx[s].verdict # "absent" /\ tx[s].old.status = "resolved"))
  /\ Close(s)
  /\ UNCHANGED clock

\* The cell was not covered, or the transaction was rolled back.
ScanLeaves(s) ==
  /\ tx[s].open
  /\ Close(s)
  /\ UNCHANGED <<row, log, absences, clock, revived>>

-------------------------------------------------------------------------------
\* FindingService.patch reads the row, and answers 409 on another status.
PatchReads(p, from, new) ==
  /\ ~tx[p].open /\ row.status = from
  /\ tx' = [tx EXCEPT ![p] =
       [open |-> TRUE, at |-> clock, verdict |-> "patch", old |-> row, new |-> new]]
  /\ UNCHANGED <<row, log, absences, clock, revived>>

Dismiss(p) ==
  PatchReads(p, "open", [row EXCEPT !.status = "dismissed", !.dismissed_at = clock])

Reopen(p) ==
  PatchReads(p, "dismissed", [row EXCEPT !.status = "open", !.dismissed_at = Never])

PatchCommit(p) ==
  /\ tx[p].open
  /\ row' = Written(tx[p].old, tx[p].new)
  /\ revived' = (revived \/ row.status = "resolved")
  /\ Close(p)
  /\ UNCHANGED <<log, absences, clock>>

Scan(s) ==
  \/ ScanStart(s) \/ ScanMisses(s) \/ ScanCommit(s) \/ ScanLeaves(s)
  \/ \E c \in Candidates : ScanSees(s, c)

Next ==
  \/ \E s \in Scanner : Scan(s)
  \/ \E p \in Patcher : Dismiss(p) \/ Reopen(p) \/ PatchCommit(p)

Spec == Init /\ [][Next]_vars

-------------------------------------------------------------------------------
\* The observations that no absence followed, and the absences that no
\* observation followed: one of them is empty.
Streak == {t \in log : \A a \in absences : a < t}
Gone   == {a \in absences : \A t \in log : t < a}

\* The row tells the history (docs/observation-model.md): observation_count is the
\* lifetime number of scans that observed the condition, consecutive_observations
\* the number since the latest absence, last_observed_at the latest observation,
\* and resolved_at an absence no observation followed, when there is one.  A PATCH
\* in the middle of a scan takes nothing from them.  A finding that is gone is
\* resolved, by the first absence, and one that is not is of the streak that its
\* first observation after the absences started: unless a PATCH that had read the
\* row before it was resolved gave it another status (revived).  The next scan then
\* continues the streak that had ended and leaves resolved_at, against rule 4 of the
\* document, until another resolution and reappearance.
RowTellsHistory ==
  /\ row.observation_count = Cardinality(log)
  /\ row.consecutive_observations = Cardinality(Streak)
  /\ row.last_observed_at = Max(log)
  /\ Gone # {} => row.resolved_at \in Gone
  /\ ~revived /\ Gone # {} => row.status = "resolved" /\ row.resolved_at = Min(Gone)
  /\ ~revived /\ Gone = {} => /\ row.status # "resolved" /\ row.resolved_at = Never
                              /\ row.streak_started_at = Min(Streak)

\* A dismissal committed while a scan re-observes the untagged resource, which
\* it read open or dismissed already, is not undone when the scan commits.
DismissalOutlivesScan ==
  [][\A s \in Scanner : tx[s].open /\ ~tx'[s].open /\ tx[s].verdict = "plain"
       /\ tx[s].old.status \in {"open", "dismissed"}
       /\ row.status = "dismissed" => row'.status = "dismissed"]_vars
===============================================================================
