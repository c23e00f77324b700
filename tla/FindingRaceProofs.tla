--------------------------- MODULE FindingRaceProofs ---------------------------
(***************************************************************************)
(* Proofs about one row under interleaved transactions, for any number of  *)
(* requests, any instants and any candidates: a scan undoes no dismissal   *)
(* of an untagged resource, however many processes scan; and when one      *)
(* process scans, the row tells the history.                               *)
(***************************************************************************)
EXTENDS FindingRace, FiniteSetTheorems, TLAPS

\* The columns a PATCH leaves alone.
History == {"last_observed_at", "streak_started_at", "observation_count",
            "consecutive_observations", "resolved_at"}
Column == History \cup {"status", "dismissed_at"}

-------------------------------------------------------------------------------
(***************************************************************************)
(* Types.                                                                  *)
(***************************************************************************)

Shape ==
  /\ row \in Row
  /\ tx \in [Scanner \cup Patcher -> Transaction]
  /\ clock \in Nat
  /\ log \subseteq 1 .. clock /\ absences \subseteq 1 .. clock

\* A row seen again is a row.
LEMMA ReobservedRow ==
  ASSUME NEW f \in Row, NEW c \in Candidate, NEW t \in Nat
  PROVE  Reobserved(f, c, t) \in Row
<1>1. Reappeared(f, c, t) \in Row
  BY DEF Reappeared, Row, StatusFor, FindingStatus, Never
<1>2. Continued(f, c) \in Row
  <2>1. f.consecutive_observations + 1 \in Nat
    BY DEF Row
  <2> QED
    BY <2>1 DEF Continued, Row, StatusFor, FindingStatus
<1>3. ASSUME NEW g \in Row
      PROVE  [g EXCEPT !.last_observed_at = t, !.observation_count = @ + 1] \in Row
  <2>1. g.observation_count + 1 \in Nat
    BY <1>3 DEF Row
  <2> QED
    BY <1>3, <2>1 DEF Row
<1> QED
  BY <1>1, <1>2, <1>3 DEF Reobserved

\* A resolved row is a row.
LEMMA ResolvedRow ==
  ASSUME NEW f \in Row, NEW t \in Nat
  PROVE  Resolved(f, t) \in Row
BY DEF Resolved, Row, FindingStatus, Never

\* The columns of what an UPDATE leaves.
LEMMA WrittenColumns ==
  ASSUME row \in Row, NEW old, NEW new
  PROVE  /\ DOMAIN Written(old, new) = Column
         /\ \A c \in Column :
              Written(old, new)[c] = IF new[c] = old[c] THEN row[c] ELSE new[c]
<1>1. DOMAIN row = Column
  BY DEF Row, Column, History
<1> QED
  BY <1>1 DEF Written

\* An UPDATE leaves a row.
LEMMA WrittenRow ==
  ASSUME row \in Row, NEW old \in Row, NEW new \in Row
  PROVE  Written(old, new) \in Row
<1> DEFINE w == Written(old, new)
<1>1. DOMAIN row = Column
  BY DEF Row, Column, History
<1>2. w = [c \in Column |-> w[c]]
  BY <1>1 DEF Written
<1>3. /\ w["status"] \in FindingStatus
      /\ w["last_observed_at"] \in Nat
      /\ w["streak_started_at"] \in Nat
      /\ w["observation_count"] \in Nat
      /\ w["consecutive_observations"] \in Nat
      /\ w["resolved_at"] \in Nat \cup {Never}
      /\ w["dismissed_at"] \in Nat \cup {Never}
  BY WrittenColumns DEF Row, Column, History
<1> HIDE DEF w
<1>4. w = [status                   |-> w["status"],
           last_observed_at         |-> w["last_observed_at"],
           streak_started_at        |-> w["streak_started_at"],
           observation_count        |-> w["observation_count"],
           consecutive_observations |-> w["consecutive_observations"],
           resolved_at              |-> w["resolved_at"],
           dismissed_at             |-> w["dismissed_at"]]
  BY <1>2 DEF Column, History
<1> QED
  BY <1>3, <1>4 DEF Row, w

-------------------------------------------------------------------------------
(***************************************************************************)
(* What holds for any number of scanners.                                  *)
(***************************************************************************)

\* What a transaction is, once opened, and a scan that has seen the resource.
Opened == [open : {TRUE}, at : Nat, verdict : Verdict, old : Row, new : Row]

\* A scan that saw the resource untagged writes what reconcile() makes of it.
PlainIsReobserved ==
  \A s \in Scanner : tx[s].open /\ tx[s].verdict = "plain" =>
    \E c \in Candidate : ~c.ignored /\ tx[s].new = Reobserved(tx[s].old, c, tx[s].at)

\* An open transaction is one.
LEMMA OpenIsOpened ==
  ASSUME Shape, NEW a \in Scanner \cup Patcher, tx[a].open
  PROVE  tx[a] \in Opened
<1>1. tx[a] \in {Closed} \cup Opened
  BY DEF Shape, Transaction, Opened
<1>2. ~Closed.open
  BY DEF Closed
<1>3. tx[a] # Closed
  BY <1>2, Zenon
<1> QED
  BY <1>1, <1>3

\* Opening or advancing a transaction keeps the shape.
LEMMA OpenKeepsShape ==
  ASSUME Shape, NEW a \in Scanner \cup Patcher, NEW t \in Opened,
         tx' = [tx EXCEPT ![a] = t],
         UNCHANGED <<row, log, absences>>, clock' \in Nat, clock <= clock'
  PROVE  Shape'
<1>1. tx' \in [Scanner \cup Patcher -> Transaction]
  BY DEF Shape, Transaction, Opened
<1>2. log' \subseteq 1 .. clock' /\ absences' \subseteq 1 .. clock'
  BY DEF Shape
<1> QED
  BY <1>1, <1>2 DEF Shape

\* Closing one keeps it, if what is left is a row and its log.
LEMMA CloseKeepsShape ==
  ASSUME Shape, NEW a \in Scanner \cup Patcher, Close(a), row' \in Row,
         log' \subseteq 1 .. clock, absences' \subseteq 1 .. clock, UNCHANGED clock
  PROVE  Shape'
BY DEF Shape, Close, Transaction

\* The instant of a scan is not in the future.
PastScans == \A s \in Scanner : tx[s].open => tx[s].at \in 1 .. clock

\* A step of a scan keeps the shape.
LEMMA ScanKeepsShape ==
  ASSUME Shape, PastScans, NEW s \in Scanner, Scan(s)
  PROVE  Shape' /\ PastScans'
<1>1. CASE ScanStart(s)
  <2> DEFINE t == [open |-> TRUE, at |-> clock + 1, verdict |-> "pending", old |-> row, new |-> row]
  <2>1. t \in Opened
    BY DEF Opened, Shape, Verdict
  <2>2. tx' = [tx EXCEPT ![s] = t] /\ clock' = clock + 1 /\ UNCHANGED <<row, log, absences>>
    BY <1>1 DEF ScanStart
  <2>3. clock' \in Nat /\ clock <= clock' /\ t.at \in 1 .. clock'
    BY <2>2 DEF Shape
  <2> HIDE DEF t
  <2>4. Shape'
    BY <2>1, <2>2, <2>3, OpenKeepsShape
  <2>5. PastScans'
    BY <2>2, <2>3 DEF PastScans, Shape
  <2> QED
    BY <2>4, <2>5
<1>2. ASSUME NEW c \in Candidates, ScanSees(s, c) PROVE Shape' /\ PastScans'
  <2> DEFINE new == Reobserved(row, c, tx[s].at)
             verdict == IF c.ignored THEN "tagged" ELSE "plain"
             t == [tx[s] EXCEPT !.verdict = verdict, !.old = row, !.new = new]
  <2>1. tx[s] \in Opened
    BY <1>2, OpenIsOpened DEF ScanSees
  <2>2. new \in Row
    BY <2>1, ReobservedRow, FindingRaceAssumption DEF Shape, Opened
  <2>3. verdict \in Verdict
    BY DEF Verdict
  <2>4. /\ tx' = [tx EXCEPT ![s] = t]
        /\ UNCHANGED <<row, log, absences, clock>>
    BY <1>2 DEF ScanSees, Shape
  <2> HIDE DEF new, verdict
  <2>5. t \in Opened /\ t.at = tx[s].at
    BY <2>1, <2>2, <2>3 DEF Opened, Shape
  <2> HIDE DEF t
  <2>clock. clock' \in Nat /\ clock <= clock'
    BY <2>4 DEF Shape
  <2>6. Shape'
    BY <2>4, <2>5, <2>clock, OpenKeepsShape
  <2>7. tx[s].open
    BY <1>2 DEF ScanSees
  <2>8. PastScans'
    BY <2>4, <2>5, <2>7 DEF PastScans, Shape
  <2> QED
    BY <2>6, <2>8
<1>3. CASE ScanMisses(s)
  <2> DEFINE new == Resolved(row, tx[s].at)
             t == [tx[s] EXCEPT !.verdict = "absent", !.old = row, !.new = new]
  <2>1. tx[s] \in Opened
    BY <1>3, OpenIsOpened DEF ScanMisses
  <2>2. new \in Row
    BY <2>1, ResolvedRow DEF Shape, Opened
  <2>3. /\ tx' = [tx EXCEPT ![s] = t]
        /\ UNCHANGED <<row, log, absences, clock>>
    BY <1>3 DEF ScanMisses, Shape
  <2> HIDE DEF new
  <2>4. t \in Opened /\ t.at = tx[s].at
    BY <2>1, <2>2 DEF Opened, Shape, Verdict
  <2> HIDE DEF t
  <2>clock. clock' \in Nat /\ clock <= clock'
    BY <2>3 DEF Shape
  <2>5. Shape'
    BY <2>3, <2>4, <2>clock, OpenKeepsShape
  <2>6. tx[s].open
    BY <1>3 DEF ScanMisses
  <2>7. PastScans'
    BY <2>3, <2>4, <2>6 DEF PastScans, Shape
  <2> QED
    BY <2>5, <2>7
<1>4. CASE ScanCommit(s) \/ ScanLeaves(s)
  <2>1. tx[s] \in Opened /\ tx[s].at \in 1 .. clock
    BY <1>4, OpenIsOpened DEF ScanCommit, ScanLeaves, PastScans
  <2>2. row' \in Row
    BY <1>4, <2>1, WrittenRow DEF ScanCommit, ScanLeaves, Shape, Opened
  <2>3. log' \subseteq 1 .. clock /\ absences' \subseteq 1 .. clock
    BY <1>4, <2>1 DEF ScanCommit, ScanLeaves, Shape
  <2>4. Close(s) /\ UNCHANGED clock
    BY <1>4 DEF ScanCommit, ScanLeaves
  <2>5. Shape'
    BY <2>2, <2>3, <2>4, CloseKeepsShape
  <2>6. PastScans'
    BY <2>4 DEF PastScans, Close, Closed, Shape
  <2> QED
    BY <2>5, <2>6
<1> QED
  BY <1>1, <1>2, <1>3, <1>4 DEF Scan

\* A step of a request keeps the shape.
LEMMA PatchKeepsShape ==
  ASSUME Shape, PastScans, NEW p \in Patcher, Dismiss(p) \/ Reopen(p) \/ PatchCommit(p)
  PROVE  Shape' /\ PastScans'
<1>1. p \notin Scanner
  BY FindingRaceAssumption
<1>2. ASSUME NEW from, NEW new \in Row, PatchReads(p, from, new) PROVE Shape' /\ PastScans'
  <2> DEFINE t == [open |-> TRUE, at |-> clock, verdict |-> "patch", old |-> row, new |-> new]
  <2>1. t \in Opened
    BY DEF Opened, Shape, Verdict
  <2>2. tx' = [tx EXCEPT ![p] = t] /\ UNCHANGED <<row, log, absences, clock>>
    BY <1>2 DEF PatchReads
  <2> HIDE DEF t
  <2>clock. clock' \in Nat /\ clock <= clock'
    BY <2>2 DEF Shape
  <2>3. Shape'
    BY <2>1, <2>2, <2>clock, OpenKeepsShape
  <2> QED
    BY <1>1, <2>2, <2>3 DEF PastScans, Shape
<1>3. CASE Dismiss(p)
  <2>1. [row EXCEPT !.status = "dismissed", !.dismissed_at = clock] \in Row
    BY DEF Shape, Row, FindingStatus
  <2> QED
    BY <1>2, <1>3, <2>1 DEF Dismiss
<1>4. CASE Reopen(p)
  <2>1. [row EXCEPT !.status = "open", !.dismissed_at = Never] \in Row
    BY DEF Shape, Row, FindingStatus
  <2> QED
    BY <1>2, <1>4, <2>1 DEF Reopen
<1>5. CASE PatchCommit(p)
  <2>1. tx[p] \in Opened
    BY <1>5, OpenIsOpened DEF PatchCommit
  <2>2. row' \in Row
    BY <1>5, <2>1, WrittenRow DEF PatchCommit, Shape, Opened
  <2>3. Close(p) /\ UNCHANGED <<log, absences, clock>>
    BY <1>5 DEF PatchCommit
  <2>4. Shape'
    BY <2>2, <2>3, CloseKeepsShape DEF Shape
  <2> QED
    BY <1>1, <2>3, <2>4 DEF PastScans, Close, Shape
<1> QED
  BY <1>3, <1>4, <1>5

\* Only the scanner itself opens, decides and closes its transaction.
LEMMA OthersKeepScan ==
  ASSUME Shape, NEW s \in Scanner, NEW a \in (Scanner \cup Patcher) \ {s},
         Scan(a) \/ Dismiss(a) \/ Reopen(a) \/ PatchCommit(a)
  PROVE  tx'[s] = tx[s]
BY DEF Shape, Scan, ScanStart, ScanSees, ScanMisses, ScanCommit, ScanLeaves, Dismiss, Reopen,
       PatchReads, PatchCommit, Close

\* A scan decides by reconcile().
LEMMA ScanKeepsPlain ==
  ASSUME Shape, NEW s \in Scanner, Scan(s),
         tx[s].open /\ tx[s].verdict = "plain" =>
           \E c \in Candidate : ~c.ignored /\ tx[s].new = Reobserved(tx[s].old, c, tx[s].at)
  PROVE  tx'[s].open /\ tx'[s].verdict = "plain" =>
           \E c \in Candidate : ~c.ignored /\ tx'[s].new = Reobserved(tx'[s].old, c, tx'[s].at)
<1> SUFFICES ASSUME tx'[s].open, tx'[s].verdict = "plain"
             PROVE  \E c \in Candidate :
                      ~c.ignored /\ tx'[s].new = Reobserved(tx'[s].old, c, tx'[s].at)
  OBVIOUS
<1>1. CASE ScanStart(s)
  BY <1>1 DEF ScanStart, Shape
<1>2. ASSUME NEW c \in Candidates, ScanSees(s, c)
      PROVE  \E d \in Candidate :
               ~d.ignored /\ tx'[s].new = Reobserved(tx'[s].old, d, tx'[s].at)
  <2> DEFINE new == Reobserved(row, c, tx[s].at)
             verdict == IF c.ignored THEN "tagged" ELSE "plain"
  <2>1. tx[s] \in Opened
    BY <1>2, OpenIsOpened DEF ScanSees
  <2>2. tx' = [tx EXCEPT ![s] = [tx[s] EXCEPT !.verdict = verdict, !.old = row, !.new = new]]
    BY <1>2 DEF ScanSees, Shape
  <2> HIDE DEF new, verdict
  <2>3. tx'[s].verdict = verdict /\ tx'[s].old = row /\ tx'[s].new = new /\ tx'[s].at = tx[s].at
    BY <2>1, <2>2 DEF Opened, Shape
  <2>4. ~c.ignored
    BY <2>3 DEF verdict
  <2>5. new = Reobserved(row, c, tx[s].at)
    BY DEF new
  <2> QED
    BY <2>3, <2>4, <2>5, FindingRaceAssumption
<1>3. CASE ScanMisses(s)
  <2>1. tx[s] \in Opened
    BY <1>3, OpenIsOpened DEF ScanMisses
  <2>2. tx'[s].verdict = "absent"
    BY <1>3, <2>1 DEF ScanMisses, Shape, Opened
  <2> QED
    BY <2>2
<1>4. CASE ScanCommit(s) \/ ScanLeaves(s)
  <2>1. tx'[s] = Closed
    BY <1>4 DEF ScanCommit, ScanLeaves, Close, Shape
  <2>2. ~Closed.open
    BY DEF Closed
  <2> QED
    BY <2>1, <2>2, Zenon
<1> QED
  BY <1>1, <1>2, <1>3, <1>4 DEF Scan

\* Both hold of the specification.
LEMMA PlainStep ==
  ASSUME Shape, PlainIsReobserved, [Next]_vars
  PROVE  PlainIsReobserved'
<1> SUFFICES ASSUME NEW s \in Scanner
             PROVE  tx'[s].open /\ tx'[s].verdict = "plain" =>
                      \E c \in Candidate :
                        ~c.ignored /\ tx'[s].new = Reobserved(tx'[s].old, c, tx'[s].at)
  BY DEF PlainIsReobserved
<1>1. tx[s].open /\ tx[s].verdict = "plain" =>
        \E c \in Candidate : ~c.ignored /\ tx[s].new = Reobserved(tx[s].old, c, tx[s].at)
  BY DEF PlainIsReobserved
<1>2. CASE Scan(s)
  BY <1>1, <1>2, ScanKeepsPlain
<1>3. ASSUME NEW a \in (Scanner \cup Patcher) \ {s},
             Scan(a) \/ Dismiss(a) \/ Reopen(a) \/ PatchCommit(a)
      PROVE  tx'[s] = tx[s]
  BY <1>3, OthersKeepScan
<1>4. CASE UNCHANGED vars
  BY <1>1, <1>4 DEF vars
<1>5. s \notin Patcher
  BY FindingRaceAssumption
<1> QED
  BY <1>1, <1>2, <1>3, <1>4, <1>5 DEF Next

\* The types and the decisions of scans.
THEOREM ShapeHolds == Spec => [](Shape /\ PastScans /\ PlainIsReobserved)
<1>1. Init => Shape /\ PastScans /\ PlainIsReobserved
  <2> SUFFICES ASSUME Init PROVE Shape /\ PastScans /\ PlainIsReobserved
    OBVIOUS
  <2>1. row \in Row /\ clock \in Nat /\ log \subseteq 1 .. clock /\ absences \subseteq 1 .. clock
    BY DEF Init, Row, FindingStatus, Never
  <2>2. tx \in [Scanner \cup Patcher -> Transaction]
    BY DEF Init, Transaction
  <2>3. ~Closed.open
    BY DEF Closed
  <2>4. \A s \in Scanner : tx[s] = Closed
    BY DEF Init
  <2>5. \A s \in Scanner : ~tx[s].open
    BY <2>3, <2>4, Zenon
  <2> QED
    BY <2>1, <2>2, <2>5 DEF Shape, PastScans, PlainIsReobserved
<1>2. Shape /\ PastScans /\ [Next]_vars => Shape' /\ PastScans'
  <2> SUFFICES ASSUME Shape, PastScans, [Next]_vars PROVE Shape' /\ PastScans'
    OBVIOUS
  <2>1. ASSUME NEW s \in Scanner, Scan(s) PROVE Shape' /\ PastScans'
    BY <2>1, ScanKeepsShape
  <2>2. ASSUME NEW p \in Patcher, Dismiss(p) \/ Reopen(p) \/ PatchCommit(p)
        PROVE  Shape' /\ PastScans'
    BY <2>2, PatchKeepsShape
  <2>3. CASE UNCHANGED vars
    BY <2>3 DEF vars, Shape, PastScans
  <2> QED
    BY <2>1, <2>2, <2>3 DEF Next
<1>3. Shape /\ PlainIsReobserved /\ [Next]_vars => PlainIsReobserved'
  BY PlainStep
<1> QED
  BY <1>1, <1>2, <1>3, PTL DEF Spec

\* A status that is open or dismissed already is not written by a scan that saw
\* the resource untagged.
LEMMA ReobservedKeepsStatus ==
  ASSUME NEW f \in Row, NEW c \in Candidate, NEW t \in Nat, ~c.ignored,
         f.status \in {"open", "dismissed"}
  PROVE  Reobserved(f, c, t).status = f.status
BY DEF Reobserved, Continued, StatusFor, Row

\* However many processes scan, a dismissal committed while one of them
\* re-observes the untagged resource is not undone by its commit.
THEOREM DismissalsOutliveScans == Spec => DismissalOutlivesScan
<1> DEFINE Kept ==
      \A s \in Scanner : tx[s].open /\ ~tx'[s].open /\ tx[s].verdict = "plain"
        /\ tx[s].old.status \in {"open", "dismissed"}
        /\ row.status = "dismissed" => row'.status = "dismissed"
<1>1. Shape /\ PlainIsReobserved /\ [Next]_vars => Kept
  <2> SUFFICES ASSUME Shape, PlainIsReobserved, [Next]_vars, NEW s \in Scanner,
                      tx[s].open, ~tx'[s].open, tx[s].verdict = "plain",
                      tx[s].old.status \in {"open", "dismissed"},
                      row.status = "dismissed"
               PROVE  row'.status = "dismissed"
    OBVIOUS
  <2>1. tx[s] \in Opened
    BY OpenIsOpened
  <2>2. PICK c \in Candidate : ~c.ignored /\ tx[s].new = Reobserved(tx[s].old, c, tx[s].at)
    BY DEF PlainIsReobserved
  <2>3. tx[s].new.status = tx[s].old.status
    <3>1. tx[s].old \in Row /\ tx[s].at \in Nat
      BY <2>1 DEF Opened
    <3>2. Reobserved(tx[s].old, c, tx[s].at).status = tx[s].old.status
      BY <2>2, <3>1, ReobservedKeepsStatus
    <3> QED
      BY <2>2, <3>2
  <2>4. Written(tx[s].old, tx[s].new)["status"] = row.status
    <3>1. Written(tx[s].old, tx[s].new)["status"]
          = IF tx[s].new["status"] = tx[s].old["status"] THEN row["status"] ELSE tx[s].new["status"]
      BY WrittenColumns DEF Shape, Column
    <3> QED
      BY <2>3, <3>1
  <2>5. CASE ScanCommit(s)
    BY <2>4, <2>5 DEF ScanCommit
  <2>6. CASE ScanLeaves(s)
    BY <2>6 DEF ScanLeaves
  <2>7. CASE Scan(s) /\ ~ScanCommit(s) /\ ~ScanLeaves(s)
    <3>1. tx'[s] \in Opened \/ tx'[s].open
      BY <2>7, <2>1 DEF Scan, ScanStart, ScanSees, ScanMisses, Shape, Opened
    <3> QED
      BY <3>1 DEF Opened
  <2>8. CASE ~Scan(s)
    <3>1. tx'[s] = tx[s]
      BY <2>8, OthersKeepScan, FindingRaceAssumption DEF Next, vars
    <3> QED
      BY <3>1
  <2> QED
    BY <2>5, <2>6, <2>7, <2>8
<1> HIDE DEF Kept
<1>2. Spec => [][Kept]_vars
  BY <1>1, ShapeHolds, PTL DEF Spec
<1> QED
  BY <1>2 DEF DismissalOutlivesScan, Kept

-------------------------------------------------------------------------------
(***************************************************************************)
(* What holds when one process scans.                                      *)
(*                                                                         *)
(* Requests may have read the row before a scan and write after it, so its *)
(* status may be stale; the other columns are the scan's alone.  HInv says *)
(* that they are what the open scan has read, that a resolved row was      *)
(* resolved by an absence after every observation, the first of them and   *)
(* with its streak begun by the first observation unless a request revived *)
(* it, and that a request neither resolves nor touches these columns.      *)
(***************************************************************************)

\* The instant of an absence after every observation.
AfterAll(t) == t \in absences /\ \A u \in log : u < t

Earliest(S, t) == t \in S /\ \A u \in S : t <= u

\* A row no stale request revived says whether the finding is gone and since when.
Told ==
  ~revived =>
    IF Gone = {}
    THEN /\ row.status # "resolved" /\ row.resolved_at = Never
         /\ Earliest(Streak, row.streak_started_at)
    ELSE row.status = "resolved" /\ Earliest(Gone, row.resolved_at)

ResolvedAfterAll == row.status = "resolved" => AfterAll(row.resolved_at)

Decided(t) ==
  \/ t.verdict = "absent" /\ t.new = Resolved(t.old, t.at)
  \/ t.verdict \in {"plain", "tagged"} /\ \E c \in Candidate : t.new = Reobserved(t.old, c, t.at)

ScanAlone ==
  \A s \in Scanner : tx[s].open =>
    /\ tx[s].at = clock /\ \A t \in log \cup absences : t < clock
    /\ tx[s].verdict # "pending" =>
         /\ \A c \in History : tx[s].old[c] = row[c]
         /\ tx[s].old.status = "resolved" => AfterAll(row.resolved_at)
         /\ row.status = "resolved" => tx[s].old.status = "resolved"
         /\ Decided(tx[s])

PatchesKeepHistory ==
  \A p \in Patcher : tx[p].open =>
    /\ \A c \in History : tx[p].new[c] = tx[p].old[c]
    /\ tx[p].new.status # "resolved"

Counts ==
  /\ row.observation_count = Cardinality(log)
  /\ row.consecutive_observations = Cardinality(Streak)
  /\ row.last_observed_at = Max(log)
  /\ Gone # {} => row.resolved_at \in Gone

RowSound == Counts /\ ResolvedAfterAll /\ Told

HInv == RowSound /\ ScanAlone /\ PatchesKeepHistory

\* An earliest element is the minimum.
LEMMA MinOfEarliest ==
  ASSUME NEW S, NEW t \in Nat, S \subseteq Nat, Earliest(S, t)
  PROVE  Min(S) = t
<1>1. t \in S /\ \A u \in S : t <= u
  BY DEF Earliest
<1>2. \A x \in S : (\A u \in S : x <= u) => x = t
  BY <1>1
<1>3. (CHOOSE x \in S : \A u \in S : x <= u) = t
  BY <1>1, <1>2
<1> QED
  BY <1>3 DEF Min

\* The invariant says what the property does.
LEMMA SoundTells ==
  ASSUME Shape, RowSound
  PROVE  RowTellsHistory
<1>1. Streak \subseteq Nat /\ Gone \subseteq Nat
  <2>1. log \subseteq Nat /\ absences \subseteq Nat
    BY DEF Shape
  <2> QED
    BY <2>1 DEF Streak, Gone
<1>2. ASSUME ~revived, Gone = {}
      PROVE  row.streak_started_at = Min(Streak)
  <2>1. Earliest(Streak, row.streak_started_at)
    BY <1>2 DEF RowSound, Told
  <2>2. row.streak_started_at \in Nat
    BY <1>1, <2>1 DEF Earliest
  <2> QED
    BY <1>1, <2>1, <2>2, MinOfEarliest
<1>3. ASSUME ~revived, Gone # {}
      PROVE  row.resolved_at = Min(Gone)
  <2>1. Earliest(Gone, row.resolved_at)
    BY <1>3 DEF RowSound, Told
  <2>2. row.resolved_at \in Nat
    BY <1>1, <2>1 DEF Earliest
  <2> QED
    BY <1>1, <2>1, <2>2, MinOfEarliest
<1> QED
  BY <1>2, <1>3 DEF RowSound, Counts, Told, RowTellsHistory

\* It depends on the row and on what is known of the scans.
LEMMA SoundKept ==
  ASSUME RowSound, UNCHANGED <<row, log, absences, revived>>
  PROVE  RowSound'
BY DEF RowSound, Counts, ResolvedAfterAll, AfterAll, Told, Earliest, Streak, Gone

\* A latest element is the maximum.
LEMMA MaxOfLatest ==
  ASSUME NEW S, NEW t \in Nat, S \subseteq Nat, \A u \in S : u < t
  PROVE  Max(S \cup {t}) = t
<1> DEFINE T == S \cup {t}
<1>1. t \in T /\ \A u \in T : t >= u
  OBVIOUS
<1>2. \A x \in T : (\A u \in T : x >= u) => x = t
  OBVIOUS
<1> HIDE DEF T
<1>3. (CHOOSE x \in T : \A u \in T : x >= u) = t
  BY <1>1, <1>2
<1> QED
  BY <1>3 DEF Max, T

\* The log and the recent part of it are finite.
LEMMA LogFinite ==
  ASSUME Shape
  PROVE  IsFiniteSet(log) /\ IsFiniteSet(Streak) /\ log \subseteq Nat /\ absences \subseteq Nat
<1>1. IsFiniteSet(1 .. clock)
  BY FS_Interval DEF Shape
<1>2. IsFiniteSet(log)
  BY <1>1, FS_Subset DEF Shape
<1>3. Streak \subseteq log
  BY DEF Streak
<1>4. IsFiniteSet(Streak)
  BY <1>2, <1>3, FS_Subset
<1>5. log \subseteq Nat /\ absences \subseteq Nat
  BY DEF Shape
<1> QED
  BY <1>2, <1>4, <1>5

\* An observation after everything known is one more, and one more recent one.
LEMMA OneMoreSeen ==
  ASSUME Shape, NEW t \in Nat, \A u \in log \cup absences : u < t,
         log' = log \cup {t}, absences' = absences
  PROVE  /\ Cardinality(log') = Cardinality(log) + 1
         /\ Cardinality(Streak') = Cardinality(Streak) + 1
         /\ Max(log') = t
<1>1. t \notin log /\ t \notin Streak
  BY LogFinite DEF Streak
<1>2. Streak' = Streak \cup {t}
  BY LogFinite DEF Streak
<1>3. Max(log') = t
  BY LogFinite, MaxOfLatest
<1>4. Cardinality(log \cup {t}) = Cardinality(log) + 1
  BY <1>1, LogFinite, FS_AddElement
<1>5. Cardinality(Streak \cup {t}) = Cardinality(Streak) + 1
  BY <1>1, LogFinite, FS_AddElement
<1> QED
  BY <1>2, <1>3, <1>4, <1>5

\* After an absence nothing is recent.
LEMMA NothingRecent ==
  ASSUME Shape, NEW t, AfterAll(t)
  PROVE  Streak = {} /\ Cardinality(Streak) = 0
<1>1. Streak = {}
  <2> SUFFICES ASSUME NEW u \in Streak PROVE FALSE
    OBVIOUS
  <2>1. u < t /\ t < u /\ u \in Nat /\ t \in Nat
    BY LogFinite DEF Streak, AfterAll
  <2> QED
    BY <2>1
<1> QED
  BY <1>1, FS_EmptySet

\* What reconcile() makes of a row it sees again.
LEMMA SeenColumns ==
  ASSUME NEW f \in Row, NEW c \in Candidate, NEW t \in Nat,
         f.status = "resolved" => f.consecutive_observations = 0
  PROVE  LET g == Reobserved(f, c, t)
         IN  /\ g.observation_count = f.observation_count + 1
             /\ g.consecutive_observations = f.consecutive_observations + 1
             /\ g.last_observed_at = t
             /\ g.status # "resolved"
             /\ f.status = "resolved" => g.streak_started_at = t /\ g.resolved_at = Never
             /\ f.status # "resolved" =>
                  g.streak_started_at = f.streak_started_at /\ g.resolved_at = f.resolved_at
<1>1. CASE f.status = "resolved"
  BY <1>1 DEF Reobserved, Reappeared, StatusFor, Row
<1>2. CASE f.status # "resolved"
  BY <1>2 DEF Reobserved, Continued, StatusFor, Row
<1> QED
  BY <1>1, <1>2

\* What reconcile() makes of a row whose resource is absent.
LEMMA AbsentColumns ==
  ASSUME NEW f \in Row, NEW t \in Nat
  PROVE  LET g == Resolved(f, t)
         IN  /\ g.observation_count = f.observation_count
             /\ g.last_observed_at = f.last_observed_at
             /\ f.status = "resolved" => g = f
             /\ f.status # "resolved" =>
                  g.status = "resolved" /\ g.resolved_at = t /\ g.consecutive_observations = 0
BY DEF Resolved, Row, FindingStatus

\* An UPDATE by a transaction whose columns of the history were still those of
\* the row writes its own; a status it did not change is that of the row.
LEMMA CommitColumns ==
  ASSUME row \in Row, NEW old \in Row, NEW new \in Row,
         \A c \in History : old[c] = row[c] \/ new[c] = old[c]
  PROVE  LET w == Written(old, new)
         IN  /\ (\A c \in History : old[c] = row[c]) => \A c \in History : w[c] = new[c]
             /\ (\A c \in History : new[c] = old[c]) => \A c \in History : w[c] = row[c]
             /\ w.status \in {row.status, new.status}
             /\ new.status # old.status => w.status = new.status
<1>1. \A c \in Column :
        Written(old, new)[c] = IF new[c] = old[c] THEN row[c] ELSE new[c]
  BY WrittenColumns
<1>2. "status" \in Column /\ History \subseteq Column
  BY DEF Column
<1> QED
  BY <1>1, <1>2

\* The rows and the log a commit of a scan that saw the resource leaves.
LEMMA SeenCommit ==
  ASSUME Shape, HInv, NEW s \in Scanner, ScanCommit(s), tx[s].verdict \in {"plain", "tagged"}
  PROVE  RowSound'
<1> DEFINE old == tx[s].old
           new == tx[s].new
           t == tx[s].at
<1>1. /\ tx[s].open /\ row' = Written(old, new) /\ log' = log \cup {t} /\ absences' = absences
      /\ ~revived' => ~revived \/ old.status = "resolved"
  BY DEF ScanCommit
<1>2. t \in Nat /\ old \in Row /\ new \in Row /\ row \in Row
  BY <1>1, OpenIsOpened DEF Opened, Shape
<1>3. /\ \A u \in log \cup absences : u < t
      /\ \A c \in History : old[c] = row[c]
      /\ old.status = "resolved" => AfterAll(row.resolved_at)
      /\ row.status = "resolved" => old.status = "resolved"
  BY <1>1 DEF HInv, ScanAlone
<1>4. PICK c \in Candidate : new = Reobserved(old, c, t)
  BY <1>1 DEF HInv, ScanAlone, Decided
<1> HIDE DEF old, new, t
<1>5. row'.observation_count = new.observation_count
      /\ row'.consecutive_observations = new.consecutive_observations
      /\ row'.last_observed_at = new.last_observed_at
      /\ row'.streak_started_at = new.streak_started_at
      /\ row'.resolved_at = new.resolved_at
      /\ row'.status \in {row.status, new.status}
      /\ (new.status # old.status => row'.status = new.status)
  BY <1>1, <1>2, <1>3, CommitColumns DEF History
<1>6. old.observation_count = Cardinality(log) /\ old.consecutive_observations = Cardinality(Streak)
  BY <1>3 DEF HInv, RowSound, Counts, History
<1>7. old.status = "resolved" => old.consecutive_observations = 0
  BY <1>3, <1>6, NothingRecent
<1>8. /\ new.observation_count = old.observation_count + 1
      /\ new.consecutive_observations = old.consecutive_observations + 1
      /\ new.last_observed_at = t
      /\ new.status # "resolved"
      /\ old.status = "resolved" => new.streak_started_at = t /\ new.resolved_at = Never
      /\ old.status # "resolved" =>
           new.streak_started_at = old.streak_started_at /\ new.resolved_at = old.resolved_at
  BY <1>2, <1>4, <1>7, SeenColumns
<1>9. /\ Cardinality(log') = Cardinality(log) + 1
      /\ Cardinality(Streak') = Cardinality(Streak) + 1
      /\ Max(log') = t
  BY <1>1, <1>2, <1>3, OneMoreSeen
<1>10. Gone' = {}
  <2> SUFFICES ASSUME NEW a \in absences, t < a PROVE FALSE
    BY <1>1 DEF Gone
  <2>1. a < t /\ a \in Nat
    BY <1>3, LogFinite
  <2> QED
    BY <2>1, <1>2
<1>11. Counts'
  BY <1>5, <1>6, <1>8, <1>9, <1>10 DEF Counts
<1>12. row'.status # "resolved"
  BY <1>3, <1>5, <1>8
<1>13. Streak' = Streak \cup {t} /\ \A u \in Streak : u \in Nat /\ u < t
  BY <1>1, <1>2, <1>3, LogFinite DEF Streak
<1>14. Told'
  <2> SUFFICES ASSUME ~revived'
               PROVE  row'.resolved_at = Never /\ Earliest(Streak', row'.streak_started_at)
    BY <1>10, <1>12 DEF Told
  <2>1. CASE old.status = "resolved"
    <3>1. Streak = {}
      BY <1>3, <2>1, NothingRecent
    <3> QED
      BY <1>2, <1>5, <1>8, <1>13, <2>1, <3>1 DEF Earliest
  <2>2. CASE old.status # "resolved"
    <3>1. ~revived /\ row.status # "resolved"
      BY <1>1, <1>3, <2>2
    <3>2. row.resolved_at = Never /\ Earliest(Streak, row.streak_started_at)
      BY <3>1 DEF HInv, RowSound, Told
    <3>3. row'.resolved_at = row.resolved_at /\ row'.streak_started_at = row.streak_started_at
      BY <1>3, <1>5, <1>8, <2>2 DEF History
    <3>4. Earliest(Streak \cup {t}, row.streak_started_at)
      BY <1>2, <1>13, <3>2 DEF Earliest
    <3> QED
      BY <1>13, <3>2, <3>3, <3>4
  <2> QED
    BY <2>1, <2>2
<1> QED
  BY <1>11, <1>12, <1>14 DEF RowSound, ResolvedAfterAll

\* ... and one that did not.
LEMMA AbsentCommit ==
  ASSUME Shape, HInv, NEW s \in Scanner, ScanCommit(s), tx[s].verdict = "absent"
  PROVE  RowSound'
<1> DEFINE old == tx[s].old
           new == tx[s].new
           t == tx[s].at
<1>1. /\ tx[s].open /\ row' = Written(old, new) /\ log' = log /\ absences' = absences \cup {t}
      /\ ~revived' => ~revived
  BY DEF ScanCommit
<1>2. t \in Nat /\ old \in Row /\ new \in Row /\ row \in Row
  BY <1>1, OpenIsOpened DEF Opened, Shape
<1>3. /\ \A u \in log \cup absences : u < t
      /\ \A c \in History : old[c] = row[c]
      /\ old.status = "resolved" => AfterAll(row.resolved_at)
      /\ row.status = "resolved" => old.status = "resolved"
      /\ new = Resolved(old, t)
  BY <1>1 DEF HInv, ScanAlone, Decided
<1> HIDE DEF old, new, t
<1>4. /\ row'.observation_count = new.observation_count
      /\ row'.consecutive_observations = new.consecutive_observations
      /\ row'.last_observed_at = new.last_observed_at
      /\ row'.resolved_at = new.resolved_at
      /\ row'.status \in {row.status, new.status}
      /\ new.status # old.status => row'.status = new.status
  BY <1>1, <1>2, <1>3, CommitColumns DEF History
<1>5. /\ old.observation_count = Cardinality(log)
      /\ old.consecutive_observations = Cardinality(Streak)
      /\ old.last_observed_at = Max(log)
      /\ old.resolved_at = row.resolved_at
  BY <1>3 DEF HInv, RowSound, Counts, History
<1>6. /\ new.observation_count = old.observation_count
      /\ new.last_observed_at = old.last_observed_at
      /\ old.status = "resolved" => new = old
      /\ old.status # "resolved" =>
           new.status = "resolved" /\ new.resolved_at = t /\ new.consecutive_observations = 0
  BY <1>2, <1>3, AbsentColumns
<1>7. Streak' = {}
  <2> SUFFICES ASSUME NEW u \in log, t < u PROVE FALSE
    BY <1>1 DEF Streak
  <2>1. u < t /\ u \in Nat
    BY <1>3, LogFinite
  <2> QED
    BY <2>1, <1>2
<1>8. Cardinality(Streak') = 0
  BY <1>7, FS_EmptySet
<1>9. new.consecutive_observations = 0 /\ new.resolved_at \in absences'
      /\ \A u \in log' : u < new.resolved_at
  <2>1. CASE old.status = "resolved"
    <3>1. AfterAll(row.resolved_at) /\ Cardinality(Streak) = 0
      BY <1>3, <2>1, NothingRecent
    <3> QED
      BY <3>1, <2>1, <1>1, <1>5, <1>6 DEF AfterAll
  <2>2. CASE old.status # "resolved"
    BY <2>2, <1>1, <1>3, <1>6
  <2> QED
    BY <2>1, <2>2
<1>10. Counts'
  BY <1>1, <1>4, <1>5, <1>6, <1>8, <1>9 DEF Counts, Gone
<1>11. ResolvedAfterAll'
  BY <1>4, <1>9 DEF ResolvedAfterAll, AfterAll
<1>12. Gone' = Gone \cup {t} /\ \A a \in Gone : a \in Nat /\ a < t
  BY <1>1, <1>2, <1>3, LogFinite DEF Gone
<1>13. Told'
  <2> SUFFICES ASSUME ~revived'
               PROVE  row'.status = "resolved" /\ Earliest(Gone', row'.resolved_at)
    BY <1>12 DEF Told
  <2>1. CASE old.status = "resolved"
    <3>1. Gone # {} /\ new = old
      BY <1>3, <1>6, <2>1 DEF AfterAll, Gone
    <3>2. row.status = "resolved" /\ Earliest(Gone, row.resolved_at)
      BY <1>1, <3>1 DEF HInv, RowSound, Told
    <3>3. row'.status = "resolved" /\ row'.resolved_at = row.resolved_at
      BY <1>4, <1>5, <2>1, <3>1, <3>2
    <3> QED
      BY <1>2, <1>12, <3>2, <3>3 DEF Earliest
  <2>2. CASE old.status # "resolved"
    <3>1. row.status # "resolved"
      BY <1>3, <2>2
    <3>2. Gone = {}
      BY <1>1, <3>1 DEF HInv, RowSound, Told
    <3>3. row'.status = "resolved" /\ row'.resolved_at = t
      BY <1>4, <1>6, <2>2
    <3> QED
      BY <1>2, <1>12, <3>2, <3>3 DEF Earliest
  <2> QED
    BY <2>1, <2>2
<1> QED
  BY <1>10, <1>11, <1>13 DEF RowSound

\* A scan that has just read the row agrees with it.
LEMMA ReadAgrees ==
  ASSUME Shape, HInv, NEW s \in Scanner, \A r \in Scanner : r = s,
         tx[s].open, NEW v \in {"plain", "tagged", "absent"}, NEW new \in Row,
         Decided([tx[s] EXCEPT !.verdict = v, !.old = row, !.new = new]),
         tx' = [tx EXCEPT ![s] = [tx[s] EXCEPT !.verdict = v, !.old = row, !.new = new]],
         UNCHANGED <<row, log, absences, clock, revived>>
  PROVE  HInv'
<1> DEFINE t == [tx[s] EXCEPT !.verdict = v, !.old = row, !.new = new]
<1>1. tx[s] \in Opened
  BY OpenIsOpened
<1>2. t.at = tx[s].at /\ t.old = row /\ t.verdict = v /\ Decided(t)
  BY <1>1 DEF Opened
<1>3. tx'[s] = t
  BY DEF Shape
<1> HIDE DEF t
<1>4. Decided(tx'[s])
  BY <1>2, <1>3
<1>5. tx[s].at = clock /\ \A u \in log \cup absences : u < clock
  BY DEF HInv, ScanAlone
<1>6. row.status = "resolved" => AfterAll(row.resolved_at)
  BY DEF HInv, RowSound, ResolvedAfterAll
<1>7. ScanAlone'
  <2> SUFFICES ASSUME NEW r \in Scanner, tx'[r].open
               PROVE  /\ tx'[r].at = clock /\ \A u \in log \cup absences : u < clock
                      /\ \A c \in History : tx'[r].old[c] = row[c]
                      /\ tx'[r].old.status = "resolved" => AfterAll(row.resolved_at)
                      /\ row.status = "resolved" => tx'[r].old.status = "resolved"
                      /\ Decided(tx'[r])
    BY DEF ScanAlone, AfterAll, Decided
  <2>1. r = s
    OBVIOUS
  <2>2. tx'[r].old = row /\ tx'[r].at = clock /\ Decided(tx'[r])
    BY <2>1, <1>2, <1>3, <1>5
  <2> QED
    BY <2>2, <1>5, <1>6
<1>8. PatchesKeepHistory'
  <2>1. \A p \in Patcher : tx'[p] = tx[p]
    BY FindingRaceAssumption DEF Shape
  <2>2. PatchesKeepHistory
    BY DEF HInv
  <2> SUFFICES ASSUME NEW p \in Patcher, tx'[p].open
               PROVE  /\ \A c \in History : tx'[p].new[c] = tx'[p].old[c]
                      /\ tx'[p].new.status # "resolved"
    BY DEF PatchesKeepHistory
  <2>3. tx'[p] = tx[p]
    BY <2>1
  <2> QED
    BY <2>2, <2>3 DEF PatchesKeepHistory
<1>9. RowSound'
  BY SoundKept DEF HInv
<1> QED
  BY <1>7, <1>8, <1>9 DEF HInv

\* Closing a scan leaves the requests.
LEMMA ClosedScan ==
  ASSUME Shape, HInv, NEW s \in Scanner, \A r \in Scanner : r = s, Close(s),
         RowSound'
  PROVE  HInv'
<1>1. tx'[s] = Closed /\ \A p \in Patcher : tx'[p] = tx[p]
  BY FindingRaceAssumption DEF Shape, Close
<1>2. ~Closed.open
  BY DEF Closed
<1>3. \A r \in Scanner : ~tx'[r].open
  BY <1>1, <1>2, Zenon
<1>4. ScanAlone'
  BY <1>3 DEF ScanAlone
<1>5. PatchesKeepHistory'
  BY <1>1 DEF HInv, PatchesKeepHistory
<1> QED
  BY <1>4, <1>5 DEF HInv

\* The only scanner keeps the history.
LEMMA ScanKeepsHistory ==
  ASSUME Shape, HInv, NEW s \in Scanner, \A r \in Scanner : r = s, Scan(s)
  PROVE  HInv'
<1>1. CASE ScanStart(s)
  <2> DEFINE t == [open |-> TRUE, at |-> clock + 1, verdict |-> "pending", old |-> row, new |-> row]
  <2>1. /\ tx' = [tx EXCEPT ![s] = t] /\ clock' = clock + 1
        /\ UNCHANGED <<row, log, absences, revived>>
    BY <1>1 DEF ScanStart
  <2>2. t.at = clock + 1 /\ t.verdict = "pending"
    OBVIOUS
  <2> HIDE DEF t
  <2>3. tx'[s] = t /\ \A p \in Patcher : tx'[p] = tx[p]
    BY <2>1, FindingRaceAssumption DEF Shape
  <2>4. \A u \in log \cup absences : u < clock + 1
    BY DEF Shape
  <2>5. ScanAlone'
    <3> SUFFICES ASSUME NEW r \in Scanner
                 PROVE  /\ tx'[r].at = clock' /\ \A u \in log \cup absences : u < clock'
                        /\ tx'[r].verdict = "pending"
      BY <2>1 DEF ScanAlone
    <3>1. r = s
      OBVIOUS
    <3> QED
      BY <3>1, <2>1, <2>2, <2>3, <2>4
  <2>6. PatchesKeepHistory'
    BY <2>3 DEF HInv, PatchesKeepHistory
  <2>7. RowSound'
    BY <2>1, SoundKept DEF HInv
  <2> QED
    BY <2>5, <2>6, <2>7 DEF HInv
<1>2. ASSUME NEW c \in Candidates, ScanSees(s, c) PROVE HInv'
  <2> DEFINE v == IF c.ignored THEN "tagged" ELSE "plain"
             new == Reobserved(row, c, tx[s].at)
  <2>1. /\ tx[s].open
        /\ tx' = [tx EXCEPT ![s] = [tx[s] EXCEPT !.verdict = v, !.old = row, !.new = new]]
        /\ UNCHANGED <<row, log, absences, clock, revived>>
    BY <1>2 DEF ScanSees, Shape
  <2>2. tx[s] \in Opened
    BY <2>1, OpenIsOpened
  <2>3. c \in Candidate /\ tx[s].at \in Nat /\ row \in Row
    BY <2>2, FindingRaceAssumption DEF Opened, Shape
  <2>4. new \in Row
    BY <2>3, ReobservedRow
  <2>5. v \in {"plain", "tagged"} /\ new = Reobserved(row, c, tx[s].at)
    OBVIOUS
  <2> HIDE DEF v, new
  <2>6. Decided([tx[s] EXCEPT !.verdict = v, !.old = row, !.new = new])
    BY <2>2, <2>3, <2>5 DEF Decided, Opened
  <2> QED
    BY <2>1, <2>4, <2>5, <2>6, ReadAgrees
<1>3. CASE ScanMisses(s)
  <2> DEFINE new == Resolved(row, tx[s].at)
  <2>1. /\ tx[s].open
        /\ tx' = [tx EXCEPT ![s] = [tx[s] EXCEPT !.verdict = "absent", !.old = row, !.new = new]]
        /\ UNCHANGED <<row, log, absences, clock, revived>>
    BY <1>3 DEF ScanMisses, Shape
  <2>2. tx[s] \in Opened
    BY <2>1, OpenIsOpened
  <2>3. tx[s].at \in Nat /\ row \in Row
    BY <2>2 DEF Opened, Shape
  <2>4. new \in Row /\ new = Resolved(row, tx[s].at)
    BY <2>3, ResolvedRow
  <2> HIDE DEF new
  <2>5. Decided([tx[s] EXCEPT !.verdict = "absent", !.old = row, !.new = new])
    BY <2>2, <2>4 DEF Decided, Opened
  <2> QED
    BY <2>1, <2>4, <2>5, ReadAgrees
<1>4. CASE ScanCommit(s)
  <2>1. Close(s) /\ tx[s].verdict \in {"plain", "tagged", "absent"}
    BY <1>4 DEF ScanCommit
  <2>2. RowSound'
    BY <1>4, <2>1, SeenCommit, AbsentCommit
  <2> QED
    BY <2>1, <2>2, ClosedScan
<1>5. CASE ScanLeaves(s)
  <2>1. Close(s) /\ UNCHANGED <<row, log, absences, revived>>
    BY <1>5 DEF ScanLeaves
  <2>2. RowSound'
    BY <2>1, SoundKept DEF HInv
  <2> QED
    BY <2>1, <2>2, ClosedScan
<1> QED
  BY <1>1, <1>2, <1>3, <1>4, <1>5 DEF Scan

\* A request that reads the row opens a transaction of its own.
LEMMA ReadKeepsHistory ==
  ASSUME Shape, HInv, NEW p \in Patcher, NEW from, NEW new,
         \A c \in History : new[c] = row[c], new.status # "resolved",
         PatchReads(p, from, new)
  PROVE  HInv'
<1> DEFINE t == [open |-> TRUE, at |-> clock, verdict |-> "patch", old |-> row, new |-> new]
<1>1. tx' = [tx EXCEPT ![p] = t] /\ UNCHANGED <<row, log, absences, clock, revived>>
  BY DEF PatchReads
<1>2. t.new = new /\ t.old = row
  OBVIOUS
<1> HIDE DEF t
<1>3. /\ \A s \in Scanner : tx'[s] = tx[s]
      /\ \A q \in Patcher : q # p => tx'[q] = tx[q]
      /\ tx'[p] = t
  BY <1>1, FindingRaceAssumption DEF Shape
<1>4. ScanAlone'
  BY <1>1, <1>3 DEF HInv, ScanAlone, AfterAll, Decided
<1>5. PatchesKeepHistory'
  BY <1>2, <1>3 DEF HInv, PatchesKeepHistory
<1>6. RowSound'
  BY <1>1, SoundKept DEF HInv
<1> QED
  BY <1>4, <1>5, <1>6 DEF HInv

\* A request that commits leaves the columns of the history alone.
LEMMA PatchCommitKeepsHistory ==
  ASSUME Shape, HInv, NEW p \in Patcher, PatchCommit(p)
  PROVE  HInv'
<1>1. /\ tx[p].open /\ row' = Written(tx[p].old, tx[p].new)
      /\ tx' = [tx EXCEPT ![p] = Closed]
      /\ UNCHANGED <<log, absences, clock>>
      /\ ~revived' => ~revived /\ row.status # "resolved"
  BY DEF PatchCommit, Close
<1>2. tx[p].old \in Row /\ tx[p].new \in Row /\ row \in Row
  BY <1>1, OpenIsOpened DEF Opened, Shape
<1>3. (\A c \in History : tx[p].new[c] = tx[p].old[c]) /\ tx[p].new.status # "resolved"
  BY <1>1 DEF HInv, PatchesKeepHistory
<1>4. (\A c \in History : row'[c] = row[c]) /\ row'.status \in {row.status, tx[p].new.status}
  BY <1>1, <1>2, <1>3, CommitColumns
<1>5. /\ row'.observation_count = row.observation_count
      /\ row'.consecutive_observations = row.consecutive_observations
      /\ row'.last_observed_at = row.last_observed_at
      /\ row'.resolved_at = row.resolved_at
      /\ row'.streak_started_at = row.streak_started_at
      /\ row'.status = "resolved" => row.status = "resolved"
  BY <1>3, <1>4 DEF History
<1>6. ~Closed.open
  BY DEF Closed
<1>7. tx'[p] = Closed /\ (\A s \in Scanner : tx'[s] = tx[s])
      /\ \A q \in Patcher : q # p => tx'[q] = tx[q]
  BY <1>1, FindingRaceAssumption DEF Shape
<1>8. ~tx'[p].open
  BY <1>6, <1>7, Zenon
<1>9. PatchesKeepHistory'
  BY <1>7, <1>8 DEF HInv, PatchesKeepHistory
<1>10. ScanAlone'
  <2> SUFFICES ASSUME NEW s \in Scanner, tx[s].open
               PROVE  /\ tx[s].at = clock /\ \A t \in log \cup absences : t < clock
                      /\ tx[s].verdict # "pending" =>
                           /\ \A c \in History : tx[s].old[c] = row'[c]
                           /\ tx[s].old.status = "resolved" => AfterAll(row'.resolved_at)
                           /\ row'.status = "resolved" => tx[s].old.status = "resolved"
                           /\ Decided(tx[s])
    BY <1>1, <1>7 DEF ScanAlone, AfterAll, Decided
  <2> QED
    BY <1>4, <1>5 DEF HInv, ScanAlone
<1>11. Counts' /\ ResolvedAfterAll'
  BY <1>1, <1>5 DEF HInv, RowSound, Counts, ResolvedAfterAll, AfterAll, Streak, Gone
<1>12. Told'
  <2> SUFFICES ASSUME ~revived' PROVE Told'
    BY DEF Told
  <2>1. /\ Gone = {} /\ row.resolved_at = Never /\ Earliest(Streak, row.streak_started_at)
        /\ row'.status # "resolved"
    BY <1>1, <1>5 DEF HInv, RowSound, Told
  <2>2. Gone' = Gone /\ Streak' = Streak
    BY <1>1 DEF Gone, Streak
  <2> QED
    BY <1>5, <2>1, <2>2 DEF Told
<1> QED
  BY <1>9, <1>10, <1>11, <1>12 DEF HInv, RowSound

\* As long as one process scans, counters, latest observation and resolution tell the
\* history of the scans, whatever requests read before a scan and write after it; and
\* status, streak and resolution say whether the finding is gone, since when, or since
\* when it is there, but for a finding that such a request took out of its resolution.
THEOREM RowIsHistory ==
  ASSUME \A r, s \in Scanner : r = s
  PROVE  Spec => []RowTellsHistory
<1>1. Init => HInv
  <2> SUFFICES ASSUME Init PROVE HInv
    OBVIOUS
  <2>1. /\ log = {1} /\ absences = {} /\ row.status = "open" /\ row.observation_count = 1
        /\ row.consecutive_observations = 1 /\ row.last_observed_at = 1
        /\ \A a \in Scanner \cup Patcher : tx[a] = Closed
    BY DEF Init
  <2>2. ~Closed.open
    BY DEF Closed
  <2>3. \A a \in Scanner \cup Patcher : ~tx[a].open
    BY <2>1, <2>2, Zenon
  <2>4. Cardinality({1}) = 1
    BY FS_Singleton
  <2>5. {t \in log : \A a \in absences : a < t} = {1}
    BY <2>1
  <2>6. (CHOOSE x \in {1} : \A y \in {1} : x >= y) = 1
    OBVIOUS
  <2>7. Max(log) = 1
    BY <2>1, <2>6 DEF Max
  <2>8. Streak = {1} /\ Gone = {} /\ row.streak_started_at = 1 /\ row.resolved_at = Never
    BY <2>1, <2>5 DEF Init, Streak, Gone
  <2>9. Counts /\ Told
    BY <2>1, <2>4, <2>7, <2>8 DEF Counts, Told, Earliest
  <2> QED
    BY <2>1, <2>3, <2>9 DEF HInv, RowSound, ResolvedAfterAll, ScanAlone, PatchesKeepHistory
<1>2. Shape /\ HInv /\ [Next]_vars => HInv'
  <2> SUFFICES ASSUME Shape, HInv, [Next]_vars PROVE HInv'
    OBVIOUS
  <2>1. ASSUME NEW s \in Scanner, Scan(s) PROVE HInv'
    BY <2>1, ScanKeepsHistory
  <2>2. ASSUME NEW p \in Patcher, Dismiss(p) PROVE HInv'
    <3> DEFINE new == [row EXCEPT !.status = "dismissed", !.dismissed_at = clock]
    <3>1. (\A c \in History : new[c] = row[c]) /\ new.status # "resolved"
      BY DEF History, Shape, Row
    <3>2. PatchReads(p, "open", new)
      BY <2>2 DEF Dismiss
    <3> HIDE DEF new
    <3> QED
      BY <3>1, <3>2, ReadKeepsHistory
  <2>3. ASSUME NEW p \in Patcher, Reopen(p) PROVE HInv'
    <3> DEFINE new == [row EXCEPT !.status = "open", !.dismissed_at = Never]
    <3>1. (\A c \in History : new[c] = row[c]) /\ new.status # "resolved"
      BY DEF History, Shape, Row
    <3>2. PatchReads(p, "dismissed", new)
      BY <2>3 DEF Reopen
    <3> HIDE DEF new
    <3> QED
      BY <3>1, <3>2, ReadKeepsHistory
  <2>4. ASSUME NEW p \in Patcher, PatchCommit(p) PROVE HInv'
    BY <2>4, PatchCommitKeepsHistory
  <2>5. CASE UNCHANGED vars
    BY <2>5, SoundKept DEF vars, HInv, AfterAll, ScanAlone, Decided, PatchesKeepHistory
  <2> QED
    BY <2>1, <2>2, <2>3, <2>4, <2>5 DEF Next
<1>3. Shape /\ HInv => RowTellsHistory
  BY SoundTells DEF HInv
<1> QED
  BY <1>1, <1>2, <1>3, ShapeHolds, PTL DEF Spec
===============================================================================
