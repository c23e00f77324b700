--------------------------- MODULE FindingLifecycle ---------------------------
(***************************************************************************)
(* What the observation history promises of a finding, without its rows,   *)
(* its log or its clock: the life of a finding as a function of what the   *)
(* scans established about its resource, and of the user's dismissals.     *)
(* Findings implements it.                                                 *)
(***************************************************************************)
EXTENDS Naturals

CONSTANT Identity

VARIABLES
  status,   \* "unseen" until a scan first observes the finding
  streak    \* observations since the condition last began

vars == <<status, streak>>

Status == {"unseen", "open", "ignored", "dismissed", "resolved"}

\* What one scan establishes: it looked and saw the resource (with the ignore
\* tag or without), it looked and did not see it, or it did not look.
Verdict == {"plain", "tagged", "absent", "unknown"}

Seen(v) == v \in {"plain", "tagged"}

StatusAfter(s, v) ==
  CASE Seen(v) /\ s = "dismissed"    -> "dismissed"
    [] v = "plain" /\ s # "dismissed"  -> "open"
    [] v = "tagged" /\ s # "dismissed" -> "ignored"
    [] v = "absent" /\ s # "unseen"    -> "resolved"
    [] OTHER                           -> s

StreakAfter(n, v) ==
  CASE Seen(v)      -> n + 1
    [] v = "absent" -> 0
    [] OTHER        -> n

Init ==
  /\ status = [i \in Identity |-> "unseen"]
  /\ streak = [i \in Identity |-> 0]

Scan(verdict) ==
  /\ status' = [i \in Identity |-> StatusAfter(status[i], verdict[i])]
  /\ streak' = [i \in Identity |-> StreakAfter(streak[i], verdict[i])]

Dismiss(i) ==
  /\ status[i] = "open"
  /\ status' = [status EXCEPT ![i] = "dismissed"]
  /\ UNCHANGED streak

Reopen(i) ==
  /\ status[i] = "dismissed"
  /\ status' = [status EXCEPT ![i] = "open"]
  /\ UNCHANGED streak

Next ==
  \/ \E verdict \in [Identity -> Verdict] : Scan(verdict)
  \/ \E i \in Identity : Dismiss(i) \/ Reopen(i)

Spec == Init /\ [][Next]_vars
===============================================================================
