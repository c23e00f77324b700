------------------------------ MODULE MCFindings ------------------------------
(***************************************************************************)
(* A small instance of Findings, two ticks to the day: a volume beside a   *)
(* stopped instance, each in a cell of its own.                            *)
(***************************************************************************)
EXTENDS Findings, TLC

CONSTANTS volume, instance, volumeCell, instanceCell

TwoCellOf == volume :> volumeCell @@ instance :> instanceCell
TwoDetectorOf == volume :> "unattached_ebs_volume" @@ instance :> "stopped_ec2_instance"

Plain == [ignored |-> FALSE, ownership |-> "UNKNOWN", blocked |-> FALSE]

\* A plain resource, and one with the ignore tag that a stack probably owns.
TwoCandidates == {Plain, [Plain EXCEPT !.ignored = TRUE, !.ownership = "LIKELY"]}

\* A day and any observation, and any age of two observations.
MCSettingsChoices ==
  {[threshold |-> [d \in Detectors |-> 1], minimum |-> 1],
   [threshold |-> [d \in Detectors |-> 0], minimum |-> 2]}

ThreeInstants == 1..3
===============================================================================
