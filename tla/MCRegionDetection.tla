-------------------------- MODULE MCRegionDetection --------------------------
(***************************************************************************)
(* Two volumes on two pages, an instance that can hold one of them and the *)
(* address, a protected snapshot, and a stack that owns a volume.          *)
(***************************************************************************)
EXTENDS RegionDetection

CONSTANTS v1, v2, a, i, s, st

MCSource == [x \in {s} |-> v1]
MCDevices == [x \in {i} |-> {v2, a}]
MCMembers == [x \in {st} |-> {v1, a}]
MCProtection == [x \in {s} |-> {"image", "sharing", "lock"}]
MCPageOf == [x \in {v1, v2, a, i, s, st} |-> IF x = v2 THEN 2 ELSE 1]

Account(first, second, address, snapshot) ==
  [x \in {v1, v2, a, i, s, st} |->
     CASE x = v1 -> first [] x = v2 -> second [] x = a -> address
       [] x = i -> "stopped" [] x = s -> snapshot [] OTHER -> "live"]

MCAccounts ==
  {Account("available", "in-use", "free", "completed"),
   Account("gone", "available", "in-use", "completed"),
   Account("unborn", "in-use", "in-use", "unborn")}
===============================================================================
