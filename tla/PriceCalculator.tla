--------------------------- MODULE PriceCalculator ---------------------------
(***************************************************************************)
(* What a resource costs a month (app/pricing/calculator.py), which unit   *)
(* prices that takes, which ones a lookup loads for a request and under    *)
(* which key it stores them (app/pricing/aws_api.py).                      *)
(*                                                                         *)
(* Prices and quantities are integers.  A table of unit prices is a        *)
(* function whose domain are the units it knows; a unit outside it is one  *)
(* whose price is None.  The price of "io2 tiers" is a set of tiers.       *)
(***************************************************************************)
EXTENDS Integers, Sequences, FiniteSets, FiniteSetsExt

CONSTANTS
  Gp3Iops, Gp3Throughput,   \* what a gp3 volume includes: 3000 IOPS, 125 MiB/s
  Hours                     \* hours of a month, 730

ASSUME CalculatorAssumption == Gp3Iops \in Nat /\ Gp3Throughput \in Nat /\ Hours \in Nat

\* "gp9" stands for a type that the shipped table does not list; st1, sc1 and
\* standard are priced like gp2.
Storage == [gp2 |-> "gp2 storage", gp3 |-> "gp3 storage", io1 |-> "io1 storage",
            io2 |-> "io2 storage", gp9 |-> "gp9 storage"]
VolumeType == DOMAIN Storage

Unit == {Storage[t] : t \in VolumeType} \cup
  {"gp3 iops", "gp3 throughput", "io1 iops", "io2 tiers",
   "standard snapshot", "archive snapshot", "public ipv4"}

\* Tiers begin at 0, each but the open one ends where another begins, and none
\* overlap.
IsTiers(tiers) ==
  /\ IsFiniteSet(tiers)
  /\ \A t \in tiers : t.begin \in Nat /\ t.end \in Nat /\ t.open \in BOOLEAN /\ t.price \in Int
  /\ \E t \in tiers : t.begin = 0
  /\ \A t \in tiers : t.open \/ (t.begin < t.end /\ \E u \in tiers : u.begin = t.end)
  /\ \A t, u \in tiers : t # u /\ t.begin <= u.begin => ~t.open /\ t.end <= u.begin

IsTable(price) ==
  /\ DOMAIN price \subseteq Unit
  /\ \A u \in DOMAIN price : IF u = "io2 tiers" THEN IsTiers(price[u]) ELSE price[u] \in Int

\* A request: the volumes of an EBS volume or of a stopped instance, the
\* addresses of an Elastic IP or of a stopped instance, a snapshot's tier.
SnapshotUnit(request) ==
  IF request.tier = "archive" THEN "archive snapshot" ELSE "standard snapshot"

TypesOf(request) == {request.volumes[i].type : i \in DOMAIN request.volumes}

AtLeastZero(n) == IF n > 0 THEN n ELSE 0
Least(a, b) == IF a < b THEN a ELSE b

-------------------------------------------------------------------------------
(***************************************************************************)
(* calculate().                                                            *)
(***************************************************************************)

\* The part of the provisioned IOPS that falls into a tier; the last is open.
TierQuantity(iops, tier) ==
  AtLeastZero((IF tier.open THEN iops ELSE Least(iops, tier.end)) - tier.begin)

\* Every price of a volume type, whatever the volume at hand provisions.
TypeUnits(type) ==
  {Storage[type]} \cup
  CASE type = "gp3" -> {"gp3 iops", "gp3 throughput"}
    [] type = "io1" -> {"io1 iops"}
    [] type = "io2" -> {"io2 tiers"}
    [] OTHER        -> {}

\* What a volume is charged for, tiers aside.
Quantity(volume, unit) ==
  CASE unit = "gp3 iops"       -> AtLeastZero(volume.iops - Gp3Iops)
    [] unit = "gp3 throughput" -> AtLeastZero(volume.throughput - Gp3Throughput)
    [] unit = "io1 iops"       -> volume.iops
    [] OTHER                   -> volume.size

\* gp3 asks for the prices of what exceeds the included amounts only.
VolumeNeeds(volume) ==
  {u \in TypeUnits(volume.type) :
     u \in {"gp3 iops", "gp3 throughput"} => Quantity(volume, u) > 0}

VolumeCost(volume, price) ==
  SumFunction([u \in VolumeNeeds(volume) \ {"io2 tiers"} |-> Quantity(volume, u) * price[u]])
  + IF volume.type = "io2"
    THEN SumFunction([tier \in price["io2 tiers"] |-> TierQuantity(volume.iops, tier) * tier.price])
    ELSE 0

\* The units calculate() insists on; a missing one is a PricingLookupError.
Needs(request) ==
  CASE request.kind = "snapshot" -> {SnapshotUnit(request)}
    [] OTHER ->
         (UNION {VolumeNeeds(request.volumes[i]) : i \in DOMAIN request.volumes})
         \cup (IF request.addresses > 0 THEN {"public ipv4"} ELSE {})

Calculate(request, price) ==
  CASE request.kind = "snapshot" -> request.size * price[SnapshotUnit(request)]
    [] OTHER ->
         SumFunction([i \in DOMAIN request.volumes |-> VolumeCost(request.volumes[i], price)])
         + IF request.addresses > 0 THEN request.addresses * Hours * price["public ipv4"] ELSE 0

-------------------------------------------------------------------------------
(***************************************************************************)
(* _load() and the key of the cache.                                       *)
(***************************************************************************)

Loaded(request) ==
  CASE request.kind = "snapshot" -> {SnapshotUnit(request)}
    [] OTHER -> (UNION {TypeUnits(t) : t \in TypesOf(request)})
                \cup (IF request.addresses > 0 THEN {"public ipv4"} ELSE {})

\* Mutant: a stopped instance's key does not tell whether it has an address.
KeyWithoutAddress(request) ==
  CASE request.kind = "snapshot"   -> <<"snapshot", request.region, request.tier>>
    [] request.kind = "elastic_ip" -> <<"elastic_ip", request.region>>
    [] request.kind = "ebs"        -> <<"ebs", request.region, TypesOf(request)>>
    [] OTHER                       -> <<"stopped_instance", request.region, TypesOf(request), TRUE>>

\* The hash of the identity: equal for equal identities only.
KeyOf(request) ==
  CASE request.kind = "snapshot"   -> <<"snapshot", request.region, request.tier>>
    [] request.kind = "elastic_ip" -> <<"elastic_ip", request.region>>
    [] request.kind = "ebs"        -> <<"ebs", request.region, TypesOf(request)>>
    [] OTHER                       -> <<"stopped_instance", request.region, TypesOf(request),
                                        request.addresses > 0>>

-------------------------------------------------------------------------------
(***************************************************************************)
(* The methodology of docs/pricing.md, as a definition to compare with:    *)
(* each provisioned unit is charged the price that applies to that unit.   *)
(***************************************************************************)

\* Of the tiers of a list (IsTiers) one holds the n-th provisioned IOPS.
TierOf(n, tiers) == CHOOSE t \in tiers : t.begin < n /\ (t.open \/ n <= t.end)

VolumeMethodology(volume, price) ==
  volume.size * price[Storage[volume.type]] +
  CASE volume.type = "gp3" ->
         price["gp3 iops"] * Cardinality({n \in 1..volume.iops : n > Gp3Iops})
         + price["gp3 throughput"] * Cardinality({n \in 1..volume.throughput : n > Gp3Throughput})
    [] volume.type = "io1" -> price["io1 iops"] * Cardinality(1..volume.iops)
    [] volume.type = "io2" ->
         SumFunction([n \in 1..volume.iops |-> TierOf(n, price["io2 tiers"]).price])
    [] OTHER -> 0

Methodology(request, price) ==
  CASE request.kind = "snapshot" ->
         request.size * price[IF request.tier = "archive" THEN "archive snapshot" ELSE "standard snapshot"]
    [] OTHER ->
         SumFunction([i \in DOMAIN request.volumes |-> VolumeMethodology(request.volumes[i], price)])
         + request.addresses * Hours * price["public ipv4"]
===============================================================================
