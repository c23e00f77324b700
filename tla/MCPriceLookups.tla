--------------------------- MODULE MCPriceLookups ---------------------------
(***************************************************************************)
(* Two regions, one of them unknown to the shipped table; volumes below,   *)
(* at and above what their type includes; prices that rise with time.      *)
(***************************************************************************)
EXTENDS PriceLookups

CONSTANTS api, cli

Volume(type, size, iops, throughput) ==
  [type |-> type, size |-> size, iops |-> iops, throughput |-> throughput]

Request(kind, volumes, addresses) ==
  [kind |-> kind, region |-> "us-east-1", volumes |-> volumes, addresses |-> addresses,
   tier |-> "standard", size |-> 0]

Plain == Request("ebs", <<Volume("gp3", 2, 1, 1)>>, 0)
Fast == Request("ebs", <<Volume("gp3", 1, 4, 2)>>, 0)
Tiered == Request("stopped", <<Volume("io2", 1, 5, 0), Volume("gp2", 3, 0, 0)>>, 0)
Addressed == Request("stopped", <<Volume("io2", 1, 2, 0), Volume("gp2", 3, 0, 0)>>, 2)
Address == Request("elastic_ip", <<>>, 1)
Provisioned == Request("ebs", <<Volume("io1", 1, 4, 0)>>, 0)
Novel == Request("ebs", <<Volume("gp9", 2, 0, 0)>>, 0)
Archived == [Request("snapshot", <<>>, 0) EXCEPT
               !.tier = "archive", !.size = 7, !.region = "eu-north-1"]

\* Requests that share a key, ones that nearly do, and one of every other kind.
MCAccounts ==
  {{Plain, Fast}, {Tiered, Addressed}, {Archived, Novel}, {Address, Provisioned}}
OneVolume == {{Plain}}

Tiers(p) == {[begin |-> 0, end |-> 2, open |-> FALSE, price |-> p + 2],
             [begin |-> 2, end |-> 3, open |-> FALSE, price |-> p + 1],
             [begin |-> 3, end |-> 3, open |-> TRUE, price |-> p]}

Table(p) ==
  [u \in Unit |-> CASE u = "io2 tiers" -> Tiers(p)
                    [] u = "gp3 throughput" -> p + 4
                    [] u = "public ipv4" -> p + 5
                    [] OTHER -> p]

MCRegion == {"us-east-1", "eu-north-1"}
MCListPrice == [r \in MCRegion |-> [t \in 0..MaxClock |->
                  Table((IF r = "us-east-1" THEN 10 ELSE 20) + t)]]
MCFallbackPrice == [r \in {"us-east-1"} |-> [u \in Unit \ {"gp9 storage"} |-> Table(9)[u]]]
===============================================================================
