----------------------------- MODULE PriceLookups -----------------------------
(***************************************************************************)
(* Pricing the candidates of scans (app/pricing/service.py, aws_api.py,    *)
(* cache.py, fallback.py): the backends in their order, and the price      *)
(* cache, a table that the scans of the API and of the command line share. *)
(* Every call of the cache is a session and a transaction of its own: the  *)
(* look-up, and the store, which reads the row and then inserts or updates *)
(* it.  A scan is one thread here: the cache's keys hold the region, so    *)
(* the threads of one scan never meet.                                     *)
(*                                                                         *)
(* The command line inserts its scan at once and commits it at the end     *)
(* (scanner/engine.py); on SQLite that transaction owns the only write     *)
(* lock all the while.                                                     *)
(***************************************************************************)
EXTENDS PriceCalculator

CONSTANTS
  Scan,           \* scans that may be in progress at a time
  CommandLine,    \* those that run_scan inserts itself
  Database,       \* "sqlite" or "postgresql"
  Accounts,       \* accounts, each the set of requests its candidates lead to
  ListPrice,      \* the prices AWS publishes: per region and instant a price of every unit
  FallbackPrice,  \* the table shipped with the program, per region
  Mode,           \* pricing_mode
  Ttl,            \* pricing_cache_ttl_seconds
  MaxClock,       \* bound on the clock
  Faults,         \* which of "api", "cache", "reset" may happen
  NoValue

\* A volume without IOPS or throughput of its own has 0 (calculator.py, "or 0").
VolumeRequest == [type : VolumeType, size : Nat, iops : Nat, throughput : Nat]

\* What the detectors ask for: one volume's request has no address, an address's
\* no volume; a stopped instance may have several of both.
WellFormed(request) ==
  /\ request.volumes \in Seq(VolumeRequest) /\ request.addresses \in Nat /\ request.size \in Nat
  /\ request.kind \in {"ebs", "elastic_ip", "stopped", "snapshot"}
  /\ request.kind = "ebs" => request.addresses = 0
  /\ request.kind = "elastic_ip" => request.volumes = <<>> /\ request.addresses = 1

ASSUME RequestsAssumption == \A candidates \in Accounts : \A r \in candidates : WellFormed(r)

ASSUME LookupsAssumption ==
  /\ CommandLine \subseteq Scan /\ NoValue \notin Scan
  /\ Database \in {"sqlite", "postgresql"}
  /\ Mode \in {"auto", "fallback_only", "disabled"}
  /\ Faults \subseteq {"api", "cache", "reset"}
  /\ Ttl \in Nat /\ MaxClock \in Nat

\* Published prices are complete; the shipped table may lack a type, but not a
\* part of one, and it lists us-east-1 and the addresses (fallback_prices.json).
ASSUME PricesAssumption ==
  /\ \A candidates \in Accounts : \A r \in candidates : r.region \in DOMAIN ListPrice
  /\ \A region \in DOMAIN ListPrice : \A t \in 0..MaxClock :
       IsTable(ListPrice[region][t]) /\ DOMAIN ListPrice[region][t] = Unit
  /\ "us-east-1" \in DOMAIN FallbackPrice
  /\ \A region \in DOMAIN FallbackPrice :
       /\ IsTable(FallbackPrice[region]) /\ "public ipv4" \in DOMAIN FallbackPrice[region]
       /\ "gp3 storage" \in DOMAIN FallbackPrice[region]
            => {"gp3 iops", "gp3 throughput"} \subseteq DOMAIN FallbackPrice[region]
  /\ NoValue \notin Int

VARIABLES
  account,   \* the account the scans look at
  row,       \* pricing_cache: per key the payload and when it was stored
  clock,
  writer,    \* the scan whose transaction owns SQLite's write lock
  scan,      \* the position of each scan in estimate()
  estimate   \* the PricingResult each scan holds between two requests

vars == <<account, row, clock, writer, scan, estimate>>

Requests == UNION Accounts
Key == {KeyOf(r) : r \in Requests}
Step == {"ended", "detecting", "looking", "loading", "finding", "writing", "pricing", "falling"}
Confidence == {"HIGH", "MEDIUM", "LOW", "UNAVAILABLE"}
Source == {"aws_pricing_api", "fallback_table", "unavailable"}

Idle(step) == [step |-> step, request |-> NoValue, payload |-> NoValue, insert |-> FALSE]

Unavailable(request) ==
  [request |-> request, source |-> "unavailable", confidence |-> "UNAVAILABLE",
   cost |-> NoValue, timestamp |-> NoValue]

IsPayload(p) == p.at \in 0..MaxClock /\ DOMAIN p.price \subseteq Unit

TypeOK ==
  /\ account \in Accounts
  /\ DOMAIN row = Key
  /\ \A k \in Key : row[k] # NoValue => row[k].fetched \in 0..MaxClock /\ IsPayload(row[k].payload)
  /\ clock \in 0..MaxClock
  /\ writer \in Scan \cup {NoValue}
  /\ \A s \in Scan :
       /\ scan[s].step \in Step
       /\ scan[s].request \in Requests \cup {NoValue}
       /\ scan[s].payload # NoValue => IsPayload(scan[s].payload)
       /\ estimate[s] # NoValue =>
            estimate[s].source \in Source /\ estimate[s].confidence \in Confidence

Init ==
  /\ account \in Accounts
  /\ row = [k \in Key |-> NoValue]
  /\ clock = 0
  /\ writer = NoValue
  /\ scan = [s \in Scan |-> Idle("ended")]
  /\ estimate = [s \in Scan |-> NoValue]

-------------------------------------------------------------------------------
(***************************************************************************)
(* The scans around the estimates.                                         *)
(***************************************************************************)

\* Writing needs the one lock of SQLite; PostgreSQL locks rows.
MayWrite == Database = "sqlite" => writer = NoValue

\* run_scan of the command line flushes its new scan; the API's was committed
\* before.
Begin(s) ==
  /\ scan[s].step = "ended"
  /\ s \in CommandLine => MayWrite
  /\ writer' = IF s \in CommandLine /\ Database = "sqlite" THEN s ELSE writer
  /\ scan' = [scan EXCEPT ![s] = Idle("detecting")]
  /\ UNCHANGED <<account, row, clock, estimate>>

\* All candidates are priced: reconcile and commit, or fail and roll back.
Commit(s) ==
  /\ scan[s].step = "detecting"
  /\ MayWrite \/ writer = s
  /\ writer' = IF writer = s THEN NoValue ELSE writer
  /\ scan' = [scan EXCEPT ![s] = Idle("ended")]
  /\ estimate' = [estimate EXCEPT ![s] = NoValue]
  /\ UNCHANGED <<account, row, clock>>

-------------------------------------------------------------------------------
(***************************************************************************)
(* PricingService.estimate().                                              *)
(***************************************************************************)

Go(s, step) == scan' = [scan EXCEPT ![s].step = step]

Answer(s, result) ==
  /\ estimate' = [estimate EXCEPT ![s] = result]
  /\ scan' = [scan EXCEPT ![s] = Idle("detecting")]

\* The first backend of the mode; none when pricing is disabled.
Ask(s, request) ==
  /\ scan[s].step = "detecting"
  /\ IF Mode = "disabled"
     THEN Answer(s, Unavailable(request))
     ELSE /\ scan' = [scan EXCEPT ![s].request = request,
                                  ![s].step = IF Mode = "auto" THEN "looking" ELSE "falling"]
          /\ estimate' = [estimate EXCEPT ![s] = NoValue]
  /\ UNCHANGED <<account, row, clock, writer>>

Fresh(entry) == entry # NoValue /\ clock - entry.fetched <= Ttl

\* Mutant: a hit is dated by its row, not by the payload.
LookUpStoredAt(s) ==
  LET entry == row[KeyOf(scan[s].request)]
  IN /\ scan[s].step = "looking"
     /\ scan' = IF Fresh(entry)
                THEN [scan EXCEPT ![s].payload = [entry.payload EXCEPT !.at = entry.fetched],
                                  ![s].step = "pricing"]
                ELSE [scan EXCEPT ![s].step = "loading"]
     /\ UNCHANGED <<account, row, clock, writer, estimate>>

\* The cache is read first.
LookUp(s) ==
  LET entry == row[KeyOf(scan[s].request)]
  IN /\ scan[s].step = "looking"
     /\ scan' = IF Fresh(entry)
                THEN [scan EXCEPT ![s].payload = entry.payload, ![s].step = "pricing"]
                ELSE [scan EXCEPT ![s].step = "loading"]
     /\ UNCHANGED <<account, row, clock, writer, estimate>>

\* A miss: get_prices of the provider, dated at once.
Load(s) ==
  /\ scan[s].step = "loading"
  /\ scan' = [scan EXCEPT
       ![s].payload = [price |-> [u \in Loaded(scan[s].request) |->
                                    ListPrice[scan[s].request.region][clock][u]],
                       at |-> clock],
       ![s].step = "finding"]
  /\ UNCHANGED <<account, row, clock, writer, estimate>>

\* cache.set() looks whether the key has a row ...
FindRow(s) ==
  /\ scan[s].step = "finding"
  /\ scan' = [scan EXCEPT ![s].insert = (row[KeyOf(scan[s].request)] = NoValue),
                          ![s].step = "writing"]
  /\ UNCHANGED <<account, row, clock, writer, estimate>>

\* ... and the insert or the update is true of the table when it is committed.
Applies(s) == scan[s].insert <=> row[KeyOf(scan[s].request)] = NoValue

Write(s) ==
  /\ scan[s].step = "writing" /\ MayWrite /\ Applies(s)
  /\ row' = [row EXCEPT ![KeyOf(scan[s].request)] =
               [payload |-> scan[s].payload, fetched |-> clock]]
  /\ Go(s, "pricing")
  /\ UNCHANGED <<account, clock, writer, estimate>>

\* Mutant: the estimate fails with its cache.
WriteRefusedEscapes(s) ==
  /\ scan[s].step = "writing" /\ ~(MayWrite /\ Applies(s))
  /\ Answer(s, Unavailable(scan[s].request))
  /\ UNCHANGED <<account, row, clock, writer>>

\* A second insert of the key, an update of a row that is gone, or the write
\* lock not released in time: the backend has failed.
WriteRefused(s) ==
  /\ scan[s].step = "writing" /\ ~(MayWrite /\ Applies(s))
  /\ Go(s, "falling")
  /\ UNCHANGED <<account, row, clock, writer, estimate>>

\* The API or the cache's database raises.
BackendFails(s) ==
  /\ \/ "api" \in Faults /\ scan[s].step = "loading"
     \/ "cache" \in Faults /\ scan[s].step \in {"looking", "finding", "writing"}
  /\ Go(s, "falling")
  /\ UNCHANGED <<account, row, clock, writer, estimate>>

\* calculate() with the prices of the API; a unit it lacks fails the backend.
Price(s) ==
  LET r == scan[s].request  p == scan[s].payload
  IN /\ scan[s].step = "pricing"
     /\ IF Needs(r) \subseteq DOMAIN p.price
        THEN Answer(s, [request |-> r, source |-> "aws_pricing_api",
                        confidence |-> IF r.kind = "snapshot" THEN "LOW" ELSE "HIGH",
                        cost |-> Calculate(r, p.price), timestamp |-> p.at])
        ELSE Go(s, "falling") /\ UNCHANGED estimate
     /\ UNCHANGED <<account, row, clock, writer>>

\* The shipped table; a region it does not list has the prices of us-east-1.
FallbackTable(region) ==
  FallbackPrice[IF region \in DOMAIN FallbackPrice THEN region ELSE "us-east-1"]

FallBack(s) ==
  LET r == scan[s].request  price == FallbackTable(r.region)
  IN /\ scan[s].step = "falling"
     /\ Answer(s, IF Needs(r) \subseteq DOMAIN price
                  THEN [request |-> r, source |-> "fallback_table",
                        confidence |-> IF r.kind = "snapshot" THEN "LOW" ELSE "MEDIUM",
                        cost |-> Calculate(r, price), timestamp |-> NoValue]
                  ELSE Unavailable(r))
     /\ UNCHANGED <<account, row, clock, writer>>

-------------------------------------------------------------------------------
Tick ==
  /\ clock < MaxClock
  /\ clock' = clock + 1
  /\ UNCHANGED <<account, row, writer, scan, estimate>>

\* `demo reset` deletes the cache.
Reset ==
  /\ "reset" \in Faults /\ MayWrite
  /\ row' = [k \in Key |-> NoValue]
  /\ UNCHANGED <<account, clock, writer, scan, estimate>>

ScanStep(s) ==
  \/ Begin(s) \/ Commit(s)
  \/ \E r \in account : Ask(s, r)
  \/ LookUp(s) \/ Load(s) \/ FindRow(s) \/ Write(s) \/ WriteRefused(s) \/ BackendFails(s)
  \/ Price(s) \/ FallBack(s)

Next == Tick \/ Reset \/ \E s \in Scan : ScanStep(s)

Spec == Init /\ [][Next]_vars

-------------------------------------------------------------------------------
\* What a request is stored under serves every request that finds it: a row of
\* the cache, whoever stored it, has every price that any request of its key is
\* charged for.  (A gap would send the second request to the fallback table.)
HitsSuffice ==
  \A r \in Requests :
    row[KeyOf(r)] # NoValue => Needs(r) \subseteq DOMAIN row[KeyOf(r)].payload.price

\* docs/pricing.md, the calculations: an estimate by the API is the methodology's
\* sum at the prices AWS published for the region at the estimate's own
\* timestamp, through stores that overtake each other, hits, resets and
\* expiry; one by the fallback table is that sum at the shipped prices.
EstimateIsMethodology ==
  \A s \in Scan : estimate[s] # NoValue =>
    LET e == estimate[s]
    IN CASE e.source = "aws_pricing_api" ->
              e.cost = Methodology(e.request, ListPrice[e.request.region][e.timestamp])
         [] e.source = "fallback_table" ->
              e.cost = Methodology(e.request, FallbackTable(e.request.region))
         [] OTHER -> e.cost = NoValue

\* docs/pricing.md: "Backend failures become coverage warnings and pricing falls
\* through rather than failing detection."  A resource the shipped table knows
\* is never left without a price, whatever the API, the cache and other scans do.
KnownIsPriced ==
  Mode # "disabled" =>
    \A s \in Scan : estimate[s] # NoValue =>
      (Needs(estimate[s].request) \subseteq DOMAIN FallbackTable(estimate[s].request.region)
        => estimate[s].cost # NoValue)

\* docs/pricing.md, the backend order: with pricing_mode auto the fallback table
\* is used after the API only; prices the API has answered are not discarded.
ApiAnswerUsed ==
  \A s \in Scan : scan[s].step = "falling" => scan[s].payload = NoValue
===============================================================================
