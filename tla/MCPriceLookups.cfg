\* A scan of the API beside one of the command line on PostgreSQL, every fault.
SPECIFICATION Spec
CONSTANTS
  Gp3Iops = 3
  Gp3Throughput = 1
  Hours = 3
  api = api
  cli = cli
  NoValue = NoValue
  Scan = {api, cli}
  CommandLine = {cli}
  Database = "postgresql"
  Accounts <- MCAccounts
  ListPrice <- MCListPrice
  FallbackPrice <- MCFallbackPrice
  Mode = "auto"
  Ttl = 1
  MaxClock = 2
  Faults = {"api", "cache", "reset"}
INVARIANTS
  HitsSuffice
  EstimateIsMethodology
  KnownIsPriced
