\* One scan of the command line on SQLite; nothing fails.
SPECIFICATION Spec
CONSTANTS
  Gp3Iops = 3
  Gp3Throughput = 1
  Hours = 3
  api = api
  cli = cli
  NoValue = NoValue
  Scan = {cli}
  CommandLine = {cli}
  Database = "sqlite"
  Accounts <- OneVolume
  ListPrice <- MCListPrice
  FallbackPrice <- MCFallbackPrice
  Mode = "auto"
  Ttl = 1
  MaxClock = 2
  Faults = {}
INVARIANT
  ApiAnswerUsed
