----------------------------- MODULE DemoHistory -----------------------------
(***************************************************************************)
(* The settings document and the seeded history of demo mode: one row of   *)
(* JSON and a table of scans that the API at its start (main.py), the      *)
(* seeder (services/demo_seeder.py), the commands of the command line      *)
(* (cli.py) and PATCH /settings (api/router.py) read and write.             *)
(*                                                                         *)
(* Each of them but the API's start loads the whole document, changes it   *)
(* and saves the whole of it, and nothing serializes them: a load and the  *)
(* save that follows it are two steps.  The session forgets the record     *)
(* between them, so save() looks for the row again.                        *)
(*                                                                         *)
(* A scan is its commit; what it finds is not modelled here, nor are the   *)
(* scans of the API, which ScanRunner has.                                 *)
(***************************************************************************)
EXTENDS Integers, Sequences, FiniteSets

CONSTANTS
  Command,        \* processes of the command line
  Request,        \* PATCH requests in progress at a time
  DemoSeed,       \* values of CLOUDZOMBIE_DEMO_SEED at the starts of the API
  Detector, Days, DefaultDays,   \* the thresholds and their values
  Concurrency, DefaultConcurrency,
  DaysBefore,     \* <<21, 14, 7, 2>>
  MaxClock,       \* bound on the clock, in days
  MaxScans,       \* bound on the table
  NoValue

api == "api"
Process == Command \cup {api}
Writer == Process \cup Request

Document == [anchor : 0..MaxClock \cup {NoValue}, pricing : {"auto", "fallback_only"},
             thresholds : [Detector -> Days], concurrency : Concurrency]

\* What a writer holds between its load and its save.
Session == [row : BOOLEAN, read : Document]

ASSUME HistoryAssumption ==
  /\ api \notin Command /\ NoValue \notin Process \cup Document \cup Session
  /\ Process \cap Request = {} /\ DemoSeed \subseteq BOOLEAN
  /\ DefaultDays \in [Detector -> Days] /\ DefaultConcurrency \in Concurrency
  /\ DaysBefore \in Seq(Nat) /\ DaysBefore # <<>>
  /\ MaxClock \in Nat /\ MaxScans \in Nat /\ NoValue \notin 0..MaxClock
  /\ \A i, j \in DOMAIN DaysBefore : i < j => DaysBefore[i] > DaysBefore[j]

VARIABLES
  document,   \* settings.data, NoValue without a row
  scans,      \* the table, in the order of the commits
  clock,
  process,    \* where each process is, and its seeding
  session,    \* what each writer has loaded and not saved
  told,       \* history: the values last acknowledged to a client
  disturbed,  \* history: a seeding has met another writer of scans
  cut,        \* history: a process has died while it seeded
  crossed     \* history: a writer has saved over what it had not read

table == <<scans, disturbed, cut>>
vars == <<document, scans, clock, process, session, told, disturbed, cut, crossed>>

Steps == DOMAIN DaysBefore
LastStep == Len(DaysBefore)
UserStep == LastStep + 1
At == {"down", "dating", "counting", "loading", "anchoring", "seeding", "marking", "scanning",
       "resetting", "up"}

\* load() without a row, in demo mode.
Default ==
  [anchor |-> NoValue, pricing |-> "fallback_only",
   thresholds |-> DefaultDays, concurrency |-> DefaultConcurrency]

Loaded == IF document = NoValue THEN Default ELSE document

Resting(at) == [at |-> at, step |-> 1, anchor |-> 0]

\* What a client knows of the settings.
Values(d) == [thresholds |-> d.thresholds, concurrency |-> d.concurrency]

TypeOK ==
  /\ document \in Document \cup {NoValue}
  /\ clock \in 0..MaxClock
  /\ \A k \in DOMAIN scans : scans[k].step \in 1..UserStep /\ scans[k].seeded \in BOOLEAN
  /\ \A p \in Process : process[p].at \in At /\ process[p].step \in Steps
  /\ session \in [Writer -> Session \cup {NoValue}]
  /\ disturbed \in BOOLEAN /\ cut \in BOOLEAN /\ crossed \in BOOLEAN

\* The database may have been used in live mode before.
Init ==
  /\ document \in {NoValue, [Default EXCEPT !.pricing = "auto"]}
  /\ scans = <<>>
  /\ clock = 0
  /\ process = [p \in Process |-> Resting("down")]
  /\ session = [w \in Writer |-> NoValue]
  /\ told = Values(Default)
  /\ disturbed = FALSE /\ cut = FALSE /\ crossed = FALSE

Tick == clock < MaxClock /\ clock' = clock + 1
        /\ UNCHANGED <<document, table, process, session, told, crossed>>

Go(p, at) == process' = [process EXCEPT ![p].at = at]
Seeding == {p \in Process : process[p].at \in {"seeding", "marking"}}

\* Bound: the table's length, and its growth after a seeding was disturbed, when
\* only a reset leads back to a history of interest.
InBounds == Len(scans) < MaxScans /\ ~disturbed

\* Where a process is when its work is done.
Ends(p) == process' = [process EXCEPT ![p] = Resting(IF p = api THEN "up" ELSE "down")]
Dies(p) == process' = [process EXCEPT ![p] = Resting("down")]

-------------------------------------------------------------------------------
(***************************************************************************)
(* The document, as SettingsService reads and writes it.                   *)
(***************************************************************************)

\* load(): without a row it inserts the defaults, in the same transaction.
Load(w) == session' = [session EXCEPT ![w] = [row |-> document # NoValue, read |-> Loaded]]

\* save() and the commit: the stored document becomes d, whatever it was.  It
\* fails if the load inserted a row and another one has come.
Save(w, d) ==
  /\ session[w].row \/ document = NoValue
  /\ document' = d
  /\ crossed' = (crossed \/ Loaded # session[w].read)
  /\ session' = [session EXCEPT ![w] = NoValue]

-------------------------------------------------------------------------------
(***************************************************************************)
(* Starting.                                                               *)
(***************************************************************************)

\* lifespan: the defaults are stored if there are none; it may seed.
StartApi(seeds) ==
  /\ process[api].at = "down"
  /\ document' = Loaded
  /\ Go(api, IF seeds THEN "counting" ELSE "up")
  /\ UNCHANGED <<clock, table, session, told, crossed>>

\* _runtime of every command loads the document ...
Runtime(c) ==
  /\ process[c].at = "down"
  /\ Load(c)
  /\ Go(c, "dating")
  /\ UNCHANGED <<document, clock, table, told, crossed>>

\* Mutant: every command dates the history anew.
DateAnew(c, at) ==
  /\ process[c].at = "dating"
  /\ Save(c, [session[c].read EXCEPT !.anchor = clock])
  /\ process' = [process EXCEPT ![c] =
       IF at = "scanning" THEN [at |-> at, step |-> 1, anchor |-> clock] ELSE Resting(at)]
  /\ UNCHANGED <<clock, table, told>>

\* ... and in demo mode saves it with an anchor, if it had none.
Date(c, at) ==
  LET read  == session[c].read
      dated == read.anchor # NoValue
  IN /\ process[c].at = "dating"
     /\ IF dated
        THEN session' = [session EXCEPT ![c] = NoValue] /\ UNCHANGED <<document, crossed>>
        ELSE Save(c, [read EXCEPT !.anchor = clock])
     /\ process' = [process EXCEPT ![c] =
          IF at = "scanning"
          THEN [at |-> at, step |-> 1, anchor |-> IF dated THEN read.anchor ELSE clock]
          ELSE Resting(at)]
     /\ UNCHANGED <<clock, table, told>>

\* `demo seed`, `demo reset`, `scan`, and the commands that only read.
Start(c) == Runtime(c) \/ \E at \in {"counting", "resetting", "scanning", "down"} : Date(c, at)

-------------------------------------------------------------------------------
(***************************************************************************)
(* seed_if_empty().                                                        *)
(***************************************************************************)

\* A scan of any origin stops the seeding.
HistoryExists == scans # <<>>

Count(p) ==
  /\ process[p].at = "counting"
  /\ IF HistoryExists THEN Ends(p) ELSE Go(p, "loading")
  /\ UNCHANGED <<document, clock, table, session, told, crossed>>

LoadToSeed(p) ==
  /\ process[p].at = "loading"
  /\ Load(p)
  /\ Go(p, "anchoring")
  /\ UNCHANGED <<document, clock, table, told, crossed>>

\* The anchor and the pricing mode are saved with the rest of what was loaded.
Anchor(p) ==
  /\ process[p].at = "anchoring"
  /\ Save(p, [session[p].read EXCEPT !.anchor = clock, !.pricing = "fallback_only"])
  /\ process' = [process EXCEPT ![p] = [at |-> "seeding", step |-> 1, anchor |-> clock]]
  /\ disturbed' = (disturbed \/ Seeding # {} \/ HistoryExists)
  /\ UNCHANGED <<scans, clock, told, cut>>

\* One scan of the engine by a fixed clock.
RunStep(p) ==
  /\ process[p].at = "seeding" /\ InBounds
  /\ scans' = Append(scans, [step |-> process[p].step, by |-> p, anchor |-> process[p].anchor,
                             date |-> process[p].anchor - DaysBefore[process[p].step],
                             seeded |-> FALSE])
  /\ Go(p, "marking")
  /\ UNCHANGED <<document, clock, session, told, disturbed, cut, crossed>>

NextStep(p) ==
  IF process[p].step = LastStep THEN Ends(p)
  ELSE process' = [process EXCEPT ![p].step = @ + 1, ![p].at = "seeding"]

\* The scan just committed is marked; if a reset took it, the seeding raises.
Mark(p) ==
  LET mine == {k \in DOMAIN scans : scans[k].by = p /\ scans[k].step = process[p].step
                                    /\ scans[k].anchor = process[p].anchor}
  IN /\ process[p].at = "marking"
     /\ IF mine = {}
        THEN Dies(p) /\ UNCHANGED scans
        ELSE /\ scans' = [k \in DOMAIN scans |->
                            IF k \in mine THEN [scans[k] EXCEPT !.seeded = TRUE, !.by = NoValue]
                            ELSE scans[k]]
             /\ NextStep(p)
     /\ UNCHANGED <<document, clock, session, told, disturbed, cut, crossed>>

\* The process is killed, or what it does raises; with the API go its requests.
Crash(p) ==
  /\ process[p].at # "down"
  /\ cut' = (cut \/ p \in Seeding)
  /\ Dies(p)
  /\ session' = [w \in Writer |-> IF w = p \/ (p = api /\ w \in Request) THEN NoValue
                                   ELSE session[w]]
  /\ UNCHANGED <<document, scans, clock, told, disturbed, crossed>>

-------------------------------------------------------------------------------
(***************************************************************************)
(* The other writers.                                                      *)
(***************************************************************************)

\* `scan` commits what it observed at the time of its own clock.
RunScan(c) ==
  /\ process[c].at = "scanning" /\ InBounds
  /\ scans' = Append(scans, [step |-> UserStep, by |-> NoValue, anchor |-> process[c].anchor,
                             date |-> clock, seeded |-> FALSE])
  /\ disturbed' = (disturbed \/ Seeding # {})
  /\ Ends(c)
  /\ UNCHANGED <<document, clock, session, told, cut, crossed>>

\* `demo reset` empties every table.
Reset(c) ==
  /\ process[c].at = "resetting"
  /\ scans' = <<>> /\ document' = NoValue
  /\ told' = Values(Default)
  /\ disturbed' = (Seeding # {}) /\ cut' = FALSE /\ crossed' = FALSE
  /\ Ends(c)
  /\ UNCHANGED <<clock, session>>

\* PATCH /settings reads the document ...
Read(r) ==
  /\ process[api].at = "up" /\ session[r] = NoValue
  /\ ~crossed   \* bound: as InBounds, of the document
  /\ Load(r)
  /\ UNCHANGED <<document, clock, table, process, told, crossed>>

\* Mutant: the thresholds sent replace the stored ones.
MergedPartial(current, thresholds, concurrency) ==
  [current EXCEPT
     !.thresholds = IF DOMAIN thresholds = {} THEN @ ELSE thresholds,
     !.concurrency = IF concurrency = NoValue THEN @ ELSE concurrency,
     !.pricing = "fallback_only"]

\* Mutant: what is not sent falls back to the defaults.
MergedOntoDefaults(current, thresholds, concurrency) ==
  [current EXCEPT
     !.thresholds = [d \in Detector |-> IF d \in DOMAIN thresholds THEN thresholds[d]
                                        ELSE DefaultDays[d]],
     !.concurrency = IF concurrency = NoValue THEN @ ELSE concurrency,
     !.pricing = "fallback_only"]

\* What a request does not send it keeps, threshold by threshold.
Merged(current, thresholds, concurrency) ==
  [current EXCEPT
     !.thresholds = [d \in Detector |-> IF d \in DOMAIN thresholds THEN thresholds[d] ELSE @[d]],
     !.concurrency = IF concurrency = NoValue THEN @ ELSE concurrency,
     !.pricing = "fallback_only"]

Sent(sent, known) ==
  [thresholds |-> [d \in Detector |-> IF d \in DOMAIN sent.thresholds THEN sent.thresholds[d]
                                      ELSE known.thresholds[d]],
   concurrency |-> IF sent.concurrency = NoValue THEN known.concurrency ELSE sent.concurrency]

\* ... and saves the whole of it with its changes.
Patch(r) ==
  /\ session[r] # NoValue
  /\ \E ds \in SUBSET Detector, days \in Days, n \in Concurrency \cup {NoValue} :
       LET thresholds == [d \in ds |-> days]
       IN /\ Save(r, Merged(session[r].read, thresholds, n))
          /\ told' = Sent([thresholds |-> thresholds, concurrency |-> n], told)
  /\ UNCHANGED <<clock, table, process>>

\* A request that raises rolls back, and acknowledges nothing.
Refuse(r) ==
  /\ session[r] # NoValue
  /\ session' = [session EXCEPT ![r] = NoValue]
  /\ UNCHANGED <<document, clock, table, process, told, crossed>>

Next ==
  \/ Tick \/ \E seeds \in DemoSeed : StartApi(seeds)
  \/ \E c \in Command : Start(c) \/ RunScan(c) \/ Reset(c)
  \/ \E p \in Process : Count(p) \/ LoadToSeed(p) \/ Anchor(p)
  \/ \E p \in Process : RunStep(p) \/ Mark(p) \/ Crash(p)
  \/ \E r \in Request : Read(r) \/ Patch(r) \/ Refuse(r)

Spec == Init /\ [][Next]_vars

-------------------------------------------------------------------------------
BySeeder == {k \in DOMAIN scans : scans[k].step \in Steps}

SeededWhole == \A s \in Steps : s \in BySeeder /\ scans[s].seeded

\* README.md: "Demo mode seeds four scans at 21, 14, 7, and 2 days before its
\* anchor."  As long as no other process writes scans while one seeds, the
\* table begins with the seeded scans in the order of their dates, of one
\* anchor, and everything else is later: reconcile() counts on histories that
\* run forward.  As long as no writer saves over what it has not read, the anchor
\* is the document's, the one the ages of the demo's resources are computed from.
\* All four are there, and marked, once the seeding is over, unless its process
\* died, after which no start completes them.
SeededInOrder ==
  ~disturbed =>
    /\ \A k \in BySeeder :
         /\ scans[k].step = k
         /\ scans[k].anchor = scans[1].anchor
         /\ scans[k].date = scans[k].anchor - DaysBefore[k]
    /\ \A j, k \in DOMAIN scans : j < k /\ {j, k} \cap BySeeder # {} => scans[j].date <= scans[k].date
    /\ BySeeder # {} /\ ~crossed => document # NoValue /\ document.anchor = scans[1].anchor
    /\ BySeeder # {} /\ ~cut /\ Seeding = {} => SeededWhole

\* Until a writer - a request, a command or a seeder - saves over what it has not
\* read, the stored settings are the last values acknowledged for each of them,
\* whatever was started, killed, reset or refused between.  After that they need not
\* be: a command that starts beside the API saves the settings it has loaded over
\* those of a PATCH acknowledged meanwhile.
SettingsAsAcknowledged ==
  document # NoValue /\ ~crossed => Values(document) = told
===============================================================================
