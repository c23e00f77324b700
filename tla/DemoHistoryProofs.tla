-------------------------- MODULE DemoHistoryProofs --------------------------
(***************************************************************************)
(* Proofs about the settings document and the seeded history, for any      *)
(* commands, requests, thresholds, seeding steps and length of the table:  *)
(* until a writer saves over what it has not read, the stored settings are *)
(* those acknowledged and the document has the anchor of the seeded scans; *)
(* and these come first, in order, of one anchor, and whole unless their   *)
(* process died.                                                           *)
(***************************************************************************)
EXTENDS DemoHistory, SequenceTheorems, TLAPS

Position == [at : At, step : Steps, anchor : 0..MaxClock]

Scan == [step : 1..UserStep, by : Process \cup {NoValue}, anchor : 0..MaxClock,
         date : Int, seeded : BOOLEAN]

\* A process between a load and a save holds what it has loaded.
Held == \A p \in Process : process[p].at \in {"dating", "anchoring"} => session[p] \in Session

Typed ==
  /\ document \in Document \cup {NoValue}
  /\ scans \in Seq(Scan)
  /\ clock \in 0..MaxClock
  /\ process \in [Process -> Position]
  /\ session \in [Writer -> Session \cup {NoValue}]
  /\ Held
  /\ disturbed \in BOOLEAN /\ cut \in BOOLEAN /\ crossed \in BOOLEAN

\* What a client was told is what a load would give, row or not.
ToldLoaded == ~crossed => Values(Loaded) = told

-------------------------------------------------------------------------------
(***************************************************************************)
(* Types.                                                                  *)
(***************************************************************************)

LEMMA StepFacts ==
  /\ LastStep \in Nat \ {0} /\ Steps = 1..LastStep /\ 1 \in Steps /\ 0 \in 0..MaxClock
  /\ UserStep \notin Steps /\ Steps \subseteq 1..UserStep /\ UserStep \in 1..UserStep
  /\ \A s \in Steps : DaysBefore[s] \in Nat
BY HistoryAssumption DEF LastStep, Steps, UserStep

\* The default is a document, so what is loaded always is one.
LEMMA LoadedDocument ==
  ASSUME Typed
  PROVE  Default \in Document /\ Loaded \in Document /\ Loaded # NoValue
BY HistoryAssumption DEF Typed, Loaded, Default, Document

\* A merge gives a document; it touches neither the anchor nor what was not sent.
LEMMA MergedDocument ==
  ASSUME NEW d \in Document, NEW ds \in SUBSET Detector, NEW days \in Days,
         NEW n \in Concurrency \cup {NoValue}
  PROVE  LET thresholds == [x \in ds |-> days]
         IN /\ Merged(d, thresholds, n) \in Document
            /\ Merged(d, thresholds, n).anchor = d.anchor
            /\ Values(Merged(d, thresholds, n)) =
                 Sent([thresholds |-> thresholds, concurrency |-> n], Values(d))
<1> DEFINE thresholds == [x \in ds |-> days]
           merged == [x \in Detector |-> IF x \in DOMAIN thresholds THEN thresholds[x]
                                         ELSE d.thresholds[x]]
           m == Merged(d, thresholds, n)
<1>1. d.thresholds \in [Detector -> Days] /\ merged \in [Detector -> Days]
  BY DEF Document
<1>2. m = [d EXCEPT !.thresholds = merged,
                    !.concurrency = IF n = NoValue THEN @ ELSE n,
                    !.pricing = "fallback_only"]
  BY DEF Merged, Document
<1> HIDE DEF m, merged
<1>3. m \in Document
  BY <1>1, <1>2 DEF Document
<1>4. /\ m.thresholds = merged /\ m.anchor = d.anchor
      /\ m.concurrency = IF n = NoValue THEN d.concurrency ELSE n
  BY <1>2 DEF Document
<1>5. Values(m) = Sent([thresholds |-> thresholds, concurrency |-> n], Values(d))
  BY <1>4 DEF Values, Sent, merged
<1> QED
  BY <1>3, <1>4, <1>5 DEF m

\* The table with these scans marked as seeded.
Marked(mine) ==
  [k \in DOMAIN scans |->
     IF k \in mine THEN [scans[k] EXCEPT !.seeded = TRUE, !.by = NoValue] ELSE scans[k]]

\* A scan marked as seeded stays a scan.
LEMMA MarkedScans ==
  ASSUME NEW mine, scans \in Seq(Scan)
  PROVE  Marked(mine) \in Seq(Scan)
<1>1. Len(scans) \in Nat /\ DOMAIN scans = 1..Len(scans)
      /\ \A k \in DOMAIN scans : scans[k] \in Scan
  OBVIOUS
<1>2. \A k \in DOMAIN scans : [scans[k] EXCEPT !.seeded = TRUE, !.by = NoValue] \in Scan
  BY <1>1 DEF Scan
<1>3. Marked(mine) \in [1..Len(scans) -> Scan]
  BY <1>1, <1>2 DEF Marked
<1> QED
  BY <1>1, <1>3, SeqDef

\* A process that moves goes to a position, and moves alone.
Moves(p) ==
  /\ process' \in [Process -> Position]
  /\ \A q \in Process : q # p => process'[q] = process[q]

LEMMA Moved ==
  ASSUME Typed, NEW p \in Process, NEW to \in Position, process' = [process EXCEPT ![p] = to]
  PROVE  Moves(p) /\ process'[p] = to
BY DEF Typed, Moves

LEMMA Went ==
  ASSUME Typed, NEW p \in Process, NEW at \in At, Go(p, at)
  PROVE  Moves(p) /\ process'[p].at = at
<1>1. process[p] \in Position /\ [process[p] EXCEPT !.at = at] \in Position
  BY DEF Typed, Position
<1>2. process' = [process EXCEPT ![p] = [process[p] EXCEPT !.at = at]]
  BY DEF Go, Typed
<1>3. [process[p] EXCEPT !.at = at].at = at
  BY <1>1 DEF Position
<1> QED
  BY <1>1, <1>2, <1>3, Moved

\* Whose work ends, or who dies, is at rest.
LEMMA Rests ==
  ASSUME Typed, NEW p \in Process, Ends(p) \/ Dies(p)
  PROVE  Moves(p) /\ process'[p].at \in {"up", "down"}
<1> DEFINE at == IF Ends(p) /\ p = api THEN "up" ELSE "down"
<1>1. Resting(at) \in Position /\ Resting(at).at = at /\ at \in {"up", "down"}
  BY StepFacts DEF At, Resting, Position
<1>2. process' = [process EXCEPT ![p] = Resting(at)]
  BY DEF Ends, Dies
<1> HIDE DEF at
<1> QED
  BY <1>1, <1>2, Moved

\* A step of one process keeps what the others hold.
LEMMA HeldStep ==
  ASSUME Typed, NEW p \in Process, Moves(p),
         \A q \in Process : q # p => session'[q] = session[q],
         process'[p].at \in {"dating", "anchoring"} => session'[p] \in Session
  PROVE  Held'
BY DEF Typed, Held, Moves

\* A load gives its writer a session.
LEMMA Loads ==
  ASSUME Typed, NEW w \in Writer, Load(w)
  PROVE  /\ session' \in [Writer -> Session \cup {NoValue}]
         /\ session'[w] \in Session
         /\ \A v \in Writer : v # w => session'[v] = session[v]
<1>1. [row |-> document # NoValue, read |-> Loaded] \in Session
  BY LoadedDocument DEF Session
<1> QED
  BY <1>1 DEF Typed, Load

\* Who lets go of a session leaves the others theirs.
LEMMA Releases ==
  ASSUME Typed, NEW w \in Writer, session' = [session EXCEPT ![w] = NoValue]
  PROVE  /\ session' \in [Writer -> Session \cup {NoValue}]
         /\ \A v \in Writer : v # w => session'[v] = session[v]
BY DEF Typed

\* An anchor or a pricing mode of its own leaves the values as they are.
LEMMA DatedDocument ==
  ASSUME NEW d \in Document, NEW anchor \in 0..MaxClock
  PROVE  LET dated == [d EXCEPT !.anchor = anchor]
             seeding == [d EXCEPT !.anchor = anchor, !.pricing = "fallback_only"]
         IN /\ dated \in Document /\ seeding \in Document
            /\ dated.anchor = anchor /\ seeding.anchor = anchor
            /\ Values(dated) = Values(d) /\ Values(seeding) = Values(d)
<1>1. [d EXCEPT !.anchor = anchor] \in Document
  BY DEF Document
<1>2. [d EXCEPT !.anchor = anchor, !.pricing = "fallback_only"] \in Document
  BY DEF Document
<1>3. /\ [d EXCEPT !.anchor = anchor].thresholds = d.thresholds
      /\ [d EXCEPT !.anchor = anchor].concurrency = d.concurrency
      /\ [d EXCEPT !.anchor = anchor].anchor = anchor
  BY DEF Document
<1>4. /\ [d EXCEPT !.anchor = anchor, !.pricing = "fallback_only"].thresholds = d.thresholds
      /\ [d EXCEPT !.anchor = anchor, !.pricing = "fallback_only"].concurrency = d.concurrency
      /\ [d EXCEPT !.anchor = anchor, !.pricing = "fallback_only"].anchor = anchor
  BY DEF Document
<1> QED
  BY <1>1, <1>2, <1>3, <1>4 DEF Values

-------------------------------------------------------------------------------
(***************************************************************************)
(* Types and settings, step by step.                                       *)
(***************************************************************************)

\* A document that is stored is what the next load gives.
LEMMA StoredIsLoaded ==
  ASSUME document' \in Document
  PROVE  Loaded' = document'
BY HistoryAssumption DEF Loaded

\* A save stores its document, over the one its writer has read or else it is
\* recorded.
LEMMA Saves ==
  ASSUME Typed, ToldLoaded, NEW w \in Writer, NEW d \in Document, Save(w, d)
  PROVE  /\ document' = d /\ Loaded' = d /\ crossed' \in BOOLEAN
         /\ session' \in [Writer -> Session \cup {NoValue}]
         /\ \A v \in Writer : v # w => session'[v] = session[v]
         /\ ~crossed' => /\ ~crossed
                         /\ document # NoValue => document = session[w].read
                         /\ Values(session[w].read) = told
<1>1. document' = d /\ crossed' = (crossed \/ Loaded # session[w].read)
      /\ session' = [session EXCEPT ![w] = NoValue]
  BY DEF Save
<1>2. Loaded' = d
  BY <1>1, StoredIsLoaded
<1>3. ~crossed' => ~crossed /\ Loaded = session[w].read /\ Values(Loaded) = told
  BY <1>1 DEF ToldLoaded
<1>4. document # NoValue => Loaded = document
  BY DEF Loaded
<1> QED
  BY <1>1, <1>2, <1>3, <1>4, Releases

\* What a command stores, if anything: what it has loaded, with an anchor.
LEMMA DateStores ==
  ASSUME Typed, ToldLoaded, NEW c \in Command, NEW at, Date(c, at)
  PROVE  /\ document' \in Document \cup {NoValue} /\ crossed' \in BOOLEAN
         /\ session' \in [Writer -> Session \cup {NoValue}]
         /\ \A v \in Writer : v # c => session'[v] = session[v]
         /\ ~crossed' => Values(Loaded') = told
         /\ ~crossed' => /\ ~crossed
                         /\ document # NoValue =>
                              /\ document' # NoValue
                              /\ document.anchor # NoValue => document'.anchor = document.anchor
<1> DEFINE read == session[c].read
<1>1. c \in Process /\ c \in Writer /\ clock \in 0..MaxClock
  BY DEF Process, Writer, Typed
<1>2. read \in Document
  BY <1>1 DEF Date, Typed, Held, Session
<1> HIDE DEF read
<1>3. CASE read.anchor # NoValue
  <2>1. session' = [session EXCEPT ![c] = NoValue] /\ UNCHANGED <<document, crossed>>
    BY <1>3 DEF Date, read
  <2>2. Loaded' = Loaded
    BY <2>1 DEF Loaded
  <2> QED
    BY <1>1, <2>1, <2>2, Releases DEF Typed, ToldLoaded, Values
<1>4. CASE read.anchor = NoValue
  <2> DEFINE dated == [read EXCEPT !.anchor = clock]
  <2>1. Save(c, dated)
    BY <1>4 DEF Date, read
  <2>2. dated \in Document /\ Values(dated) = Values(read)
    BY <1>1, <1>2, DatedDocument
  <2> HIDE DEF dated
  <2>3. /\ document' = dated /\ Loaded' = dated /\ crossed' \in BOOLEAN
        /\ session' \in [Writer -> Session \cup {NoValue}]
        /\ \A v \in Writer : v # c => session'[v] = session[v]
        /\ ~crossed' => ~crossed /\ (document # NoValue => document = read) /\ Values(read) = told
    BY <1>1, <2>1, <2>2, Saves DEF read
  <2> QED
    BY <1>4, <2>2, <2>3, HistoryAssumption
<1> QED
  BY <1>3, <1>4

LEMMA StartKeeps ==
  ASSUME Typed, ToldLoaded, (\E seeds \in DemoSeed : StartApi(seeds)) \/ \E c \in Command : Start(c)
  PROVE  Typed' /\ ToldLoaded'
<1> USE DEF table
<1>1. Process \subseteq Writer /\ api \in Process /\ Command \subseteq Process
  BY DEF Writer, Process
<1>2. ASSUME NEW seeds \in DemoSeed, StartApi(seeds)
      PROVE  Typed' /\ ToldLoaded'
  <2> DEFINE at == IF seeds THEN "counting" ELSE "up"
  <2>1. /\ document' = Loaded /\ Go(api, at)
        /\ UNCHANGED <<clock, scans, disturbed, cut, session, told, crossed>>
    BY <1>2 DEF StartApi
  <2>2. at \in At /\ at \notin {"dating", "anchoring"}
    BY DEF At
  <2> HIDE DEF at
  <2>3. Moves(api) /\ process'[api].at = at
    BY <1>1, <2>1, <2>2, Went
  <2>4. Held'
    BY <1>1, <2>1, <2>2, <2>3, HeldStep
  <2>5. document' \in Document /\ Loaded' = Loaded
    BY <2>1, LoadedDocument, StoredIsLoaded
  <2> QED
    BY <2>1, <2>3, <2>4, <2>5 DEF Typed, ToldLoaded, Values, Moves
<1>3. ASSUME NEW c \in Command, Runtime(c)
      PROVE  Typed' /\ ToldLoaded'
  <2>1. /\ Load(c) /\ Go(c, "dating")
        /\ UNCHANGED <<document, clock, scans, disturbed, cut, told, crossed>>
    BY <1>3 DEF Runtime
  <2>2. Moves(c)
    BY <1>1, <2>1, Went DEF At
  <2>3. /\ session' \in [Writer -> Session \cup {NoValue}] /\ session'[c] \in Session
        /\ \A v \in Writer : v # c => session'[v] = session[v]
    BY <1>1, <2>1, Loads
  <2>4. Held'
    BY <1>1, <2>2, <2>3, HeldStep
  <2> QED
    BY <2>1, <2>2, <2>3, <2>4 DEF Typed, ToldLoaded, Values, Moves, Loaded
<1>4. ASSUME NEW c \in Command, NEW at \in {"counting", "resetting", "scanning", "down"}, Date(c, at)
      PROVE  Typed' /\ ToldLoaded'
  <2>1. /\ document' \in Document \cup {NoValue} /\ crossed' \in BOOLEAN
        /\ session' \in [Writer -> Session \cup {NoValue}]
        /\ \A v \in Writer : v # c => session'[v] = session[v]
        /\ ~crossed' => Values(Loaded') = told
    BY <1>4, DateStores
  <2>2. UNCHANGED <<clock, scans, disturbed, cut, told>> /\ process[c].at = "dating"
    BY <1>4 DEF Date
  <2>3. Moves(c) /\ process'[c].at = at
    <3> DEFINE read == session[c].read
               anchor == IF read.anchor # NoValue THEN read.anchor ELSE clock
               to == IF at = "scanning" THEN [at |-> at, step |-> 1, anchor |-> anchor] ELSE Resting(at)
    <3>1. read \in Document
      BY <1>1, <2>2 DEF Typed, Held, Session
    <3>2. anchor \in 0..MaxClock
      BY <3>1 DEF Document, Typed
    <3>3. process' = [process EXCEPT ![c] = to]
      BY <1>4 DEF Date
    <3> HIDE DEF anchor
    <3>4. to \in Position /\ to.at = at
      BY <3>2, StepFacts DEF Resting, Position, At
    <3> HIDE DEF to
    <3> QED
      BY <1>1, <3>3, <3>4, Moved
  <2>4. Held'
    BY <1>1, <2>1, <2>3, HeldStep
  <2> QED
    BY <2>1, <2>2, <2>3, <2>4 DEF Typed, ToldLoaded, Values, Moves
<1> QED
  BY <1>2, <1>3, <1>4 DEF Start

\* The seeder up to its anchor.
LEMMA AnchorKeeps ==
  ASSUME Typed, ToldLoaded, NEW p \in Process, Count(p) \/ LoadToSeed(p) \/ Anchor(p)
  PROVE  Typed' /\ ToldLoaded'
<1> USE DEF table
<1>1. p \in Writer /\ Process \subseteq Writer /\ clock \in 0..MaxClock
  BY DEF Writer, Typed
<1>2. CASE Count(p)
  <2>1. UNCHANGED <<document, clock, scans, disturbed, cut, session, told, crossed>>
    BY <1>2 DEF Count
  <2>2. Moves(p) /\ process'[p].at \in {"up", "down", "loading"}
    <3>1. CASE HistoryExists
      BY <1>2, <3>1, Rests DEF Count
    <3>2. CASE ~HistoryExists
      BY <1>2, <3>2, Went DEF Count, At
    <3> QED
      BY <3>1, <3>2
  <2>3. Held'
    BY <2>1, <2>2, HeldStep
  <2> QED
    BY <2>1, <2>2, <2>3 DEF Typed, ToldLoaded, Values, Moves, Loaded
<1>3. CASE LoadToSeed(p)
  <2>1. /\ Load(p) /\ Go(p, "anchoring")
        /\ UNCHANGED <<document, clock, scans, disturbed, cut, told, crossed>>
    BY <1>3 DEF LoadToSeed
  <2>2. Moves(p)
    BY <2>1, Went DEF At
  <2>3. /\ session' \in [Writer -> Session \cup {NoValue}] /\ session'[p] \in Session
        /\ \A v \in Writer : v # p => session'[v] = session[v]
    BY <1>1, <2>1, Loads
  <2>4. Held'
    BY <1>1, <2>2, <2>3, HeldStep
  <2> QED
    BY <2>1, <2>2, <2>3, <2>4 DEF Typed, ToldLoaded, Values, Moves, Loaded
<1>4. CASE Anchor(p)
  <2> DEFINE read == session[p].read
             anchored == [read EXCEPT !.anchor = clock, !.pricing = "fallback_only"]
             to == [at |-> "seeding", step |-> 1, anchor |-> clock]
  <2>1. /\ Save(p, anchored) /\ process' = [process EXCEPT ![p] = to] /\ process[p].at = "anchoring"
        /\ disturbed' \in BOOLEAN /\ UNCHANGED <<scans, clock, told, cut>>
    BY <1>4 DEF Anchor
  <2>2. read \in Document
    BY <1>1, <2>1 DEF Typed, Held, Session
  <2> HIDE DEF read
  <2>3. anchored \in Document /\ Values(anchored) = Values(read)
    BY <1>1, <2>2, DatedDocument
  <2> HIDE DEF anchored
  <2>4. /\ document' = anchored /\ Loaded' = anchored /\ crossed' \in BOOLEAN
        /\ session' \in [Writer -> Session \cup {NoValue}]
        /\ \A v \in Writer : v # p => session'[v] = session[v]
        /\ ~crossed' => Values(read) = told
    BY <1>1, <2>1, <2>3, Saves DEF read
  <2>5. to \in Position /\ to.at = "seeding"
    BY <1>1, StepFacts DEF Position, At
  <2> HIDE DEF to
  <2>6. Moves(p) /\ process'[p].at = "seeding"
    BY <2>1, <2>5, Moved
  <2>7. Held'
    BY <1>1, <2>4, <2>6, HeldStep
  <2> QED
    BY <2>1, <2>3, <2>4, <2>6, <2>7 DEF Typed, ToldLoaded, Moves
<1> QED
  BY <1>2, <1>3, <1>4

\* The seeder's scans, and the death of any process.
LEMMA SeedingKeeps ==
  ASSUME Typed, ToldLoaded, NEW p \in Process, RunStep(p) \/ Mark(p) \/ Crash(p)
  PROVE  Typed' /\ ToldLoaded'
<1> USE StepFacts
<1>1. process[p] \in Position /\ clock \in 0..MaxClock
  BY DEF Typed
<1>2. CASE RunStep(p)
  <2>1. UNCHANGED <<document, clock, session, told, disturbed, cut, crossed>>
    BY <1>2 DEF RunStep
  <2>2. Moves(p) /\ process'[p].at = "marking"
    BY <1>2, Went DEF RunStep, At
  <2>3. scans' \in Seq(Scan)
    <3> DEFINE scan == [step |-> process[p].step, by |-> p, anchor |-> process[p].anchor,
                        date |-> process[p].anchor - DaysBefore[process[p].step],
                        seeded |-> FALSE]
    <3>1. scan.date \in Int
      BY <1>1, HistoryAssumption DEF Position
    <3>2. scan \in Scan
      BY <1>1, <3>1 DEF Position, Scan
    <3>3. scans' = Append(scans, scan)
      BY <1>2 DEF RunStep
    <3> HIDE DEF scan
    <3> QED
      BY <3>2, <3>3 DEF Typed
  <2>4. Held'
    BY <2>1, <2>2, HeldStep
  <2> QED
    BY <2>1, <2>2, <2>3, <2>4 DEF Typed, ToldLoaded, Loaded, Values, Moves
<1>3. CASE Mark(p)
  <2>1. UNCHANGED <<document, clock, session, told, disturbed, cut, crossed>>
    BY <1>3 DEF Mark
  <2>2. scans' \in Seq(Scan)
    <3> DEFINE mine == {k \in DOMAIN scans : scans[k].by = p /\ scans[k].step = process[p].step
                                               /\ scans[k].anchor = process[p].anchor}
    <3>1. scans' = scans \/ scans' = Marked(mine)
      BY <1>3, Zenon DEF Mark, Marked
    <3> HIDE DEF mine
    <3> QED
      BY <3>1, MarkedScans DEF Typed
  <2>3. Moves(p) /\ process'[p].at \in {"up", "down", "seeding"}
    <3>1. Dies(p) \/ NextStep(p)
      BY <1>3, Zenon DEF Mark
    <3>2. CASE Dies(p)
      BY <3>2, Rests
    <3>3. CASE NextStep(p) /\ process[p].step = LastStep
      BY <3>3, Rests DEF NextStep
    <3>4. CASE NextStep(p) /\ process[p].step # LastStep
      <4> DEFINE to == [process[p] EXCEPT !.step = process[p].step + 1, !.at = "seeding"]
      <4>1. process[p].step + 1 \in Steps
        BY <1>1, <3>4 DEF Position
      <4>2. to \in Position /\ to.at = "seeding"
        BY <1>1, <4>1 DEF Position, At
      <4>3. process' = [process EXCEPT ![p] = to]
        BY <3>4 DEF NextStep, Typed
      <4> HIDE DEF to
      <4> QED
        BY <4>2, <4>3, Moved
    <3> QED
      BY <3>1, <3>2, <3>3, <3>4
  <2>4. Held'
    BY <2>1, <2>3, HeldStep
  <2> QED
    BY <2>1, <2>2, <2>3, <2>4 DEF Typed, ToldLoaded, Loaded, Values, Moves
<1>4. CASE Crash(p)
  <2>1. UNCHANGED <<document, scans, clock, told, disturbed, crossed>> /\ cut' \in BOOLEAN
    BY <1>4 DEF Crash, Typed
  <2>2. Moves(p) /\ process'[p].at \in {"up", "down"}
    BY <1>4, Rests DEF Crash
  <2>3. session' \in [Writer -> Session \cup {NoValue}]
    BY <1>4 DEF Crash, Typed
  <2>4. \A q \in Process : q # p => session'[q] = session[q]
    BY <1>4, HistoryAssumption DEF Crash, Writer
  <2>5. Held'
    BY <2>2, <2>4, HeldStep
  <2> QED
    BY <2>1, <2>2, <2>3, <2>5 DEF Typed, ToldLoaded, Loaded, Values, Moves
<1> QED
  BY <1>2, <1>3, <1>4

LEMMA CommandKeeps ==
  ASSUME Typed, ToldLoaded, NEW c \in Command, RunScan(c) \/ Reset(c)
  PROVE  Typed' /\ ToldLoaded'
<1> USE StepFacts
<1>1. c \in Process /\ process[c] \in Position
  BY DEF Typed, Process
<1>2. Moves(c) /\ process'[c].at \in {"up", "down"} /\ UNCHANGED session
  BY <1>1, Rests DEF RunScan, Reset
<1>3. Held'
  BY <1>1, <1>2, HeldStep
<1>4. CASE RunScan(c)
  <2>1. UNCHANGED <<document, clock, session, told, cut, crossed>> /\ disturbed' \in BOOLEAN
    BY <1>4 DEF RunScan, Typed
  <2>2. scans' \in Seq(Scan)
    <3> DEFINE scan == [step |-> UserStep, by |-> NoValue, anchor |-> process[c].anchor,
                        date |-> clock, seeded |-> FALSE]
    <3>1. scan \in Scan
      BY <1>1 DEF Position, Scan, Typed
    <3>2. scans' = Append(scans, scan)
      BY <1>4 DEF RunScan
    <3> HIDE DEF scan
    <3> QED
      BY <3>1, <3>2 DEF Typed
  <2> QED
    BY <1>2, <1>3, <2>1, <2>2 DEF Typed, ToldLoaded, Loaded, Values, Moves
<1>5. CASE Reset(c)
  <2>1. /\ scans' = <<>> /\ document' = NoValue /\ told' = Values(Default)
        /\ disturbed' \in BOOLEAN /\ cut' \in BOOLEAN /\ crossed' \in BOOLEAN
        /\ UNCHANGED <<clock, session>>
    BY <1>5 DEF Reset
  <2>2. Loaded' = Default
    BY <2>1 DEF Loaded, Default
  <2> QED
    BY <1>2, <1>3, <2>1, <2>2 DEF Typed, ToldLoaded, Values, Moves
<1> QED
  BY <1>4, <1>5

LEMMA PatchKeeps ==
  ASSUME Typed, ToldLoaded, NEW r \in Request, Read(r) \/ Patch(r) \/ Refuse(r)
  PROVE  Typed' /\ ToldLoaded'
<1> USE DEF table
<1>1. r \in Writer /\ r \notin Process /\ Process \subseteq Writer
  BY HistoryAssumption DEF Writer
<1>2. UNCHANGED <<clock, scans, disturbed, cut, process>>
  BY DEF Read, Patch, Refuse
<1>3. ASSUME \A v \in Writer : v # r => session'[v] = session[v]
      PROVE  Held'
  BY <1>1, <1>2, <1>3 DEF Typed, Held
<1>4. CASE Read(r)
  <2>1. UNCHANGED <<document, told, crossed>> /\ Load(r)
    BY <1>4 DEF Read
  <2> QED
    BY <1>1, <1>2, <1>3, <2>1, Loads DEF Typed, ToldLoaded, Loaded, Values
<1>5. CASE Refuse(r)
  <2>1. UNCHANGED <<document, told, crossed>> /\ session' = [session EXCEPT ![r] = NoValue]
    BY <1>5 DEF Refuse
  <2> QED
    BY <1>1, <1>2, <1>3, <2>1, Releases DEF Typed, ToldLoaded, Loaded, Values
<1>6. CASE Patch(r)
  <2> DEFINE read == session[r].read
  <2>1. read \in Document
    BY <1>1, <1>6 DEF Patch, Typed, Session
  <2> HIDE DEF read
  <2>2. PICK ds \in SUBSET Detector, days \in Days, n \in Concurrency \cup {NoValue} :
          /\ Save(r, Merged(read, [d \in ds |-> days], n))
          /\ told' = Sent([thresholds |-> [d \in ds |-> days], concurrency |-> n], told)
    BY <1>6 DEF Patch, read
  <2> DEFINE merged == Merged(read, [d \in ds |-> days], n)
  <2>3. /\ merged \in Document
        /\ Values(merged) = Sent([thresholds |-> [d \in ds |-> days], concurrency |-> n], Values(read))
    BY <2>1, MergedDocument
  <2>4. Save(r, merged)
    BY <2>2
  <2> HIDE DEF merged
  <2>5. /\ document' = merged /\ Loaded' = merged /\ crossed' \in BOOLEAN
        /\ session' \in [Writer -> Session \cup {NoValue}]
        /\ \A v \in Writer : v # r => session'[v] = session[v]
        /\ ~crossed' => Values(read) = told
    BY <1>1, <2>3, <2>4, Saves DEF read
  <2>6. ~crossed' => Values(Loaded') = told'
    BY <2>2, <2>3, <2>5
  <2> QED
    BY <1>2, <1>3, <2>3, <2>5, <2>6 DEF Typed, ToldLoaded, Values
<1> QED
  BY <1>4, <1>5, <1>6

\* Types and what was told hold at all times.
THEOREM SettingsHold == Spec => [](Typed /\ ToldLoaded)
<1>1. Init => Typed /\ ToldLoaded
  <2> SUFFICES ASSUME Init PROVE Typed /\ ToldLoaded
    OBVIOUS
  <2>1. Default \in Document /\ [Default EXCEPT !.pricing = "auto"] \in Document
    BY HistoryAssumption DEF Default, Document
  <2>2. Values([Default EXCEPT !.pricing = "auto"]) = Values(Default)
    BY DEF Values, Default
  <2>3. Values(Loaded) = Values(Default)
    BY <2>1, <2>2, HistoryAssumption DEF Init, Loaded
  <2>4. Resting("down") \in Position /\ Resting("down").at = "down"
    BY StepFacts DEF Resting, Position, At
  <2>5. <<>> \in Seq(Scan)
    OBVIOUS
  <2>6. Held
    BY <2>4 DEF Init, Held
  <2> QED
    BY <2>1, <2>3, <2>4, <2>5, <2>6, StepFacts DEF Init, Typed, ToldLoaded
<1>2. Typed /\ ToldLoaded /\ [Next]_vars => (Typed /\ ToldLoaded)'
  <2> SUFFICES ASSUME Typed, ToldLoaded, [Next]_vars PROVE Typed' /\ ToldLoaded'
    OBVIOUS
  <2>1. CASE Tick
    <3>1. UNCHANGED <<document, table, process, session, told, crossed>> /\ clock' \in 0..MaxClock
      BY <2>1, HistoryAssumption DEF Tick, Typed
    <3> QED
      BY <3>1 DEF Typed, Held, ToldLoaded, Loaded, Values, table
  <2>2. CASE UNCHANGED vars
    BY <2>2 DEF vars, Typed, Held, ToldLoaded, Loaded, Values
  <2> QED
    BY <2>1, <2>2, StartKeeps, AnchorKeeps, SeedingKeeps, CommandKeeps, PatchKeeps DEF Next
<1> QED
  BY <1>1, <1>2, PTL DEF Spec

\* Every variable keeps its type.
THEOREM TypeCorrect == Spec => []TypeOK
<1>1. Typed => TypeOK
  <2> SUFFICES ASSUME Typed PROVE TypeOK
    OBVIOUS
  <2>1. \A k \in DOMAIN scans : scans[k] \in Scan
    BY DEF Typed
  <2>2. \A p \in Process : process[p] \in Position
    BY DEF Typed
  <2>3. \A k \in DOMAIN scans : scans[k].step \in 1..UserStep /\ scans[k].seeded \in BOOLEAN
    BY <2>1 DEF Scan
  <2>4. \A p \in Process : process[p].at \in At /\ process[p].step \in Steps
    BY <2>2 DEF Position
  <2> QED
    BY <2>3, <2>4 DEF Typed, TypeOK
<1> QED
  BY <1>1, SettingsHold, PTL

\* The stored settings are the last acknowledged ones until a request, a command or a
\* seeder saves over what it has not read.
THEOREM AcknowledgedIsStored == Spec => []SettingsAsAcknowledged
<1>1. Typed /\ ToldLoaded => SettingsAsAcknowledged
  BY DEF Typed, ToldLoaded, Loaded, SettingsAsAcknowledged
<1> QED
  BY <1>1, SettingsHold, PTL

-------------------------------------------------------------------------------
(***************************************************************************)
(* The seeded history, as long as no seeding has met another writer.       *)
(***************************************************************************)

\* The seeded scans are the first of the table, in order and of one anchor,
\* which is past.
Placed ==
  \A k \in BySeeder :
    /\ scans[k].step = k /\ scans[k].date = scans[k].anchor - DaysBefore[k]
    /\ scans[k].anchor = scans[1].anchor /\ scans[k].anchor <= clock
    /\ \A j \in 1..k : j \in BySeeder

Later ==
  \A j \in BySeeder : \A k \in DOMAIN scans \ BySeeder : scans[j].anchor <= scans[k].date

\* One process seeds; the table has what it has done and nothing else.
InProgress(p) ==
  /\ \A q \in Seeding : p = q
  /\ process[p].anchor <= clock
  /\ \A k \in DOMAIN scans :
       k \in BySeeder /\ scans[k].anchor = process[p].anchor /\ (k < process[p].step => scans[k].seeded)
  /\ process[p].at = "seeding" => Len(scans) = process[p].step - 1
  /\ process[p].at = "marking" => Len(scans) = process[p].step /\ scans[Len(scans)].by = p

Underway == \A p \in Seeding : InProgress(p)

Whole ==
  BySeeder # {} /\ ~cut /\ Seeding = {} => SeededWhole

\* The document has the anchor of the scans, those to come included.
Dated ==
  ~crossed =>
    /\ BySeeder # {} => document # NoValue /\ document.anchor = scans[1].anchor
    /\ \A p \in Seeding : document # NoValue /\ document.anchor = process[p].anchor

InOrder == ~disturbed => Placed /\ Later /\ Underway /\ Whole /\ Dated

\* The invariant says what the property does of two scans of the table.
LEMMA InOrderSuffices == Typed /\ InOrder => SeededInOrder
<1> SUFFICES ASSUME Typed, InOrder, ~disturbed
             PROVE  SeededInOrder
  BY DEF SeededInOrder
<1>1. Placed /\ Later /\ Whole /\ Dated
  BY DEF InOrder
<1>2. \A j, k \in DOMAIN scans : j < k /\ {j, k} \cap BySeeder # {} => scans[j].date <= scans[k].date
  <2> SUFFICES ASSUME NEW j \in DOMAIN scans, NEW k \in DOMAIN scans, j < k,
                      j \in BySeeder \/ k \in BySeeder
               PROVE  scans[j].date <= scans[k].date
    OBVIOUS
  <2>1. j \in Nat /\ k \in Nat /\ 1 <= j /\ scans[j] \in Scan /\ scans[k] \in Scan
    BY DEF Typed
  <2>2. CASE k \in BySeeder
    <3>1. j \in BySeeder
      BY <1>1, <2>1, <2>2 DEF Placed
    <3>2. j \in Steps /\ k \in Steps
      BY <1>1, <2>2, <3>1 DEF Placed, BySeeder
    <3>3. DaysBefore[j] \in Nat /\ DaysBefore[k] \in Nat /\ DaysBefore[j] > DaysBefore[k]
      BY <3>2, StepFacts, HistoryAssumption DEF Steps
    <3>4. /\ scans[j].date = scans[j].anchor - DaysBefore[j]
          /\ scans[k].date = scans[k].anchor - DaysBefore[k]
          /\ scans[j].anchor = scans[k].anchor /\ scans[j].anchor \in Int
      BY <1>1, <2>1, <2>2, <3>1, HistoryAssumption DEF Placed, Scan
    <3> HIDE DEF Steps
    <3> QED
      BY <3>3, <3>4
  <2>3. CASE k \notin BySeeder
    <3>1. j \in BySeeder /\ j \in Steps
      BY <1>1, <2>3 DEF Placed, BySeeder
    <3>2. DaysBefore[j] \in Nat
      BY <3>1, StepFacts
    <3>3. scans[j].date = scans[j].anchor - DaysBefore[j] /\ scans[j].anchor <= scans[k].date
      BY <1>1, <2>3, <3>1 DEF Placed, Later
    <3>4. scans[j].anchor \in Int /\ scans[k].date \in Int
      BY <2>1, HistoryAssumption DEF Scan
    <3> QED
      BY <3>2, <3>3, <3>4
  <2> QED
    BY <2>2, <2>3
<1>3. \A k \in BySeeder : /\ scans[k].step = k
                          /\ scans[k].anchor = scans[1].anchor
                          /\ scans[k].date = scans[k].anchor - DaysBefore[k]
  BY <1>1 DEF Placed
<1> QED
  BY <1>1, <1>2, <1>3 DEF SeededInOrder, Whole, Dated

\* What leaves the scans and the seeding alone leaves the history in order: the
\* seeder may go, if that is recorded, and a document keeps the anchor it has.
LEMMA Frame ==
  ASSUME Typed, InOrder, Typed', UNCHANGED <<scans, disturbed>>, clock <= clock',
         Seeding' \subseteq Seeding, \A p \in Seeding' : process'[p] = process[p],
         cut => cut', Seeding' # Seeding => cut',
         ~crossed' => /\ ~crossed
                      /\ document # NoValue =>
                           /\ document' # NoValue
                           /\ document.anchor # NoValue => document'.anchor = document.anchor
  PROVE  InOrder'
<1> SUFFICES ASSUME ~disturbed
             PROVE  Placed' /\ Later' /\ Underway' /\ Whole' /\ Dated'
  BY DEF InOrder
<1>1. Placed /\ Later /\ Underway /\ Whole /\ Dated
  BY DEF InOrder
<1>2. BySeeder' = BySeeder
  BY DEF BySeeder
<1>3. clock \in Int /\ clock' \in Int /\ \A k \in DOMAIN scans : scans[k].anchor \in 0..MaxClock
  <2>1. \A k \in DOMAIN scans : scans[k] \in Scan
    BY DEF Typed
  <2> QED
    BY <2>1, HistoryAssumption DEF Typed, Scan
<1>4. \A p \in Seeding : process[p].anchor \in 0..MaxClock
  BY DEF Typed, Seeding, Position
<1>5. Placed'
  <2>1. \A k \in BySeeder : scans[k].anchor \in Int
    BY <1>3, HistoryAssumption DEF BySeeder
  <2> QED
    BY <1>1, <1>2, <1>3, <2>1 DEF Placed
<1>6. Later'
  BY <1>1, <1>2 DEF Later
<1>7. Underway'
  <2> SUFFICES ASSUME NEW p \in Seeding'
               PROVE  InProgress(p)'
    BY DEF Underway
  <2>1. p \in Seeding /\ process'[p] = process[p] /\ process[p].anchor \in Int
    BY <1>4, HistoryAssumption
  <2>2. InProgress(p)
    BY <1>1, <2>1 DEF Underway
  <2> QED
    BY <1>2, <1>3, <2>1, <2>2 DEF InProgress
<1>8. Whole'
  BY <1>1, <1>2 DEF Whole, SeededWhole
<1>9. Dated'
  <2> SUFFICES ASSUME ~crossed'
               PROVE  /\ BySeeder # {} => document' # NoValue /\ document'.anchor = scans[1].anchor
                      /\ \A p \in Seeding' : document' # NoValue /\ document'.anchor = process'[p].anchor
    BY <1>2 DEF Dated
  <2>1. BySeeder # {} => scans[1].anchor # NoValue
    <3> SUFFICES ASSUME NEW k \in BySeeder PROVE scans[1].anchor # NoValue
      OBVIOUS
    <3>1. scans[k].anchor = scans[1].anchor /\ k \in DOMAIN scans
      BY <1>1 DEF Placed, BySeeder
    <3> QED
      BY <1>3, <3>1, HistoryAssumption
  <2>2. \A p \in Seeding : process[p].anchor # NoValue
    BY <1>4, HistoryAssumption
  <2> QED
    BY <1>1, <2>1, <2>2 DEF Dated
<1> QED
  BY <1>5, <1>6, <1>7, <1>8, <1>9

\* A seeding that starts undisturbed is of an empty table and of the clock's date.
LEMMA AnchorInOrder ==
  ASSUME Typed, InOrder, Typed', NEW p \in Process, Anchor(p)
  PROVE  InOrder'
<1> SUFFICES ASSUME ~disturbed'
             PROVE  Placed' /\ Later' /\ Underway' /\ Whole' /\ Dated'
  BY DEF InOrder
<1> DEFINE read == session[p].read
           to == [at |-> "seeding", step |-> 1, anchor |-> clock]
<1>1. /\ scans = <<>> /\ scans' = <<>> /\ clock' = clock
      /\ document' = [read EXCEPT !.anchor = clock, !.pricing = "fallback_only"]
      /\ process' = [process EXCEPT ![p] = to] /\ process[p].at = "anchoring"
      /\ Seeding = {}
  BY DEF Anchor, Save, HistoryExists
<1>2. BySeeder' = {} /\ DOMAIN scans' = {} /\ Len(scans') = 0
  BY <1>1 DEF BySeeder
<1>3. Seeding' = {p} /\ process'[p] = to
  <2>1. process \in [Process -> Position]
    BY DEF Typed
  <2> QED
    BY <1>1, <2>1 DEF Seeding
<1>4. document' # NoValue /\ document'.anchor = clock
  <2>1. clock \in 0..MaxClock /\ read \in Document
    BY <1>1 DEF Typed, Held, Session
  <2> HIDE DEF read
  <2>2. document' \in Document /\ document'.anchor = clock
    BY <1>1, <2>1, DatedDocument
  <2> QED
    BY <2>2, HistoryAssumption
<1>5. clock \in Int
  BY HistoryAssumption DEF Typed
<1>6. InProgress(p)'
  BY <1>1, <1>2, <1>3, <1>5 DEF InProgress
<1>7. Placed' /\ Later' /\ Whole'
  BY <1>2 DEF Placed, Later, Whole
<1> QED
  BY <1>2, <1>3, <1>4, <1>6, <1>7 DEF Underway, Dated

\* The next scan of a seeding goes where its step says.
LEMMA RunStepInOrder ==
  ASSUME Typed, InOrder, Typed', NEW p \in Process, RunStep(p)
  PROVE  InOrder'
<1> SUFFICES ASSUME ~disturbed'
             PROVE  Placed' /\ Later' /\ Underway' /\ Whole' /\ Dated'
  BY DEF InOrder
<1> DEFINE step == process[p].step
           anchor == process[p].anchor
           scan == [step |-> step, by |-> p, anchor |-> anchor,
                    date |-> anchor - DaysBefore[step], seeded |-> FALSE]
<1>1. /\ process[p].at = "seeding" /\ p \in Seeding
      /\ scans' = Append(scans, scan) /\ process' = [process EXCEPT ![p].at = "marking"]
      /\ UNCHANGED <<document, clock, disturbed, cut, crossed>>
  BY DEF RunStep, Go, Seeding
<1>2. Placed /\ Dated /\ InProgress(p)
  BY <1>1 DEF InOrder, Underway
<1>3. /\ process \in [Process -> Position] /\ process[p] \in Position
      /\ step \in Steps /\ step \in Nat /\ 1 \in 1..step
  BY StepFacts DEF Typed, Position
<1>4. /\ process'[p].at = "marking" /\ process'[p].step = step /\ process'[p].anchor = anchor
      /\ Seeding' = {p}
  <2>1. \A q \in Process : q # p => process'[q] = process[q]
    BY <1>1, <1>3
  <2>2. process'[p].at = "marking" /\ process'[p].step = step /\ process'[p].anchor = anchor
    BY <1>1, <1>3 DEF Position
  <2> QED
    BY <1>2, <2>1, <2>2 DEF Seeding, InProgress
<1>5. Len(scans) = step - 1 /\ \A k \in DOMAIN scans : k \in BySeeder /\ scans[k].anchor = anchor
                                                       /\ scans[k].seeded
  <2>1. Len(scans) = step - 1
    BY <1>1, <1>2 DEF InProgress
  <2>2. \A k \in DOMAIN scans : k < step
    BY <1>3, <2>1 DEF Typed
  <2> QED
    BY <1>2, <2>1, <2>2 DEF InProgress
<1> HIDE DEF scan
<1>6. /\ Len(scans') = step /\ DOMAIN scans' = 1..step /\ scans'[step] = scan
      /\ \A k \in 1..(step - 1) : scans'[k] = scans[k] /\ k \in DOMAIN scans
  BY <1>1, <1>3, <1>5 DEF Typed
<1>7. scan.step = step /\ scan.by = p /\ scan.anchor = anchor /\ scan.date = anchor - DaysBefore[step]
  BY DEF scan
<1> HIDE DEF step, anchor
<1>8. BySeeder' = 1..step
  BY <1>3, <1>5, <1>6, <1>7 DEF BySeeder
<1>9. \A k \in 1..step : scans'[k].anchor = anchor
  BY <1>3, <1>5, <1>6, <1>7
<1>10. Placed'
  <2>1. \A k \in 1..step : scans'[k].step = k /\ scans'[k].date = scans'[k].anchor - DaysBefore[k]
    <3>1. \A k \in 1..(step - 1) : scans[k].step = k /\ scans[k].date = scans[k].anchor - DaysBefore[k]
      BY <1>2, <1>5, <1>6 DEF Placed
    <3> QED
      BY <1>3, <1>6, <1>7, <3>1
  <2>2. anchor <= clock'
    BY <1>1, <1>2 DEF InProgress, anchor
  <2>3. \A k \in 1..step : scans'[k].anchor = scans'[1].anchor /\ scans'[k].anchor <= clock'
    <3>1. scans'[1].anchor = anchor
      BY <1>3, <1>9
    <3> QED
      BY <1>9, <2>2, <3>1
  <2>4. \A k \in 1..step : \A j \in 1..k : j \in 1..step
    BY <1>3
  <2> QED
    BY <1>8, <2>1, <2>3, <2>4 DEF Placed
<1>11. Later'
  BY <1>6, <1>8 DEF Later
<1>12. Underway'
  <2>1. p = p /\ process'[p].anchor <= clock' /\ process'[p].at = "marking" /\ process'[p].step = step
        /\ process'[p].anchor = anchor
    BY <1>1, <1>2, <1>4 DEF InProgress, anchor, step
  <2>2. \A k \in 1..step : k < step => scans'[k].seeded
    BY <1>3, <1>5, <1>6
  <2>3. InProgress(p)'
    <3>1. \A q \in Seeding' : p = q
      BY <1>4
    <3>2. \A k \in DOMAIN scans' :
            k \in BySeeder' /\ scans'[k].anchor = process'[p].anchor
            /\ (k < process'[p].step => scans'[k].seeded)
      BY <1>6, <1>8, <1>9, <2>1, <2>2
    <3>3. Len(scans') = process'[p].step /\ scans'[Len(scans')].by = p
      BY <1>6, <1>7, <2>1
    <3> QED
      BY <2>1, <3>1, <3>2, <3>3 DEF InProgress
  <2> QED
    BY <1>4, <2>3 DEF Underway
<1>13. Whole'
  BY <1>4 DEF Whole
<1>14. Dated'
  <2>1. scans'[1].anchor = anchor
    BY <1>3, <1>9
  <2>2. process'[p].anchor = anchor /\ Seeding' = {p}
    BY <1>4 DEF anchor
  <2>3. ~crossed => document # NoValue /\ document.anchor = anchor
    BY <1>1, <1>2 DEF Dated, anchor
  <2> QED
    BY <1>1, <2>1, <2>2, <2>3 DEF Dated
<1> QED
  BY <1>10, <1>11, <1>12, <1>13, <1>14

\* Marking finds the scan just committed, and it alone.
LEMMA MarkInOrder ==
  ASSUME Typed, InOrder, Typed', NEW p \in Process, Mark(p)
  PROVE  InOrder'
<1> SUFFICES ASSUME ~disturbed'
             PROVE  Placed' /\ Later' /\ Underway' /\ Whole' /\ Dated'
  BY DEF InOrder
<1> DEFINE step == process[p].step
           anchor == process[p].anchor
           mine == {k \in DOMAIN scans : scans[k].by = p /\ scans[k].step = step
                                          /\ scans[k].anchor = anchor}
<1>1. /\ process[p].at = "marking" /\ p \in Seeding
      /\ UNCHANGED <<document, clock, disturbed, cut, crossed>>
  BY DEF Mark, Seeding
<1>2. Placed /\ Later /\ Dated /\ InProgress(p)
  BY <1>1 DEF InOrder, Underway
<1>3. /\ process \in [Process -> Position] /\ process[p] \in Position
      /\ step \in Steps /\ step \in Nat /\ 1 \in 1..step
  BY StepFacts DEF Typed, Position
<1>4. /\ Len(scans) = step /\ DOMAIN scans = 1..step /\ scans[step].by = p
      /\ BySeeder = 1..step /\ step \in 1..step
      /\ \A k \in 1..step : scans[k].anchor = anchor /\ scans[k].step = k /\ scans[k] \in Scan
                            /\ (k < step => scans[k].seeded)
  <2>1. Len(scans) = step /\ DOMAIN scans = 1..step /\ scans[step].by = p
    BY <1>1, <1>2 DEF InProgress, Typed
  <2>2. BySeeder = 1..step
    BY <1>2, <2>1 DEF InProgress, BySeeder
  <2>3. \A k \in 1..step : scans[k].anchor = anchor /\ (k < step => scans[k].seeded)
    BY <1>2, <2>1 DEF InProgress
  <2>4. \A k \in 1..step : scans[k].step = k
    BY <1>2, <2>2 DEF Placed
  <2>5. \A k \in 1..step : scans[k] \in Scan
    BY <2>1 DEF Typed
  <2>6. step \in 1..step
    BY <1>3
  <2> HIDE DEF step, anchor
  <2> QED
    BY <2>1, <2>2, <2>3, <2>4, <2>5, <2>6
<1>5. mine # {} /\ step \in mine
  BY <1>4
<1>6. scans' = Marked(mine) /\ NextStep(p)
  BY <1>5, Zenon DEF Mark, Marked
<1> HIDE DEF mine
<1>7. /\ DOMAIN scans' = 1..step /\ Len(scans') = step
      /\ \A k \in 1..step : /\ scans'[k].step = scans[k].step /\ scans'[k].anchor = scans[k].anchor
                            /\ scans'[k].date = scans[k].date /\ scans'[k].seeded
  <2>1. DOMAIN scans' = 1..step
    BY <1>4, <1>6 DEF Marked
  <2>2. Len(scans') = step
    BY <1>3, <2>1 DEF Typed
  <2>3. \A k \in 1..step : scans'[k] = IF k \in mine
                                       THEN [scans[k] EXCEPT !.seeded = TRUE, !.by = NoValue]
                                       ELSE scans[k]
    BY <1>4, <1>6 DEF Marked
  <2>4. \A k \in 1..step : k \notin mine => k < step
    BY <1>3, <1>5
  <2>5. ASSUME NEW scan \in Scan
        PROVE  LET m == [scan EXCEPT !.seeded = TRUE, !.by = NoValue]
               IN m.step = scan.step /\ m.anchor = scan.anchor /\ m.date = scan.date /\ m.seeded
    BY DEF Scan
  <2>6. ASSUME NEW k \in 1..step
        PROVE  /\ scans'[k].step = scans[k].step /\ scans'[k].anchor = scans[k].anchor
               /\ scans'[k].date = scans[k].date /\ scans'[k].seeded
    <3>1. CASE k \in mine
      <4>1. scans[k] \in Scan /\ scans'[k] = [scans[k] EXCEPT !.seeded = TRUE, !.by = NoValue]
        BY <1>4, <2>3, <3>1
      <4> QED
        BY <4>1, <2>5
    <3>2. CASE k \notin mine
      BY <1>4, <2>3, <2>4, <3>2
    <3> QED
      BY <3>1, <3>2
  <2> QED
    BY <2>1, <2>2, <2>6
<1> HIDE DEF step, anchor
<1>8. BySeeder' = 1..step
  <2>1. \A k \in 1..step : scans[k].step \in Steps
    BY <1>4 DEF BySeeder
  <2> QED
    BY <1>7, <2>1 DEF BySeeder
<1>9. Placed'
  BY <1>1, <1>2, <1>3, <1>4, <1>7, <1>8 DEF Placed
<1>10. Later'
  BY <1>7, <1>8 DEF Later
<1>11. CASE step = LastStep
  <2>1. Seeding' = {}
    <3>1. Ends(p)
      BY <1>6, <1>11 DEF NextStep, step
    <3>2. \A q \in Process : q # p => process'[q] = process[q]
      BY <1>3, <3>1 DEF Ends
    <3>3. process'[p] = Resting(IF p = api THEN "up" ELSE "down")
      BY <1>3, <3>1 DEF Ends
    <3>4. process'[p].at \notin {"seeding", "marking"}
      BY <3>3 DEF Resting
    <3> QED
      BY <1>2, <3>2, <3>4 DEF Seeding, InProgress
  <2>2. Whole'
    BY <1>7, <1>8, <1>11, StepFacts DEF Whole, SeededWhole
  <2>3. Dated'
    BY <1>1, <1>2, <1>4, <1>7, <1>8, <2>1 DEF Dated
  <2> QED
    BY <1>9, <1>10, <2>1, <2>2, <2>3 DEF Underway
<1>12. CASE step # LastStep
  <2>1. /\ Seeding' = {p} /\ process'[p].at = "seeding" /\ process'[p].step = step + 1
        /\ process'[p].anchor = anchor
    <3>1. process' = [process EXCEPT ![p].step = @ + 1, ![p].at = "seeding"]
      BY <1>6, <1>12 DEF NextStep, step
    <3>2. \A q \in Process : q # p => process'[q] = process[q]
      BY <1>3, <3>1
    <3>3. process'[p] = [process[p] EXCEPT !.step = @ + 1, !.at = "seeding"]
      BY <1>3, <3>1
    <3>4. process'[p].at = "seeding" /\ process'[p].step = step + 1 /\ process'[p].anchor = anchor
      BY <1>3, <3>3 DEF Position, step, anchor
    <3> QED
      BY <1>2, <3>2, <3>4 DEF Seeding, InProgress
  <2>2. InProgress(p)'
    <3>1. \A q \in Seeding' : p = q
      BY <2>1
    <3>2. process'[p].anchor <= clock'
      BY <1>1, <1>2, <2>1 DEF InProgress, anchor
    <3>3. \A k \in DOMAIN scans' :
            k \in BySeeder' /\ scans'[k].anchor = process'[p].anchor /\ scans'[k].seeded
      BY <1>4, <1>7, <1>8, <2>1
    <3>4. Len(scans') = process'[p].step - 1
      BY <1>3, <1>7, <2>1
    <3> QED
      BY <2>1, <3>1, <3>2, <3>3, <3>4 DEF InProgress
  <2>3. Dated'
    <3>1. ~crossed => document # NoValue /\ document.anchor = anchor
      BY <1>1, <1>2 DEF Dated, anchor
    <3>2. scans'[1].anchor = anchor
      BY <1>3, <1>4, <1>7
    <3> QED
      BY <1>1, <2>1, <3>1, <3>2 DEF Dated
  <2> QED
    BY <1>9, <1>10, <2>1, <2>2, <2>3 DEF Underway, Whole
<1> QED
  BY <1>11, <1>12

\* A scan of the command line is dated by the clock, after all that is seeded.
LEMMA RunScanInOrder ==
  ASSUME Typed, InOrder, Typed', NEW c \in Command, RunScan(c)
  PROVE  InOrder'
<1> SUFFICES ASSUME ~disturbed'
             PROVE  Placed' /\ Later' /\ Underway' /\ Whole' /\ Dated'
  BY DEF InOrder
<1> DEFINE scan == [step |-> UserStep, by |-> NoValue, anchor |-> process[c].anchor,
                    date |-> clock, seeded |-> FALSE]
<1>1. /\ scans' = Append(scans, scan) /\ scan.step = UserStep /\ scan.date = clock
      /\ UNCHANGED <<document, clock, cut, crossed>>
      /\ ~disturbed /\ Seeding = {}
  BY DEF RunScan
<1>2. Placed /\ Later /\ Whole /\ Dated
  BY <1>1 DEF InOrder
<1>3. Seeding' = {}
  <2>1. c \in Process /\ process \in [Process -> Position] /\ c # api
    BY HistoryAssumption DEF Typed, Process
  <2>2. process' = [process EXCEPT ![c] = Resting("down")]
    BY <2>1 DEF RunScan, Ends
  <2>3. \A q \in Process : q # c => process'[q] = process[q]
    BY <2>1, <2>2
  <2>4. process'[c].at = "down"
    BY <2>1, <2>2 DEF Resting
  <2> QED
    BY <1>1, <2>3, <2>4 DEF Seeding
<1> HIDE DEF scan
<1>4. /\ \A k \in DOMAIN scans : scans'[k] = scans[k]
      /\ DOMAIN scans' = DOMAIN scans \cup {Len(scans) + 1} /\ scans'[Len(scans) + 1] = scan
  BY <1>1 DEF Typed
<1>5. BySeeder' = BySeeder /\ BySeeder \subseteq DOMAIN scans
  BY <1>1, <1>4, StepFacts DEF BySeeder
<1>6. \A k \in BySeeder : scans'[k] = scans[k] /\ scans'[1] = scans[1] /\ 1 \in BySeeder
  <2> SUFFICES ASSUME NEW k \in BySeeder
               PROVE  scans'[k] = scans[k] /\ scans'[1] = scans[1] /\ 1 \in BySeeder
    OBVIOUS
  <2>1. k \in Nat \ {0}
    BY <1>5 DEF Typed
  <2>2. 1 \in BySeeder
    BY <1>2, <2>1 DEF Placed
  <2> QED
    BY <1>4, <1>5, <2>2
<1>7. Placed'
  BY <1>1, <1>2, <1>5, <1>6 DEF Placed
<1>8. Later'
  <2> SUFFICES ASSUME NEW j \in BySeeder, NEW k \in DOMAIN scans' \ BySeeder
               PROVE  scans'[j].anchor <= scans'[k].date
    BY <1>5 DEF Later
  <2>1. scans'[j] = scans[j] /\ scans[j].anchor <= clock
    BY <1>2, <1>6 DEF Placed
  <2> QED
    BY <1>1, <1>2, <1>4, <2>1 DEF Later
<1>9. Whole'
  BY <1>1, <1>2, <1>5, <1>6 DEF Whole, SeededWhole
<1>10. Dated'
  BY <1>1, <1>2, <1>3, <1>5, <1>6 DEF Dated
<1> QED
  BY <1>3, <1>7, <1>8, <1>9, <1>10 DEF Underway

\* An empty table is in order if no one seeds.
LEMMA ResetInOrder ==
  ASSUME Typed, NEW c \in Command, Reset(c)
  PROVE  InOrder'
<1> SUFFICES ASSUME ~disturbed'
             PROVE  Placed' /\ Later' /\ Underway' /\ Whole' /\ Dated'
  BY DEF InOrder
<1>1. scans' = <<>> /\ Seeding = {}
  BY DEF Reset
<1>2. BySeeder' = {}
  BY <1>1 DEF BySeeder
<1>3. Seeding' = {}
  <2>1. c \in Process /\ process \in [Process -> Position] /\ c # api
    BY HistoryAssumption DEF Typed, Process
  <2>2. process' = [process EXCEPT ![c] = Resting("down")]
    BY <2>1 DEF Reset, Ends
  <2>3. \A q \in Process : q # c => process'[q] = process[q]
    BY <2>1, <2>2
  <2>4. process'[c].at = "down"
    BY <2>1, <2>2 DEF Resting
  <2> QED
    BY <1>1, <2>3, <2>4 DEF Seeding
<1> QED
  BY <1>2, <1>3 DEF Placed, Later, Underway, Whole, Dated

\* A process that moves, and not to seed, changes no seeding but its own.
LEMMA OthersSeed ==
  ASSUME Typed, NEW p \in Process, Moves(p), process'[p].at \notin {"seeding", "marking"}
  PROVE  Seeding' = Seeding \ {p} /\ \A q \in Seeding' : process'[q] = process[q]
BY DEF Seeding, Moves

\* The steps of a process that leave the scans and the document alone, or date it.
LEMMA ProcessQuiet ==
  ASSUME Typed, ToldLoaded, InOrder, Typed', NEW p \in Process,
         \/ p = api /\ \E seeds \in DemoSeed : StartApi(seeds)
         \/ p \in Command /\ Start(p)
         \/ Count(p) \/ LoadToSeed(p) \/ Crash(p)
  PROVE  InOrder'
<1> USE DEF table
<1>1. clock \in Int /\ clock <= clock
  BY HistoryAssumption DEF Typed
<1>2. ASSUME Moves(p), process'[p].at \notin {"seeding", "marking"},
             UNCHANGED <<scans, disturbed, clock>>, cut => cut', p \in Seeding => cut',
             ~crossed' => /\ ~crossed
                          /\ document # NoValue =>
                               /\ document' # NoValue
                               /\ document.anchor # NoValue => document'.anchor = document.anchor
      PROVE  InOrder'
  <2>1. Seeding' = Seeding \ {p} /\ \A q \in Seeding' : process'[q] = process[q]
    BY <1>2, OthersSeed
  <2>2. Seeding' # Seeding => p \in Seeding
    BY <2>1
  <2> QED
    BY <1>1, <1>2, <2>1, <2>2, Frame
<1>3. CASE p = api /\ \E seeds \in DemoSeed : StartApi(seeds)
  <2>1. PICK at \in {"counting", "up"} : Go(p, at)
    BY <1>3 DEF StartApi
  <2>2. Moves(p) /\ process'[p].at = at
    BY <2>1, Went DEF At
  <2>3. UNCHANGED <<scans, disturbed, clock, cut, crossed>> /\ document' = Loaded
        /\ process[p].at = "down"
    BY <1>3 DEF StartApi
  <2>4. document # NoValue => document' = document
    BY <2>3 DEF Loaded
  <2>5. p \notin Seeding
    BY <2>3 DEF Seeding
  <2> QED
    BY <1>2, <2>2, <2>3, <2>4, <2>5
<1>4. CASE p \in Command /\ Runtime(p)
  <2>1. UNCHANGED <<scans, disturbed, clock, cut, crossed, document>> /\ Go(p, "dating")
        /\ process[p].at = "down"
    BY <1>4 DEF Runtime
  <2>2. Moves(p) /\ process'[p].at = "dating"
    BY <2>1, Went DEF At
  <2>3. p \notin Seeding
    BY <2>1 DEF Seeding
  <2> QED
    BY <1>2, <2>1, <2>2, <2>3
<1>5. ASSUME p \in Command, NEW at \in {"counting", "resetting", "scanning", "down"}, Date(p, at)
      PROVE  InOrder'
  <2>1. UNCHANGED <<scans, disturbed, clock, cut>> /\ process[p].at = "dating"
    BY <1>5 DEF Date
  <2>2. Moves(p) /\ process'[p].at = at
    <3> DEFINE to == process'[p]
    <3>1. process' \in [Process -> Position] /\ process \in [Process -> Position]
      BY DEF Typed
    <3>2. \A q \in Process : q # p => process'[q] = process[q]
      BY <1>5, <3>1 DEF Date
    <3>3. process'[p].at = at
      BY <1>5, <3>1 DEF Date, Resting
    <3> QED
      BY <3>1, <3>2, <3>3 DEF Moves
  <2>3. ~crossed' => /\ ~crossed
                     /\ document # NoValue =>
                          /\ document' # NoValue
                          /\ document.anchor # NoValue => document'.anchor = document.anchor
    BY <1>5, DateStores
  <2>4. p \notin Seeding
    BY <2>1 DEF Seeding
  <2> QED
    BY <1>2, <2>1, <2>2, <2>3, <2>4
<1>6. CASE Count(p)
  <2>1. UNCHANGED <<scans, disturbed, clock, cut, crossed, document>> /\ process[p].at = "counting"
    BY <1>6 DEF Count
  <2>2. Moves(p) /\ process'[p].at \in {"up", "down", "loading"}
    <3>1. CASE HistoryExists
      BY <1>6, <3>1, Rests DEF Count
    <3>2. CASE ~HistoryExists
      BY <1>6, <3>2, Went DEF Count, At
    <3> QED
      BY <3>1, <3>2
  <2>3. p \notin Seeding
    BY <2>1 DEF Seeding
  <2> QED
    BY <1>2, <2>1, <2>2, <2>3
<1>7. CASE LoadToSeed(p)
  <2>1. UNCHANGED <<scans, disturbed, clock, cut, crossed, document>> /\ Go(p, "anchoring")
        /\ process[p].at = "loading"
    BY <1>7 DEF LoadToSeed
  <2>2. Moves(p) /\ process'[p].at = "anchoring"
    BY <2>1, Went DEF At
  <2>3. p \notin Seeding
    BY <2>1 DEF Seeding
  <2> QED
    BY <1>2, <2>1, <2>2, <2>3
<1>8. CASE Crash(p)
  <2>1. UNCHANGED <<scans, disturbed, document, clock, crossed>>
        /\ (cut => cut') /\ (p \in Seeding => cut')
    BY <1>8 DEF Crash
  <2>2. Moves(p) /\ process'[p].at \in {"up", "down"}
    BY <1>8, Rests DEF Crash
  <2> QED
    BY <1>2, <2>1, <2>2
<1> QED
  BY <1>3, <1>4, <1>5, <1>6, <1>7, <1>8 DEF Start

\* Requests leave the scans alone, and the anchor as they have read it.
LEMMA RequestQuiet ==
  ASSUME Typed, ToldLoaded, InOrder, Typed', NEW r \in Request, Read(r) \/ Patch(r) \/ Refuse(r)
  PROVE  InOrder'
<1> USE DEF table
<1>1. clock \in Int /\ clock <= clock /\ r \in Writer
  BY HistoryAssumption DEF Typed, Writer
<1>2. UNCHANGED <<scans, disturbed, clock, cut, process>>
  BY DEF Read, Patch, Refuse
<1>3. Seeding' = Seeding
  BY <1>2 DEF Seeding
<1>4. CASE UNCHANGED <<document, crossed>>
  BY <1>1, <1>2, <1>3, <1>4, Frame
<1>5. CASE Patch(r)
  <2> DEFINE read == session[r].read
  <2>1. read \in Document
    BY <1>1, <1>5 DEF Patch, Typed, Session
  <2> HIDE DEF read
  <2>2. PICK ds \in SUBSET Detector, days \in Days, n \in Concurrency \cup {NoValue} :
          Save(r, Merged(read, [d \in ds |-> days], n))
    BY <1>5 DEF Patch, read
  <2> DEFINE merged == Merged(read, [d \in ds |-> days], n)
  <2>3. merged \in Document /\ merged.anchor = read.anchor
    BY <2>1, MergedDocument
  <2>4. Save(r, merged)
    BY <2>2
  <2> HIDE DEF merged
  <2>5. document' = merged /\ (~crossed' => ~crossed /\ (document # NoValue => document = read))
    BY <1>1, <2>3, <2>4, Saves DEF read
  <2>6. document' # NoValue
    BY <2>3, <2>5, HistoryAssumption
  <2> QED
    BY <1>1, <1>2, <1>3, <2>3, <2>5, <2>6, Frame
<1> QED
  BY <1>4, <1>5 DEF Read, Refuse

\* As long as no seeding meets another writer, the seeded scans are the first of
\* the table, in the order of their dates and of one anchor, and all there and marked
\* once a seeding that was not cut short is over; and until a writer saves over what it
\* has not read, their anchor is the document's.
THEOREM SeededHistoryInOrder == Spec => []SeededInOrder
<1>1. Init => InOrder
  <2> SUFFICES ASSUME Init PROVE InOrder
    OBVIOUS
  <2>1. BySeeder = {} /\ Seeding = {}
    BY DEF Init, BySeeder, Seeding, Resting
  <2> QED
    BY <2>1 DEF InOrder, Placed, Later, Underway, Whole, Dated
<1>2. Typed /\ ToldLoaded /\ Typed' /\ InOrder /\ [Next]_vars => InOrder'
  <2> SUFFICES ASSUME Typed, ToldLoaded, Typed', InOrder, [Next]_vars PROVE InOrder'
    OBVIOUS
  <2>1. clock \in Int /\ api \in Process /\ Command \subseteq Process
    BY HistoryAssumption DEF Typed, Process
  <2>2. CASE Tick \/ UNCHANGED vars
    <3>1. UNCHANGED <<scans, disturbed, document, cut, process, crossed>> /\ clock <= clock'
      BY <2>1, <2>2 DEF Tick, table, vars
    <3>2. Seeding' = Seeding
      BY <3>1 DEF Seeding
    <3> QED
      BY <3>1, <3>2, Frame
  <2>3. CASE \E p \in Process : Count(p) \/ LoadToSeed(p) \/ Anchor(p)
    BY <2>3, ProcessQuiet, AnchorInOrder
  <2>4. CASE \E p \in Process : RunStep(p) \/ Mark(p) \/ Crash(p)
    BY <2>4, ProcessQuiet, RunStepInOrder, MarkInOrder
  <2>5. CASE \E c \in Command : Start(c) \/ RunScan(c) \/ Reset(c)
    BY <2>1, <2>5, ProcessQuiet, RunScanInOrder, ResetInOrder
  <2>6. CASE \E seeds \in DemoSeed : StartApi(seeds)
    BY <2>1, <2>6, ProcessQuiet
  <2>7. CASE \E r \in Request : Read(r) \/ Patch(r) \/ Refuse(r)
    BY <2>7, RequestQuiet
  <2> QED
    BY <2>2, <2>3, <2>4, <2>5, <2>6, <2>7 DEF Next
<1> QED
  BY <1>1, <1>2, SettingsHold, InOrderSuffices, PTL DEF Spec
===============================================================================
