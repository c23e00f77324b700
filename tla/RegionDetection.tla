--------------------------- MODULE RegionDetection ---------------------------
(***************************************************************************)
(* One region of a scan: the thread of _detect_region (scanner/engine.py)  *)
(* runs the four detectors (detectors/*.py) over an account that goes on   *)
(* changing, through the scan's memo of listings (providers/memoizing.py)  *)
(* and the paginated, throttled calls of the AWS provider                  *)
(* (providers/aws/*.py), and resolves who owns what it found               *)
(* (ownership/resolver.py).                                                *)
(*                                                                         *)
(* A listing is not an instant: each page shows its resources as they are  *)
(* when that page is asked for.  The memo's keys hold the region, so no    *)
(* other thread of the scan meets this one.  Prices, tags and the texts of *)
(* the evidence are left out.                                              *)
(***************************************************************************)
EXTENDS Integers, Sequences, FiniteSets, SequencesExt

CONSTANTS
  Volume, Address, Instance, Snapshot, Stack,
  Accounts,     \* states of the account when the scan begins
  Source,       \* the volume each snapshot was taken of
  Devices,      \* the volumes and addresses that can be attached to an instance
  Members,      \* the resources of each stack
  Tagged,       \* the resources that carry a tag of CloudFormation
  Protection,   \* per snapshot which of "image", "sharing", "lock" protect it
  PageOf,       \* the page on which a listing shows a thing
  Attempts,     \* 4: the first call and three retries
  Errors,       \* how calls may fail: "denied", "unavailable", "failed", "unexpected"
  MaxErrors, MaxChanges,   \* bounds on what the environment does
  NoValue

Kinds == <<Volume, Address, Instance, Snapshot, Stack>>
Resource == Volume \cup Address \cup Instance \cup Snapshot
Thing == Resource \cup Stack

-------------------------------------------------------------------------------
(***************************************************************************)
(* The account.  An id is born once and dies once.                         *)
(***************************************************************************)

Moves(r) ==
  CASE r \in Volume   -> {<<"unborn", "available">>, <<"available", "in-use">>,
                          <<"in-use", "available">>, <<"available", "gone">>}
    [] r \in Address  -> {<<"unborn", "free">>, <<"free", "in-use">>,
                          <<"in-use", "free">>, <<"free", "gone">>}
    [] r \in Instance -> {<<"running", "stopped">>, <<"stopped", "running">>, <<"stopped", "gone">>}
    [] r \in Snapshot -> {<<"unborn", "pending">>, <<"pending", "completed">>,
                          <<"completed", "gone">>}
    [] OTHER          -> {<<"unborn", "live">>, <<"live", "gone">>}

State == {"unborn", "available", "in-use", "free", "running", "stopped", "pending",
          "completed", "live", "gone"}

Exists(s) == s \notin {"unborn", "gone"}

\* What is in use is attached to an instance.
Legal(account) ==
  \A r \in Volume \cup Address : account[r] = "in-use" =>
    \E i \in Instance : r \in Devices[i] /\ Exists(account[i])

ASSUME DetectionAssumption ==
  /\ IsFiniteSet(Thing)
  /\ \A j, k \in 1..5 : j # k => Kinds[j] \cap Kinds[k] = {}
  /\ Accounts \subseteq [Thing -> State] /\ \A a \in Accounts : Legal(a)
  /\ Source \in [Snapshot -> Volume]
  /\ Devices \in [Instance -> SUBSET (Volume \cup Address)]
  /\ Members \in [Stack -> SUBSET Resource] /\ 1 \notin Stack
  /\ Protection \in [Snapshot -> SUBSET {"image", "sharing", "lock"}]
  /\ PageOf \in [Thing -> Nat \ {0}]
  /\ Attempts \in Nat \ {0} /\ MaxErrors \in Nat /\ MaxChanges \in Nat
  /\ Errors \subseteq {"denied", "unavailable", "failed", "unexpected"}
  /\ NoValue \notin {"denied", "unavailable", "failed", "unexpected"}

VARIABLES
  state,      \* the account
  seen,       \* history: the states of each thing since the scan began
  turn,       \* the detector at work, an index of Detectors
  at,         \* its next call, an index of Calls
  heard,      \* its local variables: the listings it has
  warned,     \* the listings it goes on without, with a warning
  call,       \* the call under way
  memo,       \* ScanScopedProvider._cache
  index,      \* the resolver's _loaded, _index_available, _index
  cells,      \* the cells so far
  region,     \* "RUNNING" or the status returned
  errors, changes   \* how often the environment has acted

account == <<state, seen, changes>>
result == <<turn, cells, region>>
vars == <<state, seen, turn, at, heard, warned, call, memo, index, cells, region, errors, changes>>

-------------------------------------------------------------------------------
(***************************************************************************)
(* What the detectors ask for, in this order.                              *)
(***************************************************************************)

Detectors == <<"UNATTACHED_EBS_VOLUME", "UNASSOCIATED_ELASTIC_IP",
               "STOPPED_EC2_INSTANCE", "SNAPSHOT_MISSING_SOURCE_VOLUME">>

Listings == {"volumes", "addresses", "instances", "snapshots", "images", "locks",
             "attributes", "stacks"}
Memoized == Listings \ {"locks", "attributes"}

\* The calls of a detector, and the one of the resolver at its first candidate.
Calls(d) ==
  CASE d = "UNATTACHED_EBS_VOLUME"   -> <<"volumes", "stacks">>
    [] d = "UNASSOCIATED_ELASTIC_IP" -> <<"addresses", "stacks">>
    [] d = "STOPPED_EC2_INSTANCE"    -> <<"instances", "volumes", "addresses", "stacks">>
    [] OTHER -> <<"snapshots", "volumes", "images", "locks", "attributes", "stacks">>

\* Mutant: a snapshot's source volumes are optional, as an instance's are.
ToleratesVolumes(d, listing, error) ==
  \/ d = "STOPPED_EC2_INSTANCE" /\ listing \in {"volumes", "addresses"} /\ error = "denied"
  \/ listing \in {"volumes", "images", "locks", "stacks"} /\ d # Detectors[1] /\ error # "unexpected"

\* The failed calls a detector or the resolver catches: only a missing
\* permission for the details of an instance, any provider error for those of
\* a snapshot and for the stacks.
Tolerates(d, listing, error) ==
  \/ d = "STOPPED_EC2_INSTANCE" /\ listing \in {"volumes", "addresses"} /\ error = "denied"
  \/ listing \in {"images", "locks", "stacks"} /\ error # "unexpected"

Ids(items) == {items[k].id : k \in DOMAIN items}

\* The filter of each detector over what it has heard.
Matches(d, item) ==
  CASE d = "UNATTACHED_EBS_VOLUME"   -> item.state = "available"
    [] d = "UNASSOCIATED_ELASTIC_IP" -> item.state = "free"
    [] d = "STOPPED_EC2_INSTANCE"    -> item.state = "stopped"
    [] OTHER -> item.state = "completed" /\ Source[item.id] \notin Ids(heard["volumes"])

\* What passes it, by the places in the listing.
Flagged(d) ==
  LET listed == heard[Calls(d)[1]]
  IN [k \in {k \in DOMAIN listed : Matches(d, listed[k])} |-> listed[k]]

\* What is attached to a stopped instance, as far as the listings show it.
Attached(item) ==
  {r \in item.holds : r \in Ids(heard["volumes"]) \cup Ids(heard["addresses"])}

\* The protections of a snapshot, as far as the listings show them.
Protects(item) ==
  {p \in {"image", "lock"} :
     item.id \in Ids(heard[IF p = "image" THEN "images" ELSE "locks"])}
  \cup {"sharing" : k \in {k \in DOMAIN heard["attributes"] :
                             /\ heard["attributes"][k].id = item.id
                             /\ heard["attributes"][k].state = "shared"}}

Details(d, item) ==
  CASE d = "STOPPED_EC2_INSTANCE"           -> Attached(item)
    [] d = "SNAPSHOT_MISSING_SOURCE_VOLUME" -> Protects(item)
    [] OTHER                                -> {}

-------------------------------------------------------------------------------
(***************************************************************************)
(* Calls to AWS.                                                           *)
(***************************************************************************)

Things(listing) ==
  CASE listing = "volumes"   -> Volume
    [] listing = "addresses" -> Address
    [] listing = "instances" -> Instance
    [] listing = "snapshots" -> Snapshot
    [] OTHER                 -> {}

\* The requests of a call: its pages; one per flagged snapshot; the stacks,
\* then one per stack (StackRequests).  describe_addresses has a single page.
LastPage(listing) == Max({1} \cup {PageOf[r] : r \in Things(listing)})

Requests(d, listing) ==
  IF listing = "attributes"
  THEN SetToSeq(Ids(Flagged(d)))
  ELSE [p \in 1..LastPage(listing) |-> p]

StackRequests == SetToSeq({s \in Stack : state[s] = "live"})

Item(r) ==
  [id |-> r, state |-> state[r],
   holds |-> IF r \in Instance THEN {x \in Devices[r] : state[x] = "in-use"} ELSE {}]

Mention(r, s) == [id |-> r, state |-> s, holds |-> {}]

\* What AWS answers to one request, now.
Content(d, listing, request) ==
  CASE listing = "images" -> 
         SetToSeq({Mention(s, "named") : s \in {s \in Snapshot : "image" \in Protection[s]}})
    [] listing = "locks" ->
         SetToSeq({Mention(s, "locked") : s \in {s \in Ids(Flagged(d)) : "lock" \in Protection[s]}})
    [] listing = "attributes" ->
         <<Mention(request, IF "sharing" \in Protection[request] THEN "shared" ELSE "private")>>
    [] listing = "stacks" ->
         IF request \in Stack THEN SetToSeq({Mention(r, "owned") : r \in Members[request]}) ELSE <<>>
    [] OTHER ->
         SetToSeq({Item(r) : r \in {r \in Things(listing) : PageOf[r] = request /\ Exists(state[r])}})

-------------------------------------------------------------------------------
TypeOK ==
  /\ \A r \in Thing : state[r] \in seen[r]
  /\ turn \in 1..Len(Detectors) + 1
  /\ warned \subseteq Listings
  /\ \A l \in Memoized : memo[l] # NoValue => memo[l].error \in Errors \cup {"failed", NoValue}
  /\ index \in [loaded : BOOLEAN, available : BOOLEAN, ids : SUBSET Resource]
  /\ Len(cells) = turn - 1
  /\ \A k \in DOMAIN cells :
       /\ cells[k].detector = Detectors[k]
       /\ cells[k].status \in {"COMPLETE", "MISSING_PERMISSION", "SKIPPED", "FAILED"}
       /\ cells[k].status # "COMPLETE" => cells[k].candidates = <<>>
  /\ region \in {"RUNNING", "COMPLETE", "PARTIAL", "FAILED", "SKIPPED"}

Nothing == [l \in Listings |-> <<>>]

Init ==
  /\ state \in Accounts
  /\ seen = [r \in Thing |-> {state[r]}]
  /\ turn = 1 /\ at = 1
  /\ heard = Nothing
  /\ warned = {}
  /\ call = NoValue
  /\ memo = [l \in Memoized |-> NoValue]
  /\ index = [loaded |-> FALSE, available |-> FALSE, ids |-> {}]
  /\ cells = <<>>
  /\ region = "RUNNING"
  /\ errors = 0 /\ changes = 0

Change(r) ==
  /\ region = "RUNNING" /\ changes < MaxChanges
  /\ \E s \in {m[2] : m \in {m \in Moves(r) : m[1] = state[r]}} :
       /\ r \in Snapshot /\ s = "pending" => Exists(state[Source[r]])
       /\ Legal([state EXCEPT ![r] = s])
       /\ state' = [state EXCEPT ![r] = s]
       /\ seen' = [seen EXCEPT ![r] = @ \cup {s}]
  /\ changes' = changes + 1
  /\ UNCHANGED <<turn, at, heard, warned, call, memo, index, cells, region, errors>>

-------------------------------------------------------------------------------
(***************************************************************************)
(* The cells.                                                              *)
(***************************************************************************)

D == Detectors[turn]
Working == region = "RUNNING" /\ turn <= Len(Detectors)
Asked == Calls(D)[at]

\* Mutant: the code of the error in the place of the status.
CellStatusByCode(error) ==
  CASE error = "denied"      -> "permission_denied"
    [] error = "unavailable" -> "region_unavailable"
    [] OTHER                 -> "provider_error"

CellStatus(error) ==
  CASE error = "denied"      -> "MISSING_PERMISSION"
    [] error = "unavailable" -> "SKIPPED"
    [] OTHER                 -> "FAILED"

\* The next detector starts with local variables of its own.
Turn(cell) ==
  /\ cells' = Append(cells, cell)
  /\ turn' = turn + 1 /\ at' = 1
  /\ heard' = Nothing /\ warned' = {}

\* A region that is unavailable ends the detection at once.
CellFails(error) ==
  /\ Turn([detector |-> D, status |-> CellStatus(error), candidates |-> <<>>])
  /\ region' = IF error = "unavailable" THEN "SKIPPED" ELSE region

\* Mutant: the index counts as available before it is read.
IndexLoadedEarly(items, error) ==
  index' = [loaded |-> TRUE, available |-> TRUE, ids |-> Ids(items)]

\* The resolver has the stacks, or an error: the index is loaded once.
IndexLoaded(items, error) ==
  index' = [loaded |-> TRUE, available |-> error = NoValue, ids |-> Ids(items)]

\* Mutant: the images are gone without in silence.
WarningsSilent(listing) == warned \cup ({listing} \ {"images"})

Warnings(listing) == warned \cup {listing}

\* A listing or an error reaches the detector that asked; what it goes on without
\* is empty to it.
Hear(listing, items, error) ==
  /\ IF listing = "stacks" THEN IndexLoaded(items, error) ELSE UNCHANGED index
  /\ IF error = NoValue \/ Tolerates(D, listing, error)
     THEN /\ heard' = [heard EXCEPT ![listing] = IF error = NoValue THEN items ELSE <<>>]
          /\ warned' = IF error = NoValue THEN warned ELSE Warnings(listing)
          /\ at' = at + 1
          /\ UNCHANGED result
     ELSE CellFails(error)

\* A detector without candidates asks for no details, and a resolver that has
\* its index does not ask again.
Skipped ==
  \/ Asked \in {"images", "locks", "attributes", "stacks"} /\ DOMAIN Flagged(D) = {}
  \/ Asked = "stacks" /\ index.loaded

Skip ==
  /\ Working /\ call = NoValue /\ at <= Len(Calls(D)) /\ Skipped
  /\ at' = at + 1
  /\ UNCHANGED <<account, result, heard, warned, call, memo, index, errors>>

\* A call of the provider: the remembered answer or error, or requests to AWS.
Ask ==
  /\ Working /\ call = NoValue /\ at <= Len(Calls(D)) /\ ~Skipped
  /\ IF Asked \in Memoized /\ memo[Asked] # NoValue
     THEN Hear(Asked, memo[Asked].items, memo[Asked].error) /\ UNCHANGED call
     ELSE /\ call' = [rest |-> Requests(D, Asked), attempt |-> 1, combined |-> <<>>]
          /\ UNCHANGED <<result, at, heard, warned, index>>
  /\ UNCHANGED <<account, memo, errors>>

\* The call ends; errors the provider does not know are not remembered.
Return(items, error) ==
  /\ call' = NoValue
  /\ memo' = IF Asked \in Memoized /\ error # "unexpected"
             THEN [memo EXCEPT ![Asked] = [items |-> items, error |-> error]] ELSE memo
  /\ Hear(Asked, items, error)

\* More requests follow.  Each request of the manual pagination, each snapshot
\* and each stack has attempts of its own.
Collect(items, rest) ==
  /\ call' = [call EXCEPT !.combined = items, !.rest = rest,
                          !.attempt = IF Things(Asked) = {} THEN 1 ELSE @]
  /\ UNCHANGED <<result, at, heard, warned, memo, index>>

Request == Head(call.rest)

\* A stack or a snapshot asked for by name after it has gone.
Vanished == Request \in Stack \cup Snapshot /\ ~Exists(state[Request])

Reply ==
  /\ Working /\ call # NoValue
  /\ ~Vanished
  /\ LET items == call.combined \o Content(D, Asked, Request)
         rest == IF Asked = "stacks" /\ Request \notin Stack THEN StackRequests ELSE Tail(call.rest)
     IN IF rest = <<>> THEN Return(items, NoValue) ELSE Collect(items, rest)
  /\ UNCHANGED <<account, errors>>

\* Mutant: a retry goes on with the pages it has, from the first page.
ThrottledKeeping ==
  /\ Working /\ call # NoValue /\ call.attempt < Attempts
  /\ call' = IF Things(Asked) = {} THEN [call EXCEPT !.attempt = @ + 1]
             ELSE [call EXCEPT !.attempt = @ + 1, !.rest = Requests(D, Asked)]
  /\ UNCHANGED <<account, result, at, heard, warned, memo, index, errors>>

\* Mutant: the attempts are not counted.
ThrottledForever ==
  /\ Working /\ call # NoValue /\ call.attempt < Attempts
  /\ call' = IF Things(Asked) = {} THEN call
             ELSE [rest |-> Requests(D, Asked), attempt |-> call.attempt, combined |-> <<>>]
  /\ UNCHANGED <<account, result, at, heard, warned, memo, index, errors>>

\* A throttled page starts the paginator over; the other calls repeat the
\* request that was throttled.
Throttled ==
  /\ Working /\ call # NoValue /\ call.attempt < Attempts
  /\ call' = IF Things(Asked) = {} THEN [call EXCEPT !.attempt = @ + 1]
             ELSE [rest |-> Requests(D, Asked), attempt |-> call.attempt + 1, combined |-> <<>>]
  /\ UNCHANGED <<account, result, at, heard, warned, memo, index, errors>>

\* Throttled for the last time, denied, no such region, any other error, or an
\* answer that cannot be mapped.
Fail(error) ==
  /\ Working /\ call # NoValue
  /\ \/ error \in Errors /\ errors < MaxErrors /\ errors' = errors + 1
     \/ error = "failed" /\ Vanished /\ UNCHANGED errors
  /\ IF Asked = "attributes" /\ error # "unexpected"
     THEN \* caught per snapshot, inside the loop over them
          LET items == Append(call.combined, Mention(Request, "unknown"))
          IN /\ warned' = Warnings("attributes")
             /\ IF Tail(call.rest) = <<>>
                THEN /\ call' = NoValue
                     /\ heard' = [heard EXCEPT !["attributes"] = items]
                     /\ at' = at + 1
                ELSE /\ call' = [call EXCEPT !.combined = items, !.rest = Tail(@), !.attempt = 1]
                     /\ UNCHANGED <<heard, at>>
             /\ UNCHANGED <<result, memo, index>>
     ELSE Return(<<>>, error)
  /\ UNCHANGED account

\* resolve() and the dependencies of a candidate.
Candidate(item) ==
  [id |-> item.id,
   ownership |-> IF item.id \in index.ids THEN "CONFIRMED"
                 ELSE IF item.id \in Tagged THEN "LIKELY" ELSE "UNKNOWN",
   evaluated |-> index.available,
   details |-> Details(D, item),
   warnings |-> warned \ {"stacks"}]

CellCompletes ==
  /\ Working /\ call = NoValue /\ at > Len(Calls(D))
  /\ Turn([detector |-> D, status |-> "COMPLETE",
           candidates |-> [k \in DOMAIN Flagged(D) |-> Candidate(Flagged(D)[k])]])
  /\ UNCHANGED <<account, region, call, memo, index, errors>>

Finish ==
  LET statuses == {cells[k].status : k \in DOMAIN cells}
  IN /\ region = "RUNNING" /\ turn > Len(Detectors)
     /\ region' = CASE statuses = {"COMPLETE"} -> "COMPLETE"
                    [] statuses \cap {"COMPLETE", "MISSING_PERMISSION"} # {} -> "PARTIAL"
                    [] OTHER -> "FAILED"
     /\ UNCHANGED <<account, turn, at, heard, warned, call, memo, index, cells, errors>>

Thread ==
  \/ Skip \/ Ask \/ Reply \/ Throttled \/ \E e \in Errors \cup {"failed"} : Fail(e)
  \/ CellCompletes \/ Finish

Next == Thread \/ \E r \in Thing : Change(r)

\* The thread runs; AWS answers every request, if only with an error.
Spec == Init /\ [][Next]_vars /\ WF_vars(Thread)

-------------------------------------------------------------------------------
Steadily(r, s) == seen[r] = {s}

Candidates == UNION {{cells[k].candidates[j] : j \in DOMAIN cells[k].candidates} : k \in DOMAIN cells}

\* The resources in each detector's condition for as long as the scan took.
Wasted(d) ==
  CASE d = "UNATTACHED_EBS_VOLUME"   -> {v \in Volume : Steadily(v, "available")}
    [] d = "UNASSOCIATED_ELASTIC_IP" -> {a \in Address : Steadily(a, "free")}
    [] d = "STOPPED_EC2_INSTANCE"    -> {i \in Instance : Steadily(i, "stopped")}
    [] OTHER -> {s \in Snapshot : Steadily(s, "completed") /\ Steadily(Source[s], "gone")}

\* reconcile() resolves what a COMPLETE cell does not hold and counts what it
\* holds: such a cell shows every resource that was in its condition all the
\* while, and no resource twice, through retries, remembered listings and
\* changes between pages.
CompleteMeansAllRead ==
  \A k \in DOMAIN cells : cells[k].status = "COMPLETE" =>
    /\ Wasted(cells[k].detector) \subseteq Ids(cells[k].candidates)
    /\ Cardinality(Ids(cells[k].candidates)) = Cardinality(DOMAIN cells[k].candidates)

\* A candidate was in its condition at some instant of the scan.  A snapshot is
\* no candidate if its source volume was there all the while; a volume born
\* after the volumes were listed is the one that can be reported missing
\* wrongly.
CandidatesWereTrue ==
  \A c \in Candidates :
    /\ c.id \in Volume => "available" \in seen[c.id]
    /\ c.id \in Address => "free" \in seen[c.id]
    /\ c.id \in Instance => "stopped" \in seen[c.id]
    /\ c.id \in Snapshot =>
         "completed" \in seen[c.id] /\ seen[Source[c.id]] \cap {"unborn", "gone"} # {}

\* A finding says "Not found in any CloudFormation stack" (resolver.py) only of
\* a resource that no stack of the whole scan holds, and names a stack only if
\* one of the scan held it.
OwnershipHonest ==
  \A c \in Candidates :
    /\ \A s \in Stack : c.id \in Members[s] /\ Steadily(s, "live") =>
         c.ownership = "CONFIRMED" \/ ~c.evaluated
    /\ c.ownership = "CONFIRMED" => \E s \in Stack : c.id \in Members[s] /\ "live" \in seen[s]

\* What a candidate does not show of its dependencies it warns about: what is
\* attached to a stopped instance goes on being billed, and a protected snapshot
\* must not be offered for deletion.
MissingIsWarned ==
  \A c \in Candidates : c.warnings = {} =>
    /\ c.id \in Snapshot => c.details = Protection[c.id]
    /\ c.id \in Instance =>
         {r \in Devices[c.id] : Steadily(r, "in-use")} \subseteq c.details

\* Detection ends, however often AWS throttles.
DetectionEnds == <>(region # "RUNNING")
===============================================================================
